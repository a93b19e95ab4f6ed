SPECIFICATION Spec
CONSTANTS
  Runs = {r1}
  r1 = r1
  Sightings <- MCSightings
  Scenes <- MCScenes
  Outages <- MCOutages
  Configured = {}
  Reachable = {"lan"}
  ModbusLive = FALSE
  Broker = TRUE
  MaxHosts = 1
  Legacy = {"old"}
  None = None
INVARIANT DevicesHaveAssets
