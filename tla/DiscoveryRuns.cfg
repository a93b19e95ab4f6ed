SPECIFICATION Spec
CONSTANTS
  Runs = {r1, r2}
  r1 = r1
  r2 = r2
  Sightings <- MCSightings
  Scenes <- MCScenes
  Outages <- MCOutages
  Configured = {}
  Reachable = {"lan"}
  ModbusLive = TRUE
  Broker = TRUE
  MaxHosts = 1
  Legacy = {"old"}
  None = None
SYMMETRY MCSymmetry
INVARIANT TypeOK
INVARIANT RecordsPerDevice
 
