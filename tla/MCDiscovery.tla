---------------------------- MODULE MCDiscovery ----------------------------
(* Small instances of Discovery: a plug seen over HTTP and MQTT, an        *)
(* inverter seen over Modbus and HTTP, a wallbox with a web page, SHIP and *)
(* an announcement under another address.                                  *)
EXTENDS Discovery, TLC

Page(label, host, family, answered, slug, mac) ==
  [source |-> "local_network_live", label |-> label, subnet |-> "lan",
   host |-> host, family |-> family, answered |-> answered,
   slug |-> slug, mac |-> mac, metrics |-> {"power", "energy"},
   appliance |-> TRUE, generic |-> family = "tasmota"]

Plug == Page(1, "h1", "tasmota", TRUE, "plug", "mac1")
PlugSlow == [Plug EXCEPT !.answered = FALSE, !.label = 2]
PlugTopics == [source |-> "mqtt_live", label |-> 3, slug |-> "plug",
               metrics |-> {"power"}]
Inverter == [source |-> "modbus_live", label |-> 4, subnet |-> "lan",
             host |-> "h2", metrics |-> {"power"}, profile |-> TRUE]
InverterPage == Page(5, "h2", "generic", TRUE, None, None)
WallboxPage == Page(6, "h3", "generic", TRUE, None, None)
WallboxShip == [source |-> "eebus_ship_live", label |-> 7, shipId |-> None,
                ski |-> "ski3", service |-> "box", host |-> "h3"]
WallboxCall == [source |-> "network_broadcast_live", label |-> 8,
                host |-> "v6", service |-> "box", instance |-> "box",
                uuid |-> None, urls |-> {}, protocol |-> "mdns",
                ship |-> TRUE, relevant |-> TRUE]

MCSightings == {Plug, PlugSlow, PlugTopics, Inverter, InverterPage,
                WallboxPage, WallboxShip, WallboxCall}
MCScenes ==
  {{}, {WallboxShip}, {WallboxCall}, {Plug, PlugTopics},
   {WallboxPage, WallboxShip, WallboxCall},
   {Inverter, InverterPage, WallboxShip, PlugTopics}}
MCOutages == {{}, {"lan"}}
MCSymmetry == Permutations(Runs)

(* What the theorems about Discovery take from the scans: see Discovery.   *)
ASSUME MCScansAreSound == ScansAreSound
=============================================================================
