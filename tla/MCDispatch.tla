----------------------------- MODULE MCDispatch -----------------------------
(* Small instances of Dispatch: the kinds of device it drives.             *)
EXTENDS Dispatch

MCLevels == {-12, -7, 0, 5, 7, 12, 20}

Blank == [power |-> Missing, rating |-> Missing, charge |-> Missing,
          discharge |-> Missing, soc |-> Missing, temperature |-> Missing,
          curtail |-> FALSE, plugged |-> TRUE, simulated |-> FALSE]

Kind(raw, chain, profile) ==
  [raw |-> raw, role |-> None, chain |-> chain, rating |-> 40, charge |-> 20,
   digits |-> 2, native |-> TRUE, configured |-> FALSE, connected |-> FALSE,
   device |-> [asset |-> raw, visible |-> TRUE, monitorable |-> TRUE,
               controllable |-> TRUE, telemetry |-> Blank,
               status |-> "optimizable"],
   candidate |-> [profile |-> profile, blocks |-> Range(chain)]]

Der == [Kind("pv_inverter", <<701, 702, 704>>, "sunspec_der_wmax_pct")
  EXCEPT !.device.telemetry = [Blank EXCEPT !.power = 8, !.rating = 10,
                               !.charge = 20, !.discharge = 20,
                               !.curtail = TRUE],
         !.rating = 10, !.digits = 3]
HybridChain == <<103, 120, 123, 124>>
Hybrid ==
  [Kind("pv_inverter", HybridChain, "sunspec_immediate_wmax_pct")
    EXCEPT !.device.telemetry = [Blank EXCEPT !.power = 8, !.rating = 40,
                                 !.charge = 8, !.soc = 60, !.curtail = TRUE],
           !.configured = TRUE, !.charge = 8]
HybridBattery == [Hybrid EXCEPT !.role = "battery", !.configured = FALSE,
                                !.candidate.profile =
                                  "sunspec_storage_basic_rate",
                                !.device.telemetry.curtail = FALSE]
Storage == [Kind("battery", <<124, 713>>, "sunspec_storage_basic_rate")
  EXCEPT !.device.telemetry = [Blank EXCEPT !.charge = 20, !.soc = 60]]
StorageLoad == [Storage EXCEPT !.role = "controllable_load", !.digits = 0]
Fine == [Storage EXCEPT !.digits = 3]
Shelly == [Kind("smart_appliance", <<>>, "shelly_http_relay")
  EXCEPT !.device.telemetry.power = 0]
Wallbox == [Kind("wallbox", <<>>, "tasmota_http_power")
  EXCEPT !.device.telemetry.charge = 12, !.connected = TRUE]
Unplugged == [Wallbox EXCEPT !.device.telemetry.plugged = FALSE]
HeatPump == [Kind("heat_pump", <<>>, "shelly_http_relay")
  EXCEPT !.device.telemetry.temperature = 20]
Simulated == [Kind("battery", <<>>, None)
  EXCEPT !.device.telemetry = [Blank EXCEPT !.soc = 50, !.simulated = TRUE]]
Meter == Kind("grid_meter", <<103>>, None)
Disabled == [Storage EXCEPT !.native = FALSE]
Locked == [Shelly EXCEPT !.device.status = "authentication_required"]

MCHttp == {Shelly, Wallbox, Unplugged, HeatPump, Simulated, Meter, Disabled,
           Locked}
MCSunSpec == {Der, Hybrid, HybridBattery, Storage, StorageLoad, Fine}
MCAll == MCHttp \cup MCSunSpec
MCStorage == {Storage}
=============================================================================
