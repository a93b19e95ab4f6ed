------------------------------ MODULE SitePlan ------------------------------
(***************************************************************************)
(* The pure part of a HEMS replan for one asset: how telemetry and         *)
(* evidence become a canonical asset (constraints, command contract,       *)
(* eligibility), and which commands the planner's constraints admit.       *)
(*                                                                         *)
(* Power is counted in units of 250 W, so that the code's defaults are     *)
(* integers: 3 kW is 12, 2.5 kW is 10, 11 kW is 44, 3.5 kW is 14.  What a  *)
(* telemetry payload does not hold is Missing.                             *)
(***************************************************************************)
EXTENDS Integers, FiniteSets, FiniteSetsExt

CONSTANTS
  Levels,        \* bound: the powers a solution of the planner may hold
  Steps,         \* bound: the planning steps of the horizon
  ReservePct,    \* policy.battery_reserve_pct
  SocPerUnit     \* percent of charge one unit of power moves in one step

ASSUME SitePlanAssumption ==
  /\ Levels \subseteq Int /\ 0 \in Levels
  /\ Steps \in Nat \ {0}
  /\ ReservePct \in 0..100
  /\ SocPerUnit \in Nat

Missing == -1
None == "none"

AssetTypes == {"battery", "controllable_load", "ev_charger", "grid_meter",
               "heat_pump", "pv_inverter", "uncontrolled_load"}
SUPPORTED_DISPATCH_ASSET_TYPES ==
  {"battery", "controllable_load", "ev_charger", "heat_pump", "pv_inverter"}

SIMULATION_ADAPTER_NAME == "telemetry_simulation"
SUPPORTED_NATIVE_WRITE_PROFILES ==
  {"shelly_http_relay", "tasmota_http_power", "sunspec_storage_basic_rate",
   "sunspec_der_wmax_pct", "sunspec_immediate_wmax_pct"}

RUNTIME_ALLOWED_DEVICE_STATUSES == {"connected", "controllable", "optimizable"}
BLOCKING_DEVICE_STATUSES == {"authentication_required",
                             "manufacturer_access_required", "not_integratable"}

(* Telemetry is one record for every kind of device: measured power,       *)
(* inverter rating, charge and discharge limits, state of charge,          *)
(* temperature; whether curtailment was seen, whether a vehicle is plugged *)
(* in, and whether the payload marks a simulated device.                   *)
Telemetries ==
  [power : Int, rating : Int, charge : Int, discharge : Int, soc : Int,
   temperature : Int, curtail : BOOLEAN, plugged : BOOLEAN,
   simulated : BOOLEAN]
Known(x) == x # Missing
OrElse(x, y) == IF x \in {Missing, 0} THEN y ELSE x       \* Python's x or y

-----------------------------------------------------------------------------
(* Canonical asset *)

(* A confirmed binding's role overrides the discovered type.               *)
AssetType(raw, role, controllable, profile, simulated) ==
  CASE role # None -> role
    [] raw = "wallbox" -> "ev_charger"
    [] raw = "smart_appliance" ->
         IF controllable \/ profile # None \/ simulated
         THEN "controllable_load" ELSE "uncontrolled_load"
    [] raw \in AssetTypes -> raw
    [] OTHER -> "uncontrolled_load"

(* The type a load-control configuration gives the asset of a device.      *)
InferredAssetType(raw, controllable, profile, curtail, participates) ==
  CASE raw \in AssetTypes -> raw
    [] raw = "wallbox" -> "ev_charger"
    [] raw = "smart_appliance" ->
         IF controllable \/ profile # None \/ participates
         THEN "controllable_load" ELSE None
    [] curtail \/ profile \in {"sunspec_storage_basic_rate",
         "sunspec_der_wmax_pct", "sunspec_immediate_wmax_pct"} -> "pv_inverter"
    [] OTHER -> None

(* What the planner may ask of the asset: lo..hi, and for a battery the    *)
(* state of charge it starts from.  0 is a bound that is missing.          *)
BatteryConstraints(t) ==
  [lo |-> -Max({OrElse(t.charge, 0), OrElse(t.power, 0), 12}),
   hi |-> Max({OrElse(t.discharge, OrElse(t.charge, 0)),
                   OrElse(t.power, 0), 12}),
   soc |-> OrElse(t.soc, 50)]
EvConstraints(t) ==
  [lo |-> 0, hi |-> IF Known(t.charge) THEN t.charge ELSE 44, soc |-> Missing]
HeatPumpConstraints(t) ==
  [lo |-> 0, hi |-> Max({OrElse(t.power, 0), 10}), soc |-> Missing]
PvConstraints(t) ==
  [lo |-> 0, hi |-> OrElse(t.rating, 0), soc |-> Missing]
LoadConstraints(t) ==
  [lo |-> 0, hi |-> Max({OrElse(t.power, 1), 1}), soc |-> Missing]
NoConstraints == [lo |-> 0, hi |-> 0, soc |-> Missing]

AssetConstraints(type, t) ==
  CASE type = "battery" -> BatteryConstraints(t)
    [] type = "ev_charger" -> EvConstraints(t)
    [] type = "heat_pump" -> HeatPumpConstraints(t)
    [] type = "pv_inverter" -> PvConstraints(t)
    [] type = "controllable_load" -> LoadConstraints(t)
    [] OTHER -> NoConstraints

ValidationState(profile, simulated, native) ==
  CASE profile \in SUPPORTED_NATIVE_WRITE_PROFILES ->
         IF native THEN "native" ELSE "native_disabled"
    [] profile # None -> "unavailable"
    [] simulated -> "simulation"
    [] OTHER -> "unavailable"

AdapterName(profile, state) ==
  CASE state \in {"native", "native_disabled"} -> profile
    [] state = "simulation" -> SIMULATION_ADAPTER_NAME
    [] OTHER -> None

(* The bounds a contract must know before it is issued.                    *)
ContractIsComplete(type, t, c) ==
  /\ type \in SUPPORTED_DISPATCH_ASSET_TYPES
  /\ c.hi > 0
  /\ type = "heat_pump" => Known(t.temperature)
  /\ type = "pv_inverter" => t.curtail

NoContract == [kind |-> None, lo |-> 0, hi |-> 0,
               adapter |-> None, state |-> "unavailable"]

CommandContract(type, t, c, profile, native) ==
  LET state == ValidationState(profile, t.simulated, native)
  IN  IF ContractIsComplete(type, t, c)
      THEN [kind |-> IF type = "controllable_load"
                     THEN "boolean" ELSE "number",
            lo |-> c.lo, hi |-> c.hi,
            adapter |-> AdapterName(profile, state), state |-> state]
      ELSE NoContract

(* Eligibility of a device's asset; the order of the tests is the code's.  *)
AssessDispatchability(d, type, contract) ==
  CASE ~d.visible \/ ~d.monitorable -> "blocked"
    [] d.status \in BLOCKING_DEVICE_STATUSES -> "blocked"
    [] type \notin SUPPORTED_DISPATCH_ASSET_TYPES -> "read_only"
    [] ~d.controllable -> "plan_only"
    [] contract = NoContract -> "plan_only"
    [] contract.state \in {"native_disabled", "unavailable"} -> "plan_only"
    [] d.status \notin RUNTIME_ALLOWED_DEVICE_STATUSES -> "plan_only"
    [] OTHER -> "dispatchable"

CanonicalAsset(raw, role, d, profile, native) ==
  LET type == AssetType(raw, role, d.controllable, profile,
                        d.telemetry.simulated)
      c == AssetConstraints(type, d.telemetry)
      contract == CommandContract(type, d.telemetry, c, profile, native)
  IN  [type |-> type, constraints |-> c, contract |-> contract,
       eligibility |-> AssessDispatchability(d, type, contract)]

-----------------------------------------------------------------------------
(* Planner *)

(* The PV forecast: the peak is guessed from the power measured now, and   *)
(* daylight is the quarter of the peak the clock's hour promises.          *)
PvForecast(t, daylight) ==
  (Max({OrElse(t.power, 0), 14}) * daylight) \div 4

(* The starting state of charge must respect the reserve floor, or the     *)
(* whole site's problem is infeasible.                                     *)
Feasible(a) == a.type = "battery" => a.constraints.soc >= ReservePct

\* Mutant: the reserve floor is only demanded of the starting charge.
BatteryCommandsToEmpty(c) ==
  {p \in Levels \cap (c.lo..c.hi) : c.soc - p * SocPerUnit \in 0..100}

BatteryCommands(c) ==
  {p \in Levels \cap (c.lo..c.hi) :
     c.soc - p * SocPerUnit \in ReservePct..100}

\* Mutant: the forecast alone bounds an inverter.
PvCommandsUnrated(c, available) == Levels \cap (0..available)

PvCommands(c, available) ==
  {p \in Levels \cap (0..available) : c.hi > 0 => p <= c.hi}

RangeCommands(c) == Levels \cap (c.lo..c.hi)

NumericCommands(a, t, available) ==
  CASE a.type = "battery" -> BatteryCommands(a.constraints)
    [] a.type = "pv_inverter" -> PvCommands(a.constraints, available)
    [] a.type = "ev_charger" /\ ~t.plugged -> {0}
    [] OTHER -> RangeCommands(a.constraints)

(* The on/off schedules of a controllable load that satisfy the planner's  *)
(* constraints on on_state and start_state.                                *)
StepSet == 0..(Steps - 1)
StartStates(on) ==
  {start \in [StepSet -> 0..1] :
     /\ start[0] = on[0]
     /\ \A s \in 1..(Steps - 1) :
          /\ start[s] >= on[s] - on[s - 1]
          /\ start[s] <= 1 - on[s - 1]
          /\ start[s] <= on[s]}

\* Mutant: one step too few.
HeldTooShort(on, start, minimumOn) ==
  \A s \in StepSet :
    IF s + minimumOn > Steps
    THEN start[s] = 0
    ELSE \A h \in s..(s + minimumOn - 2) : on[h] >= start[s]

Held(on, start, minimumOn) ==
  \A s \in StepSet :
    IF s + minimumOn > Steps
    THEN start[s] = 0
    ELSE \A h \in s..(s + minimumOn - 1) : on[h] >= start[s]

LoadSchedules(minimumOn) ==
  {on \in [StepSet -> 0..1] :
     \E start \in StartStates(on) : Held(on, start, minimumOn)}

-----------------------------------------------------------------------------
(* Dispatcher *)

Clamped(v, lo, hi) == Max({lo, Min({hi, v})})

(* The command sent: clamped to the contract, or made a switch state.      *)
ClampedCommand(contract, v) ==
  IF contract.kind = "boolean"
  THEN IF v >= 1 THEN 1 ELSE 0
  ELSE Clamped(v, contract.lo, contract.hi)
=============================================================================
