------------------------------ MODULE Dispatch ------------------------------
(***************************************************************************)
(* The dispatch of a HEMS plan to one device: a replan reads the device    *)
(* and the evidence of how to write it, solves, takes the write lock,      *)
(* clamps the command of the current interval, resolves a write adapter    *)
(* against the evidence as it is by then, and writes the device, a SunSpec *)
(* model register by register or a relay over HTTP.  The event and the     *)
(* device's telemetry are committed at the end.                            *)
(*                                                                         *)
(* The database session of the replan keeps the device it has read.  While *)
(* the solver runs nothing is locked: polls, discovery and the user change *)
(* the device, its endpoint and its candidate.  The device, its answers    *)
(* and what it measures are external.                                      *)
(***************************************************************************)
EXTENDS SitePlan, Sequences, Functions

CONSTANTS
  Installations,  \* the devices considered
  Measured,       \* powers a device may measure
  Charges,        \* states of charge a battery may report
  Daylights,      \* quarters of the PV peak the hour may promise
  MinimumOns,     \* minimum_on_minutes of a load, in planning steps
  MaxReplans,     \* bound on replans
  MaxChanges      \* bound on polls, discoveries and user actions

RawTypes == AssetTypes \cup {"wallbox", "smart_appliance", "unknown"}
Devices ==
  [asset : RawTypes \cup {None}, visible : BOOLEAN, monitorable : BOOLEAN,
   controllable : BOOLEAN, telemetry : Telemetries,
   status : RUNTIME_ALLOWED_DEVICE_STATUSES \cup BLOCKING_DEVICE_STATUSES
            \cup {"visible_only", "monitorable"}]

ASSUME DispatchAssumption ==
  /\ \A i \in Installations :
       /\ i.raw \in RawTypes /\ i.role \in AssetTypes \cup {None}
       /\ i.device \in Devices /\ i.connected \in BOOLEAN
       /\ {i.rating, i.charge} \subseteq Nat /\ i.digits \in 0..3
  /\ Measured \subseteq Nat /\ Charges \subseteq 0..100
  /\ Daylights \subseteq 0..4 /\ MinimumOns \subseteq Nat \ {0}
  /\ MaxReplans \in Nat /\ MaxChanges \in Nat

VARIABLES
  inst,       \* the device and the settings of the service
  device,     \* the committed Device row
  evidence,   \* candidate and endpoint evidence
  regs,       \* the registers of the device's control models
  relay,      \* the state of the device's relay
  pc,         \* stage of the replan
  ses,        \* what the replan's session holds
  event,      \* the last committed dispatch event
  replans,    \* replans started so far
  changes     \* environment steps so far

vars == <<inst, device, evidence, regs, relay, pc, ses, event, replans,
          changes>>
environment == <<inst, device, evidence>>

-----------------------------------------------------------------------------
(* Probing a SunSpec device *)

(* A probe walks the chain of model headers, which ends early when a       *)
(* header cannot be read, and then reads the models one by one.            *)
Probes(chain) ==
  LET ids == Range(chain)
  IN  {[ids |-> ids, read |-> ids \ lost] :
         lost \in {{}} \cup {{m} : m \in ids}}
      \cup {[ids |-> Range(SubSeq(chain, 1, n)),
             read |-> Range(SubSeq(chain, 1, n))] : n \in 1..Len(chain)}

(* The telemetry extractors of the models that were read.                  *)
Extracted(i, probe, power, soc) ==
  LET Has(models) == probe.read \cap models # {}
  IN  [power |-> IF Has({103, 701}) THEN power ELSE Missing,
       rating |-> IF Has({120, 702}) THEN i.rating ELSE Missing,
       charge |-> IF Has({124, 702}) THEN i.charge ELSE Missing,
       discharge |-> IF Has({702}) THEN i.charge ELSE Missing,
       soc |-> IF Has({124, 713}) THEN soc ELSE Missing,
       temperature |-> Missing, curtail |-> Has({123, 704}),
       plugged |-> TRUE, simulated |-> FALSE]

IsLimit(profile) ==
  profile \in {"sunspec_der_wmax_pct", "sunspec_immediate_wmax_pct"}
DispatchProfile(probe, t) ==
  CASE 704 \in probe.ids /\ Known(t.rating) -> "sunspec_der_wmax_pct"
    [] 123 \in probe.ids /\ Known(t.rating) -> "sunspec_immediate_wmax_pct"
    [] 124 \in probe.ids /\ (Known(t.soc) \/ Known(t.charge)) ->
         "sunspec_storage_basic_rate"
    [] OTHER -> None

NoTelemetry(t) ==
  /\ \A f \in {"power", "rating", "charge", "soc"} : t[f] = Missing
  /\ ~t.curtail

(* The type the models show, else the one the device's identification      *)
(* matches.                                                                *)
Classified(i, ids) ==
  CASE ids \cap {201, 202, 203, 204, 211, 212, 213} # {} -> "grid_meter"
    [] ids \cap {101, 102, 103} # {} -> "pv_inverter"
    [] ids \cap {124, 713} # {} -> "battery"
    [] OTHER -> i.raw

-----------------------------------------------------------------------------
(* Evidence *)

(* Endpoint evidence counts while the endpoint is connected and then hides *)
(* what the candidate's evidence says of the same key.                     *)
Profile(e) == IF e.connected /\ e.endpoint.profile # None
              THEN e.endpoint.profile ELSE e.candidate.profile
Blocks(e) == IF e.connected /\ e.endpoint.probed
             THEN e.endpoint.blocks ELSE e.candidate.blocks

(* A probe that finds no profile leaves the one the endpoint had.          *)
EndpointUpdated(p, profile, blocks) ==
  [profile |-> IF profile = None THEN p.profile ELSE profile,
   blocks |-> blocks, probed |-> TRUE]

-----------------------------------------------------------------------------
(* Control registers *)

DispatchModel(adapter) ==
  CASE adapter = "sunspec_storage_basic_rate" -> 124
    [] adapter = "sunspec_der_wmax_pct" -> 704
    [] adapter = "sunspec_immediate_wmax_pct" -> 123
    [] OTHER -> 0

(* The offsets of the points the adapters write, from the point tables:    *)
(* 124 has StorCtl_Mod at 5 and OutWRte, InWRte and three timers from 12,  *)
(* 123 has WMaxLimPct at 5, three timers and WMaxLim_Ena at 9, and 704 has *)
(* WMaxLimPctEna at 14 and WMaxLimPct at 15.                               *)
StorageOffsets == {5, 12, 13, 14, 15, 16}
ImmediateOffsets == 5..9
DerOffsets == {14, 15}
Offsets(model) == CASE model = 124 -> StorageOffsets
                    [] model = 123 -> ImmediateOffsets
                    [] model = 704 -> DerOffsets

Tens(digits) == CASE digits = 0 -> 1 [] digits = 1 -> 10
                  [] digits = 2 -> 100 [] digits = 3 -> 1000
RoundedRatio(n, m) ==                       \* Python's round(n / m)
  LET q == n \div m
      r == n % m
  IN  IF 2 * r > m \/ (2 * r = m /\ q % 2 = 1) THEN q + 1 ELSE q

(* round(percent / 10 ** sf) for a scale factor of -digits, percent being  *)
(* min(100, max(0, v / full * 100)).                                       *)
\* Mutant: the register value is truncated.
RawPercentTruncated(v, full, digits) ==
  (Clamped(v, 0, full) * 100 * Tens(digits)) \div full

RawPercent(v, full, digits) ==
  RoundedRatio(Clamped(v, 0, full) * 100 * Tens(digits), full)

Word == 65536                              \* 2^16, the values of a register

\* Mutant: an unsigned value is not masked to 16 bits.
Unsigned16Unmasked(raw) == raw

Unsigned16(raw) == raw % Word

FitsSigned16(raw) == raw < Word \div 2

\* Mutant: the rate of the direction that is not used is not cleared.
StorageImageBothRates(v, charge, discharge, digits) ==
  [o \in StorageOffsets |->
     CASE o = 5 -> IF v > 0 THEN 2 ELSE IF v < 0 THEN 1 ELSE 0
       [] o = 12 -> RawPercent(Max({v, -v}), discharge, digits)
       [] o = 13 -> RawPercent(Max({v, -v}), charge, digits)
       [] OTHER -> 0]

(* The timers are cleared, those of a limit too.                           *)
StorageImage(v, charge, discharge, digits) ==
  [o \in StorageOffsets |->
     CASE o = 5 -> IF v > 0 THEN 2 ELSE IF v < 0 THEN 1 ELSE 0
       [] o = 12 -> RawPercent(v, discharge, digits)
       [] o = 13 -> RawPercent(-v, charge, digits)
       [] OTHER -> 0]

ImmediateImage(v, rating, digits) ==
  [o \in ImmediateOffsets |->
     CASE o = 5 -> Unsigned16(RawPercent(v, rating, digits))
       [] o = 9 -> 1
       [] OTHER -> 0]
DerImage(v, rating, digits) ==
  [o \in DerOffsets |->
     IF o = 14 THEN 1 ELSE Unsigned16(RawPercent(v, rating, digits))]

(* The limits an adapter converts with; 0 is a missing one.                *)
MaxCharge(a, t) ==
  OrElse(CASE a.type = "battery" -> -a.constraints.lo
           [] a.type = "ev_charger" -> a.constraints.hi
           [] OTHER -> 0, OrElse(t.charge, 0))
MaxDischarge(a, t) ==
  OrElse(IF a.type = "battery" THEN a.constraints.hi ELSE 0,
         OrElse(t.discharge, MaxCharge(a, t)))
PowerRating(t) == OrElse(t.rating, 0)

LimitsKnown(adapter, a, t) ==
  IF adapter = "sunspec_storage_basic_rate"
  THEN MaxCharge(a, t) > 0 /\ MaxDischarge(a, t) > 0
  ELSE PowerRating(t) > 0

Image(adapter, v, a, t, digits) ==
  CASE adapter = "sunspec_storage_basic_rate" ->
         StorageImage(v, MaxCharge(a, t), MaxDischarge(a, t), digits)
    [] adapter = "sunspec_immediate_wmax_pct" ->
         ImmediateImage(v, PowerRating(t), digits)
    [] adapter = "sunspec_der_wmax_pct" ->
         DerImage(v, PowerRating(t), digits)

(* Signed points are packed before anything is written.                    *)
Encodes(adapter, image) ==
  adapter = "sunspec_storage_basic_rate" =>
    FitsSigned16(image[12]) /\ FitsSigned16(image[13])

(* A request overwrites its points and leaves the others as they were.     *)
Overwritten(r, image, chunk) ==
  [o \in DOMAIN r |-> IF o \in chunk THEN image[o] ELSE r[o]]

(* Adjacent points are written by one request, in the order of offsets.    *)
NextChunk(image) ==
  LET todo == DOMAIN image
      first == Min(todo)
  IN  {o \in todo : \A k \in first..o : k \in todo}

-----------------------------------------------------------------------------
(* The replan *)

Stages == {"idle", "solving", "dispatching", "reading", "writing",
           "switching", "done"}
Outcomes == {None, "applied", "simulated", "failed", "blocked"}
NoSchedule == [s \in StepSet |-> 0]
NoAsset == [type |-> None, constraints |-> NoConstraints,
            contract |-> NoContract, eligibility |-> "blocked"]
NoSession == [row |-> None, asset |-> NoAsset, telemetry |-> None, plan |-> 0,
              schedule |-> NoSchedule, minimumOn |-> 1,
              command |-> 0, adapter |-> None, image |-> <<>>,
              outcome |-> None]

(* A load-control configuration has the asset's type inferred again at     *)
(* every replan; a type that cannot be inferred leaves the row as it is.   *)
AssetRow ==
  LET profile == IF evidence.connected THEN evidence.endpoint.profile ELSE None
      inferred == InferredAssetType(inst.raw, device.controllable, profile,
                                    device.telemetry.curtail, TRUE)
  IN  IF inst.configured /\ inferred # None THEN inferred ELSE device.asset

(* The session reads the device and the evidence.  From here on it goes by *)
(* its own copy of the device.                                             *)
BuildSiteModel ==
  /\ pc = "idle" /\ replans < MaxReplans
  /\ replans' = replans + 1
  /\ pc' = "solving"
  /\ ses' = [NoSession EXCEPT
        !.row = AssetRow,
        !.asset = CanonicalAsset(AssetRow, inst.role, device,
                                 Profile(evidence), inst.native),
        !.telemetry = device.telemetry]
  /\ UNCHANGED <<environment, regs, relay, event, changes>>

(* No asset is dispatchable, the solver failed, or its answer is not       *)
(* trusted: the plan has no interval, and nothing is dispatched.           *)
SolveWithoutPlan ==
  /\ pc = "solving"
  /\ pc' = "done"
  /\ UNCHANGED <<environment, regs, relay, ses, event, replans, changes>>

Plan(v, on, minimumOn) ==
  /\ pc = "solving"
  /\ ses.asset.eligibility = "dispatchable"
  /\ Feasible(ses.asset)
  /\ pc' = "dispatching"
  /\ ses' = [ses EXCEPT !.plan = v, !.schedule = on,
                        !.minimumOn = minimumOn]
  /\ UNCHANGED <<environment, regs, relay, event, replans, changes>>

(* Storing the plan run takes the write lock, which is kept to the end.    *)
SolvePower ==
  \E daylight \in Daylights :
    \E v \in NumericCommands(ses.asset, ses.telemetry,
                             PvForecast(ses.telemetry, daylight)) :
      Plan(v, NoSchedule, 1)
SolveSwitch ==
  \E m \in MinimumOns :
    \E on \in LoadSchedules(m) : Plan(on[0], on, m)
Solve ==
  /\ pc = "solving"
  /\ IF ses.asset.type = "controllable_load" THEN SolveSwitch ELSE SolvePower

\* Mutant: the adapter does not ask whether the evidence still supports it.
AdaptersUnasked(contract) ==
  {x \in SUPPORTED_NATIVE_WRITE_PROFILES \cup {SIMULATION_ADAPTER_NAME} :
     x = contract.adapter}

(* resolve_write_adapter: the adapter the contract was assessed with, if   *)
(* the evidence read now still supports it.                                *)
Adapters(contract) ==
  {x \in {SIMULATION_ADAPTER_NAME} \cup
         (IF inst.native THEN SUPPORTED_NATIVE_WRITE_PROFILES ELSE {}) :
     /\ x = contract.adapter
     /\ x # SIMULATION_ADAPTER_NAME => Profile(evidence) = x}

Http(adapter) == adapter \in {"shelly_http_relay", "tasmota_http_power"}
NumericCommand(contract, v) ==           \* float(True) is 1.0, that is 1 kW
  IF contract.kind = "boolean" THEN 4 * v ELSE v

Command == ClampedCommand(ses.asset.contract, ses.plan)
Finish(outcome, s) == /\ pc' = "done"
                      /\ ses' = [s EXCEPT !.outcome = outcome]

DispatchBlocked ==
  /\ pc = "dispatching"
  /\ Adapters(ses.asset.contract) = {}
  /\ Finish("blocked", [ses EXCEPT !.command = Command])
  /\ UNCHANGED <<environment, regs, relay, event, replans, changes>>

(* The simulation adapter writes the command into the telemetry; for other *)
(* assets than a battery under a key that nothing here reads.              *)
DispatchSimulated ==
  /\ pc = "dispatching"
  /\ SIMULATION_ADAPTER_NAME \in Adapters(ses.asset.contract)
  /\ Finish("simulated",
       [ses EXCEPT !.command = Command, !.adapter = SIMULATION_ADAPTER_NAME,
          !.telemetry.power = IF ses.asset.type = "battery"
                              THEN Max({Command, -Command}) ELSE @])
  /\ UNCHANGED <<environment, regs, relay, event, replans, changes>>

(* A native adapter is chosen; a SunSpec one needs the block of its model, *)
(* and the two limit adapters the rating, before they read the device.     *)
MetadataMissing(adapter) ==
  \/ DispatchModel(adapter) \notin Blocks(evidence)
  \/ /\ adapter # "sunspec_storage_basic_rate"
     /\ ~LimitsKnown(adapter, ses.asset, ses.telemetry)
DispatchNative ==
  /\ pc = "dispatching"
  /\ \E adapter \in Adapters(ses.asset.contract)
                    \ {SIMULATION_ADAPTER_NAME} :
       LET s == [ses EXCEPT !.command = Command, !.adapter = adapter]
       IN  IF Http(adapter)
           THEN pc' = "switching" /\ ses' = s
           ELSE IF MetadataMissing(adapter)
                THEN Finish("failed", s)
                ELSE pc' = "reading" /\ ses' = s
  /\ UNCHANGED <<environment, regs, relay, event, replans, changes>>

(* The model is read for its scale factor.                                 *)
ReadFails ==
  /\ pc = "reading"
  /\ Finish("failed", ses)
  /\ UNCHANGED <<environment, regs, relay, event, replans, changes>>

Encoded ==
  Image(ses.adapter, NumericCommand(ses.asset.contract, ses.command),
        ses.asset, ses.telemetry, inst.digits)
ReadModel ==
  /\ pc = "reading"
  /\ IF ~LimitsKnown(ses.adapter, ses.asset, ses.telemetry)
     THEN Finish("failed", ses)
     ELSE /\ Encodes(ses.adapter, Encoded)
          /\ pc' = "writing"
          /\ ses' = [ses EXCEPT !.image = Encoded]
  /\ UNCHANGED <<environment, regs, relay, event, replans, changes>>

(* struct.error is not one of the errors the adapter handles: the request  *)
(* fails and the session is rolled back.                                   *)
EncodeRaises ==
  /\ pc = "reading"
  /\ LimitsKnown(ses.adapter, ses.asset, ses.telemetry)
  /\ ~Encodes(ses.adapter, Encoded)
  /\ pc' = "idle" /\ ses' = NoSession
  /\ UNCHANGED <<environment, regs, relay, event, replans, changes>>

(* The bookkeeping of a success: the storage adapter records the commanded *)
(* power as the measured one.                                              *)
Applied(s) ==
  [s EXCEPT !.telemetry.power = IF s.adapter = "sunspec_storage_basic_rate"
                                THEN Max({s.command, -s.command}) ELSE @]

(* One request of the write.  "lost" reached the device, but its answer    *)
(* did not come back; the first request without one ends the write.        *)
WriteChunk(answer) ==
  /\ pc = "writing"
  /\ LET chunk == NextChunk(ses.image)
         rest == Restrict(ses.image, DOMAIN ses.image \ chunk)
     IN  /\ regs' = IF answer = "refused" THEN regs
                    ELSE [regs EXCEPT ![DispatchModel(ses.adapter)] =
                            Overwritten(@, ses.image, chunk)]
         /\ IF answer # "ok" THEN Finish("failed", ses)
            ELSE IF DOMAIN rest = {}
            THEN Finish("applied", Applied([ses EXCEPT !.image = <<>>]))
            ELSE pc' = "writing" /\ ses' = [ses EXCEPT !.image = rest]
  /\ UNCHANGED <<environment, relay, event, replans, changes>>

(* A relay takes any positive power as "on".                               *)
Switch(answer) ==
  /\ pc = "switching"
  /\ relay' = IF answer = "refused" THEN relay
              ELSE IF ses.command > 0 THEN "on" ELSE "off"
  /\ Finish(IF answer = "ok" THEN "applied" ELSE "failed", ses)
  /\ UNCHANGED <<environment, regs, event, replans, changes>>

(* The events and the asset's row are stored and, after a success, the     *)
(* session's copy of the telemetry, whole.                                 *)
Commit ==
  /\ pc = "done"
  /\ pc' = "idle" /\ ses' = NoSession
  /\ event' = IF ses.outcome = None THEN event
              ELSE [status |-> ses.outcome, command |-> ses.command]
  /\ device' = [device EXCEPT
        !.asset = ses.row,
        !.telemetry = IF ses.outcome \in {"applied", "simulated"}
                      THEN ses.telemetry ELSE @]
  /\ UNCHANGED <<inst, evidence, regs, relay, replans, changes>>

Crash ==
  /\ pc # "idle"
  /\ pc' = "idle" /\ ses' = NoSession
  /\ UNCHANGED <<environment, regs, relay, event, replans, changes>>

-----------------------------------------------------------------------------
(* The device and its record meanwhile *)

(* The materialized row is flushed first, and that takes the write lock.   *)
Unlocked == pc = "idle" \/ (pc = "solving" /\ ~inst.configured)
Change == /\ Unlocked /\ changes < MaxChanges
          /\ changes' = changes + 1
          /\ UNCHANGED <<inst, regs, relay, pc, ses, event, replans>>

(* _update_device_from_probe.  A device that answers without telemetry     *)
(* keeps what it had.                                                      *)
Refreshed(d, t, profile, connected) ==
  IF NoTelemetry(t) THEN d
  ELSE [d EXCEPT
          !.visible = TRUE, !.monitorable = TRUE,
          !.controllable = @ \/ profile # None, !.telemetry = t,
          !.status = IF connected /\ @ = "visible_only" THEN "connected"
                     ELSE @]

(* probe_modbus_host with dispatch_profile_for_modbus_probe                *)
Probed ==
  {LET t == Extracted(inst, probe, power, soc)
   IN  [telemetry |-> t, profile |-> DispatchProfile(probe, t),
        blocks |-> probe.ids] :
     probe \in Probes(inst.chain), power \in Measured, soc \in Charges}

Poll ==
  /\ Change /\ inst.chain # <<>> /\ evidence.connected
  /\ \E p \in Probed :
       /\ device' = Refreshed(device, p.telemetry, p.profile, TRUE)
       /\ evidence' = [evidence EXCEPT
             !.endpoint = EndpointUpdated(@, p.profile, p.blocks)]

(* Discovery replaces the candidate, the device and its asset by what it   *)
(* probed, and the home graph hands the evidence on to the endpoint.       *)
Discover ==
  /\ Change /\ inst.chain # <<>>
  /\ \E p \in Probed :
       LET silent == NoTelemetry(p.telemetry)
       IN  /\ device' =
                [asset |-> Classified(inst, p.blocks), visible |-> TRUE,
                 monitorable |-> ~silent,
                 controllable |-> p.profile # None,
                 telemetry |-> [p.telemetry EXCEPT
                                  !.curtail = @ \/ IsLimit(p.profile)],
                 status |-> IF silent THEN "visible_only"
                            ELSE IF p.profile # None THEN "optimizable"
                            ELSE "monitorable"]
           /\ evidence' = [evidence EXCEPT
                 !.candidate = [profile |-> p.profile, blocks |-> p.blocks],
                 !.endpoint = EndpointUpdated(@, p.profile, p.blocks)]

Establish ==
  /\ Change /\ ~evidence.connected
  /\ evidence' = [evidence EXCEPT !.connected = TRUE]
  /\ device' = [device EXCEPT !.status = IF @ = "visible_only"
                                         THEN "connected" ELSE @]
Disconnect ==
  /\ Change /\ evidence.connected
  /\ evidence' = [evidence EXCEPT !.connected = FALSE]
  /\ device' = [device EXCEPT !.status = IF @ = "connected"
                                         THEN "visible_only" ELSE @]

Init ==
  /\ inst \in Installations
  /\ device = inst.device
  /\ evidence = [candidate |-> inst.candidate, connected |-> inst.connected,
                 endpoint |-> [profile |-> None, blocks |-> {},
                               probed |-> FALSE]]
  /\ regs = [m \in {123, 124, 704} |-> [o \in Offsets(m) |-> 1]]
  /\ relay = "off"
  /\ pc = "idle" /\ ses = NoSession
  /\ event = [status |-> None, command |-> 0]
  /\ replans = 0 /\ changes = 0

Answers == {"ok", "lost", "refused"}
Replan ==
  \/ BuildSiteModel \/ SolveWithoutPlan \/ Solve
  \/ DispatchBlocked \/ DispatchSimulated \/ DispatchNative
  \/ ReadFails \/ ReadModel \/ EncodeRaises
  \/ \E answer \in Answers : WriteChunk(answer) \/ Switch(answer)
  \/ Commit \/ Crash
Next == Replan \/ Poll \/ Discover \/ Establish \/ Disconnect

Spec == Init /\ [][Next]_vars
-----------------------------------------------------------------------------
(* Properties *)

(* Types: what the device's row, the session and the registers may hold.   *)
TypeOK ==
  /\ device.asset \in RawTypes \cup {None}
  /\ device.telemetry \in Telemetries
  /\ evidence.connected \in BOOLEAN
  /\ \A m \in DOMAIN regs : regs[m] \in [Offsets(m) -> 0..(Word - 1)]
  /\ relay \in {"on", "off"} /\ pc \in Stages
  /\ ses.outcome \in Outcomes /\ event.status \in Outcomes
  /\ ses.asset.eligibility \in {"dispatchable", "plan_only", "read_only",
                                "blocked"}
  /\ replans \in 0..MaxReplans /\ changes \in 0..MaxChanges

(* What the registers of a model say, in the units of the adapter.         *)
StorageRate(r) == CASE r[5] = 2 -> r[12] [] r[5] = 1 -> -r[13] [] OTHER -> 0
IsNearest(raw, v, full) ==
  LET off == raw * full - Clamped(v, -full, full) * 100 * Tens(inst.digits)
  IN  -full <= 2 * off /\ 2 * off <= full
NoTimers(r, timers) == \A o \in timers : r[o] = 0

StorageMeans(r, v) ==
  /\ NoTimers(r, 14..16)
  /\ IsNearest(StorageRate(r), v,
               IF v < 0 THEN MaxCharge(ses.asset, ses.telemetry)
               ELSE MaxDischarge(ses.asset, ses.telemetry))
LimitCanSay(v) ==
  /\ v >= 0
  /\ RawPercent(v, PowerRating(ses.telemetry), inst.digits) < Word
LimitMeans(raw, v) ==
  LimitCanSay(v) => IsNearest(raw, v, PowerRating(ses.telemetry))

(* A dispatch that ends as applied has left the device with the command:   *)
(* the rate of its direction, or the limit, is the nearest the registers   *)
(* can hold, enabled and without a timer that would end it.  Two commands  *)
(* are excepted that a limit cannot say: charging, which is sent as 0 %,   *)
(* and a percentage too large for 16 bits, which _encode_point_value masks.*)
(* (apply of the native adapters and write_sunspec_model_points.)          *)
AppliedMeansSet ==
  pc = "done" /\ ses.outcome = "applied" =>
    LET v == NumericCommand(ses.asset.contract, ses.command)
    IN  CASE Http(ses.adapter) -> (relay = "on") = (ses.command > 0)
          [] ses.adapter = "sunspec_storage_basic_rate" ->
               StorageMeans(regs[124], v)
          [] ses.adapter = "sunspec_immediate_wmax_pct" ->
               /\ NoTimers(regs[123], 6..8) /\ regs[123][9] = 1
               /\ LimitMeans(regs[123][5], v)
          [] ses.adapter = "sunspec_der_wmax_pct" ->
               regs[704][14] = 1 /\ LimitMeans(regs[704][15], v)

(* A storage device is never turned round at the rate of an earlier        *)
(* command: the write that changes the direction and the one that sets the *)
(* rate are two requests, and a battery that runs stops in between, also   *)
(* when the second one, now or in an earlier dispatch, was lost.  A device *)
(* whose rates were never written may hold anything.                       *)
(* (SunSpecStorageBasicRateAdapter: both rates are written every time.)    *)
RatesWritten == ~(regs[124][12] = 1 /\ regs[124][13] = 1)
TurnsThroughIdle ==
  [][RatesWritten /\ StorageRate(regs[124]) # 0
       /\ regs'[124][5] \notin {0, regs[124][5]}
     => StorageRate(regs'[124]) = 0]_vars

(* The device is written only for an asset that was dispatchable when the  *)
(* replan read it, through the adapter its contract named, and with the    *)
(* evidence as it is when the write starts still naming the same profile,  *)
(* and the model's block, whatever polls and discoveries did while the     *)
(* solver ran.  (build_dispatch_target and resolve_write_adapter.)         *)
GuardedWrites ==
  [][<<regs, relay>>' # <<regs, relay>> =>
       /\ inst.native
       /\ ses.asset.eligibility = "dispatchable"
       /\ ses.adapter = ses.asset.contract.adapter
       /\ ses.adapter = Profile(evidence)
       /\ DispatchModel(ses.adapter) \in Blocks(evidence) \cup {0}]_vars

(* Clamping the command to the contract never changes what was planned:    *)
(* the planner's constraints and the contract bound the same power.        *)
(* (_clamped_command, planner.py and assess_dispatchability.)              *)
PlanFits == pc = "dispatching" => Command = ses.plan

(* Once on, a controllable load is planned to stay on for its minimum time,*)
(* within the horizon.  (The on_state and start_state constraints.)        *)
MinimumOn ==
  pc = "dispatching" =>
    \A s \in StepSet :
      /\ ses.schedule[s] = 1
      /\ s = 0 \/ ses.schedule[s - 1] = 0
      => \A h \in s..(s + ses.minimumOn - 1) :
           h \in StepSet /\ ses.schedule[h] = 1

(* A battery whose charge is known is never planned to be discharged below *)
(* its reserve.                                                            *)
(* (docs/architecture/hems-core.md:81, "SOC dynamics and reserve floor".)  *)
ReserveKept ==
  pc = "dispatching" /\ ses.asset.type = "battery"
    /\ Known(ses.telemetry.soc) /\ ses.plan > 0
  => ses.telemetry.soc - ses.plan * SocPerUnit >= ReservePct
=============================================================================
