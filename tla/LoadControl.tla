---------------------------- MODULE LoadControl ----------------------------
(***************************************************************************)
(* The grid-side load-control path of the edge API: a power limit arrives  *)
(* (over REST or from the EEBUS runtime thread), is written to the limit   *)
(* ledger, and a fresh HEMS plan is computed and dispatched to the         *)
(* devices, all inside request handlers that run on several threads and    *)
(* share one SQLite database.                                              *)
(*                                                                         *)
(* A worker is one such thread.  Its stages are the points at which other  *)
(* threads can be seen: a SELECT reads the committed database and takes no *)
(* lock, the first flush of a transaction takes SQLite's single write      *)
(* lock, and the lock is held until the commit.  tx is the uncommitted     *)
(* image of the ledger seen by the holder of the lock.                     *)
(*                                                                         *)
(* Power is an abstract natural number; what a plan asks of a device is    *)
(* abstracted to the grid limits ("cap") the plan was solved under.        *)
(***************************************************************************)
EXTENDS Naturals, FiniteSets

CONSTANTS
  Workers,            \* request threads and the EEBUS runtime thread
  Keys,               \* (use_case, limit_id, peer_ski) triples
  UseCases,           \* LPC (grid import) and LPP (grid export)
  UseCaseOf,          \* the use case of a key
  Powers,             \* watt values of commands and of the policy
  Durations,          \* durations of commands; 0 is both "none" and "0 s"
  LimitIds,           \* primary keys of the limit rows
  Devices,            \* dispatchable devices of the site model
  Participants,       \* natively driven devices that share in a limit
  BaseLoad,           \* per use case, the least cap the solver can satisfy
  DefaultCap,         \* the seeded grid import and export limits
  PolicyChoices,      \* policies the user may set
  ConfiguredAssets,   \* some device has a load-control configuration row
  MaxClock,           \* bound: no request starts and no time passes after it
  MaxCrashes,         \* bound on process crashes
  NoWorker,           \* the write lock is free
  NoLimit             \* a request that creates no row

ASSUME ConstantsAssumption ==
  /\ UseCaseOf \in [Keys -> UseCases]
  /\ Keys # {}
  /\ Powers \subseteq Nat /\ Powers # {}
  /\ Durations \subseteq Nat /\ Durations # {}
  /\ DefaultCap \in [UseCases -> Powers]
  /\ Participants \subseteq Devices
  /\ BaseLoad \in [UseCases -> Nat]
  /\ PolicyChoices \subseteq [mode : {"plan_only", "guarded_auto"},
                             cap : [UseCases -> Powers]]
  /\ ConfiguredAssets \in BOOLEAN
  /\ MaxClock \in Nat
  /\ MaxCrashes \in Nat
  /\ NoWorker \notin Workers
  /\ NoLimit \notin LimitIds

VARIABLES
  clock,      \* utcnow(); two stamps are never equal
  policy,     \* committed hems_policy row
  db,         \* committed hems_load_control_limits and their deliveries
  tx,         \* the ledger as the holder of the write lock sees it; db if free
  lock,       \* holder of SQLite's write lock
  pc,         \* stage of each worker
  job,        \* session-local state of each worker
  plan,       \* committed plan run with the latest created_at
  events,     \* committed hems_dispatch_events
  device,     \* the command each device is obeying
  crashes     \* number of crashes so far

vars == <<clock, policy, db, tx, lock, pc, job, plan, events, device, crashes>>

-----------------------------------------------------------------------------
(* Data *)

Modes == {"plan_only", "guarded_auto"}
Caps == [UseCases -> Powers]
Policies == [mode : Modes, cap : Caps]
Stamps == Nat
Expiries == Nat                      \* 0 is a NULL expires_at

DeliveryStatuses ==
  {"none", "pending", "skipped_zero_allocation",
   "acknowledged", "failed", "not_deliverable"}
Deliveries == [Participants -> DeliveryStatuses]

DispatchStatuses == {"applied", "failed", "blocked", "skipped"}
Outcomes == [Devices -> DispatchStatuses \cup {"none"}]
NoOutcome == [d \in Devices |-> "none"]

(* A limit row.  "command" is the is_active flag of the request that       *)
(* created it; "status" is the stored flag, which later requests clear.    *)
Rows == [status : {"absent", "active", "inactive"}, command : BOOLEAN,
         key : Keys, watts : Powers, received : Stamps, expires : Expiries,
         delivery : Deliveries]
BlankRow == [status |-> "absent", command |-> FALSE,
             key |-> CHOOSE k \in Keys : TRUE,
             watts |-> CHOOSE p \in Powers : TRUE, received |-> 0,
             expires |-> 0, delivery |-> [d \in Participants |-> "none"]]
Ledgers == [LimitIds -> Rows]

Plans == [at : Stamps, cap : Caps, outcome : Outcomes]
Commands == [at : Stamps, cap : Caps]
Events == [at : Stamps, cap : Caps, device : Devices,
           status : DispatchStatuses]

Stages == {"idle", "record", "flush", "replan", "materialize", "site",
           "solve", "dispatch", "commit", "reload", "finish"}
Jobs == [kind : {"none", "distribute", "replan"},
         policy : Policies,          \* the session's copy of the policy row
         key : Keys, watts : Powers, duration : Durations, command : BOOLEAN,
         before : Caps,              \* effective limits before the command
         id : LimitIds \cup {NoLimit},  \* the row this request creates
         received : Stamps,
         off : SUBSET LimitIds,      \* rows this session will deactivate
         at : Stamps,                \* the replan's "now"
         cap : Caps,                 \* effective limits of the site model
         todo : SUBSET Devices,      \* intervals not dispatched yet
         outcome : Outcomes]         \* dispatch events gathered so far

InitialPolicy == [mode |-> "guarded_auto", cap |-> DefaultCap]

NoJob == [kind |-> "none", policy |-> InitialPolicy,
          key |-> CHOOSE k \in Keys : TRUE,
          watts |-> CHOOSE p \in Powers : TRUE,
          duration |-> CHOOSE t \in Durations : TRUE, command |-> FALSE,
          before |-> DefaultCap, id |-> NoLimit,
          received |-> 0, off |-> {}, at |-> 0, cap |-> DefaultCap,
          todo |-> {}, outcome |-> NoOutcome]

-----------------------------------------------------------------------------
(* The limit ledger *)

\* Mutant: a NULL expiry counts as long past.
ExpiredNull(row, t) == row.expires <= t

Expired(row, t) == row.expires # 0 /\ row.expires <= t

Unexpired(rows, t) ==
  {i \in LimitIds : rows[i].status = "active" /\ ~Expired(rows[i], t)}

\* Mutant: rows are read oldest first.
ActiveLimitsOldestFirst(rows, t) ==
  {i \in Unexpired(rows, t) :
     \A j \in Unexpired(rows, t) :
        rows[j].key = rows[i].key => rows[i].received <= rows[j].received}

(* Rows are read newest first; the first unexpired row of a key wins.      *)
ActiveLimits(rows, t) ==
  {i \in Unexpired(rows, t) :
     \A j \in Unexpired(rows, t) :
        rows[j].key = rows[i].key => rows[j].received <= rows[i].received}

(* Rows the same read switches off in the session.                         *)
Obsolete(rows, t) ==
  {i \in LimitIds : rows[i].status = "active"} \ ActiveLimits(rows, t)

\* Mutant: the limits of one use case also bind the other, not their own.
IsEffectiveSwapped(cap, rows, base, t) ==
  \A u \in UseCases :
    LET bounds == {base[u]} \cup
          {rows[i].watts : i \in {j \in ActiveLimits(rows, t) :
                                    UseCaseOf[rows[j].key] # u}}
    IN cap[u] \in bounds /\ \A b \in bounds : cap[u] <= b

(* cap is the policy tightened by every active limit of its use case.      *)
IsEffective(cap, rows, base, t) ==
  \A u \in UseCases :
    LET bounds == {base[u]} \cup
          {rows[i].watts : i \in {j \in ActiveLimits(rows, t) :
                                    UseCaseOf[rows[j].key] = u}}
    IN cap[u] \in bounds /\ \A b \in bounds : cap[u] <= b

\* Mutant: the replaced rows are never switched off.
DeactivateNone(rows, off) == rows

Deactivate(rows, off) ==
  [i \in LimitIds |->
     IF i \in off /\ rows[i].status = "active"
     THEN [rows[i] EXCEPT !.status = "inactive"] ELSE rows[i]]

\* Mutant: the delivery is born with the status of a sent EEBUS write.
NewDeliveriesSent(watts) == [d \in Participants |-> "sent"]

(* Every participant gets a delivery; an allocation of nothing is skipped. *)
NewDeliveries(watts) ==
  [d \in Participants |->
     IF watts = 0 THEN "skipped_zero_allocation" ELSE "pending"]

Insert(rows, j) ==
  [rows EXCEPT ![j.id] =
     [status |-> IF j.command THEN "active" ELSE "inactive",
      command |-> j.command, key |-> j.key, watts |-> j.watts,
      received |-> j.received,
      expires |-> IF j.command /\ j.duration # 0
                  THEN j.received + j.duration ELSE 0,
      delivery |-> NewDeliveries(j.watts)]]

\* Mutant: a blocked dispatch counts as success.
SettledBlocked(status, outcome) ==
  IF status # "pending" THEN status
  ELSE CASE outcome \in {"applied", "blocked"} -> "acknowledged"
         [] outcome = "failed" -> "failed"
         [] outcome = "skipped" -> "not_deliverable"
         [] OTHER -> "pending"

(* Status a native delivery takes from the dispatch event of its device.   *)
Settled(status, outcome) ==
  IF status # "pending" THEN status
  ELSE CASE outcome = "applied" -> "acknowledged"
         [] outcome \in {"failed", "blocked"} -> "failed"
         [] outcome = "skipped" -> "not_deliverable"
         [] OTHER -> "pending"

-----------------------------------------------------------------------------
(* distribute_load_power_limit *)

\* Reading a stamp moves the clock, so that no two stamps are equal.
Stamp == clock' = clock + 1

Goto(w, stage, j) ==
  /\ pc' = [pc EXCEPT ![w] = stage]
  /\ job' = [job EXCEPT ![w] = j]

Free(w) == lock = NoWorker \/ lock = w

\* Mutant: a commit that leaves the transaction open.
KeepLock == lock' = lock

Unlock == lock' = NoWorker

(* The command is valid: read the policy row and the effective limits.     *)
(* The row's random id, drawn a little later by the code, is chosen here.  *)
StartDistribute(w) ==
  /\ pc[w] = "idle"
  /\ clock < MaxClock
  /\ \E k \in Keys, p \in Powers, t \in Durations, c \in BOOLEAN,
        i \in LimitIds, before \in Caps :
       /\ db[i].status = "absent"
       /\ \A v \in Workers : job[v].id # i
       /\ IsEffective(before, db, policy.cap, clock)
       /\ Goto(w, "record",
               [NoJob EXCEPT !.kind = "distribute", !.policy = policy,
                  !.id = i, !.key = k, !.watts = p, !.duration = t, !.command = c,
                  !.before = before, !.off = Obsolete(db, clock)])
  /\ UNCHANGED <<clock, policy, db, tx, lock, plan, events, device, crashes>>

(* Select the active rows the new command replaces.                        *)
SelectReplaced(w) ==
  /\ pc[w] = "record"
  /\ Stamp
  /\ LET own == {i \in LimitIds : db[i].status = "active"
                                  /\ db[i].key = job[w].key}
     IN Goto(w, "flush", [job[w] EXCEPT !.received = clock + 1,
                                        !.off = @ \cup own])
  /\ UNCHANGED <<policy, db, tx, lock, plan, events, device, crashes>>

(* Flush: take the write lock, replace the rows, insert the new one and    *)
(* its deliveries, and see whether the effective limits changed.           *)
FlushLimit(w) ==
  /\ pc[w] = "flush"
  /\ lock = NoWorker
  /\ lock' = w
  /\ \E after \in Caps :
       LET j == job[w]
           rows == Insert(Deactivate(db, j.off), j)
           gone == Obsolete(rows, clock)
       IN /\ IsEffective(after, rows, j.policy.cap, clock)
          /\ tx' = rows
          /\ Goto(w, IF j.command \/ after # j.before
                     THEN "replan" ELSE "commit",
                  [j EXCEPT !.off = gone, !.before = NoJob.before])
  /\ UNCHANGED <<clock, policy, db, plan, events, device, crashes>>

(* No replan is due: the audit row is added and the limit committed.       *)
CommitLimit(w) ==
  /\ pc[w] = "commit"
  /\ db' = Deactivate(tx, job[w].off)
  /\ tx' = db'
  /\ Unlock
  /\ Goto(w, "idle", NoJob)
  /\ UNCHANGED <<clock, policy, plan, events, device, crashes>>

-----------------------------------------------------------------------------
(* run_hems_replan *)

StartReplan(w) ==
  /\ pc[w] = "idle"
  /\ clock < MaxClock
  /\ Goto(w, "replan", [NoJob EXCEPT !.kind = "replan"])
  /\ UNCHANGED <<clock, policy, db, tx, lock, plan, events, device, crashes>>

(* Read the policy (a distribution keeps the copy its session already      *)
(* holds) and the time of the plan.                                        *)
ReadPolicy(w) ==
  /\ pc[w] = "replan"
  /\ Stamp
  /\ Goto(w, "materialize",
          [job[w] EXCEPT
             !.at = clock + 1,
             !.policy = IF job[w].kind = "replan" THEN policy ELSE @])
  /\ UNCHANGED <<policy, db, tx, lock, plan, events, device, crashes>>

\* Mutant: touching the assets is not flushed, so no lock is taken yet.
MaterializeUnlocked(w) ==
  /\ pc[w] = "materialize"
  /\ Goto(w, "site", job[w])
  /\ UNCHANGED <<clock, policy, db, tx, lock, plan, events, device, crashes>>

(* materialize_configured_hems_assets touches the asset of every device    *)
(* with a load-control configuration, so its flush takes the write lock,   *)
(* but only when there is such a device.                                   *)
Materialize(w) ==
  /\ pc[w] = "materialize"
  /\ IF lock # w /\ ConfiguredAssets
     THEN lock = NoWorker /\ lock' = w /\ tx' = db
     ELSE UNCHANGED <<lock, tx>>
  /\ Goto(w, "site", job[w])
  /\ UNCHANGED <<clock, policy, db, plan, events, device, crashes>>

(* build_site_model reads the limits the plan has to respect.              *)
BuildSiteModel(w) ==
  /\ pc[w] = "site"
  /\ LET rows == IF lock = w THEN tx ELSE db
     IN \E cap \in Caps :
          /\ IsEffective(cap, rows, job[w].policy.cap, job[w].at)
          /\ Goto(w, "solve",
                  [job[w] EXCEPT !.cap = cap,
                                 !.off = @ \cup Obsolete(rows, job[w].at)])
  /\ UNCHANGED <<clock, policy, db, tx, lock, plan, events, device, crashes>>

(* Solve, add the plan run and flush.  A plan without a trusted solution   *)
(* has no intervals, so nothing is dispatched.                             *)
SolveAndFlush(w) ==
  /\ pc[w] = "solve"
  /\ Free(w)
  /\ lock' = w
  /\ tx' = Deactivate(IF lock = w THEN tx ELSE db, job[w].off)
  /\ \E trusted \in BOOLEAN :
       /\ trusted => \A u \in UseCases : BaseLoad[u] <= job[w].cap[u]
       /\ Goto(w, "dispatch",
               [job[w] EXCEPT !.todo = IF trusted THEN Devices ELSE {},
                              !.off = {}])
  /\ UNCHANGED <<clock, policy, db, plan, events, device, crashes>>

(* dispatch_current_interval, one asset: in plan-only mode the interval is *)
(* skipped, without an adapter it is blocked, and a write may fail before  *)
(* or after it took effect.                                                *)
Dispatch(w) ==
  /\ pc[w] = "dispatch"
  /\ \E d \in job[w].todo, s \in DispatchStatuses, reached \in BOOLEAN :
       /\ s = "skipped" <=> job[w].policy.mode # "guarded_auto"
       /\ reached => s \in {"applied", "failed"}
       /\ s = "applied" => reached
       /\ device' = IF reached
                    THEN [device EXCEPT ![d] = [at |-> job[w].at,
                                                cap |-> job[w].cap]]
                    ELSE device
       /\ Goto(w, "dispatch", [job[w] EXCEPT !.todo = @ \ {d},
                                             !.outcome[d] = s])
  /\ UNCHANGED <<clock, policy, db, tx, lock, plan, events, crashes>>

\* Mutant: only successful dispatches are stored.
NewEventsApplied(j) ==
  {[at |-> j.at, cap |-> j.cap, device |-> d, status |-> "applied"] :
     d \in {e \in Devices : j.outcome[e] = "applied"}}

NewEvents(j) ==
  {[at |-> j.at, cap |-> j.cap, device |-> d, status |-> j.outcome[d]] :
     d \in {e \in Devices : j.outcome[e] # "none"}}

(* Commit the plan run, its dispatch events and whatever the transaction   *)
(* holds; the plan read back later is the one with the latest created_at.  *)
CommitPlan(w) ==
  /\ pc[w] = "dispatch"
  /\ job[w].todo = {}
  /\ db' = tx
  /\ Unlock
  /\ plan' = IF plan.at < job[w].at
             THEN [at |-> job[w].at, cap |-> job[w].cap,
                   outcome |-> job[w].outcome]
             ELSE plan
  /\ events' = events \cup NewEvents(job[w])
  /\ IF job[w].kind = "distribute"
     THEN Goto(w, "reload", job[w])
     ELSE Goto(w, "idle", NoJob)
  /\ UNCHANGED <<clock, policy, tx, device, crashes>>

(* _latest_plan_run: the plan whose events settle the native deliveries.   *)
ReloadPlan(w) ==
  /\ pc[w] = "reload"
  /\ Goto(w, "finish", [job[w] EXCEPT !.outcome = plan.outcome])
  /\ UNCHANGED <<clock, policy, db, tx, lock, plan, events, device, crashes>>

(* update_native_delivery_statuses_from_plan, the audit row, the second    *)
(* commit: one short write transaction.                                    *)
FinishDistribute(w) ==
  /\ pc[w] = "finish"
  /\ lock = NoWorker
  /\ db' = [db EXCEPT ![job[w].id].delivery =
              [d \in Participants |-> Settled(@[d], job[w].outcome[d])]]
  /\ tx' = db'
  /\ Goto(w, "idle", NoJob)
  /\ UNCHANGED <<clock, policy, lock, plan, events, device, crashes>>

-----------------------------------------------------------------------------
(* The environment *)

(* A flush that waits longer than the busy timeout raises; the session is  *)
(* closed and the rest of the request never happens.                       *)
LockTimeout(w) ==
  /\ \/ pc[w] \in {"flush", "finish", "solve"}
     \/ pc[w] = "materialize" /\ ConfiguredAssets
  /\ ~Free(w)
  /\ Goto(w, "idle", NoJob)
  /\ UNCHANGED <<clock, policy, db, tx, lock, plan, events, device, crashes>>

(* PATCH /hems/policy: one short transaction, and no replan.               *)
PatchPolicy ==
  /\ lock = NoWorker
  /\ \E p \in PolicyChoices : p # policy /\ policy' = p
  /\ UNCHANGED <<clock, db, tx, lock, pc, job, plan, events, device, crashes>>

Tick ==
  /\ clock < MaxClock
  /\ Stamp
  /\ UNCHANGED <<policy, db, tx, lock, pc, job, plan, events, device, crashes>>

(* The process dies: open transactions are rolled back, devices go on.     *)
Crash ==
  /\ crashes < MaxCrashes
  /\ crashes' = crashes + 1
  /\ lock' = NoWorker
  /\ tx' = db
  /\ pc' = [w \in Workers |-> "idle"]
  /\ job' = [w \in Workers |-> NoJob]
  /\ UNCHANGED <<clock, policy, db, plan, events, device>>

-----------------------------------------------------------------------------
Init ==
  /\ clock = 0
  /\ policy = InitialPolicy
  /\ db = [i \in LimitIds |-> BlankRow]
  /\ tx = db
  /\ lock = NoWorker
  /\ pc = [w \in Workers |-> "idle"]
  /\ job = [w \in Workers |-> NoJob]
  /\ plan = [at |-> 0, cap |-> DefaultCap, outcome |-> NoOutcome]
  /\ events = {}
  /\ device = [d \in Devices |-> [at |-> 0, cap |-> DefaultCap]]
  /\ crashes = 0

Step(w) ==
  \/ SelectReplaced(w) \/ FlushLimit(w) \/ CommitLimit(w)
  \/ ReadPolicy(w) \/ Materialize(w) \/ BuildSiteModel(w)
  \/ SolveAndFlush(w) \/ Dispatch(w) \/ CommitPlan(w)
  \/ ReloadPlan(w) \/ FinishDistribute(w)

(* The clock has reached its bound and nothing is left to do.              *)
Quiescent ==
  /\ clock >= MaxClock
  /\ \A w \in Workers : pc[w] = "idle"
  /\ UNCHANGED vars

Next ==
  \/ \E w \in Workers :
       StartDistribute(w) \/ StartReplan(w) \/ Step(w) \/ LockTimeout(w)
  \/ PatchPolicy
  \/ Tick
  \/ Crash
  \/ Quiescent

Spec == Init /\ [][Next]_vars

(* A started request runs on: its thread is scheduled, and a flush gets    *)
(* the lock or times out.                                                  *)
FairSpec == Spec /\ \A w \in Workers : WF_vars(Step(w) \/ LockTimeout(w))

-----------------------------------------------------------------------------
(* Properties *)

(* Every variable holds a value of its type.                               *)
TypeOK ==
  /\ clock \in Nat
  /\ policy \in Policies
  /\ db \in Ledgers
  /\ tx \in Ledgers
  /\ lock \in Workers \cup {NoWorker}
  /\ pc \in [Workers -> Stages]
  /\ job \in [Workers -> Jobs]
  /\ plan \in Plans
  /\ events \in SUBSET Events
  /\ device \in [Devices -> Commands]
  /\ crashes \in Nat

(* No device is sent a command computed under a cap looser than a limit    *)
(* that is active and unexpired in the ledger the sending transaction sees *)
(* (dispatch_current_interval against active_load_control_limits).         *)
DispatchHonoursLimits ==
  [][\A d \in Devices : device'[d] # device[d] =>
       \A i \in Unexpired(tx, clock) :
          device'[d].cap[UseCaseOf[tx[i].key]] <= tx[i].watts]_vars

(* The inductive strengthening of DispatchHonoursLimits: with a configured *)
(* device the write lock is held from before the site model is built until *)
(* the plan is committed, so the ledger cannot move under the plan, and    *)
(* every limit that can still bind at dispatch was read by the site model. *)
LockHeld ==
  \A w \in Workers :
     \/ pc[w] \in {"dispatch", "commit"}
     \/ pc[w] \in {"site", "solve"} /\ ConfiguredAssets
     => lock = w

Within(cap, rows, ids) ==
  \A i \in ids : cap[UseCaseOf[rows[i].key]] <= rows[i].watts

CapWithinLedger ==
  \A w \in Workers :
     /\ pc[w] = "solve" =>
          Within(job[w].cap, tx, Unexpired(tx, clock) \ job[w].off)
     /\ pc[w] = "dispatch" => Within(job[w].cap, tx, Unexpired(tx, clock))

StampsPast ==
  \A w \in Workers : job[w].at <= clock /\ job[w].received <= clock

DispatchInv == TypeOK /\ StampsPast /\ LockHeld /\ CapWithinLedger

(* An accepted limit stops being active only because it has expired or     *)
(* because a later command for the same key is in the ledger: neither the  *)
(* lazy clean-up of a read nor a concurrent request may drop it.           *)
LimitsEndForAReason ==
  [][\A i \in LimitIds :
       db[i].status = "active" /\ db'[i].status # "active" =>
         \/ Expired(db[i], clock)
         \/ \E j \in LimitIds : /\ db'[j].status # "absent"
                                /\ db'[j].key = db[i].key
                                /\ db[i].received < db'[j].received]_vars

(* The active row of a key is the newest command for that key: a release   *)
(* or a replacement is never outlived by the limit it was meant to end     *)
(* (record_load_control_limit).                                            *)
LatestCommandWins ==
  \A i, j \in LimitIds :
     db[i].status = "active" /\ db[j].status # "absent"
       /\ db[j].key = db[i].key
     => db[j].received <= db[i].received

(* While no transaction is open, whatever a device obeys is explained by a *)
(* committed dispatch event of the plan that sent it (HemsDispatchEvent).  *)
CommandsRecorded ==
  lock = NoWorker =>
    \A d \in Devices : device[d].at # 0 =>
      \E e \in events : /\ e.device = d /\ e.at = device[d].at
                        /\ e.status \in {"applied", "failed"}

(* A native delivery of a limit is acknowledged only if the device was     *)
(* sent, and accepted, a command computed under that limit                 *)
(* (update_native_delivery_statuses_from_plan).                            *)
AcknowledgedMeansApplied ==
  \A i \in LimitIds : \A d \in Participants :
     db[i].command /\ db[i].delivery[d] = "acknowledged" =>
       \E e \in events :
          /\ e.device = d /\ e.status = "applied"
          /\ db[i].received < e.at
          /\ \/ e.cap[UseCaseOf[db[i].key]] <= db[i].watts
             \/ Expired(db[i], e.at)

(* Every request that starts also ends: no two requests wait for each      *)
(* other, whatever the order in which they reach the write lock.           *)
RequestsEnd == \A w \in Workers : pc[w] # "idle" ~> pc[w] = "idle"
=============================================================================
