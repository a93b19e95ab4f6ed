------------------------- MODULE LoadControlProofs -------------------------
(***************************************************************************)
(* Theorems about LoadControl for any number of workers, keys, rows and    *)
(* devices: type correctness, and that a dispatch honours every active     *)
(* limit whenever some device is configured for load control.              *)
(***************************************************************************)
EXTENDS LoadControl, TLAPS

(* Policies and jobs a session starts from are well typed.                 *)
LEMMA NoJobType ==
  /\ InitialPolicy \in Policies
  /\ NoJob \in Jobs
  /\ BlankRow \in Rows
<1> USE ConstantsAssumption
<1>1. InitialPolicy \in Policies
  BY DEF InitialPolicy, Policies, Modes, Caps
<1>2. /\ (CHOOSE k \in Keys : TRUE) \in Keys
      /\ (CHOOSE p \in Powers : TRUE) \in Powers
      /\ (CHOOSE t \in Durations : TRUE) \in Durations
  OBVIOUS
<1>3. NoOutcome \in Outcomes
  BY DEF NoOutcome, Outcomes
<1>4. NoJob \in Jobs
  BY <1>1, <1>2, <1>3 DEF NoJob, Jobs, Caps, Stamps
<1>5. BlankRow \in Rows
  BY <1>2 DEF BlankRow, Rows, Stamps, Expiries, Deliveries, DeliveryStatuses
<1> QED BY <1>1, <1>4, <1>5

(* Switching rows off keeps the ledger a ledger (record_load_control_limit *)
(* and active_load_control_limits).                                        *)
LEMMA DeactivateType ==
  ASSUME NEW rows \in Ledgers, NEW off
  PROVE  Deactivate(rows, off) \in Ledgers
<1> SUFFICES ASSUME NEW i \in LimitIds
             PROVE  (IF i \in off /\ rows[i].status = "active"
                     THEN [rows[i] EXCEPT !.status = "inactive"]
                     ELSE rows[i]) \in Rows
  BY DEF Deactivate, Ledgers
<1>1. rows[i] \in Rows
  BY DEF Ledgers
<1> QED BY <1>1 DEF Rows

(* Inserting the row of a job keeps the ledger a ledger.                   *)
LEMMA InsertType ==
  ASSUME NEW rows \in Ledgers, NEW j \in Jobs
  PROVE  Insert(rows, j) \in Ledgers
<1> USE ConstantsAssumption
<1>1. NewDeliveries(j.watts) \in Deliveries
  BY DEF NewDeliveries, Deliveries, DeliveryStatuses
<1>2. /\ j.command \in BOOLEAN /\ j.key \in Keys /\ j.watts \in Powers
      /\ j.received \in Nat /\ j.duration \in Nat
  BY DEF Jobs, Stamps
<1>3. (IF j.command /\ j.duration # 0 THEN j.received + j.duration ELSE 0) \in Nat
  BY <1>2
<1>4. [status |-> IF j.command THEN "active" ELSE "inactive",
       command |-> j.command, key |-> j.key, watts |-> j.watts,
       received |-> j.received,
       expires |-> IF j.command /\ j.duration # 0
                   THEN j.received + j.duration ELSE 0,
       delivery |-> NewDeliveries(j.watts)] \in Rows
  BY <1>1, <1>2, <1>3 DEF Rows, Stamps, Expiries
<1> QED BY <1>4 DEF Insert, Ledgers

(* A stage change with a well-typed session keeps pc and job well typed.   *)
LEMMA GotoType ==
  ASSUME TypeOK, NEW w \in Workers, NEW stage \in Stages, NEW j \in Jobs,
         Goto(w, stage, j)
  PROVE  pc' \in [Workers -> Stages] /\ job' \in [Workers -> Jobs]
BY DEF TypeOK, Goto

(* The plan hands every device out for dispatch, or none.                  *)
LEMMA JobSolved ==
  ASSUME NEW j \in Jobs, NEW todo \in SUBSET Devices
  PROVE  [j EXCEPT !.todo = todo, !.off = {}] \in Jobs
BY DEF Jobs

(* A dispatched device leaves the list and has an outcome.                 *)
LEMMA JobDispatched ==
  ASSUME NEW j \in Jobs, NEW d \in Devices, NEW s \in DispatchStatuses
  PROVE  [j EXCEPT !.todo = @ \ {d}, !.outcome[d] = s] \in Jobs
<1> DEFINE outcome == [j.outcome EXCEPT ![d] = s]
           todo == j.todo \ {d}
<1>1. j.outcome \in Outcomes /\ j.todo \subseteq Devices
  BY DEF Jobs
<1>2. outcome \in Outcomes /\ todo \subseteq Devices
  BY <1>1 DEF Outcomes
<1> HIDE DEF outcome, todo
<1>3. [j EXCEPT !.todo = todo, !.outcome = outcome] \in Jobs
  BY <1>2 DEF Jobs
<1>4. [j EXCEPT !.todo = @ \ {d}, !.outcome[d] = s] =
        [j EXCEPT !.todo = todo, !.outcome = outcome]
  BY DEF outcome, todo, Jobs
<1> QED BY <1>3, <1>4

(* The server starts with well-typed state.                                *)
LEMMA TypeInit == Init => TypeOK
<1> SUFFICES ASSUME Init PROVE TypeOK
  OBVIOUS
<1> USE ConstantsAssumption, NoJobType
<1>1. db \in Ledgers /\ tx \in Ledgers
  BY DEF Init, Ledgers
<1>2. plan \in Plans
  BY DEF Init, Plans, Stamps, Caps, NoOutcome, Outcomes
<1>3. device \in [Devices -> Commands]
  BY DEF Init, Commands, Stamps, Caps
<1>4. pc \in [Workers -> Stages] /\ job \in [Workers -> Jobs]
  BY DEF Init, Stages
<1> QED BY <1>1, <1>2, <1>3, <1>4 DEF Init, TypeOK

(* Every step of the system keeps the types.                               *)
LEMMA TypeStep == TypeOK /\ [Next]_vars => TypeOK'
<1> SUFFICES ASSUME TypeOK, [Next]_vars PROVE TypeOK'
  OBVIOUS
<1> USE ConstantsAssumption, NoJobType, DeactivateType, InsertType, GotoType
<1>1. ASSUME NEW w \in Workers, StartDistribute(w) PROVE TypeOK'
  <2>1. PICK k \in Keys, p \in Powers, t \in Durations, c \in BOOLEAN,
             i \in LimitIds, before \in Caps :
          Goto(w, "record",
               [NoJob EXCEPT !.kind = "distribute", !.policy = policy,
                  !.id = i, !.key = k, !.watts = p, !.duration = t,
                  !.command = c, !.before = before,
                  !.off = Obsolete(db, clock)])
    BY <1>1 DEF StartDistribute
  <2>2. [NoJob EXCEPT !.kind = "distribute", !.policy = policy,
                  !.id = i, !.key = k, !.watts = p, !.duration = t,
                  !.command = c, !.before = before,
                  !.off = Obsolete(db, clock)] \in Jobs
    BY DEF Jobs, TypeOK, Obsolete
  <2> QED BY <1>1, <2>1, <2>2 DEF StartDistribute, TypeOK, Stages
<1>2. ASSUME NEW w \in Workers, StartReplan(w) PROVE TypeOK'
  <2>1. [NoJob EXCEPT !.kind = "replan"] \in Jobs
    BY DEF Jobs
  <2> QED BY <1>2, <2>1 DEF StartReplan, TypeOK, Stages
<1>3. ASSUME NEW w \in Workers, SelectReplaced(w) PROVE TypeOK'
  <2> DEFINE own == {i \in LimitIds : db[i].status = "active"
                                      /\ db[i].key = job[w].key}
             j == [job[w] EXCEPT !.received = clock + 1, !.off = @ \cup own]
  <2>1. job[w] \in Jobs /\ clock + 1 \in Nat
    BY DEF TypeOK
  <2>2. j \in Jobs
    BY <2>1 DEF Jobs, Stamps
  <2>3. Goto(w, "flush", j)
    BY <1>3 DEF SelectReplaced
  <2> QED BY <1>3, <2>1, <2>2, <2>3 DEF SelectReplaced, Stamp, TypeOK, Stages
<1>4. ASSUME NEW w \in Workers, FlushLimit(w) PROVE TypeOK'
  <2> DEFINE j == job[w]
             rows == Insert(Deactivate(db, j.off), j)
             gone == Obsolete(rows, clock)
             next == [j EXCEPT !.off = gone, !.before = NoJob.before]
  <2>1. j \in Jobs
    BY DEF TypeOK
  <2>2. rows \in Ledgers
    BY <2>1 DEF TypeOK
  <2>3. next \in Jobs
    <3>1. gone \in SUBSET LimitIds
      BY DEF Obsolete
    <3>2. NoJob.before \in Caps
      BY DEF NoJob, Caps
    <3> QED BY <2>1, <3>1, <3>2 DEF Jobs
  <2>4. PICK after \in Caps :
          /\ tx' = rows
          /\ Goto(w, IF j.command \/ after # j.before
                     THEN "replan" ELSE "commit", next)
    BY <1>4 DEF FlushLimit
  <2>5. (IF j.command \/ after # j.before THEN "replan" ELSE "commit") \in Stages
    BY DEF Stages
  <2> HIDE DEF rows, next, j
  <2>6. pc' \in [Workers -> Stages] /\ job' \in [Workers -> Jobs]
    BY <2>3, <2>4, <2>5
  <2>7. tx' \in Ledgers
    BY <2>2, <2>4
  <2> QED BY <1>4, <2>6, <2>7 DEF FlushLimit, TypeOK
<1>5. ASSUME NEW w \in Workers, CommitLimit(w) PROVE TypeOK'
  <2>1. Deactivate(tx, job[w].off) \in Ledgers
    BY DEF TypeOK
  <2> QED BY <1>5, <2>1 DEF CommitLimit, Unlock, TypeOK, Stages
<1>6. ASSUME NEW w \in Workers, ReadPolicy(w) PROVE TypeOK'
  <2> DEFINE j == [job[w] EXCEPT
             !.at = clock + 1,
             !.policy = IF job[w].kind = "replan" THEN policy ELSE @]
  <2>1. job[w] \in Jobs /\ clock + 1 \in Stamps /\ policy \in Policies
    BY DEF TypeOK, Stamps
  <2>2. (IF job[w].kind = "replan" THEN policy ELSE job[w].policy) \in Policies
    BY <2>1 DEF Jobs
  <2>3. j \in Jobs
    BY <2>1, <2>2 DEF Jobs
  <2>4. Goto(w, "materialize", j)
    BY <1>6 DEF ReadPolicy
  <2> QED BY <1>6, <2>3, <2>4 DEF ReadPolicy, Stamp, TypeOK, Stages
<1>7. ASSUME NEW w \in Workers, Materialize(w) PROVE TypeOK'
  <2>1. job[w] \in Jobs
    BY DEF TypeOK
  <2>2. pc' \in [Workers -> Stages] /\ job' \in [Workers -> Jobs]
    BY <1>7, <2>1 DEF Materialize, Stages
  <2> QED BY <1>7, <2>2 DEF Materialize, TypeOK
<1>8. ASSUME NEW w \in Workers, BuildSiteModel(w) PROVE TypeOK'
  <2> DEFINE rows == IF lock = w THEN tx ELSE db
  <2>1. PICK cap \in Caps :
          Goto(w, "solve", [job[w] EXCEPT !.cap = cap,
                              !.off = @ \cup Obsolete(rows, job[w].at)])
    BY <1>8 DEF BuildSiteModel
  <2>2. [job[w] EXCEPT !.cap = cap,
                       !.off = @ \cup Obsolete(rows, job[w].at)] \in Jobs
    <3>1. job[w] \in Jobs /\ Obsolete(rows, job[w].at) \subseteq LimitIds
      BY DEF TypeOK, Obsolete
    <3> HIDE DEF rows
    <3> QED BY <3>1 DEF Jobs
  <2> QED BY <1>8, <2>1, <2>2 DEF BuildSiteModel, TypeOK, Stages
<1>9. ASSUME NEW w \in Workers, SolveAndFlush(w) PROVE TypeOK'
  <2> DEFINE rows == IF lock = w THEN tx ELSE db
  <2>1. PICK trusted \in BOOLEAN :
          Goto(w, "dispatch",
               [job[w] EXCEPT !.todo = IF trusted THEN Devices ELSE {},
                              !.off = {}])
    BY <1>9 DEF SolveAndFlush
  <2>2. [job[w] EXCEPT !.todo = IF trusted THEN Devices ELSE {},
                       !.off = {}] \in Jobs
    BY JobSolved DEF TypeOK
  <2>3. rows \in Ledgers
    BY DEF TypeOK
  <2>4. Deactivate(rows, job[w].off) \in Ledgers
    BY <2>3
  <2> QED BY <1>9, <2>1, <2>2, <2>4 DEF SolveAndFlush, TypeOK, Stages
<1>10. ASSUME NEW w \in Workers, Dispatch(w) PROVE TypeOK'
  <2>1. PICK d \in job[w].todo, s \in DispatchStatuses, reached \in BOOLEAN :
       /\ device' = IF reached
                    THEN [device EXCEPT ![d] = [at |-> job[w].at,
                                                cap |-> job[w].cap]]
                    ELSE device
       /\ Goto(w, "dispatch", [job[w] EXCEPT !.todo = @ \ {d},
                                             !.outcome[d] = s])
    BY <1>10 DEF Dispatch
  <2>2. job[w] \in Jobs
    BY DEF TypeOK
  <2>3. device' \in [Devices -> Commands]
    BY <2>1, <2>2 DEF TypeOK, Commands, Jobs
  <2>4. [job[w] EXCEPT !.todo = @ \ {d}, !.outcome[d] = s] \in Jobs
    BY <2>2, d \in Devices, JobDispatched DEF Jobs
  <2> QED BY <1>10, <2>1, <2>3, <2>4 DEF Dispatch, TypeOK, Stages
<1>11. ASSUME NEW w \in Workers, CommitPlan(w) PROVE TypeOK'
  <2>1. job[w] \in Jobs
    BY DEF TypeOK
  <2>2. plan' \in Plans
    BY <1>11, <2>1 DEF CommitPlan, TypeOK, Plans, Jobs
  <2>3. NewEvents(job[w]) \in SUBSET Events
    BY <2>1 DEF NewEvents, Events, Jobs, Outcomes
  <2>4. pc' \in [Workers -> Stages] /\ job' \in [Workers -> Jobs]
    BY <1>11, <2>1 DEF CommitPlan, Stages
  <2> QED BY <1>11, <2>2, <2>3, <2>4 DEF CommitPlan, Unlock, TypeOK
<1>12. ASSUME NEW w \in Workers, ReloadPlan(w) PROVE TypeOK'
  <2>1. [job[w] EXCEPT !.outcome = plan.outcome] \in Jobs
    <3>1. job[w] \in Jobs /\ plan.outcome \in Outcomes
      BY DEF TypeOK, Plans
    <3> QED BY <3>1 DEF Jobs
  <2> QED BY <1>12, <2>1 DEF ReloadPlan, TypeOK, Stages
<1>13. ASSUME NEW w \in Workers, FinishDistribute(w) PROVE TypeOK'
  <2> DEFINE settled(i) == [d \in Participants |->
                              Settled(db[i].delivery[d], job[w].outcome[d])]
  <2>1. db' = [db EXCEPT ![job[w].id].delivery = settled(job[w].id)]
    BY <1>13 DEF FinishDistribute
  <2>2. ASSUME NEW i \in LimitIds PROVE settled(i) \in Deliveries
    BY DEF TypeOK, Ledgers, Rows, Deliveries, DeliveryStatuses, Settled
  <2> HIDE DEF settled
  <2>3. ASSUME NEW i \in LimitIds PROVE db'[i] \in Rows
    <3>1. db[i] \in Rows
      BY DEF TypeOK, Ledgers
    <3>2. db'[i] = IF i = job[w].id THEN [db[i] EXCEPT !.delivery = settled(i)]
                   ELSE db[i]
      BY <2>1 DEF TypeOK, Ledgers
    <3>3. [db[i] EXCEPT !.delivery = settled(i)] \in Rows
      BY <2>2, <3>1 DEF Rows
    <3> QED BY <3>1, <3>2, <3>3
  <2>4. db' \in Ledgers
    BY <2>1, <2>3 DEF TypeOK, Ledgers
  <2> QED BY <1>13, <2>4, <2>3 DEF FinishDistribute, TypeOK, Stages
<1>14. ASSUME NEW w \in Workers, LockTimeout(w) PROVE TypeOK'
  BY <1>14 DEF LockTimeout, TypeOK, Stages
<1>15. CASE PatchPolicy
  BY <1>15 DEF PatchPolicy, TypeOK, Policies, Modes, Caps
<1>16. CASE Tick
  BY <1>16 DEF Tick, Stamp, TypeOK
<1>17. CASE Crash
  BY <1>17 DEF Crash, TypeOK, Stages
<1>18. CASE Quiescent
  BY <1>18 DEF Quiescent, vars, TypeOK
<1>19. CASE UNCHANGED vars
  BY <1>19 DEF vars, TypeOK
<1> QED
  BY <1>1, <1>2, <1>3, <1>4, <1>5, <1>6, <1>7, <1>8, <1>9, <1>10, <1>11,
     <1>12, <1>13, <1>14, <1>15, <1>16, <1>17, <1>18, <1>19 DEF Next, Step

(* Every behaviour of the system is well typed.                            *)
THEOREM TypeCorrect == Spec => []TypeOK
<1>1. Init => TypeOK
  BY TypeInit
<1>2. TypeOK /\ [Next]_vars => TypeOK'
  BY TypeStep
<1> QED BY <1>1, <1>2, PTL DEF Spec

-----------------------------------------------------------------------------
(* Time only moves forward, so a row that has not expired later has not    *)
(* expired before.                                                         *)
LEMMA UnexpiredShrinks ==
  ASSUME NEW rows \in Ledgers, NEW s \in Nat, NEW t \in Nat, s <= t
  PROVE  Unexpired(rows, t) \subseteq Unexpired(rows, s)
<1> SUFFICES ASSUME NEW i \in LimitIds, ~Expired(rows[i], t)
             PROVE  ~Expired(rows[i], s)
  BY DEF Unexpired
<1>1. rows[i].expires \in Nat
  BY DEF Ledgers, Rows, Expiries
<1> QED BY <1>1 DEF Expired

(* A cap that is effective at some moment is within every row that is      *)
(* unexpired then or later and that the same read does not switch off.     *)
LEMMA EffectiveWithin ==
  ASSUME NEW rows \in Ledgers, NEW cap \in Caps, NEW base,
         NEW s \in Nat, NEW t \in Nat, s <= t,
         IsEffective(cap, rows, base, s),
         NEW off, Obsolete(rows, s) \subseteq off
  PROVE  Within(cap, rows, Unexpired(rows, t) \ off)
<1> SUFFICES ASSUME NEW i \in Unexpired(rows, t), i \notin off
             PROVE  cap[UseCaseOf[rows[i].key]] <= rows[i].watts
  BY DEF Within
<1>1. i \in LimitIds /\ rows[i].status = "active"
  BY DEF Unexpired
<1>2. i \in ActiveLimits(rows, s)
  BY <1>1 DEF Obsolete
<1>3. UseCaseOf[rows[i].key] \in UseCases
  BY <1>1, ConstantsAssumption DEF Ledgers, Rows
<1> QED BY <1>1, <1>2, <1>3 DEF IsEffective

(* Deactivating off leaves, among the unexpired rows, those outside off,   *)
(* unchanged.                                                              *)
LEMMA DeactivateWithin ==
  ASSUME NEW rows \in Ledgers, NEW off, NEW t \in Nat, NEW cap,
         Within(cap, rows, Unexpired(rows, t) \ off)
  PROVE  Within(cap, Deactivate(rows, off), Unexpired(Deactivate(rows, off), t))
<1> DEFINE new == Deactivate(rows, off)
<1> SUFFICES ASSUME NEW i \in Unexpired(new, t)
             PROVE  cap[UseCaseOf[new[i].key]] <= new[i].watts
  BY DEF Within
<1>1. i \in LimitIds /\ new[i].status = "active" /\ ~Expired(new[i], t)
  BY DEF Unexpired
<1>2. rows[i] \in Rows
  BY <1>1 DEF Ledgers
<1>3. new[i] = IF i \in off /\ rows[i].status = "active"
               THEN [rows[i] EXCEPT !.status = "inactive"] ELSE rows[i]
  BY <1>1 DEF Deactivate
<1>4. new[i] = rows[i] /\ i \notin off
  BY <1>1, <1>2, <1>3 DEF Rows
<1> HIDE DEF new
<1> QED BY <1>1, <1>4 DEF Within, Unexpired

-----------------------------------------------------------------------------
(* The write lock is held throughout the dispatch, and from the site model *)
(* on when a device is configured.                                         *)
LEMMA LockStep == TypeOK /\ LockHeld /\ [Next]_vars => LockHeld'
<1> SUFFICES ASSUME TypeOK, LockHeld, [Next]_vars PROVE LockHeld'
  OBVIOUS
<1> USE ConstantsAssumption DEF TypeOK, LockHeld, Goto
<1>1. ASSUME NEW v \in Workers, SelectReplaced(v) PROVE LockHeld'
  BY <1>1 DEF SelectReplaced
<1>2. ASSUME NEW v \in Workers, FlushLimit(v) PROVE LockHeld'
  BY <1>2 DEF FlushLimit
<1>3. ASSUME NEW v \in Workers, CommitLimit(v) PROVE LockHeld'
  BY <1>3 DEF CommitLimit, Unlock
<1>4. ASSUME NEW v \in Workers, ReadPolicy(v) PROVE LockHeld'
  BY <1>4 DEF ReadPolicy
<1>5. ASSUME NEW v \in Workers, Materialize(v) PROVE LockHeld'
  BY <1>5 DEF Materialize
<1>6. ASSUME NEW v \in Workers, BuildSiteModel(v) PROVE LockHeld'
  BY <1>6 DEF BuildSiteModel
<1>7. ASSUME NEW v \in Workers, SolveAndFlush(v) PROVE LockHeld'
  BY <1>7 DEF SolveAndFlush, Free
<1>8. ASSUME NEW v \in Workers, Dispatch(v) PROVE LockHeld'
  BY <1>8 DEF Dispatch
<1>9. ASSUME NEW v \in Workers, CommitPlan(v) PROVE LockHeld'
  BY <1>9 DEF CommitPlan, Unlock
<1>10. ASSUME NEW v \in Workers, ReloadPlan(v) PROVE LockHeld'
  BY <1>10 DEF ReloadPlan
<1>11. ASSUME NEW v \in Workers, FinishDistribute(v) PROVE LockHeld'
  BY <1>11 DEF FinishDistribute
<1>12. ASSUME NEW v \in Workers, LockTimeout(v) PROVE LockHeld'
  BY <1>12 DEF LockTimeout
<1>13. ASSUME NEW v \in Workers, StartDistribute(v) PROVE LockHeld'
  BY <1>13 DEF StartDistribute
<1>14. ASSUME NEW v \in Workers, StartReplan(v) PROVE LockHeld'
  BY <1>14 DEF StartReplan
<1>15. CASE PatchPolicy
  BY <1>15 DEF PatchPolicy
<1>16. CASE Tick
  BY <1>16 DEF Tick
<1>17. CASE Crash
  BY <1>17 DEF Crash
<1>18. CASE Quiescent
  BY <1>18 DEF Quiescent, vars
<1>19. CASE UNCHANGED vars
  BY <1>19 DEF vars
<1> QED
  BY <1>1, <1>2, <1>3, <1>4, <1>5, <1>6, <1>7, <1>8, <1>9, <1>10, <1>11, <1>12, <1>13, <1>14, <1>15, <1>16, <1>17, <1>18, <1>19
  DEF Next, Step

-----------------------------------------------------------------------------
(* No step turns the clock back.                                           *)
LEMMA ClockStep ==
  ASSUME TypeOK, [Next]_vars
  PROVE  clock \in Nat /\ clock' \in Nat /\ clock <= clock'
<1>1. ASSUME NEW w \in Workers,
             StartDistribute(w) \/ StartReplan(w) \/ Step(w) \/ LockTimeout(w)
      PROVE  clock' = clock \/ clock' = clock + 1
  <2>1. CASE SelectReplaced(w) \/ ReadPolicy(w)
    BY <2>1 DEF SelectReplaced, ReadPolicy, Stamp
  <2>2. CASE \/ StartDistribute(w) \/ StartReplan(w) \/ LockTimeout(w)
             \/ FlushLimit(w) \/ CommitLimit(w) \/ Materialize(w)
    BY <2>2 DEF StartDistribute, StartReplan, LockTimeout, FlushLimit,
                CommitLimit, Materialize
  <2>3. CASE \/ BuildSiteModel(w) \/ SolveAndFlush(w) \/ Dispatch(w)
             \/ CommitPlan(w) \/ ReloadPlan(w) \/ FinishDistribute(w)
    BY <2>3 DEF BuildSiteModel, SolveAndFlush, Dispatch, CommitPlan,
                ReloadPlan, FinishDistribute
  <2> QED BY <1>1, <2>1, <2>2, <2>3 DEF Step
<1>2. clock' = clock \/ clock' = clock + 1
  BY <1>1 DEF Next, PatchPolicy, Tick, Stamp, Crash, Quiescent, vars
<1> QED BY <1>2 DEF TypeOK

(* The stamps in a session never lie in the future.                        *)
LEMMA StampStep == TypeOK /\ StampsPast /\ [Next]_vars => StampsPast'
<1> SUFFICES ASSUME TypeOK, StampsPast, [Next]_vars, NEW w \in Workers
             PROVE  job'[w].at <= clock' /\ job'[w].received <= clock'
  BY DEF StampsPast
<1> USE ConstantsAssumption
<1>1. clock \in Nat /\ clock' \in Nat /\ clock <= clock'
  BY ClockStep
<1>2. /\ job[w].at \in Nat /\ job[w].received \in Nat
      /\ job[w].at <= clock /\ job[w].received <= clock
      /\ job \in [Workers -> Jobs]
  BY DEF TypeOK, Jobs, Stamps, StampsPast
<1>3. NoJob.at = 0 /\ NoJob.received = 0
  BY DEF NoJob
<1> USE <1>1, <1>2, <1>3 DEF Goto
<1>4. ASSUME NEW v \in Workers, StartDistribute(v)
      PROVE  job'[w].at <= clock' /\ job'[w].received <= clock'
  BY <1>4 DEF StartDistribute, NoJob, Jobs
<1>5. ASSUME NEW v \in Workers, StartReplan(v)
      PROVE  job'[w].at <= clock' /\ job'[w].received <= clock'
  BY <1>5 DEF StartReplan, NoJob, Jobs
<1>6. ASSUME NEW v \in Workers, SelectReplaced(v)
      PROVE  job'[w].at <= clock' /\ job'[w].received <= clock'
  BY <1>6 DEF SelectReplaced, Stamp, Jobs
<1>7. ASSUME NEW v \in Workers, FlushLimit(v)
      PROVE  job'[w].at <= clock' /\ job'[w].received <= clock'
  BY <1>7 DEF FlushLimit, Jobs
<1>8. ASSUME NEW v \in Workers, CommitLimit(v)
      PROVE  job'[w].at <= clock' /\ job'[w].received <= clock'
  BY <1>8 DEF CommitLimit, NoJob, Jobs
<1>9. ASSUME NEW v \in Workers, ReadPolicy(v)
      PROVE  job'[w].at <= clock' /\ job'[w].received <= clock'
  BY <1>9 DEF ReadPolicy, Stamp, Jobs
<1>10. ASSUME NEW v \in Workers, Materialize(v)
      PROVE  job'[w].at <= clock' /\ job'[w].received <= clock'
  BY <1>10 DEF Materialize, Jobs
<1>11. ASSUME NEW v \in Workers, BuildSiteModel(v)
      PROVE  job'[w].at <= clock' /\ job'[w].received <= clock'
  BY <1>11 DEF BuildSiteModel, Jobs
<1>12. ASSUME NEW v \in Workers, SolveAndFlush(v)
      PROVE  job'[w].at <= clock' /\ job'[w].received <= clock'
  BY <1>12 DEF SolveAndFlush, Jobs
<1>13. ASSUME NEW v \in Workers, Dispatch(v)
      PROVE  job'[w].at <= clock' /\ job'[w].received <= clock'
  BY <1>13 DEF Dispatch, Jobs
<1>14. ASSUME NEW v \in Workers, CommitPlan(v)
      PROVE  job'[w].at <= clock' /\ job'[w].received <= clock'
  BY <1>14 DEF CommitPlan, NoJob, Jobs
<1>15. ASSUME NEW v \in Workers, ReloadPlan(v)
      PROVE  job'[w].at <= clock' /\ job'[w].received <= clock'
  BY <1>15 DEF ReloadPlan, Jobs
<1>16. ASSUME NEW v \in Workers, FinishDistribute(v)
      PROVE  job'[w].at <= clock' /\ job'[w].received <= clock'
  BY <1>16 DEF FinishDistribute, NoJob, Jobs
<1>17. ASSUME NEW v \in Workers, LockTimeout(v)
      PROVE  job'[w].at <= clock' /\ job'[w].received <= clock'
  BY <1>17 DEF LockTimeout, NoJob, Jobs
<1>18. CASE PatchPolicy
  BY <1>18 DEF PatchPolicy
<1>19. CASE Tick
  BY <1>19 DEF Tick, Stamp
<1>20. CASE Crash
  BY <1>20 DEF Crash, NoJob
<1>21. CASE Quiescent
  BY <1>21 DEF Quiescent, vars
<1>22. CASE UNCHANGED vars
  BY <1>22 DEF vars
<1> QED
  BY <1>4, <1>5, <1>6, <1>7, <1>8, <1>9, <1>10, <1>11, <1>12, <1>13, <1>14, <1>15, <1>16, <1>17, <1>18, <1>19, <1>20, <1>21, <1>22 DEF Next, Step

(* With a configured device, a step never lets the ledger get ahead of a   *)
(* plan that is being solved or dispatched.                                *)
LEMMA CapStep ==
  ASSUME ConfiguredAssets, TypeOK, TypeOK', StampsPast, LockHeld, CapWithinLedger,
         [Next]_vars
  PROVE  CapWithinLedger'
<1> USE ConstantsAssumption
<1> DEFINE Bound(w) ==
      /\ pc[w] = "solve" =>
           Within(job[w].cap, tx, Unexpired(tx, clock) \ job[w].off)
      /\ pc[w] = "dispatch" => Within(job[w].cap, tx, Unexpired(tx, clock))
<1> SUFFICES ASSUME NEW w \in Workers PROVE Bound(w)'
  BY DEF CapWithinLedger
<1>1. clock \in Nat /\ clock' \in Nat /\ clock <= clock'
  BY ClockStep
<1>2. ASSUME pc'[w] = pc[w], job'[w] = job[w],
             pc[w] \in {"solve", "dispatch"} => tx' = tx
      PROVE  Bound(w)'
  <2>1. Bound(w)
    BY DEF CapWithinLedger
  <2>2. Unexpired(tx, clock') \subseteq Unexpired(tx, clock)
    BY <1>1, UnexpiredShrinks DEF TypeOK
  <2> QED BY <1>2, <2>1, <2>2 DEF Within
<1>3. pc[w] \in {"solve", "dispatch"} => lock = w
  BY DEF LockHeld
<1> HIDE DEF Bound
<1>4. ASSUME pc'[w] \notin {"solve", "dispatch"} PROVE Bound(w)'
  BY <1>4 DEF Bound
<1> USE DEF TypeOK, Goto
<1>5. ASSUME NEW v \in Workers, StartDistribute(v) PROVE Bound(w)'
  <2>1. CASE v = w
    BY <1>5, <1>4, <2>1 DEF StartDistribute
  <2>2. CASE v # w
    BY <1>2, <1>3, <1>5, <2>2 DEF StartDistribute
  <2> QED BY <2>1, <2>2
<1>6. ASSUME NEW v \in Workers, StartReplan(v) PROVE Bound(w)'
  <2>1. CASE v = w
    BY <1>6, <1>4, <2>1 DEF StartReplan
  <2>2. CASE v # w
    BY <1>2, <1>3, <1>6, <2>2 DEF StartReplan
  <2> QED BY <2>1, <2>2
<1>7. ASSUME NEW v \in Workers, SelectReplaced(v) PROVE Bound(w)'
  <2>1. CASE v = w
    BY <1>7, <1>4, <2>1 DEF SelectReplaced
  <2>2. CASE v # w
    BY <1>2, <1>3, <1>7, <2>2 DEF SelectReplaced
  <2> QED BY <2>1, <2>2
<1>8. ASSUME NEW v \in Workers, ReadPolicy(v) PROVE Bound(w)'
  <2>1. CASE v = w
    BY <1>8, <1>4, <2>1 DEF ReadPolicy
  <2>2. CASE v # w
    BY <1>2, <1>3, <1>8, <2>2 DEF ReadPolicy
  <2> QED BY <2>1, <2>2
<1>9. ASSUME NEW v \in Workers, ReloadPlan(v) PROVE Bound(w)'
  <2>1. CASE v = w
    BY <1>9, <1>4, <2>1 DEF ReloadPlan
  <2>2. CASE v # w
    BY <1>2, <1>3, <1>9, <2>2 DEF ReloadPlan
  <2> QED BY <2>1, <2>2
<1>10. ASSUME NEW v \in Workers, LockTimeout(v) PROVE Bound(w)'
  <2>1. CASE v = w
    BY <1>10, <1>4, <2>1 DEF LockTimeout
  <2>2. CASE v # w
    BY <1>2, <1>3, <1>10, <2>2 DEF LockTimeout
  <2> QED BY <2>1, <2>2
<1>11. ASSUME NEW v \in Workers, FlushLimit(v) PROVE Bound(w)'
  <2>1. CASE v = w
    BY <1>11, <1>4, <2>1 DEF FlushLimit
  <2>2. CASE v # w
    BY <1>2, <1>3, <1>11, <2>2 DEF FlushLimit
  <2> QED BY <2>1, <2>2
<1>12. ASSUME NEW v \in Workers, Materialize(v) PROVE Bound(w)'
  <2>1. CASE v = w
    BY <1>12, <1>4, <2>1 DEF Materialize
  <2>2. CASE v # w
    BY <1>2, <1>3, <1>12, <2>2 DEF Materialize
  <2> QED BY <2>1, <2>2
<1>13. ASSUME NEW v \in Workers, FinishDistribute(v) PROVE Bound(w)'
  <2>1. CASE v = w
    BY <1>13, <1>4, <2>1 DEF FinishDistribute
  <2>2. CASE v # w
    BY <1>2, <1>3, <1>13, <2>2 DEF FinishDistribute
  <2> QED BY <2>1, <2>2
<1>14. ASSUME NEW v \in Workers, CommitLimit(v) PROVE Bound(w)'
  <2>1. CASE v = w
    BY <1>14, <1>4, <2>1 DEF CommitLimit
  <2>2. CASE v # w
    <3>1. lock = v
      BY <1>14 DEF CommitLimit, LockHeld
    <3> QED BY <1>2, <1>3, <1>14, <2>2, <3>1 DEF CommitLimit
  <2> QED BY <2>1, <2>2
<1>15. ASSUME NEW v \in Workers, CommitPlan(v) PROVE Bound(w)'
  <2>1. CASE v = w
    BY <1>15, <1>4, <2>1 DEF CommitPlan
  <2>2. CASE v # w
    <3>1. lock = v
      BY <1>15 DEF CommitPlan, LockHeld
    <3> QED BY <1>2, <1>3, <1>15, <2>2, <3>1 DEF CommitPlan
  <2> QED BY <2>1, <2>2
<1>16. ASSUME NEW v \in Workers, BuildSiteModel(v) PROVE Bound(w)'
  <2>1. CASE v # w
    BY <1>2, <1>3, <1>16, <2>1 DEF BuildSiteModel
  <2>2. CASE v = w
    <3>1. lock = w
      BY <1>16, <2>2 DEF BuildSiteModel, LockHeld
    <3>2. PICK cap \in Caps :
            /\ IsEffective(cap, tx, job[w].policy.cap, job[w].at)
            /\ Goto(w, "solve",
                    [job[w] EXCEPT !.cap = cap,
                       !.off = @ \cup Obsolete(tx, job[w].at)])
      BY <1>16, <2>2, <3>1 DEF BuildSiteModel
    <3>3. job[w].at \in Nat /\ job[w].at <= clock
      BY DEF StampsPast, Jobs, Stamps
    <3>4. Within(cap, tx, Unexpired(tx, clock)
                            \ (job[w].off \cup Obsolete(tx, job[w].at)))
      BY <3>2, <3>3, EffectiveWithin
    <3>5. /\ job'[w].cap = cap
          /\ job'[w].off = job[w].off \cup Obsolete(tx, job[w].at)
          /\ pc'[w] = "solve"
      BY <3>2 DEF Jobs
    <3> QED BY <1>16, <2>2, <3>4, <3>5 DEF BuildSiteModel, Bound
  <2> QED BY <2>1, <2>2
<1>17. ASSUME NEW v \in Workers, SolveAndFlush(v) PROVE Bound(w)'
  <2>1. CASE v # w
    BY <1>2, <1>3, <1>17, <2>1 DEF SolveAndFlush, Free
  <2>2. CASE v = w
    <3>1. lock = w /\ Bound(w)
      BY <1>17, <2>2 DEF SolveAndFlush, LockHeld, CapWithinLedger, Bound
    <3>2. Within(job[w].cap, tx, Unexpired(tx, clock) \ job[w].off)
      BY <1>17, <2>2, <3>1 DEF SolveAndFlush, Bound
    <3>3. tx' = Deactivate(tx, job[w].off) /\ clock' = clock
      BY <1>17, <2>2, <3>1 DEF SolveAndFlush
    <3>4. Within(job[w].cap, tx', Unexpired(tx', clock'))
      BY <3>2, <3>3, DeactivateWithin
    <3>5. job'[w].cap = job[w].cap /\ pc'[w] = "dispatch"
      BY <1>17, <2>2 DEF SolveAndFlush, Jobs
    <3> QED BY <3>4, <3>5 DEF Bound
  <2> QED BY <2>1, <2>2
<1>18. ASSUME NEW v \in Workers, Dispatch(v) PROVE Bound(w)'
  <2>1. CASE v # w
    BY <1>2, <1>18, <2>1 DEF Dispatch
  <2>2. CASE v = w
    <3>1. Within(job[w].cap, tx, Unexpired(tx, clock))
      BY <1>18, <2>2 DEF Dispatch, CapWithinLedger
    <3>2. /\ job'[w].cap = job[w].cap /\ pc'[w] = "dispatch"
          /\ tx' = tx /\ clock' = clock
      BY <1>18, <2>2 DEF Dispatch, Jobs
    <3> QED BY <3>1, <3>2 DEF Bound
  <2> QED BY <2>1, <2>2
<1>19. CASE PatchPolicy
  BY <1>2, <1>19 DEF PatchPolicy
<1>20. CASE Tick
  BY <1>2, <1>20 DEF Tick
<1>21. CASE Crash
  BY <1>4, <1>21 DEF Crash
<1>22. CASE Quiescent
  BY <1>2, <1>22 DEF Quiescent, vars
<1>23. CASE UNCHANGED vars
  BY <1>2, <1>23 DEF vars
<1> QED
  BY <1>5, <1>6, <1>7, <1>8, <1>9, <1>10, <1>11, <1>12, <1>13, <1>14, <1>15, <1>16, <1>17, <1>18, <1>19, <1>20, <1>21, <1>22, <1>23
  DEF Next, Step

(* At first the ledger is empty and nobody holds the write lock.           *)
LEMMA DispatchInvInit == Init => DispatchInv
<1> SUFFICES ASSUME Init PROVE DispatchInv
  OBVIOUS
<1>1. TypeOK
  BY TypeInit
<1>2. \A w \in Workers : pc[w] = "idle" /\ job[w] = NoJob
  BY DEF Init
<1>3. StampsPast
  BY <1>2 DEF StampsPast, NoJob, Init
<1> QED BY <1>1, <1>2, <1>3 DEF DispatchInv, LockHeld, CapWithinLedger

(* With a configured device, whatever the number of concurrent requests,   *)
(* the cap of every plan being dispatched is within every active limit.    *)
THEOREM DispatchInvariant == ASSUME ConfiguredAssets PROVE Spec => []DispatchInv
<1>1. Init => DispatchInv
  BY DispatchInvInit
<1>2. DispatchInv /\ [Next]_vars => DispatchInv'
  <2> SUFFICES ASSUME DispatchInv, [Next]_vars PROVE DispatchInv'
    OBVIOUS
  <2>1. TypeOK /\ StampsPast /\ LockHeld /\ CapWithinLedger
    BY DEF DispatchInv
  <2>2. TypeOK' /\ StampsPast' /\ LockHeld'
    BY <2>1, TypeStep, StampStep, LockStep
  <2>3. CapWithinLedger'
    BY <2>1, <2>2, CapStep
  <2> QED BY <2>2, <2>3 DEF DispatchInv
<1> QED BY <1>1, <1>2, PTL DEF Spec

(* With a configured device, no command is ever sent under a cap looser    *)
(* than a limit that is active and unexpired in the ledger.                *)
THEOREM DispatchSafe == ASSUME ConfiguredAssets PROVE Spec => DispatchHonoursLimits
<1> DEFINE Honours ==
      \A d \in Devices : device'[d] # device[d] =>
        \A i \in Unexpired(tx, clock) :
           device'[d].cap[UseCaseOf[tx[i].key]] <= tx[i].watts
<1>1. DispatchInv /\ [Next]_vars => [Honours]_vars
  <2> SUFFICES ASSUME DispatchInv, Next, NEW d \in Devices,
                      device'[d] # device[d]
               PROVE  \A i \in Unexpired(tx, clock) :
                        device'[d].cap[UseCaseOf[tx[i].key]] <= tx[i].watts
    BY DEF vars
  <2>1. PICK w \in Workers : Dispatch(w)
    BY DEF Next, Step, vars, StartDistribute, SelectReplaced, FlushLimit,
           CommitLimit, StartReplan, ReadPolicy, Materialize, BuildSiteModel,
           SolveAndFlush, CommitPlan, ReloadPlan, FinishDistribute,
           LockTimeout, PatchPolicy, Tick, Crash, Quiescent
  <2>2. device'[d].cap = job[w].cap
    BY <2>1 DEF Dispatch, DispatchInv, TypeOK
  <2>3. Within(job[w].cap, tx, Unexpired(tx, clock))
    BY <2>1 DEF Dispatch, DispatchInv, CapWithinLedger
  <2> QED BY <2>2, <2>3 DEF Within
<1>2. Spec => []DispatchInv
  BY DispatchInvariant
<1> QED BY <1>1, <1>2, PTL DEF Spec, DispatchHonoursLimits
=============================================================================
