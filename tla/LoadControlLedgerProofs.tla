----------------------- MODULE LoadControlLedgerProofs -----------------------
(***************************************************************************)
(* What happens to an accepted limit, for any number of workers, keys and  *)
(* rows: it ends for a reason only; and, when requests come one at a time, *)
(* the ledger is one register per key.                                     *)
(***************************************************************************)
EXTENDS LoadControlLedger, LoadControlProofs

-----------------------------------------------------------------------------
(* Rows and why they end *)

(* The parts of a row no request changes once it is inserted.              *)
SameCommand(r, s) ==
  /\ r.key = s.key /\ r.watts = s.watts /\ r.command = s.command
  /\ r.received = s.received /\ r.expires = s.expires

(* Rows of one ledger are rows of the other, with the same commands.       *)
Grows(old, new) ==
  \A i \in LimitIds : old[i].status # "absent" =>
    new[i].status # "absent" /\ SameCommand(old[i], new[i])

Newer(rows, i, j) ==
  /\ rows[j].status # "absent" /\ rows[j].key = rows[i].key
  /\ rows[i].received < rows[j].received

Ended(rows, i, t) ==
  Expired(rows[i], t) \/ \E j \in LimitIds : Newer(rows, i, j)

(* The ledger as the session of w sees it.                                 *)
SeenBy(w) == IF lock = w THEN tx ELSE db

(* The command of w is about to replace row i.                             *)
Replaces(w, i) ==
  /\ pc[w] = "flush" /\ db[i].key = job[w].key
  /\ db[i].received < job[w].received

-----------------------------------------------------------------------------
(* The inductive invariant *)

(* The open transaction extends the committed ledger by the row of its     *)
(* request, and what it has switched off has a reason to end.              *)
OpenTransaction ==
  /\ lock = NoWorker => tx = db
  /\ Grows(db, tx)
  /\ \A i \in LimitIds :
       /\ db[i].status = "absent" /\ tx[i].status # "absent" =>
            lock \in Workers /\ job[lock].id = i
       /\ db[i].status = "active" /\ tx[i].status # "active" =>
            Ended(tx, i, clock)

RowsPast ==
  \A i \in LimitIds : db[i].received <= clock /\ tx[i].received <= clock

(* A request that has not flushed yet holds no lock and its row is unused. *)
NotYetInserted(w) ==
  /\ pc[w] \in {"idle", "record", "flush", "reload", "finish"} => lock # w
  /\ pc[w] \in {"dispatch", "commit"} => lock = w
  /\ pc[w] \in {"record", "flush"} =>
       /\ job[w].id \in LimitIds
       /\ db[job[w].id].status = "absent" /\ tx[job[w].id].status = "absent"

(* Rows a session will switch off have a reason to end.                    *)
OffExplained(w) ==
  \A i \in job[w].off :
    /\ SeenBy(w)[i].status # "absent"
    /\ Ended(SeenBy(w), i, clock) \/ Replaces(w, i)

IdsDistinct ==
  \A v, w \in Workers : v # w /\ job[v].id = job[w].id => job[v].id = NoLimit

LedgerInv ==
  /\ TypeOK /\ StampsPast /\ RowsPast /\ OpenTransaction /\ IdsDistinct
  /\ \A w \in Workers : NotYetInserted(w) /\ OffExplained(w)

-----------------------------------------------------------------------------
(* Lemmas about ledgers *)

(* Growing is transitive, and every ledger grows into itself.              *)
LEMMA GrowsTransitive ==
  ASSUME NEW a, NEW b, NEW c
  PROVE  Grows(a, a) /\ (Grows(a, b) /\ Grows(b, c) => Grows(a, c))
BY DEF Grows, SameCommand

(* A reason to end stays one while the ledger grows and time passes.       *)
LEMMA EndedPersists ==
  ASSUME NEW old \in Ledgers, NEW new \in Ledgers, Grows(old, new),
         NEW i \in LimitIds, old[i].status # "absent",
         NEW t \in Nat, NEW u \in Nat, t <= u, Ended(old, i, t)
  PROVE  Ended(new, i, u)
<1>1. /\ old[i] \in Rows /\ new[i] \in Rows
      /\ SameCommand(old[i], new[i])
  BY DEF Grows, Ledgers
<1>2. CASE Expired(old[i], t)
  <2>1. old[i].expires \in Nat /\ new[i].expires = old[i].expires
    BY <1>1 DEF Rows, Expiries, SameCommand
  <2>2. Expired(new[i], u)
    BY <1>2, <2>1 DEF Expired
  <2> QED BY <2>2 DEF Ended
<1>3. CASE \E j \in LimitIds : Newer(old, i, j)
  <2>1. PICK j \in LimitIds : Newer(old, i, j)
    BY <1>3
  <2>2. new[j].status # "absent" /\ SameCommand(old[j], new[j])
    BY <2>1 DEF Newer, Grows
  <2>3. Newer(new, i, j)
    BY <1>1, <2>1, <2>2 DEF Newer, SameCommand
  <2> QED BY <2>3 DEF Ended
<1> QED BY <1>2, <1>3 DEF Ended

(* Switching rows off keeps the commands, and switches off nothing else.   *)
LEMMA DeactivateGrows ==
  ASSUME NEW rows \in Ledgers, NEW off
  PROVE  /\ Deactivate(rows, off) \in Ledgers
         /\ Grows(rows, Deactivate(rows, off))
         /\ \A i \in LimitIds :
              /\ SameCommand(rows[i], Deactivate(rows, off)[i])
              /\ Deactivate(rows, off)[i].status =
                   IF i \in off /\ rows[i].status = "active"
                   THEN "inactive" ELSE rows[i].status
<1>1. ASSUME NEW i \in LimitIds
      PROVE  /\ SameCommand(rows[i], Deactivate(rows, off)[i])
             /\ Deactivate(rows, off)[i].status =
                  IF i \in off /\ rows[i].status = "active"
                  THEN "inactive" ELSE rows[i].status
  <2>1. rows[i] \in Rows
    BY DEF Ledgers
  <2>2. Deactivate(rows, off)[i] =
          IF i \in off /\ rows[i].status = "active"
          THEN [rows[i] EXCEPT !.status = "inactive"] ELSE rows[i]
    BY DEF Deactivate
  <2> QED BY <2>1, <2>2 DEF Rows, SameCommand
<1> QED BY <1>1, DeactivateType DEF Grows

(* A command is inserted into an unused row.                               *)
LEMMA InsertGrows ==
  ASSUME NEW rows \in Ledgers, NEW j \in Jobs, j.id \in LimitIds,
         rows[j.id].status = "absent"
  PROVE  /\ Insert(rows, j) \in Ledgers
         /\ Grows(rows, Insert(rows, j))
         /\ \A i \in LimitIds : i # j.id => Insert(rows, j)[i] = rows[i]
         /\ Insert(rows, j)[j.id].status # "absent"
         /\ Insert(rows, j)[j.id].key = j.key
         /\ Insert(rows, j)[j.id].received = j.received
<1> DEFINE row == [status |-> IF j.command THEN "active" ELSE "inactive",
                   command |-> j.command, key |-> j.key, watts |-> j.watts,
                   received |-> j.received,
                   expires |-> IF j.command /\ j.duration # 0
                               THEN j.received + j.duration ELSE 0,
                   delivery |-> NewDeliveries(j.watts)]
<1>1. /\ row.status # "absent" /\ row.key = j.key
      /\ row.received = j.received
  OBVIOUS
<1>2. Insert(rows, j) = [rows EXCEPT ![j.id] = row]
  BY DEF Insert
<1> HIDE DEF row
<1>3. /\ \A i \in LimitIds : i # j.id => Insert(rows, j)[i] = rows[i]
      /\ Insert(rows, j)[j.id] = row
  BY <1>2 DEF Ledgers
<1>4. Grows(rows, Insert(rows, j))
  BY <1>3 DEF Grows, SameCommand
<1> QED BY <1>1, <1>3, <1>4, InsertType

(* A read switches off only rows that have a reason to end.                *)
LEMMA ObsoleteEnded ==
  ASSUME NEW rows \in Ledgers, NEW t \in Nat, NEW i \in Obsolete(rows, t)
  PROVE  i \in LimitIds /\ rows[i].status = "active" /\ Ended(rows, i, t)
<1>1. /\ i \in LimitIds /\ rows[i].status = "active"
      /\ i \notin ActiveLimits(rows, t)
  BY DEF Obsolete
<1>2. CASE Expired(rows[i], t)
  BY <1>1, <1>2 DEF Ended
<1>3. CASE ~Expired(rows[i], t)
  <2>1. i \in Unexpired(rows, t)
    BY <1>1, <1>3 DEF Unexpired
  <2>2. PICK j \in Unexpired(rows, t) :
          /\ rows[j].key = rows[i].key
          /\ ~(rows[j].received <= rows[i].received)
    BY <1>1, <2>1 DEF ActiveLimits
  <2>3. /\ j \in LimitIds /\ rows[j].status = "active"
        /\ rows[j].received \in Nat /\ rows[i].received \in Nat
    BY <1>1, <2>2 DEF Unexpired, Ledgers, Rows, Stamps
  <2>4. Newer(rows, i, j)
    BY <2>2, <2>3 DEF Newer
  <2> QED BY <1>1, <2>3, <2>4 DEF Ended
<1> QED BY <1>2, <1>3

-----------------------------------------------------------------------------
(* The steps keep LedgerInv *)

(* A worker that does not move keeps what it knows, while the ledger it    *)
(* sees grows and its row stays unused.                                    *)
LEMMA WorkerKeeps ==
  ASSUME LedgerInv, TypeOK', NEW v \in Workers,
         pc'[v] = pc[v], job'[v] = job[v], clock <= clock',
         lock' = v <=> lock = v,
         Grows(SeenBy(v), SeenBy(v)'),
         pc[v] \in {"record", "flush"} =>
           /\ db'[job[v].id].status = "absent"
           /\ tx'[job[v].id].status = "absent"
  PROVE  NotYetInserted(v)' /\ OffExplained(v)'
<1>1. NotYetInserted(v)'
  BY DEF LedgerInv, NotYetInserted
<1>2. OffExplained(v)'
  <2> SUFFICES ASSUME NEW i \in job[v].off
               PROVE  /\ SeenBy(v)'[i].status # "absent"
                      /\ Ended(SeenBy(v)', i, clock') \/ Replaces(v, i)'
    BY DEF OffExplained
  <2>1. /\ i \in LimitIds /\ SeenBy(v)[i].status # "absent"
        /\ Ended(SeenBy(v), i, clock) \/ Replaces(v, i)
    BY DEF LedgerInv, OffExplained, TypeOK, Jobs
  <2>2. /\ SeenBy(v) \in Ledgers /\ SeenBy(v)' \in Ledgers
        /\ clock \in Nat /\ clock' \in Nat
    BY DEF LedgerInv, TypeOK, SeenBy
  <2>3. /\ SeenBy(v)'[i].status # "absent"
        /\ SameCommand(SeenBy(v)[i], SeenBy(v)'[i])
    BY <2>1 DEF Grows
  <2>4. CASE Ended(SeenBy(v), i, clock)
    <3>1. Ended(SeenBy(v)', i, clock')
      BY <2>1, <2>2, <2>4, EndedPersists
    <3> QED BY <2>3, <3>1
  <2>5. CASE Replaces(v, i)
    <3>1. lock # v
      BY <2>5 DEF Replaces, LedgerInv, NotYetInserted
    <3>2. SeenBy(v) = db /\ SeenBy(v)' = db'
      BY <3>1 DEF SeenBy
    <3>3. Replaces(v, i)'
      BY <2>3, <2>5, <3>2 DEF Replaces, SameCommand
    <3> QED BY <2>3, <3>3
  <2> QED BY <2>1, <2>4, <2>5
<1> QED BY <1>1, <1>2

(* While ledgers and lock stay, so does what is known of the open          *)
(* transaction.                                                            *)
LEMMA TransactionKeeps ==
  ASSUME LedgerInv, TypeOK', UNCHANGED <<db, tx, lock>>, clock <= clock',
         lock \in Workers => job'[lock].id = job[lock].id
  PROVE  OpenTransaction' /\ RowsPast'
<1>1. db \in Ledgers /\ tx \in Ledgers /\ clock \in Nat /\ clock' \in Nat
  BY DEF LedgerInv, TypeOK
<1>2. RowsPast'
  <2>1. \A i \in LimitIds :
          /\ db[i].received \in Nat /\ tx[i].received \in Nat
          /\ db[i].received <= clock /\ tx[i].received <= clock
    BY DEF LedgerInv, TypeOK, Ledgers, Rows, Stamps, RowsPast
  <2> QED BY <1>1, <2>1 DEF RowsPast
<1>3. ASSUME NEW i \in LimitIds, db[i].status = "active",
             tx[i].status # "active"
      PROVE  Ended(tx, i, clock')
  <2>1. tx[i].status # "absent" /\ Ended(tx, i, clock)
    BY <1>3 DEF LedgerInv, OpenTransaction, Grows
  <2> QED BY <1>1, <2>1, EndedPersists, GrowsTransitive
<1>4. ASSUME NEW i \in LimitIds, db[i].status = "absent",
             tx[i].status # "absent"
      PROVE  lock \in Workers /\ job'[lock].id = i
  BY <1>4 DEF LedgerInv, OpenTransaction
<1>5. OpenTransaction'
  BY <1>3, <1>4 DEF LedgerInv, OpenTransaction
<1> QED BY <1>2, <1>5

(* A step that leaves ledgers and lock alone: worker w goes on with rows   *)
(* it was to switch off already, or has now read.                          *)
LEMMA ReadKeeps ==
  ASSUME LedgerInv, TypeOK', StampsPast', NEW w \in Workers,
         UNCHANGED <<db, tx, lock>>, clock <= clock',
         \A v \in Workers \ {w} : pc'[v] = pc[v] /\ job'[v] = job[v],
         \A v \in Workers \ {w} : job'[w].id = job[v].id =>
                                    job[v].id = NoLimit,
         NotYetInserted(w)',
         lock = w => job'[w].id = job[w].id,
         \A i \in job'[w].off :
           \/ i \in job[w].off /\ pc[w] # "flush"
           \/ SeenBy(w)[i].status = "active" /\ Ended(SeenBy(w), i, clock')
           \/ SeenBy(w)[i].status = "active" /\ Replaces(w, i)'
  PROVE  LedgerInv'
<1>1. db \in Ledgers /\ tx \in Ledgers /\ clock \in Nat /\ clock' \in Nat
  BY DEF LedgerInv, TypeOK
<1>2. OpenTransaction' /\ RowsPast'
  BY TransactionKeeps
<1>3. IdsDistinct'
  BY DEF LedgerInv, IdsDistinct
<1>4. ASSUME NEW v \in Workers \ {w}
      PROVE  NotYetInserted(v)' /\ OffExplained(v)'
  <2>1. Grows(SeenBy(v), SeenBy(v)')
    BY GrowsTransitive DEF SeenBy
  <2>2. pc[v] \in {"record", "flush"} =>
           /\ db'[job[v].id].status = "absent"
           /\ tx'[job[v].id].status = "absent"
    BY DEF LedgerInv, NotYetInserted
  <2> QED BY <2>1, <2>2, WorkerKeeps
<1>5. OffExplained(w)'
  <2> SUFFICES ASSUME NEW i \in job'[w].off
               PROVE  /\ SeenBy(w)[i].status # "absent"
                      /\ Ended(SeenBy(w), i, clock') \/ Replaces(w, i)'
    BY DEF OffExplained, SeenBy
  <2>1. i \in LimitIds /\ SeenBy(w) \in Ledgers
    BY <1>1 DEF TypeOK, Jobs, SeenBy
  <2>2. CASE i \in job[w].off /\ pc[w] # "flush"
    <3>1. SeenBy(w)[i].status # "absent" /\ Ended(SeenBy(w), i, clock)
      BY <2>2 DEF LedgerInv, OffExplained, Replaces
    <3> QED BY <1>1, <2>1, <3>1, EndedPersists, GrowsTransitive
  <2> QED BY <2>2
<1> QED BY <1>2, <1>3, <1>4, <1>5 DEF LedgerInv

(* A worker goes on to a stage; the others stay where they are.            *)
LEMMA GotoMoves ==
  ASSUME TypeOK, NEW w \in Workers, NEW stage, NEW j, Goto(w, stage, j)
  PROVE  /\ pc'[w] = stage /\ job'[w] = j
         /\ \A v \in Workers \ {w} : pc'[v] = pc[v] /\ job'[v] = job[v]
BY DEF TypeOK, Goto

(* The steps of a request that only read.                                  *)
LEMMA ReadSteps ==
  ASSUME LedgerInv, TypeOK', StampsPast', clock <= clock',
         NEW w \in Workers,
         \/ StartDistribute(w) \/ StartReplan(w) \/ SelectReplaced(w)
         \/ ReadPolicy(w) \/ BuildSiteModel(w) \/ Dispatch(w)
         \/ ReloadPlan(w) \/ LockTimeout(w)
  PROVE  LedgerInv'
<1>1. /\ db \in Ledgers /\ tx \in Ledgers /\ clock \in Nat /\ clock' \in Nat
      /\ pc \in [Workers -> Stages] /\ job \in [Workers -> Jobs]
      /\ SeenBy(w) \in Ledgers /\ job[w] \in Jobs
  BY DEF LedgerInv, TypeOK, SeenBy
<1>2. NoJob.id = NoLimit /\ NoJob.off = {} /\ NoJob \in Jobs
  BY NoJobType DEF NoJob
<1>3. TypeOK
  BY DEF LedgerInv
<1>4. ASSUME NEW v \in Workers \ {w}, job[w].id = job[v].id
      PROVE  job[v].id = NoLimit
  BY <1>4 DEF LedgerInv, IdsDistinct
<1>5. NotYetInserted(w)
  BY DEF LedgerInv
<1>6. CASE StartDistribute(w)
  <2>1. PICK k \in Keys, p \in Powers, t \in Durations, c \in BOOLEAN,
             i \in LimitIds, before \in Caps :
          /\ db[i].status = "absent"
          /\ \A v \in Workers : job[v].id # i
          /\ Goto(w, "record",
               [NoJob EXCEPT !.kind = "distribute", !.policy = policy,
                  !.id = i, !.key = k, !.watts = p, !.duration = t,
                  !.command = c, !.before = before,
                  !.off = Obsolete(db, clock)])
    BY <1>6, ZenonT(40) DEF StartDistribute
  <2> DEFINE j == [NoJob EXCEPT !.kind = "distribute", !.policy = policy,
                     !.id = i, !.key = k, !.watts = p, !.duration = t,
                     !.command = c, !.before = before,
                     !.off = Obsolete(db, clock)]
  <2>2. j.id = i /\ j.off = Obsolete(db, clock)
    BY <1>2 DEF Jobs
  <2>3. Goto(w, "record", j)
    BY <2>1
  <2> HIDE DEF j
  <2>4. /\ pc'[w] = "record" /\ job'[w].id = i
        /\ job'[w].off = Obsolete(db, clock)
        /\ \A v \in Workers \ {w} : pc'[v] = pc[v] /\ job'[v] = job[v]
    BY <1>3, <2>2, <2>3, GotoMoves
  <2>5. lock # w /\ pc[w] = "idle" /\ UNCHANGED <<db, tx, lock, clock>>
    BY <1>5, <1>6 DEF StartDistribute, NotYetInserted
  <2>6. tx[i].status = "absent"
    BY <2>1 DEF LedgerInv, OpenTransaction
  <2>7. NotYetInserted(w)'
    BY <2>1, <2>4, <2>5, <2>6 DEF NotYetInserted
  <2>8. \A r \in job'[w].off :
          SeenBy(w)[r].status = "active" /\ Ended(SeenBy(w), r, clock')
    BY <1>1, <2>4, <2>5, ObsoleteEnded DEF SeenBy
  <2> QED BY <2>1, <2>4, <2>5, <2>7, <2>8, ReadKeeps
<1>7. CASE StartReplan(w)
  <2>1. /\ pc'[w] = "replan" /\ job'[w].id = NoLimit /\ job'[w].off = {}
        /\ \A v \in Workers \ {w} : pc'[v] = pc[v] /\ job'[v] = job[v]
    <3> DEFINE j == [NoJob EXCEPT !.kind = "replan"]
    <3>1. j.id = NoLimit /\ j.off = {}
      BY <1>2 DEF Jobs
    <3>2. Goto(w, "replan", j)
      BY <1>7 DEF StartReplan
    <3> HIDE DEF j
    <3> QED BY <1>3, <3>1, <3>2, GotoMoves
  <2>2. lock # w /\ UNCHANGED <<db, tx, lock, clock>>
    BY <1>5, <1>7 DEF StartReplan, NotYetInserted
  <2>3. NotYetInserted(w)'
    BY <2>1, <2>2 DEF NotYetInserted
  <2> QED BY <2>1, <2>2, <2>3, ReadKeeps
<1>8. CASE SelectReplaced(w)
  <2> DEFINE own == {i \in LimitIds : db[i].status = "active"
                                      /\ db[i].key = job[w].key}
  <2>1. /\ pc[w] = "record" /\ clock' = clock + 1 /\ lock # w
        /\ UNCHANGED <<db, tx, lock>>
    BY <1>5, <1>8 DEF SelectReplaced, Stamp, NotYetInserted
  <2>2. /\ pc'[w] = "flush"
        /\ job'[w] = [job[w] EXCEPT !.received = clock + 1,
                                    !.off = @ \cup own]
        /\ \A v \in Workers \ {w} : pc'[v] = pc[v] /\ job'[v] = job[v]
    BY <1>3, <1>8, GotoMoves DEF SelectReplaced
  <2> HIDE DEF own
  <2>3. /\ job'[w].id = job[w].id /\ job'[w].off = job[w].off \cup own
        /\ job'[w].received = clock + 1 /\ job'[w].key = job[w].key
    BY <1>1, <2>2 DEF Jobs
  <2>4. NotYetInserted(w)'
    BY <1>5, <2>1, <2>2, <2>3 DEF NotYetInserted
  <2>5. \A i \in own : SeenBy(w)[i].status = "active" /\ Replaces(w, i)'
    <3> SUFFICES ASSUME NEW i \in own
                 PROVE  SeenBy(w)[i].status = "active" /\ Replaces(w, i)'
      OBVIOUS
    <3>1. /\ i \in LimitIds /\ db[i].status = "active"
          /\ db[i].key = job[w].key
      BY DEF own
    <3>2. db[i].received \in Nat /\ db[i].received <= clock
      BY <3>1 DEF LedgerInv, TypeOK, Ledgers, Rows, Stamps, RowsPast
    <3> QED BY <1>1, <2>1, <2>2, <2>3, <3>1, <3>2 DEF SeenBy, Replaces
  <2> QED BY <1>4, <2>1, <2>2, <2>3, <2>4, <2>5, ReadKeeps
<1>9. CASE ReadPolicy(w)
  <2>1. /\ pc[w] = "replan" /\ UNCHANGED <<db, tx, lock>>
        /\ pc'[w] = "materialize"
        /\ job'[w].id = job[w].id /\ job'[w].off = job[w].off
        /\ \A v \in Workers \ {w} : pc'[v] = pc[v] /\ job'[v] = job[v]
    <3> DEFINE kept == IF job[w].kind = "replan" THEN policy
                       ELSE job[w].policy
               j == [job[w] EXCEPT !.at = clock + 1, !.policy = kept]
    <3>1. Goto(w, "materialize", j)
      BY <1>9 DEF ReadPolicy
    <3> HIDE DEF kept
    <3>2. j.id = job[w].id /\ j.off = job[w].off
      BY <1>1 DEF Jobs
    <3> HIDE DEF j
    <3> QED BY <1>3, <1>9, <3>1, <3>2, GotoMoves DEF ReadPolicy
  <2>2. NotYetInserted(w)'
    BY <2>1 DEF NotYetInserted
  <2> QED BY <1>4, <2>1, <2>2, ReadKeeps
<1>10. CASE BuildSiteModel(w)
  <2>1. PICK cap \in Caps :
          Goto(w, "solve",
            [job[w] EXCEPT !.cap = cap,
                           !.off = @ \cup Obsolete(SeenBy(w), job[w].at)])
    BY <1>10 DEF BuildSiteModel, SeenBy
  <2> DEFINE gone == Obsolete(SeenBy(w), job[w].at)
  <2>2. /\ pc[w] = "site" /\ UNCHANGED <<db, tx, lock, clock>>
        /\ pc'[w] = "solve"
        /\ job'[w].id = job[w].id /\ job'[w].off = job[w].off \cup gone
        /\ \A v \in Workers \ {w} : pc'[v] = pc[v] /\ job'[v] = job[v]
    <3> HIDE DEF gone
    <3> DEFINE j == [job[w] EXCEPT !.cap = cap, !.off = @ \cup gone]
    <3>1. Goto(w, "solve", j)
      BY <2>1 DEF gone
    <3>2. j.id = job[w].id /\ j.off = job[w].off \cup gone
      BY <1>1 DEF Jobs
    <3> HIDE DEF j
    <3> QED BY <1>3, <1>10, <3>1, <3>2, GotoMoves DEF BuildSiteModel
  <2>3. job[w].at \in Nat /\ job[w].at <= clock
    BY <1>1 DEF Jobs, Stamps, LedgerInv, StampsPast
  <2>4. \A i \in gone :
          SeenBy(w)[i].status = "active" /\ Ended(SeenBy(w), i, clock')
    <3> SUFFICES ASSUME NEW i \in gone
                 PROVE  /\ SeenBy(w)[i].status = "active"
                        /\ Ended(SeenBy(w), i, clock')
      OBVIOUS
    <3>1. /\ i \in LimitIds /\ SeenBy(w)[i].status = "active"
          /\ Ended(SeenBy(w), i, job[w].at)
      BY <1>1, <2>3, ObsoleteEnded
    <3> QED BY <1>1, <2>2, <2>3, <3>1, EndedPersists, GrowsTransitive
  <2>5. NotYetInserted(w)'
    BY <2>2 DEF NotYetInserted
  <2> HIDE DEF gone
  <2> QED BY <1>4, <2>2, <2>4, <2>5, ReadKeeps
<1>11. CASE Dispatch(w)
  <2>1. /\ pc[w] = "dispatch" /\ UNCHANGED <<db, tx, lock>>
        /\ pc'[w] = "dispatch"
        /\ job'[w].id = job[w].id /\ job'[w].off = job[w].off
        /\ \A v \in Workers \ {w} : pc'[v] = pc[v] /\ job'[v] = job[v]
    <3>1. PICK d \in job[w].todo, s \in DispatchStatuses :
            Goto(w, "dispatch", [job[w] EXCEPT !.todo = @ \ {d},
                                               !.outcome[d] = s])
      BY <1>11 DEF Dispatch
    <3> DEFINE todo == job[w].todo \ {d}
               outcome == [job[w].outcome EXCEPT ![d] = s]
               j == [job[w] EXCEPT !.todo = todo, !.outcome = outcome]
    <3>2. Goto(w, "dispatch", j)
      BY <3>1
    <3> HIDE DEF todo, outcome
    <3>3. j.id = job[w].id /\ j.off = job[w].off
      BY <1>1 DEF Jobs
    <3> HIDE DEF j
    <3>4. pc[w] = "dispatch" /\ UNCHANGED <<db, tx, lock>>
      BY <1>11 DEF Dispatch
    <3>5. /\ pc'[w] = "dispatch" /\ job'[w] = j
          /\ \A v \in Workers \ {w} : pc'[v] = pc[v] /\ job'[v] = job[v]
      BY <1>3, <3>2, GotoMoves
    <3> QED BY <3>3, <3>4, <3>5
  <2>2. NotYetInserted(w)'
    BY <1>5, <2>1 DEF NotYetInserted
  <2> QED BY <1>4, <2>1, <2>2, ReadKeeps
<1>12. CASE ReloadPlan(w)
  <2>1. /\ pc[w] = "reload" /\ UNCHANGED <<db, tx, lock>>
        /\ pc'[w] = "finish"
        /\ job'[w].id = job[w].id /\ job'[w].off = job[w].off
        /\ \A v \in Workers \ {w} : pc'[v] = pc[v] /\ job'[v] = job[v]
    <3> DEFINE j == [job[w] EXCEPT !.outcome = plan.outcome]
    <3>1. j.id = job[w].id /\ j.off = job[w].off
      BY <1>1 DEF Jobs
    <3>2. Goto(w, "finish", j)
      BY <1>12 DEF ReloadPlan
    <3> HIDE DEF j
    <3> QED BY <1>3, <1>12, <3>1, <3>2, GotoMoves DEF ReloadPlan
  <2>2. NotYetInserted(w)'
    BY <1>5, <2>1 DEF NotYetInserted
  <2> QED BY <1>4, <2>1, <2>2, ReadKeeps
<1>13. CASE LockTimeout(w)
  <2>1. /\ lock # w /\ UNCHANGED <<db, tx, lock>>
        /\ pc'[w] = "idle" /\ job'[w].id = NoLimit /\ job'[w].off = {}
        /\ \A v \in Workers \ {w} : pc'[v] = pc[v] /\ job'[v] = job[v]
    BY <1>2, <1>3, <1>13, GotoMoves DEF LockTimeout, Free
  <2>2. NotYetInserted(w)'
    BY <2>1 DEF NotYetInserted
  <2> QED BY <2>1, <2>2, ReadKeeps
<1> QED BY <1>6, <1>7, <1>8, <1>9, <1>10, <1>11, <1>12, <1>13

(* The steps of nobody in particular: time passes, the policy changes.     *)
LEMMA IdleSteps ==
  ASSUME LedgerInv, TypeOK', StampsPast', clock <= clock',
         PatchPolicy \/ Tick \/ Quiescent \/ UNCHANGED vars
  PROVE  LedgerInv'
<1>1. UNCHANGED <<db, tx, lock, pc, job>>
  BY DEF PatchPolicy, Tick, Quiescent, vars
<1>2. OpenTransaction' /\ RowsPast'
  BY <1>1, TransactionKeeps
<1>3. IdsDistinct'
  BY <1>1 DEF LedgerInv, IdsDistinct
<1>4. ASSUME NEW v \in Workers
      PROVE  NotYetInserted(v)' /\ OffExplained(v)'
  <2>1. Grows(SeenBy(v), SeenBy(v)')
    BY <1>1, GrowsTransitive DEF SeenBy
  <2>2. pc[v] \in {"record", "flush"} =>
           /\ db'[job[v].id].status = "absent"
           /\ tx'[job[v].id].status = "absent"
    BY <1>1 DEF LedgerInv, NotYetInserted
  <2> QED BY <1>1, <2>1, <2>2, WorkerKeeps
<1> QED BY <1>2, <1>3, <1>4 DEF LedgerInv

(* While w writes, with the lock or without anyone having it, the others   *)
(* see the committed ledger grow, and their rows stay unused.              *)
LEMMA OthersKeep ==
  ASSUME LedgerInv, TypeOK', NEW w \in Workers,
         lock \in {NoWorker, w}, lock' \in {NoWorker, w}, clock <= clock',
         Grows(db, db'),
         \A v \in Workers \ {w} : pc'[v] = pc[v] /\ job'[v] = job[v],
         \A i \in LimitIds :
           i # job[w].id /\ db[i].status = "absent" /\ tx[i].status = "absent"
           => db'[i].status = "absent" /\ tx'[i].status = "absent"
  PROVE  \A v \in Workers \ {w} : NotYetInserted(v)' /\ OffExplained(v)'
<1> SUFFICES ASSUME NEW v \in Workers \ {w}
             PROVE  NotYetInserted(v)' /\ OffExplained(v)'
  OBVIOUS
<1>1. lock # v /\ lock' # v
  BY ConstantsAssumption
<1>2. Grows(SeenBy(v), SeenBy(v)')
  BY <1>1 DEF SeenBy
<1>3. ASSUME pc[v] \in {"record", "flush"}
      PROVE  /\ db'[job[v].id].status = "absent"
             /\ tx'[job[v].id].status = "absent"
  <2>1. /\ job[v].id \in LimitIds
        /\ db[job[v].id].status = "absent" /\ tx[job[v].id].status = "absent"
    BY <1>3 DEF LedgerInv, NotYetInserted
  <2>2. job[v].id # job[w].id
    BY <2>1, ConstantsAssumption DEF LedgerInv, IdsDistinct
  <2> QED BY <2>1, <2>2
<1> QED BY <1>1, <1>2, <1>3, WorkerKeeps

(* Two ledgers with the same rows, up to what is active and delivered.     *)
SameRows(old, new) ==
  \A i \in LimitIds :
    /\ SameCommand(old[i], new[i])
    /\ old[i].status = "absent" <=> new[i].status = "absent"

(* What w commits is what its transaction, or the ledger, held: nobody has *)
(* anything uncommitted then.                                              *)
LEMMA CommittedKeeps ==
  ASSUME LedgerInv, TypeOK', NEW w \in Workers,
         lock \in {NoWorker, w}, lock' = NoWorker, clock' = clock,
         tx' = db', SameRows(tx, db'),
         \A v \in Workers \ {w} : pc'[v] = pc[v] /\ job'[v] = job[v],
         job'[w].id \in {job[w].id, NoLimit},
         pc'[w] \in {"idle", "reload"},
         job'[w].off \in {job[w].off, {}},
         job'[w].off # {} => lock = w /\ pc[w] # "flush"
  PROVE  OpenTransaction' /\ RowsPast' /\ IdsDistinct'
           /\ \A v \in Workers : NotYetInserted(v)' /\ OffExplained(v)'
<1>1. /\ db \in Ledgers /\ tx \in Ledgers /\ db' \in Ledgers
      /\ clock \in Nat
  BY DEF LedgerInv, TypeOK
<1>2. Grows(tx, db') /\ Grows(db, db')
  BY GrowsTransitive DEF SameRows, Grows, LedgerInv, OpenTransaction
<1>3. OpenTransaction'
  BY GrowsTransitive DEF OpenTransaction
<1>4. RowsPast'
  BY DEF LedgerInv, RowsPast, SameRows, SameCommand
<1>5. IdsDistinct'
  BY DEF LedgerInv, IdsDistinct
<1>6. \A v \in Workers \ {w} : NotYetInserted(v)' /\ OffExplained(v)'
  BY <1>1, <1>2, OthersKeep DEF SameRows
<1>7. NotYetInserted(w)'
  BY ConstantsAssumption DEF NotYetInserted
<1>8. OffExplained(w)'
  <2> SUFFICES ASSUME NEW i \in job'[w].off
               PROVE  /\ db'[i].status # "absent"
                      /\ Ended(db', i, clock')
    BY DEF OffExplained, SeenBy
  <2>1. i \in job[w].off /\ lock = w /\ pc[w] # "flush" /\ i \in LimitIds
    BY DEF TypeOK, Jobs
  <2>2. tx[i].status # "absent" /\ Ended(tx, i, clock)
    BY <2>1 DEF LedgerInv, OffExplained, SeenBy, Replaces
  <2> QED BY <1>1, <1>2, <2>1, <2>2, EndedPersists DEF Grows
<1> QED BY <1>3, <1>4, <1>5, <1>6, <1>7, <1>8

(* CommitLimit, CommitPlan and FinishDistribute.                           *)
LEMMA CommitSteps ==
  ASSUME LedgerInv, TypeOK', StampsPast', NEW w \in Workers,
         CommitLimit(w) \/ CommitPlan(w) \/ FinishDistribute(w)
  PROVE  LedgerInv' /\ SameRows(tx, db')
<1>1. /\ db \in Ledgers /\ tx \in Ledgers /\ clock \in Nat /\ TypeOK
      /\ job[w] \in Jobs /\ NotYetInserted(w)
  BY DEF LedgerInv, TypeOK
<1>2. NoJob.id = NoLimit /\ NoJob.off = {}
  BY DEF NoJob
<1>3. CASE CommitLimit(w)
  <2>1. /\ lock = w /\ pc[w] = "commit" /\ lock' = NoWorker
        /\ clock' = clock /\ db' = Deactivate(tx, job[w].off) /\ tx' = db'
    BY <1>1, <1>3 DEF CommitLimit, NotYetInserted, Unlock
  <2>2. SameRows(tx, db')
    BY <1>1, <2>1, DeactivateGrows DEF SameRows
  <2>3. /\ pc'[w] = "idle" /\ job'[w] = NoJob
        /\ \A v \in Workers \ {w} : pc'[v] = pc[v] /\ job'[v] = job[v]
    BY <1>1, <1>3, GotoMoves DEF CommitLimit
  <2> QED BY <1>2, <2>1, <2>2, <2>3, CommittedKeeps DEF LedgerInv
<1>4. CASE CommitPlan(w)
  <2>1. /\ lock = w /\ pc[w] = "dispatch" /\ lock' = NoWorker
        /\ clock' = clock /\ db' = tx /\ tx' = db'
    BY <1>1, <1>4 DEF CommitPlan, NotYetInserted, Unlock
  <2>2. SameRows(tx, db')
    BY <2>1 DEF SameRows, SameCommand
  <2>3. /\ \/ pc'[w] = "idle" /\ job'[w] = NoJob
           \/ pc'[w] = "reload" /\ job'[w] = job[w]
        /\ \A v \in Workers \ {w} : pc'[v] = pc[v] /\ job'[v] = job[v]
    BY <1>1, <1>4, GotoMoves DEF CommitPlan
  <2> QED BY <1>2, <2>1, <2>2, <2>3, CommittedKeeps DEF LedgerInv
<1>5. CASE FinishDistribute(w)
  <2> DEFINE settled(i) == [d \in Participants |->
                              Settled(db[i].delivery[d], job[w].outcome[d])]
  <2>1. /\ lock = NoWorker /\ lock' = NoWorker /\ clock' = clock /\ tx' = db'
        /\ db' = [db EXCEPT ![job[w].id].delivery = settled(job[w].id)]
    BY <1>5 DEF FinishDistribute
  <2> HIDE DEF settled
  <2>2. tx = db
    BY <2>1 DEF LedgerInv, OpenTransaction
  <2>3. ASSUME NEW i \in LimitIds
        PROVE  /\ SameCommand(db[i], db'[i])
               /\ db'[i].status = db[i].status
    <3>1. db[i] \in Rows
      BY <1>1 DEF Ledgers
    <3>2. db'[i] = IF i = job[w].id
                   THEN [db[i] EXCEPT !.delivery = settled(i)] ELSE db[i]
      BY <1>1, <2>1 DEF Ledgers
    <3> QED BY <3>1, <3>2 DEF Rows, SameCommand
  <2>4. SameRows(tx, db')
    BY <2>2, <2>3 DEF SameRows
  <2>5. /\ pc'[w] = "idle" /\ job'[w] = NoJob
        /\ \A v \in Workers \ {w} : pc'[v] = pc[v] /\ job'[v] = job[v]
    BY <1>1, <1>5, GotoMoves DEF FinishDistribute
  <2> QED BY <1>2, <2>1, <2>4, <2>5, CommittedKeeps DEF LedgerInv
<1> QED BY <1>3, <1>4, <1>5

(* The flush of a new limit: what it replaces was due to be replaced.      *)
LEMMA FlushKeeps ==
  ASSUME LedgerInv, TypeOK', StampsPast', NEW w \in Workers, FlushLimit(w)
  PROVE  LedgerInv'
<1> DEFINE j == job[w]
           kept == Deactivate(db, j.off)
           rows == Insert(kept, j)
           gone == Obsolete(rows, clock)
           next == [j EXCEPT !.off = gone, !.before = NoJob.before]
<1>1. /\ db \in Ledgers /\ tx \in Ledgers /\ clock \in Nat /\ TypeOK
      /\ j \in Jobs /\ NotYetInserted(w) /\ OffExplained(w)
  BY DEF LedgerInv, TypeOK
<1>2. /\ pc[w] = "flush" /\ lock = NoWorker /\ lock' = w /\ clock' = clock
      /\ db' = db
  BY DEF FlushLimit
<1>3. j.id \in LimitIds /\ db[j.id].status = "absent"
  BY <1>1, <1>2 DEF NotYetInserted
<1>4. /\ kept \in Ledgers /\ Grows(db, kept)
      /\ \A i \in LimitIds :
           /\ SameCommand(db[i], kept[i])
           /\ kept[i].status = IF i \in j.off /\ db[i].status = "active"
                               THEN "inactive" ELSE db[i].status
  BY <1>1, DeactivateGrows
<1>5. kept[j.id].status = "absent"
  BY <1>3, <1>4
<1> HIDE DEF kept
<1>6. /\ rows \in Ledgers /\ Grows(kept, rows)
      /\ \A i \in LimitIds : i # j.id => rows[i] = kept[i]
      /\ rows[j.id].status # "absent" /\ rows[j.id].key = j.key
      /\ rows[j.id].received = j.received
  BY <1>1, <1>3, <1>4, <1>5, InsertGrows
<1>7. PICK after \in Caps :
        /\ tx' = rows
        /\ Goto(w, IF j.command \/ after # j.before
                   THEN "replan" ELSE "commit", next)
  BY DEF FlushLimit, kept
<1>8. next.id = j.id /\ next.off = gone
  BY <1>1 DEF Jobs
<1> HIDE DEF rows, next
<1>9. /\ pc'[w] \in {"replan", "commit"}
      /\ job'[w].id = j.id /\ job'[w].off = gone
      /\ \A v \in Workers \ {w} : pc'[v] = pc[v] /\ job'[v] = job[v]
  BY <1>1, <1>7, <1>8, GotoMoves
<1>10. Grows(db, rows)
  BY <1>4, <1>6, GrowsTransitive
<1>11. ASSUME NEW i \in LimitIds, db[i].status = "active",
              rows[i].status # "active"
       PROVE  Ended(rows, i, clock)
  <2>1. i # j.id /\ rows[i] = kept[i] /\ i \in j.off
    BY <1>3, <1>4, <1>6, <1>11
  <2>2. Ended(db, i, clock) \/ Replaces(w, i)
    BY <1>1, <1>2, <2>1, ConstantsAssumption DEF OffExplained, SeenBy
  <2>3. CASE Ended(db, i, clock)
    BY <1>1, <1>6, <1>10, <1>11, <2>3, EndedPersists
  <2>4. CASE Replaces(w, i)
    <3>1. Newer(rows, i, j.id)
      BY <1>4, <1>6, <2>1, <2>4 DEF Newer, Replaces, SameCommand
    <3> QED BY <1>3, <3>1 DEF Ended
  <2> QED BY <2>2, <2>3, <2>4
<1>12. OpenTransaction'
  <2>1. ASSUME NEW i \in LimitIds, db[i].status = "absent",
               rows[i].status # "absent"
        PROVE  i = j.id
    BY <1>4, <1>6, <2>1
  <2> QED BY <1>2, <1>7, <1>9, <1>10, <1>11, <2>1, ConstantsAssumption
          DEF OpenTransaction
<1>13. RowsPast'
  <2>1. j.received <= clock
    BY DEF LedgerInv, StampsPast
  <2>2. \A i \in LimitIds : rows[i].received <= clock
    BY <1>4, <1>6, <2>1 DEF LedgerInv, RowsPast, SameCommand
  <2> QED BY <1>2, <1>7, <2>2 DEF LedgerInv, RowsPast
<1>14. IdsDistinct'
  BY <1>9 DEF LedgerInv, IdsDistinct
<1>15. \A v \in Workers \ {w} : NotYetInserted(v)' /\ OffExplained(v)'
  <2>1. ASSUME NEW i \in LimitIds, i # j.id, db[i].status = "absent"
        PROVE  rows[i].status = "absent"
    BY <1>4, <1>6, <2>1
  <2>2. Grows(db, db')
    BY <1>2, GrowsTransitive
  <2> QED BY <1>1, <1>2, <1>7, <1>9, <2>1, <2>2, OthersKeep
<1>16. NotYetInserted(w)'
  BY <1>2, <1>9 DEF NotYetInserted
<1>17. OffExplained(w)'
  <2>1. \A i \in gone : rows[i].status # "absent" /\ Ended(rows, i, clock)
    BY <1>1, <1>6, ObsoleteEnded
  <2> QED BY <1>2, <1>7, <1>9, <2>1 DEF OffExplained, SeenBy
<1> QED BY <1>12, <1>13, <1>14, <1>15, <1>16, <1>17 DEF LedgerInv

(* Touching the assets opens a transaction that holds the ledger as it is. *)
LEMMA MaterializeKeeps ==
  ASSUME LedgerInv, TypeOK', StampsPast', NEW w \in Workers, Materialize(w)
  PROVE  LedgerInv'
<1>1. /\ db \in Ledgers /\ tx \in Ledgers /\ clock \in Nat /\ TypeOK
      /\ NotYetInserted(w) /\ OffExplained(w)
  BY DEF LedgerInv, TypeOK
<1>2. /\ pc[w] = "materialize" /\ clock' = clock /\ db' = db
      /\ pc'[w] = "site" /\ job'[w] = job[w]
      /\ \A v \in Workers \ {w} : pc'[v] = pc[v] /\ job'[v] = job[v]
  BY <1>1, GotoMoves DEF Materialize
<1>3. NotYetInserted(w)'
  BY <1>2 DEF NotYetInserted
<1>4. \A v \in Workers \ {w} : job[w].id = job[v].id => job[v].id = NoLimit
  BY DEF LedgerInv, IdsDistinct
<1>5. CASE UNCHANGED <<lock, tx>>
  BY <1>1, <1>2, <1>3, <1>4, <1>5, ReadKeeps
<1>6. CASE lock = NoWorker /\ lock' = w /\ tx' = db
  <2>1. tx = db
    BY <1>6 DEF LedgerInv, OpenTransaction
  <2>2. OpenTransaction'
    BY <1>2, <1>6, <2>1, GrowsTransitive, ConstantsAssumption
    DEF OpenTransaction
  <2>3. RowsPast'
    BY <1>2, <1>6 DEF LedgerInv, RowsPast
  <2>4. IdsDistinct'
    BY <1>2 DEF LedgerInv, IdsDistinct
  <2>5. \A v \in Workers \ {w} : NotYetInserted(v)' /\ OffExplained(v)'
    <3>1. Grows(db, db')
      BY <1>2, GrowsTransitive
    <3> QED BY <1>1, <1>2, <1>6, <3>1, OthersKeep
  <2>6. SeenBy(w) = db /\ SeenBy(w)' = db
    BY <1>2, <1>6, ConstantsAssumption DEF SeenBy
  <2>7. OffExplained(w)'
    BY <1>1, <1>2, <2>6 DEF OffExplained, Replaces
  <2> QED BY <1>3, <2>2, <2>3, <2>4, <2>5, <2>7 DEF LedgerInv
<1> QED BY <1>5, <1>6 DEF Materialize

(* The flush of a plan switches off what its site model has found ended.   *)
LEMMA SolveKeeps ==
  ASSUME LedgerInv, TypeOK', StampsPast', NEW w \in Workers,
         SolveAndFlush(w)
  PROVE  LedgerInv'
<1> DEFINE seen == SeenBy(w)
           rows == Deactivate(seen, job[w].off)
<1>1. /\ db \in Ledgers /\ tx \in Ledgers /\ clock \in Nat /\ TypeOK
      /\ job[w] \in Jobs /\ seen \in Ledgers
      /\ NotYetInserted(w) /\ OffExplained(w) /\ OpenTransaction
  BY DEF LedgerInv, TypeOK, SeenBy
<1>2. /\ pc[w] = "solve" /\ lock \in {NoWorker, w} /\ lock' = w
      /\ clock' = clock /\ db' = db /\ tx' = rows
  BY DEF SolveAndFlush, Free, SeenBy
<1>3. /\ pc'[w] = "dispatch" /\ job'[w].id = job[w].id /\ job'[w].off = {}
      /\ \A v \in Workers \ {w} : pc'[v] = pc[v] /\ job'[v] = job[v]
  <2>1. PICK trusted \in BOOLEAN :
          Goto(w, "dispatch",
               [job[w] EXCEPT !.todo = IF trusted THEN Devices ELSE {},
                              !.off = {}])
    BY DEF SolveAndFlush
  <2> DEFINE todo == IF trusted THEN Devices ELSE {}
             j == [job[w] EXCEPT !.todo = todo, !.off = {}]
  <2>2. Goto(w, "dispatch", j)
    BY <2>1
  <2> HIDE DEF todo
  <2>3. j.id = job[w].id /\ j.off = {}
    BY <1>1 DEF Jobs
  <2> HIDE DEF j
  <2> QED BY <1>1, <2>2, <2>3, GotoMoves
<1>4. /\ rows \in Ledgers /\ Grows(seen, rows)
      /\ \A i \in LimitIds :
           /\ SameCommand(seen[i], rows[i])
           /\ rows[i].status = IF i \in job[w].off /\ seen[i].status = "active"
                               THEN "inactive" ELSE seen[i].status
  BY <1>1, DeactivateGrows
<1>5. Grows(db, seen)
  BY <1>1, GrowsTransitive DEF OpenTransaction, SeenBy
<1>6. seen = IF lock = w THEN tx ELSE db
  BY DEF SeenBy
<1> HIDE DEF seen, rows
<1>7. Grows(db, rows)
  BY <1>4, <1>5, GrowsTransitive
<1>8. ASSUME NEW i \in LimitIds, db[i].status = "active",
             rows[i].status # "active"
      PROVE  Ended(rows, i, clock)
  <2>1. seen[i].status # "absent"
    BY <1>5, <1>8 DEF Grows
  <2>2. Ended(seen, i, clock)
    <3>1. CASE seen[i].status # "active"
      BY <1>1, <1>6, <1>8, <3>1 DEF OpenTransaction
    <3>2. CASE seen[i].status = "active"
      <4>1. i \in job[w].off
        BY <1>4, <1>8, <3>2
      <4> QED BY <1>1, <1>2, <4>1 DEF OffExplained, Replaces, seen
    <3> QED BY <3>1, <3>2
  <2> QED BY <1>1, <1>4, <2>1, <2>2, EndedPersists
<1>9. OpenTransaction'
  <2>1. ASSUME NEW i \in LimitIds, db[i].status = "absent",
               rows[i].status # "absent"
        PROVE  job[w].id = i
    BY <1>1, <1>4, <1>6, <2>1 DEF OpenTransaction
  <2> QED BY <1>2, <1>3, <1>7, <1>8, <2>1, ConstantsAssumption
          DEF OpenTransaction
<1>10. RowsPast'
  BY <1>2, <1>4, <1>6 DEF LedgerInv, RowsPast, SameCommand
<1>11. IdsDistinct'
  BY <1>3 DEF LedgerInv, IdsDistinct
<1>12. \A v \in Workers \ {w} : NotYetInserted(v)' /\ OffExplained(v)'
  <2>1. ASSUME NEW i \in LimitIds, db[i].status = "absent",
               tx[i].status = "absent"
        PROVE  rows[i].status = "absent"
    BY <1>4, <1>6, <2>1
  <2>2. Grows(db, db')
    BY <1>2, GrowsTransitive
  <2> QED BY <1>1, <1>2, <1>3, <2>1, <2>2, OthersKeep
<1>13. NotYetInserted(w)' /\ OffExplained(w)'
  BY <1>2, <1>3 DEF NotYetInserted, OffExplained
<1> QED BY <1>9, <1>10, <1>11, <1>12, <1>13 DEF LedgerInv

(* A crash rolls the open transaction back and forgets the requests.       *)
LEMMA CrashKeeps ==
  ASSUME LedgerInv, TypeOK', StampsPast', Crash
  PROVE  LedgerInv'
<1>1. /\ lock' = NoWorker /\ tx' = db /\ db' = db /\ clock' = clock
      /\ \A v \in Workers : pc'[v] = "idle" /\ job'[v] = NoJob
  BY DEF Crash
<1>2. OpenTransaction'
  BY <1>1, GrowsTransitive DEF OpenTransaction
<1>3. RowsPast'
  BY <1>1 DEF LedgerInv, RowsPast
<1>4. NoJob.id = NoLimit /\ NoJob.off = {}
  BY DEF NoJob
<1>5. IdsDistinct'
  BY <1>1, <1>4 DEF IdsDistinct
<1>6. \A v \in Workers : NotYetInserted(v)' /\ OffExplained(v)'
  BY <1>1, <1>4, ConstantsAssumption DEF NotYetInserted, OffExplained
<1> QED BY <1>2, <1>3, <1>5, <1>6 DEF LedgerInv

(* Nothing is open at first.                                               *)
LEMMA LedgerInit == Init => LedgerInv
<1> SUFFICES ASSUME Init PROVE LedgerInv
  OBVIOUS
<1>1. TypeOK
  BY TypeInit
<1>2. /\ lock = NoWorker /\ tx = db /\ clock = 0
      /\ db = [i \in LimitIds |-> BlankRow]
      /\ \A v \in Workers : pc[v] = "idle" /\ job[v] = NoJob
  BY DEF Init
<1>3. NoJob.id = NoLimit /\ NoJob.off = {} /\ NoJob.at = 0
      /\ NoJob.received = 0
  BY DEF NoJob
<1>4. StampsPast /\ IdsDistinct
  BY <1>2, <1>3 DEF StampsPast, IdsDistinct
<1>5. RowsPast
  BY <1>2 DEF RowsPast, BlankRow
<1>6. OpenTransaction
  BY <1>2, GrowsTransitive DEF OpenTransaction
<1>7. \A v \in Workers : NotYetInserted(v) /\ OffExplained(v)
  BY <1>2, <1>3, ConstantsAssumption DEF NotYetInserted, OffExplained
<1> QED BY <1>1, <1>4, <1>5, <1>6, <1>7 DEF LedgerInv

(* Whatever the workers do, the ledger stays explained.                    *)
LEMMA LedgerStep == LedgerInv /\ [Next]_vars => LedgerInv'
<1> SUFFICES ASSUME LedgerInv, [Next]_vars PROVE LedgerInv'
  OBVIOUS
<1>1. TypeOK' /\ StampsPast' /\ clock <= clock'
  BY TypeStep, StampStep, ClockStep DEF LedgerInv
<1>2. ASSUME NEW w \in Workers,
             StartDistribute(w) \/ StartReplan(w) \/ Step(w) \/ LockTimeout(w)
      PROVE  LedgerInv'
  BY <1>1, <1>2, ReadSteps, CommitSteps, FlushKeeps, MaterializeKeeps,
     SolveKeeps DEF Step
<1>3. CASE PatchPolicy \/ Tick \/ Quiescent \/ UNCHANGED vars
  BY <1>1, <1>3, IdleSteps
<1>4. CASE Crash
  BY <1>1, <1>4, CrashKeeps
<1> QED BY <1>2, <1>3, <1>4 DEF Next

(* For any number of workers the open transaction extends the ledger, and  *)
(* what it or a session switches off has a reason to end.                  *)
THEOREM LedgerInvariant == Spec => []LedgerInv
BY LedgerInit, LedgerStep, PTL DEF Spec

(* No step switches a committed limit off without a reason.                *)
LEMMA EndsForAReason ==
  ASSUME LedgerInv, Next, NEW i \in LimitIds,
         db[i].status = "active", db'[i].status # "active"
  PROVE  \/ Expired(db[i], clock)
         \/ \E j \in LimitIds : /\ db'[j].status # "absent"
                                /\ db'[j].key = db[i].key
                                /\ db[i].received < db'[j].received
<1>1. PICK w \in Workers :
        CommitLimit(w) \/ CommitPlan(w) \/ FinishDistribute(w)
  BY DEF Next, Step, StartDistribute, StartReplan, SelectReplaced,
         FlushLimit, ReadPolicy, Materialize, BuildSiteModel,
         SolveAndFlush, Dispatch, ReloadPlan, LockTimeout, PatchPolicy,
         Tick, Crash, Quiescent, vars
<1>2. TypeOK' /\ StampsPast'
  BY TypeStep, StampStep DEF LedgerInv
<1>3. LedgerInv' /\ SameRows(tx, db')
  BY <1>1, <1>2, CommitSteps
<1>4. Ended(tx, i, clock)
  <2>1. CASE tx[i].status # "active"
    BY <2>1 DEF LedgerInv, OpenTransaction
  <2>2. CASE tx[i].status = "active"
    <3>1. ~FinishDistribute(w)
      <4>1. SUFFICES ASSUME FinishDistribute(w) PROVE FALSE
        OBVIOUS
      <4>2. db \in Ledgers /\ db[i] \in Rows
        BY DEF LedgerInv, TypeOK, Ledgers
      <4>3. db'[i].status = db[i].status
        BY <4>1, <4>2 DEF FinishDistribute, Ledgers, Rows
      <4> QED BY <4>3
    <3>2. ~CommitPlan(w)
      BY <2>2 DEF CommitPlan
    <3>3. /\ lock = w /\ pc[w] = "commit"
          /\ db' = Deactivate(tx, job[w].off)
      BY <1>1, <3>1, <3>2 DEF CommitLimit, LedgerInv, NotYetInserted
    <3>4. i \in job[w].off
      BY <2>2, <3>3, DeactivateGrows DEF LedgerInv, TypeOK
    <3>5. OffExplained(w) /\ SeenBy(w) = tx /\ ~Replaces(w, i)
      BY <3>3 DEF LedgerInv, SeenBy, Replaces
    <3> QED BY <3>4, <3>5 DEF OffExplained
  <2> QED BY <2>1, <2>2
<1>5. SameCommand(db[i], tx[i])
  BY DEF LedgerInv, OpenTransaction, Grows
<1>6. CASE Expired(tx[i], clock)
  BY <1>5, <1>6 DEF Expired, SameCommand
<1>7. CASE \E j \in LimitIds : Newer(tx, i, j)
  BY <1>3, <1>5, <1>7 DEF Newer, SameRows, SameCommand
<1> QED BY <1>4, <1>6, <1>7 DEF Ended

(* A committed limit ends only because it has expired or because a later   *)
(* command for its key is in the ledger, however many requests and plans   *)
(* overlap, and whether or not a device is configured for load control.    *)
THEOREM LimitsAreKept == Spec => LimitsEndForAReason
<1> DEFINE ForAReason ==
      \A i \in LimitIds :
        db[i].status = "active" /\ db'[i].status # "active" =>
          \/ Expired(db[i], clock)
          \/ \E j \in LimitIds : /\ db'[j].status # "absent"
                                 /\ db'[j].key = db[i].key
                                 /\ db[i].received < db'[j].received
<1>1. LedgerInv /\ [Next]_vars => [ForAReason]_vars
  BY EndsForAReason
<1> QED BY <1>1, LedgerInvariant, PTL DEF Spec, LimitsEndForAReason

-----------------------------------------------------------------------------
(* Commands and their events *)

(* An event explains the command device d obeys.                           *)
RecordedFor(d) ==
  \E e \in events : /\ e.device = d /\ e.at = device[d].at
                    /\ e.status \in {"applied", "failed"}

(* The open transaction of w has sent the command of d and will record it. *)
SentBy(w, d) ==
  /\ lock = w /\ pc[w] = "dispatch"
  /\ d \notin job[w].todo /\ device[d].at = job[w].at
  /\ job[w].outcome[d] \in {"applied", "failed"}

CommandInv ==
  \A d \in Devices : device[d].at # 0 =>
    RecordedFor(d) \/ \E w \in Workers : SentBy(w, d)

-----------------------------------------------------------------------------
(* One request at a time *)

OneAtATime == \A v, w \in Workers : v = w

(* No two commands were received at once, and an active row is the newest  *)
(* of its key.                                                             *)
Ordered(rows) ==
  \A i, j \in LimitIds :
    i # j /\ rows[i].status # "absent" /\ rows[j].status # "absent" =>
      /\ rows[i].received # rows[j].received
      /\ rows[i].status = "active" /\ rows[j].key = rows[i].key =>
           rows[j].received < rows[i].received

(* An acknowledged delivery has the event that acknowledged it.            *)
AckOf(row, d, known) ==
  row.command /\ row.delivery[d] = "acknowledged" =>
    \E e \in known : /\ e.device = d /\ e.status = "applied"
                     /\ row.received < e.at
                     /\ \/ e.cap[UseCaseOf[row.key]] <= row.watts
                        \/ Expired(row, e.at)

Acked(rows, known) ==
  \A i \in LimitIds : \A d \in Participants : AckOf(rows[i], d, known)

(* One ledger is the other with some rows switched off.                    *)
SwitchedOff(old, new) ==
  \A i \in LimitIds :
    /\ SameCommand(old[i], new[i])
    /\ new[i].delivery = old[i].delivery
    /\ \/ new[i].status = old[i].status
       \/ old[i].status = "active" /\ new[i].status = "inactive"

(* The row a command becomes.                                              *)
RowOf(row, j) ==
  /\ row.status # "absent" /\ row.command = j.command /\ row.key = j.key
  /\ row.watts = j.watts /\ row.received = j.received
  /\ row.expires = IF j.command /\ j.duration # 0
                   THEN j.received + j.duration ELSE 0

Distributing(w) == job[w].kind = "distribute"

(* A command due for its flush is newer than every row and has found every *)
(* row it replaces.                                                        *)
Waiting(w) ==
  /\ pc[w] \in {"record", "flush", "commit", "reload", "finish"} =>
       Distributing(w)
  /\ pc[w] = "flush" => \A i \in LimitIds : db[i].status # "absent" =>
       /\ db[i].received < job[w].received
       /\ db[i].status = "active" /\ db[i].key = job[w].key =>
            i \in job[w].off

(* From the flush on the transaction holds the row of the command, and no  *)
(* other row of its key is active.                                         *)
Opened(w) ==
  Distributing(w) /\ pc[w] \in {"replan", "materialize", "site", "solve",
                                "dispatch", "commit"} =>
    /\ lock = w
    /\ job[w].id \in LimitIds /\ RowOf(tx[job[w].id], job[w])
    /\ \A i \in LimitIds : i # job[w].id /\ tx[i].key = job[w].key =>
         tx[i].status # "active"
    /\ ~job[w].command => tx[job[w].id].status # "active"
    /\ /\ pc[w] \in {"replan", "materialize", "site", "solve"}
       /\ job[w].command
       => tx[job[w].id].status = "active"

(* The plan of a command is newer than the command and than the plan in    *)
(* the database, and keeps the command's limit while it lasts.             *)
Planned(w) ==
  /\ pc[w] \in {"materialize", "site", "solve", "dispatch"} =>
       plan.at < job[w].at
  /\ Distributing(w) /\ pc[w] \in {"materialize", "site", "solve",
                                   "dispatch", "reload", "finish"} =>
       job[w].received < job[w].at
  /\ Distributing(w) /\ pc[w] \in {"solve", "dispatch"} /\ job[w].command =>
       \/ job[w].cap[UseCaseOf[job[w].key]] <= job[w].watts
       \/ Expired(tx[job[w].id], job[w].at)

(* The plan a command is settled from is its own.                          *)
Settling(w) ==
  pc[w] \in {"reload", "finish"} =>
    /\ pc[w] = "reload" => plan.outcome = job[w].outcome
    /\ job[w].id \in LimitIds /\ RowOf(db[job[w].id], job[w])
    /\ job[w].command =>
         \/ job[w].cap[UseCaseOf[job[w].key]] <= job[w].watts
         \/ Expired(db[job[w].id], job[w].at)
    /\ \A d \in Devices : job[w].outcome[d] = "applied" =>
         [at |-> job[w].at, cap |-> job[w].cap, device |-> d,
          status |-> "applied"] \in events

SoloWorker(w) == Waiting(w) /\ Opened(w) /\ Planned(w) /\ Settling(w)

SoloInv ==
  /\ LedgerInv /\ plan.at <= clock
  /\ Ordered(db) /\ Ordered(tx) /\ Acked(db, events) /\ Acked(tx, events)
  /\ \A w \in Workers : SoloWorker(w)

-----------------------------------------------------------------------------
(* What each step of a request does to its session *)

SameRequest(j, k) ==
  /\ j.kind = k.kind /\ j.key = k.key /\ j.watts = k.watts
  /\ j.duration = k.duration /\ j.command = k.command /\ j.id = k.id
  /\ j.received = k.received

(* A request starts without a plan.                                        *)
LEMMA StartEffect ==
  ASSUME TypeOK, NEW w \in Workers, StartDistribute(w) \/ StartReplan(w)
  PROVE  /\ pc[w] = "idle"
         /\ UNCHANGED <<clock, db, tx, lock, plan, events, device, crashes>>
         /\ \/ pc'[w] = "record" /\ job'[w].kind = "distribute"
            \/ /\ pc'[w] = "replan" /\ job'[w].kind = "replan"
               /\ job'[w].id = NoLimit
<1>1. NoJob \in Jobs /\ NoJob.id = NoLimit
  BY NoJobType DEF NoJob
<1>2. CASE StartDistribute(w)
  <2>1. PICK k \in Keys, p \in Powers, t \in Durations, c \in BOOLEAN,
             i \in LimitIds, before \in Caps :
          Goto(w, "record",
               [NoJob EXCEPT !.kind = "distribute", !.policy = policy,
                  !.id = i, !.key = k, !.watts = p, !.duration = t,
                  !.command = c, !.before = before,
                  !.off = Obsolete(db, clock)])
    BY <1>2, ZenonT(40) DEF StartDistribute
  <2> DEFINE off == Obsolete(db, clock)
             j == [NoJob EXCEPT !.kind = "distribute", !.policy = policy,
                     !.id = i, !.key = k, !.watts = p, !.duration = t,
                     !.command = c, !.before = before, !.off = off]
  <2>2. Goto(w, "record", j)
    BY <2>1
  <2> HIDE DEF off
  <2>3. j.kind = "distribute"
    BY <1>1 DEF Jobs
  <2> HIDE DEF j
  <2>4. pc'[w] = "record" /\ job'[w] = j
    BY <2>2, GotoMoves
  <2>5. /\ pc[w] = "idle"
        /\ UNCHANGED <<clock, db, tx, lock, plan, events, device, crashes>>
    BY <1>2 DEF StartDistribute
  <2> QED BY <2>3, <2>4, <2>5
<1>3. CASE StartReplan(w)
  <2> DEFINE j == [NoJob EXCEPT !.kind = "replan"]
  <2>1. j.kind = "replan" /\ j.id = NoLimit
    BY <1>1 DEF Jobs
  <2>2. Goto(w, "replan", j)
    BY <1>3 DEF StartReplan
  <2> HIDE DEF j
  <2>3. pc'[w] = "replan" /\ job'[w] = j
    BY <2>2, GotoMoves
  <2>4. /\ pc[w] = "idle"
        /\ UNCHANGED <<clock, db, tx, lock, plan, events, device, crashes>>
    BY <1>3 DEF StartReplan
  <2> QED BY <2>1, <2>3, <2>4
<1> QED BY <1>2, <1>3

(* The command gets its stamp and the rows of its key.                     *)
LEMMA SelectEffect ==
  ASSUME TypeOK, NEW w \in Workers, SelectReplaced(w)
  PROVE  /\ pc[w] = "record" /\ pc'[w] = "flush" /\ clock' = clock + 1
         /\ UNCHANGED <<db, tx, lock, plan, events, device, crashes>>
         /\ job'[w].kind = job[w].kind /\ job'[w].key = job[w].key
         /\ job'[w].watts = job[w].watts /\ job'[w].id = job[w].id
         /\ job'[w].command = job[w].command
         /\ job'[w].duration = job[w].duration
         /\ job'[w].received = clock + 1
         /\ \A i \in LimitIds :
              db[i].status = "active" /\ db[i].key = job[w].key =>
                i \in job'[w].off
<1> DEFINE own == {i \in LimitIds : db[i].status = "active"
                                    /\ db[i].key = job[w].key}
           j == [job[w] EXCEPT !.received = clock + 1, !.off = @ \cup own]
<1>1. job[w] \in Jobs
  BY DEF TypeOK
<1>2. Goto(w, "flush", j)
  BY DEF SelectReplaced
<1>3. /\ pc[w] = "record" /\ clock' = clock + 1
      /\ UNCHANGED <<db, tx, lock, plan, events, device, crashes>>
  BY DEF SelectReplaced, Stamp
<1>4. \A i \in LimitIds :
        db[i].status = "active" /\ db[i].key = job[w].key => i \in own
  OBVIOUS
<1> HIDE DEF own
<1>5. /\ j.kind = job[w].kind /\ j.key = job[w].key
      /\ j.watts = job[w].watts /\ j.id = job[w].id
      /\ j.command = job[w].command /\ j.duration = job[w].duration
      /\ j.received = clock + 1 /\ j.off = job[w].off \cup own
  BY <1>1 DEF Jobs
<1> HIDE DEF j
<1>6. pc'[w] = "flush" /\ job'[w] = j
  BY <1>2, GotoMoves
<1> QED BY <1>3, <1>4, <1>5, <1>6

(* The flush puts the row of the command in place of those it replaces.    *)
LEMMA FlushEffect ==
  ASSUME TypeOK, NEW w \in Workers, FlushLimit(w), job[w].id \in LimitIds,
         db[job[w].id].status = "absent"
  PROVE  /\ pc[w] = "flush" /\ lock' = w
         /\ lock = NoWorker
         /\ \/ pc'[w] = "replan"
            \/ pc'[w] = "commit" /\ ~job[w].command
         /\ UNCHANGED <<clock, db, plan, events, device, crashes>>
         /\ SameRequest(job[w], job'[w])
         /\ RowOf(tx'[job[w].id], job[w])
         /\ tx'[job[w].id].status =
              IF job[w].command THEN "active" ELSE "inactive"
         /\ \A d \in Participants :
              tx'[job[w].id].delivery[d] # "acknowledged"
         /\ \A i \in LimitIds : i # job[w].id =>
              /\ SameCommand(db[i], tx'[i])
              /\ tx'[i].delivery = db[i].delivery
              /\ tx'[i].status =
                   IF i \in job[w].off /\ db[i].status = "active"
                   THEN "inactive" ELSE db[i].status
<1> DEFINE j == job[w]
           kept == Deactivate(db, j.off)
           rows == Insert(kept, j)
           gone == Obsolete(rows, clock)
           before == NoJob.before
           next == [j EXCEPT !.off = gone, !.before = before]
           row == [status |-> IF j.command THEN "active" ELSE "inactive",
                   command |-> j.command, key |-> j.key, watts |-> j.watts,
                   received |-> j.received,
                   expires |-> IF j.command /\ j.duration # 0
                               THEN j.received + j.duration ELSE 0,
                   delivery |-> NewDeliveries(j.watts)]
<1>1. db \in Ledgers /\ j \in Jobs
  BY DEF TypeOK
<1>2. PICK after \in Caps :
        /\ tx' = rows
        /\ Goto(w, IF j.command \/ after # j.before
                   THEN "replan" ELSE "commit", next)
  BY DEF FlushLimit
<1>3. /\ pc[w] = "flush" /\ lock' = w /\ lock = NoWorker
      /\ UNCHANGED <<clock, db, plan, events, device, crashes>>
  BY DEF FlushLimit
<1>4. rows = [kept EXCEPT ![j.id] = row]
  BY DEF Insert
<1>5. /\ RowOf(row, j)
      /\ row.status = IF j.command THEN "active" ELSE "inactive"
      /\ row.delivery = NewDeliveries(j.watts)
  BY DEF RowOf
<1>6. /\ kept \in Ledgers
      /\ \A i \in LimitIds :
           /\ SameCommand(db[i], kept[i])
           /\ kept[i].status = IF i \in j.off /\ db[i].status = "active"
                               THEN "inactive" ELSE db[i].status
  BY <1>1, DeactivateGrows
<1>7. \A i \in LimitIds : kept[i].delivery = db[i].delivery
  <2> SUFFICES ASSUME NEW i \in LimitIds
               PROVE  kept[i].delivery = db[i].delivery
    OBVIOUS
  <2>1. db[i] \in Rows
    BY <1>1 DEF Ledgers
  <2>2. kept[i] = IF i \in j.off /\ db[i].status = "active"
                  THEN [db[i] EXCEPT !.status = "inactive"] ELSE db[i]
    BY DEF Deactivate
  <2> QED BY <2>1, <2>2 DEF Rows
<1> HIDE DEF kept, row
<1>8. /\ rows[j.id] = row
      /\ \A i \in LimitIds : i # j.id => rows[i] = kept[i]
  BY <1>4, <1>6 DEF Ledgers
<1>9. \A d \in Participants : NewDeliveries(j.watts)[d] # "acknowledged"
  BY DEF NewDeliveries
<1> HIDE DEF rows, gone, before
<1>10. SameRequest(j, next)
  BY <1>1 DEF Jobs, SameRequest
<1> HIDE DEF next
<1>11. /\ pc'[w] = IF j.command \/ after # j.before
                   THEN "replan" ELSE "commit"
       /\ job'[w] = next
  BY <1>2, GotoMoves
<1>12. /\ tx'[j.id] = row
       /\ \A i \in LimitIds : i # j.id => tx'[i] = kept[i]
  BY <1>2, <1>8
<1> QED BY <1>3, <1>5, <1>6, <1>7, <1>9, <1>10, <1>11, <1>12

(* The plan gets its time.                                                 *)
LEMMA PolicyEffect ==
  ASSUME TypeOK, NEW w \in Workers, ReadPolicy(w)
  PROVE  /\ pc[w] = "replan" /\ pc'[w] = "materialize"
         /\ clock' = clock + 1 /\ job'[w].at = clock + 1
         /\ UNCHANGED <<db, tx, lock, plan, events, device, crashes>>
         /\ SameRequest(job[w], job'[w])
<1> DEFINE kept == IF job[w].kind = "replan" THEN policy ELSE job[w].policy
           j == [job[w] EXCEPT !.at = clock + 1, !.policy = kept]
<1>1. job[w] \in Jobs
  BY DEF TypeOK
<1>2. Goto(w, "materialize", j)
  BY DEF ReadPolicy
<1>3. /\ pc[w] = "replan" /\ clock' = clock + 1
      /\ UNCHANGED <<db, tx, lock, plan, events, device, crashes>>
  BY DEF ReadPolicy, Stamp
<1> HIDE DEF kept
<1>4. SameRequest(job[w], j) /\ j.at = clock + 1
  BY <1>1 DEF Jobs, SameRequest
<1> HIDE DEF j
<1>5. pc'[w] = "materialize" /\ job'[w] = j
  BY <1>2, GotoMoves
<1> QED BY <1>3, <1>4, <1>5

(* Touching the assets leaves the session as it is.                        *)
LEMMA MaterializeEffect ==
  ASSUME TypeOK, NEW w \in Workers, Materialize(w)
  PROVE  /\ pc[w] = "materialize" /\ pc'[w] = "site" /\ job'[w] = job[w]
         /\ UNCHANGED <<clock, db, plan, events, device, crashes>>
         /\ \/ UNCHANGED <<lock, tx>>
            \/ lock = NoWorker /\ lock' = w /\ tx' = db
<1>1. pc'[w] = "site" /\ job'[w] = job[w]
  BY GotoMoves DEF Materialize
<1> QED BY <1>1 DEF Materialize

(* The plan gets the limits of the ledger its session sees.                *)
LEMMA SiteEffect ==
  ASSUME TypeOK, NEW w \in Workers, BuildSiteModel(w)
  PROVE  /\ pc[w] = "site" /\ pc'[w] = "solve"
         /\ UNCHANGED <<clock, db, tx, lock, plan, events, device, crashes>>
         /\ SameRequest(job[w], job'[w]) /\ job'[w].at = job[w].at
         /\ IsEffective(job'[w].cap, SeenBy(w), job[w].policy.cap, job[w].at)
<1>1. PICK cap \in Caps :
        /\ IsEffective(cap, SeenBy(w), job[w].policy.cap, job[w].at)
        /\ Goto(w, "solve",
             [job[w] EXCEPT !.cap = cap,
                            !.off = @ \cup Obsolete(SeenBy(w), job[w].at)])
  BY DEF BuildSiteModel, SeenBy
<1> DEFINE gone == Obsolete(SeenBy(w), job[w].at)
           j == [job[w] EXCEPT !.cap = cap, !.off = @ \cup gone]
<1>2. Goto(w, "solve", j)
  BY <1>1
<1> HIDE DEF gone
<1>3. job[w] \in Jobs
  BY DEF TypeOK
<1>4. SameRequest(job[w], j) /\ j.at = job[w].at /\ j.cap = cap
  BY <1>3 DEF Jobs, SameRequest
<1> HIDE DEF j
<1>5. pc'[w] = "solve" /\ job'[w] = j
  BY <1>2, GotoMoves
<1>6. /\ pc[w] = "site"
      /\ UNCHANGED <<clock, db, tx, lock, plan, events, device, crashes>>
  BY DEF BuildSiteModel
<1> QED BY <1>1, <1>4, <1>5, <1>6

(* The flush of the plan switches rows off.                                *)
LEMMA SolveEffect ==
  ASSUME TypeOK, NEW w \in Workers, SolveAndFlush(w)
  PROVE  /\ pc[w] = "solve" /\ pc'[w] = "dispatch" /\ lock' = w
         /\ lock \in {NoWorker, w}
         /\ UNCHANGED <<clock, db, plan, events, device, crashes>>
         /\ SameRequest(job[w], job'[w]) /\ job'[w].at = job[w].at
         /\ job'[w].cap = job[w].cap
         /\ \A i \in LimitIds :
              /\ SameCommand(SeenBy(w)[i], tx'[i])
              /\ tx'[i].delivery = SeenBy(w)[i].delivery
              /\ \/ tx'[i].status = SeenBy(w)[i].status
                 \/ /\ SeenBy(w)[i].status = "active"
                    /\ tx'[i].status = "inactive" /\ i \in job[w].off
<1>1. PICK trusted \in BOOLEAN :
        Goto(w, "dispatch",
             [job[w] EXCEPT !.todo = IF trusted THEN Devices ELSE {},
                            !.off = {}])
  BY DEF SolveAndFlush
<1> DEFINE todo == IF trusted THEN Devices ELSE {}
           j == [job[w] EXCEPT !.todo = todo, !.off = {}]
<1>2. Goto(w, "dispatch", j)
  BY <1>1
<1>3. job[w] \in Jobs /\ SeenBy(w) \in Ledgers
  BY DEF TypeOK, SeenBy
<1> HIDE DEF todo
<1>4. SameRequest(job[w], j) /\ j.at = job[w].at /\ j.cap = job[w].cap
  BY <1>3 DEF Jobs, SameRequest
<1> HIDE DEF j
<1>5. pc'[w] = "dispatch" /\ job'[w] = j
  BY <1>2, GotoMoves
<1>6. /\ pc[w] = "solve" /\ lock' = w /\ lock \in {NoWorker, w}
      /\ tx' = Deactivate(SeenBy(w), job[w].off)
      /\ UNCHANGED <<clock, db, plan, events, device, crashes>>
  BY DEF SolveAndFlush, Free, SeenBy
<1>7. ASSUME NEW i \in LimitIds
      PROVE  /\ SameCommand(SeenBy(w)[i], tx'[i])
             /\ tx'[i].delivery = SeenBy(w)[i].delivery
             /\ \/ tx'[i].status = SeenBy(w)[i].status
                \/ /\ SeenBy(w)[i].status = "active"
                   /\ tx'[i].status = "inactive" /\ i \in job[w].off
  <2> DEFINE row == SeenBy(w)[i]
  <2>1. row \in Rows
    BY <1>3 DEF Ledgers
  <2>2. tx'[i] = IF i \in job[w].off /\ row.status = "active"
                 THEN [row EXCEPT !.status = "inactive"] ELSE row
    BY <1>6 DEF Deactivate
  <2> HIDE DEF row
  <2>3. /\ SameCommand(row, tx'[i]) /\ tx'[i].delivery = row.delivery
        /\ \/ tx'[i].status = row.status
           \/ /\ row.status = "active" /\ tx'[i].status = "inactive"
              /\ i \in job[w].off
    BY <2>1, <2>2 DEF Rows, SameCommand
  <2> QED BY <2>3 DEF row
<1> QED BY <1>4, <1>5, <1>6, <1>7

(* A dispatch concerns one device.                                         *)
LEMMA DispatchEffect ==
  ASSUME TypeOK, NEW w \in Workers, Dispatch(w)
  PROVE  /\ pc[w] = "dispatch" /\ pc'[w] = "dispatch"
         /\ UNCHANGED <<clock, db, tx, lock, plan, events, crashes>>
         /\ SameRequest(job[w], job'[w]) /\ job'[w].at = job[w].at
         /\ job'[w].cap = job[w].cap
         /\ \E d \in job[w].todo :
              /\ job'[w].todo = job[w].todo \ {d}
              /\ \A e \in Devices \ {d} :
                   /\ job'[w].outcome[e] = job[w].outcome[e]
                   /\ device'[e] = device[e]
              /\ \/ device'[d] = device[d]
                 \/ /\ device'[d].at = job[w].at
                    /\ job'[w].outcome[d] \in {"applied", "failed"}
<1>1. PICK d \in job[w].todo, s \in DispatchStatuses, reached \in BOOLEAN :
        /\ reached => s \in {"applied", "failed"}
        /\ device' = IF reached
                     THEN [device EXCEPT ![d] = [at |-> job[w].at,
                                                 cap |-> job[w].cap]]
                     ELSE device
        /\ Goto(w, "dispatch", [job[w] EXCEPT !.todo = @ \ {d},
                                              !.outcome[d] = s])
  BY DEF Dispatch
<1> DEFINE todo == job[w].todo \ {d}
           outcome == [job[w].outcome EXCEPT ![d] = s]
           j == [job[w] EXCEPT !.todo = todo, !.outcome = outcome]
<1>2. Goto(w, "dispatch", j)
  BY <1>1
<1>3. job[w] \in Jobs /\ device \in [Devices -> Commands]
  BY DEF TypeOK
<1>4. d \in Devices /\ job[w].outcome \in [Devices -> DispatchStatuses
                                                      \cup {"none"}]
  BY <1>3 DEF Jobs, Outcomes
<1>5. /\ outcome[d] = s
      /\ \A e \in Devices \ {d} : outcome[e] = job[w].outcome[e]
  BY <1>4
<1> HIDE DEF outcome
<1>6. j.todo = todo /\ j.outcome = outcome
  BY <1>3 DEF Jobs
<1> HIDE DEF todo
<1>7. SameRequest(job[w], j) /\ j.at = job[w].at /\ j.cap = job[w].cap
  BY <1>3 DEF Jobs, SameRequest
<1> HIDE DEF j
<1>8. pc'[w] = "dispatch" /\ job'[w] = j
  BY <1>2, GotoMoves
<1>9. /\ pc[w] = "dispatch"
      /\ UNCHANGED <<clock, db, tx, lock, plan, events, crashes>>
  BY DEF Dispatch
<1>10. /\ \A e \in Devices \ {d} : device'[e] = device[e]
       /\ \/ device'[d] = device[d]
          \/ device'[d].at = job[w].at /\ s \in {"applied", "failed"}
  BY <1>1, <1>3, <1>4
<1> QED BY <1>5, <1>6, <1>7, <1>8, <1>9, <1>10 DEF todo

(* The plan becomes the one in the database unless a later one is there.   *)
LEMMA CommitPlanEffect ==
  ASSUME TypeOK, NEW w \in Workers, CommitPlan(w)
  PROVE  /\ pc[w] = "dispatch" /\ lock' = NoWorker /\ db' = tx
         /\ job[w].todo = {}
         /\ UNCHANGED <<clock, tx, device, crashes>>
         /\ events' = events \cup NewEvents(job[w])
         /\ plan.at < job[w].at =>
              plan'.at = job[w].at /\ plan'.outcome = job[w].outcome
         /\ ~(plan.at < job[w].at) => plan' = plan
         /\ IF Distributing(w)
            THEN pc'[w] = "reload" /\ job'[w] = job[w]
            ELSE pc'[w] = "idle" /\ job'[w] = NoJob
<1>1. IF Distributing(w) THEN pc'[w] = "reload" /\ job'[w] = job[w]
      ELSE pc'[w] = "idle" /\ job'[w] = NoJob
  BY GotoMoves DEF CommitPlan, Distributing
<1>2. /\ plan.at < job[w].at =>
           plan'.at = job[w].at /\ plan'.outcome = job[w].outcome
      /\ ~(plan.at < job[w].at) => plan' = plan
  BY DEF CommitPlan
<1> QED BY <1>1, <1>2 DEF CommitPlan, Unlock

(* The request settles its deliveries from the plan in the database.       *)
LEMMA ReloadEffect ==
  ASSUME TypeOK, NEW w \in Workers, ReloadPlan(w)
  PROVE  /\ pc[w] = "reload" /\ pc'[w] = "finish"
         /\ UNCHANGED <<clock, db, tx, lock, plan, events, device, crashes>>
         /\ SameRequest(job[w], job'[w]) /\ job'[w].at = job[w].at
         /\ job'[w].cap = job[w].cap /\ job'[w].outcome = plan.outcome
<1> DEFINE j == [job[w] EXCEPT !.outcome = plan.outcome]
<1>1. job[w] \in Jobs
  BY DEF TypeOK
<1>2. /\ SameRequest(job[w], j) /\ j.at = job[w].at /\ j.cap = job[w].cap
      /\ j.outcome = plan.outcome
  BY <1>1 DEF Jobs, SameRequest
<1>3. Goto(w, "finish", j)
  BY DEF ReloadPlan
<1> HIDE DEF j
<1>4. pc'[w] = "finish" /\ job'[w] = j
  BY <1>3, GotoMoves
<1> QED BY <1>2, <1>4 DEF ReloadPlan

(* A settled delivery is acknowledged only for an applied dispatch.        *)
LEMMA FinishEffect ==
  ASSUME TypeOK, NEW w \in Workers, FinishDistribute(w)
  PROVE  /\ pc[w] = "finish" /\ pc'[w] = "idle" /\ job'[w] = NoJob
         /\ lock = NoWorker /\ tx' = db'
         /\ UNCHANGED <<clock, lock, plan, events, device, crashes>>
         /\ \A i \in LimitIds :
              /\ SameCommand(db[i], db'[i]) /\ db'[i].status = db[i].status
              /\ i # job[w].id => db'[i] = db[i]
              /\ \A d \in Participants :
                   db'[i].delivery[d] = "acknowledged" =>
                     \/ db[i].delivery[d] = "acknowledged"
                     \/ job[w].outcome[d] = "applied"
<1> DEFINE settled(i) == [d \in Participants |->
                            Settled(db[i].delivery[d], job[w].outcome[d])]
<1>1. /\ pc[w] = "finish" /\ lock = NoWorker /\ tx' = db'
      /\ UNCHANGED <<clock, lock, plan, events, device, crashes>>
      /\ db' = [db EXCEPT ![job[w].id].delivery = settled(job[w].id)]
  BY DEF FinishDistribute
<1>2. db \in Ledgers
  BY DEF TypeOK
<1>3. \A i \in LimitIds : \A d \in Participants :
        settled(i)[d] = "acknowledged" =>
          \/ db[i].delivery[d] = "acknowledged"
          \/ job[w].outcome[d] = "applied"
  BY DEF Settled
<1> HIDE DEF settled
<1>4. ASSUME NEW i \in LimitIds
      PROVE  /\ SameCommand(db[i], db'[i]) /\ db'[i].status = db[i].status
             /\ i # job[w].id => db'[i] = db[i]
             /\ i = job[w].id => db'[i].delivery = settled(i)
  <2>1. db[i] \in Rows
    BY <1>2 DEF Ledgers
  <2>2. db'[i] = IF i = job[w].id
                 THEN [db[i] EXCEPT !.delivery = settled(i)] ELSE db[i]
    BY <1>1, <1>2 DEF Ledgers
  <2> QED BY <2>1, <2>2 DEF Rows, SameCommand
<1>5. pc'[w] = "idle" /\ job'[w] = NoJob
  BY GotoMoves DEF FinishDistribute
<1> QED BY <1>1, <1>3, <1>4, <1>5

-----------------------------------------------------------------------------
(* Commands are recorded *)

(* Nobody else's step moves a worker that dispatches or what it has sent.  *)
LEMMA DispatcherStays ==
  ASSUME LedgerInv, Next, ~Crash,
         \A w \in Workers : ~Dispatch(w) /\ ~CommitPlan(w)
  PROVE  /\ UNCHANGED <<device, events>>
         /\ \A v \in Workers : pc[v] = "dispatch" =>
              lock' = v /\ pc'[v] = "dispatch" /\ job'[v] = job[v]
<1>1. TypeOK /\ \A v \in Workers : pc[v] = "dispatch" => lock = v
  BY DEF LedgerInv, NotYetInserted
<1>2. CASE PatchPolicy \/ Tick \/ Quiescent
  BY <1>1, <1>2 DEF PatchPolicy, Tick, Quiescent, vars
<1>3. ASSUME NEW w \in Workers,
             \/ StartDistribute(w) \/ StartReplan(w) \/ Step(w)
             \/ LockTimeout(w)
      PROVE  /\ UNCHANGED <<device, events>>
             /\ pc[w] # "dispatch"
             /\ \A v \in Workers : lock = v => lock' = v \/ pc[w] = "commit"
             /\ \A v \in Workers \ {w} : pc'[v] = pc[v] /\ job'[v] = job[v]
  <2>1. CASE StartDistribute(w)
    BY <1>1, <2>1, GotoMoves DEF StartDistribute
  <2>2. CASE StartReplan(w)
    BY <1>1, <2>2, GotoMoves DEF StartReplan
  <2>3. CASE LockTimeout(w)
    BY <1>1, <2>3, GotoMoves DEF LockTimeout
  <2>4. CASE SelectReplaced(w)
    BY <1>1, <2>4, GotoMoves DEF SelectReplaced
  <2>5. CASE FlushLimit(w)
    BY <1>1, <2>5, GotoMoves, ConstantsAssumption DEF FlushLimit
  <2>6. CASE CommitLimit(w)
    BY <1>1, <2>6, GotoMoves DEF CommitLimit
  <2>7. CASE ReadPolicy(w)
    BY <1>1, <2>7, GotoMoves DEF ReadPolicy
  <2>8. CASE Materialize(w)
    BY <1>1, <2>8, GotoMoves, ConstantsAssumption DEF Materialize
  <2>9. CASE BuildSiteModel(w)
    BY <1>1, <2>9, GotoMoves DEF BuildSiteModel
  <2>10. CASE SolveAndFlush(w)
    BY <1>1, <2>10, GotoMoves, ConstantsAssumption DEF SolveAndFlush, Free
  <2>11. CASE ReloadPlan(w)
    BY <1>1, <2>11, GotoMoves DEF ReloadPlan
  <2>12. CASE FinishDistribute(w)
    BY <1>1, <2>12, GotoMoves DEF FinishDistribute
  <2> QED BY <1>3, <2>1, <2>2, <2>3, <2>4, <2>5, <2>6, <2>7, <2>8, <2>9,
             <2>10, <2>11, <2>12 DEF Step
<1>4. ASSUME NEW w \in Workers, pc[w] = "commit" PROVE lock = w
  BY <1>4 DEF LedgerInv, NotYetInserted
<1> QED BY <1>1, <1>2, <1>3, <1>4 DEF Next

(* A command sent is in the open transaction or in the ledger's events.    *)
LEMMA CommandStep ==
  ASSUME LedgerInv, CommandInv, [Next]_vars, ~Crash
  PROVE  CommandInv'
<1> SUFFICES ASSUME NEW d \in Devices, device'[d].at # 0
             PROVE  \/ RecordedFor(d)'
                    \/ \E w \in Workers : SentBy(w, d)'
  BY DEF CommandInv
<1>1. TypeOK /\ \A v \in Workers : pc[v] = "dispatch" => lock = v
  BY DEF LedgerInv, NotYetInserted
<1>2. device[d].at # 0 =>
        RecordedFor(d) \/ \E w \in Workers : SentBy(w, d)
  BY DEF CommandInv
<1>3. CASE UNCHANGED vars
  BY <1>2, <1>3 DEF vars, RecordedFor, SentBy
<1>4. ASSUME NEW w \in Workers, Dispatch(w)
      PROVE  \/ RecordedFor(d)'
             \/ \E v \in Workers : SentBy(v, d)'
  <2>1. PICK c \in job[w].todo :
          /\ job'[w].todo = job[w].todo \ {c}
          /\ \A e \in Devices \ {c} :
               /\ job'[w].outcome[e] = job[w].outcome[e]
               /\ device'[e] = device[e]
          /\ \/ device'[c] = device[c]
             \/ /\ device'[c].at = job[w].at
                /\ job'[w].outcome[c] \in {"applied", "failed"}
    BY <1>1, <1>4, DispatchEffect
  <2>2. /\ pc'[w] = "dispatch" /\ lock = w /\ UNCHANGED <<lock, events>>
        /\ job'[w].at = job[w].at
    BY <1>1, <1>4, DispatchEffect
  <2>3. CASE device'[d] = device[d]
    <3>1. CASE RecordedFor(d)
      BY <2>2, <2>3, <3>1 DEF RecordedFor
    <3>2. CASE \E v \in Workers : SentBy(v, d)
      <4>1. SentBy(w, d)
        BY <2>2, <3>2 DEF SentBy
      <4>2. d # c /\ job'[w].outcome[d] = job[w].outcome[d]
        BY <2>1, <4>1 DEF SentBy
      <4>3. SentBy(w, d)'
        BY <2>1, <2>2, <2>3, <4>1, <4>2 DEF SentBy
      <4> QED BY <4>3
    <3> QED BY <1>2, <2>3, <3>1, <3>2
  <2>4. CASE device'[d] # device[d]
    <3>1. d = c
      BY <2>1, <2>4
    <3>2. SentBy(w, d)'
      BY <2>1, <2>2, <2>4, <3>1 DEF SentBy
    <3> QED BY <3>2
  <2> QED BY <2>3, <2>4
<1>5. ASSUME NEW w \in Workers, CommitPlan(w)
      PROVE  RecordedFor(d)'
  <2>1. /\ pc[w] = "dispatch" /\ UNCHANGED device
        /\ events' = events \cup NewEvents(job[w])
    BY <1>1, <1>5, CommitPlanEffect
  <2>2. CASE RecordedFor(d)
    BY <2>1, <2>2 DEF RecordedFor
  <2>3. CASE \E v \in Workers : SentBy(v, d)
    <3>1. SentBy(w, d)
      BY <1>1, <2>1, <2>3 DEF SentBy
    <3> DEFINE e == [at |-> job[w].at, cap |-> job[w].cap, device |-> d,
                     status |-> job[w].outcome[d]]
    <3>2. e \in NewEvents(job[w])
      BY <3>1 DEF NewEvents, SentBy
    <3>3. /\ e.device = d /\ e.at = device'[d].at
          /\ e.status \in {"applied", "failed"}
      BY <2>1, <3>1 DEF SentBy
    <3> QED BY <2>1, <3>2, <3>3 DEF RecordedFor
  <2> QED BY <1>2, <2>1, <2>2, <2>3
<1>6. CASE /\ Next
           /\ \A w \in Workers : ~Dispatch(w) /\ ~CommitPlan(w)
  <2>1. /\ UNCHANGED <<device, events>>
        /\ \A v \in Workers : pc[v] = "dispatch" =>
             lock' = v /\ pc'[v] = "dispatch" /\ job'[v] = job[v]
    BY <1>6, DispatcherStays
  <2>2. ASSUME NEW v \in Workers, SentBy(v, d) PROVE SentBy(v, d)'
    BY <2>1, <2>2 DEF SentBy
  <2> QED BY <1>2, <2>1, <2>2 DEF RecordedFor
<1> QED BY <1>3, <1>4, <1>5, <1>6

(* Only a crash is counted as one.                                         *)
LEMMA CrashesCounted ==
  ASSUME [Next]_vars, ~Crash
  PROVE  crashes' = crashes
<1>1. CASE PatchPolicy \/ Tick \/ Quiescent \/ UNCHANGED vars
  BY <1>1 DEF PatchPolicy, Tick, Quiescent, vars
<1>2. ASSUME NEW w \in Workers,
             \/ StartDistribute(w) \/ StartReplan(w) \/ LockTimeout(w)
             \/ Dispatch(w) \/ CommitPlan(w)
      PROVE  crashes' = crashes
  BY <1>2
     DEF StartDistribute, StartReplan, LockTimeout, Dispatch, CommitPlan
<1>3. ASSUME NEW w \in Workers,
             \/ SelectReplaced(w) \/ FlushLimit(w) \/ CommitLimit(w)
             \/ ReadPolicy(w) \/ Materialize(w) \/ BuildSiteModel(w)
             \/ SolveAndFlush(w) \/ ReloadPlan(w) \/ FinishDistribute(w)
      PROVE  crashes' = crashes
  BY <1>3
     DEF SelectReplaced, FlushLimit, CommitLimit, ReadPolicy, Materialize,
         BuildSiteModel, SolveAndFlush, ReloadPlan, FinishDistribute
<1> QED BY <1>1, <1>2, <1>3 DEF Next, Step

(* Until a crash, whatever a device obeys while no transaction is open is  *)
(* explained by a stored event (HemsDispatchEvent), for any number of      *)
(* overlapping requests and plans.                                         *)
THEOREM CommandsAreRecorded == Spec => [](crashes = 0 => CommandsRecorded)
<1> DEFINE UntilCrash == crashes = 0 => CommandInv
<1>1. Init => UntilCrash
  BY DEF Init, CommandInv
<1>2. LedgerInv /\ UntilCrash /\ [Next]_vars => UntilCrash'
  <2> SUFFICES ASSUME LedgerInv, UntilCrash, [Next]_vars, crashes' = 0
               PROVE  CommandInv'
    OBVIOUS
  <2>1. ~Crash
    BY DEF LedgerInv, TypeOK, Crash
  <2> QED BY <2>1, CrashesCounted, CommandStep
<1>3. LedgerInv /\ UntilCrash => (crashes = 0 => CommandsRecorded)
  BY ConstantsAssumption DEF CommandInv, CommandsRecorded, RecordedFor,
     SentBy
<1> QED BY <1>1, <1>2, <1>3, LedgerInvariant, PTL DEF Spec

-----------------------------------------------------------------------------
(* Requests one at a time *)

(* Switching rows off keeps the order of commands and the acknowledgements.*)
LEMMA SwitchedOffKeeps ==
  ASSUME NEW old, NEW new, NEW known, NEW more, known \subseteq more,
         SwitchedOff(old, new)
  PROVE  /\ Ordered(old) => Ordered(new)
         /\ Acked(old, known) => Acked(new, more)
<1>1. Ordered(old) => Ordered(new)
  BY DEF Ordered, SwitchedOff, SameCommand
<1>2. ASSUME NEW i \in LimitIds, NEW d \in Participants,
             AckOf(old[i], d, known)
      PROVE  AckOf(new[i], d, more)
  <2>1. /\ new[i].command = old[i].command /\ new[i].key = old[i].key
        /\ new[i].watts = old[i].watts
        /\ new[i].received = old[i].received
        /\ new[i].expires = old[i].expires
        /\ new[i].delivery = old[i].delivery
    BY DEF SwitchedOff, SameCommand
  <2> QED BY <1>2, <2>1 DEF AckOf, Expired
<1> QED BY <1>1, <1>2 DEF Acked

(* A row of a request stays one for a request with the same command.       *)
LEMMA RowOfKeeps ==
  ASSUME NEW row, NEW new, NEW j, NEW k,
         SameCommand(row, new),
         row.status = "absent" <=> new.status = "absent",
         SameRequest(j, k)
  PROVE  /\ RowOf(row, j) => RowOf(new, k)
         /\ \A t : Expired(row, t) => Expired(new, t)
BY DEF RowOf, SameCommand, SameRequest, Expired

(* What is known when a lone worker takes a step.                          *)
LEMMA SoloFacts ==
  ASSUME OneAtATime, SoloInv, NEW w \in Workers
  PROVE  /\ TypeOK /\ SoloWorker(w) /\ NotYetInserted(w)
         /\ db \in Ledgers /\ tx \in Ledgers /\ clock \in Nat
         /\ job[w] \in Jobs /\ job[w].received \in Nat /\ job[w].at \in Nat
         /\ plan.at \in Nat
         /\ job[w].received <= clock /\ job[w].at <= clock
         /\ \A i \in LimitIds : /\ db[i] \in Rows /\ tx[i] \in Rows
                                /\ db[i].received \in Nat
                                /\ db[i].received <= clock
         /\ \A v \in Workers : v = w
         /\ lock \in {NoWorker, w} /\ (lock = NoWorker => tx = db)
<1>1. LedgerInv /\ SoloWorker(w) /\ TypeOK /\ StampsPast
  BY DEF SoloInv, LedgerInv
<1>2. /\ db \in Ledgers /\ tx \in Ledgers /\ clock \in Nat
      /\ job[w] \in Jobs /\ plan \in Plans
      /\ lock \in Workers \cup {NoWorker}
  BY <1>1 DEF TypeOK
<1>3. \A i \in LimitIds : /\ db[i] \in Rows /\ tx[i] \in Rows
                          /\ db[i].received \in Nat
                          /\ db[i].received <= clock
  BY <1>1, <1>2 DEF Ledgers, Rows, Stamps, LedgerInv, RowsPast
<1>4. /\ job[w].received \in Nat /\ job[w].at \in Nat /\ plan.at \in Nat
      /\ job[w].received <= clock /\ job[w].at <= clock
  BY <1>1, <1>2 DEF Jobs, Plans, Stamps, StampsPast
<1>5. NotYetInserted(w) /\ (lock = NoWorker => tx = db)
  BY <1>1 DEF LedgerInv, OpenTransaction
<1> QED BY <1>1, <1>2, <1>3, <1>4, <1>5 DEF OneAtATime

(* The flush of a command.                                                 *)
LEMMA SoloFlush ==
  ASSUME OneAtATime, SoloInv, LedgerInv', NEW w \in Workers, FlushLimit(w)
  PROVE  SoloInv'
<1> DEFINE id == job[w].id
<1>1. /\ TypeOK /\ SoloWorker(w) /\ NotYetInserted(w) /\ db \in Ledgers
      /\ \A v \in Workers : v = w
      /\ \A i \in LimitIds : db[i].received \in Nat
      /\ job[w].received \in Nat
  BY SoloFacts
<1>2. pc[w] = "flush" /\ id \in LimitIds /\ db[id].status = "absent"
  BY <1>1 DEF FlushLimit, NotYetInserted
<1>3. /\ lock' = w
      /\ \/ pc'[w] = "replan"
         \/ pc'[w] = "commit" /\ ~job[w].command
      /\ UNCHANGED <<clock, db, plan, events, device, crashes>>
      /\ SameRequest(job[w], job'[w]) /\ RowOf(tx'[id], job[w])
      /\ tx'[id].status = IF job[w].command THEN "active" ELSE "inactive"
      /\ \A d \in Participants : tx'[id].delivery[d] # "acknowledged"
      /\ \A i \in LimitIds : i # id =>
           /\ SameCommand(db[i], tx'[i])
           /\ tx'[i].delivery = db[i].delivery
           /\ tx'[i].status =
                IF i \in job[w].off /\ db[i].status = "active"
                THEN "inactive" ELSE db[i].status
  BY <1>1, <1>2, FlushEffect
<1>4. \A i \in LimitIds : db[i].status # "absent" =>
        /\ db[i].received < job[w].received
        /\ db[i].status = "active" /\ db[i].key = job[w].key =>
             i \in job[w].off
  BY <1>1, <1>2 DEF SoloWorker, Waiting
<1>5. \A i \in LimitIds : i # id /\ tx'[i].key = job[w].key =>
        tx'[i].status # "active"
  BY <1>3, <1>4 DEF SameCommand
<1>6. /\ job'[w].id = id /\ job'[w].key = job[w].key
      /\ job'[w].command = job[w].command /\ RowOf(tx'[id], job'[w])
      /\ Distributing(w)' /\ Distributing(w)
  <2>1. Distributing(w)
    BY <1>1, <1>2 DEF SoloWorker, Waiting
  <2> QED BY <1>3, <2>1 DEF SameRequest, RowOf, Distributing
<1>7. Opened(w)'
  BY <1>2, <1>3, <1>5, <1>6 DEF Opened
<1>8. Waiting(w)' /\ Planned(w)' /\ Settling(w)'
  BY <1>3, <1>6 DEF Waiting, Planned, Settling
<1>9. Ordered(tx')
  <2>1. Ordered(db)
    BY DEF SoloInv
  <2>2. tx'[id].received = job[w].received /\ tx'[id].key = job[w].key
    BY <1>3 DEF RowOf
  <2>3. \A i \in LimitIds : i # id /\ tx'[i].status # "absent" =>
          /\ tx'[i].received = db[i].received /\ tx'[i].key = db[i].key
          /\ db[i].status # "absent"
          /\ tx'[i].status = "active" => db[i].status = "active"
          /\ tx'[i].received < tx'[id].received
    BY <1>3, <1>4, <2>2 DEF SameCommand
  <2>4. ASSUME NEW i \in LimitIds, NEW k \in LimitIds, i # k,
               tx'[i].status # "absent", tx'[k].status # "absent"
        PROVE  /\ tx'[i].received # tx'[k].received
               /\ tx'[i].status = "active" /\ tx'[k].key = tx'[i].key =>
                    tx'[k].received < tx'[i].received
    <3>1. CASE i # id /\ k # id
      BY <2>1, <2>3, <2>4, <3>1 DEF Ordered
    <3>2. CASE i = id
      BY <1>1, <2>2, <2>3, <2>4, <3>2
    <3>3. CASE k = id
      BY <1>1, <1>5, <2>2, <2>3, <2>4, <3>3
    <3> QED BY <3>1, <3>2, <3>3
  <2> QED BY <2>4 DEF Ordered
<1>10. Acked(tx', events')
  <2> SUFFICES ASSUME NEW i \in LimitIds, NEW d \in Participants
               PROVE  AckOf(tx'[i], d, events')
    BY DEF Acked
  <2>1. CASE i = id
    BY <1>3, <2>1 DEF AckOf
  <2>2. CASE i # id
    <3>1. AckOf(db[i], d, events)
      BY DEF SoloInv, Acked
    <3>2. /\ SameCommand(db[i], tx'[i]) /\ tx'[i].delivery = db[i].delivery
          /\ events' = events
      BY <1>3, <2>2
    <3> QED BY <3>1, <3>2 DEF AckOf, SameCommand, Expired
  <2> QED BY <2>1, <2>2
<1>11. \A v \in Workers : SoloWorker(v)'
  BY <1>1, <1>7, <1>8 DEF SoloWorker
<1> QED BY <1>3, <1>9, <1>10, <1>11 DEF SoloInv

(* The steps before the flush, and those that leave the session idle.      *)
LEMMA SoloEnds ==
  ASSUME OneAtATime, SoloInv, LedgerInv', NEW w \in Workers,
         \/ StartDistribute(w) \/ StartReplan(w) \/ SelectReplaced(w)
         \/ LockTimeout(w)
  PROVE  SoloInv'
<1>1. /\ TypeOK /\ SoloWorker(w) /\ clock \in Nat /\ plan.at \in Nat
      /\ \A v \in Workers : v = w
      /\ \A i \in LimitIds : db[i].received \in Nat
                             /\ db[i].received <= clock
  BY SoloFacts
<1>2. plan.at <= clock
  BY DEF SoloInv
<1>3. CASE StartDistribute(w) \/ StartReplan(w)
  <2>1. /\ UNCHANGED <<clock, db, tx, lock, plan, events, device, crashes>>
        /\ \/ pc'[w] = "record" /\ job'[w].kind = "distribute"
           \/ pc'[w] = "replan" /\ job'[w].kind = "replan"
    BY <1>1, <1>3, StartEffect
  <2>2. SoloWorker(w)'
    BY <2>1 DEF SoloWorker, Waiting, Opened, Planned, Settling, Distributing
  <2> QED BY <1>1, <2>1, <2>2 DEF SoloInv
<1>4. CASE SelectReplaced(w)
  <2>1. /\ pc[w] = "record" /\ pc'[w] = "flush" /\ clock' = clock + 1
        /\ UNCHANGED <<db, tx, lock, plan, events, device, crashes>>
        /\ job'[w].kind = job[w].kind /\ job'[w].key = job[w].key
        /\ job'[w].received = clock + 1
        /\ \A i \in LimitIds :
             db[i].status = "active" /\ db[i].key = job[w].key =>
               i \in job'[w].off
    BY <1>1, <1>4, SelectEffect
  <2>2. Waiting(w)'
    BY <1>1, <2>1 DEF SoloWorker, Waiting, Distributing
  <2>3. Opened(w)' /\ Planned(w)' /\ Settling(w)'
    BY <2>1 DEF Opened, Planned, Settling
  <2> QED BY <1>1, <1>2, <2>1, <2>2, <2>3 DEF SoloInv, SoloWorker
<1>5. CASE LockTimeout(w)
  <2>1. /\ pc'[w] = "idle"
        /\ UNCHANGED <<clock, db, tx, lock, plan, events, device, crashes>>
    BY <1>1, <1>5, GotoMoves DEF LockTimeout
  <2>2. SoloWorker(w)'
    BY <2>1 DEF SoloWorker, Waiting, Opened, Planned, Settling
  <2> QED BY <1>1, <2>1, <2>2 DEF SoloInv
<1> QED BY <1>3, <1>4, <1>5

(* The plan is timed, its site model built.                                *)
LEMMA SoloPlans ==
  ASSUME OneAtATime, SoloInv, LedgerInv', NEW w \in Workers,
         ReadPolicy(w) \/ Materialize(w) \/ BuildSiteModel(w)
  PROVE  SoloInv'
<1>1. /\ TypeOK /\ SoloWorker(w) /\ NotYetInserted(w)
      /\ clock \in Nat /\ plan.at \in Nat /\ job[w].received \in Nat
      /\ job[w].received <= clock /\ \A v \in Workers : v = w
      /\ tx \in Ledgers
      /\ lock \in {NoWorker, w} /\ (lock = NoWorker => tx = db)
  BY SoloFacts
<1>2. plan.at <= clock
  BY DEF SoloInv
<1>3. CASE ReadPolicy(w)
  <2>1. /\ pc[w] = "replan" /\ pc'[w] = "materialize"
        /\ clock' = clock + 1 /\ job'[w].at = clock + 1
        /\ UNCHANGED <<db, tx, lock, plan, events, device, crashes>>
        /\ SameRequest(job[w], job'[w])
    BY <1>1, <1>3, PolicyEffect
  <2>2. Planned(w)'
    BY <1>1, <1>2, <2>1 DEF Planned, SameRequest
  <2>3. Opened(w)'
    BY <1>1, <2>1 DEF SoloWorker, Opened, SameRequest, RowOf, Distributing
  <2>4. Waiting(w)' /\ Settling(w)'
    BY <2>1 DEF Waiting, Settling
  <2> QED BY <1>1, <1>2, <2>1, <2>2, <2>3, <2>4 DEF SoloInv, SoloWorker
<1>4. CASE Materialize(w)
  <2>1. /\ pc[w] = "materialize" /\ pc'[w] = "site" /\ job'[w] = job[w]
        /\ UNCHANGED <<clock, db, plan, events, device, crashes>>
        /\ \/ UNCHANGED <<lock, tx>>
           \/ lock = NoWorker /\ lock' = w /\ tx' = db
    BY <1>1, <1>4, MaterializeEffect
  <2>2. tx' = tx
    BY <1>1, <2>1
  <2>3. Planned(w)'
    BY <1>1, <2>1 DEF SoloWorker, Planned, Distributing
  <2>4. Opened(w)'
    BY <1>1, <2>1, <2>2 DEF SoloWorker, Opened, Distributing
  <2>5. Waiting(w)' /\ Settling(w)'
    BY <2>1 DEF Waiting, Settling
  <2> QED BY <1>1, <2>1, <2>2, <2>3, <2>4, <2>5 DEF SoloInv, SoloWorker
<1>5. CASE BuildSiteModel(w)
  <2>1. /\ pc[w] = "site" /\ pc'[w] = "solve"
        /\ UNCHANGED <<clock, db, tx, lock, plan, events, device, crashes>>
        /\ SameRequest(job[w], job'[w]) /\ job'[w].at = job[w].at
        /\ IsEffective(job'[w].cap, SeenBy(w), job[w].policy.cap, job[w].at)
    BY <1>1, <1>5, SiteEffect
  <2>2. ASSUME Distributing(w), job[w].command
        PROVE  \/ job'[w].cap[UseCaseOf[job[w].key]] <= job[w].watts
               \/ Expired(tx[job[w].id], job[w].at)
    <3> DEFINE id == job[w].id
               t == job[w].at
    <3>1. /\ lock = w /\ id \in LimitIds /\ tx[id].status = "active"
          /\ tx[id].key = job[w].key /\ tx[id].watts = job[w].watts
      BY <1>1, <2>1, <2>2 DEF SoloWorker, Opened, RowOf
    <3>2. CASE ~Expired(tx[id], t)
      <4>1. id \in Unexpired(tx, t)
        BY <3>1, <3>2 DEF Unexpired
      <4>2. ASSUME NEW i \in Unexpired(tx, t), tx[i].key = tx[id].key
            PROVE  tx[i].received <= tx[id].received
        <5>1. i \in LimitIds /\ tx[i].status = "active"
          BY DEF Unexpired
        <5>2. i # id => tx[i].received < tx[id].received
          BY <3>1, <4>2, <5>1 DEF SoloInv, Ordered
        <5>3. tx[i].received \in Nat /\ tx[id].received \in Nat
          BY <1>1, <3>1, <5>1 DEF Ledgers, Rows, Stamps
        <5> QED BY <5>2, <5>3
      <4>3. id \in ActiveLimits(tx, t)
        BY <4>1, <4>2 DEF ActiveLimits
      <4>4. UseCaseOf[tx[id].key] \in UseCases
        BY <1>1, <3>1, ConstantsAssumption DEF Ledgers, Rows
      <4>5. job'[w].cap[UseCaseOf[tx[id].key]] <= tx[id].watts
        <5>1. IsEffective(job'[w].cap, tx, job[w].policy.cap, t)
          BY <2>1, <3>1 DEF SeenBy
        <5> HIDE DEF id, t
        <5> QED BY <4>3, <4>4, <5>1 DEF IsEffective
      <4> QED BY <3>1, <4>5
    <3> QED BY <3>2
  <2>3. Planned(w)'
    BY <1>1, <2>1, <2>2 DEF SoloWorker, Planned, Distributing, SameRequest
  <2>4. Opened(w)'
    BY <1>1, <2>1 DEF SoloWorker, Opened, SameRequest, RowOf, Distributing
  <2>5. Waiting(w)' /\ Settling(w)'
    BY <2>1 DEF Waiting, Settling
  <2> QED BY <1>1, <2>1, <2>3, <2>4, <2>5 DEF SoloInv, SoloWorker
<1> QED BY <1>3, <1>4, <1>5

(* The plan is flushed and dispatched.                                     *)
LEMMA SoloDispatches ==
  ASSUME OneAtATime, SoloInv, LedgerInv', NEW w \in Workers,
         SolveAndFlush(w) \/ Dispatch(w)
  PROVE  SoloInv'
<1>1. /\ TypeOK /\ SoloWorker(w)
      /\ \A v \in Workers : v = w
      /\ lock \in {NoWorker, w} /\ (lock = NoWorker => tx = db)
  BY SoloFacts
<1>2. CASE SolveAndFlush(w)
  <2>1. SeenBy(w) = tx
    BY <1>1 DEF SeenBy
  <2>2. /\ pc[w] = "solve" /\ pc'[w] = "dispatch" /\ lock' = w
        /\ UNCHANGED <<clock, db, plan, events, device, crashes>>
        /\ SameRequest(job[w], job'[w]) /\ job'[w].at = job[w].at
        /\ job'[w].cap = job[w].cap
    BY <1>1, <1>2, SolveEffect
  <2>3. SwitchedOff(tx, tx')
    BY <1>1, <1>2, <2>1, SolveEffect DEF SwitchedOff
  <2>4. Ordered(tx') /\ Acked(tx', events')
    BY <2>2, <2>3, SwitchedOffKeeps DEF SoloInv
  <2>5. Opened(w)' /\ Planned(w)'
    <3>1. ASSUME Distributing(w)'
          PROVE  /\ Distributing(w) /\ job[w].id \in LimitIds
                 /\ RowOf(tx'[job[w].id], job'[w])
                 /\ \A t : Expired(tx[job[w].id], t) =>
                             Expired(tx'[job[w].id], t)
      <4>1. /\ Distributing(w) /\ job[w].id \in LimitIds
            /\ RowOf(tx[job[w].id], job[w])
        BY <1>1, <2>2, <3>1
        DEF SoloWorker, Opened, Distributing, SameRequest
      <4>2. /\ SameCommand(tx[job[w].id], tx'[job[w].id])
            /\ tx[job[w].id].status = "absent" <=>
                 tx'[job[w].id].status = "absent"
        BY <2>3, <4>1 DEF SwitchedOff
      <4> QED BY <2>2, <4>1, <4>2, RowOfKeeps
    <3>2. ASSUME Distributing(w)'
          PROVE  /\ \A i \in LimitIds :
                      i # job'[w].id /\ tx'[i].key = job'[w].key =>
                        tx'[i].status # "active"
                 /\ ~job'[w].command => tx'[job'[w].id].status # "active"
      BY <1>1, <2>2, <2>3, <3>1, <3>2
      DEF SoloWorker, Opened, SameRequest, SwitchedOff, SameCommand
    <3>3. Opened(w)'
      BY <2>2, <3>1, <3>2 DEF Opened, SameRequest
    <3>4. Planned(w)'
      BY <1>1, <2>2, <3>1 DEF SoloWorker, Planned, SameRequest
    <3> QED BY <3>3, <3>4
  <2>6. Waiting(w)' /\ Settling(w)'
    BY <2>2 DEF Waiting, Settling
  <2> QED BY <1>1, <2>2, <2>4, <2>5, <2>6 DEF SoloInv, SoloWorker
<1>3. CASE Dispatch(w)
  <2>1. /\ pc[w] = "dispatch" /\ pc'[w] = "dispatch"
        /\ UNCHANGED <<clock, db, tx, lock, plan, events, crashes>>
        /\ SameRequest(job[w], job'[w]) /\ job'[w].at = job[w].at
        /\ job'[w].cap = job[w].cap
    BY <1>1, <1>3, DispatchEffect
  <2>2. Planned(w)'
    BY <1>1, <2>1 DEF SoloWorker, Planned, Distributing, SameRequest
  <2>3. Opened(w)'
    BY <1>1, <2>1 DEF SoloWorker, Opened, SameRequest, RowOf, Distributing
  <2>4. Waiting(w)' /\ Settling(w)'
    BY <2>1 DEF Waiting, Settling
  <2> QED BY <1>1, <2>1, <2>2, <2>3, <2>4 DEF SoloInv, SoloWorker
<1> QED BY <1>2, <1>3

(* What is committed, and the deliveries settled from it.                  *)
LEMMA SoloCommits ==
  ASSUME OneAtATime, SoloInv, LedgerInv', NEW w \in Workers,
         CommitLimit(w) \/ CommitPlan(w)
  PROVE  SoloInv'
<1>1. /\ TypeOK /\ SoloWorker(w) /\ \A v \in Workers : v = w
      /\ tx \in Ledgers /\ plan.at \in Nat /\ job[w].at \in Nat
      /\ job[w].at <= clock
      /\ \A i \in LimitIds : tx[i] \in Rows
  BY SoloFacts
<1>2. CASE CommitLimit(w)
  <2>1. /\ db' = Deactivate(tx, job[w].off) /\ tx' = db' /\ pc'[w] = "idle"
        /\ UNCHANGED <<clock, plan, events>>
    BY <1>1, <1>2, GotoMoves DEF CommitLimit
  <2>2. SwitchedOff(tx, db')
    <3> SUFFICES ASSUME NEW i \in LimitIds
                 PROVE  /\ SameCommand(tx[i], db'[i])
                        /\ db'[i].delivery = tx[i].delivery
                        /\ \/ db'[i].status = tx[i].status
                           \/ /\ tx[i].status = "active"
                              /\ db'[i].status = "inactive"
      BY DEF SwitchedOff
    <3>1. db'[i] = IF i \in job[w].off /\ tx[i].status = "active"
                   THEN [tx[i] EXCEPT !.status = "inactive"] ELSE tx[i]
      BY <2>1 DEF Deactivate
    <3> QED BY <1>1, <3>1 DEF Rows, SameCommand
  <2>3. Ordered(db') /\ Acked(db', events')
    BY <2>1, <2>2, SwitchedOffKeeps DEF SoloInv
  <2>4. SoloWorker(w)'
    BY <2>1 DEF SoloWorker, Waiting, Opened, Planned, Settling
  <2> QED BY <1>1, <2>1, <2>3, <2>4 DEF SoloInv
<1>3. CASE CommitPlan(w)
  <2>1. /\ pc[w] = "dispatch" /\ db' = tx /\ UNCHANGED <<clock, tx>>
        /\ events' = events \cup NewEvents(job[w])
        /\ IF Distributing(w)
           THEN pc'[w] = "reload" /\ job'[w] = job[w]
           ELSE pc'[w] = "idle" /\ job'[w] = NoJob
    BY <1>1, <1>3, CommitPlanEffect
  <2>2. plan'.at = job[w].at /\ plan'.outcome = job[w].outcome
    <3>1. plan.at < job[w].at
      BY <1>1, <2>1 DEF SoloWorker, Planned
    <3> QED BY <1>1, <1>3, <3>1, CommitPlanEffect
  <2>3. Ordered(db') /\ Acked(tx, events')
    <3>1. SwitchedOff(tx, tx)
      BY DEF SwitchedOff, SameCommand
    <3> QED BY <2>1, <3>1, SwitchedOffKeeps DEF SoloInv
  <2>4. SoloWorker(w)'
    <3>1. CASE ~Distributing(w)
      BY <2>1, <3>1 DEF SoloWorker, Waiting, Opened, Planned, Settling
    <3>2. CASE Distributing(w)
      <4>1. pc'[w] = "reload" /\ job'[w] = job[w]
        BY <2>1, <3>2
      <4>2. /\ job[w].id \in LimitIds /\ RowOf(tx[job[w].id], job[w])
            /\ job[w].received < job[w].at
            /\ job[w].command =>
                 \/ job[w].cap[UseCaseOf[job[w].key]] <= job[w].watts
                 \/ Expired(tx[job[w].id], job[w].at)
        BY <1>1, <2>1, <3>2 DEF SoloWorker, Opened, Planned
      <4>3. ASSUME NEW d \in Devices, job[w].outcome[d] = "applied"
            PROVE  [at |-> job[w].at, cap |-> job[w].cap, device |-> d,
                    status |-> "applied"] \in events'
        BY <2>1, <4>3 DEF NewEvents
      <4>4. Waiting(w)' /\ Opened(w)'
        BY <3>2, <4>1 DEF Waiting, Opened, Distributing
      <4>5. Planned(w)'
        BY <4>1, <4>2 DEF Planned
      <4>6. Settling(w)'
        BY <2>1, <2>2, <4>1, <4>2, <4>3 DEF Settling
      <4> QED BY <4>4, <4>5, <4>6 DEF SoloWorker
    <3> QED BY <3>1, <3>2
  <2> QED BY <1>1, <2>1, <2>2, <2>3, <2>4 DEF SoloInv
<1> QED BY <1>2, <1>3

(* The deliveries of a command are settled from its own plan.              *)
LEMMA SoloSettles ==
  ASSUME OneAtATime, SoloInv, LedgerInv', NEW w \in Workers,
         ReloadPlan(w) \/ FinishDistribute(w)
  PROVE  SoloInv'
<1>1. /\ TypeOK /\ SoloWorker(w) /\ \A v \in Workers : v = w
  BY SoloFacts
<1>2. CASE ReloadPlan(w)
  <2>1. /\ pc[w] = "reload" /\ pc'[w] = "finish"
        /\ UNCHANGED <<clock, db, tx, lock, plan, events, device, crashes>>
        /\ SameRequest(job[w], job'[w]) /\ job'[w].at = job[w].at
        /\ job'[w].cap = job[w].cap /\ job'[w].outcome = plan.outcome
    BY <1>1, <1>2, ReloadEffect
  <2>2. Waiting(w)' /\ Opened(w)'
    BY <1>1, <2>1 DEF SoloWorker, Waiting, Opened, Distributing, SameRequest
  <2>3. Planned(w)'
    BY <1>1, <2>1 DEF SoloWorker, Planned, Distributing, SameRequest
  <2>4. Settling(w)'
    BY <1>1, <2>1 DEF SoloWorker, Settling, SameRequest, RowOf
  <2> QED BY <1>1, <2>1, <2>2, <2>3, <2>4 DEF SoloInv, SoloWorker
<1>3. CASE FinishDistribute(w)
  <2> DEFINE id == job[w].id
  <2>1. /\ pc[w] = "finish" /\ pc'[w] = "idle" /\ tx' = db'
        /\ UNCHANGED <<clock, plan, events>>
        /\ \A i \in LimitIds :
             /\ SameCommand(db[i], db'[i]) /\ db'[i].status = db[i].status
             /\ i # id => db'[i] = db[i]
             /\ \A d \in Participants :
                  db'[i].delivery[d] = "acknowledged" =>
                    \/ db[i].delivery[d] = "acknowledged"
                    \/ job[w].outcome[d] = "applied"
    BY <1>1, <1>3, FinishEffect
  <2>2. Ordered(db')
    BY <2>1 DEF SoloInv, Ordered, SameCommand
  <2>3. Acked(db', events')
    <3> SUFFICES ASSUME NEW i \in LimitIds, NEW d \in Participants
                 PROVE  AckOf(db'[i], d, events)
      BY <2>1 DEF Acked
    <3>1. AckOf(db[i], d, events)
      BY DEF SoloInv, Acked
    <3>2. CASE db'[i].delivery[d] # "acknowledged"
      BY <3>2 DEF AckOf
    <3>3. CASE db[i].delivery[d] = "acknowledged"
      BY <2>1, <3>1, <3>3 DEF AckOf, SameCommand, Expired
    <3>4. CASE /\ db'[i].delivery[d] = "acknowledged"
               /\ db[i].delivery[d] # "acknowledged"
      <4>1. i = id /\ job[w].outcome[d] = "applied" /\ d \in Devices
        BY <2>1, <3>4, ConstantsAssumption
      <4> DEFINE e == [at |-> job[w].at, cap |-> job[w].cap, device |-> d,
                       status |-> "applied"]
      <4>2. /\ e \in events /\ RowOf(db[id], job[w])
            /\ job[w].received < job[w].at
            /\ job[w].command =>
                 \/ job[w].cap[UseCaseOf[job[w].key]] <= job[w].watts
                 \/ Expired(db[id], job[w].at)
        BY <1>1, <2>1, <4>1 DEF SoloWorker, Settling, Planned, Waiting
      <4>3. /\ db'[i].received = job[w].received
            /\ db'[i].command = job[w].command /\ db'[i].key = job[w].key
            /\ db'[i].watts = job[w].watts
            /\ db'[i].expires = db[id].expires
        BY <2>1, <4>1, <4>2 DEF RowOf, SameCommand
      <4>4. /\ e.device = d /\ e.status = "applied" /\ e.at = job[w].at
            /\ e.cap = job[w].cap
        OBVIOUS
      <4> HIDE DEF e
      <4> QED BY <4>2, <4>3, <4>4 DEF AckOf, Expired
    <3> QED BY <3>2, <3>3, <3>4
  <2>4. SoloWorker(w)'
    BY <2>1 DEF SoloWorker, Waiting, Opened, Planned, Settling
  <2> QED BY <1>1, <2>1, <2>2, <2>3, <2>4 DEF SoloInv
<1> QED BY <1>2, <1>3

(* A lone worker keeps the ledger a register per key.                      *)
LEMMA SoloStep ==
  ASSUME OneAtATime, SoloInv, [Next]_vars
  PROVE  SoloInv'
<1>1. LedgerInv'
  BY LedgerStep DEF SoloInv
<1>2. ASSUME NEW w \in Workers,
             \/ StartDistribute(w) \/ StartReplan(w) \/ Step(w)
             \/ LockTimeout(w)
      PROVE  SoloInv'
  BY <1>1, <1>2, SoloEnds, SoloFlush, SoloPlans, SoloDispatches,
     SoloCommits, SoloSettles DEF Step
<1>3. CASE PatchPolicy \/ Tick \/ Quiescent \/ UNCHANGED vars
  <2>1. /\ UNCHANGED <<db, tx, lock, pc, job, plan, events>>
        /\ clock' = clock \/ clock' = clock + 1
    BY <1>3 DEF PatchPolicy, Tick, Stamp, Quiescent, vars
  <2>2. clock \in Nat /\ plan.at \in Nat
    BY DEF SoloInv, LedgerInv, TypeOK, Plans, Stamps
  <2>3. \A w \in Workers : SoloWorker(w)'
    BY <2>1 DEF SoloInv, SoloWorker, Waiting, Opened, Planned, Settling,
       Distributing
  <2> QED BY <1>1, <2>1, <2>2, <2>3 DEF SoloInv
<1>4. CASE Crash
  <2>1. /\ tx' = db /\ UNCHANGED <<clock, db, plan, events>>
        /\ \A w \in Workers : pc'[w] = "idle"
    BY <1>4 DEF Crash
  <2>2. \A w \in Workers : SoloWorker(w)'
    BY <2>1 DEF SoloWorker, Waiting, Opened, Planned, Settling
  <2> QED BY <1>1, <2>1, <2>2 DEF SoloInv
<1> QED BY <1>2, <1>3, <1>4 DEF Next

(* While requests come one at a time, the newest command of each key is    *)
(* the one that counts, and deliveries are settled from their own plan.    *)
THEOREM SoloInvariant == ASSUME OneAtATime PROVE Spec => []SoloInv
<1>1. Init => SoloInv
  <2> SUFFICES ASSUME Init PROVE SoloInv
    OBVIOUS
  <2>1. LedgerInv
    BY LedgerInit
  <2>2. \A w \in Workers : SoloWorker(w)
    BY DEF Init, SoloWorker, Waiting, Opened, Planned, Settling
  <2>3. BlankRow.status = "absent" /\ BlankRow.command = FALSE
    BY DEF BlankRow
  <2>4. \A i \in LimitIds : db[i] = BlankRow /\ tx[i] = BlankRow
    BY DEF Init
  <2>5. plan.at <= clock
    BY DEF Init
  <2> QED BY <2>1, <2>2, <2>3, <2>4, <2>5 DEF SoloInv, Ordered, Acked, AckOf
<1>2. SoloInv /\ [Next]_vars => SoloInv'
  BY SoloStep
<1> QED BY <1>1, <1>2, PTL DEF Spec

(* A release or a replacement is never outlived by the limit it was meant  *)
(* to end (record_load_control_limit), while requests come one at a time.  *)
THEOREM LatestWins ==
  ASSUME OneAtATime PROVE Spec => []LatestCommandWins
<1>1. SoloInv => LatestCommandWins
  <2> SUFFICES ASSUME SoloInv, NEW i \in LimitIds, NEW j \in LimitIds,
                      db[i].status = "active", db[j].status # "absent",
                      db[j].key = db[i].key
               PROVE  db[j].received <= db[i].received
    BY DEF LatestCommandWins
  <2>1. db[i].received \in Nat /\ db[j].received \in Nat
    BY DEF SoloInv, LedgerInv, TypeOK, Ledgers, Rows, Stamps
  <2> QED BY <2>1 DEF SoloInv, Ordered
<1> QED BY <1>1, SoloInvariant, PTL

(* An acknowledged delivery names a command that was applied under the     *)
(* acknowledged limit (update_native_delivery_statuses_from_plan), while   *)
(* requests come one at a time.                                            *)
THEOREM AcknowledgedWasApplied ==
  ASSUME OneAtATime PROVE Spec => []AcknowledgedMeansApplied
<1>1. SoloInv => AcknowledgedMeansApplied
  BY DEF SoloInv, Acked, AckOf, AcknowledgedMeansApplied
<1> QED BY <1>1, SoloInvariant, PTL

-----------------------------------------------------------------------------
(* One register per key *)

(* Rows are never switched on again, only a command creates a row, and a   *)
(* command that is off when its plan is committed came too late.           *)
RegisterInv ==
  /\ \A i \in LimitIds :
       tx[i].status = "active" => db[i].status \in {"active", "absent"}
  /\ \A w \in Workers :
       /\ ~Distributing(w) => job[w].id = NoLimit
       /\ pc[w] = "commit" => ~job[w].command
       /\ Distributing(w) /\ pc[w] = "dispatch" /\ job[w].command =>
            \/ tx[job[w].id].status = "active"
            \/ Expired(tx[job[w].id], clock)

(* The reading steps and the flush.                                        *)
LEMMA RegisterReads ==
  ASSUME OneAtATime, SoloInv, RegisterInv, TypeOK', NEW w \in Workers,
         \/ StartDistribute(w) \/ StartReplan(w) \/ SelectReplaced(w)
         \/ FlushLimit(w) \/ ReadPolicy(w) \/ Materialize(w)
         \/ BuildSiteModel(w) \/ ReloadPlan(w) \/ LockTimeout(w)
  PROVE  RegisterInv'
<1>1. /\ TypeOK /\ NotYetInserted(w) /\ \A v \in Workers : v = w
      /\ lock \in {NoWorker, w} /\ (lock = NoWorker => tx = db)
  BY SoloFacts
<1>2. /\ ~Distributing(w) => job[w].id = NoLimit
      /\ \A i \in LimitIds :
           tx[i].status = "active" => db[i].status \in {"active", "absent"}
  BY DEF RegisterInv
<1>3. CASE StartDistribute(w) \/ StartReplan(w)
  <2>1. /\ UNCHANGED <<db, tx>>
        /\ \/ pc'[w] = "record" /\ job'[w].kind = "distribute"
           \/ /\ pc'[w] = "replan" /\ job'[w].kind = "replan"
              /\ job'[w].id = NoLimit
    BY <1>1, <1>3, StartEffect
  <2> QED BY <1>1, <1>2, <2>1 DEF RegisterInv, Distributing
<1>4. CASE SelectReplaced(w)
  <2>1. /\ pc'[w] = "flush" /\ UNCHANGED <<db, tx>>
        /\ job'[w].kind = job[w].kind /\ job'[w].id = job[w].id
    BY <1>1, <1>4, SelectEffect
  <2> QED BY <1>1, <1>2, <2>1 DEF RegisterInv, Distributing
<1>5. CASE FlushLimit(w)
  <2>1. job[w].id \in LimitIds /\ db[job[w].id].status = "absent"
    BY <1>1, <1>5 DEF FlushLimit, NotYetInserted
  <2>2. /\ \/ pc'[w] = "replan"
           \/ pc'[w] = "commit" /\ ~job[w].command
        /\ UNCHANGED db /\ SameRequest(job[w], job'[w])
        /\ \A i \in LimitIds : i # job[w].id =>
             tx'[i].status =
               IF i \in job[w].off /\ db[i].status = "active"
               THEN "inactive" ELSE db[i].status
    BY <1>1, <1>5, <2>1, FlushEffect
  <2>3. ASSUME NEW i \in LimitIds, tx'[i].status = "active"
        PROVE  db'[i].status \in {"active", "absent"}
    BY <2>1, <2>2, <2>3
  <2> QED BY <1>1, <1>2, <2>2, <2>3
          DEF RegisterInv, Distributing, SameRequest
<1>6. CASE ReadPolicy(w)
  <2>1. /\ pc'[w] = "materialize" /\ UNCHANGED <<db, tx>>
        /\ SameRequest(job[w], job'[w])
    BY <1>1, <1>6, PolicyEffect
  <2> QED BY <1>1, <1>2, <2>1 DEF RegisterInv, Distributing, SameRequest
<1>7. CASE Materialize(w)
  <2>1. /\ pc'[w] = "site" /\ job'[w] = job[w] /\ UNCHANGED db
        /\ \/ UNCHANGED <<lock, tx>>
           \/ lock = NoWorker /\ lock' = w /\ tx' = db
    BY <1>1, <1>7, MaterializeEffect
  <2> QED BY <1>1, <1>2, <2>1 DEF RegisterInv, Distributing
<1>8. CASE BuildSiteModel(w)
  <2>1. /\ pc'[w] = "solve" /\ UNCHANGED <<db, tx>>
        /\ SameRequest(job[w], job'[w])
    BY <1>1, <1>8, SiteEffect
  <2> QED BY <1>1, <1>2, <2>1 DEF RegisterInv, Distributing, SameRequest
<1>9. CASE ReloadPlan(w)
  <2>1. /\ pc'[w] = "finish" /\ UNCHANGED <<db, tx>>
        /\ SameRequest(job[w], job'[w])
    BY <1>1, <1>9, ReloadEffect
  <2> QED BY <1>1, <1>2, <2>1 DEF RegisterInv, Distributing, SameRequest
<1>10. CASE LockTimeout(w)
  <2>1. /\ pc'[w] = "idle" /\ job'[w] = NoJob /\ UNCHANGED <<db, tx>>
    BY <1>1, <1>10, GotoMoves DEF LockTimeout
  <2>2. NoJob.id = NoLimit
    BY DEF NoJob
  <2> QED BY <1>1, <1>2, <2>1, <2>2 DEF RegisterInv
<1> QED BY <1>3, <1>4, <1>5, <1>6, <1>7, <1>8, <1>9, <1>10

(* The plan and the commits.                                               *)
LEMMA RegisterWrites ==
  ASSUME OneAtATime, SoloInv, RegisterInv, TypeOK', NEW w \in Workers,
         \/ SolveAndFlush(w) \/ Dispatch(w) \/ CommitLimit(w)
         \/ CommitPlan(w) \/ FinishDistribute(w)
  PROVE  RegisterInv'
<1>1. /\ TypeOK /\ SoloWorker(w) /\ \A v \in Workers : v = w
      /\ clock \in Nat /\ tx \in Ledgers
      /\ lock \in {NoWorker, w} /\ (lock = NoWorker => tx = db)
  BY SoloFacts
<1>2. /\ ~Distributing(w) => job[w].id = NoLimit
      /\ \A i \in LimitIds :
           tx[i].status = "active" => db[i].status \in {"active", "absent"}
  BY DEF RegisterInv
<1>3. NoJob.id = NoLimit
  BY DEF NoJob
<1>4. CASE SolveAndFlush(w)
  <2> DEFINE id == job[w].id
  <2>1. SeenBy(w) = tx
    BY <1>1 DEF SeenBy
  <2>2. /\ pc[w] = "solve" /\ pc'[w] = "dispatch"
        /\ UNCHANGED <<clock, db>> /\ SameRequest(job[w], job'[w])
        /\ \A i \in LimitIds :
             /\ SameCommand(tx[i], tx'[i])
             /\ \/ tx'[i].status = tx[i].status
                \/ /\ tx[i].status = "active"
                   /\ tx'[i].status = "inactive" /\ i \in job[w].off
    BY <1>1, <1>4, <2>1, SolveEffect
  <2>3. ASSUME Distributing(w), job[w].command, tx'[id].status # "active"
        PROVE  Expired(tx'[id], clock)
    <3>1. id \in LimitIds /\ tx[id].status = "active"
      BY <1>1, <2>2, <2>3 DEF SoloWorker, Opened
    <3>2. id \in job[w].off
      BY <2>2, <2>3, <3>1
    <3>3. Ended(tx, id, clock)
      <4>1. OffExplained(w)
        BY DEF SoloInv, LedgerInv
      <4> QED BY <2>1, <2>2, <3>2, <4>1 DEF OffExplained, Replaces
    <3>4. ASSUME NEW j \in LimitIds, Newer(tx, id, j) PROVE FALSE
      <4>1. tx[j].received \in Nat /\ tx[id].received \in Nat
        BY <1>1, <3>1 DEF Ledgers, Rows, Stamps
      <4>2. j # id
        BY <3>4, <4>1 DEF Newer
      <4>3. tx[j].received < tx[id].received
        BY <3>1, <3>4, <4>2 DEF SoloInv, Ordered, Newer
      <4> QED BY <3>4, <4>1, <4>3 DEF Newer
    <3> QED BY <2>2, <3>1, <3>3, <3>4 DEF Ended, Expired, SameCommand
  <2>4. \A i \in LimitIds :
          tx'[i].status = "active" => db'[i].status \in {"active", "absent"}
    BY <1>2, <2>2
  <2> QED BY <1>1, <1>2, <2>2, <2>3, <2>4
          DEF RegisterInv, Distributing, SameRequest
<1>5. CASE Dispatch(w)
  <2>1. /\ pc[w] = "dispatch" /\ pc'[w] = "dispatch"
        /\ UNCHANGED <<clock, db, tx>> /\ SameRequest(job[w], job'[w])
    BY <1>1, <1>5, DispatchEffect
  <2> QED BY <1>1, <2>1 DEF RegisterInv, Distributing, SameRequest
<1>6. CASE CommitLimit(w)
  <2>1. tx' = db' /\ pc'[w] = "idle" /\ job'[w] = NoJob
    BY <1>1, <1>6, GotoMoves DEF CommitLimit
  <2> QED BY <1>1, <1>3, <2>1 DEF RegisterInv
<1>7. CASE CommitPlan(w)
  <2>1. /\ tx' = tx /\ db' = tx
        /\ IF Distributing(w)
           THEN pc'[w] = "reload" /\ job'[w] = job[w]
           ELSE pc'[w] = "idle" /\ job'[w] = NoJob
    BY <1>1, <1>7, CommitPlanEffect
  <2> QED BY <1>1, <1>2, <1>3, <2>1 DEF RegisterInv, Distributing
<1>8. CASE FinishDistribute(w)
  <2>1. pc'[w] = "idle" /\ job'[w] = NoJob /\ tx' = db'
    BY <1>1, <1>8, FinishEffect
  <2> QED BY <1>1, <1>3, <2>1 DEF RegisterInv
<1> QED BY <1>4, <1>5, <1>6, <1>7, <1>8

(* A lone worker keeps RegisterInv.                                        *)
LEMMA RegisterStep ==
  ASSUME OneAtATime, SoloInv, RegisterInv, [Next]_vars
  PROVE  RegisterInv'
<1>1. TypeOK'
  BY TypeStep DEF SoloInv, LedgerInv
<1>2. ASSUME NEW w \in Workers,
             \/ StartDistribute(w) \/ StartReplan(w) \/ Step(w)
             \/ LockTimeout(w)
      PROVE  RegisterInv'
  BY <1>1, <1>2, RegisterReads, RegisterWrites DEF Step
<1>3. CASE PatchPolicy \/ Tick \/ Quiescent \/ UNCHANGED vars
  <2>1. /\ UNCHANGED <<db, tx, pc, job>>
        /\ clock' = clock \/ clock' = clock + 1
    BY <1>3 DEF PatchPolicy, Tick, Stamp, Quiescent, vars
  <2>2. /\ clock \in Nat
        /\ \A w \in Workers : Distributing(w) /\ pc[w] = "dispatch" =>
             tx[job[w].id].expires \in Nat
    <3>1. ASSUME NEW w \in Workers, Distributing(w), pc[w] = "dispatch"
          PROVE  tx[job[w].id].expires \in Nat
      <4>1. job[w].id \in LimitIds
        BY <3>1 DEF SoloInv, SoloWorker, Opened
      <4> QED BY <4>1
              DEF SoloInv, LedgerInv, TypeOK, Ledgers, Rows, Expiries
    <3> QED BY <3>1 DEF SoloInv, LedgerInv, TypeOK
  <2>3. ASSUME NEW w \in Workers, Distributing(w), pc[w] = "dispatch",
               Expired(tx[job[w].id], clock)
        PROVE  Expired(tx[job[w].id], clock')
    BY <2>1, <2>2, <2>3 DEF Expired
  <2> QED BY <2>1, <2>3 DEF RegisterInv, Distributing
<1>4. CASE Crash
  <2>1. /\ tx' = db /\ db' = db
        /\ \A w \in Workers : pc'[w] = "idle" /\ job'[w] = NoJob
    BY <1>4 DEF Crash
  <2>2. NoJob.id = NoLimit
    BY DEF NoJob
  <2> QED BY <2>1, <2>2 DEF RegisterInv
<1> QED BY <1>2, <1>3, <1>4 DEF Next

-----------------------------------------------------------------------------
(* The refinement *)

None == [watts |-> 0, expires |-> 0, set |-> FALSE]
Idle == [active |-> FALSE, key |-> "none"]

(* A key's register holds its active row, or nothing.                      *)
LEMMA RegisterIs ==
  ASSUME NEW rows \in Ledgers, Ordered(rows), NEW k \in Keys
  PROVE  /\ \A i \in LimitIds : rows[i].status = "active" /\ rows[i].key = k =>
              Register(rows, k) = [watts |-> rows[i].watts,
                                   expires |-> rows[i].expires, set |-> TRUE]
         /\ (\A i \in LimitIds : rows[i].key = k => rows[i].status # "active")
              => Register(rows, k) = None
<1>1. ASSUME NEW i \in LimitIds, rows[i].status = "active", rows[i].key = k
      PROVE  Register(rows, k) = [watts |-> rows[i].watts,
                                  expires |-> rows[i].expires, set |-> TRUE]
  <2>1. ASSUME NEW j \in ActiveRows(rows, k) PROVE j = i
    <3>1. j \in LimitIds /\ rows[j].status = "active" /\ rows[j].key = k
      BY DEF ActiveRows
    <3>2. rows[i].received \in Nat /\ rows[j].received \in Nat
      BY <3>1 DEF Ledgers, Rows, Stamps
    <3>3. j # i => /\ rows[j].received < rows[i].received
                   /\ rows[i].received < rows[j].received
      BY <1>1, <3>1 DEF Ordered
    <3> QED BY <3>2, <3>3
  <2>2. i \in ActiveRows(rows, k)
    BY <1>1 DEF ActiveRows
  <2>3. (CHOOSE j \in ActiveRows(rows, k) : TRUE) \in ActiveRows(rows, k)
    BY <2>2
  <2>4. (CHOOSE j \in ActiveRows(rows, k) : TRUE) = i
    BY <2>1, <2>3
  <2> QED BY <2>2, <2>4 DEF Register
<1>2. ASSUME \A i \in LimitIds : rows[i].key = k => rows[i].status # "active"
      PROVE  Register(rows, k) = None
  BY <1>2 DEF Register, None, ActiveRows
<1> QED BY <1>1, <1>2

(* A ledger with the same active rows has the same registers.              *)
LEMMA SameRegister ==
  ASSUME NEW old \in Ledgers, Ordered(old), NEW new \in Ledgers,
         Ordered(new), NEW k \in Keys,
         \A i \in LimitIds : /\ SameCommand(old[i], new[i])
                             /\ new[i].status = old[i].status
  PROVE  Register(new, k) = Register(old, k)
<1>1. CASE \E i \in LimitIds : old[i].status = "active" /\ old[i].key = k
  <2>1. PICK i \in LimitIds : old[i].status = "active" /\ old[i].key = k
    BY <1>1
  <2>2. /\ new[i].status = "active" /\ new[i].key = k
        /\ new[i].watts = old[i].watts /\ new[i].expires = old[i].expires
    BY <2>1 DEF SameCommand
  <2>3. Register(old, k) = [watts |-> old[i].watts,
                            expires |-> old[i].expires, set |-> TRUE]
    BY <2>1, RegisterIs
  <2>4. Register(new, k) = [watts |-> new[i].watts,
                            expires |-> new[i].expires, set |-> TRUE]
    BY <2>2, RegisterIs
  <2> QED BY <2>2, <2>3, <2>4
<1>2. CASE \A i \in LimitIds : old[i].key = k => old[i].status # "active"
  <2>1. \A i \in LimitIds : new[i].key = k => new[i].status # "active"
    BY <1>2 DEF SameCommand
  <2> QED BY <1>2, <2>1, RegisterIs
<1> QED BY <1>1, <1>2

(* A commit changes no register but that of its command, except to let a   *)
(* limit lapse.                                                            *)
LEMMA OtherRegisters ==
  ASSUME OneAtATime, SoloInv, RegisterInv, SoloInv', NEW w \in Workers,
         CommitLimit(w) \/ CommitPlan(w), NEW k \in Keys,
         Distributing(w) => k # job[w].key
  PROVE  \/ Register(db', k) = Register(db, k)
         \/ /\ Register(db', k) = None
            /\ \E i \in LimitIds :
                 /\ db[i].status = "active" /\ db[i].key = k
                 /\ Expired(db[i], clock)
<1>1. /\ TypeOK /\ SoloWorker(w) /\ NotYetInserted(w)
      /\ db \in Ledgers /\ tx \in Ledgers /\ \A v \in Workers : v = w
  BY SoloFacts
<1>2. db' \in Ledgers /\ Ordered(db) /\ Ordered(db')
  BY DEF SoloInv, LedgerInv, TypeOK
<1>3. lock = w /\ pc[w] \in {"dispatch", "commit"}
  BY <1>1 DEF CommitLimit, CommitPlan, NotYetInserted
<1>4. SameRows(tx, db')
  <2>1. LedgerInv /\ TypeOK' /\ StampsPast'
    BY DEF SoloInv, LedgerInv
  <2> QED BY <2>1, CommitSteps
<1>5. SwitchedOff(tx, db') \/ db' = tx
  <2>1. CASE CommitPlan(w)
    BY <2>1 DEF CommitPlan
  <2>2. CASE CommitLimit(w)
    <3> SUFFICES ASSUME NEW i \in LimitIds
                 PROVE  /\ SameCommand(tx[i], db'[i])
                        /\ db'[i].delivery = tx[i].delivery
                        /\ \/ db'[i].status = tx[i].status
                           \/ /\ tx[i].status = "active"
                              /\ db'[i].status = "inactive"
      BY DEF SwitchedOff
    <3>1. db'[i] = IF i \in job[w].off /\ tx[i].status = "active"
                   THEN [tx[i] EXCEPT !.status = "inactive"] ELSE tx[i]
      BY <2>2 DEF CommitLimit, Deactivate
    <3>2. tx[i] \in Rows
      BY <1>1 DEF Ledgers
    <3> QED BY <3>1, <3>2 DEF Rows, SameCommand
  <2> QED BY <2>1, <2>2
<1>6. ASSUME NEW i \in LimitIds, db'[i].key = k, db'[i].status # "absent"
      PROVE  db[i].status # "absent" /\ SameCommand(db[i], db'[i])
  <2>1. tx[i].key = k /\ tx[i].status # "absent"
    BY <1>4, <1>6 DEF SameRows, SameCommand
  <2>2. db[i].status = "absent" => job[w].id = i
    BY <1>3, <2>1 DEF SoloInv, LedgerInv, OpenTransaction
  <2>3. db[i].status # "absent"
    <3>1. SUFFICES ASSUME job[w].id = i PROVE FALSE
      BY <2>2
    <3>2. Distributing(w)
      BY <3>1, ConstantsAssumption DEF RegisterInv
    <3>3. tx[i].key = job[w].key
      BY <1>1, <1>3, <3>1, <3>2 DEF SoloWorker, Opened, RowOf
    <3> QED BY <2>1, <3>2, <3>3
  <2>4. SameCommand(db[i], tx[i])
    BY <2>3 DEF SoloInv, LedgerInv, OpenTransaction, Grows
  <2> QED BY <1>4, <2>3, <2>4 DEF SameRows, SameCommand
<1>7. CASE \E i \in LimitIds : db'[i].status = "active" /\ db'[i].key = k
  <2>1. PICK i \in LimitIds : db'[i].status = "active" /\ db'[i].key = k
    BY <1>7
  <2>2. db[i].status # "absent" /\ SameCommand(db[i], db'[i])
    BY <1>6, <2>1
  <2>3. tx[i].status = "active"
    BY <1>5, <2>1 DEF SwitchedOff
  <2>4. db[i].status = "active"
    BY <2>2, <2>3 DEF RegisterInv
  <2>5. /\ db[i].key = k /\ db'[i].watts = db[i].watts
        /\ db'[i].expires = db[i].expires
    BY <2>1, <2>2 DEF SameCommand
  <2>6. Register(db, k) = [watts |-> db[i].watts,
                           expires |-> db[i].expires, set |-> TRUE]
    BY <1>1, <1>2, <2>4, <2>5, RegisterIs
  <2>7. Register(db', k) = [watts |-> db'[i].watts,
                            expires |-> db'[i].expires, set |-> TRUE]
    BY <1>2, <2>1, RegisterIs
  <2> QED BY <2>5, <2>6, <2>7
<1>8. CASE \A i \in LimitIds : db'[i].key = k => db'[i].status # "active"
  <2>1. Register(db', k) = None
    BY <1>2, <1>8, RegisterIs
  <2>2. CASE \A i \in LimitIds : db[i].key = k => db[i].status # "active"
    <3>1. Register(db, k) = None
      BY <1>1, <1>2, <2>2, RegisterIs
    <3> QED BY <2>1, <3>1
  <2>3. CASE \E i \in LimitIds : db[i].key = k /\ db[i].status = "active"
    <3>1. PICK i \in LimitIds : db[i].key = k /\ db[i].status = "active"
      BY <2>3
    <3>2. db'[i].key = k /\ db'[i].status # "active"
      <4>1. SameCommand(db[i], tx[i])
        BY <3>1 DEF SoloInv, LedgerInv, OpenTransaction, Grows
      <4>2. db'[i].key = k
        BY <1>4, <3>1, <4>1 DEF SameRows, SameCommand
      <4> QED BY <1>8, <4>2
    <3>3. \/ Expired(db[i], clock)
          \/ \E j \in LimitIds : /\ db'[j].status # "absent"
                                 /\ db'[j].key = db[i].key
                                 /\ db[i].received < db'[j].received
      <4>1. LedgerInv /\ Next
        BY DEF SoloInv, Next, Step
      <4> QED BY <3>1, <3>2, <4>1, EndsForAReason
    <3>4. ASSUME NEW j \in LimitIds, db'[j].status # "absent",
                 db'[j].key = db[i].key, db[i].received < db'[j].received
          PROVE  FALSE
      <4>1. db[j].status # "absent" /\ SameCommand(db[j], db'[j])
        BY <1>6, <3>1, <3>4
      <4>2. db[j].received \in Nat /\ db[i].received \in Nat
        BY <1>1 DEF Ledgers, Rows, Stamps
      <4>3. db[i].received < db[j].received /\ db[j].key = db[i].key
        BY <3>4, <4>1 DEF SameCommand
      <4>4. j # i
        BY <4>2, <4>3
      <4>5. db[j].received < db[i].received
        BY <1>2, <3>1, <4>1, <4>3, <4>4 DEF Ordered
      <4> QED BY <4>2, <4>3, <4>5
    <3> QED BY <2>1, <3>1, <3>3, <3>4
  <2> QED BY <2>2, <2>3
<1> QED BY <1>7, <1>8

(* A commit puts its command into the register of its key, or nothing if   *)
(* the command has expired meanwhile.                                      *)
LEMMA OwnRegister ==
  ASSUME OneAtATime, SoloInv, RegisterInv, SoloInv', NEW w \in Workers,
         CommitLimit(w) \/ CommitPlan(w), Distributing(w)
  PROVE  \/ /\ job[w].command
            /\ Register(db', job[w].key) =
                 [watts |-> job[w].watts, set |-> TRUE,
                  expires |-> IF job[w].duration = 0 THEN 0
                              ELSE job[w].received + job[w].duration]
         \/ /\ Register(db', job[w].key) = None
            /\ job[w].command =>
                 /\ job[w].duration # 0
                 /\ job[w].received + job[w].duration <= clock
<1> DEFINE id == job[w].id
           k == job[w].key
<1>1. /\ TypeOK /\ SoloWorker(w) /\ NotYetInserted(w)
      /\ tx \in Ledgers /\ job[w] \in Jobs /\ \A v \in Workers : v = w
  BY SoloFacts
<1>2. db' \in Ledgers /\ Ordered(db') /\ k \in Keys
  BY <1>1 DEF SoloInv, LedgerInv, TypeOK, Jobs
<1>3. lock = w /\ pc[w] \in {"dispatch", "commit"}
  BY <1>1 DEF CommitLimit, CommitPlan, NotYetInserted
<1>4. /\ id \in LimitIds /\ RowOf(tx[id], job[w])
      /\ \A i \in LimitIds : i # id /\ tx[i].key = k =>
           tx[i].status # "active"
      /\ ~job[w].command => tx[id].status # "active"
  BY <1>1, <1>3 DEF SoloWorker, Opened
<1>5. /\ SameRows(tx, db')
      /\ \A i \in LimitIds :
           db'[i].status = "active" => tx[i].status = "active"
      /\ CommitPlan(w) => db' = tx
  <2>1. LedgerInv /\ TypeOK' /\ StampsPast'
    BY DEF SoloInv, LedgerInv
  <2>2. CASE CommitPlan(w)
    BY <2>1, <2>2, CommitSteps DEF CommitPlan
  <2>3. CASE CommitLimit(w)
    <3>1. db' = Deactivate(tx, job[w].off) /\ ~CommitPlan(w)
      BY <2>3 DEF CommitLimit, CommitPlan
    <3>2. \A i \in LimitIds :
            db'[i].status = "active" => tx[i].status = "active"
      BY <1>1, <3>1, DeactivateGrows
    <3> QED BY <2>1, <2>3, <3>1, <3>2, CommitSteps
  <2> QED BY <2>2, <2>3
<1>6. /\ db'[id].key = k /\ db'[id].watts = job[w].watts
      /\ db'[id].received = job[w].received
      /\ db'[id].expires = tx[id].expires
      /\ tx[id].expires = IF job[w].command /\ job[w].duration # 0
                          THEN job[w].received + job[w].duration ELSE 0
  BY <1>4, <1>5 DEF SameRows, SameCommand, RowOf
<1>7. CASE db'[id].status = "active"
  <2>1. job[w].command
    BY <1>4, <1>5, <1>7
  <2>2. Register(db', k) = [watts |-> db'[id].watts,
                            expires |-> db'[id].expires, set |-> TRUE]
    BY <1>2, <1>4, <1>6, <1>7, RegisterIs
  <2> QED BY <1>6, <2>1, <2>2
<1>8. CASE db'[id].status # "active"
  <2>1. \A i \in LimitIds : db'[i].key = k => db'[i].status # "active"
    BY <1>4, <1>5, <1>8 DEF SameRows, SameCommand
  <2>2. Register(db', k) = None
    BY <1>2, <2>1, RegisterIs
  <2>3. ASSUME job[w].command
        PROVE  /\ job[w].duration # 0
               /\ job[w].received + job[w].duration <= clock
    <3>1. pc[w] = "dispatch" /\ CommitPlan(w)
      BY <1>3, <2>3 DEF RegisterInv, CommitLimit, CommitPlan
    <3>2. tx[id].status # "active"
      BY <1>5, <1>8, <3>1
    <3>3. Expired(tx[id], clock)
      BY <2>3, <3>1, <3>2 DEF RegisterInv
    <3> QED BY <1>6, <2>3, <3>3 DEF Expired
  <2> QED BY <2>2, <2>3
<1> QED BY <1>7, <1>8

(* What the mapping shows of the worker's session.                         *)
LEMMA PendingIs ==
  ASSUME NEW w, Workers = {w}
  PROVE  /\ TheWorker = w
         /\ Handling =>
              Pending = [active |-> job[w].command, key |-> job[w].key,
                         watts |-> job[w].watts,
                         duration |-> job[w].duration,
                         received |-> job[w].received]
         /\ ~Handling => Pending = Idle
         /\ Handling <=>
              /\ Distributing(w)
              /\ pc[w] \in {"flush", "replan", "materialize", "site",
                            "solve", "dispatch", "commit"}
<1>1. TheWorker = w
  BY DEF TheWorker
<1> QED BY <1>1 DEF Handling, Pending, Idle, Distributing

(* A command that is being handled is not the absence of one.              *)
LEMMA NotIdle ==
  ASSUME NEW a, NEW k, NEW p, NEW t, NEW r
  PROVE  [active |-> a, key |-> k, watts |-> p, duration |-> t,
          received |-> r] # Idle
<1> DEFINE c == [active |-> a, key |-> k, watts |-> p, duration |-> t,
                 received |-> r]
<1>1. "watts" \in DOMAIN c /\ "watts" \notin DOMAIN Idle
  BY DEF Idle
<1> QED BY <1>1

(* Steps that leave the ledger alone: a command is received, dropped, or   *)
(* kept while time passes.                                                 *)
LEMMA LedgerStays ==
  ASSUME NEW w, Workers = {w}, SoloInv, SoloInv', [Next]_vars,
         ~CommitLimit(w), ~CommitPlan(w), ~FinishDistribute(w)
  PROVE  [Ledger!Next]_<<clock, Pending, Limits>>
<1>1. /\ w \in Workers /\ OneAtATime /\ TypeOK
      /\ \A v \in Workers : v = w
  BY DEF OneAtATime, SoloInv, LedgerInv
<1>2. db' = db => Limits' = Limits
  BY DEF Limits
<1>3. \/ Handling /\ Pending # Idle
      \/ ~Handling /\ Pending = Idle
  BY PendingIs, NotIdle
<1>4. ASSUME db' = db, clock' = clock, Pending' \in {Pending, Idle}
      PROVE  [Ledger!Next]_<<clock, Pending, Limits>>
  BY <1>2, <1>4 DEF Ledger!Next, Ledger!Drop, Ledger!NoCommand, Idle
<1>5. ASSUME db' = db, clock' = clock + 1, Pending' = Pending
      PROVE  [Ledger!Next]_<<clock, Pending, Limits>>
  BY <1>2, <1>5 DEF Ledger!Next, Ledger!Pass
<1>6. ASSUME SameRequest(job[w], job'[w]),
             {pc[w], pc'[w]} \subseteq
               {"flush", "replan", "materialize", "site", "solve",
                "dispatch", "commit"}
      PROVE  Pending' = Pending
  BY <1>1, <1>6 DEF Pending, Handling, TheWorker, SameRequest
<1>7. ASSUME pc'[w] \in {"idle", "record", "reload", "finish"}
      PROVE  Pending' = Idle
  BY <1>1, <1>7 DEF Pending, Handling, TheWorker, Idle
<1>8. CASE StartDistribute(w) \/ StartReplan(w)
  <2>1. /\ UNCHANGED <<clock, db>>
        /\ \/ pc'[w] = "record"
           \/ pc'[w] = "replan" /\ job'[w].kind = "replan"
    BY <1>1, <1>8, StartEffect
  <2>2. Pending' = Idle
    BY <1>1, <2>1 DEF Pending, Handling, TheWorker, Idle
  <2> QED BY <1>4, <2>1, <2>2
<1>9. CASE SelectReplaced(w)
  <2>1. /\ pc[w] = "record" /\ pc'[w] = "flush" /\ clock' = clock + 1
        /\ UNCHANGED db /\ job'[w].received = clock + 1
    BY <1>1, <1>9, SelectEffect
  <2>2. Distributing(w)'
    BY <1>1, <2>1 DEF SoloInv, SoloWorker, Waiting
  <2>3. Pending = Idle
    BY <2>1, PendingIs
  <2>4. Pending' = [active |-> job'[w].command, key |-> job'[w].key,
                    watts |-> job'[w].watts,
                    duration |-> job'[w].duration,
                    received |-> clock']
    BY <1>1, <2>1, <2>2 DEF Pending, Handling, TheWorker, Distributing
  <2>5. /\ job'[w].command \in BOOLEAN /\ job'[w].key \in Keys
        /\ job'[w].watts \in Powers /\ job'[w].duration \in Durations
    BY <1>1 DEF SoloInv, LedgerInv, TypeOK, Jobs
  <2>6. Ledger!Receive
    BY <1>2, <2>1, <2>3, <2>4, <2>5
    DEF Ledger!Receive, Ledger!NoCommand, Idle
  <2> QED BY <2>6 DEF Ledger!Next
<1>10. CASE FlushLimit(w)
  <2>1. /\ pc[w] = "flush" /\ pc'[w] \in {"replan", "commit"}
        /\ UNCHANGED <<clock, db>> /\ SameRequest(job[w], job'[w])
    <3>1. job[w].id \in LimitIds /\ db[job[w].id].status = "absent"
      BY <1>1, <1>10
      DEF FlushLimit, SoloInv, LedgerInv, NotYetInserted
    <3> QED BY <1>1, <1>10, <3>1, FlushEffect
  <2> QED BY <1>4, <1>6, <2>1
<1>11. CASE ReadPolicy(w)
  <2>1. /\ pc[w] = "replan" /\ pc'[w] = "materialize"
        /\ clock' = clock + 1 /\ UNCHANGED db
        /\ SameRequest(job[w], job'[w])
    BY <1>1, <1>11, PolicyEffect
  <2> QED BY <1>5, <1>6, <2>1
<1>12. CASE \/ Materialize(w) \/ BuildSiteModel(w) \/ SolveAndFlush(w)
            \/ Dispatch(w)
  <2>1. SameRequest(job[w], job[w])
    BY DEF SameRequest
  <2>2. /\ {pc[w], pc'[w]} \subseteq {"materialize", "site", "solve",
                                      "dispatch"}
        /\ UNCHANGED <<clock, db>> /\ SameRequest(job[w], job'[w])
    BY <1>1, <1>12, <2>1, MaterializeEffect, SiteEffect, SolveEffect,
       DispatchEffect
  <2> QED BY <1>4, <1>6, <2>2
<1>13. CASE ReloadPlan(w) \/ LockTimeout(w)
  <2>1. UNCHANGED <<clock, db>> /\ pc'[w] \in {"idle", "finish"}
    BY <1>1, <1>13, ReloadEffect, GotoMoves DEF LockTimeout
  <2> QED BY <1>4, <1>7, <2>1
<1>14. CASE PatchPolicy \/ Tick \/ Quiescent \/ UNCHANGED vars
  <2>1. /\ UNCHANGED <<db, pc, job>>
        /\ clock' = clock \/ clock' = clock + 1
    BY <1>14 DEF PatchPolicy, Tick, Stamp, Quiescent, vars
  <2>2. Pending' = Pending
    BY <2>1 DEF Pending, Handling
  <2> QED BY <1>4, <1>5, <2>1, <2>2
<1>15. CASE Crash
  <2>1. UNCHANGED <<clock, db>> /\ pc'[w] = "idle"
    BY <1>1, <1>15 DEF Crash
  <2> QED BY <1>4, <1>7, <2>1
<1> QED BY <1>1, <1>8, <1>9, <1>10, <1>11, <1>12, <1>13, <1>14, <1>15
        DEF Next, Step

(* The commits: the command takes effect as a whole, or comes too late;    *)
(* limits that have run out may lapse with it.                             *)
LEMMA LedgerMoves ==
  ASSUME NEW w, Workers = {w}, SoloInv, RegisterInv, SoloInv',
         CommitLimit(w) \/ CommitPlan(w) \/ FinishDistribute(w)
  PROVE  [Ledger!Next]_<<clock, Pending, Limits>>
<1>1. /\ w \in Workers /\ OneAtATime /\ TypeOK
      /\ \A v \in Workers : v = w
  BY DEF OneAtATime, SoloInv, LedgerInv
<1>2. /\ db \in Ledgers /\ db' \in Ledgers /\ Ordered(db) /\ Ordered(db')
  BY DEF SoloInv, LedgerInv, TypeOK
<1>3. /\ Limits = [k \in Keys |-> Register(db, k)]
      /\ Limits' = [k \in Keys |-> Register(db', k)]
  BY DEF Limits
<1>4. CASE FinishDistribute(w)
  <2>1. /\ pc[w] = "finish" /\ pc'[w] = "idle" /\ UNCHANGED clock
        /\ \A i \in LimitIds : /\ SameCommand(db[i], db'[i])
                               /\ db'[i].status = db[i].status
    BY <1>1, <1>4, FinishEffect
  <2>2. \A k \in Keys : Register(db', k) = Register(db, k)
    BY <1>2, <2>1, SameRegister
  <2>3. Limits' = Limits
    BY <1>3, <2>2
  <2>4. Pending = Idle /\ Pending' = Idle
    BY <1>1, <2>1 DEF Pending, Handling, TheWorker, Idle
  <2> QED BY <2>1, <2>3, <2>4
<1>5. CASE CommitLimit(w) \/ CommitPlan(w)
  <2>1. UNCHANGED clock /\ pc[w] \in {"dispatch", "commit"}
        /\ (pc'[w] \in {"idle", "reload"})
    BY <1>1, <1>5, CommitPlanEffect, GotoMoves DEF CommitLimit
  <2>2. Pending' = Idle
    BY <1>1, <2>1 DEF Pending, Handling, TheWorker, Idle
  <2>3. ASSUME NEW k \in Keys, Distributing(w) => k # job[w].key
        PROVE  \/ Limits'[k] = Limits[k]
               \/ Limits'[k] = None /\ Ledger!Lapsed(k)
    <3>1. \/ Register(db', k) = Register(db, k)
          \/ /\ Register(db', k) = None
             /\ \E i \in LimitIds :
                  /\ db[i].status = "active" /\ db[i].key = k
                  /\ Expired(db[i], clock)
      BY <1>1, <1>5, <2>3, OtherRegisters
    <3>2. ASSUME NEW i \in LimitIds, db[i].status = "active",
                 db[i].key = k, Expired(db[i], clock)
          PROVE  Ledger!Lapsed(k)
      <4>1. Limits[k] = [watts |-> db[i].watts, expires |-> db[i].expires,
                         set |-> TRUE]
        BY <1>2, <1>3, <3>2, RegisterIs
      <4> QED BY <3>2, <4>1 DEF Ledger!Lapsed, Expired
    <3> QED BY <1>3, <3>1, <3>2
  <2>4. DOMAIN Limits' = Keys
    BY <1>3
  <2>5. CASE ~Distributing(w)
    <3>1. Pending = Idle
      BY <2>5, PendingIs
    <3>2. \A k \in Keys : \/ Limits'[k] = Limits[k]
                          \/ Ledger!Lapsed(k) /\ Limits'[k] = None
      BY <2>3, <2>5
    <3>3. Limits' # Limits => Ledger!Lapse
      BY <2>1, <2>2, <2>4, <3>1, <3>2
      DEF Ledger!Lapse, Ledger!OthersKeepOrLapse, Ledger!NoLimitSet, None
    <3> QED BY <2>1, <2>2, <3>1, <3>3 DEF Ledger!Next
  <2>6. CASE Distributing(w)
    <3> DEFINE j == job[w]
    <3>1. Pending = [active |-> j.command, key |-> j.key,
                     watts |-> j.watts, duration |-> j.duration,
                     received |-> j.received]
      BY <2>1, <2>6, PendingIs
    <3>2. Pending # Ledger!NoCommand /\ Pending' = Ledger!NoCommand
      BY <2>2, <3>1, NotIdle DEF Ledger!NoCommand, Idle
    <3>3. /\ Pending.active = j.command /\ Pending.key = j.key
          /\ Pending.watts = j.watts /\ Pending.duration = j.duration
          /\ Pending.received = j.received
      BY <3>1
    <3>4. Ledger!OthersKeepOrLapse({Pending.key})
      BY <2>3, <3>3 DEF Ledger!OthersKeepOrLapse, Ledger!NoLimitSet, None
    <3>5. j.key \in Keys /\ j.command \in BOOLEAN
      BY <1>1 DEF TypeOK, Jobs
    <3>6. \/ /\ j.command
             /\ Limits'[j.key] =
                  [watts |-> j.watts, set |-> TRUE,
                   expires |-> IF j.duration = 0 THEN 0
                               ELSE j.received + j.duration]
          \/ /\ Limits'[j.key] = None
             /\ j.command => j.duration # 0 /\ j.received + j.duration <= clock
      BY <1>1, <1>3, <1>5, <2>6, <3>5, OwnRegister
    <3> HIDE DEF j
    <3>7. CASE \/ j.command /\ Limits'[j.key] =
                    [watts |-> j.watts, set |-> TRUE,
                     expires |-> IF j.duration = 0 THEN 0
                                 ELSE j.received + j.duration]
               \/ ~j.command /\ Limits'[j.key] = None
      <4>1. Ledger!TakeEffect
        BY <2>1, <2>4, <3>2, <3>3, <3>4, <3>7
        DEF Ledger!TakeEffect, Ledger!NoLimitSet, None
      <4> QED BY <4>1 DEF Ledger!Next
    <3>8. CASE /\ j.command /\ Limits'[j.key] = None
               /\ j.duration # 0 /\ j.received + j.duration <= clock
      <4>1. Ledger!TakeEffectTooLate
        BY <2>1, <2>4, <3>2, <3>3, <3>4, <3>8
        DEF Ledger!TakeEffectTooLate, Ledger!NoLimitSet, None
      <4> QED BY <4>1 DEF Ledger!Next
    <3> QED BY <3>5, <3>6, <3>7, <3>8
  <2> QED BY <2>5, <2>6
<1> QED BY <1>4, <1>5

(* With one worker, the load-control path implements one register per key, *)
(* for any number of keys, rows and devices, and across crashes: a command *)
(* takes effect once and as a whole, is dropped, or comes too late.        *)
THEOREM LedgerImplemented ==
  ASSUME NEW w, Workers = {w} PROVE Spec => LedgerSpec
<1>1. OneAtATime
  BY DEF OneAtATime
<1>2. Init => RegisterInv /\ Ledger!Init
  <2> SUFFICES ASSUME Init PROVE RegisterInv /\ Ledger!Init
    OBVIOUS
  <2>1. BlankRow.status = "absent" /\ NoJob.id = NoLimit
        /\ NoJob.kind = "none"
    BY DEF BlankRow, NoJob
  <2>2. /\ clock = 0
        /\ \A i \in LimitIds : db[i] = BlankRow /\ tx[i] = BlankRow
        /\ pc[w] = "idle" /\ job[w] = NoJob
    BY DEF Init
  <2>3. RegisterInv
    BY <2>1, <2>2 DEF RegisterInv
  <2>4. Pending = Idle
    BY <2>2, PendingIs
  <2>5. \A k \in Keys : Register(db, k) = None
    BY <2>1, <2>2 DEF Register, ActiveRows, None
  <2>6. Limits = [k \in Keys |-> None]
    BY <2>5 DEF Limits
  <2> QED BY <2>2, <2>3, <2>4, <2>6
          DEF Ledger!Init, Ledger!NoCommand, Ledger!NoLimitSet, Idle, None
<1>3. SoloInv /\ RegisterInv /\ [Next]_vars => RegisterInv'
  BY <1>1, RegisterStep
<1>4. SoloInv /\ RegisterInv /\ [Next]_vars
        => [Ledger!Next]_<<clock, Pending, Limits>>
  <2> SUFFICES ASSUME SoloInv, RegisterInv, [Next]_vars
               PROVE  [Ledger!Next]_<<clock, Pending, Limits>>
    OBVIOUS
  <2>1. SoloInv'
    BY <1>1, SoloStep
  <2> QED BY <2>1, LedgerStays, LedgerMoves
<1>5. Spec => []SoloInv
  BY <1>1, SoloInvariant
<1> QED BY <1>2, <1>3, <1>4, <1>5, PTL DEF Spec, LedgerSpec, Ledger!Spec
=============================================================================
