------------------------ MODULE EebusDeliveryProofs ------------------------
(***************************************************************************)
(* Theorems about EebusDelivery for any number of peers, limits and tasks: *)
(* type correctness, that a delivery's status tells what the peer did, and *)
(* that no limit of a peer is left waiting when the loop has nothing more  *)
(* to do.                                                                  *)
(***************************************************************************)
EXTENDS EebusDelivery, TLAPS

-----------------------------------------------------------------------------
(* The inductive invariant *)

(* The peer has decided on some write of delivery i; done is verdicts.     *)
Written(i, done) == \E ok \in BOOLEAN : <<i[1], i[2], ok>> \in done

(* The answers to counter c tell what the peer did with delivery i.        *)
Matched(i, c, told, done) ==
  \A a \in told : a.peer = i[2] /\ a.counter = c =>
    <<i[1], i[2], a.ok>> \in done

(* A write in the map of pending writes, or whose send is still awaited,   *)
(* has an old counter, and its answers are those of its own delivery.      *)
WritesMatch ==
  /\ \A e \in writes : /\ e.peer = e.item[2]
                       /\ e.counter <= counter[e.peer]
                       /\ Written(e.item, verdicts)
                       /\ Matched(e.item, e.counter, answers, verdicts)
  /\ \A t \in Tasks : task[t].stage = "written" =>
       /\ task[t].counter <= counter[task[t].item[2]]
       /\ Written(task[t].item, verdicts)
       /\ Matched(task[t].item, task[t].counter, answers, verdicts)
  /\ \A a \in answers : a.counter <= counter[a.peer]

(* An outbound send in progress uses the one session its peer has had in   *)
(* this run; a stopped runtime has no tasks, and one that is not running   *)
(* no outbound sessions.                                                   *)
SendsInRun ==
  /\ \A t \in Tasks :
       /\ task[t].stage = "idle" => task[t].items = {}
       /\ mode = "stopped" => task[t].stage = "idle"
       /\ task[t].stage \in {"client", "written"} /\ task[t].via = Out =>
            /\ task[t].item[2] \in dialed
            /\ session[Out][task[t].item[2]] \in {0, task[t].session}
  /\ \A p \in Peers : session[Out][p] # 0 => Running /\ p \in dialed

(* Only a command is in force.                                             *)
ActiveIsCommand ==
  \A n \in Limits : limit[n].status = "active" => limit[n].command

(* The task x is handed to the loop and has not started.                   *)
Queued(x, queue) == \E k \in 1 .. Len(queue) : queue[k] = x

(* The task r has the delivery i before it, or is sending it.              *)
Working(r, i) ==
  \/ i \in r.items
  \/ r.stage \in {"server", "client", "written"} /\ r.item = i

(* A pending delivery of a peer's limit to a peer that can be reached is   *)
(* on somebody's list.                                                     *)
OnTheList(n, p) ==
  \/ handler = n \/ Queued(ForwardTask(n), due)
  \/ Queued(RetryTask(p), due)
  \/ \E t \in Tasks : Working(task[t], <<n, p>>)

PendingListed ==
  \A n \in Limits, p \in Peers :
    /\ limit[n].status = "active" /\ limit[n].source = "peer"
    /\ Reachable(p) /\ delivery[n][p] = "pending"
    => OnTheList(n, p)

DeliveryInv ==
  /\ TypeOK /\ WritesMatch /\ SendsInRun /\ ActiveIsCommand
  /\ StatusTruthful /\ PendingListed

-----------------------------------------------------------------------------
(* Rows and tasks *)

(* Limits are numbers, and an item names a limit and a peer.               *)
LEMMA ItemParts ==
  ASSUME NEW i \in Items
  PROVE  i[1] \in Limits /\ i[2] \in Peers /\ i = <<i[1], i[2]>>
BY DEF Items

(* Setting the status of one delivery leaves the others alone.             *)
LEMMA StatusIsSet ==
  ASSUME TypeOK, NEW n \in Limits, NEW p \in Participants,
         NEW s \in Statuses, SetStatus(n, p, s)
  PROVE  /\ delivery' \in [Limits -> [Participants -> Statuses]]
         /\ delivery'[n][p] = s
         /\ \A m \in Limits, q \in Participants :
              m # n \/ q # p => delivery'[m][q] = delivery[m][q]
BY DEF TypeOK, SetStatus

(* One task moves, the others stay where they are.                         *)
LEMMA TaskMoves ==
  ASSUME TypeOK, NEW t \in Tasks, NEW r \in TaskRecords, Run(t, r)
  PROVE  /\ task' \in [Tasks -> TaskRecords] /\ task'[t] = r
         /\ \A u \in Tasks : u # t => task'[u] = task[u]
BY DEF TypeOK, Run

(* A task that has ended its work on a delivery, or all of it.             *)
LEMMA RestingTasks ==
  /\ IdleTask \in TaskRecords /\ IdleTask.stage = "idle"
  /\ IdleTask.items = {}
  /\ \A r \in TaskRecords :
       /\ Proceed(r) \in TaskRecords
       /\ Proceed(r).stage = "next" /\ Proceed(r).items = r.items
BY DEF IdleTask, Proceed, TaskRecords, TaskStages, In, Out

(* A queue that gets one more task has that and all it had.                *)
LEMMA AppendedIsDue ==
  ASSUME due \in Seq(DueTasks), NEW x \in DueTasks, due' = Append(due, x)
  PROVE  /\ due' \in Seq(DueTasks) /\ Queued(x, due')
         /\ \A y : Queued(y, due) => Queued(y, due')
<1>1. /\ Len(due') = Len(due) + 1 /\ Len(due) \in Nat
      /\ due'[Len(due) + 1] = x
      /\ \A k \in 1 .. Len(due) : due'[k] = due[k]
  OBVIOUS
<1>2. Queued(x, due')
  BY <1>1 DEF Queued
<1>3. ASSUME NEW y, Queued(y, due) PROVE Queued(y, due')
  BY <1>1, <1>3 DEF Queued
<1> QED BY <1>2, <1>3

(* A queue that loses its head keeps all the rest.                         *)
LEMMA RestIsDue ==
  ASSUME due \in Seq(DueTasks), due # <<>>, due' = Tail(due)
  PROVE  /\ due' \in Seq(DueTasks) /\ Head(due) \in DueTasks
         /\ \A y : Queued(y, due) /\ y # Head(due) => Queued(y, due')
<1>1. /\ Len(due) \in Nat \ {0} /\ Head(due) = due[1]
      /\ Len(due') = Len(due) - 1
      /\ \A k \in 1 .. Len(due') : due'[k] = due[k + 1]
  OBVIOUS
<1>2. ASSUME NEW y, Queued(y, due), y # Head(due) PROVE Queued(y, due')
  <2>1. PICK k \in 1 .. Len(due) : due[k] = y
    BY <1>2 DEF Queued
  <2>2. k # 1 /\ k - 1 \in 1 .. Len(due')
    BY <1>1, <1>2, <2>1
  <2>3. due'[k - 1] = due[k]
    BY <1>1, <2>2
  <2> QED BY <2>1, <2>2, <2>3 DEF Queued
<1> QED BY <1>1, <1>2

-----------------------------------------------------------------------------
(* Work on one delivery *)

(* A write on a session gets a new counter of its peer; the peer decides   *)
(* on it, and only answers of that counter are added.                      *)
WriteEffect(t, r, d) ==
  LET i == r.item
      c == counter[i[2]] + 1
  IN /\ session[d][i[2]] # 0
     /\ counter' \in [Peers -> Nat] /\ counter'[i[2]] = c
     /\ \A p \in Peers : p # i[2] => counter'[p] = counter[p]
     /\ task' \in [Tasks -> TaskRecords]
     /\ task'[t].stage = "written" /\ task'[t].item = i
     /\ task'[t].items = r.items /\ task'[t].via = d
     /\ task'[t].counter = c /\ task'[t].session = session[d][i[2]]
     /\ \A u \in Tasks : u # t => task'[u] = task[u]
     /\ answers \subseteq answers' /\ answers' \subseteq Answers
     /\ \E ok \in BOOLEAN :
          /\ verdicts' = verdicts \cup {<<i[1], i[2], ok>>}
          /\ \A a \in answers' \ answers :
               a.peer = i[2] /\ a.counter = c /\ a.ok = ok

(* WriteOn has that effect.                                                *)
LEMMA WriteHasEffect ==
  ASSUME TypeOK, NEW t \in Tasks, NEW r \in TaskRecords, r.item \in Items,
         NEW d \in {In, Out}, WriteOn(t, r, d)
  PROVE  WriteEffect(t, r, d)
<1> DEFINE i == r.item
           c == counter[i[2]] + 1
           w == [r EXCEPT !.stage = "written", !.via = d, !.counter = c,
                          !.session = session[d][i[2]]]
           kinds == {"write_result", "readback"}
                       \cup IF d = In THEN {"write_sent"} ELSE {}
           new(ok) == {[direction |-> d, peer |-> i[2], counter |-> c,
                        kind |-> kind, ok |-> ok] : kind \in kinds}
<1>1. i \in Items /\ i[1] \in Limits /\ i[2] \in Peers
  BY ItemParts
<1>2. c \in Nat /\ session[d][i[2]] \in Nat
  BY <1>1 DEF TypeOK
<1>3. /\ session[d][i[2]] # 0
      /\ counter' = [counter EXCEPT ![i[2]] = c]
      /\ Run(t, w)
      /\ \E ok \in BOOLEAN :
           /\ answers' = answers \cup new(ok)
           /\ verdicts' = verdicts \cup {<<i[1], i[2], ok>>}
  BY DEF WriteOn
<1>4. kinds \subseteq {"write_sent", "write_result", "readback"}
  OBVIOUS
<1>5. /\ w \in TaskRecords /\ w.stage = "written" /\ w.item = i
      /\ w.items = r.items /\ w.via = d /\ w.counter = c
      /\ w.session = session[d][i[2]]
  BY <1>1, <1>2 DEF TaskRecords, TaskStages
<1> HIDE DEF c, w, kinds
<1>6. /\ task' \in [Tasks -> TaskRecords] /\ task'[t] = w
      /\ \A u \in Tasks : u # t => task'[u] = task[u]
  BY <1>3, <1>5, TaskMoves
<1>7. /\ counter' \in [Peers -> Nat] /\ counter'[i[2]] = c
      /\ \A p \in Peers : p # i[2] => counter'[p] = counter[p]
  BY <1>1, <1>2, <1>3 DEF TypeOK
<1>8. PICK ok \in BOOLEAN :
        /\ answers' = answers \cup new(ok)
        /\ verdicts' = verdicts \cup {<<i[1], i[2], ok>>}
  BY <1>3
<1>9. /\ new(ok) \subseteq Answers
      /\ \A a \in new(ok) : a.peer = i[2] /\ a.counter = c /\ a.ok = ok
  BY <1>1, <1>2, <1>4 DEF Answers
<1> HIDE DEF new
<1>10. /\ answers \subseteq answers' /\ answers' \subseteq Answers
       /\ \A a \in answers' \ answers :
            a.peer = i[2] /\ a.counter = c /\ a.ok = ok
  BY <1>8, <1>9 DEF TypeOK
<1> QED
  BY <1>3, <1>5, <1>6, <1>7, <1>8, <1>10 DEF WriteEffect, c

(* What can become of the delivery r.item of task t: a write is out, a     *)
(* send is on its way and has not written, or the delivery is settled and  *)
(* the task goes on.                                                       *)
Writes(t, r) ==
  /\ \E d \in {In, Out} : WriteEffect(t, r, d)
  /\ UNCHANGED delivery

Waits(t, r) ==
  /\ task' \in [Tasks -> TaskRecords]
  /\ \A u \in Tasks : u # t => task'[u] = task[u]
  /\ task'[t].item = r.item /\ task'[t].items = r.items
  /\ \/ task'[t].stage = "server"
     \/ /\ task'[t].stage = "client"
        /\ session[Out][r.item[2]] # 0
        /\ task'[t].session = session[Out][r.item[2]]
  /\ UNCHANGED <<delivery, counter, remote>>

Settles(t, r) ==
  /\ task' \in [Tasks -> TaskRecords] /\ task'[t] = Proceed(r)
  /\ \A u \in Tasks : u # t => task'[u] = task[u]
  /\ \E s \in {"failed", "pending"} :
       /\ SetStatus(r.item[1], r.item[2], s)
       /\ s = "pending" => ~Reachable(r.item[2])
  /\ UNCHANGED <<counter, remote>>

(* A step of work on a delivery: the task is not idle, nothing falls off   *)
(* its list but the delivery r.item.                                       *)
Work(t) ==
  /\ task[t].stage # "idle"
  /\ \E r \in TaskRecords :
       /\ r.item \in Items
       /\ \A i : Working(task[t], i) => i = r.item \/ i \in r.items
       /\ Writes(t, r) \/ Waits(t, r) \/ Settles(t, r)
  /\ UNCHANGED <<limit, due, session, dialed, discovered, sessions, maps,
                 thread>>

(* The outbound half of a send does one of the three.                      *)
LEMMA ClientOutcome ==
  ASSUME TypeOK, NEW t \in Tasks, NEW r \in TaskRecords, r.item \in Items,
         TryClient(t, r)
  PROVE  Writes(t, r) \/ Waits(t, r) \/ Settles(t, r)
<1> DEFINE n == r.item[1]
           p == r.item[2]
           usable == Running /\ session[Out][p] # 0 /\ discovered[p]
           w == [r EXCEPT !.stage = "client", !.via = Out,
                          !.session = session[Out][p]]
<1>1. CASE usable /\ WriteOn(t, r, Out) /\ UNCHANGED delivery
  BY <1>1, WriteHasEffect DEF Writes
<1>2. CASE /\ usable /\ Run(t, w)
           /\ UNCHANGED <<delivery, counter, remote>>
  <2>1. session[Out][p] \in Nat
    BY ItemParts DEF TypeOK
  <2>2. /\ w \in TaskRecords /\ w.stage = "client" /\ w.item = r.item
        /\ w.items = r.items /\ w.session = session[Out][p]
    BY <2>1 DEF TaskRecords, TaskStages
  <2> HIDE DEF w
  <2>3. /\ task' \in [Tasks -> TaskRecords] /\ task'[t] = w
        /\ \A u \in Tasks : u # t => task'[u] = task[u]
    BY <1>2, <2>2, TaskMoves
  <2> QED BY <1>2, <2>2, <2>3 DEF Waits
<1>3. CASE /\ Run(t, Proceed(r))
           /\ SetStatus(n, p, IF usable THEN "failed" ELSE "pending")
           /\ UNCHANGED <<counter, remote>>
  <2>1. /\ task' \in [Tasks -> TaskRecords] /\ task'[t] = Proceed(r)
        /\ \A u \in Tasks : u # t => task'[u] = task[u]
    BY <1>3, RestingTasks, TaskMoves
  <2>2. \E s \in {"failed", "pending"} :
          SetStatus(n, p, s) /\ (s = "pending" => ~Reachable(p))
    <3>1. CASE usable
      BY <1>3, <3>1
    <3>2. CASE ~usable
      BY <1>3, <3>2 DEF Reachable
    <3> QED BY <3>1, <3>2
  <2> QED BY <1>3, <2>1, <2>2 DEF Settles
<1> QED BY <1>1, <1>2, <1>3 DEF TryClient

(* A task sends the next delivery of its list.                             *)
LEMMA SendWorks ==
  ASSUME TypeOK, NEW t \in Tasks, Send(t)
  PROVE  Work(t)
<1>1. task[t] \in TaskRecords /\ task[t].stage = "next"
  BY DEF TypeOK, Send
<1>2. PICK i \in task[t].items :
        LET r == [task[t] EXCEPT !.items = @ \ {i}, !.item = i] IN
        IF In \in Directions /\ Running
        THEN /\ \/ WriteOn(t, r, In)
                \/ /\ Run(t, [r EXCEPT !.stage = "server"])
                   /\ UNCHANGED <<counter, remote>>
             /\ UNCHANGED delivery
        ELSE TryClient(t, r)
  BY DEF Send
<1> DEFINE r == [task[t] EXCEPT !.items = @ \ {i}, !.item = i]
           w == [r EXCEPT !.stage = "server"]
<1>3. i \in Items
  BY <1>1 DEF TaskRecords
<1>4. /\ r \in TaskRecords /\ r.item = i
      /\ r.items = task[t].items \ {i}
  BY <1>1, <1>3 DEF TaskRecords
<1>5. /\ w \in TaskRecords /\ w.stage = "server" /\ w.item = i
      /\ w.items = r.items
  BY <1>1, <1>3 DEF TaskRecords, TaskStages
<1>6. \A j : Working(task[t], j) => j = i \/ j \in r.items
  BY <1>1, <1>4 DEF Working
<1>7. \/ WriteOn(t, r, In) /\ UNCHANGED delivery
      \/ Run(t, w) /\ UNCHANGED <<delivery, counter, remote>>
      \/ TryClient(t, r)
  BY <1>2
<1> HIDE DEF r, w
<1>8. Writes(t, r) \/ Waits(t, r) \/ Settles(t, r)
  <2>1. CASE WriteOn(t, r, In) /\ UNCHANGED delivery
    BY <1>3, <1>4, <2>1, WriteHasEffect DEF Writes
  <2>2. CASE Run(t, w) /\ UNCHANGED <<delivery, counter, remote>>
    <3>1. /\ task' \in [Tasks -> TaskRecords] /\ task'[t] = w
          /\ \A u \in Tasks : u # t => task'[u] = task[u]
      BY <1>5, <2>2, TaskMoves
    <3> QED BY <1>4, <1>5, <2>2, <3>1 DEF Waits
  <2> QED BY <1>3, <1>4, <1>7, <2>1, <2>2, ClientOutcome
<1> QED BY <1>1, <1>3, <1>4, <1>6, <1>8 DEF Work, Send

(* The server's send fails and the client is tried.                        *)
LEMMA ServerFailureWorks ==
  ASSUME TypeOK, NEW t \in Tasks, ServerFails(t)
  PROVE  Work(t)
<1> DEFINE r == [task[t] EXCEPT !.counter = 0]
<1>1. task[t].stage \in {"server", "written"} /\ TryClient(t, r)
  BY DEF ServerFails
<1>2. task[t] \in TaskRecords /\ task[t].item \in Items
  BY <1>1 DEF TypeOK
<1>3. /\ r \in TaskRecords /\ r.item = task[t].item
      /\ r.items = task[t].items
  BY <1>2 DEF TaskRecords
<1> HIDE DEF r
<1>4. Writes(t, r) \/ Waits(t, r) \/ Settles(t, r)
  BY <1>1, <1>2, <1>3, ClientOutcome
<1>5. \A j : Working(task[t], j) => j = r.item \/ j \in r.items
  BY <1>1, <1>3 DEF Working
<1> QED BY <1>1, <1>2, <1>3, <1>4, <1>5 DEF Work, ServerFails

(* The client's send raises.  It is retried only when the session is gone, *)
(* and then the peer has none, for it had one only in this run.            *)
LEMMA ClientFailureWorks ==
  ASSUME TypeOK, SendsInRun, NEW t \in Tasks, ClientFails(t)
  PROVE  Work(t)
<1> DEFINE r == task[t]
           n == r.item[1]
           p == r.item[2]
<1>1. /\ r.stage \in {"client", "written"} /\ r.via = Out
      /\ \/ session[Out][p] # r.session /\ SetStatus(n, p, "pending")
         \/ SetStatus(n, p, "failed")
      /\ Run(t, Proceed(r))
      /\ UNCHANGED <<counter, remote>>
  BY DEF ClientFails, links
<1>2. r \in TaskRecords /\ r.item \in Items
  BY <1>1 DEF TypeOK
<1>3. session[Out][p] \in {0, r.session}
  BY <1>1 DEF SendsInRun
<1>4. /\ task' \in [Tasks -> TaskRecords] /\ task'[t] = Proceed(r)
      /\ \A u \in Tasks : u # t => task'[u] = task[u]
  BY <1>1, <1>2, RestingTasks, TaskMoves
<1>5. \E s \in {"failed", "pending"} :
        SetStatus(n, p, s) /\ (s = "pending" => ~Reachable(p))
  BY <1>1, <1>3 DEF Reachable
<1>6. Settles(t, r)
  BY <1>1, <1>4, <1>5 DEF Settles
<1>7. \A j : Working(task[t], j) => j = r.item \/ j \in r.items
  BY DEF Working
<1> QED
  BY <1>1, <1>2, <1>6, <1>7 DEF Work, ClientFails, links

-----------------------------------------------------------------------------
(* The other steps *)

(* A new limit: its row and its deliveries, and what becomes of the rows   *)
(* it replaces.                                                            *)
ReceiveEffect(n) ==
  /\ limit' \in [Limits -> LimitRows]
  /\ limit'[n].status = "active" => limit'[n].command
  /\ delivery' \in [Limits -> [Participants -> Statuses]]
  /\ \A p \in Peers : delivery'[n][p] = "pending"
  /\ \A m \in Limits : m # n =>
       /\ limit'[m].status = "active" => limit[m].status = "active"
       /\ limit'[m].command = limit[m].command
       /\ limit'[m].source = limit[m].source
       /\ delivery'[m] = delivery[m]
  /\ \/ limit'[n].source = "peer" /\ handler = 0 /\ handler' = n
     \/ limit'[n].source = "rest" /\ handler' = handler
  /\ UNCHANGED <<mode, due, task, stops, links, maps, remote>>

(* Receive has that effect.                                                *)
LEMMA ReceiveHasEffect ==
  ASSUME TypeOK, Receive
  PROVE  \E n \in Limits : ReceiveEffect(n)
<1>1. PICK n \in Limits, k \in Keys, command \in BOOLEAN,
           source \in Sources,
           native \in [Native -> {"acknowledged", "failed",
                                  "not_deliverable", "pending"}] :
        /\ Arrived = 1 .. (n - 1)
        /\ source = "peer" => Running /\ LoopFree
        /\ limit' = Replace(n,
                     [status |-> IF command THEN "active" ELSE "inactive",
                      command |-> command, key |-> k, source |-> source])
        /\ delivery' = [delivery EXCEPT ![n] =
             [p \in Participants |->
                IF p \in Peers THEN "pending" ELSE native[p]]]
        /\ handler' = IF source = "peer" THEN n ELSE handler
        /\ UNCHANGED <<mode, due, task, stops, links, maps, remote>>
  BY Zenon DEF Receive
<1> DEFINE row == [status |-> IF command THEN "active" ELSE "inactive",
                   command |-> command, key |-> k, source |-> source]
           new == [p \in Participants |->
                     IF p \in Peers THEN "pending" ELSE native[p]]
<1>2. source \in {"peer", "rest"}
  BY ConstantsAssumption
<1>3. /\ row \in LimitRows /\ row.source = source
      /\ row.status = "active" => row.command
  BY <1>2 DEF LimitRows
<1>4. new \in [Participants -> Statuses] /\ \A p \in Peers : new[p] = "pending"
  BY DEF Participants, Statuses
<1>5. limit' = Replace(n, row) /\ delivery' = [delivery EXCEPT ![n] = new]
  BY <1>1
<1> HIDE DEF row, new
<1>6. /\ limit' \in [Limits -> LimitRows] /\ limit'[n] = row
      /\ \A m \in Limits : m # n =>
           /\ limit'[m].status = "active" => limit[m].status = "active"
           /\ limit'[m].command = limit[m].command
           /\ limit'[m].source = limit[m].source
  <2> SUFFICES ASSUME NEW m \in Limits
               PROVE  /\ limit'[m] \in LimitRows
                      /\ m = n => limit'[m] = row
                      /\ m # n =>
                           /\ limit'[m].status = "active" =>
                                limit[m].status = "active"
                           /\ limit'[m].command = limit[m].command
                           /\ limit'[m].source = limit[m].source
    BY <1>5 DEF Replace
  <2>1. limit[m] \in LimitRows
    BY DEF TypeOK
  <2>2. limit'[m] = IF m = n THEN row
                    ELSE IF limit[m].status = "active"
                              /\ limit[m].key = row.key
                    THEN [limit[m] EXCEPT !.status = "inactive"] ELSE limit[m]
    BY <1>5 DEF Replace
  <2> QED BY <1>3, <2>1, <2>2 DEF LimitRows
<1>7. /\ delivery' \in [Limits -> [Participants -> Statuses]]
      /\ delivery'[n] = new
      /\ \A m \in Limits : m # n => delivery'[m] = delivery[m]
  BY <1>4, <1>5 DEF TypeOK
<1>8. \/ source = "peer" /\ handler = 0 /\ handler' = n
      \/ source = "rest" /\ handler' = handler
  BY <1>1, <1>2 DEF LoopFree
<1>9. UNCHANGED <<mode, due, task, stops, links, maps, remote>>
  BY DEF Receive
<1>10. ReceiveEffect(n)
  BY <1>3, <1>4, <1>6, <1>7, <1>8, <1>9 DEF ReceiveEffect
<1> QED BY <1>10

(* A limit that expires ends; nothing else about the limits changes.       *)
LEMMA ExpiryEndsOne ==
  ASSUME TypeOK, Expire
  PROVE  /\ limit' \in [Limits -> LimitRows]
         /\ \A m \in Limits :
              /\ limit'[m].status = "active" => limit[m].status = "active"
              /\ limit'[m].command = limit[m].command
              /\ limit'[m].source = limit[m].source
<1>1. PICK n \in Limits : limit' = [limit EXCEPT ![n].status = "inactive"]
  BY DEF Expire
<1>2. limit' = [limit EXCEPT ![n] = [limit[n] EXCEPT !.status = "inactive"]]
  BY <1>1
<1> SUFFICES ASSUME NEW m \in Limits
             PROVE  /\ limit'[m] \in LimitRows
                    /\ limit'[m].status = "active" =>
                         limit[m].status = "active"
                    /\ limit'[m].command = limit[m].command
                    /\ limit'[m].source = limit[m].source
  BY <1>2 DEF TypeOK
<1>3. limit[m] \in LimitRows
  BY DEF TypeOK
<1>4. limit'[m] = IF m = n THEN [limit[m] EXCEPT !.status = "inactive"]
                  ELSE limit[m]
  BY <1>2 DEF TypeOK
<1> QED BY <1>3, <1>4 DEF LimitRows

(* A task that waited in the queue starts, and all the rest stays.         *)
LEMMA StartHasEffect ==
  ASSUME TypeOK, NEW t \in Tasks, StartForward(t) \/ StartRetry(t)
  PROVE  /\ task' \in [Tasks -> TaskRecords]
         /\ task[t].stage = "idle" /\ task'[t].stage = "next"
         /\ \A u \in Tasks : u # t => task'[u] = task[u]
         /\ \A n \in Limits : Head(due) = ForwardTask(n) =>
              \A p \in Peers : <<n, p>> \in task'[t].items
         /\ \A p \in Peers : Head(due) = RetryTask(p) =>
              \A n \in Retryable(p) : <<n, p>> \in task'[t].items
         /\ Running /\ due # <<>> /\ due' = Tail(due)
         /\ UNCHANGED <<limit, delivery, links, maps, remote, thread>>
<1>1. /\ Running /\ task[t].stage = "idle" /\ due # <<>> /\ due' = Tail(due)
      /\ UNCHANGED <<limit, delivery, links, maps, remote, thread>>
  BY DEF StartForward, StartRetry, StartTask
<1>2. Head(due) \in DueTasks
  BY <1>1, RestIsDue DEF TypeOK
<1>3. CASE StartForward(t)
  <2> DEFINE items == {Head(due).limit} \X Peers
             w == [IdleTask EXCEPT !.stage = "next", !.items = items]
  <2>1. Head(due).kind = "forward" /\ Run(t, w)
    BY <1>3 DEF StartForward
  <2>2. items \subseteq Items
    BY <1>2, <2>1 DEF DueTasks, Items
  <2>3. /\ \A n \in Limits : Head(due) = ForwardTask(n) =>
             \A p \in Peers : <<n, p>> \in items
        /\ \A p \in Peers : Head(due) # RetryTask(p)
    BY <2>1 DEF ForwardTask, RetryTask
  <2> HIDE DEF items
  <2>4. w \in TaskRecords /\ w.stage = "next" /\ w.items = items
    BY <2>2, RestingTasks DEF TaskRecords, TaskStages
  <2> HIDE DEF w
  <2>5. /\ task' \in [Tasks -> TaskRecords] /\ task'[t] = w
        /\ \A u \in Tasks : u # t => task'[u] = task[u]
    BY <2>1, <2>4, TaskMoves
  <2> QED BY <1>1, <2>3, <2>4, <2>5
<1>4. CASE StartRetry(t)
  <2> DEFINE items == Retryable(Head(due).peer) \X {Head(due).peer}
             w == [IdleTask EXCEPT !.stage = "next", !.items = items]
  <2>1. Head(due).kind = "retry" /\ Run(t, w)
    BY <1>4 DEF StartRetry
  <2>2. items \subseteq Items
    BY <1>2, <2>1 DEF DueTasks, Items, Retryable
  <2>3. /\ \A n \in Limits : Head(due) # ForwardTask(n)
        /\ \A p \in Peers : Head(due) = RetryTask(p) =>
             \A n \in Retryable(p) : <<n, p>> \in items
    BY <2>1 DEF ForwardTask, RetryTask
  <2> HIDE DEF items
  <2>4. w \in TaskRecords /\ w.stage = "next" /\ w.items = items
    BY <2>2, RestingTasks DEF TaskRecords, TaskStages
  <2> HIDE DEF w
  <2>5. /\ task' \in [Tasks -> TaskRecords] /\ task'[t] = w
        /\ \A u \in Tasks : u # t => task'[u] = task[u]
    BY <2>1, <2>4, TaskMoves
  <2> QED BY <1>1, <2>3, <2>4, <2>5
<1> QED BY <1>3, <1>4

(* What a registered write leaves in a map: its own entry, and old ones of *)
(* other counters.                                                         *)
LEMMA PutEntries ==
  ASSUME NEW m \in SUBSET Entries, NEW i \in Items, NEW c \in Nat
  PROVE  /\ Put(m, i[2], c, i) \subseteq Entries
         /\ \A e \in Put(m, i[2], c, i) :
              \/ e \in m
              \/ e.peer = i[2] /\ e.counter = c /\ e.item = i
BY ItemParts DEF Put, Entries

(* An answer that is handled goes; it may settle one delivery that a map   *)
(* knows, and asks for a retry at most.                                    *)
LEMMA AnswerHasEffect ==
  ASSUME TypeOK, WritesMatch, Answer
  PROVE  /\ LoopFree
         /\ answers' \subseteq answers /\ writes' \subseteq writes
         /\ readbacks' \subseteq readbacks
         /\ \/ UNCHANGED delivery
            \/ \E i \in Items : \E s \in Statuses :
                 /\ SetStatus(i[1], i[2], s)
                 /\ \/ s = "readback_confirmed"
                    \/ s = "sent" /\ Written(i, verdicts)
                    \/ s = "acknowledged" /\ <<i[1], i[2], TRUE>> \in verdicts
                    \/ s = "rejected" /\ <<i[1], i[2], FALSE>> \in verdicts
         /\ UNCHANGED due \/ \E p \in Peers : due' = Append(due, RetryTask(p))
         /\ UNCHANGED <<limit, task, verdicts, links, thread>>
<1>1. PICK a \in answers :
        /\ answers' = answers \ {a}
        /\ LET known(m) == {e \in m : e.peer = a.peer /\ e.counter = a.counter}
           IN CASE a.kind = "write_sent" ->
                     /\ UNCHANGED maps
                     /\ IF known(writes) = {} THEN UNCHANGED delivery
                        ELSE \E e \in known(writes) :
                               SetStatus(e.item[1], a.peer, "sent")
                [] a.kind = "write_result" ->
                     /\ writes' = writes \ known(writes)
                     /\ UNCHANGED readbacks
                     /\ IF known(writes) = {} THEN UNCHANGED delivery
                        ELSE \E e \in known(writes) :
                               SetStatus(e.item[1], a.peer, ResultStatus(a.ok))
                [] a.kind = "readback" ->
                     /\ readbacks' = readbacks \ known(readbacks)
                     /\ UNCHANGED writes
                     /\ IF known(readbacks) = {} THEN UNCHANGED delivery
                        ELSE \E e \in known(readbacks) :
                               SetStatus(e.item[1], a.peer,
                                         "readback_confirmed")
        /\ due' = IF a.direction = Out /\ Running
                  THEN Append(due, RetryTask(a.peer)) ELSE due
  BY DEF Answer
<1> DEFINE known(m) == {e \in m : e.peer = a.peer /\ e.counter = a.counter}
<1>2. /\ a.peer \in Peers /\ a.ok \in BOOLEAN
      /\ a.kind \in {"write_sent", "write_result", "readback"}
  BY DEF TypeOK, Answers
<1>3. ASSUME NEW e \in known(writes)
      PROVE  /\ e.item \in Items /\ e.item[2] = a.peer
             /\ Written(e.item, verdicts)
             /\ <<e.item[1], e.item[2], a.ok>> \in verdicts
  BY <1>3 DEF TypeOK, Entries, WritesMatch, Matched
<1>4. ASSUME NEW e \in known(readbacks)
      PROVE  \E i \in Items : i[1] = e.item[1] /\ i[2] = a.peer
  <2>1. e.item[1] \in Limits
    BY <1>4, ItemParts DEF TypeOK, Entries
  <2>2. <<e.item[1], a.peer>> \in Items
    BY <1>2, <2>1 DEF Items
  <2> QED BY <2>2
<1>5. /\ writes' \subseteq writes /\ readbacks' \subseteq readbacks
      /\ \/ UNCHANGED delivery
         \/ \E i \in Items : \E s \in Statuses :
              /\ SetStatus(i[1], i[2], s)
              /\ \/ s = "readback_confirmed"
                 \/ s = "sent" /\ Written(i, verdicts)
                 \/ s = "acknowledged" /\ <<i[1], i[2], TRUE>> \in verdicts
                 \/ s = "rejected" /\ <<i[1], i[2], FALSE>> \in verdicts
  <2>1. CASE a.kind = "write_sent"
    <3>1. UNCHANGED maps
      BY <1>1, <2>1
    <3>2. \/ UNCHANGED delivery
          \/ \E e \in known(writes) : SetStatus(e.item[1], a.peer, "sent")
      BY <1>1, <2>1
    <3> QED BY <1>3, <3>1, <3>2 DEF maps, Statuses
  <2>2. CASE a.kind = "write_result"
    <3>1. writes' \subseteq writes /\ UNCHANGED readbacks
      BY <1>1, <2>2
    <3>2. \/ UNCHANGED delivery
          \/ \E e \in known(writes) :
               SetStatus(e.item[1], a.peer, ResultStatus(a.ok))
      BY <1>1, <2>2
    <3>3. /\ a.ok = TRUE => ResultStatus(a.ok) = "acknowledged"
          /\ a.ok = FALSE => ResultStatus(a.ok) = "rejected"
      BY DEF ResultStatus
    <3> QED BY <1>2, <1>3, <3>1, <3>2, <3>3 DEF Statuses
  <2>3. CASE a.kind = "readback"
    <3>1. readbacks' \subseteq readbacks /\ UNCHANGED writes
      BY <1>1, <2>3
    <3>2. \/ UNCHANGED delivery
          \/ \E e \in known(readbacks) :
               SetStatus(e.item[1], a.peer, "readback_confirmed")
      BY <1>1, <2>3
    <3> QED BY <1>4, <3>1, <3>2 DEF Statuses
  <2> QED BY <1>2, <2>1, <2>2, <2>3
<1> QED BY <1>1, <1>2, <1>5 DEF Answer

(* The steps a proof has to look at, by their effects.                     *)
LEMMA StepKinds ==
  ASSUME TypeOK, SendsInRun, [Next]_vars
  PROVE  \/ \E n \in Limits : ReceiveEffect(n)
         \/ Forward \/ Expire
         \/ \E t \in Tasks : StartForward(t) \/ StartRetry(t)
         \/ \E t \in Tasks : FinishTask(t) \/ Work(t) \/ Register(t)
         \/ Answer
         \/ Connect \/ (\E p \in Peers : Discover(p)) \/ Disconnect
         \/ Stop \/ ThreadEnds \/ Crash \/ Start
         \/ UNCHANGED vars
<1>1. ASSUME NEW t \in Tasks, TaskStep(t)
      PROVE  FinishTask(t) \/ Work(t) \/ Register(t)
  BY <1>1, SendWorks, ServerFailureWorks, ClientFailureWorks DEF TaskStep
<1>2. CASE Receive
  BY <1>2, ReceiveHasEffect
<1>3. CASE \E t \in Tasks : StartForward(t) \/ StartRetry(t) \/ TaskStep(t)
  BY <1>1, <1>3
<1>4. CASE Done
  BY <1>4 DEF Done
<1> QED BY <1>2, <1>3, <1>4 DEF Next

-----------------------------------------------------------------------------
(* Types *)

(* The sessions of a connection, of a disconnection and of none.           *)
LEMMA SessionTypes ==
  ASSUME TypeOK
  PROVE  /\ NoSessions \in [{In, Out} -> [Peers -> Nat]]
         /\ \A p \in Peers : NoSessions[Out][p] = 0
         /\ [p \in Peers |-> FALSE] \in [Peers -> BOOLEAN]
         /\ \A d \in {In, Out}, p \in Peers, k \in Nat :
              [session EXCEPT ![d][p] = k] \in [{In, Out} -> [Peers -> Nat]]
         /\ \A p \in Peers, b \in BOOLEAN :
              [discovered EXCEPT ![p] = b] \in [Peers -> BOOLEAN]
BY DEF TypeOK, NoSessions

(* Init has the types.                                                     *)
LEMMA TypeInit == Init => TypeOK
<1> SUFFICES ASSUME Init PROVE TypeOK
  OBVIOUS
<1>1. limit \in [Limits -> LimitRows]
  <2>1. (CHOOSE k \in Keys : TRUE) \in Keys
    BY ConstantsAssumption
  <2> QED BY <2>1 DEF Init, LimitRows
<1>2. delivery \in [Limits -> [Participants -> Statuses]]
  BY DEF Init, Statuses
<1>3. /\ task \in [Tasks -> TaskRecords]
      /\ \A t \in Tasks : task[t].stage = "idle"
  BY RestingTasks DEF Init
<1>4. /\ session \in [{In, Out} -> [Peers -> Nat]]
      /\ discovered \in [Peers -> BOOLEAN] /\ counter \in [Peers -> Nat]
  BY DEF Init, NoSessions
<1>5. handler \in 0 .. MaxLimits /\ due \in Seq(DueTasks)
  BY ConstantsAssumption DEF Init
<1> QED BY <1>1, <1>2, <1>3, <1>4, <1>5 DEF Init, TypeOK

(* Every step keeps the types.                                             *)
LEMMA TypeStep ==
  ASSUME TypeOK, SendsInRun, WritesMatch, [Next]_vars
  PROVE  TypeOK'
<1>1. CASE \E n \in Limits : ReceiveEffect(n)
  BY <1>1, ConstantsAssumption
     DEF ReceiveEffect, TypeOK, Limits, links, maps, remote
<1>2. CASE Forward
  <2>1. handler \in Limits
    BY <1>2 DEF Forward, TypeOK, Limits
  <2>2. /\ due' \in Seq(DueTasks)
        /\ delivery' \in [Limits -> [Participants -> Statuses]]
    <3>1. CASE Running
      <4>1. ForwardTask(handler) \in DueTasks
        BY <2>1 DEF ForwardTask, DueTasks
      <4> QED BY <1>2, <3>1, <4>1, AppendedIsDue DEF Forward, TypeOK
    <3>2. CASE ~Running
      <4>1. [p \in Participants |-> "failed"] \in [Participants -> Statuses]
        BY DEF Statuses
      <4> QED BY <1>2, <2>1, <3>2, <4>1 DEF Forward, TypeOK
    <3> QED BY <3>1, <3>2
  <2>3. handler' \in 0 .. MaxLimits
    BY <1>2, ConstantsAssumption DEF Forward
  <2> QED BY <1>2, <2>2, <2>3 DEF Forward, TypeOK, links, maps, remote
<1>3. CASE Expire
  BY <1>3, ExpiryEndsOne
     DEF Expire, TypeOK, links, maps, remote, thread
<1>4. CASE \E t \in Tasks : StartForward(t) \/ StartRetry(t)
  <2>1. PICK t \in Tasks : StartForward(t) \/ StartRetry(t)
    BY <1>4
  <2>2. due' \in Seq(DueTasks)
    BY <2>1, StartHasEffect, RestIsDue DEF TypeOK
  <2>3. /\ task' \in [Tasks -> TaskRecords]
        /\ \A u \in Tasks :
             task'[u].stage \in {"idle", "next"} \/ task'[u].item \in Items
    BY <2>1, StartHasEffect DEF TypeOK
  <2>4. UNCHANGED <<limit, delivery, links, maps, remote, thread>>
    BY <2>1, StartHasEffect
  <2> QED BY <2>2, <2>3, <2>4 DEF TypeOK, links, maps, remote, thread
<1>5. ASSUME NEW t \in Tasks, FinishTask(t) PROVE TypeOK'
  <2>1. /\ task' \in [Tasks -> TaskRecords]
        /\ \A u \in Tasks :
             task'[u].stage \in {"idle", "next"} \/ task'[u].item \in Items
    <3>1. /\ task' \in [Tasks -> TaskRecords] /\ task'[t] = IdleTask
          /\ \A u \in Tasks : u # t => task'[u] = task[u]
      BY <1>5, RestingTasks, TaskMoves DEF FinishTask
    <3> QED BY <3>1, RestingTasks DEF TypeOK
  <2> QED BY <1>5, <2>1 DEF FinishTask, TypeOK, links, maps, remote, thread
<1>6. ASSUME NEW t \in Tasks, Work(t) PROVE TypeOK'
  <2>1. PICK r \in TaskRecords :
          r.item \in Items /\ (Writes(t, r) \/ Waits(t, r) \/ Settles(t, r))
    BY <1>6 DEF Work
  <2>2. r.item[1] \in Limits /\ r.item[2] \in Peers
    BY <2>1, ItemParts
  <2>3. /\ task' \in [Tasks -> TaskRecords]
        /\ \A u \in Tasks :
             task'[u].stage \in {"idle", "next"} \/ task'[u].item \in Items
        /\ delivery' \in [Limits -> [Participants -> Statuses]]
        /\ counter' \in [Peers -> Nat]
        /\ answers' \subseteq Answers
        /\ verdicts' \subseteq Limits \X Peers \X BOOLEAN
    <3>1. CASE Writes(t, r)
      <4>1. PICK d \in {In, Out} : WriteEffect(t, r, d)
        BY <3>1 DEF Writes
      <4>2. /\ task' \in [Tasks -> TaskRecords]
            /\ \A u \in Tasks : task'[u].stage \in {"idle", "next"}
                                 \/ task'[u].item \in Items
        BY <2>1, <4>1 DEF WriteEffect, TypeOK
      <4>3. counter' \in [Peers -> Nat] /\ answers' \subseteq Answers
        BY <4>1 DEF WriteEffect
      <4>4. \E ok \in BOOLEAN :
              verdicts' = verdicts \cup {<<r.item[1], r.item[2], ok>>}
        BY <4>1 DEF WriteEffect
      <4>5. verdicts' \subseteq Limits \X Peers \X BOOLEAN
        BY <2>2, <4>4 DEF TypeOK
      <4> QED BY <3>1, <4>2, <4>3, <4>5 DEF Writes, TypeOK
    <3>2. CASE Waits(t, r)
      BY <2>1, <3>2 DEF Waits, TypeOK, remote
    <3>3. CASE Settles(t, r)
      <4>1. PICK s \in {"failed", "pending"} :
              SetStatus(r.item[1], r.item[2], s)
        BY <3>3 DEF Settles
      <4>2. s \in Statuses /\ r.item[2] \in Participants
        BY <2>2 DEF Statuses, Participants
      <4>3. delivery' \in [Limits -> [Participants -> Statuses]]
        BY <2>2, <4>1, <4>2, StatusIsSet
      <4> QED BY <3>3, <4>3, RestingTasks DEF Settles, TypeOK, remote
    <3> QED BY <2>1, <3>1, <3>2, <3>3
  <2> QED BY <1>6, <2>3 DEF Work, TypeOK, maps, thread
<1>7. ASSUME NEW t \in Tasks, Register(t) PROVE TypeOK'
  <2> DEFINE i == task[t].item
             c == task[t].counter
  <2>1. /\ i \in Items /\ i[1] \in Limits /\ i[2] \in Peers /\ c \in Nat
        /\ task[t] \in TaskRecords
    BY <1>7, ItemParts DEF Register, TypeOK, TaskRecords
  <2>2. /\ writes' = Put(writes, i[2], c, i)
        /\ readbacks' = Put(readbacks, i[2], c, i)
        /\ SetStatus(i[1], i[2], "sent")
        /\ Run(t, Proceed(task[t]))
    BY <1>7 DEF Register
  <2> HIDE DEF i, c
  <2>3. writes' \subseteq Entries /\ readbacks' \subseteq Entries
    BY <2>1, <2>2, PutEntries DEF TypeOK
  <2>4. i[2] \in Participants /\ "sent" \in Statuses
    BY <2>1 DEF Participants, Statuses
  <2>5. delivery' \in [Limits -> [Participants -> Statuses]]
    BY <2>1, <2>2, <2>4, StatusIsSet
  <2>6. /\ task' \in [Tasks -> TaskRecords]
        /\ \A u \in Tasks :
             task'[u].stage \in {"idle", "next"} \/ task'[u].item \in Items
    <3>1. Proceed(task[t]) \in TaskRecords
          /\ Proceed(task[t]).stage = "next"
      BY <2>1, RestingTasks
    <3>2. /\ task' \in [Tasks -> TaskRecords]
          /\ task'[t] = Proceed(task[t])
          /\ \A u \in Tasks : u # t => task'[u] = task[u]
      BY <2>2, <3>1, TaskMoves
    <3> QED BY <3>1, <3>2 DEF TypeOK
  <2> QED
    BY <1>7, <2>3, <2>5, <2>6 DEF Register, TypeOK, links, remote, thread
<1>8. CASE Answer
  <2>1. delivery' \in [Limits -> [Participants -> Statuses]]
    <3>1. CASE UNCHANGED delivery
      BY <3>1 DEF TypeOK
    <3>2. ASSUME NEW i \in Items, NEW s \in Statuses,
                 SetStatus(i[1], i[2], s)
          PROVE  delivery' \in [Limits -> [Participants -> Statuses]]
      <4>1. i[1] \in Limits /\ i[2] \in Participants
        BY ItemParts DEF Participants
      <4> QED BY <3>2, <4>1, StatusIsSet
    <3> QED BY <1>8, <3>1, <3>2, AnswerHasEffect
  <2>2. due' \in Seq(DueTasks)
    <3>1. ASSUME NEW p \in Peers, due' = Append(due, RetryTask(p))
          PROVE  due' \in Seq(DueTasks)
      <4>1. RetryTask(p) \in DueTasks
        BY DEF RetryTask, DueTasks
      <4> QED BY <3>1, <4>1, AppendedIsDue DEF TypeOK
    <3> QED BY <1>8, <3>1, AnswerHasEffect DEF TypeOK
  <2>3. /\ answers' \subseteq Answers /\ writes' \subseteq Entries
        /\ readbacks' \subseteq Entries
        /\ UNCHANGED <<limit, task, verdicts, links, thread>>
    BY <1>8, AnswerHasEffect DEF TypeOK
  <2> QED BY <2>1, <2>2, <2>3 DEF TypeOK, links, thread
<1>9. CASE Connect
  <2>1. PICK d \in Directions, p \in Peers, found \in BOOLEAN :
          /\ session' = [session EXCEPT ![d][p] = sessions + 1]
          /\ dialed' = IF d = Out THEN dialed \cup {p} ELSE dialed
          /\ discovered' = IF d = Out THEN [discovered EXCEPT ![p] = found]
                           ELSE discovered
          /\ due' = ScheduleRetry(p)
    BY <1>9 DEF Connect
  <2>2. d \in {In, Out} /\ sessions + 1 \in Nat /\ sessions' = sessions + 1
    BY <1>9, ConstantsAssumption DEF TypeOK, In, Out, Connect
  <2>3. session' \in [{In, Out} -> [Peers -> Nat]]
    BY <2>1, <2>2, SessionTypes
  <2>4. discovered' \in [Peers -> BOOLEAN] /\ dialed' \subseteq Peers
    BY <2>1, SessionTypes DEF TypeOK
  <2>5. due' \in Seq(DueTasks)
    <3>1. RetryTask(p) \in DueTasks
      BY DEF RetryTask, DueTasks
    <3> QED BY <2>1, <3>1, AppendedIsDue DEF TypeOK, ScheduleRetry
  <2> QED BY <1>9, <2>2, <2>3, <2>4, <2>5
          DEF Connect, TypeOK, maps, remote, thread
<1>10. ASSUME NEW p \in Peers, Discover(p) PROVE TypeOK'
  <2>1. discovered' \in [Peers -> BOOLEAN]
    BY <1>10, SessionTypes DEF Discover
  <2>2. due' \in Seq(DueTasks)
    <3>1. RetryTask(p) \in DueTasks
      BY DEF RetryTask, DueTasks
    <3> QED BY <1>10, <3>1, AppendedIsDue DEF Discover, TypeOK, ScheduleRetry
  <2> QED BY <1>10, <2>1, <2>2 DEF Discover, TypeOK, maps, remote, thread
<1>11. CASE Disconnect
  <2>1. PICK d \in Directions, p \in Peers :
          /\ session' = [session EXCEPT ![d][p] = 0]
          /\ discovered' = IF d = Out THEN [discovered EXCEPT ![p] = FALSE]
                           ELSE discovered
          /\ answers' = {a \in answers : a.direction # d \/ a.peer # p}
    BY <1>11 DEF Disconnect
  <2>2. d \in {In, Out}
    BY ConstantsAssumption DEF In, Out
  <2>3. /\ session' \in [{In, Out} -> [Peers -> Nat]]
        /\ discovered' \in [Peers -> BOOLEAN]
    BY <2>1, <2>2, SessionTypes DEF TypeOK
  <2>4. answers' \subseteq Answers
    BY <2>1 DEF TypeOK
  <2> QED BY <1>11, <2>3, <2>4 DEF Disconnect, TypeOK, maps, thread
<1>12. CASE Stop
  <2>1. /\ session' \in [{In, Out} -> [Peers -> Nat]]
        /\ discovered' \in [Peers -> BOOLEAN]
    BY <1>12, SessionTypes DEF Stop
  <2>2. due' \in Seq(DueTasks) /\ answers' \subseteq Answers
    BY <1>12 DEF Stop
  <2> QED BY <1>12, <2>1, <2>2 DEF Stop, TypeOK, maps
<1>13. CASE ThreadEnds
  <2>1. /\ task' \in [Tasks -> TaskRecords]
        /\ \A u \in Tasks : task'[u].stage = "idle"
    BY <1>13, RestingTasks DEF ThreadEnds
  <2> QED BY <1>13, <2>1 DEF ThreadEnds, TypeOK, links, maps, remote
<1>14. CASE Crash
  <2>1. /\ task' \in [Tasks -> TaskRecords]
        /\ \A u \in Tasks : task'[u].stage = "idle"
    BY <1>14, RestingTasks DEF Crash
  <2> QED BY <1>14, <2>1, SessionTypes, ConstantsAssumption
          DEF Crash, TypeOK
<1>15. CASE Start
  BY <1>15 DEF Start, TypeOK, maps, remote
<1>16. CASE UNCHANGED vars
  BY <1>16 DEF vars, TypeOK
<1> QED
  BY <1>1, <1>2, <1>3, <1>4, <1>5, <1>6, <1>7, <1>8, <1>9, <1>10, <1>11,
     <1>12, <1>13, <1>14, <1>15, <1>16, StepKinds

-----------------------------------------------------------------------------
(* Writes and their answers *)

(* Nothing is lost of WritesMatch by a step that writes nothing: entries   *)
(* and answers may go, written tasks may end.                              *)
LEMMA MatchKept ==
  ASSUME TypeOK, WritesMatch, UNCHANGED <<counter, verdicts>>,
         answers' \subseteq answers, writes' \subseteq writes,
         \A t \in Tasks : task'[t].stage = "written" => task'[t] = task[t]
  PROVE  WritesMatch'
<1>1. \A i, c : Matched(i, c, answers, verdicts) =>
                Matched(i, c, answers', verdicts')
  BY DEF Matched
<1>2. \A i : Written(i, verdicts) => Written(i, verdicts')
  BY DEF Written
<1> QED BY <1>1, <1>2 DEF WritesMatch

(* A write with a new counter cannot be taken for an older one.            *)
LEMMA WriteMatches ==
  ASSUME TypeOK, WritesMatch, NEW t \in Tasks, NEW r \in TaskRecords,
         r.item \in Items, NEW d \in {In, Out}, WriteEffect(t, r, d),
         UNCHANGED maps
  PROVE  WritesMatch'
<1> DEFINE i == r.item
           c == counter[i[2]] + 1
<1>1. /\ i[1] \in Limits /\ i[2] \in Peers
      /\ \A p \in Peers : counter[p] \in Nat
  BY ItemParts DEF TypeOK
<1>2. /\ counter'[i[2]] = c
      /\ \A p \in Peers : p # i[2] => counter'[p] = counter[p]
      /\ task'[t].stage = "written" /\ task'[t].item = i
      /\ task'[t].counter = c
      /\ \A u \in Tasks : u # t => task'[u] = task[u]
  BY DEF WriteEffect
<1>3. PICK ok \in BOOLEAN :
        /\ verdicts' = verdicts \cup {<<i[1], i[2], ok>>}
        /\ \A a \in answers' \ answers :
             a.peer = i[2] /\ a.counter = c /\ a.ok = ok
  BY DEF WriteEffect
<1>4. \A p \in Peers : counter[p] <= counter'[p]
  BY <1>1, <1>2
<1>5. /\ \A a \in answers : a.peer \in Peers /\ a.counter \in Nat
      /\ \A e \in writes : e.peer \in Peers /\ e.counter \in Nat
      /\ \A u \in Tasks : task[u].stage = "written" =>
           task[u].item[2] \in Peers /\ task[u].counter \in Nat
  BY ItemParts DEF TypeOK, Answers, Entries, TaskRecords
<1>6. \A p \in Peers, k \in Nat : k <= counter[p] => k <= counter'[p]
  BY <1>1, <1>2, <1>4
<1>7. \A a \in answers' : a.counter <= counter'[a.peer]
  <2> SUFFICES ASSUME NEW a \in answers'
               PROVE  a.counter <= counter'[a.peer]
    OBVIOUS
  <2>1. CASE a \in answers
    BY <1>5, <1>6, <2>1 DEF WritesMatch
  <2>2. CASE a \notin answers
    BY <1>1, <1>2, <1>3, <2>2
  <2> QED BY <2>1, <2>2
<1>8. ASSUME NEW j, NEW k \in Nat, j[2] \in Peers, k <= counter[j[2]],
             Matched(j, k, answers, verdicts)
      PROVE  Matched(j, k, answers', verdicts')
  <2> SUFFICES ASSUME NEW a \in answers', a.peer = j[2], a.counter = k
               PROVE  <<j[1], j[2], a.ok>> \in verdicts'
    BY DEF Matched
  <2>1. a \in answers
    <3>1. CASE j[2] = i[2]
      BY <1>1, <1>3, <1>8, <3>1
    <3>2. CASE j[2] # i[2]
      BY <1>3, <3>2
    <3> QED BY <3>1, <3>2
  <2> QED BY <1>3, <1>8, <2>1 DEF Matched
<1>9. \A j : Written(j, verdicts) => Written(j, verdicts')
  BY <1>3 DEF Written
<1>10. Written(i, verdicts') /\ Matched(i, c, answers', verdicts')
  <2>1. Written(i, verdicts')
    BY <1>3 DEF Written
  <2>2. ASSUME NEW a \in answers', a.peer = i[2], a.counter = c
        PROVE  <<i[1], i[2], a.ok>> \in verdicts'
    <3>1. a \notin answers
      BY <1>1, <2>2 DEF WritesMatch
    <3> QED BY <1>3, <3>1
  <2> QED BY <2>1, <2>2 DEF Matched
<1> HIDE DEF i, c
<1>11. ASSUME NEW e \in writes'
       PROVE  /\ e.peer = e.item[2] /\ e.counter <= counter'[e.peer]
              /\ Written(e.item, verdicts')
              /\ Matched(e.item, e.counter, answers', verdicts')
  <2>1. e \in writes
    BY DEF maps
  <2>2. /\ e.peer = e.item[2] /\ e.counter <= counter[e.peer]
        /\ Written(e.item, verdicts)
        /\ Matched(e.item, e.counter, answers, verdicts)
    BY <2>1 DEF WritesMatch
  <2> QED BY <1>5, <1>6, <1>8, <1>9, <2>1, <2>2
<1>12. ASSUME NEW u \in Tasks, task'[u].stage = "written"
       PROVE  /\ task'[u].counter <= counter'[task'[u].item[2]]
              /\ Written(task'[u].item, verdicts')
              /\ Matched(task'[u].item, task'[u].counter, answers', verdicts')
  <2>1. CASE u = t
    BY <1>1, <1>2, <1>10, <2>1 DEF c
  <2>2. CASE u # t
    <3>1. task'[u] = task[u]
      BY <1>2, <2>2
    <3>2. /\ task[u].counter <= counter[task[u].item[2]]
          /\ Written(task[u].item, verdicts)
          /\ Matched(task[u].item, task[u].counter, answers, verdicts)
      BY <1>12, <3>1 DEF WritesMatch
    <3> QED BY <1>5, <1>6, <1>8, <1>9, <1>12, <3>1, <3>2
  <2> QED BY <2>1, <2>2
<1> QED BY <1>7, <1>11, <1>12 DEF WritesMatch

(* Every step keeps WritesMatch.                                           *)
LEMMA WritesMatchStep ==
  ASSUME TypeOK, SendsInRun, WritesMatch, [Next]_vars
  PROVE  WritesMatch'
<1>1. CASE \E n \in Limits : ReceiveEffect(n)
  BY <1>1, MatchKept DEF ReceiveEffect, links, maps, remote
<1>2. CASE Forward \/ Expire
  BY <1>2, MatchKept DEF Forward, Expire, links, maps, remote
<1>3. ASSUME NEW t \in Tasks, StartForward(t) \/ StartRetry(t)
      PROVE  WritesMatch'
  <2>1. \A u \in Tasks : task'[u].stage = "written" => task'[u] = task[u]
    BY <1>3, StartHasEffect
  <2> QED BY <1>3, <2>1, StartHasEffect, MatchKept DEF links, maps, remote
<1>4. ASSUME NEW t \in Tasks, FinishTask(t) PROVE WritesMatch'
  <2>1. \A u \in Tasks : task'[u].stage = "written" => task'[u] = task[u]
    BY <1>4, RestingTasks, TaskMoves DEF FinishTask
  <2> QED BY <1>4, <2>1, MatchKept DEF FinishTask, links, maps, remote
<1>5. ASSUME NEW t \in Tasks, Work(t) PROVE WritesMatch'
  <2>1. PICK r \in TaskRecords :
          r.item \in Items /\ (Writes(t, r) \/ Waits(t, r) \/ Settles(t, r))
    BY <1>5 DEF Work
  <2>2. UNCHANGED maps
    BY <1>5 DEF Work
  <2>3. CASE Writes(t, r)
    BY <2>1, <2>2, <2>3, WriteMatches DEF Writes
  <2>4. CASE Waits(t, r)
    <3>1. \A u \in Tasks : task'[u].stage = "written" => task'[u] = task[u]
      BY <2>4 DEF Waits
    <3> QED BY <2>2, <2>4, <3>1, MatchKept DEF Waits, maps, remote
  <2>5. CASE Settles(t, r)
    <3>1. \A u \in Tasks : task'[u].stage = "written" => task'[u] = task[u]
      BY <2>5, RestingTasks DEF Settles
    <3> QED BY <2>2, <2>5, <3>1, MatchKept DEF Settles, maps, remote
  <2> QED BY <2>1, <2>3, <2>4, <2>5
<1>6. ASSUME NEW t \in Tasks, Register(t) PROVE WritesMatch'
  <2> DEFINE i == task[t].item
             c == task[t].counter
  <2>1. /\ i \in Items /\ i[2] \in Peers /\ c \in Nat
        /\ task[t] \in TaskRecords /\ task[t].stage = "written"
    BY <1>6, ItemParts DEF Register, TypeOK, TaskRecords
  <2>2. /\ c <= counter[i[2]] /\ Written(i, verdicts)
        /\ Matched(i, c, answers, verdicts)
    BY <2>1 DEF WritesMatch
  <2>3. /\ writes' = Put(writes, i[2], c, i)
        /\ Run(t, Proceed(task[t]))
        /\ UNCHANGED <<counter, answers, verdicts>>
    BY <1>6 DEF Register, links, remote
  <2> HIDE DEF i, c
  <2>4. \A e \in writes' :
          \/ e \in writes
          \/ e.peer = i[2] /\ e.counter = c /\ e.item = i
    <3>1. writes \in SUBSET Entries
      BY DEF TypeOK
    <3>2. \A e \in Put(writes, i[2], c, i) :
            \/ e \in writes
            \/ e.peer = i[2] /\ e.counter = c /\ e.item = i
      BY <2>1, <3>1, PutEntries
    <3> QED BY <2>3, <3>2
  <2>5. Proceed(task[t]) \in TaskRecords /\ Proceed(task[t]).stage = "next"
    BY <2>1, RestingTasks
  <2>6. \A u \in Tasks : task'[u].stage = "written" => task'[u] = task[u]
    BY <2>3, <2>5, TaskMoves
  <2>7. /\ \A j, k : Matched(j, k, answers, verdicts) =>
                     Matched(j, k, answers', verdicts')
        /\ \A j : Written(j, verdicts) => Written(j, verdicts')
    BY <2>3 DEF Matched, Written
  <2>8. ASSUME NEW e \in writes'
        PROVE  /\ e.peer = e.item[2] /\ e.counter <= counter'[e.peer]
               /\ Written(e.item, verdicts')
               /\ Matched(e.item, e.counter, answers', verdicts')
    <3>1. CASE e \in writes
      BY <2>3, <2>7, <3>1 DEF WritesMatch
    <3>2. CASE e \notin writes
      BY <2>2, <2>3, <2>4, <2>7, <3>2
    <3> QED BY <3>1, <3>2
  <2>9. \A u \in Tasks : task'[u].stage = "written" =>
          /\ task'[u].counter <= counter'[task'[u].item[2]]
          /\ Written(task'[u].item, verdicts')
          /\ Matched(task'[u].item, task'[u].counter, answers', verdicts')
    BY <2>3, <2>6, <2>7 DEF WritesMatch
  <2> QED BY <2>3, <2>8, <2>9 DEF WritesMatch
<1>7. CASE Answer
  BY <1>7, AnswerHasEffect, MatchKept DEF links
<1>8. CASE Connect \/ (\E p \in Peers : Discover(p))
  BY <1>8, MatchKept DEF Connect, Discover, maps, remote
<1>9. CASE Disconnect \/ Stop
  BY <1>9, MatchKept DEF Disconnect, Stop, maps
<1>10. CASE ThreadEnds \/ Crash
  <2>1. \A u \in Tasks : task'[u].stage # "written"
    BY <1>10, RestingTasks DEF ThreadEnds, Crash
  <2> QED BY <1>10, <2>1, MatchKept
          DEF ThreadEnds, Crash, links, maps, remote
<1>11. CASE Start \/ UNCHANGED vars
  BY <1>11, MatchKept DEF Start, vars, maps, remote
<1> QED
  BY <1>1, <1>2, <1>3, <1>4, <1>5, <1>6, <1>7, <1>8, <1>9, <1>10, <1>11,
     StepKinds

-----------------------------------------------------------------------------
(* Sends and runs *)

(* What SendsInRun says of one task r, when the thread is in mode m, the   *)
(* outbound sessions are out and the peers of called were connected.       *)
SendInRun(r, m, out, called) ==
  /\ r.stage = "idle" => r.items = {}
  /\ m = "stopped" => r.stage = "idle"
  /\ r.stage \in {"client", "written"} /\ r.via = Out =>
       r.item[2] \in called /\ out[r.item[2]] \in {0, r.session}

(* A step that moves one task keeps SendsInRun if the task does.           *)
LEMMA OneSendMoves ==
  ASSUME SendsInRun, UNCHANGED <<mode, session, dialed>>, NEW t \in Tasks,
         SendInRun(task'[t], mode, session[Out], dialed),
         \A u \in Tasks : u # t => task'[u] = task[u]
  PROVE  SendsInRun'
<1>1. ASSUME NEW u \in Tasks
      PROVE  SendInRun(task'[u], mode, session[Out], dialed)
  BY DEF SendsInRun, SendInRun
<1> QED BY <1>1 DEF SendsInRun, SendInRun, Running

(* Every step keeps SendsInRun.                                            *)
LEMMA SendsInRunStep ==
  ASSUME TypeOK, SendsInRun, WritesMatch, [Next]_vars
  PROVE  SendsInRun'
<1>1. CASE UNCHANGED <<task, mode, session, dialed>>
  BY <1>1 DEF SendsInRun, Running
<1>2. CASE (\E n \in Limits : ReceiveEffect(n)) \/ Forward \/ Expire
  BY <1>1, <1>2 DEF ReceiveEffect, Forward, Expire, links, thread
<1>3. ASSUME NEW t \in Tasks, StartForward(t) \/ StartRetry(t)
      PROVE  SendsInRun'
  <2>1. /\ UNCHANGED <<mode, session, dialed>> /\ mode # "stopped"
        /\ task'[t].stage = "next"
        /\ \A u \in Tasks : u # t => task'[u] = task[u]
    BY <1>3, StartHasEffect DEF links, thread, Running
  <2> QED BY <2>1, OneSendMoves DEF SendInRun
<1>4. ASSUME NEW t \in Tasks, FinishTask(t) PROVE SendsInRun'
  <2>1. /\ UNCHANGED <<mode, session, dialed>> /\ task'[t] = IdleTask
        /\ \A u \in Tasks : u # t => task'[u] = task[u]
    BY <1>4, RestingTasks, TaskMoves DEF FinishTask, links, thread
  <2> QED BY <2>1, RestingTasks, OneSendMoves DEF SendInRun
<1>5. ASSUME NEW t \in Tasks, Work(t) PROVE SendsInRun'
  <2>1. PICK r \in TaskRecords :
          r.item \in Items /\ (Writes(t, r) \/ Waits(t, r) \/ Settles(t, r))
    BY <1>5 DEF Work
  <2>2. /\ UNCHANGED <<mode, session, dialed>> /\ mode # "stopped"
        /\ r.item[2] \in Peers
    BY <1>5, <2>1, ItemParts DEF Work, thread, SendsInRun
  <2>3. \A p \in Peers : session[Out][p] # 0 => p \in dialed
    BY DEF SendsInRun
  <2>4. SendInRun(task'[t], mode, session[Out], dialed)
    <3>1. CASE Writes(t, r)
      BY <2>2, <2>3, <3>1 DEF Writes, WriteEffect, SendInRun
    <3>2. CASE Waits(t, r)
      BY <2>2, <2>3, <3>2 DEF Waits, SendInRun
    <3>3. CASE Settles(t, r)
      BY <2>1, <2>2, <3>3, RestingTasks DEF Settles, SendInRun
    <3> QED BY <2>1, <3>1, <3>2, <3>3
  <2>5. \A u \in Tasks : u # t => task'[u] = task[u]
    BY <2>1 DEF Writes, WriteEffect, Waits, Settles
  <2> QED BY <2>2, <2>4, <2>5, OneSendMoves
<1>6. ASSUME NEW t \in Tasks, Register(t) PROVE SendsInRun'
  <2>1. /\ task[t] \in TaskRecords /\ Run(t, Proceed(task[t]))
        /\ UNCHANGED <<mode, session, dialed>> /\ mode # "stopped"
    BY <1>6 DEF Register, TypeOK, links, thread, LoopFree
  <2>2. /\ Proceed(task[t]) \in TaskRecords
        /\ Proceed(task[t]).stage = "next"
    BY <2>1, RestingTasks
  <2>3. /\ task'[t] = Proceed(task[t])
        /\ \A u \in Tasks : u # t => task'[u] = task[u]
    BY <2>1, <2>2, TaskMoves
  <2> QED BY <2>1, <2>2, <2>3, OneSendMoves DEF SendInRun
<1>7. CASE Answer
  BY <1>1, <1>7, AnswerHasEffect DEF links, thread
<1>8. CASE Connect
  <2>1. PICK d \in Directions, p \in Peers :
          /\ d = Out => p \notin dialed
          /\ session' = [session EXCEPT ![d][p] = sessions + 1]
          /\ dialed' = IF d = Out THEN dialed \cup {p} ELSE dialed
    BY <1>8 DEF Connect
  <2>2. d \in {In, Out} /\ Running /\ UNCHANGED <<task, mode>>
    BY <1>8, ConstantsAssumption DEF In, Out, Connect, thread
  <2>3. CASE d = Out
    <3>1. /\ dialed' = dialed \cup {p}
          /\ \A q \in Peers : q # p => session'[Out][q] = session[Out][q]
      BY <2>1, <2>3 DEF TypeOK
    <3>2. ASSUME NEW t \in Tasks,
                 task[t].stage \in {"client", "written"}, task[t].via = Out
          PROVE  /\ task[t].item[2] \in dialed
                 /\ session'[Out][task[t].item[2]] =
                      session[Out][task[t].item[2]]
      <4>1. task[t].item[2] \in Peers
        BY <3>2, ItemParts DEF TypeOK
      <4> QED BY <2>1, <2>3, <3>1, <3>2, <4>1 DEF SendsInRun
    <3> QED BY <2>2, <3>1, <3>2 DEF SendsInRun, Running
  <2>4. CASE d # Out
    <3>1. session'[Out] = session[Out] /\ dialed' = dialed
      BY <2>1, <2>2, <2>4 DEF TypeOK
    <3> QED BY <2>2, <3>1 DEF SendsInRun, Running
  <2> QED BY <2>3, <2>4
<1>9. CASE \E p \in Peers : Discover(p)
  BY <1>1, <1>9 DEF Discover, thread
<1>10. CASE Disconnect
  <2>1. \A p \in Peers : session'[Out][p] \in {0, session[Out][p]}
    BY <1>10, ConstantsAssumption DEF Disconnect, TypeOK, In, Out
  <2>2. \A t \in Tasks : task[t].stage \in {"client", "written"} =>
          task[t].item[2] \in Peers
    BY ItemParts DEF TypeOK
  <2> QED BY <1>10, <2>1, <2>2 DEF Disconnect, SendsInRun, thread, Running
<1>11. CASE Stop
  <2>1. \A p \in Peers : session'[Out][p] = 0
    BY <1>11, SessionTypes DEF Stop
  <2>2. \A t \in Tasks : task[t].stage \in {"client", "written"} =>
          task[t].item[2] \in Peers
    BY ItemParts DEF TypeOK
  <2> QED BY <1>11, <2>1, <2>2 DEF Stop, SendsInRun
<1>12. CASE ThreadEnds
  <2>1. \A t \in Tasks : task'[t] = IdleTask
    BY <1>12 DEF ThreadEnds
  <2> QED BY <1>12, <2>1, RestingTasks
          DEF ThreadEnds, SendsInRun, links, Running
<1>13. CASE Crash
  <2>1. \A t \in Tasks : task'[t] = IdleTask
    BY <1>13 DEF Crash
  <2>2. \A p \in Peers : session'[Out][p] = 0
    BY <1>13, SessionTypes DEF Crash
  <2> QED BY <2>1, <2>2, RestingTasks DEF SendsInRun
<1>14. CASE Start
  <2>1. /\ \A t \in Tasks : task[t].stage = "idle" /\ task[t].items = {}
        /\ \A p \in Peers : session[Out][p] = 0
    BY <1>14 DEF Start, SendsInRun, Running
  <2> QED BY <1>14, <2>1 DEF Start, SendsInRun
<1>15. CASE UNCHANGED vars
  BY <1>1, <1>15 DEF vars
<1> QED
  BY <1>2, <1>3, <1>4, <1>5, <1>6, <1>7, <1>8, <1>9, <1>10, <1>11, <1>12,
     <1>13, <1>14, <1>15, StepKinds

(* Only commands come into force.                                          *)
LEMMA ActiveIsCommandStep ==
  ASSUME TypeOK, SendsInRun, WritesMatch, ActiveIsCommand, [Next]_vars
  PROVE  ActiveIsCommand'
<1>1. CASE UNCHANGED limit
  BY <1>1 DEF ActiveIsCommand
<1>2. CASE \E n \in Limits : ReceiveEffect(n)
  BY <1>2 DEF ReceiveEffect, ActiveIsCommand
<1>3. CASE Expire
  BY <1>3, ExpiryEndsOne DEF ActiveIsCommand
<1>4. ASSUME NEW t \in Tasks, StartForward(t) \/ StartRetry(t)
      PROVE  UNCHANGED limit
  BY <1>4, StartHasEffect
<1>5. CASE Answer
  BY <1>1, <1>5, AnswerHasEffect
<1>6. CASE \/ Forward
           \/ \E t \in Tasks : FinishTask(t) \/ Work(t) \/ Register(t)
           \/ Connect \/ (\E p \in Peers : Discover(p)) \/ Disconnect
           \/ Stop \/ ThreadEnds \/ Crash \/ Start \/ UNCHANGED vars
  BY <1>1, <1>6 DEF Forward, FinishTask, Work, Register, Connect, Discover,
     Disconnect, Stop, ThreadEnds, Crash, Start, vars
<1> QED BY <1>1, <1>2, <1>3, <1>4, <1>5, <1>6, StepKinds

-----------------------------------------------------------------------------
(* Truthful statuses *)

(* Setting one status keeps the others true.                               *)
LEMMA TruthKept ==
  ASSUME TypeOK, StatusTruthful, verdicts \subseteq verdicts',
         NEW i \in Items, NEW s \in Statuses, SetStatus(i[1], i[2], s),
         s = "acknowledged" => <<i[1], i[2], TRUE>> \in verdicts',
         s = "rejected" => <<i[1], i[2], FALSE>> \in verdicts',
         s = "sent" => Written(i, verdicts')
  PROVE  StatusTruthful'
<1>1. i[1] \in Limits /\ i[2] \in Participants /\ i[2] \in Peers
  BY ItemParts DEF Participants
<1>2. /\ delivery'[i[1]][i[2]] = s
      /\ \A m \in Limits, q \in Participants :
           m # i[1] \/ q # i[2] => delivery'[m][q] = delivery[m][q]
  BY <1>1, StatusIsSet
<1> SUFFICES ASSUME NEW n \in Limits, NEW p \in Peers
             PROVE  /\ delivery'[n][p] = "acknowledged" =>
                         <<n, p, TRUE>> \in verdicts'
                    /\ delivery'[n][p] = "rejected" =>
                         <<n, p, FALSE>> \in verdicts'
                    /\ delivery'[n][p] = "sent" =>
                         \E ok \in BOOLEAN : <<n, p, ok>> \in verdicts'
  BY DEF StatusTruthful
<1>3. CASE n = i[1] /\ p = i[2]
  BY <1>2, <1>3 DEF Written
<1>4. CASE ~(n = i[1] /\ p = i[2])
  <2>1. delivery'[n][p] = delivery[n][p]
    BY <1>2, <1>4 DEF Participants
  <2> QED BY <2>1 DEF StatusTruthful
<1> QED BY <1>3, <1>4

(* Every step keeps StatusTruthful.                                        *)
LEMMA StatusStep ==
  ASSUME TypeOK, SendsInRun, WritesMatch, StatusTruthful, [Next]_vars
  PROVE  StatusTruthful'
<1>1. CASE UNCHANGED delivery /\ verdicts \subseteq verdicts'
  BY <1>1 DEF StatusTruthful
<1>2. ASSUME NEW n \in Limits, ReceiveEffect(n) PROVE StatusTruthful'
  <2>1. verdicts' = verdicts
    BY <1>2 DEF ReceiveEffect, remote
  <2>2. \A m \in Limits, p \in Peers :
          delivery'[m][p] \in {"pending", delivery[m][p]}
    BY <1>2 DEF ReceiveEffect
  <2> QED BY <2>1, <2>2 DEF StatusTruthful
<1>3. CASE Forward
  <2>1. handler \in Limits /\ verdicts' = verdicts
    BY <1>3 DEF Forward, TypeOK, Limits, remote
  <2>2. CASE UNCHANGED delivery
    BY <1>1, <2>1, <2>2
  <2>3. CASE delivery' = [delivery EXCEPT ![handler] =
                            [p \in Participants |-> "failed"]]
    <3>1. \A m \in Limits, p \in Peers :
            delivery'[m][p] \in {"failed", delivery[m][p]}
      BY <2>1, <2>3 DEF TypeOK, Participants
    <3> QED BY <2>1, <3>1 DEF StatusTruthful
  <2> QED BY <1>3, <2>2, <2>3 DEF Forward
<1>4. ASSUME NEW t \in Tasks, StartForward(t) \/ StartRetry(t)
      PROVE  StatusTruthful'
  BY <1>1, <1>4, StartHasEffect DEF remote
<1>5. ASSUME NEW t \in Tasks, Work(t) PROVE StatusTruthful'
  <2>1. PICK r \in TaskRecords :
          r.item \in Items /\ (Writes(t, r) \/ Waits(t, r) \/ Settles(t, r))
    BY <1>5 DEF Work
  <2>2. CASE Writes(t, r)
    BY <1>1, <2>2 DEF Writes, WriteEffect
  <2>3. CASE Waits(t, r)
    BY <1>1, <2>3 DEF Waits, remote
  <2>4. CASE Settles(t, r)
    <3>1. PICK s \in {"failed", "pending"} :
            SetStatus(r.item[1], r.item[2], s)
      BY <2>4 DEF Settles
    <3>2. s \in Statuses /\ verdicts' = verdicts
      BY <2>4 DEF Statuses, Settles, remote
    <3> QED BY <2>1, <3>1, <3>2, TruthKept
  <2> QED BY <2>1, <2>2, <2>3, <2>4
<1>6. ASSUME NEW t \in Tasks, Register(t) PROVE StatusTruthful'
  <2> DEFINE i == task[t].item
  <2>1. /\ i \in Items /\ Written(i, verdicts)
        /\ SetStatus(i[1], i[2], "sent") /\ verdicts' = verdicts
    BY <1>6 DEF Register, TypeOK, WritesMatch, remote
  <2>2. "sent" \in Statuses
    BY DEF Statuses
  <2> HIDE DEF i
  <2> QED BY <2>1, <2>2, TruthKept
<1>7. CASE Answer
  <2>1. verdicts' = verdicts
    BY <1>7, AnswerHasEffect
  <2>2. ASSUME NEW i \in Items, NEW s \in Statuses, SetStatus(i[1], i[2], s),
               \/ s = "readback_confirmed"
               \/ s = "sent" /\ Written(i, verdicts)
               \/ s = "acknowledged" /\ <<i[1], i[2], TRUE>> \in verdicts
               \/ s = "rejected" /\ <<i[1], i[2], FALSE>> \in verdicts
        PROVE  StatusTruthful'
    BY <2>1, <2>2, TruthKept
  <2> QED BY <1>1, <1>7, <2>1, <2>2, AnswerHasEffect
<1>8. CASE \/ Expire \/ \E t \in Tasks : FinishTask(t)
           \/ Connect \/ (\E p \in Peers : Discover(p)) \/ Disconnect
           \/ Stop \/ ThreadEnds \/ Crash \/ Start \/ UNCHANGED vars
  BY <1>1, <1>8 DEF Expire, FinishTask, Connect, Discover, Disconnect, Stop,
     ThreadEnds, Crash, Start, vars, remote
<1> QED
  BY <1>2, <1>3, <1>4, <1>5, <1>6, <1>7, <1>8, StepKinds

-----------------------------------------------------------------------------
(* Nothing is forgotten *)

(* What waits stays on a list that has not lost it.                        *)
LEMMA StaysListed ==
  ASSUME NEW n \in Limits, NEW p \in Peers, OnTheList(n, p),
         handler = n => handler' = n,
         \A x : Queued(x, due) => Queued(x, due'),
         \A t \in Tasks : Working(task[t], <<n, p>>) =>
                            Working(task'[t], <<n, p>>)
  PROVE  OnTheList(n, p)'
BY DEF OnTheList

(* A delivery that waits and whose list nobody has touched.                *)
LEMMA NothingTouched ==
  ASSUME PendingListed, UNCHANGED <<handler, due, task>>,
         NEW n \in Limits, NEW p \in Peers,
         limit[n].status = "active", limit[n].source = "peer",
         Reachable(p), delivery[n][p] = "pending"
  PROVE  OnTheList(n, p)'
BY DEF PendingListed, OnTheList

(* Every step keeps PendingListed.                                         *)
LEMMA ListedStep ==
  ASSUME DeliveryInv, [Next]_vars
  PROVE  PendingListed'
<1> USE DEF DeliveryInv
<1> SUFFICES ASSUME NEW n \in Limits, NEW p \in Peers,
                    limit'[n].status = "active", limit'[n].source = "peer",
                    Reachable(p)', delivery'[n][p] = "pending"
             PROVE  OnTheList(n, p)'
  BY DEF PendingListed
<1>0. Running' /\ session'[Out][p] # 0 /\ discovered'[p]
  BY DEF Reachable
<1> DEFINE Before == /\ limit[n].status = "active"
                     /\ limit[n].source = "peer"
                     /\ Reachable(p) /\ delivery[n][p] = "pending"
<1>1. Before => OnTheList(n, p)
  BY DEF PendingListed
<1>2. CASE Before /\ UNCHANGED <<handler, due, task>>
  BY <1>2, NothingTouched
<1>3. ASSUME NEW m \in Limits, ReceiveEffect(m) PROVE OnTheList(n, p)'
  <2>1. CASE m = n
    BY <1>3, <2>1 DEF ReceiveEffect, OnTheList
  <2>2. CASE m # n
    <3>1. Before /\ UNCHANGED <<due, task>>
      BY <1>0, <1>3, <2>2 DEF ReceiveEffect, links, Reachable, Running
    <3>2. handler = n => handler' = n
      BY <1>3 DEF ReceiveEffect, Limits
    <3> QED BY <1>1, <3>1, <3>2, StaysListed
  <2> QED BY <2>1, <2>2
<1>4. CASE Forward
  <2>1. handler # 0 /\ handler \in Limits /\ Running
    BY <1>0, <1>4 DEF Forward, TypeOK, Limits, Running
  <2>2. Before /\ due' = Append(due, ForwardTask(handler)) /\ task' = task
    BY <1>0, <1>4, <2>1 DEF Forward, links, Reachable
  <2>3. ForwardTask(handler) \in DueTasks
    BY <2>1 DEF ForwardTask, DueTasks
  <2>4. /\ Queued(ForwardTask(handler), due')
        /\ \A x : Queued(x, due) => Queued(x, due')
    BY <2>2, <2>3, AppendedIsDue DEF TypeOK
  <2>5. OnTheList(n, p)
    BY <1>1, <2>2
  <2> QED BY <2>2, <2>4, <2>5 DEF OnTheList
<1>5. CASE Expire
  <2>1. Before /\ UNCHANGED <<handler, due, task>>
    BY <1>0, <1>5, ExpiryEndsOne DEF Expire, links, thread, Reachable, Running
  <2> QED BY <1>2, <2>1
<1>6. ASSUME NEW t \in Tasks, StartForward(t) \/ StartRetry(t)
      PROVE  OnTheList(n, p)'
  <2>1. /\ task[t].stage = "idle"
        /\ \A u \in Tasks : u # t => task'[u] = task[u]
        /\ Head(due) = ForwardTask(n) => <<n, p>> \in task'[t].items
        /\ Head(due) = RetryTask(p) =>
             (n \in Retryable(p) => <<n, p>> \in task'[t].items)
        /\ due # <<>> /\ due' = Tail(due)
        /\ UNCHANGED <<limit, delivery, links, thread>>
    BY <1>6, StartHasEffect
  <2>2. Before /\ handler' = handler
    BY <1>0, <2>1 DEF links, thread, Reachable, Running
  <2>3. n \in Retryable(p)
    BY <2>2 DEF Retryable, ActiveIsCommand
  <2>4. \A x : Queued(x, due) /\ x # Head(due) => Queued(x, due')
    BY <2>1, RestIsDue DEF TypeOK
  <2>5. \A u \in Tasks : Working(task[u], <<n, p>>) =>
                           Working(task'[u], <<n, p>>)
    <3>1. ~Working(task[t], <<n, p>>)
      BY <2>1 DEF SendsInRun, Working
    <3> QED BY <2>1, <3>1
  <2>6. CASE Head(due) \in {ForwardTask(n), RetryTask(p)}
    BY <2>1, <2>3, <2>6 DEF OnTheList, Working
  <2>7. CASE Head(due) \notin {ForwardTask(n), RetryTask(p)}
    BY <1>1, <2>2, <2>4, <2>5, <2>7 DEF OnTheList
  <2> QED BY <2>6, <2>7
<1>7. ASSUME NEW t \in Tasks, FinishTask(t) PROVE OnTheList(n, p)'
  <2>1. /\ task[t].stage = "next" /\ task[t].items = {}
        /\ \A u \in Tasks : u # t => task'[u] = task[u]
        /\ UNCHANGED <<limit, delivery, due, links, thread>>
    BY <1>7, RestingTasks, TaskMoves DEF FinishTask
  <2>2. Before /\ UNCHANGED <<handler, due>>
    BY <1>0, <2>1 DEF links, thread, Reachable, Running
  <2>3. ~Working(task[t], <<n, p>>)
    BY <2>1 DEF Working
  <2> QED BY <1>1, <2>1, <2>2, <2>3, StaysListed
<1>8. ASSUME NEW t \in Tasks, Work(t) PROVE OnTheList(n, p)'
  <2>1. PICK r \in TaskRecords :
          /\ r.item \in Items
          /\ \A i : Working(task[t], i) => i = r.item \/ i \in r.items
          /\ Writes(t, r) \/ Waits(t, r) \/ Settles(t, r)
    BY <1>8 DEF Work
  <2>2. /\ UNCHANGED <<limit, due, handler>> /\ Reachable(p)
        /\ \A u \in Tasks : u # t => task'[u] = task[u]
    BY <1>0, <1>8, <2>1 DEF Work, thread, Reachable, Running, Writes,
       WriteEffect, Waits, Settles
  <2>3. ASSUME UNCHANGED delivery,
               \A i : i = r.item \/ i \in r.items => Working(task'[t], i)
        PROVE  OnTheList(n, p)'
    <3>1. Before
      BY <2>2, <2>3
    <3> QED BY <1>1, <2>1, <2>2, <2>3, <3>1, StaysListed
  <2>4. CASE Writes(t, r)
    BY <2>3, <2>4 DEF Writes, WriteEffect, Working
  <2>5. CASE Waits(t, r)
    BY <2>3, <2>5 DEF Waits, Working
  <2>6. CASE Settles(t, r)
    <3>1. PICK s \in {"failed", "pending"} :
            /\ SetStatus(r.item[1], r.item[2], s)
            /\ s = "pending" => ~Reachable(r.item[2])
      BY <2>6 DEF Settles
    <3>2. /\ s \in Statuses /\ r.item[1] \in Limits
          /\ r.item[2] \in Participants /\ r.item = <<r.item[1], r.item[2]>>
      BY <2>1, ItemParts DEF Statuses, Participants
    <3>3. /\ delivery'[r.item[1]][r.item[2]] = s
          /\ \A m \in Limits, q \in Participants :
               m # r.item[1] \/ q # r.item[2] =>
                 delivery'[m][q] = delivery[m][q]
      BY <3>1, <3>2, StatusIsSet
    <3>4. ~(n = r.item[1] /\ p = r.item[2])
      BY <2>2, <3>1, <3>3
    <3>5. Before
      BY <2>2, <3>3, <3>4 DEF Participants
    <3>6. Working(task[t], <<n, p>>) => Working(task'[t], <<n, p>>)
      <4>1. <<n, p>> # r.item
        BY <3>4
      <4> QED BY <2>1, <2>6, <4>1, RestingTasks DEF Settles, Working
    <3> QED BY <1>1, <2>2, <3>5, <3>6, StaysListed
  <2> QED BY <2>1, <2>4, <2>5, <2>6
<1>9. ASSUME NEW t \in Tasks, Register(t) PROVE OnTheList(n, p)'
  <2> DEFINE i == task[t].item
  <2>1. /\ i \in Items /\ task[t] \in TaskRecords /\ task[t].stage = "written"
        /\ SetStatus(i[1], i[2], "sent") /\ Run(t, Proceed(task[t]))
        /\ UNCHANGED <<limit, due, handler, links, mode>>
    BY <1>9 DEF Register, TypeOK, thread
  <2>2. /\ i[1] \in Limits /\ i[2] \in Participants /\ i = <<i[1], i[2]>>
        /\ "sent" \in Statuses
    BY <2>1, ItemParts DEF Participants, Statuses
  <2>3. /\ delivery'[i[1]][i[2]] = "sent"
        /\ \A m \in Limits, q \in Participants :
             m # i[1] \/ q # i[2] => delivery'[m][q] = delivery[m][q]
    BY <2>1, <2>2, StatusIsSet
  <2>4. ~(n = i[1] /\ p = i[2])
    BY <2>3
  <2>5. Before
    BY <1>0, <2>1, <2>3, <2>4 DEF Participants, links, Reachable, Running
  <2>6. /\ task'[t].items = task[t].items
        /\ \A u \in Tasks : u # t => task'[u] = task[u]
    BY <2>1, RestingTasks, TaskMoves
  <2>7. \A u \in Tasks : Working(task[u], <<n, p>>) =>
                           Working(task'[u], <<n, p>>)
    <3>1. i # <<n, p>>
      BY <2>4
    <3> QED BY <2>6, <3>1 DEF Working
  <2> HIDE DEF i
  <2> QED BY <1>1, <2>1, <2>5, <2>7, StaysListed
<1>10. CASE Answer
  <2>1. /\ \A x : Queued(x, due) => Queued(x, due')
        /\ UNCHANGED <<limit, task, links, thread>>
    <3>1. ASSUME NEW q \in Peers, due' = Append(due, RetryTask(q))
          PROVE  \A x : Queued(x, due) => Queued(x, due')
      <4>1. RetryTask(q) \in DueTasks
        BY DEF RetryTask, DueTasks
      <4> QED BY <3>1, <4>1, AppendedIsDue DEF TypeOK
    <3> QED BY <1>10, <3>1, AnswerHasEffect
  <2>2. delivery[n][p] = "pending"
    <3>1. CASE UNCHANGED delivery
      BY <3>1
    <3>2. ASSUME NEW i \in Items, NEW s \in Statuses,
                 SetStatus(i[1], i[2], s), s # "pending"
          PROVE  delivery[n][p] = "pending"
      <4>1. i[1] \in Limits /\ i[2] \in Participants /\ p \in Participants
        BY ItemParts DEF Participants
      <4> QED BY <3>2, <4>1, StatusIsSet
    <3> QED BY <1>10, <3>1, <3>2, AnswerHasEffect
  <2>3. Before /\ handler' = handler
    BY <1>0, <2>1, <2>2 DEF links, thread, Reachable, Running
  <2> QED BY <1>1, <2>1, <2>3, StaysListed
<1>11. CASE Connect
  <2>1. PICK d \in Directions, q \in Peers, found \in BOOLEAN :
          /\ session' = [session EXCEPT ![d][q] = sessions + 1]
          /\ discovered' = IF d = Out THEN [discovered EXCEPT ![q] = found]
                           ELSE discovered
          /\ due' = Append(due, RetryTask(q))
    BY <1>11 DEF Connect, ScheduleRetry
  <2>2. d \in {In, Out} /\ UNCHANGED <<limit, delivery, task, handler, mode>>
    BY <1>11, ConstantsAssumption DEF In, Out, Connect, thread
  <2>3. RetryTask(q) \in DueTasks
    BY DEF RetryTask, DueTasks
  <2>4. /\ Queued(RetryTask(q), due')
        /\ \A x : Queued(x, due) => Queued(x, due')
    BY <2>1, <2>3, AppendedIsDue DEF TypeOK
  <2>5. CASE q = p
    BY <2>4, <2>5 DEF OnTheList
  <2>6. CASE q # p
    <3>1. session'[Out][p] = session[Out][p] /\ discovered'[p] = discovered[p]
      BY <2>1, <2>2, <2>6 DEF TypeOK
    <3>2. Before
      BY <1>0, <2>2, <3>1 DEF Reachable, Running
    <3> QED BY <1>1, <2>2, <2>4, <3>2, StaysListed
  <2> QED BY <2>5, <2>6
<1>12. ASSUME NEW q \in Peers, Discover(q) PROVE OnTheList(n, p)'
  <2>1. /\ discovered' = [discovered EXCEPT ![q] = TRUE]
        /\ due' = Append(due, RetryTask(q))
        /\ UNCHANGED <<limit, delivery, task, session, handler, mode>>
    BY <1>12 DEF Discover, ScheduleRetry, thread
  <2>2. RetryTask(q) \in DueTasks
    BY DEF RetryTask, DueTasks
  <2>3. /\ Queued(RetryTask(q), due')
        /\ \A x : Queued(x, due) => Queued(x, due')
    BY <2>1, <2>2, AppendedIsDue DEF TypeOK
  <2>4. CASE q = p
    BY <2>3, <2>4 DEF OnTheList
  <2>5. CASE q # p
    <3>1. Before
      BY <1>0, <2>1, <2>5 DEF Reachable, Running, TypeOK
    <3> QED BY <1>1, <2>1, <2>3, <3>1, StaysListed
  <2> QED BY <2>4, <2>5
<1>13. CASE Disconnect
  <2>1. /\ session[Out][p] # 0 /\ discovered[p]
        /\ UNCHANGED <<limit, delivery, due, task, handler, mode>>
    BY <1>0, <1>13, ConstantsAssumption
       DEF Disconnect, TypeOK, thread, In, Out
  <2> QED BY <1>0, <1>2, <2>1 DEF Reachable, Running
<1>14. CASE Stop \/ ThreadEnds \/ Crash
  BY <1>0, <1>14 DEF Stop, ThreadEnds, Crash, Running
<1>15. CASE Start
  BY <1>0, <1>15 DEF Start, SendsInRun, Running
<1>16. CASE UNCHANGED vars
  BY <1>0, <1>2, <1>16 DEF vars, Reachable, Running
<1> QED
  BY <1>3, <1>4, <1>5, <1>6, <1>7, <1>8, <1>9, <1>10, <1>11, <1>12, <1>13,
     <1>14, <1>15, <1>16, StepKinds

-----------------------------------------------------------------------------
(* Theorems *)

(* DeliveryInv holds in every state: types; every answer under way and     *)
(* every entry of the pending maps belongs to a write the peer decided on; *)
(* sends use the session of this run; statuses tell the truth; and what is *)
(* pending at a reachable peer is on somebody's list.                      *)
THEOREM DeliveryInvariant == Spec => []DeliveryInv
<1>1. Init => DeliveryInv
  <2> SUFFICES ASSUME Init PROVE DeliveryInv
    OBVIOUS
  <2>1. TypeOK
    BY TypeInit
  <2>2. /\ \A t \in Tasks : task[t] = IdleTask
        /\ \A p \in Peers : session[Out][p] = 0
        /\ \A n \in Limits : limit[n].status = "absent"
        /\ \A n \in Limits, p \in Peers : delivery[n][p] = "none"
        /\ writes = {} /\ answers = {}
    BY DEF Init, NoSessions, Participants
  <2>3. WritesMatch /\ SendsInRun
    BY <2>2, RestingTasks DEF WritesMatch, SendsInRun, Init
  <2>4. ActiveIsCommand /\ StatusTruthful /\ PendingListed
    BY <2>2 DEF ActiveIsCommand, StatusTruthful, PendingListed
  <2> QED BY <2>1, <2>3, <2>4 DEF DeliveryInv
<1>2. DeliveryInv /\ [Next]_vars => DeliveryInv'
  <2> SUFFICES ASSUME DeliveryInv, [Next]_vars PROVE DeliveryInv'
    OBVIOUS
  <2>1. TypeOK' /\ WritesMatch' /\ SendsInRun'
    BY TypeStep, WritesMatchStep, SendsInRunStep DEF DeliveryInv
  <2>2. ActiveIsCommand' /\ StatusTruthful' /\ PendingListed'
    BY ActiveIsCommandStep, StatusStep, ListedStep DEF DeliveryInv
  <2> QED BY <2>1, <2>2 DEF DeliveryInv
<1> QED BY <1>1, <1>2, PTL DEF Spec

(* Every variable of the deliveries keeps its type, whatever the tasks, the*)
(* peers and the runtime's stops do.                                       *)
THEOREM TypeCorrect == Spec => []TypeOK
<1>1. DeliveryInv => TypeOK
  BY DEF DeliveryInv
<1> QED BY <1>1, DeliveryInvariant, PTL

(* A delivery is acknowledged only if its peer accepted a write of it, and *)
(* rejected only if it refused one, whatever was lost, late or restarted.  *)
THEOREM StatusIsTruthful == Spec => []StatusTruthful
<1>1. DeliveryInv => StatusTruthful
  BY DEF DeliveryInv
<1> QED BY <1>1, DeliveryInvariant, PTL

(* When the loop has nothing more to do, no limit in force from a peer is  *)
(* pending at a peer that can be reached, for any number of peers, limits  *)
(* and tasks at once.                                                      *)
THEOREM NothingIsForgotten == Spec => []NothingForgotten
<1>1. DeliveryInv => NothingForgotten
  <2> SUFFICES ASSUME DeliveryInv, Quiet, NEW n \in Limits, NEW p \in Peers
               PROVE  ~OnTheList(n, p)
    BY DEF DeliveryInv, PendingListed, NothingForgotten
  <2>1. handler # n
    BY DEF Quiet, Limits
  <2>2. \A x : ~Queued(x, due)
    BY DEF Quiet, Queued
  <2>3. \A t \in Tasks : ~Working(task[t], <<n, p>>)
    BY DEF Quiet, DeliveryInv, SendsInRun, Working
  <2> QED BY <2>1, <2>2, <2>3 DEF OnTheList
<1> QED BY <1>1, DeliveryInvariant, PTL
=============================================================================
