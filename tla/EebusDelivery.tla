--------------------------- MODULE EebusDelivery ---------------------------
(***************************************************************************)
(* Delivery of power limits to EEBus peers by the runtime manager.  Every  *)
(* limit of the ledger has one delivery row per participant.  The runtime  *)
(* thread runs one asyncio loop: a forwarding task per limit received from *)
(* a peer, a retry task whenever a peer becomes ready or sends a datagram, *)
(* and the handlers of the peers' answers, all interleaved at every await. *)
(*                                                                         *)
(* A write is known by its message counter, and answers are matched to     *)
(* deliveries through maps from (peer, counter) to delivery.  A readback   *)
(* request follows each write; its counter is kept in a map of its own, so *)
(* the model gives the pair one number.                                    *)
(*                                                                         *)
(* The SHIP sessions are external (eebus_sdk): writes on one session reach *)
(* the peer in the order of their sends, which may raise all the same; a   *)
(* session ends at any time; and a peer answers the writes of a session in *)
(* order, accepting or refusing each, maybe before the send has returned.  *)
(* Counters are taken to be unique per peer; the SDK sees to that.         *)
(***************************************************************************)
EXTENDS Naturals, Sequences

CONSTANTS
  Peers,            \* EEBus participants of a limit
  Native,           \* participants driven by the HEMS dispatcher instead
  Keys,             \* keys of limits
  MaxLimits,        \* bound on limits; limits are numbered as they arrive
  Tasks,            \* bound on forward and retry tasks alive at once
  Directions,       \* connection directions the runtime was started with
  Sources,          \* where limits come from: "peer" or "rest"
  MaxCounter,       \* bound on message counters
  MaxSessions,      \* bound on SHIP sessions
  MaxStops          \* bound on runtime stops and process crashes

ASSUME ConstantsAssumption ==
  /\ Peers \cap Native = {}
  /\ Keys # {}
  /\ MaxLimits \in Nat /\ MaxCounter \in Nat
  /\ MaxSessions \in Nat /\ MaxStops \in Nat
  /\ Directions \subseteq {"inbound_from_peer", "outbound_to_peer"}
  /\ Sources \subseteq {"peer", "rest"}

VARIABLES
  limit,        \* the limit rows
  delivery,     \* status of the delivery of each limit to each participant
  mode,         \* the runtime thread, and what the manager knows of it
  due,          \* queue of tasks handed to the loop, not started yet
  handler,      \* limit whose handler has the loop; 0 is none
  task,         \* the forward and retry tasks
  session,      \* live SHIP session per direction and peer; 0 is none
  dialed,       \* peers whose outbound client of this run was connected
  discovered,   \* peers whose LoadControl feature the client knows
  counter,      \* last message counter used with each peer
  sessions,     \* number of sessions so far
  writes,       \* _pending_delivery_writes
  readbacks,    \* _pending_delivery_readbacks
  answers,      \* answers on their way from the peers
  verdicts,     \* history: what the peers really did with the writes
  stops         \* number of stops and crashes so far

vars == <<limit, delivery, mode, due, handler, task, session, dialed,
          discovered, counter, sessions, writes, readbacks, answers, verdicts,
          stops>>

links == <<session, dialed, discovered, counter, sessions>>
maps == <<writes, readbacks>>
remote == <<answers, verdicts>>
thread == <<mode, stops, handler>>

-----------------------------------------------------------------------------
Limits == 1 .. MaxLimits
Participants == Peers \cup Native
In == "inbound_from_peer"
Out == "outbound_to_peer"

LimitRows == [status : {"absent", "active", "inactive"}, command : BOOLEAN,
              key : Keys, source : {"peer", "rest"}]
Statuses == {"none", "pending", "sent", "acknowledged", "rejected",
             "readback_confirmed", "failed", "not_deliverable"}

Items == Limits \X Peers                  \* delivery rows of EEBus peers
NoItem == <<0, CHOOSE p \in Peers : TRUE>>

DueTasks == [kind : {"forward"}, limit : Limits]
              \cup [kind : {"retry"}, peer : Peers]
ForwardTask(n) == [kind |-> "forward", limit |-> n]
RetryTask(p) == [kind |-> "retry", peer |-> p]

(* "next": the task has the loop; the other stages wait in an await.       *)
TaskStages == {"idle", "next", "server", "client", "written"}
TaskRecords == [stage : TaskStages, items : SUBSET Items,
                item : Items \cup {NoItem}, via : {In, Out}, session : Nat,
                counter : Nat]
IdleTask == [stage |-> "idle", items |-> {}, item |-> NoItem,
             via |-> In, session |-> 0, counter |-> 0]

(* The task goes on with its next delivery.                                *)
Proceed(r) == [IdleTask EXCEPT !.stage = "next", !.items = r.items]

Entries == [peer : Peers, counter : Nat, item : Items]
Answers == [direction : {In, Out}, peer : Peers, counter : Nat,
            kind : {"write_sent", "write_result", "readback"}, ok : BOOLEAN]

Running == mode = "running"

(* asyncio runs one task at a time: nothing else happens on the loop until *)
(* the task that has it reaches an await.                                  *)
LoopFree ==
  mode # "stopped" /\ handler = 0 /\ \A t \in Tasks : task[t].stage # "next"

Arrived == {n \in Limits : limit[n].status # "absent"}

SetStatus(n, p, s) == delivery' = [delivery EXCEPT ![n][p] = s]

-----------------------------------------------------------------------------
(* Limits *)

(* The new row n replaces the active ones of its key.                      *)
Replace(n, row) ==
  [m \in Limits |->
     IF m = n THEN row
     ELSE IF limit[m].status = "active" /\ limit[m].key = row.key
     THEN [limit[m] EXCEPT !.status = "inactive"] ELSE limit[m]]

(* A limit is distributed and its rows are committed (LoadControl has the  *)
(* detail).  For a limit from a peer this happens in the handler of its    *)
(* datagram, which keeps the loop until it has forwarded the limit.        *)
Receive ==
  \E n \in Limits, k \in Keys, command \in BOOLEAN, source \in Sources,
     native \in [Native -> {"acknowledged", "failed", "not_deliverable",
                            "pending"}] :
    /\ Arrived = 1 .. (n - 1)
    /\ source = "peer" => Running /\ LoopFree
    /\ limit' = Replace(n,
                 [status |-> IF command THEN "active" ELSE "inactive",
                  command |-> command, key |-> k, source |-> source])
    /\ delivery' = [delivery EXCEPT ![n] =
         [p \in Participants |-> IF p \in Peers THEN "pending" ELSE native[p]]]
    /\ handler' = IF source = "peer" THEN n ELSE handler
    /\ UNCHANGED <<mode, due, task, stops, links, maps, remote>>

(* forward_load_power_limit.  Another thread may have made the manager let *)
(* go of the loop meanwhile; then every delivery of the limit is failed,   *)
(* those of native participants included.                                  *)
Forward ==
  /\ handler # 0
  /\ handler' = 0
  /\ IF Running
     THEN /\ due' = Append(due, ForwardTask(handler))
          /\ UNCHANGED delivery
     ELSE /\ delivery' = [delivery EXCEPT ![handler] =
                            [p \in Participants |-> "failed"]]
          /\ UNCHANGED due
  /\ UNCHANGED <<limit, mode, task, stops, links, maps, remote>>

Expire ==
  \E n \in Limits :
    /\ limit[n].status = "active"
    /\ limit' = [limit EXCEPT ![n].status = "inactive"]
    /\ UNCHANGED <<delivery, due, task, links, maps, remote, thread>>

-----------------------------------------------------------------------------
(* Tasks *)

Run(t, r) == task' = [task EXCEPT ![t] = r]

StartTask(t) ==
  /\ Running /\ LoopFree
  /\ task[t].stage = "idle"
  /\ due # <<>>
  /\ due' = Tail(due)

(* _forward_load_power_limit_async works on the participants as they were  *)
(* when the limit was distributed.                                         *)
StartForward(t) ==
  /\ StartTask(t)
  /\ Head(due).kind = "forward"
  /\ Run(t, [IdleTask EXCEPT !.stage = "next",
                             !.items = {Head(due).limit} \X Peers])
  /\ UNCHANGED <<limit, delivery, links, maps, remote, thread>>

(* What a retry picks up: pending deliveries of commands in force.  (The   *)
(* query also takes failed rows with a transient error, but a transient    *)
(* error is always stored as pending.)                                     *)
Retryable(p) ==
  {n \in Limits : /\ delivery[n][p] = "pending"
                  /\ limit[n].status = "active" /\ limit[n].command}

StartRetry(t) ==
  /\ StartTask(t)
  /\ Head(due).kind = "retry"
  /\ LET p == Head(due).peer IN
     Run(t, [IdleTask EXCEPT !.stage = "next",
                             !.items = Retryable(p) \X {p}])
  /\ UNCHANGED <<limit, delivery, links, maps, remote, thread>>

FinishTask(t) ==
  /\ task[t].stage = "next"
  /\ task[t].items = {}
  /\ Run(t, IdleTask)
  /\ UNCHANGED <<limit, delivery, due, links, maps, remote, thread>>

(* A write goes out on a session and the peer accepts or refuses it; the   *)
(* send is still awaited.                                                  *)
WriteOn(t, r, d) ==
  LET n == r.item[1]
      p == r.item[2]
      c == counter[p] + 1
      kinds == {"write_result", "readback"}
                 \cup IF d = In THEN {"write_sent"} ELSE {}
  IN /\ session[d][p] # 0
     /\ c <= MaxCounter
     /\ counter' = [counter EXCEPT ![p] = c]
     /\ Run(t, [r EXCEPT !.stage = "written", !.via = d, !.counter = c,
                         !.session = session[d][p]])
     /\ \E ok \in BOOLEAN :
          /\ answers' = answers \cup
               {[direction |-> d, peer |-> p, counter |-> c, kind |-> kind,
                 ok |-> ok] : kind \in kinds}
          /\ verdicts' = verdicts \cup {<<n, p, ok>>}

(* The outbound half of a send.  Without a client, or before discovery,    *)
(* the error is transient; a peer without the feature is a failure for     *)
(* good; otherwise the write goes out, or its send is going to raise.      *)
TryClient(t, r) ==
  LET n == r.item[1]
      p == r.item[2]
      usable == Running /\ session[Out][p] # 0 /\ discovered[p]
  IN \/ usable /\ WriteOn(t, r, Out) /\ UNCHANGED delivery
     \/ /\ usable
        /\ Run(t, [r EXCEPT !.stage = "client", !.via = Out,
                            !.session = session[Out][p]])
        /\ UNCHANGED <<delivery, counter, remote>>
     \/ /\ Run(t, Proceed(r))
        /\ SetStatus(n, p, IF usable THEN "failed" ELSE "pending")
        /\ UNCHANGED <<counter, remote>>

(* _send_load_power_limit_to_peer for the next delivery: the server first; *)
(* its send writes at once, or is going to raise.                          *)
Send(t) ==
  /\ task[t].stage = "next"
  /\ \E i \in task[t].items :
       LET r == [task[t] EXCEPT !.items = @ \ {i}, !.item = i] IN
       IF In \in Directions /\ Running
       THEN /\ \/ WriteOn(t, r, In)
               \/ /\ Run(t, [r EXCEPT !.stage = "server"])
                  /\ UNCHANGED <<counter, remote>>
            /\ UNCHANGED delivery
       ELSE TryClient(t, r)
  /\ UNCHANGED <<limit, due, session, dialed, discovered, sessions, maps,
                 thread>>

(* The server cannot reach the peer, or its send fails half-way.           *)
ServerFails(t) ==
  /\ LoopFree
  /\ \/ task[t].stage = "server"
     \/ task[t].stage = "written" /\ task[t].via = In
  /\ TryClient(t, [task[t] EXCEPT !.counter = 0])
  /\ UNCHANGED <<limit, due, session, dialed, discovered, sessions, maps,
                 thread>>

(* The outbound send raises: because the session is gone (transient, also  *)
(* after the write went out) or for a reason that is not retried.          *)
ClientFails(t) ==
  /\ LoopFree
  /\ task[t].stage \in {"client", "written"} /\ task[t].via = Out
  /\ LET n == task[t].item[1]
         p == task[t].item[2]
     IN \/ session[Out][p] # task[t].session /\ SetStatus(n, p, "pending")
        \/ SetStatus(n, p, "failed")
  /\ Run(t, Proceed(task[t]))
  /\ UNCHANGED <<limit, due, links, maps, remote, thread>>

Put(m, p, c, i) ==
  {e \in m : e.peer # p \/ e.counter # c}
    \cup {[peer |-> p, counter |-> c, item |-> i]}

(* The send returns: register its counters, mark the delivery as sent.     *)
Register(t) ==
  /\ LoopFree
  /\ task[t].stage = "written"
  /\ LET i == task[t].item
         c == task[t].counter
     IN /\ writes' = Put(writes, i[2], c, i)
        /\ readbacks' = Put(readbacks, i[2], c, i)
        /\ SetStatus(i[1], i[2], "sent")
  /\ Run(t, Proceed(task[t]))
  /\ UNCHANGED <<limit, due, links, remote, thread>>

-----------------------------------------------------------------------------
(* Answers *)

\* Mutant: the error number of a write result is not looked at.
ResultStatusBlind(ok) == "acknowledged"

\* Mutant: the status of the answer is stored as it came.
ResultStatusRaw(ok) == IF ok THEN "ok" ELSE "rejected"

ResultStatus(ok) == IF ok THEN "acknowledged" ELSE "rejected"

Rank(a) == CASE a.kind = "write_sent" -> 0
             [] a.kind = "write_result" -> 1
             [] a.kind = "readback" -> 2

(* Answers of one session come in order.                                   *)
First(a) ==
  \A b \in answers :
     b.direction = a.direction /\ b.peer = a.peer =>
       \/ a.counter < b.counter
       \/ a.counter = b.counter /\ Rank(a) <= Rank(b)

(* _process_server_delivery_event and _process_outbound_delivery_result:   *)
(* an answer that no map knows is dropped.  Every datagram on an outbound  *)
(* session also schedules a retry for its peer.                            *)
Answer ==
  /\ LoopFree
  /\ \E a \in answers :
       /\ First(a)
       /\ answers' = answers \ {a}
       /\ LET known(m) == {e \in m : e.peer = a.peer /\ e.counter = a.counter}
          IN CASE a.kind = "write_sent" ->
                    /\ UNCHANGED maps
                    /\ IF known(writes) = {} THEN UNCHANGED delivery
                       ELSE \E e \in known(writes) :
                              SetStatus(e.item[1], a.peer, "sent")
               [] a.kind = "write_result" ->
                    /\ writes' = writes \ known(writes)
                    /\ UNCHANGED readbacks
                    /\ IF known(writes) = {} THEN UNCHANGED delivery
                       ELSE \E e \in known(writes) :
                              SetStatus(e.item[1], a.peer, ResultStatus(a.ok))
               [] a.kind = "readback" ->
                    /\ readbacks' = readbacks \ known(readbacks)
                    /\ UNCHANGED writes
                    /\ IF known(readbacks) = {} THEN UNCHANGED delivery
                       ELSE \E e \in known(readbacks) :
                              SetStatus(e.item[1], a.peer,
                                        "readback_confirmed")
       /\ due' = IF a.direction = Out /\ Running
                 THEN Append(due, RetryTask(a.peer)) ELSE due
  /\ UNCHANGED <<limit, task, verdicts, links, thread>>

-----------------------------------------------------------------------------
(* Sessions *)

\* Mutant: nobody retries when a peer becomes ready.
ScheduleNothing(p) == due

ScheduleRetry(p) == Append(due, RetryTask(p))

(* A peer connects to the server, or the one outbound client of this run   *)
(* reaches its peer, with or without completing discovery.                 *)
Connect ==
  /\ Running /\ LoopFree
  /\ sessions < MaxSessions
  /\ sessions' = sessions + 1
  /\ \E d \in Directions, p \in Peers, found \in BOOLEAN :
       /\ session[d][p] = 0
       /\ d = Out => p \notin dialed
       /\ session' = [session EXCEPT ![d][p] = sessions + 1]
       /\ dialed' = IF d = Out THEN dialed \cup {p} ELSE dialed
       /\ discovered' = IF d = Out THEN [discovered EXCEPT ![p] = found]
                        ELSE discovered
       /\ due' = ScheduleRetry(p)
  /\ UNCHANGED <<limit, delivery, task, counter, maps, remote, thread>>

(* A datagram completes discovery on an outbound session.                  *)
Discover(p) ==
  /\ Running /\ LoopFree
  /\ session[Out][p] # 0 /\ ~discovered[p]
  /\ discovered' = [discovered EXCEPT ![p] = TRUE]
  /\ due' = ScheduleRetry(p)
  /\ UNCHANGED <<limit, delivery, task, session, dialed, counter, sessions,
                 maps, remote, thread>>

Disconnect ==
  /\ LoopFree
  /\ \E d \in Directions, p \in Peers :
       /\ session[d][p] # 0
       /\ session' = [session EXCEPT ![d][p] = 0]
       /\ discovered' = IF d = Out THEN [discovered EXCEPT ![p] = FALSE]
                        ELSE discovered
       /\ answers' = {a \in answers : a.direction # d \/ a.peer # p}
  /\ UNCHANGED <<limit, delivery, due, task, dialed, counter, sessions,
                 verdicts, maps, thread>>

NoSessions == [d \in {In, Out} |-> [p \in Peers |-> 0]]

(* stop(): the manager forgets the loop, the server and the clients; the   *)
(* thread may still be inside a handler when the join gives up on it.      *)
Stop ==
  /\ Running
  /\ stops < MaxStops
  /\ stops' = stops + 1
  /\ mode' = "stopping"
  /\ session' = NoSessions
  /\ discovered' = [p \in Peers |-> FALSE]
  /\ answers' = {}
  /\ due' = <<>>
  /\ UNCHANGED <<handler, limit, delivery, task, dialed, counter, sessions,
                 verdicts, maps>>

(* The loop is closed: tasks that have not finished never will.            *)
ThreadEnds ==
  /\ mode = "stopping"
  /\ LoopFree
  /\ mode' = "stopped"
  /\ task' = [t \in Tasks |-> IdleTask]
  /\ UNCHANGED <<handler, limit, delivery, due, stops, links, maps, remote>>

(* The process dies and takes the maps with it.                            *)
Crash ==
  /\ Running
  /\ stops < MaxStops
  /\ stops' = stops + 1
  /\ mode' = "stopped"
  /\ session' = NoSessions
  /\ discovered' = [p \in Peers |-> FALSE]
  /\ answers' = {}
  /\ due' = <<>>
  /\ task' = [t \in Tasks |-> IdleTask]
  /\ handler' = 0
  /\ writes' = {} /\ readbacks' = {}
  /\ UNCHANGED <<limit, delivery, dialed, counter, sessions, verdicts>>

Start ==
  /\ mode = "stopped"
  /\ mode' = "running"
  /\ dialed' = {}
  /\ UNCHANGED <<handler, limit, delivery, due, task, session, discovered,
                 counter, sessions, stops, maps, remote>>

-----------------------------------------------------------------------------
Init ==
  /\ limit = [n \in Limits |-> [status |-> "absent", command |-> FALSE,
                                key |-> CHOOSE k \in Keys : TRUE,
                                source |-> "rest"]]
  /\ delivery = [n \in Limits |-> [p \in Participants |-> "none"]]
  /\ mode = "running"
  /\ due = <<>>
  /\ handler = 0
  /\ task = [t \in Tasks |-> IdleTask]
  /\ session = NoSessions
  /\ dialed = {}
  /\ discovered = [p \in Peers |-> FALSE]
  /\ counter = [p \in Peers |-> 0]
  /\ sessions = 0
  /\ writes = {} /\ readbacks = {}
  /\ answers = {}
  /\ verdicts = {}
  /\ stops = 0

Quiet == /\ handler = 0
         /\ \A t \in Tasks : task[t].stage = "idle"
         /\ due = <<>> /\ answers = {}

(* Nothing is left to do, except what the bounds cut off.                  *)
Done == mode = "running" /\ Quiet /\ UNCHANGED vars

TaskStep(t) ==
  \/ FinishTask(t) \/ Send(t) \/ ServerFails(t)
  \/ ClientFails(t) \/ Register(t)

Next ==
  \/ Receive \/ Forward \/ Expire
  \/ \E t \in Tasks : StartForward(t) \/ StartRetry(t) \/ TaskStep(t)
  \/ Answer
  \/ Connect \/ (\E p \in Peers : Discover(p)) \/ Disconnect
  \/ Stop \/ ThreadEnds \/ Crash \/ Start
  \/ Done

Spec == Init /\ [][Next]_vars

(* The loop runs every task it was given, awaited sends return or raise,   *)
(* and a peer that stays connected completes discovery and answers.        *)
FairSpec ==
  /\ Spec
  /\ \A t \in Tasks : WF_vars(TaskStep(t))
  /\ WF_vars(\E t \in Tasks : StartForward(t) \/ StartRetry(t))
  /\ WF_vars(Forward)
  /\ WF_vars(Answer)
  /\ \A p \in Peers : WF_vars(Discover(p))

-----------------------------------------------------------------------------
(* Properties *)

(* Every variable holds a value of its type.                               *)
TypeOK ==
  /\ limit \in [Limits -> LimitRows]
  /\ delivery \in [Limits -> [Participants -> Statuses]]
  /\ mode \in {"running", "stopping", "stopped"}
  /\ handler \in 0 .. MaxLimits
  /\ due \in Seq(DueTasks)
  /\ task \in [Tasks -> TaskRecords]
  /\ \A t \in Tasks :
       task[t].stage \in {"idle", "next"} \/ task[t].item \in Items
  /\ session \in [{In, Out} -> [Peers -> Nat]]
  /\ dialed \subseteq Peers
  /\ discovered \in [Peers -> BOOLEAN]
  /\ counter \in [Peers -> Nat]
  /\ sessions \in Nat /\ stops \in Nat
  /\ writes \subseteq Entries /\ readbacks \subseteq Entries
  /\ answers \subseteq Answers
  /\ verdicts \subseteq Limits \X Peers \X BOOLEAN

(* What a delivery says happened at the peer did happen there: a delivery  *)
(* is acknowledged only if the peer accepted a write of that delivery, and *)
(* rejected only if it refused one (_process_server_delivery_event and     *)
(* _process_outbound_delivery_result against the pending maps).            *)
StatusTruthful ==
  \A n \in Limits, p \in Peers :
    /\ delivery[n][p] = "acknowledged" => <<n, p, TRUE>> \in verdicts
    /\ delivery[n][p] = "rejected" => <<n, p, FALSE>> \in verdicts
    /\ delivery[n][p] = "sent" =>
         \E ok \in BOOLEAN : <<n, p, ok>> \in verdicts

Reachable(p) == Running /\ session[Out][p] # 0 /\ discovered[p]

(* A limit in force that came from a peer is not left waiting: when the    *)
(* loop has nothing more to do, no delivery of it to a reachable peer is   *)
(* pending (forward and retry tasks together).                             *)
NothingForgotten ==
  Quiet =>
    \A n \in Limits, p \in Peers :
      limit[n].status = "active" /\ limit[n].source = "peer" /\ Reachable(p)
      => delivery[n][p] # "pending"

(* The runtime never touches the delivery of a native participant, whose   *)
(* status the dispatcher settled before the limit was forwarded.           *)
NativeKept ==
  [][\A n \in Limits, p \in Native :
       delivery[n][p] # "none" => delivery'[n][p] = delivery[n][p]]_vars

(* A pending delivery of a limit in force is eventually attempted, or the  *)
(* limit ends, or the peer cannot be reached any more.                     *)
PendingIsAttempted ==
  \A n \in Limits, p \in Peers :
    /\ delivery[n][p] = "pending"
    /\ limit[n].status = "active" /\ limit[n].source = "peer"
    /\ Reachable(p)
    ~> \/ delivery[n][p] # "pending"
       \/ limit[n].status # "active"
       \/ ~Reachable(p)
=============================================================================
