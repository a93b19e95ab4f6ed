---------------------------- MODULE EebusRuntime ----------------------------
(***************************************************************************)
(* The EEBus runtime manager: which peers Helios keeps SHIP connections    *)
(* to, and what it reports about them.  Request threads (callers) add and  *)
(* drop peers.  Unless the running thread can be reused, they stop it and  *)
(* start another one with the new set of peers: signal the loop, join the  *)
(* thread, forget it, start the next.  No lock covers this sequence.       *)
(*                                                                         *)
(* A runtime thread opens the local server, dials every peer once and      *)
(* marks what happens in the manager.  The manager keeps a state per       *)
(* endpoint and direction, a set of ready SKIs and one overall status.     *)
(* Every endpoint has a SKI of its own, so endpoints stand for SKIs here.  *)
(*                                                                         *)
(* The workflow connection.establish and the resumption at process start   *)
(* are the users of the manager; of the database the model keeps the       *)
(* status of the endpoint rows.  The SHIP sessions are external.           *)
(***************************************************************************)
EXTENDS Naturals, FiniteSets

CONSTANTS
  Endpoints,        \* eebus_ship endpoints, with host and port
  Callers,          \* request threads inside the manager
  Operations,       \* what users do: "establish", "disconnect", "remove"
  Prompt,           \* stop() finds the loop running and outlasts the thread
  MaxThreads,       \* bound on runtime threads
  MaxCrashes        \* bound on restarts of the process

ASSUME ConstantsAssumption ==
  /\ Endpoints # {}
  /\ Operations \subseteq {"establish", "disconnect", "remove"}
  /\ Prompt \in BOOLEAN
  /\ MaxThreads \in Nat /\ MaxCrashes \in Nat

VARIABLES
  endpoint,     \* status of the endpoint rows
  certified,    \* endpoints whose peer certificate is stored
  peers,        \* _peers
  listed,       \* endpoint_refs of the snapshot
  state,        \* connection_states, per endpoint and direction
  ready,        \* _ready_peer_skis
  status,       \* status of the snapshot
  active,       \* active_connection_directions
  clients,      \* _outbound_clients: the thread whose session it is
  current,      \* _thread
  loop,         \* _loop, as the thread that runs it
  event,        \* _stop_event, as the thread that waits for it
  thread,       \* the runtime threads
  call,         \* the calls of the request threads
  booting,      \* the process has not resumed its connections yet
  crashes       \* number of restarts so far

vars == <<endpoint, certified, peers, listed, state, ready, status, active,
          clients, current, loop, event, thread, call, booting, crashes>>

rows == <<endpoint, certified>>
members == <<peers, listed>>
marks == <<state, ready, status, active>>
handles == <<current, loop, event>>
process == <<booting, crashes>>

-----------------------------------------------------------------------------
In == "inbound_from_peer"
Out == "outbound_to_peer"
Directions == {In, Out}
Threads == 1 .. MaxThreads

EndpointStatuses == {"observed", "connected", "disconnected", "removed"}
Statuses == {"not_started", "starting", "listening", "connecting",
             "ship_ready", "failed", "closed"}
States == {"none", "starting", "listening", "connecting", "ready", "failed",
           "closed"}
Usable == {"starting", "listening", "connecting", "ready"}

(* Stages of a thread: "loop" runs the imports, "open" binds the port.     *)
(* Stages of an outbound session: "queued" is a task not started yet.      *)
ThreadRecords ==
  [stage : {"none", "new", "loop", "open", "serving", "ended"},
   peers : SUBSET Endpoints, directions : SUBSET Directions,
   stop : BOOLEAN, signal : BOOLEAN,
   out : [Endpoints -> {"none", "queued", "dialing", "up"}],
   in : SUBSET Endpoints]
NoThread ==
  [stage |-> "none", peers |-> {}, directions |-> {}, stop |-> FALSE,
   signal |-> FALSE, out |-> [e \in Endpoints |-> "none"], in |-> {}]

CallRecords ==
  [stage : {"idle", "update", "signal", "join", "forget", "spawn", "poll",
            "report"},
   operation : {"none", "establish", "disconnect", "remove", "resume"},
   endpoint : Endpoints, todo : SUBSET Endpoints,
   directions : SUBSET Directions, waits : 0 .. MaxThreads,
   clear : BOOLEAN, ready : BOOLEAN]
NoCall == [stage |-> "idle", operation |-> "none",
           endpoint |-> CHOOSE e \in Endpoints : TRUE, todo |-> {},
           directions |-> {}, waits |-> 0, clear |-> FALSE, ready |-> FALSE]

Alive(t) == t # 0 /\ thread[t].stage \notin {"none", "ended"}
Looping(t) == t # 0 /\ thread[t].stage \in {"loop", "open", "serving"}

Idle == \A c \in Callers : call[c].stage = "idle"

-----------------------------------------------------------------------------
(* Marking, under the manager's lock *)

ActiveIn(s) == {d \in Directions : \E e \in Endpoints : s[e][d] \in Usable}

(* _set_connection_state_locked *)
Mark(s) == state' = s /\ active' = ActiveIn(s)

(* _recompute_ready_peer_skis_locked *)
ReadyIn(s, ps) == {e \in ps : \E d \in Directions : s[e][d] = "ready"}

\* Mutant: the overall status takes the value of a connection state.
MarkClosedMixed(s) ==
  LET left == ReadyIn(s, peers) IN
  /\ ready' = left
  /\ status' = IF left # {} THEN "ready" ELSE "closed"

(* mark_closed, with the states as they are after the closing.             *)
MarkClosed(s) ==
  LET left == ReadyIn(s, peers) IN
  /\ ready' = left
  /\ status' = IF left # {} THEN "ship_ready"
               ELSE IF status # "failed" THEN "closed" ELSE status

-----------------------------------------------------------------------------
(* Calls *)

Goto(c, r) == call' = [call EXCEPT ![c] = r]

(* Every call in progress may start a thread.                              *)
Spare == Cardinality({t \in Threads : thread[t].stage = "none"})

Begin(c, operation) ==
  /\ operation \in Operations
  /\ call[c].stage = "idle"
  /\ ~booting
  /\ Cardinality({b \in Callers : call[b].stage # "idle"}) < Spare
  /\ current # 0 /\ thread[current].stage = "new" => ~Prompt

(* connection.establish has the peer's certificate, probed just now or     *)
(* stored earlier, and commits it before it calls the manager.             *)
Establish(c) ==
  \E e \in Endpoints :
    /\ Begin(c, "establish")
    /\ endpoint[e] # "removed"
    /\ certified' = certified \cup {e}
    /\ Goto(c, [NoCall EXCEPT !.stage = "update", !.operation = "establish",
                              !.todo = {e}])
    /\ UNCHANGED <<endpoint, clients, thread, members, marks, handles,
                   process>>

(* resume_connected_eebus_runtime, in the lifespan of a new process.       *)
Resume(c) ==
  /\ booting /\ Idle
  /\ booting' = FALSE
  /\ LET todo == {e \in certified :
                    endpoint[e] \in {"observed", "connected"}} IN
     IF todo = {} THEN UNCHANGED call
     ELSE Goto(c, [NoCall EXCEPT !.stage = "update", !.operation = "resume",
                                 !.todo = todo])
  /\ UNCHANGED <<crashes, clients, thread, rows, members, marks, handles>>

\* Mutant: the states of the endpoint are not looked at.
CanReuseRunning(e, moved) ==
  /\ Alive(current)
  /\ status \notin {"failed", "closed"}
  /\ ~(moved /\ e \in peers)

(* _can_reuse_runtime_locked; a peer that moved has a new signature.       *)
CanReuse(e, moved) ==
  /\ Alive(current)
  /\ status \notin {"failed", "closed"}
  /\ ~(moved /\ e \in peers)
  /\ \A d \in Directions : state[e][d] \in Usable

(* _runtime_endpoint_is_ready                                              *)
SeemsReady(e, s) ==
  \/ \E d \in Directions : s[e][d] = "ready"
  \/ status = "ship_ready" /\ e \in ready

(* A resumption goes on with the next endpoint; a workflow reports.        *)
Returned(r, seems) ==
  IF r.operation = "establish"
  THEN [r EXCEPT !.stage = "report", !.ready = seems]
  ELSE IF r.todo = {} THEN NoCall
  ELSE [r EXCEPT !.stage = "update"]

(* The locked part of start_or_update.                                     *)
Update(c) ==
  /\ call[c].stage = "update"
  /\ current # 0 /\ thread[current].stage = "new" => ~Prompt
  /\ \E e \in call[c].todo, moved \in BOOLEAN :
       LET r == [call[c] EXCEPT !.endpoint = e, !.todo = @ \ {e}]
           repaired == [state EXCEPT ![e] =
                          [d \in Directions |->
                             IF e \in ready THEN "ready" ELSE @[d]]]
           starting == [state EXCEPT ![e] = [d \in Directions |-> "starting"]]
       IN /\ peers' = peers \cup {e}
          /\ listed' = peers'
          /\ IF CanReuse(e, moved)
             THEN /\ Mark(repaired)
                  /\ Goto(c, Returned(r, SeemsReady(e, repaired)))
                  /\ UNCHANGED status
             ELSE /\ Mark(starting)
                  /\ status' = "starting"
                  /\ Goto(c, [r EXCEPT !.stage = "signal",
                                       !.directions = Directions])
  /\ UNCHANGED <<ready, clients, thread, rows, handles, process>>

(* The locked part of disconnect_endpoint: the directions of the restart   *)
(* are those that were active before.                                      *)
Disconnect(c) ==
  /\ Begin(c, "disconnect")
  /\ \E e \in Endpoints :
       /\ endpoint[e] # "removed"
       /\ peers' = peers \ {e}
       /\ state' = [state EXCEPT ![e] = [d \in Directions |-> "none"]]
       /\ clients' = [clients EXCEPT ![e] = 0]
       /\ ready' = ReadyIn(state', peers')
       /\ Goto(c, [NoCall EXCEPT !.stage = "signal",
                     !.operation = "disconnect", !.endpoint = e,
                     !.directions = active, !.clear = (peers' = {})])
  /\ UNCHANGED <<listed, status, active, thread, rows, handles, process>>

(* Removing a device stops the whole runtime if it lists one of the        *)
(* device's endpoints.                                                     *)
Remove(c) ==
  /\ Begin(c, "remove")
  /\ \E e \in Endpoints :
       /\ endpoint[e] # "removed"
       /\ Goto(c, [NoCall EXCEPT
                     !.stage = IF e \in listed THEN "signal" ELSE "report",
                     !.operation = "remove", !.endpoint = e, !.clear = TRUE])
  /\ UNCHANGED <<clients, thread, rows, members, marks, handles, process>>

(* stop(): ask the loop to set its stop event and wait for it ...          *)
Signal(c) ==
  /\ call[c].stage = "signal"
  /\ IF Looping(loop)
     THEN /\ thread' = [thread EXCEPT ![loop].signal = TRUE]
          /\ Goto(c, [call[c] EXCEPT !.stage = "join", !.waits = loop])
     ELSE /\ UNCHANGED thread
          /\ Goto(c, [call[c] EXCEPT !.stage = "join", !.waits = 0])
  /\ UNCHANGED <<clients, rows, members, marks, handles, process>>

(* ... then join the thread ...                                            *)
Join(c) ==
  /\ call[c].stage = "join"
  /\ LET t == call[c].waits IN
     Looping(t) /\ thread[t].signal => ~Prompt
  /\ Goto(c, [call[c] EXCEPT !.stage = "forget", !.waits = current])
  /\ UNCHANGED <<clients, thread, rows, members, marks, handles, process>>

\* Mutant: clearing the runtime keeps what it has marked.
KeepMarks ==
  /\ peers' = {} /\ listed' = {}
  /\ UNCHANGED marks

ClearRuntime ==
  /\ peers' = {} /\ listed' = {}
  /\ state' = [e \in Endpoints |-> [d \in Directions |-> "none"]]
  /\ ready' = {}
  /\ status' = "not_started"
  /\ active' = {}

\* Mutant: stop() does not join the thread.
Joined(t) == TRUE

Ended(t) == Alive(t) => ~Prompt

(* ... and forget it, with everything that is known when clearing.         *)
Forget(c) ==
  /\ call[c].stage = "forget"
  /\ Ended(call[c].waits)
  /\ current' = 0 /\ loop' = 0 /\ event' = 0
  /\ clients' = [e \in Endpoints |-> 0]
  /\ IF call[c].clear
     THEN /\ ClearRuntime
          /\ Goto(c, [call[c] EXCEPT !.stage = "report"])
     ELSE /\ UNCHANGED <<members, marks>>
          /\ Goto(c, [call[c] EXCEPT !.stage = "spawn"])
  /\ UNCHANGED <<thread, rows, process>>

(* The end of _restart.                                                    *)
Spawn(c) ==
  /\ call[c].stage = "spawn"
  /\ \E t \in Threads :
       /\ \A u \in Threads : thread[u].stage = "none" <=> t <= u
       /\ thread' = [thread EXCEPT ![t] =
            [NoThread EXCEPT !.stage = "new", !.peers = peers,
                             !.directions = call[c].directions]]
       /\ current' = t
  /\ Goto(c, [call[c] EXCEPT !.stage =
                IF call[c].operation = "disconnect" THEN "report" ELSE "poll"])
  /\ UNCHANGED <<loop, event, clients, rows, members, marks, process>>

(* start_or_update returns when the status has moved or two seconds have   *)
(* passed, whichever comes first.                                          *)
Poll(c) ==
  /\ call[c].stage = "poll"
  /\ Goto(c, Returned(call[c], SeemsReady(call[c].endpoint, state)))
  /\ UNCHANGED <<clients, thread, rows, members, marks, handles, process>>

(* The database is committed.  A connection that is not ready keeps the    *)
(* status of its endpoint.                                                 *)
Report(c) ==
  /\ call[c].stage = "report"
  /\ LET r == call[c] IN
     endpoint' =
       [endpoint EXCEPT ![r.endpoint] =
          CASE r.operation = "disconnect" -> "disconnected"
            [] r.operation = "remove" -> "removed"
            [] r.operation = "establish" ->
                 IF r.ready /\ @ # "removed" THEN "connected" ELSE @]
  /\ certified' = IF call[c].operation = "remove"
                  THEN certified \ {call[c].endpoint} ELSE certified
  /\ Goto(c, NoCall)
  /\ UNCHANGED <<clients, thread, members, marks, handles, process>>

-----------------------------------------------------------------------------
(* Runtime threads *)

Change(t, r) == thread' = [thread EXCEPT ![t] = r]

(* _thread_main                                                            *)
Enter(t) ==
  /\ thread[t].stage = "new"
  /\ loop' = t
  /\ Change(t, [thread[t] EXCEPT !.stage = "loop"])
  /\ UNCHANGED <<current, event, clients, call, rows, members, marks, process>>

(* mark_failed, and the thread ends.                                       *)
GiveUp(t) ==
  /\ status' = "failed"
  /\ Change(t, [NoThread EXCEPT !.stage = "ended"])
  /\ UNCHANGED <<state, ready, active, members>>

(* The imports of _run_server, and its stop event.                         *)
Prepare(t) ==
  /\ thread[t].stage = "loop"
  /\ \/ GiveUp(t) /\ UNCHANGED event
     \/ /\ event' = t
        /\ Change(t, [thread[t] EXCEPT !.stage = "open"])
        /\ UNCHANGED <<members, marks>>
  /\ UNCHANGED <<current, loop, clients, call, rows, process>>

(* The server is started on the first free port; mark_listening is told of *)
(* every peer of the manager.  Then one task per peer is created.          *)
Open(t) ==
  /\ thread[t].stage = "open"
  /\ LET r == thread[t] IN
     \/ In \in r.directions /\ GiveUp(t)
     \/ /\ Change(t, [r EXCEPT !.stage = "serving",
                        !.out = [e \in Endpoints |->
                          IF Out \in r.directions /\ e \in r.peers
                          THEN "queued" ELSE "none"]])
        /\ IF In \in r.directions
           THEN /\ IF peers = {} THEN UNCHANGED <<state, active>>
                   ELSE Mark([e \in Endpoints |->
                                IF e \in peers
                                THEN [state[e] EXCEPT ![In] = "listening"]
                                ELSE state[e]])
                /\ status' = "listening"
                /\ listed' = peers
                /\ UNCHANGED <<peers, ready>>
           ELSE listed' = r.peers /\ UNCHANGED <<peers, marks>>
  /\ UNCHANGED <<clients, call, rows, handles, process>>

\* Mutant: the callback finds no event to set.
LoseSignal(t) ==
  /\ thread[t].stage \in {"open", "serving"}
  /\ thread[t].signal
  /\ Change(t, [thread[t] EXCEPT !.signal = FALSE])
  /\ UNCHANGED <<clients, call, rows, members, marks, handles, process>>

(* The callback that stop() handed to the loop sets the event the manager  *)
(* knows by now.                                                           *)
HandleSignal(t) ==
  /\ thread[t].stage \in {"open", "serving"}
  /\ thread[t].signal
  /\ thread' = [u \in Threads |->
       [thread[u] EXCEPT !.signal = @ /\ u # t, !.stop = @ \/ u = event]]
  /\ UNCHANGED <<clients, call, rows, members, marks, handles, process>>

Serving(t) == thread[t].stage = "serving"

SetOut(t, e, stage) == thread' = [thread EXCEPT ![t].out[e] = stage]

(* mark_outbound_connecting                                                *)
Dial(t, e) ==
  /\ Serving(t) /\ thread[t].out[e] = "queued"
  /\ SetOut(t, e, "dialing")
  /\ Mark([state EXCEPT ![e][Out] = "connecting"])
  /\ status' = "connecting"
  /\ UNCHANGED <<ready, clients, call, rows, members, handles, process>>

(* The client is registered; mark_outbound_ready.                          *)
Reach(t, e) ==
  /\ Serving(t) /\ thread[t].out[e] = "dialing"
  /\ SetOut(t, e, "up")
  /\ clients' = [clients EXCEPT ![e] = t]
  /\ Mark([state EXCEPT ![e][Out] = "ready"])
  /\ ready' = ready \cup {e}
  /\ status' = "ship_ready"
  /\ UNCHANGED <<call, rows, members, handles, process>>

\* Mutant: a session that is over stays registered.
KeepClient(t, e) == clients

Unregister(t, e) ==
  [clients EXCEPT ![e] = IF @ = t THEN 0 ELSE @]

(* mark_outbound_failed: the ready SKIs stay as they are.                  *)
Fail(t, e) ==
  /\ Serving(t) /\ thread[t].out[e] \in {"dialing", "up"}
  /\ SetOut(t, e, "none")
  /\ clients' = Unregister(t, e)
  /\ Mark([state EXCEPT ![e][Out] = "failed"])
  /\ status' = "failed"
  /\ UNCHANGED <<ready, call, rows, members, handles, process>>

(* The peer ends the session; mark_closed.                                 *)
End(t, e) ==
  /\ Serving(t) /\ thread[t].out[e] = "up"
  /\ SetOut(t, e, "none")
  /\ clients' = Unregister(t, e)
  /\ LET s == [state EXCEPT ![e][Out] = "closed"] IN Mark(s) /\ MarkClosed(s)
  /\ UNCHANGED <<call, rows, members, handles, process>>

(* A trusted peer connects to the server; mark_ready.                      *)
Arrive(t, e) ==
  /\ Serving(t) /\ In \in thread[t].directions
  /\ e \in thread[t].peers \ thread[t].in
  /\ thread' = [thread EXCEPT ![t].in = @ \cup {e}]
  /\ IF e \in peers THEN Mark([state EXCEPT ![e][In] = "ready"])
     ELSE UNCHANGED <<state, active>>
  /\ ready' = ready \cup {e}
  /\ status' = "ship_ready"
  /\ UNCHANGED <<clients, call, rows, members, handles, process>>

(* It leaves: the trace logger of the server does not know which endpoint  *)
(* it was, so no state is changed.                                         *)
Leave(t, e) ==
  /\ Serving(t) /\ e \in thread[t].in
  /\ thread' = [thread EXCEPT ![t].in = @ \ {e}]
  /\ MarkClosed(state)
  /\ UNCHANGED <<state, active, clients, call, rows, members, handles,
                 process>>

(* The event is set: tasks are cancelled, which marks nothing, and the     *)
(* server is stopped.                                                      *)
Finish(t) ==
  /\ Serving(t) /\ thread[t].stop
  /\ Change(t, [NoThread EXCEPT !.stage = "ended"])
  /\ clients' = [e \in Endpoints |-> IF clients[e] = t THEN 0 ELSE clients[e]]
  /\ UNCHANGED <<call, rows, members, marks, handles, process>>

-----------------------------------------------------------------------------
(* The process ends, in whatever way, and another one starts.              *)
Restart ==
  /\ crashes < MaxCrashes
  /\ Cardinality(Endpoints) <= Spare
  /\ crashes' = crashes + 1
  /\ booting' = TRUE
  /\ call' = [c \in Callers |-> NoCall]
  /\ thread' = [t \in Threads |->
       IF thread[t].stage = "none" THEN NoThread
       ELSE [NoThread EXCEPT !.stage = "ended"]]
  /\ current' = 0 /\ loop' = 0 /\ event' = 0
  /\ clients' = [e \in Endpoints |-> 0]
  /\ ClearRuntime
  /\ UNCHANGED rows

(* No call is in progress; what the peers do need not go on.               *)
Rest == Idle /\ ~booting /\ UNCHANGED vars

Init ==
  /\ endpoint = [e \in Endpoints |-> "observed"]
  /\ certified = {}
  /\ peers = {} /\ listed = {}
  /\ state = [e \in Endpoints |-> [d \in Directions |-> "none"]]
  /\ ready = {}
  /\ status = "not_started"
  /\ active = {}
  /\ clients = [e \in Endpoints |-> 0]
  /\ current = 0 /\ loop = 0 /\ event = 0
  /\ thread = [t \in Threads |-> NoThread]
  /\ call = [c \in Callers |-> NoCall]
  /\ booting = FALSE
  /\ crashes = 0

CallStep(c) ==
  \/ Update(c) \/ Signal(c) \/ Join(c) \/ Forget(c)
  \/ Spawn(c) \/ Poll(c) \/ Report(c)

ThreadStep(t) ==
  \/ Enter(t) \/ Prepare(t) \/ Open(t) \/ HandleSignal(t) \/ Finish(t)

SessionStep(t, e) ==
  Dial(t, e) \/ Reach(t, e) \/ Fail(t, e) \/ End(t, e)
    \/ Arrive(t, e) \/ Leave(t, e)

Next ==
  \/ \E c \in Callers :
       Establish(c) \/ Resume(c) \/ Disconnect(c) \/ Remove(c) \/ CallStep(c)
  \/ \E t \in Threads : ThreadStep(t) \/ \E e \in Endpoints : SessionStep(t, e)
  \/ Restart
  \/ Rest

Spec == Init /\ [][Next]_vars

(* Calls and threads run on.  Nothing is assumed of the peers.             *)
FairSpec ==
  /\ Spec
  /\ \A c \in Callers : WF_vars(CallStep(c))
  /\ \A t \in Threads : WF_vars(ThreadStep(t))

-----------------------------------------------------------------------------
(* Properties *)

(* Every variable holds a value of its type.                               *)
TypeOK ==
  /\ endpoint \in [Endpoints -> EndpointStatuses]
  /\ certified \subseteq Endpoints
  /\ peers \subseteq Endpoints /\ listed \subseteq Endpoints
  /\ state \in [Endpoints -> [Directions -> States]]
  /\ ready \subseteq Endpoints
  /\ status \in Statuses
  /\ active \subseteq Directions
  /\ clients \in [Endpoints -> 0 .. MaxThreads]
  /\ {current, loop, event} \subseteq 0 .. MaxThreads
  /\ thread \in [Threads -> ThreadRecords]
  /\ call \in [Callers -> CallRecords]
  /\ booting \in BOOLEAN
  /\ crashes \in Nat

Connected(e) ==
  \E t \in Threads : thread[t].out[e] = "up" \/ e \in thread[t].in

(* Stopping and starting, in whatever order calls, threads and sessions    *)
(* move, never leaves two runtime threads behind.                          *)
OneRuntime == Cardinality({t \in Threads : Alive(t)}) <= 1

(* A registered outbound client is the client of a session that is up:     *)
(* limits are never written to a session that is over.                     *)
ClientsLive ==
  \A e \in Endpoints : clients[e] # 0 => thread[clients[e]].out[e] = "up"

(* When the last peer is gone nothing of the runtime is left: no thread,   *)
(* no ready SKI, no state of a connection.                                 *)
NothingAfterTheLast ==
  Idle /\ peers = {} =>
    /\ \A t \in Threads : ~Alive(t)
    /\ ready = {} /\ active = {} /\ status = "not_started"
    /\ \A e \in Endpoints, d \in Directions : state[e][d] = "none"

(* Every peer of the manager is a peer of its thread.                      *)
PeersServed ==
  Idle /\ ~booting =>
    \A e \in peers : Alive(current) => e \in thread[current].peers

(* The workflow reports a SHIP session as ready only if there is one.      *)
ReadyIsVerified ==
  [][\A c \in Callers :
       call'[c].stage = "report" /\ call'[c].ready /\ call[c].stage # "report"
       => Connected(call'[c].endpoint)]_vars

(* A peer that was dropped is eventually let go of by every thread.        *)
DroppedIsLetGo ==
  \A e \in Endpoints :
    e \notin peers ~>
      e \in peers \/ \A t \in Threads : Alive(t) => e \notin thread[t].peers
=============================================================================
