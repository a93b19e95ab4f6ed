------------------------- MODULE EebusRuntimeProofs -------------------------
(***************************************************************************)
(* Theorems about EebusRuntime for any endpoints and any bounds: types and *)
(* live clients for any number of request threads; and, when one of them   *)
(* at a time is inside the manager and stop() outlasts the thread, that    *)
(* there is one runtime at most, that it serves the peers of the manager,  *)
(* and that nothing of it is left when the last peer is gone.              *)
(***************************************************************************)
EXTENDS EebusRuntime, FiniteSetTheorems, TLAPS

-----------------------------------------------------------------------------
(* Invariants *)

(* Only a workflow, a disconnection or a removal reports to the database,  *)
(* and only the last two clear the runtime.                                *)
SaneCall(r) ==
  /\ r.stage = "report" =>
       r.operation \in {"establish", "disconnect", "remove"}
  /\ r.clear => r.operation \in {"disconnect", "remove"}

(* A thread has outbound sessions only while it serves.                    *)
SaneThread(r) == r.stage # "serving" => \A e \in Endpoints : r.out[e] = "none"

RuntimeInv ==
  /\ TypeOK
  /\ \A c \in Callers : SaneCall(call[c])
  /\ \A t \in Threads : SaneThread(thread[t])
  /\ ClientsLive

-----------------------------------------------------------------------------
(* Records *)

(* One call moves, the others stay where they are.                         *)
LEMMA CallMoves ==
  ASSUME TypeOK, NEW c \in Callers, NEW r \in CallRecords, Goto(c, r)
  PROVE  /\ call' \in [Callers -> CallRecords] /\ call'[c] = r
         /\ \A b \in Callers : b # c => call'[b] = call[b]
BY DEF TypeOK, Goto

(* One thread moves, the others stay where they are.                       *)
LEMMA ThreadMoves ==
  ASSUME TypeOK, NEW t \in Threads, NEW r \in ThreadRecords,
         thread' = [thread EXCEPT ![t] = r]
  PROVE  /\ thread' \in [Threads -> ThreadRecords] /\ thread'[t] = r
         /\ \A u \in Threads : u # t => thread'[u] = thread[u]
BY DEF TypeOK

(* The records of no call and of no thread.                                *)
LEMMA NoRecords ==
  /\ NoCall \in CallRecords /\ NoCall.stage = "idle" /\ ~NoCall.clear
  /\ NoThread \in ThreadRecords /\ NoThread.stage = "none"
  /\ NoThread.signal = FALSE /\ NoThread.stop = FALSE
  /\ \A e \in Endpoints : NoThread.out[e] = "none"
<1>1. (CHOOSE e \in Endpoints : TRUE) \in Endpoints /\ MaxThreads \in Nat
  BY ConstantsAssumption
<1>2. 0 \in 0 .. MaxThreads
  BY <1>1
<1>3. NoCall \in CallRecords
  BY <1>1, <1>2 DEF NoCall, CallRecords
<1>4. NoThread \in ThreadRecords
  BY DEF NoThread, ThreadRecords
<1> QED BY <1>3, <1>4 DEF NoCall, NoThread

(* A new thread, one that has ended, and the stages in between.            *)
LEMMA ThreadTypes ==
  ASSUME NEW r \in ThreadRecords
  PROVE  /\ \A ps \in SUBSET Endpoints, ds \in SUBSET Directions :
              [NoThread EXCEPT !.stage = "new", !.peers = ps,
                               !.directions = ds] \in ThreadRecords
         /\ [NoThread EXCEPT !.stage = "ended"] \in ThreadRecords
         /\ [r EXCEPT !.stage = "loop"] \in ThreadRecords
         /\ [r EXCEPT !.stage = "open"] \in ThreadRecords
         /\ [r EXCEPT !.signal = TRUE] \in ThreadRecords
BY NoRecords DEF ThreadRecords

(* Marking keeps the types.                                                *)
LEMMA MarkTypes ==
  ASSUME NEW s \in [Endpoints -> [Directions -> States]], Mark(s)
  PROVE  state' = s /\ active' \subseteq Directions
BY DEF Mark, ActiveIn

(* The states a mark gives one endpoint.                                   *)
LEMMA StateTypes ==
  ASSUME NEW s \in [Endpoints -> [Directions -> States]], NEW e \in Endpoints
  PROVE  /\ \A d \in Directions, x \in States :
              [s EXCEPT ![e][d] = x]
                 \in [Endpoints -> [Directions -> States]]
         /\ \A f \in [Directions -> States] :
              [s EXCEPT ![e] = f] \in [Endpoints -> [Directions -> States]]
OBVIOUS

(* The record with which a call goes on.                                   *)
Moves(c) == \E r \in CallRecords : SaneCall(r) /\ Goto(c, r)

(* What a call returns to is a sane call.                                  *)
LEMMA ReturnedIsSane ==
  ASSUME NEW r \in CallRecords, SaneCall(r), NEW seems \in BOOLEAN
  PROVE  /\ Returned(r, seems) \in CallRecords /\ SaneCall(Returned(r, seems))
         /\ Returned(r, seems).stage \in {"idle", "update", "report"}
<1>1. CASE r.operation = "establish"
  BY <1>1 DEF Returned, CallRecords, SaneCall
<1>2. CASE r.operation # "establish" /\ r.todo = {}
  BY <1>2, NoRecords DEF Returned, SaneCall
<1>3. CASE r.operation # "establish" /\ r.todo # {}
  BY <1>3 DEF Returned, CallRecords, SaneCall
<1> QED BY <1>1, <1>2, <1>3

(* Every step of a call goes on with a sane call.                          *)
LEMMA CallsMove ==
  ASSUME RuntimeInv, NEW c \in Callers
  PROVE  /\ Establish(c) => Moves(c)
         /\ Resume(c) => Moves(c) \/ UNCHANGED call
         /\ Disconnect(c) => Moves(c)
         /\ Remove(c) => Moves(c)
         /\ CallStep(c) => Moves(c)
<1> DEFINE q == call[c]
<1>1. /\ q \in CallRecords /\ SaneCall(q) /\ current \in 0 .. MaxThreads
      /\ loop \in 0 .. MaxThreads /\ active \subseteq Directions
      /\ 0 \in 0 .. MaxThreads
  BY ConstantsAssumption DEF RuntimeInv, TypeOK
<1>2. ASSUME Establish(c) PROVE Moves(c)
  <2>1. PICK e \in Endpoints :
          Goto(c, [NoCall EXCEPT !.stage = "update",
                                 !.operation = "establish", !.todo = {e}])
    BY <1>2 DEF Establish
  <2> DEFINE r == [NoCall EXCEPT !.stage = "update",
                                 !.operation = "establish", !.todo = {e}]
  <2>2. r \in CallRecords /\ SaneCall(r)
    BY NoRecords DEF CallRecords, SaneCall
  <2> QED BY <2>1, <2>2 DEF Moves
<1>3. ASSUME Resume(c) PROVE Moves(c) \/ UNCHANGED call
  <2> DEFINE todo == {e \in certified : endpoint[e] \in {"observed",
                                                          "connected"}}
             r == [NoCall EXCEPT !.stage = "update", !.operation = "resume",
                                 !.todo = todo]
  <2>1. UNCHANGED call \/ Goto(c, r)
    BY <1>3 DEF Resume
  <2>2. todo \subseteq Endpoints
    BY DEF RuntimeInv, TypeOK
  <2> HIDE DEF todo
  <2>3. r \in CallRecords /\ SaneCall(r)
    BY <2>2, NoRecords DEF CallRecords, SaneCall
  <2> QED BY <2>1, <2>3 DEF Moves
<1>4. ASSUME Disconnect(c) PROVE Moves(c)
  <2>1. PICK e \in Endpoints :
          Goto(c, [NoCall EXCEPT !.stage = "signal",
                     !.operation = "disconnect", !.endpoint = e,
                     !.directions = active, !.clear = (peers' = {})])
    BY <1>4 DEF Disconnect
  <2> DEFINE r == [NoCall EXCEPT !.stage = "signal",
                     !.operation = "disconnect", !.endpoint = e,
                     !.directions = active, !.clear = (peers' = {})]
  <2>2. r \in CallRecords /\ SaneCall(r)
    BY <1>1, NoRecords DEF CallRecords, SaneCall
  <2> QED BY <2>1, <2>2 DEF Moves
<1>5. ASSUME Remove(c) PROVE Moves(c)
  <2>1. PICK e \in Endpoints :
          Goto(c, [NoCall EXCEPT
                     !.stage = IF e \in listed THEN "signal" ELSE "report",
                     !.operation = "remove", !.endpoint = e, !.clear = TRUE])
    BY <1>5 DEF Remove
  <2> DEFINE r == [NoCall EXCEPT
                     !.stage = IF e \in listed THEN "signal" ELSE "report",
                     !.operation = "remove", !.endpoint = e, !.clear = TRUE]
  <2>2. r \in CallRecords /\ SaneCall(r)
    BY NoRecords DEF CallRecords, SaneCall
  <2> QED BY <2>1, <2>2 DEF Moves
<1>6. ASSUME Update(c) PROVE Moves(c)
  <2>1. PICK e \in q.todo, moved \in BOOLEAN :
          LET r == [q EXCEPT !.endpoint = e, !.todo = @ \ {e}]
              repaired == [state EXCEPT ![e] =
                             [d \in Directions |->
                                IF e \in ready THEN "ready" ELSE @[d]]]
          IN IF CanReuse(e, moved)
             THEN Goto(c, Returned(r, SeemsReady(e, repaired)))
             ELSE Goto(c, [r EXCEPT !.stage = "signal",
                                    !.directions = Directions])
    BY <1>6 DEF Update
  <2> DEFINE r == [q EXCEPT !.endpoint = e, !.todo = @ \ {e}]
             w == [r EXCEPT !.stage = "signal", !.directions = Directions]
  <2>2. e \in Endpoints
    BY <1>1 DEF CallRecords
  <2>3. r \in CallRecords /\ SaneCall(r) /\ w \in CallRecords /\ SaneCall(w)
    BY <1>1, <2>2 DEF CallRecords, SaneCall
  <2>4. \/ \E s : Goto(c, Returned(r, SeemsReady(e, s)))
        \/ Goto(c, w)
    BY <2>1
  <2>5. \A s : SeemsReady(e, s) \in BOOLEAN
    BY DEF SeemsReady
  <2> HIDE DEF r, w
  <2> QED BY <2>3, <2>4, <2>5, ReturnedIsSane DEF Moves
<1>7. ASSUME Signal(c) PROVE Moves(c)
  <2>1. \/ Goto(c, [q EXCEPT !.stage = "join", !.waits = loop])
        \/ Goto(c, [q EXCEPT !.stage = "join", !.waits = 0])
    BY <1>7 DEF Signal
  <2>2. \A w \in 0 .. MaxThreads :
          /\ [q EXCEPT !.stage = "join", !.waits = w] \in CallRecords
          /\ SaneCall([q EXCEPT !.stage = "join", !.waits = w])
    BY <1>1 DEF CallRecords, SaneCall
  <2> QED BY <1>1, <2>1, <2>2 DEF Moves
<1>8. ASSUME Join(c) PROVE Moves(c)
  <2> DEFINE w == [q EXCEPT !.stage = "forget", !.waits = current]
  <2>1. w \in CallRecords /\ SaneCall(w)
    BY <1>1 DEF CallRecords, SaneCall
  <2> QED BY <1>8, <2>1 DEF Join, Moves
<1>9. ASSUME Forget(c) PROVE Moves(c)
  <2>1. CASE q.clear
    <3> DEFINE w == [q EXCEPT !.stage = "report"]
    <3>1. w \in CallRecords /\ SaneCall(w)
      BY <1>1, <2>1 DEF CallRecords, SaneCall
    <3> QED BY <1>9, <2>1, <3>1 DEF Forget, Moves
  <2>2. CASE ~q.clear
    <3> DEFINE w == [q EXCEPT !.stage = "spawn"]
    <3>1. w \in CallRecords /\ SaneCall(w)
      BY <1>1, <2>2 DEF CallRecords, SaneCall
    <3> QED BY <1>9, <2>2, <3>1 DEF Forget, Moves
  <2> QED BY <2>1, <2>2
<1>10. ASSUME Spawn(c) PROVE Moves(c)
  <2> DEFINE w == [q EXCEPT !.stage = IF q.operation = "disconnect"
                                      THEN "report" ELSE "poll"]
  <2>1. w \in CallRecords /\ SaneCall(w)
    BY <1>1 DEF CallRecords, SaneCall
  <2> QED BY <1>10, <2>1 DEF Spawn, Moves
<1>11. ASSUME Poll(c) PROVE Moves(c)
  <2>1. SeemsReady(q.endpoint, state) \in BOOLEAN
    BY DEF SeemsReady
  <2> QED BY <1>1, <1>11, <2>1, ReturnedIsSane DEF Poll, Moves
<1>12. ASSUME Report(c) PROVE Moves(c)
  BY <1>12, NoRecords DEF Report, Moves, SaneCall
<1> QED
  BY <1>2, <1>3, <1>4, <1>5, <1>6, <1>7, <1>8, <1>9, <1>10, <1>11, <1>12
     DEF CallStep

(* The calls keep their types and stay sane.                               *)
LEMMA CallsStep ==
  ASSUME RuntimeInv, [Next]_vars
  PROVE  /\ call' \in [Callers -> CallRecords]
         /\ \A c \in Callers : SaneCall(call'[c])
<1> DEFINE Goal == /\ call' \in [Callers -> CallRecords]
                   /\ \A c \in Callers : SaneCall(call'[c])
<1>1. ASSUME UNCHANGED call PROVE Goal
  BY <1>1 DEF RuntimeInv, TypeOK
<1>2. ASSUME NEW c \in Callers, Moves(c) PROVE Goal
  <2>1. PICK r \in CallRecords : SaneCall(r) /\ Goto(c, r)
    BY <1>2 DEF Moves
  <2>2. /\ call' \in [Callers -> CallRecords] /\ call'[c] = r
        /\ \A b \in Callers : b # c => call'[b] = call[b]
    BY <2>1, CallMoves DEF RuntimeInv
  <2> QED BY <2>1, <2>2 DEF RuntimeInv
<1>3. ASSUME NEW c \in Callers,
             \/ Establish(c) \/ Resume(c) \/ Disconnect(c) \/ Remove(c)
             \/ CallStep(c)
      PROVE  Goal
  BY <1>1, <1>2, <1>3, CallsMove
<1>4. ASSUME NEW t \in Threads, ThreadStep(t) PROVE UNCHANGED call
  BY <1>4 DEF ThreadStep, Enter, Prepare, Open, HandleSignal, Finish
<1>5. ASSUME NEW t \in Threads, NEW e \in Endpoints, SessionStep(t, e)
      PROVE  UNCHANGED call
  BY <1>5 DEF SessionStep, Dial, Reach, Fail, End, Arrive, Leave
<1>6. ASSUME Restart PROVE Goal
  BY <1>6, NoRecords DEF Restart, SaneCall
<1>7. ASSUME Rest \/ UNCHANGED vars PROVE UNCHANGED call
  BY <1>7 DEF Rest, vars
<1> QED BY <1>1, <1>3, <1>4, <1>5, <1>6, <1>7 DEF Next

-----------------------------------------------------------------------------
(* Threads *)

(* The session of thread t with endpoint e moves, and nothing else.        *)
LEMMA SessionMoves ==
  ASSUME TypeOK, NEW t \in Threads, NEW e \in Endpoints,
         NEW x \in {"none", "queued", "dialing", "up"}, SetOut(t, e, x)
  PROVE  /\ thread' \in [Threads -> ThreadRecords]
         /\ thread'[t].out[e] = x
         /\ \A f \in Endpoints : f # e => thread'[t].out[f] = thread[t].out[f]
         /\ \A u \in Threads :
              /\ u # t => thread'[u] = thread[u]
              /\ thread'[u].stage = thread[u].stage
              /\ thread'[u].peers = thread[u].peers
<1> DEFINE r == [thread[t] EXCEPT !.out = [@ EXCEPT ![e] = x]]
<1>1. thread[t] \in ThreadRecords
  BY DEF TypeOK
<1>2. /\ r \in ThreadRecords /\ r.out[e] = x
      /\ \A f \in Endpoints : f # e => r.out[f] = thread[t].out[f]
      /\ r.stage = thread[t].stage /\ r.peers = thread[t].peers
  BY <1>1 DEF ThreadRecords
<1>3. thread' = [thread EXCEPT ![t] = r]
  BY DEF SetOut
<1> HIDE DEF r
<1>4. /\ thread' \in [Threads -> ThreadRecords] /\ thread'[t] = r
      /\ \A u \in Threads : u # t => thread'[u] = thread[u]
  BY <1>2, <1>3, ThreadMoves
<1> QED BY <1>2, <1>4

(* A signal reaches the loop: stages, peers and sessions stay.             *)
LEMMA SignalsMove ==
  ASSUME TypeOK, NEW t \in Threads, HandleSignal(t)
  PROVE  /\ thread' \in [Threads -> ThreadRecords]
         /\ \A u \in Threads :
              /\ thread'[u].stage = thread[u].stage
              /\ thread'[u].peers = thread[u].peers
              /\ thread'[u].out = thread[u].out
<1> SUFFICES ASSUME NEW u \in Threads
             PROVE  /\ thread'[u] \in ThreadRecords
                    /\ thread'[u].stage = thread[u].stage
                    /\ thread'[u].peers = thread[u].peers
                    /\ thread'[u].out = thread[u].out
  BY DEF HandleSignal
<1> DEFINE signal == thread[u].signal /\ u # t
           stop == thread[u].stop \/ u = event
<1>1. thread'[u] = [thread[u] EXCEPT !.signal = signal, !.stop = stop]
  BY DEF HandleSignal
<1>2. thread[u] \in ThreadRecords
  BY DEF TypeOK
<1>3. signal \in BOOLEAN /\ stop \in BOOLEAN
  OBVIOUS
<1> HIDE DEF signal, stop
<1> QED BY <1>1, <1>2, <1>3 DEF ThreadRecords

(* What a step of the runtime, or of a call, makes of the threads: one     *)
(* ends, starts, goes to another stage or is told to stop, or one session  *)
(* of a serving thread moves.                                              *)
LEMMA ThreadsMove ==
  ASSUME RuntimeInv, NEW t \in Threads
  PROVE  /\ \A c \in Callers : Spawn(c) =>
              \E u \in Threads :
                /\ thread[u].stage = "none" /\ current' = u
                /\ thread' = [thread EXCEPT ![u] =
                     [NoThread EXCEPT !.stage = "new", !.peers = peers,
                                      !.directions = call[c].directions]]
         /\ ThreadStep(t) =>
              /\ thread[t].stage \in {"new", "loop", "open", "serving"}
              /\ thread' \in [Threads -> ThreadRecords]
              /\ SaneThread(thread'[t])
              /\ thread'[t].stage # "ended" =>
                   thread'[t].peers = thread[t].peers
              /\ \A u \in Threads : u # t =>
                   /\ thread'[u].stage = thread[u].stage
                   /\ thread'[u].peers = thread[u].peers
                   /\ thread'[u].out = thread[u].out
<1>1. /\ thread[t] \in ThreadRecords /\ SaneThread(thread[t])
      /\ peers \subseteq Endpoints
  BY DEF RuntimeInv, TypeOK
<1>2. ASSUME NEW c \in Callers, Spawn(c)
      PROVE  \E u \in Threads :
                /\ thread[u].stage = "none" /\ current' = u
                /\ thread' = [thread EXCEPT ![u] =
                     [NoThread EXCEPT !.stage = "new", !.peers = peers,
                                      !.directions = call[c].directions]]
  <2>1. \A u \in Threads : u <= u
    BY ConstantsAssumption DEF Threads
  <2> QED BY <1>2, <2>1 DEF Spawn
<1> DEFINE Goal ==
      /\ thread[t].stage \in {"new", "loop", "open", "serving"}
      /\ thread' \in [Threads -> ThreadRecords]
      /\ SaneThread(thread'[t])
      /\ thread'[t].stage # "ended" => thread'[t].peers = thread[t].peers
      /\ \A u \in Threads : u # t =>
           /\ thread'[u].stage = thread[u].stage
           /\ thread'[u].peers = thread[u].peers
           /\ thread'[u].out = thread[u].out
<1>3. ASSUME NEW r \in ThreadRecords, SaneThread(r), Change(t, r),
             thread[t].stage \in {"new", "loop", "open", "serving"},
             r.stage # "ended" => r.peers = thread[t].peers
      PROVE  Goal
  <2>1. /\ thread' \in [Threads -> ThreadRecords] /\ thread'[t] = r
        /\ \A u \in Threads : u # t => thread'[u] = thread[u]
    BY <1>3, ThreadMoves DEF Change, RuntimeInv
  <2> QED BY <1>3, <2>1
<1> DEFINE ended == [NoThread EXCEPT !.stage = "ended"]
<1>4. ended \in ThreadRecords /\ ended.stage = "ended" /\ SaneThread(ended)
  BY NoRecords DEF ThreadRecords, SaneThread
<1> HIDE DEF ended, Goal
<1>5. ASSUME Enter(t) PROVE Goal
  <2> DEFINE r == [thread[t] EXCEPT !.stage = "loop"]
  <2>1. r \in ThreadRecords /\ SaneThread(r) /\ r.peers = thread[t].peers
    BY <1>1, <1>5 DEF Enter, ThreadRecords, SaneThread
  <2> QED BY <1>3, <1>5, <2>1 DEF Enter
<1>6. ASSUME Prepare(t) PROVE Goal
  <2> DEFINE r == [thread[t] EXCEPT !.stage = "open"]
  <2>1. r \in ThreadRecords /\ SaneThread(r) /\ r.peers = thread[t].peers
    BY <1>1, <1>6 DEF Prepare, ThreadRecords, SaneThread
  <2>2. thread[t].stage = "loop" /\ (Change(t, ended) \/ Change(t, r))
    BY <1>6 DEF Prepare, GiveUp, ended
  <2> HIDE DEF r
  <2> QED BY <1>3, <1>4, <2>1, <2>2
<1>7. ASSUME Open(t) PROVE Goal
  <2> DEFINE out == [e \in Endpoints |->
                       IF Out \in thread[t].directions /\ e \in thread[t].peers
                       THEN "queued" ELSE "none"]
             r == [thread[t] EXCEPT !.stage = "serving", !.out = out]
  <2>1. out \in [Endpoints -> {"none", "queued", "dialing", "up"}]
    OBVIOUS
  <2>2. thread[t].stage = "open" /\ (Change(t, ended) \/ Change(t, r))
    BY <1>7 DEF Open, GiveUp, ended
  <2> HIDE DEF out
  <2>3. r \in ThreadRecords /\ SaneThread(r) /\ r.peers = thread[t].peers
    BY <1>1, <2>1 DEF ThreadRecords, SaneThread
  <2> HIDE DEF r
  <2> QED BY <1>3, <1>4, <2>2, <2>3
<1>8. ASSUME HandleSignal(t) PROVE Goal
  BY <1>1, <1>8, SignalsMove DEF HandleSignal, RuntimeInv, SaneThread, Goal
<1>9. ASSUME Finish(t) PROVE Goal
  <2>1. thread[t].stage = "serving" /\ Change(t, ended)
    BY <1>9 DEF Finish, Serving, ended
  <2> QED BY <1>3, <1>4, <2>1
<1> QED BY <1>2, <1>5, <1>6, <1>7, <1>8, <1>9 DEF ThreadStep, Goal

(* A step of a session moves no thread to another stage, and touches no    *)
(* outbound session but its own.                                           *)
LEMMA SessionsMove ==
  ASSUME RuntimeInv, NEW t \in Threads, NEW e \in Endpoints, SessionStep(t, e)
  PROVE  /\ thread[t].stage = "serving"
         /\ thread' \in [Threads -> ThreadRecords]
         /\ \A u \in Threads :
              /\ thread'[u].stage = thread[u].stage
              /\ thread'[u].peers = thread[u].peers
              /\ \A f \in Endpoints : u # t \/ f # e =>
                   thread'[u].out[f] = thread[u].out[f]
<1> DEFINE Goal ==
      /\ thread' \in [Threads -> ThreadRecords]
      /\ \A u \in Threads :
           /\ thread'[u].stage = thread[u].stage
           /\ thread'[u].peers = thread[u].peers
           /\ \A f \in Endpoints : u # t \/ f # e =>
                thread'[u].out[f] = thread[u].out[f]
<1>1. thread[t].stage = "serving"
  BY DEF SessionStep, Dial, Reach, Fail, End, Arrive, Leave, Serving
<1>2. ASSUME NEW x \in {"none", "queued", "dialing", "up"}, SetOut(t, e, x)
      PROVE  Goal
  BY <1>2, SessionMoves DEF RuntimeInv
<1>3. ASSUME NEW s \in SUBSET Endpoints,
             thread' = [thread EXCEPT ![t] = [thread[t] EXCEPT !.in = s]]
      PROVE  Goal
  <2> DEFINE r == [thread[t] EXCEPT !.in = s]
  <2>1. thread[t] \in ThreadRecords
    BY DEF RuntimeInv, TypeOK
  <2>2. /\ r \in ThreadRecords /\ r.stage = thread[t].stage
        /\ r.peers = thread[t].peers /\ r.out = thread[t].out
    BY <2>1 DEF ThreadRecords
  <2> HIDE DEF r
  <2>3. /\ thread' \in [Threads -> ThreadRecords] /\ thread'[t] = r
        /\ \A u \in Threads : u # t => thread'[u] = thread[u]
    BY <1>3, <2>2, ThreadMoves DEF RuntimeInv, r
  <2> QED BY <2>2, <2>3
<1> HIDE DEF Goal
<1>4. CASE Dial(t, e) \/ Reach(t, e) \/ Fail(t, e) \/ End(t, e)
  BY <1>1, <1>2, <1>4 DEF Dial, Reach, Fail, End, Goal
<1>5. CASE Arrive(t, e) \/ Leave(t, e)
  <2>1. thread[t].in \subseteq Endpoints
    BY DEF RuntimeInv, TypeOK, ThreadRecords
  <2>2. \E s \in SUBSET Endpoints :
          thread' = [thread EXCEPT ![t] = [thread[t] EXCEPT !.in = s]]
    <3>1. CASE Arrive(t, e)
      <4>1. thread' = [thread EXCEPT ![t] =
                         [thread[t] EXCEPT !.in = thread[t].in \cup {e}]]
        BY <3>1 DEF Arrive
      <4> QED BY <2>1, <4>1
    <3>2. CASE Leave(t, e)
      <4>1. thread' = [thread EXCEPT ![t] =
                         [thread[t] EXCEPT !.in = thread[t].in \ {e}]]
        BY <3>2 DEF Leave
      <4> QED BY <2>1, <4>1
    <3> QED BY <1>5, <3>1, <3>2
  <2> QED BY <1>1, <1>3, <2>2 DEF Goal
<1> QED BY <1>1, <1>4, <1>5 DEF SessionStep, Goal

(* Every step keeps the threads' types, and their sessions to their stage. *)
LEMMA ThreadsStep ==
  ASSUME RuntimeInv, [Next]_vars
  PROVE  /\ thread' \in [Threads -> ThreadRecords]
         /\ \A t \in Threads : SaneThread(thread'[t])
<1> DEFINE Goal == /\ thread' \in [Threads -> ThreadRecords]
                   /\ \A t \in Threads : SaneThread(thread'[t])
<1>1. ASSUME UNCHANGED thread PROVE Goal
  BY <1>1 DEF RuntimeInv, TypeOK
<1>2. ASSUME NEW t \in Threads, NEW r \in ThreadRecords, SaneThread(r),
             thread' = [thread EXCEPT ![t] = r]
      PROVE  Goal
  BY <1>2, ThreadMoves DEF RuntimeInv
<1>3. ASSUME NEW c \in Callers, Signal(c) PROVE Goal
  <2>1. CASE UNCHANGED thread
    BY <1>1, <2>1
  <2>2. CASE /\ Looping(loop)
             /\ thread' = [thread EXCEPT ![loop].signal = TRUE]
    <3> DEFINE r == [thread[loop] EXCEPT !.signal = TRUE]
    <3>1. loop \in Threads
      BY <2>2, ConstantsAssumption
         DEF RuntimeInv, TypeOK, Threads, Looping
    <3>2. thread[loop] \in ThreadRecords /\ SaneThread(thread[loop])
      BY <3>1 DEF RuntimeInv, TypeOK
    <3>3. r \in ThreadRecords /\ SaneThread(r)
      BY <3>2 DEF ThreadRecords, SaneThread
    <3>4. thread' = [thread EXCEPT ![loop] = r]
      BY <2>2
    <3> HIDE DEF r
    <3> QED BY <1>2, <3>1, <3>3, <3>4
  <2> QED BY <1>3, <2>1, <2>2 DEF Signal
<1>4. ASSUME NEW c \in Callers, Spawn(c) PROVE Goal
  <2> DEFINE r == [NoThread EXCEPT !.stage = "new", !.peers = peers,
                                   !.directions = call[c].directions]
  <2>1. \E u \in Threads : thread' = [thread EXCEPT ![u] = r]
    BY <1>4, ThreadsMove DEF Spawn
  <2>2. peers \subseteq Endpoints /\ call[c].directions \subseteq Directions
    BY DEF RuntimeInv, TypeOK, CallRecords
  <2>3. r \in ThreadRecords /\ SaneThread(r)
    BY <2>2, NoRecords DEF ThreadRecords, SaneThread
  <2> HIDE DEF r
  <2> QED BY <1>2, <2>1, <2>3
<1>5. ASSUME NEW c \in Callers,
             \/ Establish(c) \/ Resume(c) \/ Disconnect(c) \/ Remove(c)
             \/ Update(c) \/ Join(c) \/ Forget(c) \/ Poll(c) \/ Report(c)
      PROVE  UNCHANGED thread
  BY <1>5 DEF Establish, Resume, Disconnect, Remove, Update, Join, Forget,
     Poll, Report
<1>6. ASSUME NEW t \in Threads, ThreadStep(t) PROVE Goal
  <2>1. /\ thread' \in [Threads -> ThreadRecords] /\ SaneThread(thread'[t])
        /\ \A u \in Threads : u # t =>
             /\ thread'[u].stage = thread[u].stage
             /\ thread'[u].out = thread[u].out
    BY <1>6, ThreadsMove
  <2>2. ASSUME NEW u \in Threads, u # t PROVE SaneThread(thread'[u])
    BY <2>1, <2>2 DEF RuntimeInv, SaneThread
  <2> QED BY <2>1, <2>2
<1>7. ASSUME NEW t \in Threads, NEW e \in Endpoints, SessionStep(t, e)
      PROVE  Goal
  BY <1>7, SessionsMove DEF RuntimeInv, SaneThread
<1>8. ASSUME Restart PROVE Goal
  <2> DEFINE ended == [NoThread EXCEPT !.stage = "ended"]
  <2>1. ended \in ThreadRecords /\ SaneThread(ended) /\ SaneThread(NoThread)
    BY NoRecords DEF ThreadRecords, SaneThread
  <2>2. thread' = [t \in Threads |->
                     IF thread[t].stage = "none" THEN NoThread ELSE ended]
    BY <1>8 DEF Restart
  <2> HIDE DEF ended
  <2> QED BY <2>1, <2>2, NoRecords
<1>9. ASSUME Rest \/ UNCHANGED vars PROVE UNCHANGED thread
  BY <1>9 DEF Rest, vars
<1> QED
  BY <1>1, <1>3, <1>4, <1>5, <1>6, <1>7, <1>8, <1>9 DEF Next, CallStep

-----------------------------------------------------------------------------
(* Clients *)

(* A session that is no longer up has taken its client from the registry.  *)
LEMMA ClientsStep ==
  ASSUME RuntimeInv, [Next]_vars
  PROVE  clients' \in [Endpoints -> 0 .. MaxThreads] /\ ClientsLive'
<1> DEFINE Goal == clients' \in [Endpoints -> 0 .. MaxThreads] /\ ClientsLive'
<1>1. /\ clients \in [Endpoints -> 0 .. MaxThreads]
      /\ \A e \in Endpoints : clients[e] # 0 =>
           clients[e] \in Threads /\ thread[clients[e]].out[e] = "up"
      /\ Threads \subseteq 0 .. MaxThreads /\ 0 \in 0 .. MaxThreads
  BY ConstantsAssumption DEF RuntimeInv, TypeOK, Threads, ClientsLive
<1>2. ASSUME clients' \in [Endpoints -> 0 .. MaxThreads],
             \A e \in Endpoints : clients'[e] # 0 =>
               /\ clients'[e] = clients[e]
               /\ thread'[clients[e]].out[e] = "up"
      PROVE  Goal
  BY <1>2 DEF ClientsLive
<1>3. ASSUME UNCHANGED clients,
             \A t \in Threads, e \in Endpoints :
               thread[t].out[e] = "up" => thread'[t].out[e] = "up"
      PROVE  Goal
  BY <1>1, <1>2, <1>3
<1>4. ASSUME NEW c \in Callers,
             \/ Establish(c) \/ Resume(c) \/ Remove(c) \/ Update(c)
             \/ Join(c) \/ Poll(c) \/ Report(c)
      PROVE  Goal
  BY <1>3, <1>4 DEF Establish, Resume, Remove, Update, Join, Poll, Report
<1>5. ASSUME NEW c \in Callers, Signal(c) PROVE Goal
  <2>1. \A t \in Threads : thread'[t].out = thread[t].out
    <3>1. thread \in [Threads -> ThreadRecords]
      BY DEF RuntimeInv, TypeOK
    <3>2. \/ UNCHANGED thread
          \/ thread' = [thread EXCEPT ![loop] =
                          [thread[loop] EXCEPT !.signal = TRUE]]
      BY <1>5 DEF Signal
    <3> QED BY <3>1, <3>2 DEF ThreadRecords
  <2> QED BY <1>3, <1>5, <2>1 DEF Signal
<1>6. ASSUME NEW c \in Callers, Spawn(c) PROVE Goal
  <2>1. PICK u \in Threads :
          /\ thread[u].stage = "none"
          /\ \A t \in Threads : t # u => thread'[t] = thread[t]
    <3>1. thread \in [Threads -> ThreadRecords]
      BY DEF RuntimeInv, TypeOK
    <3>2. PICK u \in Threads :
            /\ \A t \in Threads : thread[t].stage = "none" <=> u <= t
            /\ \E new : thread' = [thread EXCEPT ![u] = new]
      BY <1>6 DEF Spawn
    <3>3. u <= u
      BY ConstantsAssumption DEF Threads
    <3> QED BY <3>1, <3>2, <3>3
  <2>2. \A e \in Endpoints : thread[u].out[e] = "none"
    BY <2>1 DEF RuntimeInv, SaneThread
  <2> QED BY <1>3, <1>6, <2>1, <2>2 DEF Spawn
<1>7. ASSUME NEW c \in Callers, Disconnect(c) PROVE Goal
  <2>1. PICK e \in Endpoints : clients' = [clients EXCEPT ![e] = 0]
    BY <1>7 DEF Disconnect
  <2> QED BY <1>1, <1>2, <1>7, <2>1 DEF Disconnect
<1>8. ASSUME \/ \E c \in Callers : Forget(c)
             \/ Restart
      PROVE  Goal
  BY <1>1, <1>2, <1>8 DEF Forget, Restart
<1>9. ASSUME NEW t \in Threads, ThreadStep(t), ~Finish(t) PROVE Goal
  <2>1. /\ SaneThread(thread[t])
        /\ \A u \in Threads : u # t => thread'[u].out = thread[u].out
    BY <1>9, ThreadsMove DEF RuntimeInv
  <2>2. clients' = clients
    BY <1>9 DEF ThreadStep, Enter, Prepare, Open, HandleSignal
  <2>3. \/ thread[t].stage # "serving"
        \/ thread'[t].out = thread[t].out
    BY <1>9, SignalsMove
       DEF ThreadStep, Enter, Prepare, Open, HandleSignal, RuntimeInv
  <2> QED BY <1>3, <2>1, <2>2, <2>3 DEF SaneThread
<1>10. ASSUME NEW t \in Threads, Finish(t) PROVE Goal
  <2>1. /\ \A u \in Threads : u # t => thread'[u].out = thread[u].out
        /\ \A e \in Endpoints :
             clients'[e] = IF clients[e] = t THEN 0 ELSE clients[e]
        /\ clients' \in [Endpoints -> 0 .. MaxThreads]
    BY <1>1, <1>10, ThreadsMove DEF ThreadStep, Finish
  <2> QED BY <1>1, <1>2, <2>1
<1>11. ASSUME NEW t \in Threads, NEW e \in Endpoints, SessionStep(t, e)
       PROVE  Goal
  <2>1. \A u \in Threads, f \in Endpoints : u # t \/ f # e =>
          thread'[u].out[f] = thread[u].out[f]
    BY <1>11, SessionsMove
  <2>2. CASE Dial(t, e)
    BY <1>3, <2>1, <2>2 DEF Dial
  <2>3. CASE Reach(t, e)
    <3>1. thread'[t].out[e] = "up" /\ t # 0
      BY <2>3, SessionMoves, ConstantsAssumption
         DEF Reach, RuntimeInv, Threads
    <3>2. /\ clients' \in [Endpoints -> 0 .. MaxThreads]
          /\ clients'[e] = t
          /\ \A f \in Endpoints : f # e => clients'[f] = clients[f]
      BY <1>1, <2>3 DEF Reach
    <3> QED BY <1>1, <2>1, <3>1, <3>2 DEF ClientsLive
  <2>4. CASE Fail(t, e) \/ End(t, e)
    <3>1. /\ clients' \in [Endpoints -> 0 .. MaxThreads]
          /\ clients'[e] = IF clients[e] = t THEN 0 ELSE clients[e]
          /\ \A f \in Endpoints : f # e => clients'[f] = clients[f]
      BY <1>1, <2>4 DEF Fail, End, Unregister
    <3> QED BY <1>1, <1>2, <2>1, <3>1
  <2>5. CASE Arrive(t, e) \/ Leave(t, e)
    <3>1. \A u \in Threads : thread'[u].out = thread[u].out
      <4>1. /\ thread \in [Threads -> ThreadRecords]
            /\ thread[t] \in ThreadRecords
        BY DEF RuntimeInv, TypeOK
      <4>2. \E s : thread' = [thread EXCEPT ![t] =
                                [thread[t] EXCEPT !.in = s]]
        BY <2>5 DEF Arrive, Leave
      <4> QED BY <4>1, <4>2 DEF ThreadRecords
    <3> QED BY <1>3, <2>5, <3>1 DEF Arrive, Leave
  <2> QED BY <1>11, <2>2, <2>3, <2>4, <2>5 DEF SessionStep
<1>12. ASSUME Rest \/ UNCHANGED vars PROVE Goal
  BY <1>3, <1>12 DEF Rest, vars
<1> QED
  BY <1>4, <1>5, <1>6, <1>7, <1>8, <1>9, <1>10, <1>11, <1>12
     DEF Next, CallStep, ThreadStep

-----------------------------------------------------------------------------
(* The manager and the rows *)

(* The part of TypeOK about the manager and the database.                  *)
ManagerTypes ==
  /\ endpoint \in [Endpoints -> EndpointStatuses]
  /\ certified \subseteq Endpoints
  /\ peers \subseteq Endpoints /\ listed \subseteq Endpoints
  /\ state \in [Endpoints -> [Directions -> States]]
  /\ ready \subseteq Endpoints
  /\ status \in Statuses
  /\ active \subseteq Directions
  /\ {current, loop, event} \subseteq 0 .. MaxThreads
  /\ booting \in BOOLEAN
  /\ crashes \in Nat

(* Clearing the runtime, closing a connection and counting the ready peers *)
(* keep the types.                                                         *)
LEMMA ClearedTypes ==
  ASSUME ManagerTypes
  PROVE  /\ ClearRuntime =>
              /\ peers' \subseteq Endpoints /\ listed' \subseteq Endpoints
              /\ state' \in [Endpoints -> [Directions -> States]]
              /\ ready' \subseteq Endpoints /\ status' \in Statuses
              /\ active' \subseteq Directions
         /\ \A s : MarkClosed(s) =>
              ready' \subseteq Endpoints /\ status' \in Statuses
<1>1. ASSUME ClearRuntime
      PROVE  /\ peers' \subseteq Endpoints /\ listed' \subseteq Endpoints
             /\ state' \in [Endpoints -> [Directions -> States]]
             /\ ready' \subseteq Endpoints /\ status' \in Statuses
             /\ active' \subseteq Directions
  BY <1>1 DEF ClearRuntime, States, Statuses
<1>2. ASSUME NEW s, MarkClosed(s)
      PROVE  ready' \subseteq Endpoints /\ status' \in Statuses
  BY <1>2 DEF MarkClosed, ReadyIn, Statuses, ManagerTypes
<1> QED BY <1>1, <1>2

(* A call keeps the types of the manager and of the rows.                  *)
LEMMA CallsKeepTypes ==
  ASSUME RuntimeInv, NEW c \in Callers,
         \/ Establish(c) \/ Resume(c) \/ Disconnect(c) \/ Remove(c)
         \/ CallStep(c)
  PROVE  ManagerTypes'
<1>1. ManagerTypes /\ call[c] \in CallRecords /\ SaneCall(call[c])
  BY DEF RuntimeInv, TypeOK, ManagerTypes
<1>2. CASE Establish(c)
  BY <1>1, <1>2
     DEF Establish, ManagerTypes, members, marks, handles, process
<1>3. CASE Resume(c)
  BY <1>1, <1>3 DEF Resume, ManagerTypes, rows, members, marks, handles
<1>4. CASE Disconnect(c)
  <2>1. PICK e \in Endpoints :
          /\ peers' = peers \ {e}
          /\ state' = [state EXCEPT ![e] = [d \in Directions |-> "none"]]
          /\ ready' = ReadyIn(state', peers')
    BY <1>4 DEF Disconnect
  <2>2. [d \in Directions |-> "none"] \in [Directions -> States]
    BY DEF States
  <2>3. state' \in [Endpoints -> [Directions -> States]]
    BY <1>1, <2>1, <2>2, StateTypes DEF ManagerTypes
  <2>4. peers' \subseteq Endpoints /\ ready' \subseteq Endpoints
    BY <1>1, <2>1 DEF ManagerTypes, ReadyIn
  <2> QED BY <1>1, <1>4, <2>3, <2>4
          DEF Disconnect, ManagerTypes, rows, handles, process
<1>5. CASE Remove(c)
  BY <1>1, <1>5
     DEF Remove, ManagerTypes, rows, members, marks, handles, process
<1>6. CASE Update(c)
  <2>1. PICK e \in call[c].todo, moved \in BOOLEAN :
          LET repaired == [state EXCEPT ![e] =
                             [d \in Directions |->
                                IF e \in ready THEN "ready" ELSE @[d]]]
              starting == [state EXCEPT ![e] =
                             [d \in Directions |-> "starting"]]
          IN /\ peers' = peers \cup {e}
             /\ listed' = peers'
             /\ \/ Mark(repaired) /\ UNCHANGED status
                \/ Mark(starting) /\ status' = "starting"
    BY <1>6 DEF Update
  <2>2. e \in Endpoints
    BY <1>1 DEF CallRecords
  <2> DEFINE f == [d \in Directions |->
                     IF e \in ready THEN "ready" ELSE state[e][d]]
             g == [d \in Directions |-> "starting"]
  <2>3. f \in [Directions -> States] /\ g \in [Directions -> States]
    BY <1>1, <2>2 DEF ManagerTypes, States
  <2>4. \/ Mark([state EXCEPT ![e] = f]) /\ UNCHANGED status
        \/ Mark([state EXCEPT ![e] = g]) /\ status' = "starting"
    BY <2>1
  <2> HIDE DEF f, g
  <2>5. /\ state' \in [Endpoints -> [Directions -> States]]
        /\ active' \subseteq Directions
    <3>1. /\ [state EXCEPT ![e] = f]
               \in [Endpoints -> [Directions -> States]]
          /\ [state EXCEPT ![e] = g]
               \in [Endpoints -> [Directions -> States]]
      BY <1>1, <2>2, <2>3, StateTypes DEF ManagerTypes
    <3> QED BY <2>4, <3>1, MarkTypes
  <2>6. /\ peers' \subseteq Endpoints /\ listed' \subseteq Endpoints
        /\ status' \in Statuses
    BY <1>1, <2>1, <2>2 DEF ManagerTypes, Statuses
  <2> QED BY <1>1, <1>6, <2>5, <2>6
          DEF Update, ManagerTypes, rows, handles, process
<1>7. CASE Signal(c) \/ Join(c) \/ Poll(c)
  BY <1>1, <1>7
     DEF Signal, Join, Poll, ManagerTypes, rows, members, marks, handles,
         process
<1>8. CASE Forget(c)
  <2>1. {current', loop', event'} \subseteq 0 .. MaxThreads
    BY <1>8, ConstantsAssumption DEF Forget
  <2>2. CASE ClearRuntime
    BY <1>1, <1>8, <2>1, <2>2, ClearedTypes
       DEF Forget, ManagerTypes, rows, process
  <2>3. CASE UNCHANGED <<members, marks>>
    BY <1>1, <1>8, <2>1, <2>3
       DEF Forget, ManagerTypes, rows, process, members, marks
  <2> QED BY <1>8, <2>2, <2>3 DEF Forget
<1>9. CASE Spawn(c)
  <2>1. current' \in 0 .. MaxThreads
    BY <1>9, ConstantsAssumption DEF Spawn, Threads
  <2> QED BY <1>1, <1>9, <2>1
          DEF Spawn, ManagerTypes, rows, process, members, marks
<1>10. CASE Report(c)
  <2>1. endpoint' \in [Endpoints -> EndpointStatuses]
    <3> DEFINE r == call[c]
    <3>1. r.endpoint \in Endpoints
      BY <1>1 DEF CallRecords
    <3>2. endpoint' =
            [endpoint EXCEPT ![r.endpoint] =
               CASE r.operation = "disconnect" -> "disconnected"
                 [] r.operation = "remove" -> "removed"
                 [] r.operation = "establish" ->
                      IF r.ready /\ endpoint[r.endpoint] # "removed"
                      THEN "connected" ELSE endpoint[r.endpoint]]
      BY <1>10 DEF Report
    <3>3. r.operation \in {"establish", "disconnect", "remove"}
      BY <1>1, <1>10 DEF Report, SaneCall
    <3> HIDE DEF r
    <3>4. \E x \in EndpointStatuses :
            endpoint' = [endpoint EXCEPT ![r.endpoint] = x]
      BY <1>1, <3>1, <3>2, <3>3 DEF ManagerTypes, EndpointStatuses
    <3> QED BY <1>1, <3>4 DEF ManagerTypes
  <2> QED BY <1>1, <1>10, <2>1
          DEF Report, ManagerTypes, members, marks, handles, process
<1> QED
  BY <1>2, <1>3, <1>4, <1>5, <1>6, <1>7, <1>8, <1>9, <1>10 DEF CallStep

(* A thread and its sessions keep the types of the manager.                *)
LEMMA ThreadsKeepTypes ==
  ASSUME RuntimeInv, NEW t \in Threads,
         ThreadStep(t) \/ \E e \in Endpoints : SessionStep(t, e)
  PROVE  ManagerTypes'
<1>1. /\ ManagerTypes /\ thread[t] \in ThreadRecords
      /\ t \in 0 .. MaxThreads
  BY ConstantsAssumption DEF RuntimeInv, TypeOK, ManagerTypes, Threads
<1>2. CASE Enter(t) \/ HandleSignal(t) \/ Finish(t)
  BY <1>1, <1>2 DEF Enter, HandleSignal, Finish, ManagerTypes, rows, members,
     marks, handles, process
<1>3. CASE Prepare(t)
  BY <1>1, <1>3 DEF Prepare, GiveUp, ManagerTypes, Statuses, rows, members,
     marks, process
<1>4. CASE Open(t)
  <2>1. CASE GiveUp(t)
    BY <1>1, <1>4, <2>1 DEF Open, GiveUp, ManagerTypes, Statuses, rows,
       members, handles, process
  <2>2. CASE ~GiveUp(t)
    <3> DEFINE s == [e \in Endpoints |->
                       IF e \in peers
                       THEN [state[e] EXCEPT ![In] = "listening"]
                       ELSE state[e]]
    <3>1. s \in [Endpoints -> [Directions -> States]]
      BY <1>1 DEF ManagerTypes, States
    <3>2. \/ UNCHANGED <<state, active>> \/ Mark(s)
      BY <1>4, <2>2 DEF Open, marks
    <3> HIDE DEF s
    <3>3. /\ state' \in [Endpoints -> [Directions -> States]]
          /\ active' \subseteq Directions
      BY <1>1, <3>1, <3>2, MarkTypes DEF ManagerTypes
    <3>4. /\ peers' \subseteq Endpoints /\ listed' \subseteq Endpoints
          /\ ready' \subseteq Endpoints /\ status' \in Statuses
      BY <1>1, <1>4, <2>2
         DEF Open, ManagerTypes, marks, Statuses, ThreadRecords
    <3> QED BY <1>1, <1>4, <3>3, <3>4
            DEF Open, ManagerTypes, rows, handles, process
  <2> QED BY <2>1, <2>2
<1>5. ASSUME NEW e \in Endpoints, SessionStep(t, e) PROVE ManagerTypes'
  <2>1. \A d \in Directions, x \in States :
          [state EXCEPT ![e][d] = x] \in [Endpoints -> [Directions -> States]]
    BY <1>1, StateTypes DEF ManagerTypes
  <2>2. {In, Out} \subseteq Directions
    BY DEF Directions
  <2>3. CASE Dial(t, e)
    <3>1. Mark([state EXCEPT ![e][Out] = "connecting"])
      BY <2>3 DEF Dial
    <3>2. /\ state' \in [Endpoints -> [Directions -> States]]
          /\ active' \subseteq Directions
      BY <2>1, <2>2, <3>1, MarkTypes DEF States
    <3> QED BY <1>1, <2>3, <3>2
            DEF Dial, ManagerTypes, Statuses, rows, members, handles, process
  <2>4. CASE Reach(t, e)
    <3>1. Mark([state EXCEPT ![e][Out] = "ready"])
      BY <2>4 DEF Reach
    <3>2. /\ state' \in [Endpoints -> [Directions -> States]]
          /\ active' \subseteq Directions
      BY <2>1, <2>2, <3>1, MarkTypes DEF States
    <3> QED BY <1>1, <2>4, <3>2
            DEF Reach, ManagerTypes, Statuses, rows, members, handles, process
  <2>5. CASE Fail(t, e)
    <3>1. Mark([state EXCEPT ![e][Out] = "failed"])
      BY <2>5 DEF Fail
    <3>2. /\ state' \in [Endpoints -> [Directions -> States]]
          /\ active' \subseteq Directions
      BY <2>1, <2>2, <3>1, MarkTypes DEF States
    <3> QED BY <1>1, <2>5, <3>2
            DEF Fail, ManagerTypes, Statuses, rows, members, handles, process
  <2>6. CASE End(t, e)
    <3>1. /\ Mark([state EXCEPT ![e][Out] = "closed"])
          /\ \E s : MarkClosed(s)
      BY <2>6 DEF End
    <3>2. /\ state' \in [Endpoints -> [Directions -> States]]
          /\ active' \subseteq Directions
      BY <2>1, <2>2, <3>1, MarkTypes DEF States
    <3>3. ready' \subseteq Endpoints /\ status' \in Statuses
      BY <1>1, <3>1, ClearedTypes
    <3> QED BY <1>1, <2>6, <3>2, <3>3
            DEF End, ManagerTypes, rows, members, handles, process
  <2>7. CASE Arrive(t, e)
    <3>1. \/ Mark([state EXCEPT ![e][In] = "ready"])
          \/ UNCHANGED <<state, active>>
      BY <2>7 DEF Arrive
    <3>2. /\ state' \in [Endpoints -> [Directions -> States]]
          /\ active' \subseteq Directions
      <4>1. [state EXCEPT ![e][In] = "ready"]
               \in [Endpoints -> [Directions -> States]]
        BY <2>1, <2>2 DEF States
      <4> QED BY <1>1, <3>1, <4>1, MarkTypes DEF ManagerTypes
    <3> QED BY <1>1, <2>7, <3>2 DEF Arrive, ManagerTypes, Statuses, rows,
            members, handles, process
  <2>8. CASE Leave(t, e)
    <3>1. ready' \subseteq Endpoints /\ status' \in Statuses
      BY <1>1, <2>8, ClearedTypes DEF Leave
    <3> QED BY <1>1, <2>8, <3>1
            DEF Leave, ManagerTypes, rows, members, handles, process
  <2> QED BY <1>5, <2>3, <2>4, <2>5, <2>6, <2>7, <2>8 DEF SessionStep
<1> QED BY <1>2, <1>3, <1>4, <1>5 DEF ThreadStep

(* RuntimeInv holds in every state, whatever the calls, the threads and    *)
(* the peers do: types, threads with sessions only while they serve, and   *)
(* registered clients only of sessions that are up.                        *)
THEOREM RuntimeInvariant == Spec => []RuntimeInv
<1>1. Init => RuntimeInv
  <2> SUFFICES ASSUME Init PROVE RuntimeInv
    OBVIOUS
  <2>1. /\ call \in [Callers -> CallRecords]
        /\ \A c \in Callers : SaneCall(call[c])
        /\ thread \in [Threads -> ThreadRecords]
        /\ \A t \in Threads : SaneThread(thread[t])
    BY NoRecords DEF Init, SaneCall, SaneThread
  <2>2. ManagerTypes /\ clients \in [Endpoints -> 0 .. MaxThreads]
    <3>1. 0 \in 0 .. MaxThreads
      BY ConstantsAssumption
    <3>2. state \in [Endpoints -> [Directions -> States]]
      BY DEF Init, States
    <3> QED BY <3>1, <3>2 DEF Init, ManagerTypes, EndpointStatuses, Statuses
  <2>3. ClientsLive
    BY DEF Init, ClientsLive
  <2> QED BY <2>1, <2>2, <2>3 DEF RuntimeInv, TypeOK, ManagerTypes
<1>2. RuntimeInv /\ [Next]_vars => RuntimeInv'
  <2> SUFFICES ASSUME RuntimeInv, [Next]_vars PROVE RuntimeInv'
    OBVIOUS
  <2>1. ManagerTypes'
    <3>1. CASE Restart
      <4>1. ManagerTypes
        BY DEF RuntimeInv, TypeOK, ManagerTypes
      <4>2. {current', loop', event'} \subseteq 0 .. MaxThreads
        BY <3>1, ConstantsAssumption DEF Restart
      <4> QED BY <3>1, <4>1, <4>2, ClearedTypes
              DEF Restart, ManagerTypes, rows
    <3>2. CASE Rest \/ UNCHANGED vars
      BY <3>2 DEF Rest, vars, RuntimeInv, TypeOK, ManagerTypes
    <3> QED BY <3>1, <3>2, CallsKeepTypes, ThreadsKeepTypes DEF Next
  <2>2. /\ call' \in [Callers -> CallRecords]
        /\ \A c \in Callers : SaneCall(call'[c])
        /\ thread' \in [Threads -> ThreadRecords]
        /\ \A t \in Threads : SaneThread(thread'[t])
        /\ clients' \in [Endpoints -> 0 .. MaxThreads] /\ ClientsLive'
    BY CallsStep, ThreadsStep, ClientsStep
  <2>3. TypeOK'
    BY <2>1, <2>2 DEF TypeOK, ManagerTypes
  <2> QED BY <2>2, <2>3 DEF RuntimeInv
<1> QED BY <1>1, <1>2, PTL DEF Spec

(* Every variable of the runtime keeps its type, for any number of request *)
(* threads inside the manager at once.                                     *)
THEOREM TypeCorrect == Spec => []TypeOK
<1>1. RuntimeInv => TypeOK
  BY DEF RuntimeInv
<1> QED BY <1>1, RuntimeInvariant, PTL

(* A registered outbound client is always that of a session that is up,    *)
(* even when request threads stop and start runtimes over one another.     *)
THEOREM ClientsAreLive == Spec => []ClientsLive
<1>1. RuntimeInv => ClientsLive
  BY DEF RuntimeInv
<1> QED BY <1>1, RuntimeInvariant, PTL

-----------------------------------------------------------------------------
(* One request thread at a time *)

OneAtATime == \A b, c \in Callers : b = c

(* What a call knows at its stage, cur being the manager's thread and ps   *)
(* its peers: whom it has joined, that it has forgotten the thread, and    *)
(* that it starts another one only for peers.                              *)
SoloCall(r, cur, ps) ==
  /\ r.stage = "forget" => r.waits = cur
  /\ r.stage = "spawn" => cur = 0
  /\ r.stage \in {"signal", "join", "forget", "spawn", "poll"} /\ ~r.clear =>
       ps # {}
  /\ r.stage \in {"update", "spawn", "poll"} => ~r.clear

(* Nothing of the runtime is left.                                         *)
Cleared ==
  /\ \A t \in Threads : ~Alive(t)
  /\ ready = {} /\ active = {} /\ status = "not_started"
  /\ \A e \in Endpoints, d \in Directions : state[e][d] = "none"

(* The one thread is the manager's; it serves the peers unless a call is   *)
(* about to replace it; and only peers have a state of the inbound kind.   *)
SoloInv ==
  /\ \A t \in Threads : Alive(t) => t = current
  /\ \A c \in Callers : SoloCall(call[c], current, peers)
  /\ \A e \in Endpoints : state[e][In] # "none" => e \in peers
  /\ (\A c \in Callers : call[c].stage \notin {"signal", "join", "forget"}) =>
       (Alive(current) => peers \subseteq thread[current].peers)
  /\ (\A c \in Callers : call[c].stage \in {"idle", "update", "report"}) =>
       (peers = {} => Cleared)

(* Only a Spawn brings a thread to life, and none changes its peers.       *)
LEMMA OnlySpawnRevives ==
  ASSUME RuntimeInv, [Next]_vars, \A c \in Callers : ~Spawn(c),
         NEW t \in Threads, Alive(t)'
  PROVE  Alive(t) /\ thread'[t].peers = thread[t].peers
<1> DEFINE Goal == Alive(t) /\ thread'[t].peers = thread[t].peers
<1>1. t # 0 /\ thread'[t].stage \notin {"none", "ended"}
  BY DEF Alive
<1>2. ASSUME thread'[t].stage = thread[t].stage,
             thread'[t].peers = thread[t].peers
      PROVE  Goal
  BY <1>1, <1>2 DEF Alive
<1>3. ASSUME NEW c \in Callers, Signal(c) PROVE Goal
  <2>1. thread \in [Threads -> ThreadRecords]
    BY DEF RuntimeInv, TypeOK
  <2>2. \/ UNCHANGED thread
        \/ thread' = [thread EXCEPT ![loop] =
                        [thread[loop] EXCEPT !.signal = TRUE]]
    BY <1>3 DEF Signal
  <2>3. /\ thread'[t].stage = thread[t].stage
        /\ thread'[t].peers = thread[t].peers
    BY <2>1, <2>2 DEF ThreadRecords
  <2> QED BY <1>2, <2>3
<1>4. ASSUME NEW c \in Callers,
             \/ Establish(c) \/ Resume(c) \/ Disconnect(c) \/ Remove(c)
             \/ Update(c) \/ Join(c) \/ Forget(c) \/ Poll(c) \/ Report(c)
      PROVE  UNCHANGED thread
  BY <1>4 DEF Establish, Resume, Disconnect, Remove, Update, Join, Forget,
     Poll, Report
<1>5. ASSUME NEW u \in Threads, ThreadStep(u) PROVE Goal
  <2>1. CASE u = t
    BY <1>1, <1>5, <2>1, ThreadsMove DEF Alive
  <2>2. CASE u # t
    BY <1>2, <1>5, <2>2, ThreadsMove
  <2> QED BY <2>1, <2>2
<1>6. ASSUME NEW u \in Threads, NEW e \in Endpoints, SessionStep(u, e)
      PROVE  Goal
  BY <1>2, <1>6, SessionsMove
<1>7. ASSUME Restart PROVE FALSE
  BY <1>1, <1>7, NoRecords DEF Restart, NoThread
<1>8. ASSUME Rest \/ UNCHANGED vars PROVE UNCHANGED thread
  BY <1>8 DEF Rest, vars
<1>9. ASSUME UNCHANGED thread PROVE Goal
  BY <1>2, <1>9
<1> QED
  BY <1>3, <1>4, <1>5, <1>6, <1>7, <1>8, <1>9 DEF Next, CallStep

(* A step of a thread needs one that is alive; it leaves the calls and the *)
(* peers alone and gives an inbound state to peers only.                   *)
LEMMA ThreadsSolo ==
  ASSUME RuntimeInv, SoloInv, NEW t \in Threads,
         ThreadStep(t) \/ \E e \in Endpoints : SessionStep(t, e)
  PROVE  /\ Alive(t) /\ UNCHANGED <<call, current, peers>>
         /\ \A e \in Endpoints : state'[e][In] # "none" => e \in peers
<1>1. /\ state \in [Endpoints -> [Directions -> States]]
      /\ \A e \in Endpoints : state[e][In] # "none" => e \in peers
      /\ In \in Directions /\ Out \in Directions /\ In # Out
  BY DEF RuntimeInv, TypeOK, SoloInv, Directions, In, Out
<1>2. Alive(t)
  <2>1. t # 0
    BY ConstantsAssumption DEF Threads
  <2> QED BY <2>1, ThreadsMove, SessionsMove DEF Alive
<1>3. UNCHANGED <<call, current, peers>>
  BY DEF ThreadStep, SessionStep, Enter, Prepare, GiveUp, Open, HandleSignal,
     Finish, Dial, Reach, Fail, End, Arrive, Leave, members, handles
<1>4. ASSUME NEW e \in Endpoints, NEW x \in States,
             Mark([state EXCEPT ![e][Out] = x])
      PROVE  \A f \in Endpoints : state'[f][In] = state[f][In]
  BY <1>1, <1>4 DEF Mark
<1>5. ASSUME Enter(t) \/ Prepare(t) \/ HandleSignal(t) \/ Finish(t)
      PROVE  \A f \in Endpoints : state'[f][In] # "none" => f \in peers
  BY <1>1, <1>5
     DEF Enter, Prepare, GiveUp, HandleSignal, Finish, marks
<1>6. ASSUME Open(t)
      PROVE  \A f \in Endpoints : state'[f][In] # "none" => f \in peers
  <2>1. \/ UNCHANGED state
        \/ state' = [e \in Endpoints |->
                       IF e \in peers
                       THEN [state[e] EXCEPT ![In] = "listening"]
                       ELSE state[e]]
    BY <1>6 DEF Open, GiveUp, Mark, marks
  <2> QED BY <1>1, <2>1
<1>7. ASSUME NEW e \in Endpoints, SessionStep(t, e)
      PROVE  \A f \in Endpoints : state'[f][In] # "none" => f \in peers
  <2>1. CASE Dial(t, e) \/ Reach(t, e) \/ Fail(t, e) \/ End(t, e)
    <3>1. \E x \in States : Mark([state EXCEPT ![e][Out] = x])
      BY <2>1 DEF Dial, Reach, Fail, End, States
    <3> QED BY <1>1, <1>4, <3>1
  <2>2. CASE Arrive(t, e)
    <3>1. \/ e \in peers /\ state' = [state EXCEPT ![e][In] = "ready"]
          \/ UNCHANGED state
      BY <2>2 DEF Arrive, Mark
    <3> QED BY <1>1, <3>1
  <2>3. CASE Leave(t, e)
    BY <1>1, <2>3 DEF Leave
  <2> QED BY <1>7, <2>1, <2>2, <2>3 DEF SessionStep
<1> QED BY <1>2, <1>3, <1>5, <1>6, <1>7 DEF ThreadStep

(* A step that leaves the thread of the manager and its peers alone keeps  *)
(* SoloInv, if the one call goes on as it may.                             *)
LEMMA SoloCallMoves ==
  ASSUME OneAtATime, RuntimeInv, SoloInv, [Next]_vars,
         UNCHANGED <<current, peers, state, ready, active, status, thread>>,
         NEW c \in Callers, NEW r \in CallRecords, Goto(c, r),
         SoloCall(r, current, peers),
         r.stage \notin {"signal", "join", "forget"} =>
           call[c].stage \notin {"signal", "join", "forget"},
         r.stage \in {"idle", "update", "report"} =>
           call[c].stage \in {"idle", "update", "report"} \/ peers # {}
  PROVE  SoloInv'
<1>1. call'[c] = r /\ \A b \in Callers : b = c
  BY CallMoves DEF RuntimeInv, OneAtATime
<1>2. \A t \in Threads : Alive(t)' <=> Alive(t)
  BY DEF Alive
<1>3. Alive(current)' <=> Alive(current)
  BY DEF Alive
<1>4. Cleared => Cleared'
  BY <1>2 DEF Cleared
<1> QED BY <1>1, <1>2, <1>3, <1>4 DEF SoloInv

(* Every step keeps SoloInv.                                               *)
LEMMA SoloStep ==
  ASSUME OneAtATime, Prompt, RuntimeInv, SoloInv, [Next]_vars
  PROVE  SoloInv'
<1>1. /\ call \in [Callers -> CallRecords]
      /\ thread \in [Threads -> ThreadRecords]
      /\ state \in [Endpoints -> [Directions -> States]]
      /\ peers \subseteq Endpoints /\ 0 \notin Threads
      /\ In \in Directions
  <2>1. /\ call \in [Callers -> CallRecords]
        /\ thread \in [Threads -> ThreadRecords]
        /\ state \in [Endpoints -> [Directions -> States]]
        /\ peers \subseteq Endpoints
    BY DEF RuntimeInv, TypeOK
  <2>2. 0 \notin Threads
    BY ConstantsAssumption DEF Threads
  <2>3. In \in Directions
    BY DEF Directions
  <2> QED BY <2>1, <2>2, <2>3
<1>2. ASSUME NEW c \in Callers,
             Establish(c) \/ Resume(c) \/ Remove(c) \/ Report(c) \/ Poll(c)
             \/ Signal(c)
      PROVE  UNCHANGED <<current, peers, state, ready, active, status>>
  BY <1>2 DEF Establish, Resume, Remove, Report, Poll, Signal, members, marks,
     handles
<1>3. ASSUME NEW c \in Callers, Establish(c) PROVE SoloInv'
  <2>1. PICK e \in Endpoints :
          Goto(c, [NoCall EXCEPT !.stage = "update",
                                 !.operation = "establish", !.todo = {e}])
    BY <1>3 DEF Establish
  <2> DEFINE r == [NoCall EXCEPT !.stage = "update",
                                 !.operation = "establish", !.todo = {e}]
  <2>2. r \in CallRecords /\ r.stage = "update" /\ ~r.clear
    BY NoRecords DEF CallRecords
  <2>3. call[c].stage = "idle" /\ UNCHANGED thread
    BY <1>3 DEF Establish, Begin
  <2> HIDE DEF r
  <2>4. Goto(c, r)
    BY <2>1 DEF r
  <2>5. SoloCall(r, current, peers)
    BY <2>2 DEF SoloCall
  <2> QED BY <1>2, <1>3, <2>2, <2>3, <2>4, <2>5, SoloCallMoves
<1>4. ASSUME NEW c \in Callers, Resume(c) PROVE SoloInv'
  <2> DEFINE todo == {e \in certified : endpoint[e] \in {"observed",
                                                          "connected"}}
             r == [NoCall EXCEPT !.stage = "update", !.operation = "resume",
                                 !.todo = todo]
  <2>1. UNCHANGED call \/ Goto(c, r)
    BY <1>4 DEF Resume
  <2>2. todo \subseteq Endpoints
    BY DEF RuntimeInv, TypeOK
  <2>3. call[c].stage = "idle" /\ UNCHANGED thread
    BY <1>4 DEF Resume, Idle
  <2> HIDE DEF todo
  <2>4. r \in CallRecords /\ r.stage = "update" /\ ~r.clear
    BY <2>2, NoRecords DEF CallRecords
  <2>5. call[c] \in CallRecords /\ SoloCall(call[c], current, peers)
    BY <1>1 DEF SoloInv
  <2>6. CASE UNCHANGED call
    <3>1. Goto(c, call[c])
      BY <1>1, <2>6 DEF Goto
    <3> QED BY <1>2, <1>4, <2>3, <2>5, <3>1, SoloCallMoves
  <2> HIDE DEF r
  <2>7. SoloCall(r, current, peers)
    BY <2>4 DEF SoloCall
  <2>8. CASE Goto(c, r)
    BY <1>2, <1>4, <2>3, <2>4, <2>7, <2>8, SoloCallMoves
  <2> QED BY <2>1, <2>6, <2>8
<1>5. ASSUME NEW c \in Callers, Remove(c) PROVE SoloInv'
  <2>1. PICK e \in Endpoints :
          Goto(c, [NoCall EXCEPT
                     !.stage = IF e \in listed THEN "signal" ELSE "report",
                     !.operation = "remove", !.endpoint = e, !.clear = TRUE])
    BY <1>5 DEF Remove
  <2> DEFINE r == [NoCall EXCEPT
                     !.stage = IF e \in listed THEN "signal" ELSE "report",
                     !.operation = "remove", !.endpoint = e, !.clear = TRUE]
  <2>2. r \in CallRecords /\ r.stage \in {"signal", "report"} /\ r.clear
    BY NoRecords DEF CallRecords
  <2>3. call[c].stage = "idle" /\ UNCHANGED thread
    BY <1>5 DEF Remove, Begin
  <2> HIDE DEF r
  <2>4. Goto(c, r)
    BY <2>1 DEF r
  <2>5. SoloCall(r, current, peers)
    BY <2>2 DEF SoloCall
  <2> QED BY <1>2, <1>5, <2>2, <2>3, <2>4, <2>5, SoloCallMoves
<1>6. ASSUME NEW c \in Callers, Disconnect(c) PROVE SoloInv'
  <2>1. PICK e \in Endpoints :
          /\ peers' = peers \ {e}
          /\ state' = [state EXCEPT ![e] = [d \in Directions |-> "none"]]
          /\ Goto(c, [NoCall EXCEPT !.stage = "signal",
                        !.operation = "disconnect", !.endpoint = e,
                        !.directions = active, !.clear = (peers' = {})])
    BY <1>6 DEF Disconnect
  <2> DEFINE r == [NoCall EXCEPT !.stage = "signal",
                     !.operation = "disconnect", !.endpoint = e,
                     !.directions = active, !.clear = (peers' = {})]
  <2>2. /\ r \in CallRecords /\ r.stage = "signal"
        /\ r.clear <=> peers' = {}
    BY NoRecords DEF CallRecords, RuntimeInv, TypeOK
  <2> HIDE DEF r
  <2>3. call'[c] = r /\ \A b \in Callers : b = c
    BY <2>1, <2>2, CallMoves DEF RuntimeInv, OneAtATime, r
  <2>4. SoloCall(r, current', peers')
    BY <2>2 DEF SoloCall
  <2>5. \A f \in Endpoints : state'[f][In] # "none" => f \in peers'
    BY <1>1, <2>1 DEF SoloInv
  <2>6. \A t \in Threads : Alive(t)' => t = current'
    BY <1>6 DEF Disconnect, handles, Alive, SoloInv
  <2> QED BY <2>2, <2>3, <2>4, <2>5, <2>6 DEF SoloInv
<1>7. ASSUME NEW c \in Callers, Update(c) PROVE SoloInv'
  <2> DEFINE q == call[c]
  <2>1. PICK e \in q.todo, moved \in BOOLEAN :
          LET r == [q EXCEPT !.endpoint = e, !.todo = @ \ {e}]
              repaired == [state EXCEPT ![e] =
                             [d \in Directions |->
                                IF e \in ready THEN "ready" ELSE @[d]]]
              starting == [state EXCEPT ![e] =
                             [d \in Directions |-> "starting"]]
          IN /\ peers' = peers \cup {e}
             /\ IF CanReuse(e, moved)
                THEN /\ Mark(repaired)
                     /\ Goto(c, Returned(r, SeemsReady(e, repaired)))
                ELSE /\ Mark(starting)
                     /\ Goto(c, [r EXCEPT !.stage = "signal",
                                          !.directions = Directions])
    BY <1>7 DEF Update
  <2> DEFINE r == [q EXCEPT !.endpoint = e, !.todo = @ \ {e}]
             w == [r EXCEPT !.stage = "signal", !.directions = Directions]
  <2>2. /\ q \in CallRecords /\ q.stage = "update" /\ ~q.clear /\ SaneCall(q)
        /\ UNCHANGED <<thread, current>>
    BY <1>1, <1>7 DEF Update, SoloInv, SoloCall, RuntimeInv, handles
  <2>3. e \in Endpoints
    BY <2>2 DEF CallRecords
  <2>4. /\ r \in CallRecords /\ ~r.clear /\ SaneCall(r) /\ w \in CallRecords
        /\ w.stage = "signal" /\ ~w.clear
    BY <2>2, <2>3 DEF CallRecords, SaneCall
  <2>5. /\ peers' = peers \cup {e}
        /\ \E f : state' = [state EXCEPT ![e] = f]
        /\ \/ /\ CanReuse(e, moved)
              /\ \E s : Goto(c, Returned(r, SeemsReady(e, s)))
           \/ Goto(c, w)
    BY <2>1 DEF Mark
  <2>6. \A f \in Endpoints : state'[f][In] # "none" => f \in peers'
    BY <1>1, <2>3, <2>5 DEF SoloInv
  <2>7. \A t \in Threads : Alive(t)' => t = current'
    BY <2>2 DEF Alive, SoloInv
  <2>8. \A b \in Callers : b = c
    BY DEF OneAtATime
  <2> HIDE DEF r, w
  <2>9. CASE /\ CanReuse(e, moved)
             /\ \E s : Goto(c, Returned(r, SeemsReady(e, s)))
    <3>1. PICK s : Goto(c, Returned(r, SeemsReady(e, s)))
      BY <2>9
    <3> DEFINE v == Returned(r, SeemsReady(e, s))
    <3>2. SeemsReady(e, s) \in BOOLEAN
      BY DEF SeemsReady
    <3>3. v \in CallRecords /\ v.stage \in {"idle", "update", "report"}
      BY <2>4, <3>2, ReturnedIsSane
    <3>4. ~v.clear
      BY <2>4, NoRecords DEF Returned, CallRecords
    <3>5. peers' = peers
      <4>1. state[e][In] # "none"
        BY <1>1, <2>9 DEF CanReuse, Usable
      <4> QED BY <2>3, <2>5, <4>1 DEF SoloInv
    <3> HIDE DEF v
    <3>6. call'[c] = v
      BY <3>1, <3>3, CallMoves DEF RuntimeInv, v
    <3>7. SoloCall(v, current', peers')
      BY <3>3, <3>4 DEF SoloCall
    <3>8. Alive(current)' => peers' \subseteq thread'[current'].peers
      BY <2>2, <2>8, <3>5 DEF Alive, SoloInv
    <3>9. peers' # {}
      BY <2>5
    <3> QED BY <2>6, <2>7, <2>8, <3>3, <3>6, <3>7, <3>8, <3>9 DEF SoloInv
  <2>10. CASE Goto(c, w)
    <3>1. call'[c] = w
      BY <2>4, <2>10, CallMoves DEF RuntimeInv
    <3>2. SoloCall(w, current', peers')
      BY <2>4, <2>5 DEF SoloCall
    <3> QED BY <2>4, <2>6, <2>7, <2>8, <3>1, <3>2 DEF SoloInv
  <2> QED BY <2>5, <2>9, <2>10
<1>8. ASSUME NEW c \in Callers, Signal(c) \/ Join(c) PROVE SoloInv'
  <2> DEFINE q == call[c]
  <2>1. /\ q \in CallRecords /\ q.stage \in {"signal", "join"}
        /\ SoloCall(q, current, peers)
        /\ UNCHANGED <<current, peers, state>>
    BY <1>1, <1>8 DEF Signal, Join, SoloInv, members, marks, handles
  <2>2. \E r \in CallRecords :
          /\ Goto(c, r) /\ r.clear = q.clear
          /\ \/ r.stage = "join"
             \/ r.stage = "forget" /\ r.waits = current
    <3>1. /\ current \in 0 .. MaxThreads /\ loop \in 0 .. MaxThreads
          /\ 0 \in 0 .. MaxThreads
      BY ConstantsAssumption DEF RuntimeInv, TypeOK
    <3>2. CASE Join(c)
      <4> DEFINE r == [q EXCEPT !.stage = "forget", !.waits = current]
      <4>1. /\ r \in CallRecords /\ r.clear = q.clear /\ r.stage = "forget"
            /\ r.waits = current
        BY <2>1, <3>1 DEF CallRecords
      <4> QED BY <3>2, <4>1 DEF Join
    <3>3. CASE Signal(c)
      <4>1. \/ Goto(c, [q EXCEPT !.stage = "join", !.waits = loop])
            \/ Goto(c, [q EXCEPT !.stage = "join", !.waits = 0])
        BY <3>3 DEF Signal
      <4>2. \A x \in 0 .. MaxThreads :
              LET r == [q EXCEPT !.stage = "join", !.waits = x]
              IN r \in CallRecords /\ r.clear = q.clear /\ r.stage = "join"
        BY <2>1 DEF CallRecords
      <4> QED BY <3>1, <4>1, <4>2
    <3> QED BY <1>8, <3>2, <3>3
  <2>3. PICK r \in CallRecords :
          /\ Goto(c, r) /\ r.clear = q.clear
          /\ \/ r.stage = "join"
             \/ r.stage = "forget" /\ r.waits = current
    BY <2>2
  <2>4. call'[c] = r /\ \A b \in Callers : b = c
    BY <2>3, CallMoves DEF RuntimeInv, OneAtATime
  <2>5. SoloCall(r, current, peers)
    BY <2>1, <2>3 DEF SoloCall
  <2>6. \A b \in Callers : ~Spawn(b)
    BY <2>1, <2>4 DEF Spawn
  <2>7. \A t \in Threads : Alive(t)' => t = current
    BY <2>6, OnlySpawnRevives DEF SoloInv
  <2> QED BY <2>1, <2>3, <2>4, <2>5, <2>7 DEF SoloInv
<1>9. ASSUME NEW c \in Callers, Forget(c) PROVE SoloInv'
  <2> DEFINE q == call[c]
  <2>1. /\ q \in CallRecords /\ q.stage = "forget" /\ q.waits = current
        /\ SoloCall(q, current, peers) /\ current' = 0
        /\ UNCHANGED thread /\ ~Alive(q.waits)
    BY <1>1, <1>9 DEF Forget, SoloInv, SoloCall, Ended
  <2>2. \A t \in Threads : ~Alive(t)'
    BY <2>1 DEF SoloInv, Alive
  <2>3. ~Alive(current)'
    BY <2>1 DEF Alive
  <2>4. \A b \in Callers : b = c
    BY DEF OneAtATime
  <2>5. CASE q.clear
    <3> DEFINE r == [q EXCEPT !.stage = "report"]
    <3>1. r \in CallRecords /\ r.stage = "report"
      BY <2>1 DEF CallRecords
    <3>2. Goto(c, r) /\ ClearRuntime
      BY <1>9, <2>5 DEF Forget
    <3> HIDE DEF r
    <3>3. call'[c] = r
      BY <3>1, <3>2, CallMoves DEF RuntimeInv
    <3>4. SoloCall(r, current', peers')
      BY <3>1 DEF SoloCall
    <3>5. /\ Cleared'
          /\ \A e \in Endpoints : state'[e][In] = "none"
      BY <1>1, <2>2, <3>2 DEF Cleared, ClearRuntime
    <3> QED BY <2>2, <2>3, <2>4, <3>1, <3>3, <3>4, <3>5 DEF SoloInv
  <2>6. CASE ~q.clear
    <3> DEFINE r == [q EXCEPT !.stage = "spawn"]
    <3>1. r \in CallRecords /\ r.stage = "spawn" /\ ~r.clear
      BY <2>1, <2>6 DEF CallRecords
    <3>2. Goto(c, r) /\ UNCHANGED <<peers, state>>
      BY <1>9, <2>6 DEF Forget, members, marks
    <3> HIDE DEF r
    <3>3. call'[c] = r
      BY <3>1, <3>2, CallMoves DEF RuntimeInv
    <3>4. SoloCall(r, current', peers')
      BY <2>1, <2>6, <3>1, <3>2 DEF SoloCall
    <3> QED BY <2>2, <2>3, <2>4, <3>1, <3>2, <3>3, <3>4 DEF SoloInv
  <2> QED BY <2>5, <2>6
<1>10. ASSUME NEW c \in Callers, Spawn(c) PROVE SoloInv'
  <2> DEFINE q == call[c]
             r == [q EXCEPT !.stage = IF q.operation = "disconnect"
                                      THEN "report" ELSE "poll"]
             n == [NoThread EXCEPT !.stage = "new", !.peers = peers,
                                   !.directions = q.directions]
  <2>1. /\ q \in CallRecords /\ q.stage = "spawn" /\ ~q.clear /\ current = 0
        /\ peers # {} /\ UNCHANGED <<peers, state>> /\ Goto(c, r)
    BY <1>1, <1>10 DEF Spawn, SoloInv, SoloCall, members, marks
  <2>2. r \in CallRecords /\ r.stage \in {"report", "poll"} /\ ~r.clear
    BY <2>1 DEF CallRecords
  <2>3. n \in ThreadRecords /\ n.peers = peers
    BY <1>1, <2>1, NoRecords DEF ThreadRecords, CallRecords
  <2>4. PICK t \in Threads :
          current' = t /\ thread' = [thread EXCEPT ![t] = n]
    BY <1>10, ThreadsMove DEF Spawn
  <2> HIDE DEF r, n
  <2>5. thread'[t] = n /\ \A u \in Threads : u # t => thread'[u] = thread[u]
    BY <2>3, <2>4, ThreadMoves DEF RuntimeInv
  <2>6. call'[c] = r /\ \A b \in Callers : b = c
    BY <2>1, <2>2, CallMoves DEF RuntimeInv, OneAtATime
  <2>7. SoloCall(r, current', peers')
    BY <2>1, <2>2 DEF SoloCall
  <2>8. \A u \in Threads : Alive(u)' => u = current'
    BY <1>1, <2>1, <2>4, <2>5 DEF SoloInv, Alive
  <2>9. peers' \subseteq thread'[current'].peers
    BY <2>1, <2>3, <2>4, <2>5
  <2> QED BY <2>1, <2>6, <2>7, <2>8, <2>9 DEF SoloInv
<1>11. ASSUME NEW c \in Callers, Poll(c) PROVE SoloInv'
  <2> DEFINE q == call[c]
             r == Returned(q, SeemsReady(q.endpoint, state))
  <2>1. /\ q \in CallRecords /\ SaneCall(q) /\ q.stage = "poll" /\ ~q.clear
        /\ peers # {} /\ Goto(c, r) /\ UNCHANGED thread
    BY <1>1, <1>11 DEF Poll, SoloInv, SoloCall, RuntimeInv
  <2>2. SeemsReady(q.endpoint, state) \in BOOLEAN
    BY DEF SeemsReady
  <2>3. r \in CallRecords /\ r.stage \in {"idle", "update", "report"}
    BY <2>1, <2>2, ReturnedIsSane
  <2>4. ~r.clear
    BY <2>1, NoRecords DEF Returned, CallRecords
  <2> HIDE DEF r
  <2>5. SoloCall(r, current, peers)
    BY <2>3, <2>4 DEF SoloCall
  <2> QED BY <1>2, <1>11, <2>1, <2>3, <2>5, SoloCallMoves
<1>12. ASSUME NEW c \in Callers, Report(c) PROVE SoloInv'
  <2>1. call[c].stage = "report" /\ Goto(c, NoCall) /\ UNCHANGED thread
    BY <1>12 DEF Report
  <2>2. SoloCall(NoCall, current, peers)
    BY NoRecords DEF SoloCall
  <2> QED BY <1>2, <1>12, <2>1, <2>2, NoRecords, SoloCallMoves
<1>13. ASSUME NEW t \in Threads,
              ThreadStep(t) \/ \E e \in Endpoints : SessionStep(t, e)
       PROVE  SoloInv'
  <2>1. /\ Alive(t) /\ UNCHANGED <<call, current, peers>>
        /\ \A e \in Endpoints : state'[e][In] # "none" => e \in peers
    BY <1>13, ThreadsSolo
  <2>2. \A c \in Callers : ~Spawn(c)
    BY <1>1, <2>1 DEF Spawn, SoloInv, SoloCall
  <2>3. \A u \in Threads : Alive(u)' => /\ Alive(u)
                                        /\ thread'[u].peers = thread[u].peers
    BY <2>2, OnlySpawnRevives
  <2>4. \A u \in Threads : Alive(u)' => u = current'
    BY <2>1, <2>3 DEF SoloInv
  <2>5. ~Cleared /\ t = current
    BY <2>1 DEF Cleared, SoloInv
  <2>6. Alive(current)' => Alive(t)'
    BY <2>1, <2>5 DEF Alive
  <2>7. Alive(current)' => /\ Alive(current)
                           /\ thread'[current'].peers = thread[current].peers
    BY <2>1, <2>3, <2>5, <2>6
  <2> QED BY <2>1, <2>4, <2>5, <2>7 DEF SoloInv
<1>14. ASSUME Restart PROVE SoloInv'
  <2>1. /\ \A c \in Callers : call'[c] = NoCall
        /\ current' = 0 /\ ClearRuntime
        /\ \A t \in Threads : thread'[t].stage \in {"none", "ended"}
    BY <1>14, NoRecords DEF Restart, NoThread
  <2>2. Cleared' /\ \A e \in Endpoints : state'[e][In] = "none"
    BY <1>1, <2>1 DEF Cleared, Alive, ClearRuntime
  <2>3. SoloCall(NoCall, current', peers')
    BY NoRecords DEF SoloCall
  <2>4. ~Alive(current)' /\ \A t \in Threads : ~Alive(t)'
    BY <2>1 DEF Alive
  <2> QED BY <2>1, <2>2, <2>3, <2>4 DEF SoloInv
<1>15. ASSUME Rest \/ UNCHANGED vars PROVE SoloInv'
  <2>1. UNCHANGED vars
    BY <1>15 DEF Rest
  <2> QED BY <2>1 DEF SoloInv, Cleared, Alive, vars
<1> QED
  BY <1>3, <1>4, <1>5, <1>6, <1>7, <1>8, <1>9, <1>10, <1>11, <1>12, <1>13,
     <1>14, <1>15 DEF Next, CallStep

(* SoloInv holds when request threads enter the manager one at a time and  *)
(* stop() outlasts the thread it stops.                                    *)
THEOREM SoloInvariant ==
  ASSUME OneAtATime, Prompt
  PROVE  Spec => []SoloInv
<1>1. Init => SoloInv
  <2> SUFFICES ASSUME Init PROVE SoloInv
    OBVIOUS
  <2>1. /\ \A t \in Threads : ~Alive(t)
        /\ \A e \in Endpoints, d \in Directions : state[e][d] = "none"
        /\ \A c \in Callers : call[c] = NoCall
        /\ ready = {} /\ active = {} /\ status = "not_started"
        /\ ~Alive(current) /\ In \in Directions
    BY NoRecords DEF Init, Alive, Directions
  <2>2. SoloCall(NoCall, current, peers)
    BY NoRecords DEF SoloCall
  <2> QED BY <2>1, <2>2 DEF SoloInv, Cleared
<1>2. RuntimeInv /\ SoloInv /\ [Next]_vars => SoloInv'
  BY SoloStep
<1> QED BY <1>1, <1>2, RuntimeInvariant, PTL DEF Spec

(* There is one runtime thread at most.                                    *)
THEOREM OneRuntimeOnly ==
  ASSUME OneAtATime, Prompt
  PROVE  Spec => []OneRuntime
<1>1. SoloInv => OneRuntime
  <2> SUFFICES ASSUME SoloInv PROVE OneRuntime
    OBVIOUS
  <2> DEFINE living == {t \in Threads : Alive(t)}
  <2>1. living \subseteq {current}
    BY DEF SoloInv
  <2>2. IsFiniteSet({current}) /\ Cardinality({current}) = 1
    BY FS_Singleton
  <2>3. Cardinality(living) <= 1
    BY <2>1, <2>2, FS_Subset
  <2> QED BY <2>3 DEF OneRuntime
<1> QED BY <1>1, SoloInvariant, PTL

(* The runtime serves every peer of the manager whenever no call is in     *)
(* progress, whether it was started for the peer or could be reused.       *)
THEOREM AllPeersServed ==
  ASSUME OneAtATime, Prompt
  PROVE  Spec => []PeersServed
<1>1. SoloInv => PeersServed
  BY DEF SoloInv, PeersServed, Idle
<1> QED BY <1>1, SoloInvariant, PTL

(* When the last peer is gone and no call is in progress, no thread, no    *)
(* ready SKI and no connection state is left.                              *)
THEOREM NothingLeftAfterTheLast ==
  ASSUME OneAtATime, Prompt
  PROVE  Spec => []NothingAfterTheLast
<1>1. SoloInv => NothingAfterTheLast
  BY DEF SoloInv, NothingAfterTheLast, Cleared, Idle
<1> QED BY <1>1, SoloInvariant, PTL
=============================================================================
