------------------------- MODULE ConnectionsProofs -------------------------
(***************************************************************************)
(* What holds of connections whatever the devices, the endpoints and the   *)
(* threads: rows and sessions keep their types, the audit trail says what  *)
(* was committed, and connections are the user's.                          *)
(***************************************************************************)
EXTENDS Connections, TLAPS

-----------------------------------------------------------------------------
(* Rows *)

(* A row that is gone and the rows of a new session have their types.      *)
LEMMA BlankTypes ==
  /\ NoEndpoint \in EndpointRows /\ NoDevice \in DeviceRows
  /\ NoRows \in [Devices -> DeviceRows] /\ NoSession \in Sessions
<1>1. NoEndpoint \in EndpointRows /\ NoDevice \in DeviceRows
  BY DEF NoEndpoint, EndpointRows, Statuses, NoDevice, DeviceRows
<1>2. NoRows \in [Devices -> DeviceRows]
  BY <1>1 DEF NoRows
<1> QED BY <1>1, <1>2 DEF NoSession, Sessions, Statuses

(* A flush of an endpoint row keeps its type; its status is the new one    *)
(* exactly when the session has changed it.                                *)
LEMMA FlushedEndpoint ==
  ASSUME NEW row \in EndpointRows, NEW read \in EndpointRows,
         NEW work \in EndpointRows
  PROVE  /\ Flushed(row, read, work) \in EndpointRows
         /\ Flushed(row, read, work).status =
              IF work.status # read.status THEN work.status ELSE row.status
<1>1. DOMAIN row = {"status", "probed"}
  BY DEF EndpointRows
<1>2. Flushed(row, read, work) =
        [status |-> IF work.status # read.status
                    THEN work.status ELSE row.status,
         probed |-> IF work.probed # read.probed
                    THEN work.probed ELSE row.probed]
  BY <1>1 DEF Flushed
<1> QED BY <1>2 DEF EndpointRows

(* A flush of a device row keeps its type.                                 *)
LEMMA FlushedDevice ==
  ASSUME NEW row \in DeviceRows, NEW read \in DeviceRows,
         NEW work \in DeviceRows
  PROVE  Flushed(row, read, work) \in DeviceRows
<1>1. DOMAIN row = {"status", "tags", "ready", "sample", "telemetry"}
  BY DEF DeviceRows
<1>2. Flushed(row, read, work) =
        [status |-> IF work.status # read.status
                    THEN work.status ELSE row.status,
         tags |-> IF work.tags # read.tags THEN work.tags ELSE row.tags,
         ready |-> IF work.ready # read.ready
                   THEN work.ready ELSE row.ready,
         sample |-> IF work.sample # read.sample
                    THEN work.sample ELSE row.sample,
         telemetry |-> IF work.telemetry # read.telemetry
                       THEN work.telemetry ELSE row.telemetry]
  BY <1>1 DEF Flushed
<1> QED BY <1>2 DEF DeviceRows

(* What a probe and a connection result make of a device is a device row.  *)
LEMMA ProbedDevice ==
  ASSUME NEW e \in Endpoints, NEW d \in DeviceRows, NEW status, NEW result
  PROVE  /\ Refresh(e, d, status, result) \in DeviceRows
         /\ EstablishedDevice(e, d, result) \in DeviceRows
         /\ DisconnectedDevice(d) \in DeviceRows
<1>1. NotUpdated(d) \in DeviceRows /\ Sampled(d) \in DeviceRows
  BY DEF NotUpdated, Sampled, DeviceRows
<1>2. RefreshHttp(d, result) \in DeviceRows
  BY <1>1 DEF RefreshHttp, DeviceRows, Tags
<1>3. RefreshModbus(d, status, result) \in DeviceRows
  <2> DEFINE s == Sampled(d)
  <2>1. s \in DeviceRows
    BY <1>1
  <2> HIDE DEF s
  <2>2. [s EXCEPT !.telemetry = "live",
                  !.tags = @ \cup {"connected", "modbus_ready"}]
          \in DeviceRows
    BY <2>1 DEF DeviceRows, Tags
  <2> QED BY <1>1, <2>2 DEF RefreshModbus, s
<1>4. Refresh(e, d, status, result) \in DeviceRows
  BY <1>2, <1>3 DEF Refresh
<1>5. EstablishedDevice(e, d, result) \in DeviceRows
  <2>1. ReadyTag(e) \in Tags
    BY DEF ReadyTag, Tags
  <2> QED BY <2>1 DEF EstablishedDevice, DeviceRows, Tags
<1>6. DisconnectedDevice(d) \in DeviceRows
  BY DEF DisconnectedDevice, DeviceRows
<1> QED BY <1>4, <1>5, <1>6

(* A synchronisation keeps the types and what the user has chosen: it      *)
(* connects nothing, and an endpoint the inventory describes stays         *)
(* disconnected.                                                           *)
LEMMA SynchronisedKeeps ==
  ASSUME NEW rows \in [Endpoints -> EndpointRows], NEW seen
  PROVE  /\ Synchronised(rows, seen) \in [Endpoints -> EndpointRows]
         /\ \A e \in Endpoints :
              /\ Synchronised(rows, seen)[e].status = "connected" =>
                   rows[e].status = "connected"
              /\ rows[e].status = "disconnected" /\ e \in seen =>
                   Synchronised(rows, seen)[e].status = "disconnected"
<1> SUFFICES ASSUME NEW e \in Endpoints
             PROVE  /\ Synchronised(rows, seen)[e] \in EndpointRows
                    /\ Synchronised(rows, seen)[e].status = "connected" =>
                         rows[e].status = "connected"
                    /\ rows[e].status = "disconnected" /\ e \in seen =>
                         Synchronised(rows, seen)[e].status = "disconnected"
  BY DEF Synchronised
<1>1. rows[e] \in EndpointRows
  OBVIOUS
<1>2. CASE e \in seen
  BY <1>1, <1>2 DEF Synchronised, EndpointRows, Statuses
<1>3. CASE e \notin seen
  <2>1. Synchronised(rows, seen)[e] =
          IF rows[e].probed THEN [rows[e] EXCEPT !.status = "stale"]
          ELSE NoEndpoint
    BY <1>3 DEF Synchronised
  <2> QED BY <1>1, <1>3, <2>1
          DEF EndpointRows, Statuses, NoEndpoint
<1> QED BY <1>2, <1>3

(* The rows a session writes have their types; an endpoint's status        *)
(* changes only for one the session touches, to the status it has chosen.  *)
LEMMA FlushedRows ==
  ASSUME TypeOK, NEW s \in Sessions, NEW probed \in BOOLEAN
  PROVE  /\ FlushedDevices(s) \in [Devices -> DeviceRows]
         /\ FlushedEndpoints(s, probed) \in [Endpoints -> EndpointRows]
         /\ \A e \in Endpoints :
              FlushedEndpoints(s, probed)[e].status =
                IF e \in s.touched /\ s.next # s.read
                THEN s.next ELSE endpoint[e].status
<1>1. FlushedDevices(s) \in [Devices -> DeviceRows]
  <2> SUFFICES ASSUME NEW d \in Devices
               PROVE  FlushedDevices(s)[d] \in DeviceRows
    BY DEF FlushedDevices
  <2>1. /\ device[d] \in DeviceRows /\ s.readD[d] \in DeviceRows
        /\ s.workD[d] \in DeviceRows
    BY DEF TypeOK, Sessions
  <2> QED BY <2>1, FlushedDevice DEF FlushedDevices
<1>2. ASSUME NEW e \in Endpoints
      PROVE  /\ FlushedEndpoints(s, probed)[e] \in EndpointRows
             /\ FlushedEndpoints(s, probed)[e].status =
                  IF e \in s.touched /\ s.next # s.read
                  THEN s.next ELSE endpoint[e].status
  <2> DEFINE read == [status |-> s.read, probed |-> FALSE]
             work == [status |-> s.next, probed |-> probed]
  <2>1. endpoint[e] \in EndpointRows
    BY DEF TypeOK
  <2>2. /\ read \in EndpointRows /\ work \in EndpointRows
        /\ read.status = s.read /\ work.status = s.next
    BY DEF EndpointRows, Sessions
  <2>3. FlushedEndpoints(s, probed)[e] =
          IF e \notin s.touched THEN endpoint[e]
          ELSE Flushed(endpoint[e], read, work)
    BY DEF FlushedEndpoints
  <2> HIDE DEF read, work
  <2> QED BY <2>1, <2>2, <2>3, FlushedEndpoint
<1> QED BY <1>1, <1>2 DEF FlushedEndpoints

-----------------------------------------------------------------------------
(* Sessions *)

(* The steps that store a session of the right type keep the others'.      *)
LEMMA StepType ==
  ASSUME TypeOK, NEW c \in Callers \cup Pollers, NEW s \in Sessions,
         Step(c, s)
  PROVE  /\ session' \in [Callers \cup Pollers -> Sessions]
         /\ session'[c] = s
         /\ \A x \in Callers \cup Pollers : x # c => session'[x] = session[x]
BY DEF TypeOK, Step

(* So do those that end a handler.                                         *)
LEMMA EndsType ==
  ASSUME TypeOK, NEW c \in Callers \cup Pollers,
         NEW stage \in {"audit", "failed"}, NEW wrote \in BOOLEAN,
         Ends(c, stage, wrote)
  PROVE  /\ session' \in [Callers \cup Pollers -> Sessions]
         /\ session'[c].stage = stage /\ session'[c].wrote = wrote
         /\ \A x \in Callers \cup Pollers : x # c => session'[x] = session[x]
<1> DEFINE s == [NoSession EXCEPT !.stage = stage, !.wrote = wrote]
<1>1. s \in Sessions /\ s.stage = stage /\ s.wrote = wrote
  BY BlankTypes DEF Sessions
<1>2. Step(c, s)
  BY DEF Ends
<1> QED BY <1>1, <1>2, StepType

(* What a handler starts from has its type.                                *)
LEMMA LoadedType ==
  ASSUME TypeOK, NEW e \in Endpoints, NEW read \in Statuses,
         NEW operation \in {"establish", "disconnect", "options"}
  PROVE  /\ Loaded(operation, e, read) \in Sessions
         /\ Loaded(operation, e, read).stage = "commit"
         /\ Loaded(operation, e, read).operation = operation
         /\ Loaded(operation, e, read).read = read
         /\ Loaded(operation, e, read).next = read
<1> DEFINE rows == [NoRows EXCEPT ![Owner[e]] = device[Owner[e]]]
<1>1. Owner[e] \in Devices
  BY ConstantsAssumption
<1>2. rows \in [Devices -> DeviceRows]
  BY <1>1, BlankTypes DEF TypeOK
<1>3. Loaded(operation, e, read) =
        [NoSession EXCEPT !.stage = "commit", !.operation = operation,
           !.todo = {e}, !.touched = {e}, !.read = read, !.next = read,
           !.readD = rows, !.workD = rows]
  BY DEF Loaded
<1> HIDE DEF rows
<1>4. Loaded(operation, e, read) =
        [stage |-> "commit", operation |-> operation, todo |-> {e},
         touched |-> {e}, found |-> {}, read |-> read, next |-> read,
         readD |-> rows, workD |-> rows, wrote |-> FALSE]
  BY <1>3 DEF NoSession
<1> QED BY <1>2, <1>4 DEF Sessions

(* What the sessions keep in mind between their reads and their commits.   *)
(* A poll, and the options of an endpoint there is, write back the status  *)
(* they have read; a disconnection writes nothing else than that.          *)
SessionsKeepChoices ==
  /\ \A c \in Callers : session[c].stage = "commit" =>
       \/ session[c].operation = "establish"
       \/ session[c].operation = "disconnect"
            /\ session[c].next = "disconnected"
       \/ session[c].operation = "options"
            /\ (session[c].touched = {} \/ session[c].next = session[c].read)
  /\ \A p \in Pollers : session[p].stage \in {"probe", "commit"} =>
       session[p].next = session[p].read

ConnectionInv == TypeOK /\ TrailTruthful /\ SessionsKeepChoices

(* A session the step leaves at none of its stages, or as it was, says     *)
(* what it said before.                                                    *)
LEMMA OtherSessions ==
  ASSUME ConnectionInv, NEW c \in Callers \cup Pollers,
         \A x \in Callers \cup Pollers : x # c => session'[x] = session[x],
         c \in Callers =>
           /\ session'[c].stage = "failed" => ~session'[c].wrote
           /\ session'[c].stage = "audit" => session'[c].wrote
           /\ session'[c].stage = "commit" =>
                \/ session'[c].operation = "establish"
                \/ session'[c].operation = "disconnect"
                     /\ session'[c].next = "disconnected"
                \/ session'[c].operation = "options"
                     /\ (session'[c].touched = {}
                           \/ session'[c].next = session'[c].read),
         c \in Pollers /\ session'[c].stage \in {"probe", "commit"} =>
           session'[c].next = session'[c].read
  PROVE  TrailTruthful' /\ SessionsKeepChoices'
<1>1. TrailTruthful'
  BY DEF ConnectionInv, TrailTruthful
<1>2. SessionsKeepChoices'
  BY DEF ConnectionInv, SessionsKeepChoices
<1> QED BY <1>1, <1>2

(* A session that has ended says nothing.                                  *)
LEMMA EndedSession ==
  ASSUME ConnectionInv, NEW c \in Callers \cup Pollers,
         session' = [session EXCEPT ![c] = NoSession]
  PROVE  /\ session' \in [Callers \cup Pollers -> Sessions]
         /\ TrailTruthful' /\ SessionsKeepChoices'
<1>1. Step(c, NoSession)
  BY DEF Step
<1>2. /\ session' \in [Callers \cup Pollers -> Sessions]
      /\ session'[c] = NoSession
      /\ \A x \in Callers \cup Pollers : x # c => session'[x] = session[x]
  BY <1>1, StepType, BlankTypes DEF ConnectionInv
<1>3. session'[c].stage = "idle"
  BY <1>2 DEF NoSession
<1> QED BY <1>2, <1>3, OtherSessions

-----------------------------------------------------------------------------
(* One lemma per step *)

(* Nobody is at work at first.                                             *)
LEMMA InvInit == Init => ConnectionInv
<1> SUFFICES ASSUME Init PROVE ConnectionInv
  OBVIOUS
<1>1. observed \subseteq Endpoints
  BY ConstantsAssumption DEF Init
<1>2. endpoint \in [Endpoints -> EndpointRows]
  <2>1. [e \in Endpoints |-> NoEndpoint] \in [Endpoints -> EndpointRows]
    BY BlankTypes
  <2> QED BY <2>1, SynchronisedKeeps DEF Init
<1>3. device \in [Devices -> DeviceRows]
  <2>1. \A sample \in Samples : Discovered(sample) \in DeviceRows
    BY ConstantsAssumption DEF Discovered, DeviceRows
  <2> QED BY <2>1 DEF Init
<1>4. /\ DOMAIN answers = Endpoints
      /\ \A e \in Endpoints : answers[e] \in Answers[e]
  BY DEF Init
<1>5. /\ session \in [Callers \cup Pollers -> Sessions]
      /\ \A x \in Callers \cup Pollers : session[x].stage = "idle"
  BY BlankTypes DEF Init, NoSession
<1>6. disruptions \in 0 .. MaxDisruptions
  BY ConstantsAssumption DEF Init
<1>7. TypeOK
  BY <1>1, <1>2, <1>3, <1>4, <1>5, <1>6 DEF TypeOK
<1>8. TrailTruthful /\ SessionsKeepChoices
  BY <1>5 DEF TrailTruthful, SessionsKeepChoices
<1> QED BY <1>7, <1>8 DEF ConnectionInv

(* A handler that raises before it has committed.                          *)
LEMMA RaisesKeeps ==
  ASSUME ConnectionInv, NEW c \in Callers, NEW e \in Endpoints,
         NEW operation, Raises(c, operation, e)
  PROVE  ConnectionInv'
<1>1. /\ session' \in [Callers \cup Pollers -> Sessions]
      /\ session'[c].stage = "failed" /\ session'[c].wrote = FALSE
      /\ \A x \in Callers \cup Pollers : x # c => session'[x] = session[x]
  BY EndsType DEF Raises, ConnectionInv
<1>2. TrailTruthful' /\ SessionsKeepChoices'
  BY <1>1, OtherSessions, ConstantsAssumption
<1> QED BY <1>1, <1>2 DEF ConnectionInv, TypeOK, Raises

(* establish: the rows are read and the device is asked.                   *)
LEMMA EstablishKeeps ==
  ASSUME ConnectionInv, NEW c \in Callers, NEW e \in Endpoints,
         Establish(c, e)
  PROVE  ConnectionInv'
<1> DEFINE s == Loaded("establish", e, endpoint[e].status)
           d == Refresh(e, device[Owner[e]], s.read, answers[e])
           answer == ConnectionResult(e, d, s.read, answers[e])
           row == EstablishedDevice(e, d, answer)
           new == [s EXCEPT !.found = Found(e),
                     !.next = IF answer = "connected"
                              THEN "connected" ELSE "observed",
                     !.workD[Owner[e]] = row]
<1>1. /\ Owner[e] \in Devices /\ device[Owner[e]] \in DeviceRows
      /\ endpoint[e].status \in Statuses
  BY ConstantsAssumption DEF ConnectionInv, TypeOK, EndpointRows
<1>2. s \in Sessions /\ s.stage = "commit" /\ s.operation = "establish"
  BY <1>1, LoadedType DEF ConnectionInv
<1>3. row \in DeviceRows
  BY <1>1, ProbedDevice
<1>4. Found(e) \subseteq Endpoints
  BY DEF Found
<1> HIDE DEF s, d, answer, row
<1>5. [s.workD EXCEPT ![Owner[e]] = row] \in [Devices -> DeviceRows]
  BY <1>2, <1>3 DEF Sessions
<1>6. new \in Sessions /\ new.stage = "commit" /\ new.operation = "establish"
  BY <1>2, <1>4, <1>5 DEF Sessions, Statuses
<1>7. Step(c, new)
  BY DEF Establish, s, d, answer, row
<1> HIDE DEF new
<1>8. /\ session' \in [Callers \cup Pollers -> Sessions]
      /\ session'[c] = new
      /\ \A x \in Callers \cup Pollers : x # c => session'[x] = session[x]
  BY <1>6, <1>7, StepType DEF ConnectionInv
<1>9. TrailTruthful' /\ SessionsKeepChoices'
  BY <1>6, <1>8, OtherSessions, ConstantsAssumption
<1> QED BY <1>8, <1>9 DEF ConnectionInv, TypeOK, Establish

(* disconnect: the rows are read.                                          *)
LEMMA DisconnectKeeps ==
  ASSUME ConnectionInv, NEW c \in Callers, NEW e \in Endpoints,
         Disconnect(c, e)
  PROVE  ConnectionInv'
<1> DEFINE s == Loaded("disconnect", e, endpoint[e].status)
           rows == [s.workD EXCEPT ![Owner[e]] = DisconnectedDevice(@)]
           new == [s EXCEPT !.next = "disconnected",
                     !.workD[Owner[e]] = DisconnectedDevice(@)]
<1>1. Owner[e] \in Devices /\ endpoint[e].status \in Statuses
  BY ConstantsAssumption DEF ConnectionInv, TypeOK, EndpointRows
<1>2. s \in Sessions /\ s.stage = "commit" /\ s.operation = "disconnect"
  BY <1>1, LoadedType DEF ConnectionInv
<1>3. Step(c, new)
  BY DEF Disconnect
<1> HIDE DEF s
<1>4. rows \in [Devices -> DeviceRows]
  <2>1. s.workD \in [Devices -> DeviceRows]
    BY <1>2 DEF Sessions
  <2>2. DisconnectedDevice(s.workD[Owner[e]]) \in DeviceRows
    BY <1>1, <2>1, ProbedDevice
  <2> QED BY <2>1, <2>2
<1>5. new = [s EXCEPT !.next = "disconnected", !.workD = rows]
  BY <1>2 DEF Sessions
<1> HIDE DEF rows, new
<1>6. /\ new \in Sessions /\ new.stage = "commit"
      /\ new.operation = "disconnect" /\ new.next = "disconnected"
  BY <1>2, <1>4, <1>5 DEF Sessions, Statuses
<1>7. /\ session' \in [Callers \cup Pollers -> Sessions]
      /\ session'[c] = new
      /\ \A x \in Callers \cup Pollers : x # c => session'[x] = session[x]
  BY <1>3, <1>6, StepType DEF ConnectionInv
<1>8. TrailTruthful' /\ SessionsKeepChoices'
  BY <1>6, <1>7, OtherSessions, ConstantsAssumption
<1> QED BY <1>7, <1>8 DEF ConnectionInv, TypeOK, Disconnect

(* The commit of establish and disconnect.                                 *)
LEMMA CommitKeeps ==
  ASSUME ConnectionInv, NEW c \in Callers, Commit(c)
  PROVE  ConnectionInv'
<1>1. session[c] \in Sessions
  BY DEF ConnectionInv, TypeOK
<1>2. /\ endpoint' \in [Endpoints -> EndpointRows]
      /\ device' \in [Devices -> DeviceRows]
  BY <1>1, FlushedRows DEF Commit, ConnectionInv
<1>3. observed' \subseteq Endpoints
  BY <1>1 DEF Commit, ConnectionInv, TypeOK, Sessions
<1>4. /\ session' \in [Callers \cup Pollers -> Sessions]
      /\ session'[c].stage = "audit" /\ session'[c].wrote = TRUE
      /\ \A x \in Callers \cup Pollers : x # c => session'[x] = session[x]
  BY EndsType DEF Commit, AfterCommit, ConnectionInv
<1>5. TrailTruthful' /\ SessionsKeepChoices'
  BY <1>4, OtherSessions, ConstantsAssumption
<1> QED BY <1>2, <1>3, <1>4, <1>5 DEF ConnectionInv, TypeOK, Commit

(* get_options: a synchronisation, then the Modbus endpoint is read.  The  *)
(* status is written back as it was read, unless there was no row for it.  *)
LEMMA OptionsKeeps ==
  ASSUME ConnectionInv, NEW c \in Callers, NEW e \in Endpoints,
         Options(c, e)
  PROVE  ConnectionInv'
<1>1. endpoint' \in [Endpoints -> EndpointRows]
  BY SynchronisedKeeps DEF Options, ConnectionInv, TypeOK
<1>2. ASSUME Ends(c, "failed", FALSE)
      PROVE  /\ session' \in [Callers \cup Pollers -> Sessions]
             /\ TrailTruthful' /\ SessionsKeepChoices'
  <2>1. /\ session' \in [Callers \cup Pollers -> Sessions]
        /\ session'[c].stage = "failed" /\ session'[c].wrote = FALSE
        /\ \A x \in Callers \cup Pollers : x # c => session'[x] = session[x]
    BY <1>2, EndsType DEF ConnectionInv
  <2> QED BY <2>1, OtherSessions, ConstantsAssumption
<1>3. ASSUME ~Ends(c, "failed", FALSE)
      PROVE  /\ session' \in [Callers \cup Pollers -> Sessions]
             /\ TrailTruthful' /\ SessionsKeepChoices'
  <2> DEFINE s == Loaded("options", e, endpoint'[e].status)
             d == device[Owner[e]]
             absent == s.read = "absent"
             touched == IF absent THEN {} ELSE {e}
             next == IF absent /\ Found(e) # {} THEN "observed" ELSE s.next
             row == IF absent /\ answers[e] # "updated"
                    THEN s.workD[Owner[e]]
                    ELSE Refresh(e, d, s.read, answers[e])
             rows == [s.workD EXCEPT ![Owner[e]] = row]
             new == [s EXCEPT !.found = Found(e), !.touched = touched,
                       !.next = next, !.workD = rows]
  <2>1. /\ Owner[e] \in Devices /\ d \in DeviceRows
        /\ endpoint'[e].status \in Statuses
    BY <1>1, ConstantsAssumption DEF ConnectionInv, TypeOK, EndpointRows
  <2>2. /\ s \in Sessions /\ s.stage = "commit" /\ s.operation = "options"
        /\ s.next = s.read
    BY <2>1, LoadedType DEF ConnectionInv
  <2>3. s.workD \in [Devices -> DeviceRows]
    BY <2>2 DEF Sessions
  <2>4. row \in DeviceRows
    BY <2>1, <2>3, ProbedDevice
  <2>5. rows \in [Devices -> DeviceRows]
    BY <2>3, <2>4
  <2>6. Found(e) \subseteq Endpoints
    BY DEF Found
  <2>7. /\ touched \subseteq Endpoints /\ next \in Statuses
        /\ touched = {} \/ next = s.read
    BY <2>2 DEF Sessions, Statuses
  <2>8. Step(c, [s EXCEPT !.found = Found(e),
            !.touched = IF absent THEN {} ELSE {e},
            !.next = IF absent /\ Found(e) # {} THEN "observed" ELSE @,
            !.workD[Owner[e]] = IF absent /\ answers[e] # "updated" THEN @
                                ELSE Refresh(e, d, s.read, answers[e])])
    BY <1>3 DEF Options
  <2> HIDE DEF s, d, absent, next
  <2>9. Step(c, new)
    BY <2>2, <2>8 DEF Sessions, next
  <2> HIDE DEF touched, row, rows
  <2>10. /\ new \in Sessions /\ new.stage = "commit"
         /\ new.operation = "options" /\ new.touched = touched
         /\ new.next = next /\ new.read = s.read
    BY <2>2, <2>5, <2>6, <2>7 DEF Sessions
  <2> HIDE DEF new
  <2>11. /\ session' \in [Callers \cup Pollers -> Sessions]
         /\ session'[c] = new
         /\ \A x \in Callers \cup Pollers : x # c => session'[x] = session[x]
    BY <2>9, <2>10, StepType DEF ConnectionInv
  <2> QED BY <2>7, <2>10, <2>11, OtherSessions, ConstantsAssumption
<1> QED BY <1>1, <1>2, <1>3 DEF ConnectionInv, TypeOK, Options

(* The commit of get_options, which may add a row and synchronises.        *)
LEMMA CommitOptionsKeeps ==
  ASSUME ConnectionInv, NEW c \in Callers, CommitOptions(c)
  PROVE  ConnectionInv'
<1> DEFINE s == session[c]
           new == {e \in s.todo : s.read = "absent" /\ s.next = "observed"
                                  /\ endpoint[e].status = "absent"}
           rows == [e \in Endpoints |->
                      IF e \in new
                      THEN [status |-> "observed", probed |-> TRUE]
                      ELSE FlushedEndpoints(s, TRUE)[e]]
<1>1. s \in Sessions
  BY DEF ConnectionInv, TypeOK
<1>2. /\ FlushedEndpoints(s, TRUE) \in [Endpoints -> EndpointRows]
      /\ FlushedDevices(s) \in [Devices -> DeviceRows]
  BY <1>1, FlushedRows DEF ConnectionInv
<1>3. [status |-> "observed", probed |-> TRUE] \in EndpointRows
  BY DEF EndpointRows, Statuses
<1>4. rows \in [Endpoints -> EndpointRows]
  BY <1>2, <1>3
<1>5. endpoint' = Synchronised(rows, observed')
  BY DEF CommitOptions
<1>6. endpoint' \in [Endpoints -> EndpointRows]
  BY <1>4, <1>5, SynchronisedKeeps
<1>7. observed' \subseteq Endpoints
  BY <1>1 DEF CommitOptions, ConnectionInv, TypeOK, Sessions
<1>8. /\ session' \in [Callers \cup Pollers -> Sessions]
      /\ session'[c].stage = "audit" /\ session'[c].wrote = TRUE
      /\ \A x \in Callers \cup Pollers : x # c => session'[x] = session[x]
  BY EndsType DEF CommitOptions, ConnectionInv
<1>9. TrailTruthful' /\ SessionsKeepChoices'
  BY <1>8, OtherSessions, ConstantsAssumption
<1> QED BY <1>2, <1>6, <1>7, <1>8, <1>9
        DEF ConnectionInv, TypeOK, CommitOptions

(* inventory.remove_device.                                                *)
LEMMA RemoveDeviceKeeps ==
  ASSUME ConnectionInv, NEW c \in Callers, NEW e \in Endpoints,
         RemoveDevice(c, e)
  PROVE  ConnectionInv'
<1>1. /\ endpoint' \in [Endpoints -> EndpointRows]
      /\ device' \in [Devices -> DeviceRows]
      /\ observed' \subseteq Endpoints
  BY BlankTypes DEF RemoveDevice, Removed, ConnectionInv, TypeOK
<1>2. /\ session' \in [Callers \cup Pollers -> Sessions]
      /\ session'[c].stage = "audit" /\ session'[c].wrote = TRUE
      /\ \A x \in Callers \cup Pollers : x # c => session'[x] = session[x]
  BY EndsType DEF RemoveDevice, ConnectionInv
<1>3. TrailTruthful' /\ SessionsKeepChoices'
  BY <1>2, OtherSessions, ConstantsAssumption
<1> QED BY <1>1, <1>2, <1>3 DEF ConnectionInv, TypeOK, RemoveDevice

(* A handler fails at its commit, or its end is recorded.                  *)
LEMMA CallerEndKeeps ==
  ASSUME ConnectionInv, NEW c \in Callers,
         CommitRaises(c) \/ Complete(c) \/ Fail(c)
  PROVE  ConnectionInv'
<1>1. CASE CommitRaises(c)
  <2>1. /\ session' \in [Callers \cup Pollers -> Sessions]
        /\ session'[c].stage = "failed" /\ session'[c].wrote = FALSE
        /\ \A x \in Callers \cup Pollers : x # c => session'[x] = session[x]
    BY <1>1, EndsType DEF CommitRaises, ConnectionInv
  <2>2. TrailTruthful' /\ SessionsKeepChoices'
    BY <2>1, OtherSessions, ConstantsAssumption
  <2> QED BY <1>1, <2>1, <2>2 DEF ConnectionInv, TypeOK, CommitRaises
<1>2. CASE Complete(c) \/ Fail(c)
  BY <1>2, EndedSession DEF ConnectionInv, TypeOK, Complete, Fail
<1> QED BY <1>1, <1>2

(* A poll begins with the endpoints that are connected.                    *)
LEMMA PollBeginKeeps ==
  ASSUME ConnectionInv, NEW p \in Pollers, PollBegin(p)
  PROVE  ConnectionInv'
<1> DEFINE todo == {e \in Endpoints : Protocol[e] = p /\ Connected(e)}
           s == [NoSession EXCEPT !.stage = "probe", !.todo = todo,
                   !.read = "connected", !.next = "connected"]
<1>1. Step(p, s)
  BY DEF PollBegin
<1> HIDE DEF todo
<1>2. todo \subseteq Endpoints
  BY DEF todo
<1>3. s \in Sessions /\ s.next = s.read
  BY <1>2, BlankTypes DEF Sessions, Statuses
<1> HIDE DEF s
<1>4. /\ session' \in [Callers \cup Pollers -> Sessions]
      /\ session'[p] = s
      /\ \A x \in Callers \cup Pollers : x # p => session'[x] = session[x]
  BY <1>1, <1>3, StepType DEF ConnectionInv
<1>5. TrailTruthful' /\ SessionsKeepChoices'
  BY <1>3, <1>4, OtherSessions, ConstantsAssumption
<1> QED BY <1>4, <1>5 DEF ConnectionInv, TypeOK, PollBegin

(* A poll reads a device, asks one of its endpoints, and goes on.          *)
LEMMA PollProbeKeeps ==
  ASSUME ConnectionInv, NEW p \in Pollers, NEW e \in Endpoints,
         PollProbe(p, e)
  PROVE  ConnectionInv'
<1> DEFINE s == session[p]
           d == Owner[e]
           first == \A f \in s.touched : Owner[f] # d
           row == IF first THEN device[d] ELSE s.workD[d]
           found == IF row.status = "absent" THEN s.found
                    ELSE s.found \cup Found(e)
           stage == IF s.todo = {e} THEN "commit" ELSE "probe"
           readD == IF first THEN [s.readD EXCEPT ![d] = row] ELSE s.readD
           probed == Refresh(e, row, "connected", answers[e])
           workD == [s.workD EXCEPT ![d] = probed]
           new == [s EXCEPT !.todo = @ \ {e}, !.touched = @ \cup {e},
                     !.found = found, !.stage = stage, !.readD = readD,
                     !.workD = workD]
<1>1. Step(p, new)
  BY DEF PollProbe
<1>2. s \in Sessions /\ s.next = s.read
  BY DEF ConnectionInv, TypeOK, SessionsKeepChoices, PollProbe
<1>3. /\ d \in Devices /\ device[d] \in DeviceRows
      /\ s.workD \in [Devices -> DeviceRows]
      /\ s.readD \in [Devices -> DeviceRows]
      /\ s.todo \subseteq Endpoints /\ s.touched \subseteq Endpoints
      /\ s.found \subseteq Endpoints
  BY <1>2, ConstantsAssumption DEF ConnectionInv, TypeOK, Sessions
<1> HIDE DEF s, d, first
<1>4. row \in DeviceRows
  BY <1>3
<1>5. probed \in DeviceRows
  BY <1>4, ProbedDevice
<1>6. /\ found \subseteq Endpoints
      /\ stage \in {"idle", "probe", "commit", "audit", "failed"}
  BY <1>3 DEF Found
<1> HIDE DEF row, probed, found, stage
<1>7. /\ readD \in [Devices -> DeviceRows]
      /\ workD \in [Devices -> DeviceRows]
  BY <1>3, <1>4, <1>5
<1> HIDE DEF readD, workD
<1>8. new \in Sessions /\ new.next = new.read
  BY <1>2, <1>3, <1>6, <1>7 DEF Sessions
<1> HIDE DEF new
<1>9. /\ session' \in [Callers \cup Pollers -> Sessions]
      /\ session'[p] = new
      /\ \A x \in Callers \cup Pollers : x # p => session'[x] = session[x]
  BY <1>1, <1>8, StepType DEF ConnectionInv
<1>10. TrailTruthful' /\ SessionsKeepChoices'
  BY <1>8, <1>9, OtherSessions, ConstantsAssumption
<1> QED BY <1>9, <1>10 DEF ConnectionInv, TypeOK, PollProbe

(* A poll commits, or is lost.                                             *)
LEMMA PollEndKeeps ==
  ASSUME ConnectionInv, NEW p \in Pollers, PollCommit(p) \/ PollLost(p)
  PROVE  ConnectionInv'
<1>1. CASE PollCommit(p)
  <2>1. session[p] \in Sessions
    BY DEF ConnectionInv, TypeOK
  <2>2. /\ endpoint' \in [Endpoints -> EndpointRows]
        /\ device' \in [Devices -> DeviceRows]
    BY <1>1, <2>1, FlushedRows DEF PollCommit, ConnectionInv
  <2>3. observed' \subseteq Endpoints
    BY <1>1, <2>1 DEF PollCommit, ConnectionInv, TypeOK, Sessions
  <2>4. /\ session' \in [Callers \cup Pollers -> Sessions]
        /\ TrailTruthful' /\ SessionsKeepChoices'
    BY <1>1, EndedSession DEF PollCommit
  <2> QED BY <1>1, <2>2, <2>3, <2>4 DEF ConnectionInv, TypeOK, PollCommit
<1>2. CASE PollLost(p)
  BY <1>2, EndedSession DEF ConnectionInv, TypeOK, PollLost
<1> QED BY <1>1, <1>2

(* Devices change their answers, discovery and synchronisation run, and    *)
(* the server restarts.                                                    *)
LEMMA EnvironmentKeeps ==
  ASSUME ConnectionInv, Environment
  PROVE  ConnectionInv'
<1>1. ASSUME NEW e \in Endpoints, NEW a \in Answers[e], Answer(e, a)
      PROVE  ConnectionInv'
  BY <1>1 DEF Answer, ConnectionInv, TypeOK, TrailTruthful,
              SessionsKeepChoices
<1>2. ASSUME NEW d \in Devices, NEW sample \in Samples, NEW f \in Scans,
             Discover(d, {e \in f : Owner[e] = d}, sample)
      PROVE  ConnectionInv'
  <2>1. Discovered(sample) \in DeviceRows
    BY ConstantsAssumption DEF Discovered, DeviceRows
  <2>2. device' \in [Devices -> DeviceRows]
    BY <1>2, <2>1, BlankTypes DEF Discover, ConnectionInv, TypeOK
  <2>3. observed' \subseteq Endpoints
    BY <1>2, ConstantsAssumption DEF Discover, ConnectionInv, TypeOK
  <2>4. disruptions' \in 0 .. MaxDisruptions
    BY <1>2, ConstantsAssumption DEF Discover, ConnectionInv, TypeOK
  <2> QED BY <1>2, <2>2, <2>3, <2>4
          DEF Discover, ConnectionInv, TypeOK, TrailTruthful,
              SessionsKeepChoices
<1>3. CASE Synchronise
  BY <1>3, SynchronisedKeeps
  DEF Synchronise, ConnectionInv, TypeOK, TrailTruthful, SessionsKeepChoices
<1>4. CASE Crash
  <2>1. /\ session' \in [Callers \cup Pollers -> Sessions]
        /\ \A x \in Callers \cup Pollers : session'[x].stage = "idle"
    BY <1>4, BlankTypes DEF Crash, NoSession
  <2>2. disruptions' \in 0 .. MaxDisruptions
    BY <1>4, ConstantsAssumption DEF Crash, ConnectionInv, TypeOK
  <2> QED BY <1>4, <2>1, <2>2
          DEF Crash, ConnectionInv, TypeOK, TrailTruthful,
              SessionsKeepChoices
<1> QED BY <1>1, <1>2, <1>3, <1>4 DEF Environment

(* Every step keeps types, trail and sessions.                             *)
LEMMA InvStep == ConnectionInv /\ [Next]_vars => ConnectionInv'
<1> SUFFICES ASSUME ConnectionInv, [Next]_vars PROVE ConnectionInv'
  OBVIOUS
<1>1. ASSUME NEW c \in Callers, NEW e \in Endpoints, CallerBegins(c, e)
      PROVE  ConnectionInv'
  BY <1>1, RaisesKeeps, EstablishKeeps, DisconnectKeeps, OptionsKeeps,
     RemoveDeviceKeeps DEF CallerBegins
<1>2. ASSUME NEW c \in Callers, CallerEnds(c) PROVE ConnectionInv'
  BY <1>2, CommitKeeps, CommitOptionsKeeps, CallerEndKeeps DEF CallerEnds
<1>3. ASSUME NEW p \in Pollers, PollStep(p) PROVE ConnectionInv'
  BY <1>3, PollBeginKeeps, PollProbeKeeps, PollEndKeeps DEF PollStep
<1>4. CASE Environment
  BY <1>4, EnvironmentKeeps
<1>5. CASE UNCHANGED vars
  BY <1>5 DEF vars, ConnectionInv, TypeOK, TrailTruthful,
              SessionsKeepChoices
<1> QED BY <1>1, <1>2, <1>3, <1>4, <1>5 DEF Next

-----------------------------------------------------------------------------
(* Theorems *)

(* Sessions, rows and the trail are what they should be in every state.    *)
THEOREM ConnectionInvariant == Spec => []ConnectionInv
BY InvInit, InvStep, PTL DEF Spec

(* Rows written column by column from what a session has read long before  *)
(* keep their types, whatever has happened to them since.                  *)
THEOREM TypeCorrect == Spec => []TypeOK
<1>1. ConnectionInv => TypeOK
  BY DEF ConnectionInv
<1> QED BY <1>1, ConnectionInvariant, PTL

(* No action is recorded as completed unless it has committed, nor as      *)
(* failed if it has.                                                       *)
THEOREM TrailIsTruthful == Spec => []TrailTruthful
<1>1. ConnectionInv => TrailTruthful
  BY DEF ConnectionInv
<1> QED BY <1>1, ConnectionInvariant, PTL

(* What a step may do to an endpoint: only the commit of an establishment  *)
(* connects it, or lets it go when the user has disconnected it.           *)
LEMMA StepDecides ==
  ASSUME ConnectionInv, Next, NEW e \in Endpoints
  PROVE  /\ ~Connected(e) /\ Connected(e)' =>
              \E c \in Callers : Establishes(c, e)
         /\ /\ endpoint[e].status = "disconnected"
            /\ endpoint'[e].status # "disconnected"
            => \/ e \notin observed'
               \/ \E c \in Callers : Establishes(c, e)
<1> DEFINE Kept(now) ==
             /\ now = "connected" => endpoint[e].status = "connected"
             /\ endpoint[e].status = "disconnected" /\ e \in observed' =>
                  now = "disconnected"
           Decided == Kept(endpoint'[e].status)
                        \/ \E c \in Callers : Establishes(c, e)
<1> SUFFICES Decided
  BY DEF Connected
<1>1. endpoint \in [Endpoints -> EndpointRows]
  BY DEF ConnectionInv, TypeOK
<1>2. CASE endpoint' = endpoint
  BY <1>2
<1>3. CASE endpoint' = Synchronised(endpoint, observed) /\ observed' = observed
  BY <1>1, <1>3, SynchronisedKeeps
<1>4. ASSUME NEW c \in Callers, Commit(c) PROVE Decided
  <2>1. session[c] \in Sessions /\ session[c].stage = "commit"
    BY <1>4 DEF Commit, ConnectionInv, TypeOK
  <2>2. endpoint'[e].status =
          IF e \in session[c].touched /\ session[c].next # session[c].read
          THEN session[c].next ELSE endpoint[e].status
    BY <1>4, <2>1, FlushedRows DEF Commit, ConnectionInv
  <2>3. CASE session[c].operation = "establish"
    BY <2>1, <2>2, <2>3 DEF Establishes
  <2>4. CASE session[c].operation = "disconnect"
    <3>1. session[c].next = "disconnected"
      BY <2>1, <2>4 DEF ConnectionInv, SessionsKeepChoices
    <3> QED BY <2>2, <3>1
  <2> QED BY <1>4, <2>3, <2>4 DEF Commit
<1>5. ASSUME NEW c \in Callers, CommitOptions(c) PROVE Decided
  <2> DEFINE s == session[c]
             new == {f \in s.todo : s.read = "absent" /\ s.next = "observed"
                                    /\ endpoint[f].status = "absent"}
             rows == [f \in Endpoints |->
                        IF f \in new
                        THEN [status |-> "observed", probed |-> TRUE]
                        ELSE FlushedEndpoints(s, TRUE)[f]]
  <2>1. s \in Sessions /\ (s.touched = {} \/ s.next = s.read)
    BY <1>5
    DEF CommitOptions, ConnectionInv, TypeOK, SessionsKeepChoices
  <2>2. /\ FlushedEndpoints(s, TRUE) \in [Endpoints -> EndpointRows]
        /\ FlushedEndpoints(s, TRUE)[e].status = endpoint[e].status
    BY <2>1, FlushedRows DEF ConnectionInv
  <2>3. rows \in [Endpoints -> EndpointRows]
    BY <2>2 DEF EndpointRows, Statuses
  <2>4. endpoint' = Synchronised(rows, observed')
    BY <1>5 DEF CommitOptions
  <2>5. /\ rows[e].status = "connected" => endpoint[e].status = "connected"
        /\ endpoint[e].status = "disconnected" =>
             rows[e].status = "disconnected"
    BY <2>2
  <2> HIDE DEF rows
  <2> QED BY <2>3, <2>4, <2>5, SynchronisedKeeps
<1>6. ASSUME NEW c \in Callers, NEW f \in Endpoints, RemoveDevice(c, f)
      PROVE  Decided
  BY <1>1, <1>6 DEF RemoveDevice, Removed, NoEndpoint
<1>7. ASSUME NEW p \in Pollers, PollCommit(p) PROVE Decided
  <2>1. session[p] \in Sessions /\ session[p].next = session[p].read
    BY <1>7 DEF PollCommit, ConnectionInv, TypeOK, SessionsKeepChoices
  <2>2. endpoint'[e].status = endpoint[e].status
    BY <1>7, <2>1, FlushedRows DEF PollCommit, ConnectionInv
  <2> QED BY <2>2
<1>8. ASSUME NEW c \in Callers, NEW f \in Endpoints, CallerBegins(c, f)
      PROVE  Decided
  BY <1>2, <1>3, <1>6, <1>8
  DEF CallerBegins, Raises, Establish, Disconnect, Options
<1>9. ASSUME NEW c \in Callers, CallerEnds(c) PROVE Decided
  BY <1>2, <1>4, <1>5, <1>9 DEF CallerEnds, CommitRaises, Complete, Fail
<1>10. ASSUME NEW p \in Pollers, PollStep(p) PROVE Decided
  BY <1>2, <1>7, <1>10 DEF PollStep, PollBegin, PollProbe, PollLost
<1>11. CASE Environment
  BY <1>2, <1>3, <1>11 DEF Environment, Answer, Discover, Synchronise, Crash
<1> QED BY <1>8, <1>9, <1>10, <1>11 DEF Next

(* However many threads and polls overlap, an endpoint is connected only   *)
(* by an establishment that commits, and a disconnected one stays so until *)
(* then, or until the inventory drops it.                                  *)
THEOREM ConnectionsAreTheUsers == Spec => UsersDecide
<1> DEFINE Decides ==
      \A e \in Endpoints :
        /\ ~Connected(e) /\ Connected(e)' =>
             \E c \in Callers : Establishes(c, e)
        /\ /\ endpoint[e].status = "disconnected"
           /\ endpoint'[e].status # "disconnected"
           => \/ e \notin observed'
              \/ \E c \in Callers : Establishes(c, e)
<1>1. ConnectionInv /\ [Next]_vars => [Decides]_vars
  BY StepDecides
<1> QED BY <1>1, ConnectionInvariant, PTL DEF Spec, UsersDecide
=============================================================================
