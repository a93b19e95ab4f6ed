---------------------------- MODULE Connections ----------------------------
(***************************************************************************)
(* Connections to devices over local HTTP and Modbus/TCP: the actions that *)
(* establish and end them, the two pollers that refresh the telemetry of   *)
(* connected endpoints, and the synchronisation of the inventory to the    *)
(* home graph, which may withdraw an endpoint under both.                  *)
(*                                                                         *)
(* Every request and every poll works in a database session of its own.    *)
(* It reads rows, waits for the device, which may take seconds, computes   *)
(* the new rows from what it read, and commits.  Nothing locks the rows    *)
(* meanwhile: a commit writes the columns whose value differs from what    *)
(* the session has read, and fails when a row it writes is gone.           *)
(*                                                                         *)
(* The answers of the devices and the results of discovery are external.   *)
(***************************************************************************)
EXTENDS Naturals, FiniteSets, Functions

CONSTANTS
  Endpoints,      \* endpoints discovery can find
  Devices,        \* devices it can find
  Owner,          \* the device of an endpoint
  Protocol,       \* "http" or "modbus", per endpoint
  Pollers,        \* protocols whose connected endpoints are polled
  Callers,        \* request threads
  Operations,     \* what they do
  Answers,        \* how an endpoint may answer a probe
  Scans,          \* what discovery may find
  Samples,        \* whether discovery itself reads telemetry
  MaxDisruptions  \* bound on further discoveries and on restarts, together

ASSUME ConstantsAssumption ==
  /\ Owner \in [Endpoints -> Devices]
  /\ Protocol \in [Endpoints -> {"http", "modbus"}]
  /\ Pollers \subseteq {"http", "modbus"} /\ Pollers \cap Callers = {}
  /\ Operations \subseteq {"establish", "disconnect", "options", "remove"}
  /\ Answers \in [Endpoints -> SUBSET
                  {"updated", "empty", "unreachable", "malformed"}]
  /\ Scans \subseteq SUBSET Endpoints /\ Samples \subseteq BOOLEAN
  /\ MaxDisruptions \in Nat

VARIABLES
  endpoint,       \* ProtocolEndpoint rows
  device,         \* Device rows
  observed,       \* endpoints the inventory describes
  answers,        \* how each endpoint answers at present
  session,        \* the sessions of callers and pollers
  disruptions     \* further discoveries and restarts so far

vars == <<endpoint, device, observed, answers, session, disruptions>>

-----------------------------------------------------------------------------
Statuses == {"absent", "observed", "connected", "disconnected", "stale"}

(* An endpoint has runtime state once it has been probed; the state of a   *)
(* Modbus endpoint starts with what discovery has read from it.            *)
EndpointRows ==
  [status : Statuses, probed : BOOLEAN]
NoEndpoint == [status |-> "absent", probed |-> FALSE]

Tags == {"connected", "http_ready", "modbus_ready"}
DeviceRows ==
  [status : {"absent", "present"}, tags : SUBSET Tags,
   ready : BOOLEAN, sample : BOOLEAN,
   telemetry : {"unknown", "live", "sampled", "stale", "error"}]
NoDevice == [status |-> "absent", tags |-> {}, ready |-> FALSE,
             sample |-> FALSE, telemetry |-> "unknown"]

ReadyTag(e) == IF Protocol[e] = "http" THEN "http_ready" ELSE "modbus_ready"

(* read and next are the status of the target as it was read and as it     *)
(* will be written, readD and workD the rows of its device before and      *)
(* after; a poll has them for every device it has come to.  The session    *)
(* updates the rows of the endpoints in touched, and the evidence of those *)
(* in found, from which the inventory describes a Modbus endpoint; wrote   *)
(* says that it has committed.  An action in "audit" or "failed" will be   *)
(* recorded as completed or as failed.                                     *)
Sessions ==
  [stage : {"idle", "probe", "commit", "audit", "failed"},
   operation : {"poll", "establish", "disconnect", "options"},
   todo : SUBSET Endpoints, touched : SUBSET Endpoints,
   found : SUBSET Endpoints, read : Statuses, next : Statuses,
   readD : [Devices -> DeviceRows], workD : [Devices -> DeviceRows],
   wrote : BOOLEAN]
NoRows == [d \in Devices |-> NoDevice]
NoSession == [stage |-> "idle", operation |-> "poll", todo |-> {},
              touched |-> {}, found |-> {}, read |-> "absent",
              next |-> "absent", readD |-> NoRows, workD |-> NoRows,
              wrote |-> FALSE]

Connected(e) == endpoint[e].status = "connected"
Idle(c) == session[c].stage = "idle"

-----------------------------------------------------------------------------
(* What a probe makes of a device *)

\* Mutant: a poll of a silent device leaves its telemetry as it is.
NotUpdatedKeeps(d) == d

\* Mutant: the outcome of the probe is stored as the telemetry status.
NotUpdatedRaw(d) == [d EXCEPT !.telemetry = "unreachable"]

NotUpdated(d) ==
  [d EXCEPT !.telemetry = IF d.sample THEN "stale" ELSE "error"]

(* refresh_http_device_telemetry *)
RefreshHttp(d, result) ==
  IF result = "updated"
  THEN [d EXCEPT !.sample = TRUE, !.telemetry = "live",
                 !.tags = @ \cup {"connected", "http_ready"}]
  ELSE NotUpdated(d)

(* refresh_modbus_device_telemetry with _update_device_from_probe: tags    *)
(* and live telemetry only for an endpoint that was read as connected.     *)
Sampled(d) ==
  [d EXCEPT !.sample = TRUE, !.ready = TRUE, !.telemetry = "sampled"]

\* Mutant: polled samples of a Modbus device are recorded as sampled.
RefreshModbusSampled(d, status, result) ==
  IF result # "updated" THEN NotUpdated(d) ELSE Sampled(d)

RefreshModbus(d, status, result) ==
  IF result # "updated" THEN NotUpdated(d)
  ELSE IF status # "connected" THEN Sampled(d)
  ELSE [Sampled(d) EXCEPT !.telemetry = "live",
                          !.tags = @ \cup {"connected", "modbus_ready"}]

Refresh(e, d, status, result) ==
  IF d.status = "absent" THEN d
  ELSE IF Protocol[e] = "http" THEN RefreshHttp(d, result)
       ELSE RefreshModbus(d, status, result)

(* _http_connection_result and _modbus_connection_result with              *)
(* attempt_connect, on the rows after the refresh.  A Modbus endpoint that *)
(* is connected has just been refreshed, so its last probe is this one.    *)
ConnectionResult(e, d, status, result) ==
  CASE status = "disconnected" -> "disconnected"
    [] result = "unreachable" -> "unreachable"
    [] result = "empty" -> "no_live_telemetry"
    [] OTHER -> IF Protocol[e] = "modbus" \/ d.ready THEN "connected"
                ELSE "visible"

(* The device after _establish_http_local_connection and                   *)
(* _establish_modbus_connection: tags and status follow the result.        *)
EstablishedDevice(e, d, answer) ==
  IF d.status = "absent" THEN d
  ELSE IF answer = "connected"
  THEN [d EXCEPT !.tags = @ \cup {"connected", ReadyTag(e)},
                 !.telemetry = IF Protocol[e] = "modbus" THEN "live" ELSE @]
  ELSE [d EXCEPT !.tags = @ \ {"connected", ReadyTag(e)}]

(* The device after _disconnect_connection: the tags of every protocol go. *)
DisconnectedDevice(d) ==
  IF d.status = "absent" THEN d
  ELSE [d EXCEPT !.tags = {},
                 !.telemetry = IF d.sample THEN "sampled" ELSE "unknown"]

-----------------------------------------------------------------------------
(* Reading and writing rows *)

\* Mutant: a flush writes every column of the row.
FlushedWhole(row, read, work) == work

(* A flush: the columns whose value differs from the one read.             *)
Flushed(row, read, work) ==
  [column \in DOMAIN row |->
     IF work[column] # read[column] THEN work[column] ELSE row[column]]

FlushedDevices(s) ==
  [d \in Devices |-> Flushed(device[d], s.readD[d], s.workD[d])]

FlushedEndpoints(s, probed) ==
  [e \in Endpoints |->
     IF e \notin s.touched THEN endpoint[e]
     ELSE Flushed(endpoint[e], [status |-> s.read, probed |-> FALSE],
                  [status |-> s.next, probed |-> probed])]

(* An UPDATE of a row that is gone matches nothing and raises.             *)
Writable(s) ==
  /\ \A e \in s.touched : endpoint[e].status # "absent"
  /\ \A d \in Devices :
       s.readD[d] # s.workD[d] => device[d].status = "present"
  /\ \A e \in s.found : device[Owner[e]].status = "present"

(* sync_inventory_to_home_graph with _upsert_endpoint: an endpoint that    *)
(* the inventory describes keeps the choices of the user; one it does not  *)
(* describe is stale if it was ever probed, and deleted otherwise.         *)
Synchronised(rows, seen) ==
  [e \in Endpoints |->
     IF e \in seen
     THEN [status |-> IF rows[e].status \in {"connected", "disconnected"}
                      THEN rows[e].status ELSE "observed",
           probed |-> rows[e].probed \/ Protocol[e] = "modbus"]
     ELSE IF rows[e].probed THEN [rows[e] EXCEPT !.status = "stale"]
     ELSE NoEndpoint]

-----------------------------------------------------------------------------
(* Actions of the users and the agent: execute_action commits the start to *)
(* the audit trail, runs the handler, and commits how it ended.  Of a      *)
(* handler that probes, one step reads the rows and asks the device; the   *)
(* time this takes passes before the step that commits.                    *)

Step(c, s) == session' = [session EXCEPT ![c] = s]
Ends(c, stage, wrote) ==
  Step(c, [NoSession EXCEPT !.stage = stage, !.wrote = wrote])

Begin(c, operation) ==
  /\ operation \in Operations
  /\ Idle(c)

(* resolve_entity and _select_endpoint: the rows the handler starts from.  *)
Known(e) ==
  /\ device[Owner[e]].status = "present"
  /\ endpoint[e].status # "absent"

(* What the handler cannot find, or an answer that is not decoded, raises. *)
Raises(c, operation, e) ==
  /\ Begin(c, operation)
  /\ operation # "options"
  /\ Known(e) => operation = "establish" /\ answers[e] = "malformed"
  /\ Ends(c, "failed", FALSE)
  /\ UNCHANGED <<endpoint, device, observed, answers, disruptions>>

Loaded(operation, e, read) ==
  LET d == Owner[e] IN
  [NoSession EXCEPT !.stage = "commit", !.operation = operation,
     !.todo = {e}, !.touched = {e}, !.read = read, !.next = read,
     !.readD = [NoRows EXCEPT ![d] = device[d]],
     !.workD = [NoRows EXCEPT ![d] = device[d]]]

(* record_modbus_probe_evidence: any answer of a Modbus endpoint.          *)
Found(e) == IF Protocol[e] = "modbus" /\ answers[e] \in {"updated", "empty"}
            THEN {e} ELSE {}

Establish(c, e) ==
  /\ Begin(c, "establish")
  /\ Known(e)
  /\ answers[e] # "malformed"
  /\ LET s == Loaded("establish", e, endpoint[e].status)
         d == Refresh(e, device[Owner[e]], s.read, answers[e])
         answer == ConnectionResult(e, d, s.read, answers[e])
     IN Step(c, [s EXCEPT !.found = Found(e),
           !.next = IF answer = "connected" THEN "connected" ELSE "observed",
           !.workD[Owner[e]] = EstablishedDevice(e, d, answer)])
  /\ UNCHANGED <<endpoint, device, observed, answers, disruptions>>

Disconnect(c, e) ==
  /\ Begin(c, "disconnect")
  /\ Known(e)
  /\ Step(c, [Loaded("disconnect", e, endpoint[e].status) EXCEPT
                !.next = "disconnected",
                !.workD[Owner[e]] = DisconnectedDevice(@)])
  /\ UNCHANGED <<endpoint, device, observed, answers, disruptions>>

(* The commit of a handler is the last thing it does, so what follows it   *)
(* is the audit of its completion.                                         *)
\* Mutant: the assets are materialized after the commit, and may raise.
AfterCommitMaterialize == {"audit", "failed"}

AfterCommit == {"audit"}

Commit(c) ==
  /\ session[c].stage = "commit"
  /\ session[c].operation \in {"establish", "disconnect"}
  /\ Writable(session[c])
  /\ endpoint' =
       FlushedEndpoints(session[c], session[c].operation = "establish")
  /\ device' = FlushedDevices(session[c])
  /\ observed' = observed \cup session[c].found
  /\ \E stage \in AfterCommit : Ends(c, stage, TRUE)
  /\ UNCHANGED <<answers, disruptions>>

(* A row that is gone, a busy database, an asset that cannot be made: the  *)
(* session is rolled back.                                                 *)
CommitRaises(c) ==
  /\ session[c].stage = "commit"
  /\ Ends(c, "failed", FALSE)
  /\ UNCHANGED <<endpoint, device, observed, answers, disruptions>>

(* connection.get_options synchronises, looks at the Modbus endpoint of    *)
(* the device, and synchronises again.  ensure_modbus_endpoint_for_device  *)
(* refreshes the endpoint there is, or adds one if a host of the device    *)
(* answers.                                                                *)
Options(c, e) ==
  /\ Begin(c, "options")
  /\ Protocol[e] = "modbus"
  /\ endpoint' = Synchronised(endpoint, observed)
  /\ LET s == Loaded("options", e, endpoint'[e].status)
         d == device[Owner[e]]
         new == s.read = "absent"
     IN
     IF d.status = "absent" \/ answers[e] = "malformed"
     THEN Ends(c, "failed", FALSE)
     ELSE Step(c, [s EXCEPT !.found = Found(e),
            !.touched = IF new THEN {} ELSE {e},
            !.next = IF new /\ Found(e) # {} THEN "observed" ELSE @,
            !.workD[Owner[e]] =
              IF new /\ answers[e] # "updated" THEN @
              ELSE Refresh(e, d, s.read, answers[e])])
  /\ UNCHANGED <<device, observed, answers, disruptions>>

CommitOptions(c) ==
  /\ session[c].stage = "commit" /\ session[c].operation = "options"
  /\ Writable(session[c])
  /\ LET s == session[c]
         new == {e \in s.todo : s.read = "absent" /\ s.next = "observed"
                                /\ endpoint[e].status = "absent"}
         rows == [e \in Endpoints |->
                    IF e \in new THEN [status |-> "observed", probed |-> TRUE]
                    ELSE FlushedEndpoints(s, TRUE)[e]]
     IN
     /\ observed' = observed \cup s.found
     /\ endpoint' = Synchronised(rows, observed')
  /\ device' = FlushedDevices(session[c])
  /\ Ends(c, "audit", TRUE)
  /\ UNCHANGED <<answers, disruptions>>

(* inventory.remove_device, as far as the rows here go.                    *)
Removed(d) ==
  /\ device' = [device EXCEPT ![d] = NoDevice]
  /\ endpoint' = [e \in Endpoints |->
                    IF Owner[e] = d THEN NoEndpoint ELSE endpoint[e]]
  /\ observed' = {e \in observed : Owner[e] # d}

RemoveDevice(c, e) ==
  /\ Begin(c, "remove")
  /\ Known(e)
  /\ Removed(Owner[e])
  /\ Ends(c, "audit", TRUE)
  /\ UNCHANGED <<answers, disruptions>>

Complete(c) ==
  /\ session[c].stage = "audit"
  /\ session' = [session EXCEPT ![c] = NoSession]
  /\ UNCHANGED <<endpoint, device, observed, answers, disruptions>>

Fail(c) ==
  /\ session[c].stage = "failed"
  /\ session' = [session EXCEPT ![c] = NoSession]
  /\ UNCHANGED <<endpoint, device, observed, answers, disruptions>>

CallerBegins(c, e) ==
  \/ \E operation \in Operations : Raises(c, operation, e)
  \/ Establish(c, e) \/ Disconnect(c, e) \/ Options(c, e)
  \/ RemoveDevice(c, e)

CallerEnds(c) ==
  \/ Commit(c) \/ CommitOptions(c) \/ CommitRaises(c)
  \/ Complete(c) \/ Fail(c)

-----------------------------------------------------------------------------
(* The pollers: refresh_connected_http_telemetry and its Modbus twin, run  *)
(* by the managers again and again.                                        *)

PollBegin(p) ==
  LET todo == {e \in Endpoints : Protocol[e] = p /\ Connected(e)} IN
  /\ Idle(p)
  /\ todo # {}
  /\ Step(p, [NoSession EXCEPT !.stage = "probe", !.todo = todo,
                 !.read = "connected", !.next = "connected"])
  /\ UNCHANGED <<endpoint, device, observed, answers, disruptions>>

(* A device is read when the poll comes to its first endpoint, and kept.   *)
PollProbe(p, e) ==
  /\ session[p].stage = "probe"
  /\ e \in session[p].todo
  /\ answers[e] # "malformed"
  /\ LET s == session[p]
         d == Owner[e]
         first == \A f \in s.touched : Owner[f] # d
         row == IF first THEN device[d] ELSE s.workD[d]
     IN Step(p, [s EXCEPT !.todo = @ \ {e}, !.touched = @ \cup {e},
           !.found = IF row.status = "absent" THEN @ ELSE @ \cup Found(e),
           !.stage = IF s.todo = {e} THEN "commit" ELSE "probe",
           !.readD = IF first THEN [@ EXCEPT ![d] = row] ELSE @,
           !.workD = [@ EXCEPT ![d] =
                        Refresh(e, row, "connected", answers[e])]])
  /\ UNCHANGED <<endpoint, device, observed, answers, disruptions>>

PollCommit(p) ==
  /\ session[p].stage = "commit"
  /\ Writable(session[p])
  /\ endpoint' = FlushedEndpoints(session[p], TRUE)
  /\ device' = FlushedDevices(session[p])
  /\ observed' = observed \cup session[p].found
  /\ session' = [session EXCEPT ![p] = NoSession]
  /\ UNCHANGED <<answers, disruptions>>

(* Whatever raises in a poll loses the samples of all its endpoints: an    *)
(* answer that is not decoded, a row that is gone, a busy database.        *)
PollLost(p) ==
  /\ \/ /\ session[p].stage = "probe"
        /\ \E e \in session[p].todo : answers[e] = "malformed"
     \/ session[p].stage = "commit"
  /\ session' = [session EXCEPT ![p] = NoSession]
  /\ UNCHANGED <<endpoint, device, observed, answers, disruptions>>

PollStep(p) ==
  PollBegin(p) \/ PollCommit(p) \/ PollLost(p)
  \/ \E e \in Endpoints : PollProbe(p, e)

-----------------------------------------------------------------------------
(* The world outside *)

Answer(e, a) ==
  /\ a # answers[e]
  /\ answers' = [answers EXCEPT ![e] = a]
  /\ UNCHANGED <<endpoint, device, observed, session, disruptions>>

(* run_discovery: a device that was found gets a new diagnosis, without    *)
(* the tags and the status of its connections; one that was not found goes *)
(* and leaves its endpoints behind.                                        *)
Discovered(sample) ==
  [status |-> "present", tags |-> {}, ready |-> sample, sample |-> sample,
   telemetry |-> IF sample THEN "sampled" ELSE "unknown"]

Discover(d, found, sample) ==
  /\ disruptions < MaxDisruptions
  /\ disruptions' = disruptions + 1
  /\ device' = [device EXCEPT ![d] = IF found = {} THEN NoDevice
                                     ELSE Discovered(sample)]
  /\ observed' = {e \in observed : Owner[e] # d} \cup found
  /\ UNCHANGED <<endpoint, answers, session>>

Synchronise ==
  /\ endpoint' = Synchronised(endpoint, observed)
  /\ UNCHANGED <<device, observed, answers, session, disruptions>>

Crash ==
  /\ disruptions < MaxDisruptions
  /\ disruptions' = disruptions + 1
  /\ session' = [x \in Callers \cup Pollers |-> NoSession]
  /\ UNCHANGED <<endpoint, device, observed, answers>>

Environment ==
  \/ \E e \in Endpoints : \E a \in Answers[e] : Answer(e, a)
  \/ \E d \in Devices, sample \in Samples :
       \E found \in Scans :
         Discover(d, {e \in found : Owner[e] = d}, sample)
  \/ Synchronise
  \/ Crash

(* The first discovery has found the devices, and a synchronisation has    *)
(* made their endpoints.                                                   *)
Init ==
  /\ observed \in Scans
  /\ endpoint = Synchronised([e \in Endpoints |-> NoEndpoint], observed)
  /\ device \in [Devices -> {Discovered(sample) : sample \in Samples}]
  /\ answers \in {a \in [Endpoints -> UNION {Answers[e] : e \in Endpoints}] :
                  \A e \in Endpoints : a[e] \in Answers[e]}
  /\ session = [x \in Callers \cup Pollers |-> NoSession]
  /\ disruptions = 0

Next ==
  \/ \E c \in Callers :
       \/ \E e \in Endpoints : CallerBegins(c, e)
       \/ CallerEnds(c)
  \/ \E p \in Pollers : PollStep(p)
  \/ Environment

Spec == Init /\ [][Next]_vars

(* Handlers run to their end and the managers poll in a loop.  A poll that *)
(* comes to its commit again and again commits some time: the database is  *)
(* not busy every time, and rows do not vanish every time.                 *)
Fairness ==
  /\ \A c \in Callers : WF_vars(CallerEnds(c))
  /\ \A p \in Pollers : WF_vars(PollStep(p)) /\ SF_vars(PollCommit(p))

FairSpec == Spec /\ Fairness

-----------------------------------------------------------------------------
(* Types of the rows, the sessions and the audit trail.                    *)
TypeOK ==
  /\ endpoint \in [Endpoints -> EndpointRows]
  /\ device \in [Devices -> DeviceRows]
  /\ observed \subseteq Endpoints
  /\ DOMAIN answers = Endpoints
  /\ \A e \in Endpoints : answers[e] \in Answers[e]
  /\ session \in [Callers \cup Pollers -> Sessions]
  /\ disruptions \in 0 .. MaxDisruptions

(* What the audit trail says of an action that changes a connection is     *)
(* what it did: a completed one has committed, a failed one has not,       *)
(* although the handler commits on its own and the trail is committed      *)
(* before and after (actions/service.py:49-90, 289, 376, 431).             *)
TrailTruthful ==
  \A c \in Callers :
    /\ session[c].stage = "failed" => ~session[c].wrote
    /\ session[c].stage = "audit" => session[c].wrote

(* Connections are the user's: an endpoint becomes connected only when a   *)
(* connection.establish for it commits, and one that was disconnected      *)
(* stays so until such an action commits, or until the inventory no longer *)
(* has it.  No poll and no synchronisation that has read the endpoint      *)
(* before puts back what it has read.                                      *)
Establishes(c, e) ==
  /\ session[c].stage = "commit" /\ session[c].operation = "establish"
  /\ e \in session[c].touched

UsersDecide ==
  [][\A e \in Endpoints :
       /\ ~Connected(e) /\ Connected(e)' =>
            \E c \in Callers : Establishes(c, e)
       /\ /\ endpoint[e].status = "disconnected"
          /\ endpoint'[e].status # "disconnected"
          => \/ e \notin observed'
             \/ \E c \in Callers : Establishes(c, e)]_vars

Decoded(p) ==
  \A e \in Endpoints : Protocol[e] = p /\ Connected(e) =>
    answers[e] # "malformed"

(* A connected endpoint whose device answers is shown as ready again and   *)
(* again, whatever discovery, disconnected siblings and failed polls do to *)
(* the tags of the device - unless another device of the same protocol     *)
(* answers what cannot be decoded (services/modbus_telemetry.py:334-352).  *)
Ready(e) == ReadyTag(e) \in device[Owner[e]].tags

Answering(e) ==
  /\ Connected(e) /\ Protocol[e] \in Pollers /\ Decoded(Protocol[e])
  /\ answers[e] = "updated" /\ device[Owner[e]].status = "present"

ConnectedIsShown ==
  \A e \in Endpoints : <>[]Answering(e) => []<>Ready(e)

(* A device none of whose polled endpoints answers any more is shown as    *)
(* not live again and again, however often another one is established:     *)
(* polls of its connected endpoints notice.                                *)
Silent(d) ==
  /\ \A e \in Endpoints : Owner[e] = d /\ Protocol[e] \in Pollers =>
       answers[e] \in {"empty", "unreachable"}
  /\ \E e \in Endpoints : /\ Owner[e] = d /\ Connected(e)
                          /\ Protocol[e] \in Pollers /\ Decoded(Protocol[e])

SilenceIsNoticed ==
  \A d \in Devices : <>[]Silent(d) => []<>(device[d].telemetry # "live")
=============================================================================
