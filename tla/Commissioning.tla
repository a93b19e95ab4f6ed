--------------------------- MODULE Commissioning ---------------------------
(***************************************************************************)
(* Commissioning a device: the agent proposes a role for a device, the     *)
(* user decides, an approval becomes a role candidate with a task to       *)
(* commission it, and connection.establish works on that task until the    *)
(* peer's SHIP session is ready, leaving open blockers while it is not.    *)
(* Removing the device takes all of it back.                               *)
(*                                                                         *)
(* The database rows are the state.  A request reads at one moment and     *)
(* commits at a later one; whatever others commit in between, it does not  *)
(* see.  Only the connection workflow commits half-way, before it waits    *)
(* for the runtime, whose answer is external (EebusRuntime models it).     *)
(* Roles, labels and rationales are payload.  Preparing a proposal and     *)
(* removing a device read and commit in one step here.                     *)
(***************************************************************************)
EXTENDS Naturals, Sequences, FiniteSets, FiniteSetsExt

CONSTANTS
  Entities,         \* devices of the home graph
  Endpoints,        \* eebus_ship endpoints
  Owner,            \* Owner[n] is the device of endpoint n
  Roles,            \* roles a device can have
  Callers,          \* requests and agent turns at work
  OperationsOf,     \* what each caller does
  Alone,            \* operations no other one overlaps with
  MaxProposals,     \* bound on proposals
  MaxTasks          \* bound on commissioning tasks

OperationNames == {"prepare", "decide", "establish", "remove"}

ASSUME ConstantsAssumption ==
  /\ Entities # {} /\ Roles # {}
  /\ IsFiniteSet(Callers)
  /\ Owner \in [Endpoints -> Entities]
  /\ OperationsOf \in [Callers -> SUBSET OperationNames]
  /\ Alone \subseteq OperationNames
  /\ MaxProposals \in Nat /\ MaxTasks \in Nat

VARIABLES
  present,      \* devices in the inventory
  proposal,     \* proposals, each with its decision request
  decisions,    \* user_decisions, per proposal
  candidate,    \* the proposal an accepted role candidate is made from, or 0
  task,         \* commission_role_candidate tasks
  recency,      \* <<t, u>>: task t was updated after task u
  blockers,     \* the open blockers
  call          \* what each caller is at

vars == <<present, proposal, decisions, candidate, task, recency, blockers,
          call>>

-----------------------------------------------------------------------------
NoEndpoint == "no endpoint"
Proposals == 1 .. MaxProposals
Tasks == 1 .. MaxTasks
CandidateRefs == Entities \X Roles

(* A ref says what kind of thing it is a ref of.                           *)
ASSUME RefsDiffer ==
  /\ NoEndpoint \notin Endpoints
  /\ Entities \cap Endpoints = {}
  /\ CandidateRefs \cap (Entities \cup Endpoints) = {}

RequestStatus ==
  [awaiting_user_decision |-> "pending", user_approved |-> "approved",
   rejected |-> "rejected", cancelled |-> "cancelled"]
ProposalStatuses == {"none"} \cup DOMAIN RequestStatus
Decisions == {"approve", "reject"}

TaskStatuses == {"none", "open", "running", "blocked", "in_progress",
                 "cancelled"}
OpenStatuses == {"open", "running", "blocked"}
EndedStatuses == {"none", "completed", "failed", "cancelled"}

ConnectionBlockers == {"eebus_peer_connection_pending",
  "eebus_peer_trust_required", "eebus_ship_runtime_failed"}
NotStarted == "commissioning_workflow_not_started"
NoCertificate == "eebus_peer_certificate_unavailable"
BlockerTypes == ConnectionBlockers \cup {NotStarted, NoCertificate}

Phases == {"none", "awaiting_commissioning_workflow", "connection_establish",
  "waiting_for_peer_certificate", "waiting_for_user_trust", "ship_failed",
  "waiting_for_ship_session", "ship_ready"}

ProposalRecords ==
  [status : ProposalStatuses, ref : CandidateRefs,
   endpoint : Endpoints \cup {NoEndpoint}]
TaskRecords ==
  [status : TaskStatuses, phase : Phases,
   targets : SUBSET (Entities \cup Endpoints \cup CandidateRefs)]
BlockerRecords ==
  [type : BlockerTypes, subject : Entities \cup CandidateRefs, task : Tasks]
CallRecords ==
  [stage : {"idle", "deciding", "probing", "waiting"},
   proposal : 0 .. MaxProposals, decision : Decisions, existing : BOOLEAN,
   endpoint : Endpoints \cup {NoEndpoint}, task : 0 .. MaxTasks,
   phase : Phases, stale : SUBSET BlockerRecords]

NoCall == [stage |-> "idle", proposal |-> 0, decision |-> "reject",
           existing |-> FALSE, endpoint |-> NoEndpoint, task |-> 0,
           phase |-> "none", stale |-> {}]

-----------------------------------------------------------------------------
(* The work store *)

Idle(c) == call[c].stage = "idle"

Begin(c, operation) ==
  /\ operation \in OperationsOf[c]
  /\ Idle(c)
  /\ operation \in Alone => \A d \in Callers : Idle(d)

Unused(rows) == {i \in DOMAIN rows : rows[i].status = "none"}
IsNext(i, rows) == i \in Unused(rows) /\ \A j \in Unused(rows) : i <= j
NextTask == CHOOSE t \in Tasks : IsNext(t, task)

(* Rows for this call and for those of the others.                         *)
RoomForTask ==
  Cardinality(Unused(task)) > Cardinality({c \in Callers : ~Idle(c)})

Stored == Tasks \ Unused(task)

(* Write task t; it is now the last one updated.                           *)
SaveTask(t, r) ==
  /\ task' = [task EXCEPT ![t] = r]
  /\ recency' = {p \in recency : t \notin {p[1], p[2]}}
                  \cup ({t} \X (Stored \ {t}))

(* The task of found that was updated last.                                *)
LastUpdated(found) ==
  CHOOSE t \in found : \A u \in found \ {t} : <<t, u>> \in recency

\* Mutant: only a task nobody has worked on is found.
FindUntouchedTask(ref) ==
  Max({0} \cup {t \in Tasks : /\ task[t].status = "open"
                             /\ ref \in task[t].targets})

(* _find_open_commissioning_task: the last one created, or 0.              *)
FindOpenTask(ref) ==
  Max({0} \cup {t \in Tasks : /\ task[t].status \in OpenStatuses
                             /\ ref \in task[t].targets})

-----------------------------------------------------------------------------
(* Role binding *)

(* prepare_role_binding_proposal: nothing is written when the candidate is *)
(* accepted already or an equal proposal is open or approved.              *)
Prepare(c) ==
  \E e \in present, r \in Roles, n \in Endpoints \cup {NoEndpoint},
     new \in Proposals :
    /\ Begin(c, "prepare")
    /\ n # NoEndpoint => Owner[n] = e
    /\ IsNext(new, proposal)
    /\ candidate[<<e, r>>] = 0
    /\ ~\E p \in Proposals :
          /\ proposal[p].status \in {"awaiting_user_decision", "user_approved"}
          /\ proposal[p].ref = <<e, r>> /\ proposal[p].endpoint = n
    /\ proposal' = [proposal EXCEPT ![new] =
                      [status |-> "awaiting_user_decision", ref |-> <<e, r>>,
                       endpoint |-> n]]
    /\ UNCHANGED <<present, decisions, candidate, task, recency, blockers,
                   call>>

(* record_user_decision, up to its last read.                              *)
Decide(c) ==
  \E p \in Proposals, decision \in Decisions :
    /\ Begin(c, "decide")
    /\ proposal[p].status = "awaiting_user_decision"
    /\ RoomForTask
    /\ call' = [call EXCEPT ![c] =
         [NoCall EXCEPT !.stage = "deciding", !.proposal = p,
            !.decision = decision,
            !.existing = candidate[proposal[p].ref] # 0,
            !.task = FindOpenTask(proposal[p].ref)]]
    /\ UNCHANGED <<present, proposal, decisions, candidate, task, recency,
                   blockers>>

Outcome(decision) ==
  IF decision = "approve" THEN "user_approved" ELSE "rejected"

\* Mutant: every decision is materialized.
MaterializesAny(decision) == TRUE

Materializes(decision) == decision = "approve"

(* materialize_approved_role_candidate                                     *)
Materialize(p, found) ==
  LET ref == proposal[p].ref
      phase == "awaiting_commissioning_workflow" IN
  /\ candidate' = [candidate EXCEPT ![ref] = p]
  /\ IF found # 0
     THEN /\ SaveTask(found, [task[found] EXCEPT !.phase = phase])
          /\ UNCHANGED blockers
     ELSE LET new == NextTask IN
          /\ SaveTask(new, [status |-> "open", phase |-> phase,
               targets |-> {ref[1], ref} \cup
                           ({proposal[p].endpoint} \ {NoEndpoint})])
          /\ blockers' = blockers \cup
               {[type |-> NotStarted, subject |-> ref, task |-> new]}

(* The commit of record_user_decision.  The row of a new candidate has a   *)
(* primary key: if another request has created it since, nothing is        *)
(* stored.                                                                 *)
Commit(c) ==
  LET r == call[c]
      p == r.proposal
      clash == Materializes(r.decision) /\ ~r.existing
                 /\ candidate[proposal[p].ref] # 0
  IN
  /\ r.stage = "deciding"
  /\ IF clash
     THEN UNCHANGED <<proposal, decisions, candidate, task, recency, blockers>>
     ELSE /\ proposal' = [proposal EXCEPT ![p].status = Outcome(r.decision)]
          /\ decisions' = [decisions EXCEPT ![p] = Append(@, r.decision)]
          /\ IF Materializes(r.decision) THEN Materialize(p, r.task)
             ELSE UNCHANGED <<candidate, task, recency, blockers>>
  /\ call' = [call EXCEPT ![c] = NoCall]
  /\ UNCHANGED present

-----------------------------------------------------------------------------
(* The connection workflow *)

(* _get_or_create_commissioning_task                                       *)
TaskFor(n) ==
  LET found == {t \in Tasks : /\ task[t].status \in OpenStatuses
                              /\ {Owner[n], n} \cap task[t].targets # {}}
  IN IF found = {} THEN 0 ELSE LastUpdated(found)

NewTask(n) == [status |-> "running", phase |-> "connection_establish",
               targets |-> {Owner[n], n}]

(* What _resolve_stale_commissioning_blockers resolves for task t as it is *)
(* in row r.                                                               *)
Stale(t, r, n) ==
  {b \in blockers :
     /\ b.type = NotStarted
     /\ b.task = t \/ b.subject \in r.targets \cup {Owner[n]}}

\* Mutant: only blockers of the same task are looked up.
SameBlockerOfTask(b, t, e, type) ==
  b.type = type /\ b.subject = e /\ b.task = t

(* The open blocker _add_unique_blocker takes over.                        *)
SameBlocker(b, t, e, type) == b.type = type /\ b.subject = e

(* _add_unique_blocker                                                     *)
AddUnique(open, t, e, type) ==
  {b \in open : ~SameBlocker(b, t, e, type)} \cup
    {[type |-> type, subject |-> e, task |-> t]}

(* The task, its stale blockers and the peer's certificate are committed   *)
(* before the runtime is asked; without a certificate nothing is yet.      *)
Establish(c) ==
  \E n \in Endpoints, certificate \in BOOLEAN :
    LET found == TaskFor(n)
        t == IF found = 0 THEN NextTask ELSE found
        r == IF found = 0 THEN NewTask(n) ELSE task[t] IN
    /\ Begin(c, "establish")
    /\ Owner[n] \in present
    /\ RoomForTask
    /\ IF certificate
       THEN /\ IF found = 0 THEN SaveTask(t, r)
               ELSE UNCHANGED <<task, recency>>
            /\ blockers' = blockers \ Stale(t, r, n)
            /\ call' = [call EXCEPT ![c] =
                 [NoCall EXCEPT !.stage = "waiting", !.endpoint = n,
                                !.task = t, !.phase = r.phase]]
       ELSE /\ call' = [call EXCEPT ![c] =
                 [NoCall EXCEPT !.stage = "probing", !.endpoint = n,
                                !.task = found, !.stale = Stale(t, r, n)]]
            /\ UNCHANGED <<task, recency, blockers>>
    /\ UNCHANGED <<present, proposal, decisions, candidate>>

(* The probe of the peer's certificate has failed.                         *)
Unavailable(c) ==
  LET n == call[c].endpoint
      found == call[c].task
      t == IF found = 0 THEN NextTask ELSE found
      r == IF found = 0 THEN NewTask(n) ELSE task[t]
  IN
  /\ call[c].stage = "probing"
  /\ SaveTask(t, [r EXCEPT !.status = "blocked",
                           !.phase = "waiting_for_peer_certificate"])
  /\ blockers' =
       AddUnique(blockers \ call[c].stale, t, Owner[n], NoCertificate)
  /\ call' = [call EXCEPT ![c] = NoCall]
  /\ UNCHANGED <<present, proposal, decisions, candidate>>

\* Mutant: one type was forgotten.
ResolvableButFailed == ConnectionBlockers \ {"eebus_ship_runtime_failed"}

(* The blocker types a ready session resolves.                             *)
Resolvable == ConnectionBlockers

(* The session is ready.  If the endpoint is gone, its update fails and    *)
(* nothing is stored.                                                      *)
Ready(c) ==
  LET t == call[c].task
      e == Owner[call[c].endpoint] IN
  /\ call[c].stage = "waiting"
  /\ IF e \in present
     THEN /\ SaveTask(t, [task[t] EXCEPT !.status = "in_progress",
                                         !.phase = "ship_ready"])
          /\ blockers' = {b \in blockers :
               ~(b.type \in Resolvable /\ b.subject = e /\ b.task = t)}
     ELSE UNCHANGED <<task, recency, blockers>>
  /\ call' = [call EXCEPT ![c] = NoCall]
  /\ UNCHANGED <<present, proposal, decisions, candidate>>

\* Mutant: the task gets the status the workflow reports.
BlockedStatusRaw(phase) == phase

(* A task with an open question is blocked.                                *)
BlockedStatus(phase) == "blocked"

(* It is not ready: what it waits for, and the blocker that says so.       *)
Pending(c, phase, type) ==
  LET t == call[c].task IN
  /\ call[c].stage = "waiting"
  /\ SaveTask(t, [task[t] EXCEPT !.status = BlockedStatus(phase),
                                 !.phase = phase])
  /\ blockers' = AddUnique(blockers, t, Owner[call[c].endpoint], type)
  /\ call' = [call EXCEPT ![c] = NoCall]
  /\ UNCHANGED <<present, proposal, decisions, candidate>>

(* The peer rejects the session: the user is asked for trust, but not      *)
(* twice in a row.                                                         *)
Rejected(c) ==
  IF call[c].phase # "waiting_for_user_trust"
  THEN Pending(c, "waiting_for_user_trust", "eebus_peer_trust_required")
  ELSE Pending(c, "ship_failed", "eebus_ship_runtime_failed")

Failed(c) == Pending(c, "ship_failed", "eebus_ship_runtime_failed")

NotReady(c) ==
  Pending(c, "waiting_for_ship_session", "eebus_peer_connection_pending")

-----------------------------------------------------------------------------
(* Removal *)

\* Mutant: only blockers that name the device are resolved.
ResolvedByRemovalDirectly(b, affected, ended) == b.subject \in affected

(* The device and its endpoints.                                           *)
Affected(e) == {e} \cup {n \in Endpoints : Owner[n] = e}

ResolvedByRemoval(b, affected, ended) ==
  b.subject \in affected \/ b.task \in ended

(* remove_device_from_inventory with _cancel_device_work.  The role        *)
(* candidates stay.                                                        *)
RemoveDevice(c) ==
  \E e \in present :
    LET ended == {t \in Tasks : task[t].targets \cap Affected(e) # {}} IN
    /\ Begin(c, "remove")
    /\ present' = present \ {e}
    /\ task' = [t \in Tasks |->
         IF t \in ended /\ task[t].status \notin EndedStatuses
         THEN [task[t] EXCEPT !.status = "cancelled"] ELSE task[t]]
    /\ recency' = {p \in recency : p[1] \in ended \/ p[2] \notin ended}
                    \cup (ended \X (Stored \ ended))
    /\ blockers' = {b \in blockers : ~ResolvedByRemoval(b, Affected(e), ended)}
    /\ proposal' = [p \in Proposals |->
         IF /\ {proposal[p].ref[1], proposal[p].endpoint} \cap Affected(e) # {}
            /\ proposal[p].status = "awaiting_user_decision"
         THEN [proposal[p] EXCEPT !.status = "cancelled"] ELSE proposal[p]]
    /\ UNCHANGED <<decisions, candidate, call>>

(* A discovery finds it again, under the same refs.                        *)
Rediscover(e) ==
  /\ e \notin present
  /\ present' = present \cup {e}
  /\ UNCHANGED <<proposal, decisions, candidate, task, recency, blockers,
                 call>>

-----------------------------------------------------------------------------
NoProposal == [status |-> "none", ref |-> CHOOSE ref \in CandidateRefs : TRUE,
               endpoint |-> NoEndpoint]
NoTask == [status |-> "none", phase |-> "none", targets |-> {}]

Init ==
  /\ present = Entities
  /\ proposal = [p \in Proposals |-> NoProposal]
  /\ decisions = [p \in Proposals |-> <<>>]
  /\ candidate = [ref \in CandidateRefs |-> 0]
  /\ task = [t \in Tasks |-> NoTask]
  /\ recency = {}
  /\ blockers = {}
  /\ call = [c \in Callers |-> NoCall]

Next ==
  \/ \E c \in Callers :
       \/ Prepare(c) \/ Decide(c) \/ Commit(c)
       \/ Establish(c) \/ Unavailable(c)
       \/ Ready(c) \/ Rejected(c) \/ Failed(c) \/ NotReady(c)
       \/ RemoveDevice(c)
  \/ \E e \in Entities : Rediscover(e)

Spec == Init /\ [][Next]_vars

-----------------------------------------------------------------------------
(* Properties *)

(* The order of the updates: of two tasks, one was updated later.          *)
RecencyOrders ==
  /\ recency \subseteq Stored \X Stored
  /\ \A t, u \in Stored :
       t # u => (<<t, u>> \in recency <=> <<u, t>> \notin recency)
  /\ \A t, u, v \in Stored :
       <<t, u>> \in recency /\ <<u, v>> \in recency => <<t, v>> \in recency
  /\ \A t \in Stored : <<t, t>> \notin recency

(* Every variable holds a value of its type; recency orders the tasks.     *)
TypeOK ==
  /\ present \subseteq Entities
  /\ proposal \in [Proposals -> ProposalRecords]
  /\ decisions \in [Proposals -> Seq(Decisions)]
  /\ candidate \in [CandidateRefs -> 0 .. MaxProposals]
  /\ task \in [Tasks -> TaskRecords]
  /\ RecencyOrders
  /\ blockers \subseteq BlockerRecords
  /\ call \in [Callers -> CallRecords]

(* An accepted role candidate comes from a proposal for just this device   *)
(* and role, and the user has approved that proposal: nothing the agent    *)
(* does binds a role by itself.                                            *)
ApprovedByUser ==
  \A ref \in CandidateRefs :
    LET p == candidate[ref] IN
    p # 0 => /\ proposal[p].ref = ref
             /\ \E i \in DOMAIN decisions[p] : decisions[p][i] = "approve"

(* Nothing is left to do for a device that was removed: no task is open,   *)
(* no blocker is, and no decision is asked of the user.                    *)
RemovalIsComplete ==
  \A e \in Entities \ present :
    LET refs == Affected(e) \cup {ref \in CandidateRefs : ref[1] = e} IN
    /\ \A t \in Tasks : task[t].targets \cap refs # {} =>
                          task[t].status \in EndedStatuses
    /\ \A b \in blockers : b.subject \notin refs
    /\ \A p \in Proposals : proposal[p].ref[1] = e =>
                              proposal[p].status # "awaiting_user_decision"

(* However often a role is proposed, approved, connected and taken back, a *)
(* role candidate has one open commissioning task at most.                 *)
OneOpenTask ==
  \A ref \in CandidateRefs :
    Cardinality({t \in Tasks : /\ task[t].status \in OpenStatuses
                               /\ ref \in task[t].targets}) <= 1

(* What is in the way of a device is recorded once, whichever task ran     *)
(* into it.                                                                *)
BlockersAreUnique ==
  \A a, b \in blockers :
    a.type = b.type /\ a.subject = b.subject => a = b

(* A task whose session became ready has no open blocker but one about the *)
(* certificate, which the workflow never resolves.                         *)
ReadyIsUnblocked ==
  \A b \in blockers :
    task[b.task].status = "in_progress" => b.type = NoCertificate
=============================================================================
