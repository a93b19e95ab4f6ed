------------------------ MODULE CommissioningProofs ------------------------
(***************************************************************************)
(* Commissioning, proved for any devices, requests and bounds.             *)
(*                                                                         *)
(* However requests and agent turns overlap: every accepted role candidate *)
(* comes from a proposal that the user approved, the store keeps its types *)
(* and the order of its updates, and a task that is ready waits for        *)
(* nothing.  With conditions on who overlaps with whom (OneDecides,        *)
(* OneEstablishes, RemovesAlone): a blocker is recorded once, nothing is   *)
(* left to do for a device that was removed, and a candidate has one open  *)
(* task at most.                                                           *)
(***************************************************************************)
EXTENDS Commissioning, FiniteSetTheorems, WellFoundedInduction, TLAPS

(* What a request decides on exists, and so does the proposal of every     *)
(* candidate: a row that exists is not made a second time with other       *)
(* contents.                                                               *)
ApprovalInv ==
  /\ present \subseteq Entities
  /\ proposal \in [Proposals -> ProposalRecords]
  /\ decisions \in [Proposals -> Seq(Decisions)]
  /\ candidate \in [CandidateRefs -> 0 .. MaxProposals]
  /\ DOMAIN call = Callers
  /\ \A c \in Callers : call[c].stage = "deciding" =>
       /\ call[c].proposal \in Proposals
       /\ proposal[call[c].proposal].status # "none"
       /\ call[c].decision \in Decisions
  /\ \A ref \in CandidateRefs : candidate[ref] # 0 =>
       proposal[candidate[ref]].status # "none"
  /\ ApprovedByUser

(* A device and a role exist, so there is a value for rows not yet used.   *)
LEMMA NoProposalType == NoProposal \in ProposalRecords
<1>1. CandidateRefs # {}
  <2>1. PICK e \in Entities : TRUE
    BY ConstantsAssumption
  <2>2. PICK r \in Roles : TRUE
    BY ConstantsAssumption
  <2>3. <<e, r>> \in CandidateRefs
    BY DEF CandidateRefs
  <2> QED BY <2>3
<1>2. (CHOOSE ref \in CandidateRefs : TRUE) \in CandidateRefs
  BY <1>1
<1> QED BY <1>2 DEF NoProposal, ProposalRecords, ProposalStatuses

(* Nothing is accepted at first.                                           *)
LEMMA ApprovalInit == Init => ApprovalInv
<1> SUFFICES ASSUME Init PROVE ApprovalInv
  OBVIOUS
<1> USE DEF Init
<1>1. /\ present \subseteq Entities
      /\ proposal \in [Proposals -> ProposalRecords]
  BY NoProposalType
<1>2. decisions \in [Proposals -> Seq(Decisions)]
  BY DEF Proposals
<1>3. candidate \in [CandidateRefs -> 0 .. MaxProposals]
  BY ConstantsAssumption
<1>4. /\ DOMAIN call = Callers
      /\ \A c \in Callers : call[c].stage = "idle"
  BY DEF NoCall
<1>5. \A ref \in CandidateRefs : candidate[ref] = 0
  OBVIOUS
<1> QED BY <1>1, <1>2, <1>3, <1>4, <1>5 DEF ApprovalInv, ApprovedByUser

(* A step that leaves proposals, decisions and candidates alone and starts *)
(* no decision keeps the invariant.                                        *)
LEMMA ApprovalElsewhere ==
  ASSUME ApprovalInv,
         UNCHANGED <<proposal, decisions, candidate>>,
         present' \subseteq Entities,
         DOMAIN call' = Callers,
         \A c \in Callers : \/ call'[c] = call[c]
                            \/ call'[c].stage # "deciding"
  PROVE  ApprovalInv'
BY DEF ApprovalInv, ApprovedByUser

(* A new proposal takes a row that neither a candidate nor a request that  *)
(* is deciding refers to.                                                  *)
LEMMA ApprovalPrepare ==
  ASSUME ApprovalInv, NEW c \in Callers, Prepare(c)
  PROVE  ApprovalInv'
<1>1. PICK e \in present, r \in Roles, n \in Endpoints \cup {NoEndpoint},
            new \in Proposals :
        /\ IsNext(new, proposal)
        /\ proposal' = [proposal EXCEPT ![new] =
                          [status |-> "awaiting_user_decision",
                           ref |-> <<e, r>>, endpoint |-> n]]
        /\ UNCHANGED <<present, decisions, candidate, call>>
  BY DEF Prepare
<1>2. proposal[new].status = "none"
  BY <1>1 DEF IsNext, Unused
<1>3. proposal' \in [Proposals -> ProposalRecords]
  <2>1. <<e, r>> \in CandidateRefs
    BY DEF ApprovalInv, CandidateRefs
  <2>2. [status |-> "awaiting_user_decision", ref |-> <<e, r>>,
         endpoint |-> n] \in ProposalRecords
    BY <2>1 DEF ProposalRecords, ProposalStatuses, RequestStatus
  <2> QED BY <1>1, <2>2 DEF ApprovalInv
<1>4. \A p \in Proposals : p # new => proposal'[p] = proposal[p]
  BY <1>1 DEF ApprovalInv
<1>5. \A ref \in CandidateRefs : candidate[ref] # 0 =>
        candidate[ref] \in Proposals /\ candidate[ref] # new
  BY <1>2, ConstantsAssumption DEF ApprovalInv, Proposals
<1>6. \A d \in Callers : call[d].stage = "deciding" =>
        call[d].proposal # new
  BY <1>2 DEF ApprovalInv
<1> QED BY <1>1, <1>3, <1>4, <1>5, <1>6 DEF ApprovalInv, ApprovedByUser

(* A request decides on a proposal that awaits a decision.                 *)
LEMMA ApprovalDecide ==
  ASSUME ApprovalInv, NEW c \in Callers, Decide(c)
  PROVE  ApprovalInv'
<1>1. PICK p \in Proposals, decision \in Decisions :
        /\ proposal[p].status = "awaiting_user_decision"
        /\ call' = [call EXCEPT ![c] =
             [NoCall EXCEPT !.stage = "deciding", !.proposal = p,
                !.decision = decision,
                !.existing = candidate[proposal[p].ref] # 0,
                !.task = FindOpenTask(proposal[p].ref)]]
        /\ UNCHANGED <<present, proposal, decisions, candidate>>
  BY DEF Decide
<1>2. /\ call'[c].proposal = p /\ call'[c].decision = decision
      /\ DOMAIN call' = Callers
      /\ \A d \in Callers : d # c => call'[d] = call[d]
  BY <1>1 DEF ApprovalInv, NoCall
<1>3. \A d \in Callers : call'[d].stage = "deciding" =>
        /\ call'[d].proposal \in Proposals
        /\ proposal'[call'[d].proposal].status # "none"
        /\ call'[d].decision \in Decisions
  BY <1>1, <1>2 DEF ApprovalInv
<1> QED BY <1>1, <1>2, <1>3 DEF ApprovalInv, ApprovedByUser

(* What a decision makes of a proposal: it stays a proposal for the same   *)
(* device and role, and there is a row for it.                             *)
LEMMA ProposalOutcome ==
  ASSUME proposal \in [Proposals -> ProposalRecords],
         NEW p \in Proposals, NEW decision,
         proposal' = [proposal EXCEPT ![p].status = Outcome(decision)]
  PROVE  /\ proposal' \in [Proposals -> ProposalRecords]
         /\ \A q \in Proposals :
              /\ proposal'[q].ref = proposal[q].ref
              /\ proposal[q].status # "none" => proposal'[q].status # "none"
         /\ proposal'[p].status # "none"
<1> DEFINE new == [proposal[p] EXCEPT !.status = Outcome(decision)]
<1>1. Outcome(decision) \in ProposalStatuses /\ Outcome(decision) # "none"
  BY DEF Outcome, ProposalStatuses, RequestStatus
<1>2. proposal[p] \in ProposalRecords
  OBVIOUS
<1>3. /\ new \in ProposalRecords
      /\ new.ref = proposal[p].ref
      /\ new.status # "none"
  BY <1>1, <1>2 DEF ProposalRecords
<1>4. /\ proposal' = [proposal EXCEPT ![p] = new]
      /\ DOMAIN proposal = Proposals
  OBVIOUS
<1> HIDE DEF new
<1>5. /\ proposal'[p] = new
      /\ \A q \in Proposals \ {p} : proposal'[q] = proposal[q]
  BY <1>4
<1>6. proposal' \in [Proposals -> ProposalRecords]
  BY <1>3, <1>4
<1> QED BY <1>3, <1>5, <1>6

(* Only an approving commit accepts a candidate, and it is of the proposal *)
(* whose approval it records.                                              *)
LEMMA ApprovalCommit ==
  ASSUME ApprovalInv, NEW c \in Callers, Commit(c)
  PROVE  ApprovalInv'
<1> DEFINE p == call[c].proposal
           ref == proposal[p].ref
           Approves == call[c].decision = "approve"
<1>1. /\ p \in Proposals /\ call[c].decision \in Decisions
      /\ proposal[p].status # "none"
      /\ call' = [call EXCEPT ![c] = NoCall]
      /\ UNCHANGED present
  BY DEF Commit, ApprovalInv
<1>2. /\ DOMAIN call' = Callers
      /\ \A d \in Callers : \/ call'[d] = call[d]
                            \/ call'[d].stage # "deciding"
  BY <1>1 DEF ApprovalInv, NoCall
<1>3. CASE UNCHANGED <<proposal, decisions, candidate>>
  BY <1>1, <1>2, <1>3, ApprovalElsewhere DEF ApprovalInv
<1>4. CASE /\ proposal' = [proposal EXCEPT ![p].status =
                                Outcome(call[c].decision)]
           /\ decisions' = [decisions EXCEPT ![p] =
                Append(@, call[c].decision)]
           /\ \/ Approves /\ candidate' = [candidate EXCEPT ![ref] = p]
              \/ UNCHANGED candidate
  <2>1. /\ proposal' \in [Proposals -> ProposalRecords]
        /\ \A q \in Proposals :
             /\ proposal'[q].ref = proposal[q].ref
             /\ proposal[q].status # "none" => proposal'[q].status # "none"
        /\ proposal'[p].status # "none"
    <3>1. /\ proposal \in [Proposals -> ProposalRecords]
          /\ p \in Proposals
      BY <1>1 DEF ApprovalInv
    <3>2. proposal' = [proposal EXCEPT ![p].status =
                         Outcome(call[c].decision)]
      BY <1>4
    <3> HIDE DEF p
    <3> QED BY <3>1, <3>2, ProposalOutcome
  <2>2. /\ decisions' \in [Proposals -> Seq(Decisions)]
        /\ \A q \in Proposals \ {p} : decisions'[q] = decisions[q]
        /\ decisions'[p] = Append(decisions[p], call[c].decision)
    BY <1>1, <1>4 DEF ApprovalInv
  <2>3. \A q \in Proposals, i \in Nat :
          i \in DOMAIN decisions[q] /\ decisions[q][i] = "approve" =>
            i \in DOMAIN decisions'[q] /\ decisions'[q][i] = "approve"
    <3> SUFFICES ASSUME NEW q \in Proposals, NEW i \in Nat,
                        i \in DOMAIN decisions[q],
                        decisions[q][i] = "approve"
                 PROVE  i \in DOMAIN decisions'[q]
                          /\ decisions'[q][i] = "approve"
      OBVIOUS
    <3>1. CASE q # p
      BY <2>2, <3>1
    <3>2. CASE q = p
      <4>1. decisions[p] \in Seq(Decisions)
        BY <1>1 DEF ApprovalInv
      <4>2. i \in DOMAIN decisions[p] /\ decisions[p][i] = "approve"
        BY <3>2
      <4>3. /\ i \in DOMAIN Append(decisions[p], call[c].decision)
            /\ Append(decisions[p], call[c].decision)[i] = decisions[p][i]
        <5> DEFINE s == decisions[p]
                   d == call[c].decision
        <5>1. s \in Seq(Decisions) /\ i \in DOMAIN s /\ d \in Decisions
          BY <1>1, <4>1, <4>2
        <5> HIDE DEF s, d
        <5>2. i \in DOMAIN Append(s, d) /\ Append(s, d)[i] = s[i]
          BY <5>1
        <5> QED BY <5>2 DEF s, d
      <4> QED BY <2>2, <3>2, <4>2, <4>3
    <3> QED BY <3>1, <3>2
  <2>4. Approves =>
          \E i \in DOMAIN decisions'[p] : decisions'[p][i] = "approve"
    <3> SUFFICES ASSUME Approves
                 PROVE  \E i \in DOMAIN decisions'[p] :
                          decisions'[p][i] = "approve"
      OBVIOUS
    <3>1. decisions[p] \in Seq(Decisions)
      BY <1>1 DEF ApprovalInv
    <3>2. Len(decisions[p]) + 1 \in DOMAIN decisions'[p]
      BY <2>2, <3>1
    <3>3. decisions'[p][Len(decisions[p]) + 1] = call[c].decision
      BY <2>2, <3>1
    <3> QED BY <3>2, <3>3
  <2>5. ref \in CandidateRefs
    BY <1>1 DEF ApprovalInv, ProposalRecords
  <2>6. candidate' \in [CandidateRefs -> 0 .. MaxProposals]
    <3>1. p \in 0 .. MaxProposals
      BY <1>1, ConstantsAssumption DEF Proposals
    <3> QED BY <1>4, <3>1 DEF ApprovalInv
  <2>7. \A r \in CandidateRefs : candidate'[r] # 0 =>
          \/ candidate'[r] = candidate[r]
          \/ r = ref /\ candidate'[r] = p /\ Approves
    BY <1>4, <2>5 DEF ApprovalInv
  <2>8. \A r \in CandidateRefs : candidate'[r] # 0 =>
          /\ candidate'[r] \in Proposals
          /\ proposal'[candidate'[r]].status # "none"
    <3> SUFFICES ASSUME NEW r \in CandidateRefs, candidate'[r] # 0
                 PROVE  /\ candidate'[r] \in Proposals
                        /\ proposal'[candidate'[r]].status # "none"
      OBVIOUS
    <3>1. candidate'[r] \in Proposals
      BY <2>6, ConstantsAssumption DEF Proposals
    <3>2. CASE candidate'[r] = candidate[r]
      <4>1. proposal[candidate[r]].status # "none"
        BY <3>2 DEF ApprovalInv
      <4> QED BY <2>1, <3>1, <3>2, <4>1
    <3>3. CASE candidate'[r] = p
      BY <2>1, <3>1, <3>3
    <3> QED BY <2>7, <3>1, <3>2, <3>3
  <2>9. ApprovedByUser'
    <3> SUFFICES ASSUME NEW r \in CandidateRefs, candidate'[r] # 0
                 PROVE  /\ proposal'[candidate'[r]].ref = r
                        /\ \E i \in DOMAIN decisions'[candidate'[r]] :
                             decisions'[candidate'[r]][i] = "approve"
      BY DEF ApprovedByUser
    <3>1. CASE candidate'[r] = candidate[r]
      <4>1. candidate[r] \in Proposals
        BY <2>8, <3>1
      <4>2. PICK i \in DOMAIN decisions[candidate[r]] :
              decisions[candidate[r]][i] = "approve"
        BY <3>1 DEF ApprovalInv, ApprovedByUser
      <4>3. i \in Nat
        BY <4>1 DEF ApprovalInv
      <4>4. proposal[candidate[r]].ref = r
        BY <3>1 DEF ApprovalInv, ApprovedByUser
      <4> QED BY <2>1, <2>3, <3>1, <4>1, <4>2, <4>3, <4>4
    <3>2. CASE r = ref /\ candidate'[r] = p /\ Approves
      BY <1>1, <2>1, <2>4, <3>2
    <3> QED BY <2>7, <3>1, <3>2
  <2>10. \A d \in Callers : call'[d].stage = "deciding" =>
           /\ call'[d].proposal \in Proposals
           /\ proposal'[call'[d].proposal].status # "none"
           /\ call'[d].decision \in Decisions
    BY <1>2, <2>1 DEF ApprovalInv
  <2> QED BY <1>1, <1>2, <2>1, <2>2, <2>6, <2>8, <2>9, <2>10 DEF ApprovalInv
<1> QED BY <1>3, <1>4 DEF Commit, Materializes, Materialize

(* The connection workflow decides nothing.                                *)
LEMMA ConnectionDecidesNothing ==
  ASSUME DOMAIN call = Callers, NEW c \in Callers,
         \/ Establish(c) \/ Unavailable(c) \/ Ready(c)
         \/ Rejected(c) \/ Failed(c) \/ NotReady(c)
  PROVE  /\ UNCHANGED <<present, proposal, decisions, candidate>>
         /\ DOMAIN call' = Callers
         /\ \A d \in Callers : \/ call'[d] = call[d]
                               \/ call'[d].stage # "deciding"
<1>1. CASE Establish(c)
  <2>1. \E n, t, phase, stale :
          \/ call' = [call EXCEPT ![c] =
               [NoCall EXCEPT !.stage = "waiting", !.endpoint = n,
                              !.task = t, !.phase = phase]]
          \/ call' = [call EXCEPT ![c] =
               [NoCall EXCEPT !.stage = "probing", !.endpoint = n,
                              !.task = t, !.stale = stale]]
    <3>1. PICK n \in Endpoints, certificate \in BOOLEAN :
            LET found == TaskFor(n)
                t == IF found = 0 THEN NextTask ELSE found
                r == IF found = 0 THEN NewTask(n) ELSE task[t] IN
            \/ call' = [call EXCEPT ![c] =
                 [NoCall EXCEPT !.stage = "waiting", !.endpoint = n,
                                !.task = t, !.phase = r.phase]]
            \/ call' = [call EXCEPT ![c] =
                 [NoCall EXCEPT !.stage = "probing", !.endpoint = n,
                                !.task = found, !.stale = Stale(t, r, n)]]
      BY <1>1, Zenon DEF Establish
    <3> QED BY <3>1, Zenon
  <2>2. UNCHANGED <<present, proposal, decisions, candidate>>
    BY <1>1, Zenon DEF Establish
  <2>3. PICK n, t, phase, stale :
          \/ call' = [call EXCEPT ![c] =
               [NoCall EXCEPT !.stage = "waiting", !.endpoint = n,
                              !.task = t, !.phase = phase]]
          \/ call' = [call EXCEPT ![c] =
               [NoCall EXCEPT !.stage = "probing", !.endpoint = n,
                              !.task = t, !.stale = stale]]
    BY <2>1
  <2> QED BY <2>2, <2>3 DEF NoCall
<1>2. CASE Unavailable(c)
  BY <1>2 DEF Unavailable, NoCall
<1>3. CASE Ready(c)
  BY <1>3 DEF Ready, NoCall
<1>4. CASE Rejected(c) \/ Failed(c) \/ NotReady(c)
  BY <1>4 DEF Rejected, Failed, NotReady, Pending, NoCall
<1> QED BY <1>1, <1>2, <1>3, <1>4

(* So it accepts no candidate.                                             *)
LEMMA ApprovalOther ==
  ASSUME ApprovalInv, NEW c \in Callers,
         \/ Establish(c) \/ Unavailable(c) \/ Ready(c)
         \/ Rejected(c) \/ Failed(c) \/ NotReady(c)
  PROVE  ApprovalInv'
<1>1. DOMAIN call = Callers
  BY DEF ApprovalInv
<1> QED BY <1>1, ConnectionDecidesNothing, ApprovalElsewhere DEF ApprovalInv

(* A removal only cancels what awaits a decision.                          *)
LEMMA ApprovalRemove ==
  ASSUME ApprovalInv, NEW c \in Callers, RemoveDevice(c)
  PROVE  ApprovalInv'
<1>0. PICK e \in present :
        /\ present' = present \ {e}
        /\ proposal' = [p \in Proposals |->
             IF /\ {proposal[p].ref[1], proposal[p].endpoint}
                     \cap Affected(e) # {}
                /\ proposal[p].status = "awaiting_user_decision"
             THEN [proposal[p] EXCEPT !.status = "cancelled"]
             ELSE proposal[p]]
  BY DEF RemoveDevice
<1>1. /\ UNCHANGED <<decisions, candidate, call>>
      /\ present' \subseteq present
      /\ DOMAIN proposal' = Proposals
      /\ \A p \in Proposals :
           \/ proposal'[p] = proposal[p]
           \/ /\ proposal[p].status = "awaiting_user_decision"
              /\ proposal'[p] = [proposal[p] EXCEPT !.status = "cancelled"]
  BY <1>0 DEF RemoveDevice, ApprovalInv
<1>2. \A p \in Proposals :
        /\ proposal'[p] \in ProposalRecords
        /\ proposal'[p].ref = proposal[p].ref
        /\ proposal[p].status # "none" => proposal'[p].status # "none"
  <2> SUFFICES ASSUME NEW p \in Proposals
               PROVE  /\ proposal'[p] \in ProposalRecords
                      /\ proposal'[p].ref = proposal[p].ref
                      /\ \/ proposal[p].status = "none"
                         \/ proposal'[p].status # "none"
    OBVIOUS
  <2>1. proposal[p] \in ProposalRecords
    BY DEF ApprovalInv
  <2>2. CASE proposal'[p] = proposal[p]
    BY <2>1, <2>2
  <2>3. CASE proposal'[p] = [proposal[p] EXCEPT !.status = "cancelled"]
    BY <2>1, <2>3 DEF ProposalRecords, ProposalStatuses, RequestStatus
  <2> QED BY <1>1, <2>2, <2>3
<1>3. proposal' \in [Proposals -> ProposalRecords]
  <2>1. proposal' = [p \in Proposals |-> proposal'[p]]
    BY <1>0
  <2> QED BY <1>2, <2>1
<1>4. \A ref \in CandidateRefs : candidate[ref] # 0 =>
        candidate[ref] \in Proposals
  BY ConstantsAssumption DEF ApprovalInv, Proposals
<1> QED BY <1>1, <1>2, <1>3, <1>4 DEF ApprovalInv, ApprovedByUser

(* Every step keeps the invariant.                                         *)
LEMMA ApprovalStep == ApprovalInv /\ [Next]_vars => ApprovalInv'
<1> SUFFICES ASSUME ApprovalInv, [Next]_vars PROVE ApprovalInv'
  OBVIOUS
<1>1. ASSUME NEW c \in Callers, Prepare(c) PROVE ApprovalInv'
  BY <1>1, ApprovalPrepare
<1>2. ASSUME NEW c \in Callers, Decide(c) PROVE ApprovalInv'
  BY <1>2, ApprovalDecide
<1>3. ASSUME NEW c \in Callers, Commit(c) PROVE ApprovalInv'
  BY <1>3, ApprovalCommit
<1>4. ASSUME NEW c \in Callers,
             \/ Establish(c) \/ Unavailable(c) \/ Ready(c)
             \/ Rejected(c) \/ Failed(c) \/ NotReady(c)
      PROVE ApprovalInv'
  BY <1>4, ApprovalOther
<1>5. ASSUME NEW c \in Callers, RemoveDevice(c) PROVE ApprovalInv'
  BY <1>5, ApprovalRemove
<1>6. ASSUME NEW e \in Entities, Rediscover(e) PROVE ApprovalInv'
  BY <1>6, ApprovalElsewhere DEF Rediscover, ApprovalInv
<1>7. CASE UNCHANGED vars
  BY <1>7, ApprovalElsewhere DEF vars, ApprovalInv
<1> QED BY <1>1, <1>2, <1>3, <1>4, <1>5, <1>6, <1>7 DEF Next

(* However requests overlap, an accepted role candidate is one the user    *)
(* has approved (record_user_decision is the only way to accept one).      *)
THEOREM AcceptedIsApproved == Spec => []ApprovedByUser
<1>1. ApprovalInv => ApprovedByUser
  BY DEF ApprovalInv
<1> QED BY <1>1, ApprovalInit, ApprovalStep, PTL DEF Spec

-----------------------------------------------------------------------------
(* Choosing a task *)

(* A set of naturals that is not empty has a least element.                *)
LEMMA LeastNatural ==
  ASSUME NEW S \in SUBSET Nat, S # {}
  PROVE  \E m \in S : \A x \in S : m <= x
<1>1. PICK m \in S : \A x \in S : ~(<<x, m>> \in OpToRel(<, Nat))
  <2>1. IsWellFoundedOn(OpToRel(<, Nat), Nat)
    BY NatLessThanWellFounded
  <2> QED BY <2>1, WFMin, Zenon
<1>2. \A x \in S : ~(x < m)
  BY <1>1 DEF OpToRel
<1> QED BY <1>2

(* If a row is unused, there is a next one.                                *)
LEMMA NextIsUnused ==
  ASSUME task \in [Tasks -> TaskRecords], Unused(task) # {}
  PROVE  NextTask \in Unused(task) /\ NextTask \in Tasks
<1>1. Unused(task) \in SUBSET Nat /\ Unused(task) \subseteq Tasks
  BY DEF Unused, Tasks
<1>2. \E t \in Tasks : IsNext(t, task)
  BY <1>1, LeastNatural DEF IsNext
<1>3. IsNext(NextTask, task) /\ NextTask \in Tasks
  BY <1>2 DEF NextTask
<1> QED BY <1>3 DEF IsNext

(* The last open task created for a candidate, if there is one.            *)
LEMMA FoundIsOpen ==
  ASSUME task \in [Tasks -> TaskRecords], NEW ref
  PROVE  LET found == {t \in Tasks : /\ task[t].status \in OpenStatuses
                                     /\ ref \in task[t].targets} IN
         /\ FindOpenTask(ref) \in 0 .. MaxTasks
         /\ FindOpenTask(ref) # 0 => FindOpenTask(ref) \in found
         /\ FindOpenTask(ref) = 0 => found = {}
<1> DEFINE found == {t \in Tasks : /\ task[t].status \in OpenStatuses
                                   /\ ref \in task[t].targets}
           ids == {0} \cup found
           gaps == {g \in 0 .. MaxTasks : MaxTasks - g \in ids}
<1>1. MaxTasks \in Nat /\ found \subseteq 1 .. MaxTasks
  BY ConstantsAssumption DEF Tasks
<1> HIDE DEF found
<1>2. MaxTasks \in gaps /\ gaps \in SUBSET Nat
  BY <1>1
<1>3. PICK g \in gaps : \A x \in gaps : g <= x
  BY <1>2, LeastNatural
<1>4. \A i \in ids : MaxTasks - i \in gaps
  BY <1>1
<1>5. /\ MaxTasks - g \in ids
      /\ \A i \in ids : MaxTasks - g >= i
  BY <1>1, <1>3, <1>4
<1>6. /\ Max(ids) \in ids
      /\ \A i \in ids : Max(ids) >= i
  BY <1>5 DEF Max
<1>7. FindOpenTask(ref) = Max(ids)
  BY DEF FindOpenTask, found
<1>8. PICK m \in ids : m = Max(ids)
  BY <1>6
<1>9. m \in 0 .. MaxTasks /\ (m = 0 => found = {})
  BY <1>1, <1>6, <1>8
<1> QED BY <1>6, <1>7, <1>8, <1>9 DEF found

(* Of some tasks in use, one was updated last: the one the fewest others   *)
(* were updated after.                                                     *)
LEMMA LastUpdatedIsOne ==
  ASSUME RecencyOrders, NEW found \in SUBSET Stored, found # {}
  PROVE  LastUpdated(found) \in found
<1> DEFINE Above(t) == {u \in found : <<u, t>> \in recency}
           counts == {Cardinality(Above(t)) : t \in found}
<1>1. IsFiniteSet(found)
  <2>1. found \in SUBSET (1 .. MaxTasks)
    BY DEF Stored, Tasks
  <2>2. IsFiniteSet(1 .. MaxTasks)
    BY FS_Interval, ConstantsAssumption
  <2> QED BY <2>1, <2>2, FS_Subset
<1>2. \A t \in found : IsFiniteSet(Above(t)) /\ Cardinality(Above(t)) \in Nat
  BY <1>1, FS_Subset, FS_CardinalityType
<1>3. counts \in SUBSET Nat /\ counts # {}
  BY <1>2
<1>4. PICK m \in counts : \A x \in counts : m <= x
  <2> HIDE DEF counts
  <2> QED BY <1>3, LeastNatural
<1>5. PICK t \in found : \A u \in found :
        Cardinality(Above(t)) <= Cardinality(Above(u))
  BY <1>4
<1>6. \A u \in found \ {t} : <<t, u>> \in recency
  <2> SUFFICES ASSUME NEW u \in found, u # t, <<t, u>> \notin recency
               PROVE  FALSE
    OBVIOUS
  <2>1. u \in Stored /\ t \in Stored
    OBVIOUS
  <2>2. <<u, t>> \in recency /\ <<u, u>> \notin recency
    BY <2>1 DEF RecencyOrders
  <2>3. \A v \in found : <<v, u>> \in recency => <<v, t>> \in recency
    BY <2>1, <2>2 DEF RecencyOrders
  <2>4. Above(u) \in SUBSET Above(t)
    BY <2>3
  <2>5. u \in Above(t) /\ u \notin Above(u)
    BY <2>2
  <2>6. /\ Cardinality(Above(u)) <= Cardinality(Above(t))
        /\ Cardinality(Above(t)) = Cardinality(Above(u)) =>
             Above(t) = Above(u)
    BY <1>2, <2>4, FS_Subset
  <2>7. Cardinality(Above(t)) <= Cardinality(Above(u))
    BY <1>5
  <2>8. Cardinality(Above(t)) \in Nat /\ Cardinality(Above(u)) \in Nat
    BY <1>2
  <2>9. Cardinality(Above(t)) = Cardinality(Above(u))
    <3> HIDE DEF Above
    <3> QED BY <2>6, <2>7, <2>8
  <2>10. Above(t) = Above(u)
    <3> HIDE DEF Above
    <3> QED BY <2>6, <2>9
  <2> QED BY <2>5, <2>10
<1> QED BY <1>6 DEF LastUpdated

(* The task a connection is worked on under: an open one for the endpoint  *)
(* or its device, if there is one.                                         *)
LEMMA TaskForIsOpen ==
  ASSUME task \in [Tasks -> TaskRecords], RecencyOrders, NEW n,
         TaskFor(n) # 0
  PROVE  /\ TaskFor(n) \in Tasks
         /\ task[TaskFor(n)].status \in OpenStatuses
         /\ {Owner[n], n} \cap task[TaskFor(n)].targets # {}
<1> DEFINE found == {t \in Tasks : /\ task[t].status \in OpenStatuses
                                   /\ {Owner[n], n} \cap task[t].targets # {}}
<1>1. found # {} /\ TaskFor(n) = LastUpdated(found)
  BY Zenon DEF TaskFor
<1>2. found \subseteq Stored
  BY DEF OpenStatuses, Stored, Unused
<1>3. LastUpdated(found) \in found
  <2> HIDE DEF found
  <2> QED BY <1>1, <1>2, LastUpdatedIsOne
<1> QED BY <1>1, <1>3

(* Writing a task: it is in use, and the others are as they were.          *)
LEMMA TaskSaved ==
  ASSUME task \in [Tasks -> TaskRecords], RecencyOrders,
         NEW t \in Tasks, NEW r \in TaskRecords, r.status # "none",
         SaveTask(t, r)
  PROVE  /\ task' \in [Tasks -> TaskRecords]
         /\ task'[t] = r
         /\ \A u \in Tasks \ {t} : task'[u] = task[u]
         /\ RecencyOrders'
         /\ Unused(task') = Unused(task) \ {t}
<1>1. /\ task' \in [Tasks -> TaskRecords]
      /\ task'[t] = r
      /\ \A u \in Tasks \ {t} : task'[u] = task[u]
  BY DEF SaveTask
<1>2. Unused(task') = Unused(task) \ {t}
  BY <1>1 DEF Unused
<1>3. Stored' = Stored \cup {t} /\ Stored \subseteq Tasks
  BY <1>2 DEF Stored
<1>4. \A u, v : <<u, v>> \in recency' <=>
        \/ <<u, v>> \in recency /\ u # t /\ v # t
        \/ u = t /\ v \in Stored \ {t}
  <2>1. recency \subseteq Stored \X Stored
    BY DEF RecencyOrders
  <2>2. recency' = {p \in recency : t \notin {p[1], p[2]}}
                     \cup ({t} \X (Stored \ {t}))
    BY DEF SaveTask
  <2> QED BY <2>2
<1>5. recency' \subseteq Stored' \X Stored'
  <2>1. recency \subseteq Stored \X Stored
    BY DEF RecencyOrders
  <2>2. recency' = {p \in recency : t \notin {p[1], p[2]}}
                     \cup ({t} \X (Stored \ {t}))
    BY DEF SaveTask
  <2> QED BY <1>3, <2>1, <2>2
<1>6. RecencyOrders'
  <2>1. \A u, v \in Stored' :
          u # v => (<<u, v>> \in recency' <=> <<v, u>> \notin recency')
    BY <1>3, <1>4 DEF RecencyOrders
  <2>2. \A u, v, w \in Stored' :
          <<u, v>> \in recency' /\ <<v, w>> \in recency' =>
            <<u, w>> \in recency'
    BY <1>3, <1>4 DEF RecencyOrders
  <2>3. \A u \in Stored' : <<u, u>> \notin recency'
    BY <1>3, <1>4 DEF RecencyOrders
  <2> QED BY <1>5, <2>1, <2>2, <2>3 DEF RecencyOrders
<1> QED BY <1>1, <1>2, <1>6

-----------------------------------------------------------------------------
(* What rows and requests hold *)

(* The device, its endpoints and its candidates.                           *)
About(e) == Affected(e) \cup {ref \in CandidateRefs : ref[1] = e}

(* A task is about one device, a row not in use about nothing.             *)
AboutOne(r) ==
  IF r.status = "none" THEN r.targets = {}
  ELSE \E e \in Entities :
         e \in r.targets /\ r.targets \subseteq About(e)

(* The endpoint of a proposal is one of its device.                        *)
OwnEndpoint(r) ==
  r.status # "none" /\ r.endpoint # NoEndpoint => Owner[r.endpoint] = r.ref[1]

(* A blocker names a target of its task.  A task with a workflow that has  *)
(* not started is open, and a task that is ready waits for nothing.        *)
NamesTarget(b, rows) ==
  /\ rows[b.task].status # "none"
  /\ b.subject \in rows[b.task].targets
  /\ b.type = NotStarted =>
       b.subject \in CandidateRefs /\ rows[b.task].status = "open"
  /\ b.type # NotStarted => b.subject \in Entities
  /\ rows[b.task].status = "in_progress" => b.type = NoCertificate

(* What a request knows refers to rows that exist and are about the same   *)
(* device.                                                                 *)
Refers(r, rows, made) ==
  /\ r.task # 0 => rows[r.task].status # "none"
  /\ r.stage = "deciding" =>
       /\ r.proposal \in Proposals
       /\ made[r.proposal].status # "none"
       /\ r.task # 0 => made[r.proposal].ref \in rows[r.task].targets
  /\ r.stage \in {"probing", "waiting"} =>
       /\ r.endpoint \in Endpoints
       /\ r.task # 0 => Owner[r.endpoint] \in rows[r.task].targets
  /\ r.stage = "waiting" => r.task # 0

(* A workflow that has started has resolved the blocker that says it has   *)
(* not, or knows that it has to.                                           *)
Starts(r, open) ==
  \A b \in open : b.type = NotStarted /\ b.task = r.task =>
    /\ r.stage # "waiting"
    /\ r.stage = "probing" => b \in r.stale

(* A request is at work on what its caller does.                           *)
Allowed(r, operations) ==
  /\ r.stage = "deciding" => "decide" \in operations
  /\ r.stage \in {"probing", "waiting"} => "establish" \in operations

(* Requests that may still need a row for a task.                          *)
Creators == {c \in Callers : call[c].stage \in {"deciding", "probing"}}

WorkInv ==
  /\ TypeOK
  /\ Cardinality(Unused(task)) >= Cardinality(Creators)
  /\ \A t \in Tasks : AboutOne(task[t])
  /\ \A p \in Proposals : OwnEndpoint(proposal[p])
  /\ \A b \in blockers : NamesTarget(b, task)
  /\ \A c \in Callers :
       /\ Refers(call[c], task, proposal)
       /\ Starts(call[c], blockers)
       /\ Allowed(call[c], OperationsOf[c])

(* Rows that are in use stay in use and keep what they are about.          *)
Kept ==
  /\ \A t \in Tasks : task[t].status # "none" =>
       task'[t].status # "none" /\ task'[t].targets = task[t].targets
  /\ \A p \in Proposals : proposal[p].status # "none" =>
       proposal'[p].status # "none" /\ proposal'[p].ref = proposal[p].ref

(* A request refers to what it referred to before: no row goes away.       *)
LEMMA RefersStill ==
  ASSUME Kept, NEW r \in CallRecords, Refers(r, task, proposal)
  PROVE  Refers(r, task', proposal')
<1>1. r.task # 0 => r.task \in Tasks
  BY ConstantsAssumption DEF CallRecords, Tasks
<1> QED BY <1>1 DEF Refers, Kept

(* The unused rows suffice: a request that starts has left one for each of *)
(* the others, and a request takes one at most.                            *)
LEMMA RoomIsKept ==
  ASSUME WorkInv, NEW c \in Callers,
         \A d \in Callers \ {c} : call'[d] = call[d],
         \/ /\ Unused(task') = Unused(task)
            /\ c \in Creators' => c \in Creators \/ (RoomForTask /\ Idle(c))
         \/ /\ \E t : Unused(task') = Unused(task) \ {t}
            /\ c \notin Creators'
            /\ c \in Creators \/ (RoomForTask /\ Idle(c))
  PROVE  Cardinality(Unused(task')) >= Cardinality(Creators')
<1> DEFINE n == Cardinality(Unused(task))
           m == Cardinality(Creators)
           busy == {d \in Callers : ~Idle(d)}
<1>1. /\ IsFiniteSet(Unused(task)) /\ n \in Nat
      /\ IsFiniteSet(Creators) /\ m \in Nat
      /\ IsFiniteSet(busy) /\ Cardinality(busy) \in Nat
  <2>1. IsFiniteSet(Tasks)
    BY FS_Interval, ConstantsAssumption DEF Tasks
  <2>2. Unused(task) \in SUBSET Tasks
    BY DEF Unused, WorkInv, TypeOK
  <2>3. Creators \in SUBSET Callers /\ busy \in SUBSET Callers
    BY DEF Creators
  <2> QED BY <2>1, <2>2, <2>3, FS_Subset, FS_CardinalityType,
             ConstantsAssumption
<1>2. m <= Cardinality(busy)
  <2>1. Creators \in SUBSET busy
    BY DEF Creators, Idle
  <2> QED BY <1>1, <2>1, FS_Subset
<1>3. n >= m /\ (RoomForTask => n > m)
  <2>1. RoomForTask => n > Cardinality(busy)
    BY DEF RoomForTask
  <2>2. n >= m
    BY DEF WorkInv
  <2> HIDE DEF n, m, busy
  <2> QED BY <1>1, <1>2, <2>1, <2>2
<1>4. Creators' \ {c} = Creators \ {c}
  BY DEF Creators
<1>5. CASE /\ Unused(task') = Unused(task)
           /\ c \in Creators' => c \in Creators
  <2>1. Creators' \in SUBSET Creators
    BY <1>4, <1>5
  <2>2. Cardinality(Creators') <= m /\ Cardinality(Creators') \in Nat
    BY <1>1, <2>1, FS_Subset, FS_CardinalityType
  <2> HIDE DEF n, m
  <2>3. Cardinality(Creators') <= n
    BY <1>1, <1>3, <2>2
  <2> QED BY <1>1, <1>5, <2>2, <2>3 DEF n
<1>6. CASE Unused(task') = Unused(task) /\ RoomForTask
  <2>1. Creators' \in SUBSET (Creators \cup {c})
    BY <1>4
  <2>2. /\ IsFiniteSet(Creators \cup {c})
        /\ Cardinality(Creators \cup {c}) <= m + 1
        /\ Cardinality(Creators \cup {c}) \in Nat
    <3>1. /\ IsFiniteSet(Creators \cup {c})
          /\ Cardinality(Creators \cup {c}) =
               IF c \in Creators THEN m ELSE m + 1
      BY <1>1, FS_AddElement
    <3> HIDE DEF m
    <3> QED BY <1>1, <3>1
  <2>3. Cardinality(Creators') <= Cardinality(Creators \cup {c})
    BY <2>1, <2>2, FS_Subset
  <2>4. Cardinality(Creators') \in Nat
    BY <2>1, <2>2, FS_Subset, FS_CardinalityType
  <2>5. Cardinality(Creators') <= n
    <3> HIDE DEF n, m
    <3> QED BY <1>1, <1>3, <1>6, <2>2, <2>3, <2>4
  <2> QED BY <1>1, <1>6, <2>4, <2>5
<1>7. CASE /\ \E t : Unused(task') = Unused(task) \ {t}
           /\ c \notin Creators'
           /\ c \in Creators \/ RoomForTask
  <2>1. Creators' = Creators \ {c}
    BY <1>4, <1>7
  <2>2. /\ Cardinality(Creators') =
             IF c \in Creators THEN m - 1 ELSE m
        /\ Cardinality(Creators') \in Nat
    BY <1>1, <2>1, FS_RemoveElement, FS_CardinalityType
  <2>3. PICK t : Unused(task') = Unused(task) \ {t}
    BY <1>7
  <2>4. /\ Cardinality(Unused(task')) =
             IF t \in Unused(task) THEN n - 1 ELSE n
        /\ Cardinality(Unused(task')) \in Nat
    BY <1>1, <2>3, FS_RemoveElement, FS_CardinalityType
  <2> HIDE DEF n, m
  <2>5. CASE c \in Creators
    <3>1. Cardinality(Creators') = m - 1
      BY <2>2, <2>5
    <3>2. Cardinality(Unused(task')) >= n - 1
      BY <1>1, <2>4
    <3>3. Cardinality(Unused(task')) \in Nat
      BY <2>4
    <3> QED BY <1>1, <1>3, <3>1, <3>2, <3>3
  <2>6. CASE c \notin Creators
    <3>1. Cardinality(Creators') = m
      BY <2>2, <2>6
    <3>2. Cardinality(Unused(task')) >= n - 1
      BY <1>1, <2>4
    <3>3. n > m
      BY <1>3, <1>7, <2>6
    <3>4. Cardinality(Unused(task')) \in Nat
      BY <2>4
    <3> QED BY <1>1, <3>1, <3>2, <3>3, <3>4
  <2> QED BY <2>5, <2>6
<1> QED BY <1>5, <1>6, <1>7

-----------------------------------------------------------------------------
(* Conditions on who overlaps with whom *)

(* One caller takes decisions, one connects; a removal waits for the rest.  *)
OneDecides ==
  \A c, d \in Callers : "decide" \in OperationsOf[c] \cap OperationsOf[d] =>
                          c = d

OneEstablishes ==
  \A c, d \in Callers : "establish" \in OperationsOf[c] \cap OperationsOf[d] =>
                          c = d

RemovesAlone == "remove" \in Alone

(* With one request deciding, a new candidate has no blocker yet.          *)
BlockerInv ==
  /\ WorkInv
  /\ BlockersAreUnique
  /\ \A c \in Callers : call[c].stage = "deciding" /\ call[c].task = 0 =>
       \A b \in blockers :
         b.type = NotStarted => b.subject # proposal[call[c].proposal].ref

(* An open task for a candidate.                                           *)
OpenFor(t, ref) == task[t].status \in OpenStatuses /\ ref \in task[t].targets

(* With one request deciding and one connecting, a task stays open while   *)
(* one works on it, and a candidate without an open task stays without.    *)
OpenInv ==
  /\ WorkInv
  /\ \A ref \in CandidateRefs, t, u \in Tasks :
       OpenFor(t, ref) /\ OpenFor(u, ref) => t = u
  /\ \A c \in Callers :
       /\ call[c].stage \in {"probing", "waiting"} /\ call[c].task # 0 =>
            task[call[c].task].status \in OpenStatuses
       /\ call[c].stage = "deciding" /\ call[c].task = 0 =>
            \A t \in Tasks : ~OpenFor(t, proposal[call[c].proposal].ref)

(* Nobody is at work on a device that was removed.                         *)
RemovalInv ==
  /\ WorkInv
  /\ RemovalIsComplete
  /\ \A c \in Callers :
       /\ call[c].stage = "deciding" =>
            proposal[call[c].proposal].ref[1] \in present
       /\ call[c].stage \in {"probing", "waiting"} =>
            Owner[call[c].endpoint] \in present

-----------------------------------------------------------------------------
(* Every step keeps WorkInv *)

TasksOk ==
  /\ task \in [Tasks -> TaskRecords]
  /\ RecencyOrders
  /\ \A t \in Tasks : AboutOne(task[t])

ProposalsOk ==
  /\ proposal \in [Proposals -> ProposalRecords]
  /\ \A p \in Proposals : OwnEndpoint(proposal[p])

BlockersOk ==
  /\ blockers \subseteq BlockerRecords
  /\ \A b \in blockers : NamesTarget(b, task)

(* What a step of one request has to establish.                            *)
LEMMA WorkFrom ==
  ASSUME WorkInv, NEW c \in Callers, NEW r \in CallRecords, Kept,
         present' \subseteq Entities,
         decisions' \in [Proposals -> Seq(Decisions)],
         candidate' \in [CandidateRefs -> 0 .. MaxProposals],
         TasksOk', ProposalsOk', BlockersOk',
         \A b \in blockers' \ blockers :
           b.type = NotStarted => task[b.task].status = "none",
         call' = [call EXCEPT ![c] = r],
         Refers(r, task', proposal'), Starts(r, blockers'),
         Allowed(r, OperationsOf[c]),
         \/ /\ Unused(task') = Unused(task)
            /\ r.stage \in {"deciding", "probing"} =>
                 c \in Creators \/ (RoomForTask /\ Idle(c))
         \/ /\ \E t : Unused(task') = Unused(task) \ {t}
            /\ r.stage \notin {"deciding", "probing"}
            /\ c \in Creators \/ (RoomForTask /\ Idle(c))
  PROVE  WorkInv' /\ Kept
<1>1. call \in [Callers -> CallRecords]
  BY DEF WorkInv, TypeOK
<1>2. /\ call' \in [Callers -> CallRecords]
      /\ call'[c] = r
      /\ \A d \in Callers \ {c} : call'[d] = call[d]
  BY <1>1
<1>3. TypeOK'
  BY <1>2 DEF TypeOK, TasksOk, ProposalsOk, BlockersOk
<1>4. Cardinality(Unused(task')) >= Cardinality(Creators')
  <2>1. c \in Creators' <=> r.stage \in {"deciding", "probing"}
    BY <1>2 DEF Creators
  <2> QED BY <1>2, <2>1, RoomIsKept
<1>5. ASSUME NEW d \in Callers
      PROVE  /\ Refers(call'[d], task', proposal')
             /\ Starts(call'[d], blockers')
             /\ Allowed(call'[d], OperationsOf[d])
  <2>1. CASE d = c
    BY <1>2, <2>1
  <2>2. CASE d # c
    <3>1. /\ call'[d] = call[d] /\ call[d] \in CallRecords
          /\ Refers(call[d], task, proposal)
          /\ Starts(call[d], blockers)
          /\ Allowed(call[d], OperationsOf[d])
      BY <1>1, <1>2, <2>2 DEF WorkInv
    <3>2. Refers(call[d], task', proposal')
      BY <3>1, RefersStill
    <3>3. Starts(call[d], blockers')
      <4> SUFFICES ASSUME NEW b \in blockers', b.type = NotStarted,
                          b.task = call[d].task
                   PROVE  /\ call[d].stage # "waiting"
                          /\ call[d].stage = "probing" => b \in call[d].stale
        BY DEF Starts
      <4>1. CASE b \in blockers
        BY <3>1, <4>1 DEF Starts
      <4>2. CASE b \notin blockers
        <5>1. task[b.task].status = "none"
          BY <4>2
        <5>2. b.task # 0
          BY ConstantsAssumption DEF BlockersOk, BlockerRecords, Tasks
        <5> QED BY <3>1, <5>1, <5>2 DEF Refers
      <4> QED BY <4>1, <4>2
    <3> QED BY <3>1, <3>2, <3>3
  <2> QED BY <2>1, <2>2
<1> QED BY <1>3, <1>4, <1>5 DEF WorkInv, TasksOk, ProposalsOk, BlockersOk

(* A request that is done knows nothing.                                   *)
LEMMA NoCallIsFine ==
  ASSUME NEW rows, NEW made, NEW open, NEW operations
  PROVE  /\ NoCall \in CallRecords
         /\ Refers(NoCall, rows, made)
         /\ Starts(NoCall, open)
         /\ Allowed(NoCall, operations)
         /\ NoCall.stage \notin {"deciding", "probing"}
<1>1. /\ NoCall.stage = "idle" /\ NoCall.task = 0
  BY DEF NoCall
<1>2. NoCall \in CallRecords
  BY ConstantsAssumption DEF NoCall, CallRecords, Decisions, Phases
<1> QED BY <1>1, <1>2 DEF Refers, Starts, Allowed

(* Tasks that nobody writes stay well-formed.                              *)
LEMMA TasksStay ==
  ASSUME WorkInv, UNCHANGED <<task, recency>>
  PROVE  TasksOk' /\ Unused(task') = Unused(task)
BY DEF WorkInv, TypeOK, TasksOk, RecencyOrders, Stored

(* Proposals that nobody writes stay well-formed.                          *)
LEMMA ProposalsStay ==
  ASSUME WorkInv, UNCHANGED proposal
  PROVE  ProposalsOk'
BY DEF WorkInv, TypeOK, ProposalsOk

(* A task is written: it stays about the same device.                      *)
LEMMA TaskWritten ==
  ASSUME WorkInv, NEW t \in Tasks, NEW r \in TaskRecords, SaveTask(t, r),
         r.status # "none", AboutOne(r),
         task[t].status # "none" => r.targets = task[t].targets
  PROVE  /\ TasksOk'
         /\ task'[t] = r
         /\ \A u \in Tasks \ {t} : task'[u] = task[u]
         /\ Unused(task') = Unused(task) \ {t}
         /\ \A u \in Tasks : task[u].status # "none" =>
              task'[u].status # "none" /\ task'[u].targets = task[u].targets
<1>1. task \in [Tasks -> TaskRecords] /\ RecencyOrders
  BY DEF WorkInv, TypeOK
<1>2. /\ task' \in [Tasks -> TaskRecords]
      /\ task'[t] = r
      /\ \A u \in Tasks \ {t} : task'[u] = task[u]
      /\ RecencyOrders'
      /\ Unused(task') = Unused(task) \ {t}
  BY <1>1, TaskSaved
<1>3. \A u \in Tasks : AboutOne(task'[u])
  BY <1>2 DEF WorkInv
<1> QED BY <1>2, <1>3 DEF TasksOk

(* Blockers that are left name rows that are as before, or are blocked by  *)
(* something else than a workflow that has not started.                    *)
LEMMA BlockersStay ==
  ASSUME WorkInv, blockers' \subseteq blockers,
         \A b \in blockers' : task[b.task].status # "none" =>
           /\ task'[b.task].targets = task[b.task].targets
           /\ \/ task'[b.task].status = task[b.task].status
              \/ /\ task'[b.task].status \notin {"none", "in_progress"}
                 /\ b.type # NotStarted
              \/ /\ task'[b.task].status = "in_progress"
                 /\ b.type = NoCertificate
  PROVE  BlockersOk'
<1>1. ASSUME NEW b \in blockers' PROVE NamesTarget(b, task')
  <2>1. NamesTarget(b, task)
    BY DEF WorkInv
  <2>2. NoCertificate # NotStarted
    BY DEF NoCertificate, NotStarted
  <2> QED BY <2>1, <2>2 DEF NamesTarget
<1> QED BY <1>1 DEF BlockersOk, WorkInv, TypeOK

(* A request that may create a task finds a row for it.                    *)
LEMMA SomeUnused ==
  ASSUME WorkInv, NEW c \in Callers, c \in Creators \/ RoomForTask
  PROVE  Unused(task) # {}
<1>1. IsFiniteSet(Callers)
  BY ConstantsAssumption
<1>2. /\ IsFiniteSet(Creators) /\ Creators \in SUBSET Callers
      /\ IsFiniteSet({d \in Callers : ~Idle(d)})
  BY <1>1, FS_Subset DEF Creators
<1>3. /\ Cardinality(Creators) \in Nat
      /\ Cardinality({d \in Callers : ~Idle(d)}) \in Nat
      /\ Cardinality(Creators) = 0 => Creators = {}
  BY <1>2, FS_CardinalityType, FS_EmptySet
<1>4. Cardinality({}) = 0
  BY FS_EmptySet
<1>5. CASE c \in Creators
  <2>1. Cardinality(Creators) > 0
    BY <1>3, <1>5
  <2>2. Cardinality(Unused(task)) >= Cardinality(Creators)
    BY DEF WorkInv
  <2> SUFFICES ASSUME Unused(task) = {} PROVE FALSE
    OBVIOUS
  <2>3. Cardinality(Unused(task)) = 0
    BY <1>4
  <2> QED BY <1>3, <2>1, <2>2, <2>3
<1>6. CASE RoomForTask
  <2> SUFFICES ASSUME Unused(task) = {} PROVE FALSE
    OBVIOUS
  <2>1. Cardinality(Unused(task)) = 0
    BY <1>4
  <2> QED BY <1>3, <1>6, <2>1 DEF RoomForTask
<1> QED BY <1>5, <1>6

(* The task that is next is one of the unused.                             *)
LEMMA NextIsThere ==
  ASSUME WorkInv, NEW c \in Callers, c \in Creators \/ RoomForTask
  PROVE  /\ NextTask \in Tasks /\ NextTask # 0
         /\ task[NextTask].status = "none"
         /\ NextTask \in Unused(task)
<1>1. Unused(task) # {} /\ task \in [Tasks -> TaskRecords]
  BY SomeUnused DEF WorkInv, TypeOK
<1>2. NextTask \in Unused(task) /\ NextTask \in Tasks
  BY <1>1, NextIsUnused
<1> QED BY <1>2, ConstantsAssumption DEF Unused, Tasks

(* A task that an endpoint or its device is a target of has the device as  *)
(* a target, and no other device.                                          *)
LEMMA OwnerIsTarget ==
  ASSUME NEW r, r.status # "none", AboutOne(r)
  PROVE  /\ \A n \in Endpoints : {Owner[n], n} \cap r.targets # {} =>
              Owner[n] \in r.targets
         /\ \A d, e \in Entities : d \in r.targets /\ e \in r.targets => d = e
<1>1. PICK e \in Entities : e \in r.targets /\ r.targets \subseteq About(e)
  BY DEF AboutOne
<1>2. \A d \in Entities : d \in r.targets => d = e
  BY <1>1, RefsDiffer DEF About, Affected
<1>3. \A n \in Endpoints : n \in r.targets => Owner[n] = e
  BY <1>1, RefsDiffer DEF About, Affected
<1> QED BY <1>1, <1>2, <1>3

(* A new proposal takes an unused row.                                     *)
LEMMA WorkPrepare ==
  ASSUME WorkInv, NEW c \in Callers, Prepare(c)
  PROVE  WorkInv' /\ Kept
<1>1. PICK e \in present, r \in Roles, n \in Endpoints \cup {NoEndpoint},
            new \in Proposals :
        /\ n # NoEndpoint => Owner[n] = e
        /\ IsNext(new, proposal)
        /\ proposal' = [proposal EXCEPT ![new] =
                          [status |-> "awaiting_user_decision",
                           ref |-> <<e, r>>, endpoint |-> n]]
        /\ UNCHANGED <<present, decisions, candidate, task, recency, blockers,
                       call>>
  BY DEF Prepare
<1> DEFINE row == [status |-> "awaiting_user_decision", ref |-> <<e, r>>,
                   endpoint |-> n]
<1>2. TypeOK
  BY DEF WorkInv
<1>3. row \in ProposalRecords /\ OwnEndpoint(row) /\ row.status # "none"
  <2>1. <<e, r>> \in CandidateRefs /\ e \in Entities
    BY <1>2 DEF TypeOK, CandidateRefs
  <2>2. row \in ProposalRecords
    BY <2>1 DEF ProposalRecords, ProposalStatuses, RequestStatus
  <2> QED BY <1>1, <2>2 DEF OwnEndpoint
<1>4. proposal[new].status = "none"
  BY <1>1 DEF IsNext, Unused
<1> HIDE DEF row
<1>5. /\ proposal' \in [Proposals -> ProposalRecords]
      /\ proposal'[new] = row
      /\ \A p \in Proposals \ {new} : proposal'[p] = proposal[p]
  BY <1>1, <1>2, <1>3 DEF TypeOK, row
<1>6. ProposalsOk'
  BY <1>3, <1>5 DEF ProposalsOk, WorkInv
<1>7. Kept
  BY <1>1, <1>4, <1>5 DEF Kept
<1>8. TasksOk' /\ Unused(task') = Unused(task)
  BY <1>1, TasksStay
<1>9. BlockersOk'
  BY <1>1, BlockersStay
<1>10. /\ call[c] \in CallRecords
       /\ call' = [call EXCEPT ![c] = call[c]]
       /\ Refers(call[c], task', proposal')
       /\ Starts(call[c], blockers')
       /\ Allowed(call[c], OperationsOf[c])
  <2>1. /\ call[c] \in CallRecords
        /\ Refers(call[c], task, proposal)
        /\ Starts(call[c], blockers)
        /\ Allowed(call[c], OperationsOf[c])
    BY <1>2 DEF WorkInv, TypeOK
  <2>2. Refers(call[c], task', proposal')
    BY <1>7, <2>1, RefersStill
  <2> QED BY <1>1, <1>2, <2>1, <2>2 DEF TypeOK
<1>11. call[c].stage \in {"deciding", "probing"} => c \in Creators
  BY DEF Creators
<1>12. /\ present' \subseteq Entities
       /\ decisions' \in [Proposals -> Seq(Decisions)]
       /\ candidate' \in [CandidateRefs -> 0 .. MaxProposals]
       /\ blockers' \ blockers = {}
  BY <1>1, <1>2 DEF TypeOK
<1> QED BY <1>6, <1>7, <1>8, <1>9, <1>10, <1>11, <1>12, WorkFrom

(* A decision takes up the open task of its candidate, or reserves a row   *)
(* for one.                                                                *)
LEMMA WorkDecide ==
  ASSUME WorkInv, NEW c \in Callers, Decide(c)
  PROVE  WorkInv' /\ Kept
<1>1. PICK p \in Proposals, decision \in Decisions :
        /\ Begin(c, "decide")
        /\ proposal[p].status = "awaiting_user_decision"
        /\ RoomForTask
        /\ call' = [call EXCEPT ![c] =
             [NoCall EXCEPT !.stage = "deciding", !.proposal = p,
                !.decision = decision,
                !.existing = candidate[proposal[p].ref] # 0,
                !.task = FindOpenTask(proposal[p].ref)]]
        /\ UNCHANGED <<present, proposal, decisions, candidate, task, recency,
                       blockers>>
  BY DEF Decide
<1> DEFINE ref == proposal[p].ref
           t == FindOpenTask(ref)
           r == [NoCall EXCEPT !.stage = "deciding", !.proposal = p,
                   !.decision = decision, !.existing = candidate[ref] # 0,
                   !.task = t]
<1>2. TypeOK
  BY DEF WorkInv
<1>3. /\ t \in 0 .. MaxTasks
      /\ t # 0 => /\ task[t].status # "none"
                  /\ ref \in task[t].targets
  <2>1. task \in [Tasks -> TaskRecords]
    BY <1>2 DEF TypeOK
  <2> QED BY <2>1, FoundIsOpen DEF OpenStatuses
<1>4. /\ r.stage = "deciding" /\ r.proposal = p /\ r.task = t
      /\ r \in CallRecords
  <2>1. p \in 0 .. MaxProposals
    BY ConstantsAssumption DEF Proposals
  <2> HIDE DEF t, ref
  <2> QED BY <1>3, <2>1 DEF NoCall, CallRecords, Phases
<1> HIDE DEF t
<1>5. /\ Refers(r, task', proposal')
      /\ Starts(r, blockers')
      /\ Allowed(r, OperationsOf[c])
  <2> HIDE DEF r
  <2> QED BY <1>1, <1>3, <1>4 DEF Refers, Starts, Allowed, Begin
<1>6. Kept
  BY <1>1 DEF Kept
<1>7. TasksOk' /\ Unused(task') = Unused(task)
  BY <1>1, TasksStay
<1>8. ProposalsOk' /\ BlockersOk'
  BY <1>1, ProposalsStay, BlockersStay
<1>9. /\ present' \subseteq Entities
      /\ decisions' \in [Proposals -> Seq(Decisions)]
      /\ candidate' \in [CandidateRefs -> 0 .. MaxProposals]
      /\ blockers' \ blockers = {}
  BY <1>1, <1>2 DEF TypeOK
<1>10. call' = [call EXCEPT ![c] = r] /\ Idle(c) /\ RoomForTask
  BY <1>1 DEF t, Begin
<1> HIDE DEF r
<1> QED BY <1>4, <1>5, <1>6, <1>7, <1>8, <1>9, <1>10, WorkFrom

(* What a request knows while it decides, or works on a connection.        *)
LEMMA CallFacts ==
  ASSUME WorkInv, NEW c \in Callers
  PROVE  /\ call[c] \in CallRecords
         /\ call[c].task # 0 =>
              /\ call[c].task \in Tasks
              /\ task[call[c].task] \in TaskRecords
              /\ task[call[c].task].status # "none"
              /\ AboutOne(task[call[c].task])
         /\ call[c].stage = "deciding" =>
              /\ c \in Creators
              /\ call[c].proposal \in Proposals
              /\ proposal[call[c].proposal] \in ProposalRecords
              /\ proposal[call[c].proposal].status # "none"
              /\ OwnEndpoint(proposal[call[c].proposal])
              /\ call[c].task # 0 => proposal[call[c].proposal].ref \in
                                       task[call[c].task].targets
         /\ call[c].stage \in {"probing", "waiting"} =>
              /\ call[c].endpoint \in Endpoints
              /\ Owner[call[c].endpoint] \in Entities
              /\ call[c].task # 0 => Owner[call[c].endpoint] \in
                                       task[call[c].task].targets
         /\ call[c].stage = "probing" => c \in Creators
         /\ call[c].stage = "waiting" => call[c].task # 0
<1>1. call[c] \in CallRecords /\ Refers(call[c], task, proposal)
  BY DEF WorkInv, TypeOK
<1>2. call[c].task # 0 => call[c].task \in Tasks
  BY <1>1, ConstantsAssumption DEF CallRecords, Tasks
<1>3. /\ task \in [Tasks -> TaskRecords]
      /\ proposal \in [Proposals -> ProposalRecords]
      /\ \A t \in Tasks : AboutOne(task[t])
      /\ \A p \in Proposals : OwnEndpoint(proposal[p])
  BY DEF WorkInv, TypeOK
<1> QED BY <1>1, <1>2, <1>3, ConstantsAssumption DEF Refers, Creators

(* A decision is stored: the row of its candidate, and of its task.        *)
LEMMA WorkApprove ==
  ASSUME WorkInv, NEW c \in Callers, call[c].stage = "deciding",
         Materialize(call[c].proposal, call[c].task)
  PROVE  /\ candidate' \in [CandidateRefs -> 0 .. MaxProposals]
         /\ TasksOk'
         /\ BlockersOk'
         /\ \A b \in blockers' \ blockers :
              task[b.task].status = "none"
         /\ \A t \in Tasks : task[t].status # "none" =>
              task'[t].status # "none" /\ task'[t].targets = task[t].targets
         /\ \/ Unused(task') = Unused(task)
            \/ \E t : Unused(task') = Unused(task) \ {t}
<1> DEFINE p == call[c].proposal
           found == call[c].task
           ref == proposal[p].ref
           phase == "awaiting_commissioning_workflow"
<1>1. /\ c \in Creators /\ p \in Proposals
      /\ proposal[p] \in ProposalRecords
      /\ proposal[p].status # "none"
      /\ OwnEndpoint(proposal[p])
      /\ ref \in CandidateRefs
  <2>1. /\ c \in Creators /\ p \in Proposals
        /\ proposal[p] \in ProposalRecords
        /\ proposal[p].status # "none"
        /\ OwnEndpoint(proposal[p])
    BY CallFacts
  <2> HIDE DEF p
  <2> QED BY <2>1 DEF ProposalRecords
<1>2. ref[1] \in Entities
  BY <1>1 DEF CandidateRefs
<1>3. TypeOK
  BY DEF WorkInv
<1>4. candidate' \in [CandidateRefs -> 0 .. MaxProposals]
  <2>1. candidate' = [candidate EXCEPT ![ref] = p]
    BY DEF Materialize
  <2>2. p \in 0 .. MaxProposals
    BY <1>1, ConstantsAssumption DEF Proposals
  <2> QED BY <1>3, <2>1, <2>2 DEF TypeOK
<1>5. CASE found # 0
  <2> DEFINE r == [task[found] EXCEPT !.phase = phase]
  <2>1. SaveTask(found, r) /\ UNCHANGED blockers
    BY <1>5 DEF Materialize
  <2>2. /\ found \in Tasks /\ task[found] \in TaskRecords
        /\ task[found].status # "none" /\ AboutOne(task[found])
    BY <1>5, CallFacts
  <2>3. /\ r \in TaskRecords
        /\ r.status = task[found].status /\ r.targets = task[found].targets
    BY <2>2 DEF TaskRecords, Phases
  <2> HIDE DEF r, found
  <2>4. AboutOne(r)
    BY <2>2, <2>3 DEF AboutOne
  <2>5. /\ TasksOk'
        /\ task'[found] = r
        /\ \A u \in Tasks \ {found} : task'[u] = task[u]
        /\ Unused(task') = Unused(task) \ {found}
        /\ \A u \in Tasks : task[u].status # "none" =>
             task'[u].status # "none" /\ task'[u].targets = task[u].targets
    BY <2>1, <2>2, <2>3, <2>4, TaskWritten
  <2>6. \A b \in blockers : b.task \in Tasks
    BY <1>3 DEF TypeOK, BlockerRecords
  <2>7. BlockersOk'
    BY <2>1, <2>3, <2>5, <2>6, BlockersStay
  <2> QED BY <1>4, <2>1, <2>5, <2>7
<1>6. CASE found = 0
  <2> DEFINE new == NextTask
             r == [status |-> "open", phase |-> phase,
                   targets |-> {ref[1], ref} \cup
                               ({proposal[p].endpoint} \ {NoEndpoint})]
             b0 == [type |-> NotStarted, subject |-> ref, task |-> new]
  <2>1. SaveTask(new, r) /\ blockers' = blockers \cup {b0}
    BY <1>6 DEF Materialize
  <2>2. new \in Tasks /\ task[new].status = "none" /\ new \in Unused(task)
    BY <1>1, NextIsThere
  <2>3. r \in TaskRecords /\ r.status = "open" /\ AboutOne(r)
    <3>1. proposal[p].endpoint # NoEndpoint =>
            /\ proposal[p].endpoint \in Endpoints
            /\ Owner[proposal[p].endpoint] = ref[1]
      BY <1>1 DEF ProposalRecords, OwnEndpoint
    <3> HIDE DEF p
    <3>2. r.targets \subseteq About(ref[1]) /\ ref[1] \in r.targets
      BY <1>1, <1>2, <3>1 DEF About, Affected
    <3>3. r.targets \subseteq Entities \cup Endpoints \cup CandidateRefs
      BY <1>1, <1>2, <3>1
    <3> HIDE DEF ref
    <3>4. r \in TaskRecords
      BY <3>3 DEF TaskRecords, TaskStatuses, Phases
    <3> QED BY <1>2, <3>2, <3>4 DEF AboutOne
  <2>4. ref \in r.targets
    OBVIOUS
  <2> HIDE DEF r, new, ref, p
  <2>5. /\ TasksOk'
        /\ task'[new] = r
        /\ \A u \in Tasks \ {new} : task'[u] = task[u]
        /\ Unused(task') = Unused(task) \ {new}
        /\ \A u \in Tasks : task[u].status # "none" =>
             task'[u].status # "none" /\ task'[u].targets = task[u].targets
    BY <2>1, <2>2, <2>3, TaskWritten
  <2>6. \A b \in blockers : NamesTarget(b, task')
    <3>1. \A b \in blockers : b.task \in Tasks /\ NamesTarget(b, task)
      BY <1>3 DEF TypeOK, BlockerRecords, WorkInv
    <3>2. \A b \in blockers : task'[b.task] = task[b.task]
      BY <2>2, <2>5, <3>1 DEF NamesTarget
    <3> QED BY <3>1, <3>2 DEF NamesTarget
  <2>7. b0 \in BlockerRecords /\ NamesTarget(b0, task')
    <3>1. /\ b0.type = NotStarted /\ b0.subject = ref /\ b0.task = new
          /\ b0 \in BlockerRecords
      BY <1>1, <2>2 DEF BlockerRecords, BlockerTypes
    <3> HIDE DEF b0
    <3> QED BY <1>1, <2>3, <2>4, <2>5, <3>1 DEF NamesTarget
  <2>8. b0.task = new
    OBVIOUS
  <2> HIDE DEF b0
  <2>9. BlockersOk'
    BY <1>3, <2>1, <2>6, <2>7 DEF BlockersOk, TypeOK
  <2>10. \A b \in blockers' \ blockers :
           task[b.task].status = "none"
    BY <2>1, <2>2, <2>5, <2>8
  <2> QED BY <1>4, <2>5, <2>9, <2>10
<1> QED BY <1>5, <1>6

(* The commit of a decision: what the request read before may be out of    *)
(* date, but the rows it names still exist and are about its device.       *)
LEMMA WorkCommit ==
  ASSUME WorkInv, NEW c \in Callers, Commit(c)
  PROVE  WorkInv' /\ Kept
<1> DEFINE p == call[c].proposal
<1>1. /\ call[c].stage = "deciding"
      /\ call' = [call EXCEPT ![c] = NoCall]
      /\ UNCHANGED present
  BY DEF Commit
<1>2. TypeOK
  BY DEF WorkInv
<1>3. /\ c \in Creators /\ p \in Proposals
      /\ call[c].decision \in Decisions
      /\ proposal[p] \in ProposalRecords
  BY <1>1, CallFacts DEF CallRecords
<1>4. /\ NoCall \in CallRecords
      /\ Refers(NoCall, task', proposal')
      /\ Starts(NoCall, blockers')
      /\ Allowed(NoCall, OperationsOf[c])
      /\ NoCall.stage \notin {"deciding", "probing"}
  BY NoCallIsFine
<1>5. present' \subseteq Entities
  BY <1>1, <1>2 DEF TypeOK
<1>6. CASE UNCHANGED <<proposal, decisions, candidate, task, recency,
                       blockers>>
  <2>1. Kept
    BY <1>6 DEF Kept
  <2>2. TasksOk' /\ Unused(task') = Unused(task)
    BY <1>6, TasksStay
  <2>3. ProposalsOk' /\ BlockersOk'
    BY <1>6, ProposalsStay, BlockersStay
  <2>4. /\ decisions' \in [Proposals -> Seq(Decisions)]
        /\ candidate' \in [CandidateRefs -> 0 .. MaxProposals]
        /\ blockers' \ blockers = {}
    BY <1>2, <1>6 DEF TypeOK
  <2> QED BY <1>1, <1>4, <1>5, <2>1, <2>2, <2>3, <2>4, WorkFrom
<1>7. CASE /\ proposal' = [proposal EXCEPT ![p].status =
                                Outcome(call[c].decision)]
           /\ decisions' = [decisions EXCEPT ![p] =
                Append(@, call[c].decision)]
           /\ \/ Materialize(p, call[c].task)
              \/ UNCHANGED <<candidate, task, recency, blockers>>
  <2>1. /\ proposal' \in [Proposals -> ProposalRecords]
        /\ \A q \in Proposals :
             /\ proposal'[q].ref = proposal[q].ref
             /\ proposal[q].status # "none" => proposal'[q].status # "none"
    <3>1. proposal \in [Proposals -> ProposalRecords]
      BY <1>2 DEF TypeOK
    <3>2. proposal' = [proposal EXCEPT ![p].status =
                         Outcome(call[c].decision)]
      BY <1>7
    <3> HIDE DEF p
    <3> QED BY <1>3, <3>1, <3>2, ProposalOutcome
  <2>2. ProposalsOk'
    <3>1. \A q \in Proposals : proposal'[q].endpoint = proposal[q].endpoint
      <4>1. proposal \in [Proposals -> ProposalRecords]
        BY <1>2 DEF TypeOK
      <4>2. proposal[p].status \in ProposalStatuses
        BY <1>3 DEF ProposalRecords
      <4> HIDE DEF p
      <4> QED BY <1>3, <1>7, <4>1 DEF ProposalRecords
    <3>2. \A q \in Proposals : OwnEndpoint(proposal[q])
      BY DEF WorkInv
    <3>3. \A q \in Proposals \ {p} : proposal'[q] = proposal[q]
      BY <1>2, <1>7 DEF TypeOK
    <3>4. proposal[p].status # "none"
      BY <1>1, CallFacts
    <3> HIDE DEF p
    <3> QED BY <2>1, <3>1, <3>2, <3>3, <3>4 DEF ProposalsOk, OwnEndpoint
  <2>3. decisions' \in [Proposals -> Seq(Decisions)]
    BY <1>2, <1>3, <1>7 DEF TypeOK
  <2>4. /\ candidate' \in [CandidateRefs -> 0 .. MaxProposals]
        /\ TasksOk'
        /\ BlockersOk'
        /\ \A b \in blockers' \ blockers : task[b.task].status = "none"
        /\ \A t \in Tasks : task[t].status # "none" =>
             task'[t].status # "none" /\ task'[t].targets = task[t].targets
        /\ \/ Unused(task') = Unused(task)
           \/ \E t : Unused(task') = Unused(task) \ {t}
    <3>1. CASE Materialize(p, call[c].task)
      BY <1>1, <3>1, WorkApprove
    <3>2. CASE UNCHANGED <<candidate, task, recency, blockers>>
      <4>1. TasksOk' /\ Unused(task') = Unused(task)
        BY <3>2, TasksStay
      <4>2. BlockersOk'
        BY <3>2, BlockersStay
      <4> QED BY <1>2, <3>2, <4>1, <4>2 DEF TypeOK
    <3> QED BY <1>7, <3>1, <3>2
  <2>5. Kept
    BY <2>1, <2>4 DEF Kept
  <2> QED BY <1>1, <1>3, <1>4, <1>5, <2>2, <2>3, <2>4, <2>5, WorkFrom
<1> QED BY <1>6, <1>7 DEF Commit

(* The task that a connection starts on: found, or a new one.              *)
LEMMA EstablishTask ==
  ASSUME WorkInv, NEW n \in Endpoints
  PROVE  LET found == TaskFor(n) IN
         /\ found \in 0 .. MaxTasks
         /\ found # 0 => /\ found \in Tasks
                         /\ task[found] \in TaskRecords
                         /\ task[found].status \in OpenStatuses
                         /\ Owner[n] \in task[found].targets
<1>1. /\ task \in [Tasks -> TaskRecords] /\ RecencyOrders
      /\ \A t \in Tasks : AboutOne(task[t])
  BY DEF WorkInv, TypeOK
<1>2. TaskFor(n) # 0 =>
        /\ TaskFor(n) \in Tasks
        /\ task[TaskFor(n)].status \in OpenStatuses
        /\ {Owner[n], n} \cap task[TaskFor(n)].targets # {}
  BY <1>1, TaskForIsOpen
<1>3. \A t \in Tasks : task[t].status \in OpenStatuses =>
        task[t].status # "none"
  BY DEF OpenStatuses
<1>4. TaskFor(n) # 0 => Owner[n] \in task[TaskFor(n)].targets
  BY <1>1, <1>2, <1>3, OwnerIsTarget
<1> QED BY <1>1, <1>2, <1>4, ConstantsAssumption DEF Tasks

(* A task made for a connection is about the device of the endpoint.       *)
LEMMA NewTaskIsFine ==
  ASSUME NEW n \in Endpoints
  PROVE  /\ NewTask(n) \in TaskRecords
         /\ NewTask(n).status = "running"
         /\ Owner[n] \in NewTask(n).targets
         /\ AboutOne(NewTask(n))
<1>1. Owner[n] \in Entities
  BY ConstantsAssumption
<1>2. NewTask(n).targets = {Owner[n], n}
  BY DEF NewTask
<1>3. {Owner[n], n} \subseteq About(Owner[n])
  BY DEF About, Affected
<1>4. NewTask(n) \in TaskRecords
  BY <1>1 DEF NewTask, TaskRecords, TaskStatuses, Phases
<1>5. NewTask(n).status = "running"
  BY DEF NewTask
<1> QED BY <1>1, <1>2, <1>3, <1>4, <1>5 DEF AboutOne

(* A connection starts: on an open task that is found, or on a new one.    *)
LEMMA WorkEstablish ==
  ASSUME WorkInv, NEW c \in Callers, Establish(c)
  PROVE  WorkInv' /\ Kept
<1>1. PICK n \in Endpoints, certificate \in BOOLEAN :
        LET found == TaskFor(n)
            t == IF found = 0 THEN NextTask ELSE found
            r == IF found = 0 THEN NewTask(n) ELSE task[t] IN
        /\ Begin(c, "establish")
        /\ RoomForTask
        /\ IF certificate
           THEN /\ IF found = 0 THEN SaveTask(t, r)
                   ELSE UNCHANGED <<task, recency>>
                /\ blockers' = blockers \ Stale(t, r, n)
                /\ call' = [call EXCEPT ![c] =
                     [NoCall EXCEPT !.stage = "waiting", !.endpoint = n,
                                    !.task = t, !.phase = r.phase]]
           ELSE /\ call' = [call EXCEPT ![c] =
                     [NoCall EXCEPT !.stage = "probing", !.endpoint = n,
                                    !.task = found, !.stale = Stale(t, r, n)]]
                /\ UNCHANGED <<task, recency, blockers>>
        /\ UNCHANGED <<present, proposal, decisions, candidate>>
  BY Zenon DEF Establish
<1> DEFINE found == TaskFor(n)
           t == IF found = 0 THEN NextTask ELSE found
           r == IF found = 0 THEN NewTask(n) ELSE task[t]
           stale == Stale(t, r, n)
           waiting == [NoCall EXCEPT !.stage = "waiting", !.endpoint = n,
                                     !.task = t, !.phase = r.phase]
           probing == [NoCall EXCEPT !.stage = "probing", !.endpoint = n,
                                     !.task = found, !.stale = stale]
<1>2. /\ Begin(c, "establish") /\ RoomForTask
      /\ UNCHANGED <<present, proposal, decisions, candidate>>
      /\ \/ /\ found = 0 /\ SaveTask(t, r)
            /\ blockers' = blockers \ stale
            /\ call' = [call EXCEPT ![c] = waiting]
         \/ /\ found # 0 /\ UNCHANGED <<task, recency>>
            /\ blockers' = blockers \ stale
            /\ call' = [call EXCEPT ![c] = waiting]
         \/ /\ call' = [call EXCEPT ![c] = probing]
            /\ UNCHANGED <<task, recency, blockers>>
  BY <1>1, Zenon
<1>3. TypeOK
  BY DEF WorkInv
<1>4. /\ found \in 0 .. MaxTasks
      /\ found # 0 => /\ found \in Tasks
                      /\ task[found] \in TaskRecords
                      /\ task[found].status \in OpenStatuses
                      /\ Owner[n] \in task[found].targets
  BY EstablishTask
<1>5. /\ NextTask \in Tasks /\ NextTask # 0
      /\ task[NextTask].status = "none"
      /\ NextTask \in Unused(task)
  BY <1>2, NextIsThere
<1>6. /\ NewTask(n) \in TaskRecords
      /\ NewTask(n).status = "running"
      /\ Owner[n] \in NewTask(n).targets
      /\ AboutOne(NewTask(n))
  BY NewTaskIsFine
<1> HIDE DEF found
<1>7. /\ t \in Tasks /\ t # 0 /\ t \in 0 .. MaxTasks
      /\ r \in TaskRecords /\ r.status \in OpenStatuses
      /\ Owner[n] \in r.targets
  BY <1>4, <1>5, <1>6, ConstantsAssumption DEF OpenStatuses, Tasks
<1>8. /\ stale \subseteq BlockerRecords
      /\ \A b \in blockers : b.type = NotStarted /\ b.task = t => b \in stale
  BY <1>3 DEF Stale, TypeOK
<1> HIDE DEF t, r, stale
<1>9. r.phase \in Phases
  BY <1>7 DEF TaskRecords
<1>10. /\ waiting \in CallRecords
       /\ waiting.stage = "waiting" /\ waiting.endpoint = n
       /\ waiting.task = t
  BY <1>7, <1>9, NoCallIsFine DEF CallRecords
<1>11. /\ probing \in CallRecords
       /\ probing.stage = "probing" /\ probing.endpoint = n
       /\ probing.task = found /\ probing.stale = stale
  BY <1>4, <1>8, NoCallIsFine DEF CallRecords
<1>12. Idle(c) /\ "establish" \in OperationsOf[c]
  BY <1>2 DEF Begin
<1>13. /\ Allowed(waiting, OperationsOf[c])
       /\ Allowed(probing, OperationsOf[c])
  BY <1>10, <1>11, <1>12 DEF Allowed
<1>14. /\ present' \subseteq Entities
       /\ decisions' \in [Proposals -> Seq(Decisions)]
       /\ candidate' \in [CandidateRefs -> 0 .. MaxProposals]
  BY <1>2, <1>3 DEF TypeOK
<1>15. ProposalsOk'
  BY <1>2, ProposalsStay
<1> HIDE DEF waiting, probing
<1>16. blockers' = blockers \ stale => Starts(waiting, blockers')
  BY <1>8, <1>10 DEF Starts
<1>17. CASE /\ found = 0 /\ SaveTask(t, r)
            /\ blockers' = blockers \ stale
            /\ call' = [call EXCEPT ![c] = waiting]
  <2>1. t = NextTask /\ r = NewTask(n)
    BY <1>17 DEF t, r
  <2>2. /\ TasksOk'
        /\ task'[t] = r
        /\ \A u \in Tasks \ {t} : task'[u] = task[u]
        /\ Unused(task') = Unused(task) \ {t}
        /\ \A u \in Tasks : task[u].status # "none" =>
             task'[u].status # "none" /\ task'[u].targets = task[u].targets
    <3>1. AboutOne(r) /\ r.status # "none" /\ task[t].status = "none"
      BY <1>5, <1>6, <2>1
    <3> QED BY <1>7, <1>17, <3>1, TaskWritten
  <2>3. Kept
    BY <1>2, <2>2 DEF Kept
  <2>4. BlockersOk'
    <3>1. \A b \in blockers : b.task \in Tasks
      BY <1>3 DEF TypeOK, BlockerRecords
    <3>2. \A b \in blockers' : task[b.task].status # "none" =>
            task'[b.task] = task[b.task]
      BY <1>5, <1>17, <2>1, <2>2, <3>1
    <3> QED BY <1>17, <3>2, BlockersStay
  <2>5. Refers(waiting, task', proposal')
    BY <1>6, <1>7, <1>10, <2>1, <2>2 DEF Refers
  <2>6. /\ blockers' \ blockers = {}
        /\ waiting.stage \notin {"deciding", "probing"}
    BY <1>10, <1>17
  <2> QED BY <1>2, <1>10, <1>12, <1>13, <1>14, <1>15, <1>16, <1>17,
             <2>2, <2>3, <2>4, <2>5, <2>6, WorkFrom
<1>18. ASSUME UNCHANGED <<task, recency>>
       PROVE  Kept /\ TasksOk' /\ Unused(task') = Unused(task)
  <2>1. TasksOk' /\ Unused(task') = Unused(task)
    BY <1>18, TasksStay
  <2> QED BY <1>2, <1>18, <2>1 DEF Kept
<1>19. CASE /\ found # 0 /\ UNCHANGED <<task, recency>>
            /\ blockers' = blockers \ stale
            /\ call' = [call EXCEPT ![c] = waiting]
  <2>1. t = found
    BY <1>19 DEF t
  <2>2. Refers(waiting, task', proposal')
    BY <1>4, <1>10, <1>19, <2>1 DEF Refers, OpenStatuses
  <2>3. BlockersOk'
    BY <1>19, BlockersStay
  <2>4. /\ blockers' \ blockers = {}
        /\ waiting.stage \notin {"deciding", "probing"}
    BY <1>10, <1>19
  <2> QED BY <1>10, <1>13, <1>14, <1>15, <1>16, <1>18, <1>19, <2>2, <2>3,
             <2>4, WorkFrom
<1>20. CASE /\ call' = [call EXCEPT ![c] = probing]
            /\ UNCHANGED <<task, recency, blockers>>
  <2>1. Refers(probing, task', proposal')
    BY <1>4, <1>11, <1>20 DEF Refers, OpenStatuses
  <2>2. Starts(probing, blockers')
    <3>1. \A b \in blockers : b.task # 0
      BY <1>3, ConstantsAssumption DEF TypeOK, BlockerRecords, Tasks
    <3>2. found # 0 => t = found
      BY DEF t
    <3> QED BY <1>8, <1>11, <1>20, <3>1, <3>2 DEF Starts
  <2>3. BlockersOk' /\ blockers' \ blockers = {}
    BY <1>20, BlockersStay
  <2> QED BY <1>2, <1>11, <1>12, <1>13, <1>14, <1>15, <1>18, <1>20, <2>1,
             <2>2, <2>3, WorkFrom
<1> QED BY <1>2, <1>17, <1>19, <1>20

(* A connection ends: its task is written and the request is done.         *)
LEMMA WorkEnd ==
  ASSUME WorkInv, NEW c \in Callers, NEW t \in Tasks, NEW r \in TaskRecords,
         SaveTask(t, r), r.status # "none", AboutOne(r),
         \/ task[t].status # "none" /\ r.targets = task[t].targets
         \/ task[t].status = "none" /\ c \in Creators,
         TasksOk' => BlockersOk',
         \A b \in blockers' \ blockers : b.type # NotStarted,
         call' = [call EXCEPT ![c] = NoCall],
         UNCHANGED <<present, proposal, decisions, candidate>>
  PROVE  WorkInv' /\ Kept
<1>1. /\ NoCall \in CallRecords
      /\ Refers(NoCall, task', proposal')
      /\ Starts(NoCall, blockers')
      /\ Allowed(NoCall, OperationsOf[c])
      /\ NoCall.stage \notin {"deciding", "probing"}
  BY NoCallIsFine
<1>2. /\ TasksOk'
      /\ Unused(task') = Unused(task) \ {t}
      /\ \A u \in Tasks : task[u].status # "none" =>
           task'[u].status # "none" /\ task'[u].targets = task[u].targets
  BY TaskWritten
<1>3. Kept
  BY <1>2 DEF Kept
<1>4. ProposalsOk'
  BY ProposalsStay
<1>5. /\ present' \subseteq Entities
      /\ decisions' \in [Proposals -> Seq(Decisions)]
      /\ candidate' \in [CandidateRefs -> 0 .. MaxProposals]
  BY DEF WorkInv, TypeOK
<1>6. \/ Unused(task') = Unused(task)
      \/ Unused(task') = Unused(task) \ {t} /\ c \in Creators
  <2>1. task[t].status # "none" => t \notin Unused(task)
    BY DEF Unused
  <2> QED BY <1>2, <2>1
<1> QED BY <1>1, <1>2, <1>3, <1>4, <1>5, <1>6, WorkFrom

(* A blocker of task t about device e, and those that stay, which do not   *)
(* say that t has not started, when t is blocked.                          *)
LEMMA BlockerAdded ==
  ASSUME WorkInv, TasksOk', NEW t \in Tasks, NEW e \in Entities,
         NEW type \in BlockerTypes \ {NotStarted},
         NEW open \in SUBSET blockers,
         blockers' = AddUnique(open, t, e, type),
         task'[t].status = "blocked", e \in task'[t].targets,
         task[t].status # "none" => task'[t].targets = task[t].targets,
         \A u \in Tasks \ {t} : task'[u] = task[u],
         \A b \in open : b.task = t => b.type # NotStarted
  PROVE  /\ BlockersOk'
         /\ \A b \in blockers' \ blockers : b.type # NotStarted
<1> DEFINE b0 == [type |-> type, subject |-> e, task |-> t]
<1>1. /\ b0 \in BlockerRecords
      /\ b0.type = type /\ b0.subject = e /\ b0.task = t
  BY DEF BlockerRecords
<1> HIDE DEF b0
<1>2. NamesTarget(b0, task')
  BY <1>1 DEF NamesTarget
<1>3. ASSUME NEW b \in open PROVE b \in BlockerRecords /\ NamesTarget(b, task')
  <2>1. b \in BlockerRecords /\ NamesTarget(b, task)
    BY DEF WorkInv, TypeOK
  <2>2. b.task \in Tasks
    BY <2>1 DEF BlockerRecords
  <2>3. CASE b.task = t
    BY <1>3, <2>1, <2>3 DEF NamesTarget
  <2>4. CASE b.task # t
    BY <2>1, <2>2, <2>4 DEF NamesTarget
  <2> QED BY <2>1, <2>3, <2>4
<1>4. blockers' \subseteq open \cup {b0}
  BY DEF AddUnique, b0
<1> QED BY <1>1, <1>2, <1>3, <1>4 DEF BlockersOk

(* The probe failed: a new task at the latest now, and a blocker for it.   *)
LEMMA WorkUnavailable ==
  ASSUME WorkInv, NEW c \in Callers, Unavailable(c)
  PROVE  WorkInv' /\ Kept
<1> DEFINE n == call[c].endpoint
           found == call[c].task
           t == IF found = 0 THEN NextTask ELSE found
           r == IF found = 0 THEN NewTask(n) ELSE task[t]
           new == [r EXCEPT !.status = "blocked",
                            !.phase = "waiting_for_peer_certificate"]
           open == blockers \ call[c].stale
<1>1. /\ call[c].stage = "probing"
      /\ SaveTask(t, new)
      /\ blockers' = AddUnique(open, t, Owner[n], NoCertificate)
      /\ call' = [call EXCEPT ![c] = NoCall]
      /\ UNCHANGED <<present, proposal, decisions, candidate>>
  BY DEF Unavailable
<1>2. /\ n \in Endpoints /\ Owner[n] \in Entities /\ c \in Creators
      /\ found # 0 => /\ found \in Tasks /\ task[found] \in TaskRecords
                      /\ task[found].status # "none"
                      /\ AboutOne(task[found])
                      /\ Owner[n] \in task[found].targets
  BY <1>1, CallFacts
<1>3. /\ NextTask \in Tasks
      /\ task[NextTask].status = "none"
  BY <1>2, NextIsThere
<1>4. /\ NewTask(n) \in TaskRecords
      /\ NewTask(n).status = "running"
      /\ Owner[n] \in NewTask(n).targets
      /\ AboutOne(NewTask(n))
  BY <1>2, NewTaskIsFine
<1> HIDE DEF n, found
<1>5. /\ t \in Tasks /\ r \in TaskRecords /\ r.status # "none"
      /\ AboutOne(r) /\ Owner[n] \in r.targets
      /\ \/ task[t].status # "none" /\ r.targets = task[t].targets
         \/ task[t].status = "none"
  BY <1>2, <1>3, <1>4
<1>6. \A b \in open : b.task = t => b.type # NotStarted
  <2>1. \A b \in blockers : NamesTarget(b, task)
    BY DEF WorkInv
  <2>2. Starts(call[c], blockers)
    BY DEF WorkInv
  <2>3. CASE found = 0
    <3>1. task[t].status = "none"
      BY <1>3, <2>3
    <3> HIDE DEF t
    <3> QED BY <2>1, <3>1 DEF NamesTarget
  <2>4. CASE found # 0
    BY <1>1, <2>2, <2>4 DEF Starts, found
  <2> QED BY <2>3, <2>4
<1> HIDE DEF t, r, open
<1>7. /\ new \in TaskRecords /\ new.status = "blocked"
      /\ new.targets = r.targets
  BY <1>5 DEF TaskRecords, TaskStatuses, Phases
<1> HIDE DEF new
<1>8. AboutOne(new)
  BY <1>5, <1>7 DEF AboutOne
<1>9. /\ task'[t] = new
      /\ \A u \in Tasks \ {t} : task'[u] = task[u]
  BY <1>1, <1>5, <1>7 DEF SaveTask, WorkInv, TypeOK
<1>10. NoCertificate \in BlockerTypes \ {NotStarted}
  BY DEF BlockerTypes, NoCertificate, NotStarted
<1>11. open \in SUBSET blockers
  BY DEF open
<1>12. /\ TasksOk' => BlockersOk'
       /\ TasksOk' => \A b \in blockers' \ blockers : b.type # NotStarted
  BY <1>1, <1>2, <1>5, <1>6, <1>7, <1>9, <1>10, <1>11, BlockerAdded
<1>13. TasksOk'
  BY <1>1, <1>5, <1>7, <1>8, TaskWritten
<1> QED BY <1>1, <1>2, <1>5, <1>7, <1>8, <1>12, <1>13, WorkEnd

(* A session that is not ready: its task is blocked, with a blocker about  *)
(* the device.                                                             *)
LEMMA WorkPending ==
  ASSUME WorkInv, NEW c \in Callers, NEW phase \in Phases,
         NEW type \in BlockerTypes \ {NotStarted}, Pending(c, phase, type)
  PROVE  WorkInv' /\ Kept
<1> DEFINE n == call[c].endpoint
           t == call[c].task
           new == [task[t] EXCEPT !.status = BlockedStatus(phase),
                                  !.phase = phase]
<1>1. /\ call[c].stage = "waiting"
      /\ SaveTask(t, new)
      /\ blockers' = AddUnique(blockers, t, Owner[n], type)
      /\ call' = [call EXCEPT ![c] = NoCall]
      /\ UNCHANGED <<present, proposal, decisions, candidate>>
  BY DEF Pending
<1>2. /\ Owner[n] \in Entities /\ t \in Tasks
      /\ task[t] \in TaskRecords
      /\ task[t].status # "none" /\ AboutOne(task[t])
      /\ Owner[n] \in task[t].targets
  BY <1>1, CallFacts
<1>3. \A b \in blockers : b.task = t => b.type # NotStarted
  <2>1. Starts(call[c], blockers)
    BY DEF WorkInv
  <2> QED BY <1>1, <2>1 DEF Starts
<1> HIDE DEF t, n
<1>4. /\ new \in TaskRecords /\ new.status = "blocked"
      /\ new.targets = task[t].targets
  BY <1>2 DEF BlockedStatus, TaskRecords, TaskStatuses
<1> HIDE DEF new
<1>5. AboutOne(new)
  BY <1>2, <1>4 DEF AboutOne
<1>6. /\ task'[t] = new
      /\ \A u \in Tasks \ {t} : task'[u] = task[u]
  BY <1>1, <1>2, <1>4 DEF SaveTask, WorkInv, TypeOK
<1>7. /\ TasksOk' => BlockersOk'
      /\ TasksOk' => \A b \in blockers' \ blockers : b.type # NotStarted
  BY <1>1, <1>2, <1>3, <1>4, <1>6, BlockerAdded
<1>8. TasksOk'
  BY <1>1, <1>2, <1>4, <1>5, TaskWritten
<1> QED BY <1>1, <1>2, <1>4, <1>5, <1>7, <1>8, WorkEnd

(* A ready session resolves every blocker of its task but one about the    *)
(* certificate: they are all about the device of its endpoint.             *)
LEMMA WorkReady ==
  ASSUME WorkInv, NEW c \in Callers, Ready(c)
  PROVE  WorkInv' /\ Kept
<1> DEFINE t == call[c].task
           e == Owner[call[c].endpoint]
           new == [task[t] EXCEPT !.status = "in_progress",
                                  !.phase = "ship_ready"]
<1>1. /\ call[c].stage = "waiting"
      /\ \/ /\ SaveTask(t, new)
            /\ blockers' = {b \in blockers :
                 ~(b.type \in Resolvable /\ b.subject = e /\ b.task = t)}
         \/ UNCHANGED <<task, recency, blockers>>
      /\ call' = [call EXCEPT ![c] = NoCall]
      /\ UNCHANGED <<present, proposal, decisions, candidate>>
  BY DEF Ready
<1>2. /\ e \in Entities /\ t \in Tasks
      /\ task[t] \in TaskRecords
      /\ task[t].status # "none" /\ AboutOne(task[t])
      /\ e \in task[t].targets
  BY <1>1, CallFacts
<1>3. Starts(call[c], blockers) /\ \A b \in blockers : NamesTarget(b, task)
  BY DEF WorkInv
<1>4. blockers \subseteq BlockerRecords
  BY DEF WorkInv, TypeOK
<1>5. \A b \in blockers : b.task = t =>
        \/ b.type = NoCertificate
        \/ b.type \in Resolvable /\ b.subject = e
  <2> SUFFICES ASSUME NEW b \in blockers, b.task = t,
                      b.type # NoCertificate
               PROVE  b.type \in Resolvable /\ b.subject = e
    OBVIOUS
  <2>1. b.type # NotStarted
    BY <1>1, <1>3 DEF Starts
  <2>2. b.type \in Resolvable
    BY <1>4, <2>1 DEF BlockerRecords, BlockerTypes, Resolvable
  <2>3. b.subject \in task[t].targets /\ b.subject \in Entities
    BY <1>3, <2>1 DEF NamesTarget
  <2>4. b.subject = e
    <3> HIDE DEF t, e
    <3> QED BY <1>2, <2>3, OwnerIsTarget
  <2> QED BY <2>2, <2>4
<1>6. CASE UNCHANGED <<task, recency, blockers>>
  <2>1. /\ NoCall \in CallRecords
        /\ Refers(NoCall, task', proposal')
        /\ Starts(NoCall, blockers')
        /\ Allowed(NoCall, OperationsOf[c])
        /\ NoCall.stage \notin {"deciding", "probing"}
    BY NoCallIsFine
  <2>2. Kept
    BY <1>1, <1>6 DEF Kept
  <2>3. TasksOk' /\ Unused(task') = Unused(task)
    BY <1>6, TasksStay
  <2>4. ProposalsOk' /\ BlockersOk' /\ blockers' \ blockers = {}
    BY <1>1, <1>6, ProposalsStay, BlockersStay
  <2>5. /\ present' \subseteq Entities
        /\ decisions' \in [Proposals -> Seq(Decisions)]
        /\ candidate' \in [CandidateRefs -> 0 .. MaxProposals]
    BY <1>1 DEF WorkInv, TypeOK
  <2> QED BY <1>1, <2>1, <2>2, <2>3, <2>4, <2>5, WorkFrom
<1>7. CASE /\ SaveTask(t, new)
           /\ blockers' = {b \in blockers :
                ~(b.type \in Resolvable /\ b.subject = e /\ b.task = t)}
  <2>1. /\ new \in TaskRecords /\ new.status = "in_progress"
        /\ new.targets = task[t].targets
    <3> HIDE DEF t
    <3> QED BY <1>2 DEF TaskRecords, TaskStatuses, Phases
  <2> HIDE DEF new, t, e
  <2>2. AboutOne(new)
    BY <1>2, <2>1 DEF AboutOne
  <2>3. /\ task'[t] = new
        /\ \A u \in Tasks \ {t} : task'[u] = task[u]
    BY <1>2, <1>7, <2>1 DEF SaveTask, WorkInv, TypeOK
  <2>4. \A b \in blockers' :
          /\ b.task \in Tasks
          /\ b.task = t => b.type = NoCertificate
    BY <1>4, <1>5, <1>7 DEF BlockerRecords
  <2>5. BlockersOk' /\ blockers' \ blockers = {}
    BY <1>7, <2>1, <2>3, <2>4, BlockersStay
  <2> QED BY <1>1, <1>2, <1>7, <2>1, <2>2, <2>5, WorkEnd
<1> QED BY <1>1, <1>6, <1>7

(* What a removal does to the order of the updates.                        *)
LEMMA RecencyRemove ==
  ASSUME RecencyOrders, NEW ended \in SUBSET Stored, Stored' = Stored,
         recency' = {p \in recency : p[1] \in ended \/ p[2] \notin ended}
                      \cup (ended \X (Stored \ ended))
  PROVE  RecencyOrders'
<1>1. recency \subseteq Stored \X Stored
  BY DEF RecencyOrders
<1>2. \A u, v \in Stored : <<u, v>> \in recency' <=>
        \/ <<u, v>> \in recency /\ (u \in ended \/ v \notin ended)
        \/ u \in ended /\ v \notin ended
  OBVIOUS
<1>3. recency' \subseteq Stored \X Stored
  BY <1>1
<1>4. /\ \A u, v \in Stored :
           u # v => (<<u, v>> \in recency' <=> <<v, u>> \notin recency')
      /\ \A u, v, w \in Stored :
           <<u, v>> \in recency' /\ <<v, w>> \in recency' =>
             <<u, w>> \in recency'
      /\ \A u \in Stored : <<u, u>> \notin recency'
  BY <1>2 DEF RecencyOrders
<1> QED BY <1>3, <1>4 DEF RecencyOrders

(* What the removal of device e does, which ends these tasks.              *)
Removes(e, ended) ==
  /\ present' = present \ {e}
  /\ ended = {t \in Tasks : task[t].targets \cap Affected(e) # {}}
  /\ task' \in [Tasks -> TaskRecords]
  /\ \A t \in Tasks :
       /\ task'[t].targets = task[t].targets
       /\ t \notin ended => task'[t] = task[t]
       /\ task[t].status \in EndedStatuses => task'[t] = task[t]
       /\ t \in ended /\ task[t].status \notin EndedStatuses =>
            task'[t].status = "cancelled"
  /\ RecencyOrders'
  /\ Unused(task') = Unused(task)
  /\ blockers' =
       {b \in blockers : b.subject \notin Affected(e) /\ b.task \notin ended}
  /\ proposal' \in [Proposals -> ProposalRecords]
  /\ \A p \in Proposals :
       /\ proposal'[p].ref = proposal[p].ref
       /\ proposal'[p].endpoint = proposal[p].endpoint
       /\ \/ proposal'[p].status = proposal[p].status
          \/ /\ proposal[p].status = "awaiting_user_decision"
             /\ proposal'[p].status = "cancelled"
       /\ proposal[p].ref[1] = e =>
            proposal'[p].status # "awaiting_user_decision"
  /\ UNCHANGED <<decisions, candidate, call>>

(* RemoveDevice does what Removes says.                                    *)
LEMMA RemovalEffect ==
  ASSUME WorkInv, NEW c \in Callers, RemoveDevice(c)
  PROVE  /\ Begin(c, "remove")
         /\ \E e \in present, ended \in SUBSET Stored : Removes(e, ended)
<1>1. PICK e \in present :
        LET ended == {t \in Tasks : task[t].targets \cap Affected(e) # {}} IN
        /\ Begin(c, "remove")
        /\ present' = present \ {e}
        /\ task' = [t \in Tasks |->
             IF t \in ended /\ task[t].status \notin EndedStatuses
             THEN [task[t] EXCEPT !.status = "cancelled"] ELSE task[t]]
        /\ recency' = {p \in recency : p[1] \in ended \/ p[2] \notin ended}
                        \cup (ended \X (Stored \ ended))
        /\ blockers' =
             {b \in blockers : ~ResolvedByRemoval(b, Affected(e), ended)}
        /\ proposal' = [p \in Proposals |->
             IF /\ {proposal[p].ref[1], proposal[p].endpoint} \cap Affected(e)
                     # {}
                /\ proposal[p].status = "awaiting_user_decision"
             THEN [proposal[p] EXCEPT !.status = "cancelled"]
             ELSE proposal[p]]
        /\ UNCHANGED <<decisions, candidate, call>>
  BY Zenon DEF RemoveDevice
<1> DEFINE ended == {t \in Tasks : task[t].targets \cap Affected(e) # {}}
<1>2. TypeOK
  BY DEF WorkInv
<1>3. ASSUME NEW t \in Tasks
      PROVE  /\ task'[t] \in TaskRecords
             /\ task'[t].targets = task[t].targets
             /\ t \notin ended => task'[t] = task[t]
             /\ task[t].status \in EndedStatuses => task'[t] = task[t]
             /\ t \in ended /\ task[t].status \notin EndedStatuses =>
                  task'[t].status = "cancelled"
  <2>1. task'[t] = IF t \in ended /\ task[t].status \notin EndedStatuses
                   THEN [task[t] EXCEPT !.status = "cancelled"] ELSE task[t]
    BY <1>1
  <2>2. task[t] \in TaskRecords
    BY <1>2 DEF TypeOK
  <2> HIDE DEF ended
  <2> QED BY <2>1, <2>2 DEF TaskRecords, TaskStatuses
<1>4. DOMAIN task' = Tasks /\ task' = [t \in Tasks |-> task'[t]]
  BY <1>1
<1>5. task' \in [Tasks -> TaskRecords]
  <2> HIDE DEF ended
  <2> QED BY <1>3, <1>4
<1>6. \A t \in Tasks : task'[t].status = "none" <=> task[t].status = "none"
  BY <1>3 DEF EndedStatuses
<1>7. Unused(task') = Unused(task)
  BY <1>2, <1>4, <1>6 DEF Unused, TypeOK
<1>8. ended \in SUBSET Stored
  <2>1. \A t \in Tasks : task[t].status = "none" => task[t].targets = {}
    BY DEF WorkInv, AboutOne
  <2> QED BY <2>1 DEF Stored, Unused
<1>9. RecencyOrders'
  <2>1. Stored' = Stored
    BY <1>7 DEF Stored
  <2>2. recency' = {p \in recency : p[1] \in ended \/ p[2] \notin ended}
                     \cup (ended \X (Stored \ ended))
    BY <1>1
  <2>3. RecencyOrders
    BY <1>2 DEF TypeOK
  <2> HIDE DEF ended
  <2> QED BY <1>8, <2>1, <2>2, <2>3, RecencyRemove
<1>10. blockers' =
         {b \in blockers : b.subject \notin Affected(e) /\ b.task \notin ended}
  BY <1>1 DEF ResolvedByRemoval
<1>11. ASSUME NEW p \in Proposals
       PROVE  /\ proposal'[p] \in ProposalRecords
              /\ proposal'[p].ref = proposal[p].ref
              /\ proposal'[p].endpoint = proposal[p].endpoint
              /\ \/ proposal'[p].status = proposal[p].status
                 \/ /\ proposal[p].status = "awaiting_user_decision"
                    /\ proposal'[p].status = "cancelled"
              /\ proposal[p].ref[1] = e =>
                   proposal'[p].status # "awaiting_user_decision"
  <2>1. proposal'[p] =
          IF /\ {proposal[p].ref[1], proposal[p].endpoint} \cap Affected(e)
                  # {}
             /\ proposal[p].status = "awaiting_user_decision"
          THEN [proposal[p] EXCEPT !.status = "cancelled"]
          ELSE proposal[p]
    BY <1>1
  <2>2. proposal[p] \in ProposalRecords
    BY <1>2 DEF TypeOK
  <2>3. proposal[p].ref[1] = e =>
          {proposal[p].ref[1], proposal[p].endpoint} \cap Affected(e) # {}
    BY DEF Affected
  <2> QED BY <2>1, <2>2, <2>3
          DEF ProposalRecords, ProposalStatuses, RequestStatus
<1>12. proposal' = [p \in Proposals |-> proposal'[p]]
  BY <1>1
<1>13. proposal' \in [Proposals -> ProposalRecords]
  BY <1>11, <1>12
<1>14. /\ Begin(c, "remove") /\ present' = present \ {e}
       /\ UNCHANGED <<decisions, candidate, call>>
  BY <1>1
<1>15. ended = {t \in Tasks : task[t].targets \cap Affected(e) # {}}
  OBVIOUS
<1> HIDE DEF ended
<1>16. Removes(e, ended)
  BY <1>3, <1>5, <1>7, <1>9, <1>10, <1>11, <1>13, <1>14, <1>15 DEF Removes
<1> QED BY <1>8, <1>14, <1>16

(* A removal ends tasks and cancels proposals, and drops blockers.         *)
LEMMA WorkRemove ==
  ASSUME WorkInv, NEW c \in Callers, RemoveDevice(c)
  PROVE  WorkInv' /\ Kept
<1>1. PICK e \in present, ended \in SUBSET Stored : Removes(e, ended)
  BY RemovalEffect
<1>2. TypeOK
  BY DEF WorkInv
<1>3. \A t \in Tasks :
        /\ task'[t].targets = task[t].targets
        /\ task'[t].status = "none" <=> task[t].status = "none"
  BY <1>1 DEF Removes, EndedStatuses
<1>4. TasksOk' /\ Unused(task') = Unused(task)
  <2>1. \A t \in Tasks : AboutOne(task'[t])
    BY <1>3 DEF WorkInv, AboutOne
  <2> QED BY <1>1, <2>1 DEF Removes, TasksOk
<1>5. ProposalsOk'
  <2>1. \A p \in Proposals :
          /\ proposal'[p].ref = proposal[p].ref
          /\ proposal'[p].endpoint = proposal[p].endpoint
          /\ proposal'[p].status # "none" => proposal[p].status # "none"
    BY <1>1 DEF Removes
  <2>2. \A p \in Proposals : OwnEndpoint(proposal[p])
    BY DEF WorkInv
  <2>3. \A p \in Proposals : OwnEndpoint(proposal'[p])
    BY <2>1, <2>2 DEF OwnEndpoint
  <2> QED BY <1>1, <2>3 DEF Removes, ProposalsOk
<1>6. BlockersOk' /\ blockers' \ blockers = {}
  <2>1. \A b \in blockers : b.task \in Tasks
    BY <1>2 DEF TypeOK, BlockerRecords
  <2>2. blockers' \subseteq blockers
        /\ \A b \in blockers' : task'[b.task] = task[b.task]
    BY <1>1, <2>1 DEF Removes
  <2> QED BY <2>2, BlockersStay
<1>7. Kept
  BY <1>1, <1>3 DEF Kept, Removes
<1>8. /\ call[c] \in CallRecords
      /\ call' = [call EXCEPT ![c] = call[c]]
      /\ Refers(call[c], task', proposal')
      /\ Starts(call[c], blockers')
      /\ Allowed(call[c], OperationsOf[c])
  <2>1. /\ call[c] \in CallRecords
        /\ Refers(call[c], task, proposal)
        /\ Starts(call[c], blockers)
        /\ Allowed(call[c], OperationsOf[c])
    BY <1>2 DEF WorkInv, TypeOK
  <2>2. Refers(call[c], task', proposal')
    BY <1>7, <2>1, RefersStill
  <2>3. Starts(call[c], blockers')
    BY <1>6, <2>1 DEF Starts
  <2>4. call' = call
    BY <1>1 DEF Removes
  <2> QED BY <1>2, <2>1, <2>2, <2>3, <2>4 DEF TypeOK
<1>9. call[c].stage \in {"deciding", "probing"} => c \in Creators
  BY DEF Creators
<1>10. /\ present' \subseteq Entities
       /\ decisions' \in [Proposals -> Seq(Decisions)]
       /\ candidate' \in [CandidateRefs -> 0 .. MaxProposals]
  BY <1>1, <1>2 DEF Removes, TypeOK
<1> QED BY <1>4, <1>5, <1>6, <1>7, <1>8, <1>9, <1>10, WorkFrom

(* A step that leaves the rows and the requests as they are.               *)
LEMMA WorkElsewhere ==
  ASSUME WorkInv, present' \subseteq Entities,
         UNCHANGED <<proposal, decisions, candidate, task, recency, blockers,
                     call>>
  PROVE  WorkInv' /\ Kept
<1>1. TasksOk' /\ Unused(task') = Unused(task)
  BY TasksStay
<1>2. Creators' = Creators
  BY DEF Creators
<1>3. TypeOK'
  BY <1>1 DEF WorkInv, TypeOK, TasksOk
<1>4. Cardinality(Unused(task')) >= Cardinality(Creators')
  BY <1>1, <1>2 DEF WorkInv
<1> QED BY <1>3, <1>4 DEF WorkInv, Kept

(* At first nothing is stored and nobody is at work.                       *)
LEMMA WorkInit == Init => WorkInv
<1> SUFFICES ASSUME Init PROVE WorkInv
  OBVIOUS
<1>1. /\ task = [t \in Tasks |-> NoTask] /\ recency = {} /\ blockers = {}
      /\ call = [c \in Callers |-> NoCall]
      /\ proposal = [p \in Proposals |-> NoProposal]
  BY DEF Init
<1>2. \A c \in Callers : call[c] = NoCall
  BY <1>1
<1>3. NoTask \in TaskRecords /\ NoTask.status = "none" /\ AboutOne(NoTask)
  BY DEF NoTask, TaskRecords, TaskStatuses, Phases, AboutOne
<1>4. Stored = {}
  BY <1>1, <1>3 DEF Stored, Unused
<1>5. RecencyOrders
  BY <1>1, <1>4 DEF RecencyOrders
<1>6. NoProposal \in ProposalRecords /\ NoProposal.status = "none"
  BY NoProposalType DEF NoProposal
<1>7. \A c \in Callers :
        /\ call[c] \in CallRecords
        /\ Refers(call[c], task, proposal)
        /\ Starts(call[c], blockers)
        /\ Allowed(call[c], OperationsOf[c])
        /\ call[c].stage \notin {"deciding", "probing"}
  BY <1>2, NoCallIsFine
<1>8. TypeOK
  <2>1. call \in [Callers -> CallRecords]
    BY <1>1, NoCallIsFine
  <2>2. /\ task \in [Tasks -> TaskRecords]
        /\ proposal \in [Proposals -> ProposalRecords]
    BY <1>1, <1>3, <1>6
  <2>3. /\ present \subseteq Entities
        /\ decisions \in [Proposals -> Seq(Decisions)]
        /\ candidate \in [CandidateRefs -> 0 .. MaxProposals]
        /\ blockers \subseteq BlockerRecords
    BY ConstantsAssumption DEF Init
  <2> QED BY <1>5, <2>1, <2>2, <2>3 DEF TypeOK
<1>9. Cardinality(Unused(task)) >= Cardinality(Creators)
  <2>1. Creators = {}
    BY <1>7 DEF Creators
  <2>2. Unused(task) \subseteq Tasks
    BY <1>1 DEF Unused
  <2>3. IsFiniteSet(Tasks)
    BY FS_Interval, ConstantsAssumption DEF Tasks
  <2>4. Cardinality(Unused(task)) \in Nat
    BY <2>2, <2>3, FS_Subset, FS_CardinalityType
  <2> QED BY <2>1, <2>4, FS_EmptySet
<1>10. \A p \in Proposals : OwnEndpoint(proposal[p])
  BY <1>1, <1>6 DEF OwnEndpoint
<1> QED BY <1>1, <1>3, <1>7, <1>8, <1>9, <1>10 DEF WorkInv

(* Every step keeps WorkInv, and the rows in use.                          *)
LEMMA WorkStep == WorkInv /\ [Next]_vars => WorkInv' /\ Kept
<1> SUFFICES ASSUME WorkInv, [Next]_vars PROVE WorkInv' /\ Kept
  OBVIOUS
<1>1. ASSUME NEW c \in Callers,
             Prepare(c) \/ Decide(c) \/ Commit(c) \/ Establish(c)
      PROVE  WorkInv' /\ Kept
  BY <1>1, WorkPrepare, WorkDecide, WorkCommit, WorkEstablish
<1>2. ASSUME NEW c \in Callers,
             Unavailable(c) \/ Ready(c) \/ RemoveDevice(c)
      PROVE  WorkInv' /\ Kept
  BY <1>2, WorkUnavailable, WorkReady, WorkRemove
<1>3. ASSUME NEW c \in Callers, Rejected(c) \/ Failed(c) \/ NotReady(c)
      PROVE  WorkInv' /\ Kept
  <2>1. PICK phase \in Phases, type \in BlockerTypes \ {NotStarted} :
          Pending(c, phase, type)
    <3>1. \/ Pending(c, "waiting_for_user_trust", "eebus_peer_trust_required")
          \/ Pending(c, "ship_failed", "eebus_ship_runtime_failed")
          \/ Pending(c, "waiting_for_ship_session",
                     "eebus_peer_connection_pending")
      BY <1>3 DEF Rejected, Failed, NotReady
    <3>2. /\ ConnectionBlockers \subseteq BlockerTypes \ {NotStarted}
          /\ {"waiting_for_user_trust", "ship_failed",
              "waiting_for_ship_session"} \subseteq Phases
      BY DEF ConnectionBlockers, BlockerTypes, NotStarted, Phases
    <3> QED BY <3>1, <3>2 DEF ConnectionBlockers
  <2> QED BY <2>1, WorkPending
<1>4. ASSUME NEW e \in Entities, Rediscover(e) PROVE WorkInv' /\ Kept
  <2>1. present \subseteq Entities
    BY DEF WorkInv, TypeOK
  <2> QED BY <1>4, <2>1, WorkElsewhere DEF Rediscover
<1>5. CASE UNCHANGED vars
  <2>1. present' \subseteq Entities
    BY <1>5 DEF WorkInv, TypeOK, vars
  <2> QED BY <1>5, <2>1, WorkElsewhere DEF vars
<1> QED BY <1>1, <1>2, <1>3, <1>4, <1>5 DEF Next

(* Commissioning keeps WorkInv, however requests overlap.                  *)
THEOREM WorkInvariant == Spec => []WorkInv
BY WorkInit, WorkStep, PTL DEF Spec

(* Every variable keeps its type, and the tasks in use keep one order of   *)
(* their updates.                                                          *)
THEOREM TypeCorrect == Spec => []TypeOK
<1>1. WorkInv => TypeOK
  BY DEF WorkInv
<1> QED BY <1>1, WorkInvariant, PTL

(* A task whose session became ready has no open blocker but one about the *)
(* certificate: whoever worked on the task, or on another one for the same *)
(* device, the resolution by type, subject and task misses nothing.        *)
THEOREM ReadyHasNoBlockers == Spec => []ReadyIsUnblocked
<1>1. WorkInv => ReadyIsUnblocked
  BY DEF WorkInv, NamesTarget, ReadyIsUnblocked
<1> QED BY <1>1, WorkInvariant, PTL

-----------------------------------------------------------------------------
(* One request decides at a time: blockers are recorded once               *)

(* A blocker that is not yet there replaces the one of its kind.           *)
LEMMA AddUniqueKeeps ==
  ASSUME NEW open,
         \A a, b \in open : a.type = b.type /\ a.subject = b.subject => a = b,
         NEW t, NEW e, NEW type
  PROVE  \A a, b \in AddUnique(open, t, e, type) :
           a.type = b.type /\ a.subject = b.subject => a = b
<1> DEFINE b0 == [type |-> type, subject |-> e, task |-> t]
           rest == {b \in open : ~SameBlocker(b, t, e, type)}
<1>1. AddUnique(open, t, e, type) = rest \cup {b0}
  BY DEF AddUnique
<1>2. b0.type = type /\ b0.subject = e
  OBVIOUS
<1>3. \A b \in rest : b \in open /\ ~(b.type = type /\ b.subject = e)
  BY DEF SameBlocker
<1> HIDE DEF b0, rest
<1> QED BY <1>1, <1>2, <1>3

(* Steps of the connection workflow: what they do to the blockers.         *)
LEMMA ConnectionBlocks ==
  ASSUME BlockersAreUnique, NEW c \in Callers,
         \/ Establish(c) \/ Unavailable(c) \/ Ready(c)
         \/ Rejected(c) \/ Failed(c) \/ NotReady(c)
  PROVE  /\ BlockersAreUnique'
         /\ \A b \in blockers' : b.type = NotStarted => b \in blockers
<1>1. ASSUME NEW open \in SUBSET blockers, NEW t, NEW e,
             NEW type, type # NotStarted,
             blockers' = AddUnique(open, t, e, type)
      PROVE  /\ BlockersAreUnique'
             /\ \A b \in blockers' : b.type = NotStarted => b \in blockers
  <2>1. \A a, b \in open : a.type = b.type /\ a.subject = b.subject => a = b
    BY DEF BlockersAreUnique
  <2>2. \A a, b \in AddUnique(open, t, e, type) :
          a.type = b.type /\ a.subject = b.subject => a = b
    BY <2>1, AddUniqueKeeps
  <2> QED BY <1>1, <2>2 DEF BlockersAreUnique, AddUnique
<1>2. ASSUME blockers' \subseteq blockers
      PROVE  /\ BlockersAreUnique'
             /\ \A b \in blockers' : b.type = NotStarted => b \in blockers
  BY <1>2 DEF BlockersAreUnique
<1>3. CASE Establish(c)
  <2>1. blockers' \subseteq blockers
    <3>1. \E x : blockers' = blockers \ x \/ blockers' = blockers
      BY <1>3, Zenon DEF Establish
    <3> QED BY <3>1
  <2> QED BY <1>2, <2>1
<1>4. CASE Unavailable(c)
  <2>1. \E t : blockers' = AddUnique(blockers \ call[c].stale, t,
                                     Owner[call[c].endpoint], NoCertificate)
    BY <1>4, Zenon DEF Unavailable
  <2>2. NoCertificate # NotStarted
    BY DEF NoCertificate, NotStarted
  <2> QED BY <1>1, <2>1, <2>2
<1>5. CASE Ready(c)
  <2>1. blockers' \subseteq blockers
    BY <1>5 DEF Ready
  <2> QED BY <1>2, <2>1
<1>6. CASE Rejected(c) \/ Failed(c) \/ NotReady(c)
  <2>1. \E t, e, type : /\ type # NotStarted
                        /\ blockers' = AddUnique(blockers, t, e, type)
    BY <1>6 DEF Rejected, Failed, NotReady, Pending, NotStarted
  <2> QED BY <1>1, <2>1
<1> QED BY <1>3, <1>4, <1>5, <1>6

(* A step that adds no blocker of a new task, and starts no decision.      *)
LEMMA BlockersNoMore ==
  ASSUME BlockerInv, WorkInv', Kept, BlockersAreUnique',
         \A b \in blockers' : b.type = NotStarted => b \in blockers,
         \A d \in Callers : \/ call'[d] = call[d]
                            \/ call'[d].stage # "deciding"
  PROVE  BlockerInv'
<1>1. ASSUME NEW d \in Callers, call'[d].stage = "deciding",
             call'[d].task = 0, NEW b \in blockers', b.type = NotStarted
      PROVE  b.subject # proposal'[call'[d].proposal].ref
  <2>1. call'[d] = call[d] /\ b \in blockers
    BY <1>1
  <2>2. b.subject # proposal[call[d].proposal].ref
    BY <1>1, <2>1 DEF BlockerInv
  <2>3. /\ call[d].proposal \in Proposals
        /\ proposal[call[d].proposal].status # "none"
    BY <1>1, <2>1, CallFacts DEF BlockerInv
  <2> QED BY <2>1, <2>2, <2>3 DEF Kept
<1> QED BY <1>1 DEF BlockerInv

(* A candidate without an open task has no blocker that says its workflow  *)
(* has not started.                                                        *)
LEMMA BlockersDecide ==
  ASSUME BlockerInv, WorkInv', NEW c \in Callers, Decide(c)
  PROVE  BlockerInv'
<1>1. PICK p \in Proposals, decision \in Decisions :
        /\ call' = [call EXCEPT ![c] =
             [NoCall EXCEPT !.stage = "deciding", !.proposal = p,
                !.decision = decision,
                !.existing = candidate[proposal[p].ref] # 0,
                !.task = FindOpenTask(proposal[p].ref)]]
        /\ UNCHANGED <<proposal, task, blockers>>
  BY DEF Decide
<1> DEFINE ref == proposal[p].ref
<1>2. TypeOK
  BY DEF BlockerInv, WorkInv
<1>3. /\ call'[c].proposal = p /\ call'[c].task = FindOpenTask(ref)
      /\ \A d \in Callers \ {c} : call'[d] = call[d]
  BY <1>1, <1>2 DEF TypeOK, NoCall
<1>4. ASSUME FindOpenTask(ref) = 0, NEW b \in blockers, b.type = NotStarted
      PROVE  b.subject # ref
  <2>1. \A t \in Tasks : ~(task[t].status \in OpenStatuses
                             /\ ref \in task[t].targets)
    <3>1. task \in [Tasks -> TaskRecords]
      BY <1>2 DEF TypeOK
    <3> HIDE DEF ref
    <3> QED BY <1>4, <3>1, FoundIsOpen
  <2>2. b.task \in Tasks /\ NamesTarget(b, task)
    BY <1>2 DEF TypeOK, BlockerRecords, BlockerInv, WorkInv
  <2> QED BY <1>4, <2>1, <2>2 DEF NamesTarget, OpenStatuses
<1> QED BY <1>1, <1>3, <1>4 DEF BlockerInv, BlockersAreUnique

(* Nobody else decides while the blocker of a new task is added.           *)
LEMMA BlockersCommit ==
  ASSUME OneDecides, BlockerInv, WorkInv', Kept, NEW c \in Callers, Commit(c)
  PROVE  BlockerInv'
<1> DEFINE p == call[c].proposal
           b0 == [type |-> NotStarted, subject |-> proposal[p].ref,
                  task |-> NextTask]
<1>1. /\ call[c].stage = "deciding"
      /\ call' = [call EXCEPT ![c] = NoCall]
      /\ \/ UNCHANGED blockers
         \/ call[c].task = 0 /\ blockers' = blockers \cup {b0}
  BY DEF Commit, Materialize
<1>2. \A d \in Callers : call'[d].stage # "deciding"
  <2>1. call \in [Callers -> CallRecords]
    BY DEF BlockerInv, WorkInv, TypeOK
  <2>2. \A d \in Callers : call[d].stage = "deciding" => d = c
    BY <1>1 DEF BlockerInv, WorkInv, Allowed, OneDecides
  <2> QED BY <1>1, <2>1, <2>2 DEF NoCall
<1>3. BlockersAreUnique'
  <2>1. CASE UNCHANGED blockers
    BY <2>1 DEF BlockerInv, BlockersAreUnique
  <2>2. CASE call[c].task = 0 /\ blockers' = blockers \cup {b0}
    <3>1. b0.type = NotStarted /\ b0.subject = proposal[p].ref
      OBVIOUS
    <3>2. \A b \in blockers : ~(b.type = NotStarted
                                  /\ b.subject = proposal[p].ref)
      BY <1>1, <2>2 DEF BlockerInv
    <3> HIDE DEF b0, p
    <3> QED BY <2>2, <3>1, <3>2 DEF BlockerInv, BlockersAreUnique
  <2> QED BY <1>1, <2>1, <2>2
<1> QED BY <1>2, <1>3 DEF BlockerInv

(* Every step keeps BlockerInv.                                            *)
LEMMA BlockersStep ==
  ASSUME OneDecides, BlockerInv, [Next]_vars
  PROVE  BlockerInv'
<1>1. WorkInv' /\ Kept
  BY WorkStep DEF BlockerInv
<1>2. BlockersAreUnique /\ DOMAIN call = Callers
  BY DEF BlockerInv, WorkInv, TypeOK
<1>3. ASSUME blockers' \subseteq blockers, UNCHANGED call
      PROVE  BlockerInv'
  <2>1. BlockersAreUnique'
    BY <1>2, <1>3 DEF BlockersAreUnique
  <2> QED BY <1>1, <1>3, <2>1, BlockersNoMore
<1>4. ASSUME NEW c \in Callers, Decide(c) \/ Commit(c)
      PROVE  BlockerInv'
  BY <1>1, <1>4, BlockersDecide, BlockersCommit
<1>5. ASSUME NEW c \in Callers,
             \/ Establish(c) \/ Unavailable(c) \/ Ready(c)
             \/ Rejected(c) \/ Failed(c) \/ NotReady(c)
      PROVE  BlockerInv'
  <2>1. /\ BlockersAreUnique'
        /\ \A b \in blockers' : b.type = NotStarted => b \in blockers
    BY <1>2, <1>5, ConnectionBlocks
  <2>2. \A d \in Callers : \/ call'[d] = call[d]
                           \/ call'[d].stage # "deciding"
    BY <1>2, <1>5, ConnectionDecidesNothing
  <2> QED BY <1>1, <2>1, <2>2, BlockersNoMore
<1>6. ASSUME NEW c \in Callers, Prepare(c) \/ RemoveDevice(c)
      PROVE  BlockerInv'
  <2>1. blockers' \subseteq blockers /\ UNCHANGED call
    BY <1>6 DEF Prepare, RemoveDevice
  <2> QED BY <1>3, <2>1
<1>7. ASSUME NEW e \in Entities, Rediscover(e) PROVE BlockerInv'
  BY <1>3, <1>7 DEF Rediscover
<1>8. CASE UNCHANGED vars
  BY <1>3, <1>8 DEF vars
<1> QED BY <1>4, <1>5, <1>6, <1>7, <1>8 DEF Next

(* What is in the way of a device is recorded once, as long as one request *)
(* decides at a time: two that decide on a candidate accepted before, whose *)
(* task is open no more, would both record that its workflow has not       *)
(* started.                                                                *)
THEOREM BlockersRecordedOnce ==
  ASSUME OneDecides PROVE Spec => []BlockersAreUnique
<1>1. Init => BlockerInv
  <2>1. Init => blockers = {} /\ \A c \in Callers : call[c].stage = "idle"
    BY DEF Init, NoCall
  <2> QED BY <2>1, WorkInit DEF BlockerInv, BlockersAreUnique
<1>2. BlockerInv /\ [Next]_vars => BlockerInv'
  BY BlockersStep
<1>3. BlockerInv => BlockersAreUnique
  BY DEF BlockerInv
<1> QED BY <1>1, <1>2, <1>3, PTL DEF Spec

-----------------------------------------------------------------------------
(* Removals run alone: nothing of a removed device is left                 *)

(* Things that are about a device are about no other.                      *)
LEMMA AboutDisjoint ==
  ASSUME NEW d \in Entities, NEW e \in Entities, About(d) \cap About(e) # {}
  PROVE  d = e
BY RefsDiffer DEF About, Affected

(* A task with a target about a device has the device as a target, and all *)
(* its targets are about the device.                                       *)
LEMMA TaskAbout ==
  ASSUME NEW r, AboutOne(r), NEW e \in Entities, r.targets \cap About(e) # {}
  PROVE  r.status # "none" /\ e \in r.targets /\ r.targets \subseteq About(e)
<1>1. r.status # "none"
  BY DEF AboutOne
<1>2. PICK d \in Entities : d \in r.targets /\ r.targets \subseteq About(d)
  BY <1>1 DEF AboutOne
<1>3. d = e
  BY <1>2, AboutDisjoint
<1> QED BY <1>1, <1>2, <1>3

(* The device a request is at work on.                                     *)
WorksOn(r, e, made) ==
  /\ r.stage = "deciding" => made[r.proposal].ref[1] = e
  /\ r.stage \in {"probing", "waiting"} => Owner[r.endpoint] = e

(* A step that removes nothing, and writes rows about one device that is   *)
(* present.                                                                *)
WritesAbout(c, e) ==
  /\ \A t \in Tasks : \/ task'[t] = task[t]
                      \/ task'[t].targets \cap About(e) # {}
  /\ \A b \in blockers' : b \in blockers \/ b.subject \in About(e)
  /\ \A p \in Proposals :
       \/ proposal'[p] = proposal[p]
       \/ proposal'[p].status # "awaiting_user_decision"
       \/ proposal'[p].ref[1] = e
  /\ \A d \in Callers \ {c} : call'[d] = call[d]
  /\ WorksOn(call'[c], e, proposal')

(* A step that writes only about a device that is present leaves the       *)
(* removed ones alone.                                                     *)
LEMMA RemovalFrom ==
  ASSUME RemovalInv, WorkInv', Kept, UNCHANGED present,
         NEW c \in Callers, NEW e \in present, WritesAbout(c, e)
  PROVE  RemovalInv'
<1>1. TypeOK /\ TypeOK' /\ WorkInv
  BY DEF RemovalInv, WorkInv
<1>2. e \in Entities
  BY <1>1 DEF TypeOK
<1>3. ASSUME NEW d \in Entities \ present'
      PROVE  /\ \A t \in Tasks : task'[t].targets \cap About(d) # {} =>
                  task'[t].status \in EndedStatuses
             /\ \A b \in blockers' : b.subject \notin About(d)
             /\ \A p \in Proposals : proposal'[p].ref[1] = d =>
                  proposal'[p].status # "awaiting_user_decision"
  <2>1. d # e /\ d \in Entities \ present
    OBVIOUS
  <2>2. /\ \A t \in Tasks : task[t].targets \cap About(d) # {} =>
             task[t].status \in EndedStatuses
        /\ \A b \in blockers : b.subject \notin About(d)
        /\ \A p \in Proposals : proposal[p].ref[1] = d =>
             proposal[p].status # "awaiting_user_decision"
    BY <2>1 DEF RemovalInv, RemovalIsComplete, About
  <2>3. ASSUME NEW t \in Tasks, task'[t].targets \cap About(d) # {}
        PROVE  task'[t].status \in EndedStatuses
    <3>1. CASE task'[t] = task[t]
      BY <2>2, <2>3, <3>1
    <3>2. CASE task'[t].targets \cap About(e) # {}
      <4>1. AboutOne(task'[t])
        BY DEF WorkInv
      <4>2. e \in task'[t].targets /\ d \in task'[t].targets
        BY <1>2, <2>3, <3>2, <4>1, TaskAbout
      <4> QED BY <1>2, <2>1, <4>1, <4>2, OwnerIsTarget, TaskAbout, <3>2
    <3> QED BY <3>1, <3>2 DEF WritesAbout
  <2>4. \A b \in blockers' : b.subject \notin About(d)
    BY <1>2, <2>1, <2>2, AboutDisjoint DEF WritesAbout
  <2>5. \A p \in Proposals : proposal'[p].ref[1] = d =>
          proposal'[p].status # "awaiting_user_decision"
    BY <2>1, <2>2 DEF WritesAbout
  <2> QED BY <2>3, <2>4, <2>5
<1>4. RemovalIsComplete'
  BY <1>3 DEF RemovalIsComplete, About
<1>5. ASSUME NEW d \in Callers
      PROVE  /\ call'[d].stage = "deciding" =>
                  proposal'[call'[d].proposal].ref[1] \in present'
             /\ call'[d].stage \in {"probing", "waiting"} =>
                  Owner[call'[d].endpoint] \in present'
  <2>1. CASE d = c
    BY <2>1 DEF WritesAbout, WorksOn
  <2>2. CASE d # c
    <3>1. call'[d] = call[d]
      BY <2>2 DEF WritesAbout
    <3>2. call[d].stage = "deciding" =>
            proposal'[call[d].proposal].ref = proposal[call[d].proposal].ref
      BY <1>1, CallFacts DEF Kept
    <3> QED BY <3>1, <3>2 DEF RemovalInv
  <2> QED BY <2>1, <2>2
<1> QED BY <1>4, <1>5 DEF RemovalInv

(* A removal, with all requests idle.                                      *)
LEMMA RemovalRemove ==
  ASSUME RemovesAlone, RemovalInv, WorkInv', NEW c \in Callers,
         RemoveDevice(c)
  PROVE  RemovalInv'
<1>1. WorkInv /\ TypeOK
  BY DEF RemovalInv, WorkInv
<1>2. Begin(c, "remove")
  BY <1>1, RemovalEffect
<1>3. PICK e \in present, ended \in SUBSET Stored : Removes(e, ended)
  BY <1>1, RemovalEffect
<1>4. \A d \in Callers : call'[d].stage = "idle"
  BY <1>2, <1>3 DEF Begin, RemovesAlone, Idle, Removes
<1>5. e \in Entities /\ present' = present \ {e}
  BY <1>1, <1>3 DEF TypeOK, Removes
<1>6. \A t \in Tasks : task[t].targets \cap About(e) # {} => t \in ended
  <2> SUFFICES ASSUME NEW t \in Tasks, task[t].targets \cap About(e) # {}
               PROVE  t \in ended
    OBVIOUS
  <2>1. AboutOne(task[t])
    BY <1>1 DEF WorkInv
  <2>2. e \in task[t].targets
    BY <1>5, <2>1, TaskAbout
  <2> QED BY <1>3, <2>2 DEF Removes, Affected
<1>7. ASSUME NEW d \in Entities \ present'
      PROVE  /\ \A t \in Tasks : task'[t].targets \cap About(d) # {} =>
                  task'[t].status \in EndedStatuses
             /\ \A b \in blockers' : b.subject \notin About(d)
             /\ \A p \in Proposals : proposal'[p].ref[1] = d =>
                  proposal'[p].status # "awaiting_user_decision"
  <2>1. CASE d = e
    <3>1. ASSUME NEW t \in Tasks, task'[t].targets \cap About(d) # {}
          PROVE  task'[t].status \in EndedStatuses
      <4>1. t \in ended
        BY <1>3, <1>6, <2>1, <3>1 DEF Removes
      <4> QED BY <1>3, <4>1 DEF Removes, EndedStatuses
    <3>2. ASSUME NEW b \in blockers' PROVE b.subject \notin About(d)
      <4>1. b \in blockers /\ b.task \notin ended
        BY <1>3 DEF Removes
      <4>2. b.task \in Tasks /\ b.subject \in task[b.task].targets
        BY <1>1, <4>1 DEF WorkInv, TypeOK, BlockerRecords, NamesTarget
      <4> QED BY <1>6, <2>1, <4>1, <4>2
    <3>3. \A p \in Proposals : proposal'[p].ref[1] = d =>
            proposal'[p].status # "awaiting_user_decision"
      BY <1>3, <2>1 DEF Removes
    <3> QED BY <3>1, <3>2, <3>3
  <2>2. CASE d # e
    <3>1. d \in Entities \ present
      BY <1>5, <2>2
    <3>2. /\ \A t \in Tasks : task[t].targets \cap About(d) # {} =>
               task[t].status \in EndedStatuses
          /\ \A b \in blockers : b.subject \notin About(d)
          /\ \A p \in Proposals : proposal[p].ref[1] = d =>
               proposal[p].status # "awaiting_user_decision"
      BY <3>1 DEF RemovalInv, RemovalIsComplete, About
    <3>3. \A t \in Tasks : task'[t].targets \cap About(d) # {} =>
            task'[t].status \in EndedStatuses
      BY <1>3, <3>2 DEF Removes
    <3>4. \A b \in blockers' : b.subject \notin About(d)
      BY <1>3, <3>2 DEF Removes
    <3>5. \A p \in Proposals : proposal'[p].ref[1] = d =>
            proposal'[p].status # "awaiting_user_decision"
      BY <1>3, <3>2 DEF Removes
    <3> QED BY <3>3, <3>4, <3>5
  <2> QED BY <2>1, <2>2
<1>8. RemovalIsComplete'
  BY <1>7 DEF RemovalIsComplete, About
<1> QED BY <1>4, <1>8 DEF RemovalInv

(* A task is written with a target about the device.                       *)
LEMMA SavedAbout ==
  ASSUME WorkInv, NEW t \in Tasks, NEW r, SaveTask(t, r), NEW e,
         r.targets \cap About(e) # {}
  PROVE  \A u \in Tasks : \/ task'[u] = task[u]
                          \/ task'[u].targets \cap About(e) # {}
BY DEF SaveTask, WorkInv, TypeOK

(* A proposal is made for a device that is present.                        *)
LEMMA RemovalPrepare ==
  ASSUME RemovalInv, NEW c \in Callers, Prepare(c)
  PROVE  \E e \in present : WritesAbout(c, e)
<1>1. PICK e \in present, r \in Roles, n \in Endpoints \cup {NoEndpoint},
            new \in Proposals :
        /\ Begin(c, "prepare")
        /\ proposal' = [proposal EXCEPT ![new] =
                          [status |-> "awaiting_user_decision",
                           ref |-> <<e, r>>, endpoint |-> n]]
        /\ UNCHANGED <<present, decisions, candidate, task, recency, blockers,
                       call>>
  BY DEF Prepare
<1>2. TypeOK
  BY DEF RemovalInv, WorkInv
<1>3. \A p \in Proposals : \/ proposal'[p] = proposal[p]
                            \/ proposal'[p].ref[1] = e
  BY <1>1, <1>2 DEF TypeOK
<1>4. WorksOn(call'[c], e, proposal')
  BY <1>1 DEF Begin, Idle, WorksOn
<1> QED BY <1>1, <1>3, <1>4 DEF WritesAbout

(* A decision is one on a proposal that awaits it, so about a device that  *)
(* is present.                                                             *)
LEMMA RemovalDecide ==
  ASSUME RemovalInv, NEW c \in Callers, Decide(c)
  PROVE  \E e \in present : WritesAbout(c, e)
<1>1. PICK p \in Proposals, decision \in Decisions :
        /\ proposal[p].status = "awaiting_user_decision"
        /\ call' = [call EXCEPT ![c] =
             [NoCall EXCEPT !.stage = "deciding", !.proposal = p,
                !.decision = decision,
                !.existing = candidate[proposal[p].ref] # 0,
                !.task = FindOpenTask(proposal[p].ref)]]
        /\ UNCHANGED <<present, proposal, decisions, candidate, task, recency,
                       blockers>>
  BY DEF Decide
<1> DEFINE e == proposal[p].ref[1]
<1>2. TypeOK
  BY DEF RemovalInv, WorkInv
<1>3. e \in present
  <2>1. e \in Entities
    BY <1>2 DEF TypeOK, ProposalRecords, CandidateRefs
  <2> QED BY <1>1, <2>1 DEF RemovalInv, RemovalIsComplete
<1>4. /\ call'[c].stage = "deciding" /\ call'[c].proposal = p
      /\ \A d \in Callers \ {c} : call'[d] = call[d]
  BY <1>1, <1>2 DEF TypeOK, NoCall
<1>5. WorksOn(call'[c], e, proposal')
  BY <1>1, <1>4 DEF WorksOn
<1>6. WritesAbout(c, e)
  BY <1>1, <1>4, <1>5 DEF WritesAbout
<1> QED BY <1>3, <1>6

(* A commit writes about the device of its proposal.                       *)
LEMMA RemovalCommit ==
  ASSUME RemovalInv, NEW c \in Callers, Commit(c)
  PROVE  \E e \in present : WritesAbout(c, e)
<1> DEFINE p == call[c].proposal
           ref == proposal[p].ref
           e == ref[1]
           b0 == [type |-> NotStarted, subject |-> ref, task |-> NextTask]
           r0 == [task[call[c].task] EXCEPT !.phase =
                    "awaiting_commissioning_workflow"]
           r1 == [status |-> "open",
                  phase |-> "awaiting_commissioning_workflow",
                  targets |-> {ref[1], ref} \cup
                              ({proposal[p].endpoint} \ {NoEndpoint})]
<1>1. /\ call[c].stage = "deciding"
      /\ call' = [call EXCEPT ![c] = NoCall]
      /\ \/ UNCHANGED proposal
         \/ proposal' = [proposal EXCEPT ![p].status =
                           Outcome(call[c].decision)]
      /\ \/ UNCHANGED <<task, blockers>>
         \/ /\ call[c].task # 0
            /\ SaveTask(call[c].task, r0) /\ UNCHANGED blockers
         \/ /\ call[c].task = 0
            /\ SaveTask(NextTask, r1)
            /\ blockers' = blockers \cup {b0}
  BY DEF Commit, Materialize
<1>2. WorkInv /\ TypeOK
  BY DEF RemovalInv, WorkInv
<1>3. /\ c \in Creators /\ p \in Proposals
      /\ proposal[p] \in ProposalRecords
      /\ call[c].task # 0 => /\ call[c].task \in Tasks
                             /\ task[call[c].task] \in TaskRecords
                             /\ ref \in task[call[c].task].targets
  BY <1>1, <1>2, CallFacts
<1>4. e \in present /\ e \in Entities
  BY <1>1, <1>2 DEF RemovalInv, TypeOK
<1>5. ref \in About(e) /\ ref \in CandidateRefs
  BY <1>3 DEF About, ProposalRecords
<1>6. \A q \in Proposals : \/ proposal'[q] = proposal[q]
                           \/ proposal'[q].status # "awaiting_user_decision"
  <2>1. proposal \in [Proposals -> ProposalRecords]
    BY <1>2 DEF TypeOK
  <2>2. Outcome(call[c].decision) # "awaiting_user_decision"
    BY DEF Outcome
  <2> HIDE DEF p
  <2> QED BY <1>1, <1>3, <2>1, <2>2 DEF ProposalRecords
<1>7. /\ WorksOn(call'[c], e, proposal')
      /\ \A d \in Callers \ {c} : call'[d] = call[d]
  BY <1>1, <1>2 DEF TypeOK, NoCall, WorksOn
<1>8. /\ r1.targets \cap About(e) # {}
      /\ call[c].task # 0 => r0.targets \cap About(e) # {}
  <2>1. ref \in r1.targets
    OBVIOUS
  <2>2. call[c].task # 0 => r0.targets = task[call[c].task].targets
    BY <1>3 DEF TaskRecords
  <2> HIDE DEF r0, r1, ref, e
  <2> QED BY <1>3, <1>5, <2>1, <2>2
<1>9. NextTask \in Tasks
  BY <1>2, <1>3, NextIsThere
<1>10. b0.subject = ref
  OBVIOUS
<1> HIDE DEF r0, r1, b0, e, ref, p
<1>11. \A t \in Tasks : \/ task'[t] = task[t]
                         \/ task'[t].targets \cap About(e) # {}
  BY <1>1, <1>2, <1>3, <1>8, <1>9, SavedAbout
<1>12. \A b \in blockers' : b \in blockers \/ b.subject \in About(e)
  BY <1>1, <1>5, <1>10
<1>13. WritesAbout(c, e)
  BY <1>6, <1>7, <1>11, <1>12 DEF WritesAbout
<1> QED BY <1>4, <1>13

(* A connection starts for a device that is present.                       *)
LEMMA RemovalEstablish ==
  ASSUME RemovalInv, NEW c \in Callers, Establish(c)
  PROVE  \E e \in present : WritesAbout(c, e)
<1>1. PICK n \in Endpoints, certificate \in BOOLEAN :
        LET found == TaskFor(n)
            t == IF found = 0 THEN NextTask ELSE found
            r == IF found = 0 THEN NewTask(n) ELSE task[t] IN
        /\ Owner[n] \in present
        /\ RoomForTask
        /\ IF certificate
           THEN /\ IF found = 0 THEN SaveTask(t, r)
                   ELSE UNCHANGED <<task, recency>>
                /\ blockers' = blockers \ Stale(t, r, n)
                /\ call' = [call EXCEPT ![c] =
                     [NoCall EXCEPT !.stage = "waiting", !.endpoint = n,
                                    !.task = t, !.phase = r.phase]]
           ELSE /\ call' = [call EXCEPT ![c] =
                     [NoCall EXCEPT !.stage = "probing", !.endpoint = n,
                                    !.task = found, !.stale = Stale(t, r, n)]]
                /\ UNCHANGED <<task, recency, blockers>>
        /\ UNCHANGED <<present, proposal, decisions, candidate>>
  BY Zenon DEF Establish
<1>2. WorkInv /\ TypeOK
  BY DEF RemovalInv, WorkInv
<1>3. UNCHANGED task \/ SaveTask(NextTask, NewTask(n))
  BY <1>1
<1>4. \E x : blockers' = blockers \ x \/ blockers' = blockers
  BY <1>1, Zenon
<1>5. blockers' \subseteq blockers
  BY <1>4
<1>6. \E t, x, y :
        \/ call' = [call EXCEPT ![c] =
             [NoCall EXCEPT !.stage = "waiting", !.endpoint = n,
                            !.task = t, !.phase = x]]
        \/ call' = [call EXCEPT ![c] =
             [NoCall EXCEPT !.stage = "probing", !.endpoint = n,
                            !.task = t, !.stale = y]]
  BY <1>1, Zenon
<1>7. /\ call'[c].endpoint = n /\ call'[c].stage # "deciding"
      /\ \A d \in Callers \ {c} : call'[d] = call[d]
  BY <1>2, <1>6 DEF TypeOK, NoCall
<1>8. WorksOn(call'[c], Owner[n], proposal')
  BY <1>7 DEF WorksOn
<1>9. NextTask \in Tasks /\ NewTask(n).targets \cap About(Owner[n]) # {}
  <2>1. NextTask \in Tasks
    BY <1>1, <1>2, NextIsThere
  <2>2. Owner[n] \in NewTask(n).targets /\ Owner[n] \in About(Owner[n])
    BY NewTaskIsFine DEF About, Affected
  <2> QED BY <2>1, <2>2
<1>10. \A t \in Tasks : \/ task'[t] = task[t]
                        \/ task'[t].targets \cap About(Owner[n]) # {}
  BY <1>2, <1>3, <1>9, SavedAbout
<1>11. WritesAbout(c, Owner[n])
  BY <1>1, <1>5, <1>7, <1>8, <1>10 DEF WritesAbout
<1> QED BY <1>1, <1>11

(* A connection ends: its task, which has the device as a target, and a    *)
(* blocker about the device at most are written.                           *)
LEMMA RemovalEnd ==
  ASSUME RemovalInv, NEW c \in Callers,
         call[c].stage \in {"probing", "waiting"},
         \/ UNCHANGED task
         \/ \E t \in Tasks : \E r :
              /\ SaveTask(t, r)
              /\ Owner[call[c].endpoint] \in r.targets,
         \A b \in blockers' : \/ b \in blockers
                              \/ b.subject = Owner[call[c].endpoint],
         call' = [call EXCEPT ![c] = NoCall],
         UNCHANGED <<present, proposal>>
  PROVE  \E e \in present : WritesAbout(c, e)
<1> DEFINE e == Owner[call[c].endpoint]
<1>1. WorkInv /\ TypeOK /\ e \in present
  BY DEF RemovalInv, WorkInv
<1>2. e \in About(e)
  BY DEF About, Affected
<1>3. /\ WorksOn(call'[c], e, proposal')
      /\ \A d \in Callers \ {c} : call'[d] = call[d]
  BY <1>1 DEF TypeOK, NoCall, WorksOn
<1>4. \A t \in Tasks : \/ task'[t] = task[t]
                        \/ task'[t].targets \cap About(e) # {}
  <2>1. CASE UNCHANGED task
    BY <2>1
  <2>2. ASSUME NEW t \in Tasks, NEW r, SaveTask(t, r), e \in r.targets
        PROVE  \A u \in Tasks : \/ task'[u] = task[u]
                                \/ task'[u].targets \cap About(e) # {}
    <3>1. r.targets \cap About(e) # {}
      BY <1>2, <2>2
    <3> HIDE DEF e
    <3> QED BY <1>1, <2>2, <3>1, SavedAbout
  <2> QED BY <2>1, <2>2
<1>5. WritesAbout(c, e)
  BY <1>2, <1>3, <1>4 DEF WritesAbout
<1> QED BY <1>1, <1>5

(* A connection ends for the device it was started for.                    *)
LEMMA RemovalConnection ==
  ASSUME RemovalInv, NEW c \in Callers,
         \/ Unavailable(c) \/ Ready(c)
         \/ Rejected(c) \/ Failed(c) \/ NotReady(c)
  PROVE  \E e \in present : WritesAbout(c, e)
<1> DEFINE n == call[c].endpoint
           e == Owner[n]
<1>1. WorkInv
  BY DEF RemovalInv
<1>2. ASSUME NEW open, open \subseteq blockers, NEW t, NEW type,
             blockers' = AddUnique(open, t, e, type)
      PROVE  \A b \in blockers' : b \in blockers \/ b.subject = e
  <2>1. \A b \in blockers' :
          \/ b \in open
          \/ b = [type |-> type, subject |-> e, task |-> t]
    BY <1>2 DEF AddUnique
  <2> HIDE DEF e
  <2> QED BY <1>2, <2>1
<1>3. CASE Unavailable(c)
  <2> DEFINE found == call[c].task
             t == IF found = 0 THEN NextTask ELSE found
             r == IF found = 0 THEN NewTask(n) ELSE task[t]
             new == [r EXCEPT !.status = "blocked",
                              !.phase = "waiting_for_peer_certificate"]
  <2>1. /\ call[c].stage = "probing"
        /\ SaveTask(t, new)
        /\ blockers' = AddUnique(blockers \ call[c].stale, t, e, NoCertificate)
        /\ call' = [call EXCEPT ![c] = NoCall]
        /\ UNCHANGED <<present, proposal>>
    BY <1>3 DEF Unavailable
  <2>2. /\ n \in Endpoints /\ c \in Creators
        /\ found # 0 => /\ found \in Tasks /\ task[found] \in TaskRecords
                        /\ e \in task[found].targets
    BY <1>1, <2>1, CallFacts
  <2>3. NextTask \in Tasks
    BY <1>1, <2>2, NextIsThere
  <2>4. NewTask(n) \in TaskRecords /\ e \in NewTask(n).targets
    BY <2>2, NewTaskIsFine
  <2> HIDE DEF n, found
  <2>5. t \in Tasks /\ r \in TaskRecords /\ e \in r.targets
    BY <2>2, <2>3, <2>4
  <2> HIDE DEF t, r
  <2>6. e \in new.targets
    BY <2>5 DEF TaskRecords
  <2>7. \A b \in blockers' : b \in blockers \/ b.subject = e
    BY <1>2, <2>1
  <2> HIDE DEF new
  <2> QED BY <2>1, <2>5, <2>6, <2>7, RemovalEnd DEF n
<1>4. ASSUME call[c].stage = "waiting"
      PROVE  /\ call[c].task \in Tasks
             /\ task[call[c].task] \in TaskRecords
             /\ e \in task[call[c].task].targets
  BY <1>1, <1>4, CallFacts
<1>5. CASE Ready(c)
  <2> DEFINE t == call[c].task
             new == [task[t] EXCEPT !.status = "in_progress",
                                    !.phase = "ship_ready"]
  <2>1. /\ call[c].stage = "waiting"
        /\ UNCHANGED task \/ SaveTask(t, new)
        /\ blockers' \subseteq blockers
        /\ call' = [call EXCEPT ![c] = NoCall]
        /\ UNCHANGED <<present, proposal>>
    BY <1>5 DEF Ready
  <2>2. t \in Tasks /\ e \in new.targets
    BY <1>4, <2>1 DEF TaskRecords
  <2> HIDE DEF t, new
  <2> QED BY <2>1, <2>2, RemovalEnd
<1>6. CASE Rejected(c) \/ Failed(c) \/ NotReady(c)
  <2> DEFINE t == call[c].task
  <2>1. PICK phase, type : Pending(c, phase, type)
    BY <1>6 DEF Rejected, Failed, NotReady
  <2> DEFINE new == [task[t] EXCEPT !.status = BlockedStatus(phase),
                                    !.phase = phase]
  <2>2. /\ call[c].stage = "waiting"
        /\ SaveTask(t, new)
        /\ blockers' = AddUnique(blockers, t, e, type)
        /\ call' = [call EXCEPT ![c] = NoCall]
        /\ UNCHANGED <<present, proposal>>
    BY <2>1 DEF Pending
  <2>3. t \in Tasks /\ e \in new.targets
    BY <1>4, <2>2 DEF TaskRecords
  <2>4. \A b \in blockers' : b \in blockers \/ b.subject = e
    BY <1>2, <2>2
  <2> HIDE DEF t, new
  <2> QED BY <2>2, <2>3, <2>4, RemovalEnd
<1> QED BY <1>3, <1>5, <1>6

(* Every step keeps RemovalInv.                                            *)
LEMMA RemovalStep ==
  ASSUME RemovesAlone, RemovalInv, [Next]_vars
  PROVE  RemovalInv'
<1>1. WorkInv' /\ Kept
  BY WorkStep DEF RemovalInv
<1>2. WorkInv /\ TypeOK /\ DOMAIN call = Callers
  BY DEF RemovalInv, WorkInv, TypeOK
<1>3. ASSUME NEW c \in Callers, NEW e \in present, WritesAbout(c, e),
             UNCHANGED present
      PROVE  RemovalInv'
  BY <1>1, <1>3, RemovalFrom
<1>4. ASSUME NEW c \in Callers, Prepare(c) \/ Decide(c) \/ Commit(c)
      PROVE  RemovalInv'
  <2>1. UNCHANGED present
    BY <1>4 DEF Prepare, Decide, Commit
  <2>2. \E e \in present : WritesAbout(c, e)
    BY <1>4, RemovalPrepare, RemovalDecide, RemovalCommit
  <2> QED BY <1>3, <2>1, <2>2
<1>5. ASSUME NEW c \in Callers,
             \/ Establish(c) \/ Unavailable(c) \/ Ready(c)
             \/ Rejected(c) \/ Failed(c) \/ NotReady(c)
      PROVE  RemovalInv'
  <2>1. UNCHANGED present
    BY <1>2, <1>5, ConnectionDecidesNothing
  <2>2. \E e \in present : WritesAbout(c, e)
    BY <1>5, RemovalEstablish, RemovalConnection
  <2> QED BY <1>3, <2>1, <2>2
<1>6. ASSUME NEW c \in Callers, RemoveDevice(c) PROVE RemovalInv'
  BY <1>1, <1>6, RemovalRemove
<1>7. ASSUME NEW e \in Entities, Rediscover(e) PROVE RemovalInv'
  BY <1>1, <1>7 DEF Rediscover, RemovalInv, RemovalIsComplete
<1>8. CASE UNCHANGED vars
  BY <1>1, <1>8 DEF vars, RemovalInv, RemovalIsComplete
<1> QED BY <1>4, <1>5, <1>6, <1>7, <1>8 DEF Next

(* A removal that overlaps with no other request leaves nothing to do for  *)
(* the device, and nothing comes back until it is found again.  A request  *)
(* in flight would write its task and its blockers after the removal: see  *)
(* the assumption.                                                         *)
THEOREM NothingIsLeftOfRemoved ==
  ASSUME RemovesAlone PROVE Spec => []RemovalIsComplete
<1>1. Init => RemovalInv
  <2>1. Init => /\ present = Entities
                /\ \A c \in Callers : call[c].stage = "idle"
    BY DEF Init, NoCall
  <2> QED BY <2>1, WorkInit DEF RemovalInv, RemovalIsComplete
<1>2. RemovalInv /\ [Next]_vars => RemovalInv'
  BY RemovalStep
<1>3. RemovalInv => RemovalIsComplete
  BY DEF RemovalInv
<1> QED BY <1>1, <1>2, <1>3, PTL DEF Spec

-----------------------------------------------------------------------------
(* One request decides and one connects: one open task per candidate       *)

(* The task a request works on is open.                                    *)
WorksOpen(c) ==
  call[c].stage \in {"probing", "waiting"} /\ call[c].task # 0 =>
    task[call[c].task].status \in OpenStatuses

(* A step that opens no task for a candidate and starts no decision.       *)
LEMMA OpenFrom ==
  ASSUME OpenInv, WorkInv', Kept,
         \A t \in Tasks, ref \in CandidateRefs :
           /\ task'[t].status \in OpenStatuses /\ ref \in task'[t].targets
           => OpenFor(t, ref),
         \A d \in Callers :
           /\ WorksOpen(d)'
           /\ call'[d] = call[d] \/ call'[d].stage # "deciding"
  PROVE  OpenInv'
<1>1. \A ref \in CandidateRefs, t, u \in Tasks :
        OpenFor(t, ref)' /\ OpenFor(u, ref)' => t = u
  BY DEF OpenInv, OpenFor
<1>2. ASSUME NEW d \in Callers, call'[d].stage = "deciding",
             call'[d].task = 0, NEW t \in Tasks,
             OpenFor(t, proposal[call[d].proposal].ref)'
      PROVE  FALSE
  <2>1. call'[d] = call[d]
    BY <1>2
  <2>2. /\ call[d].proposal \in Proposals
        /\ proposal[call[d].proposal].status # "none"
        /\ proposal[call[d].proposal].ref \in CandidateRefs
    BY <1>2, <2>1, CallFacts DEF OpenInv, ProposalRecords
  <2>3. proposal'[call[d].proposal].ref = proposal[call[d].proposal].ref
    BY <2>2 DEF Kept
  <2>4. OpenFor(t, proposal[call[d].proposal].ref)
    BY <1>2, <2>1, <2>2, <2>3 DEF OpenFor
  <2> QED BY <1>2, <2>1, <2>4 DEF OpenInv
<1> QED BY <1>1, <1>2 DEF OpenInv, WorksOpen

(* Writing an open task again, or one about no candidate, opens none.      *)
LEMMA OpensNone ==
  ASSUME WorkInv, NEW t \in Tasks, NEW r, SaveTask(t, r),
         \/ r.targets \cap CandidateRefs = {}
         \/ task[t].status \in OpenStatuses /\ r.targets = task[t].targets
  PROVE  /\ task'[t] = r
         /\ \A u \in Tasks \ {t} : task'[u] = task[u]
         /\ \A u \in Tasks, ref \in CandidateRefs :
              task'[u].status \in OpenStatuses /\ ref \in task'[u].targets
              => OpenFor(u, ref)
<1>1. /\ task'[t] = r
      /\ \A u \in Tasks \ {t} : task'[u] = task[u]
  BY DEF SaveTask, WorkInv, TypeOK
<1> QED BY <1>1 DEF OpenFor

(* A task made for a connection is about no candidate.                     *)
LEMMA NewTaskHasNoCandidate ==
  ASSUME NEW n \in Endpoints
  PROVE  NewTask(n).targets \cap CandidateRefs = {}
<1>1. Owner[n] \in Entities /\ NewTask(n).targets = {Owner[n], n}
  BY ConstantsAssumption DEF NewTask
<1> QED BY <1>1, RefsDiffer

(* A decision starts with the open task of its candidate, if there is one. *)
LEMMA OpenDecide ==
  ASSUME OpenInv, WorkInv', NEW c \in Callers, Decide(c)
  PROVE  OpenInv'
<1>1. PICK p \in Proposals, decision \in Decisions :
        /\ call' = [call EXCEPT ![c] =
             [NoCall EXCEPT !.stage = "deciding", !.proposal = p,
                !.decision = decision,
                !.existing = candidate[proposal[p].ref] # 0,
                !.task = FindOpenTask(proposal[p].ref)]]
        /\ UNCHANGED <<proposal, task>>
  BY DEF Decide
<1> DEFINE ref == proposal[p].ref
<1>2. TypeOK
  BY DEF OpenInv, WorkInv
<1>3. /\ call'[c].proposal = p /\ call'[c].task = FindOpenTask(ref)
      /\ call'[c].stage = "deciding"
      /\ \A d \in Callers \ {c} : call'[d] = call[d]
  BY <1>1, <1>2 DEF TypeOK, NoCall
<1>4. FindOpenTask(ref) = 0 => \A t \in Tasks : ~OpenFor(t, ref)
  <2>1. task \in [Tasks -> TaskRecords]
    BY <1>2 DEF TypeOK
  <2> HIDE DEF ref
  <2> QED BY <2>1, FoundIsOpen DEF OpenFor
<1>5. \A t, x : OpenFor(t, x)' <=> OpenFor(t, x)
  BY <1>1 DEF OpenFor
<1> HIDE DEF ref
<1>6. ASSUME NEW d \in Callers
      PROVE  /\ call'[d].stage \in {"probing", "waiting"}
                  /\ call'[d].task # 0 =>
                  task'[call'[d].task].status \in OpenStatuses
             /\ call'[d].stage = "deciding" /\ call'[d].task = 0 =>
                  \A t \in Tasks :
                    ~OpenFor(t, proposal'[call'[d].proposal].ref)
  BY <1>1, <1>3, <1>4 DEF OpenInv, ref
<1> QED BY <1>1, <1>5, <1>6 DEF OpenInv, OpenFor

(* An approval writes the open task of its candidate, or opens the first.  *)
LEMMA OpenCommit ==
  ASSUME OneDecides, OpenInv, WorkInv', Kept, NEW c \in Callers, Commit(c)
  PROVE  OpenInv'
<1> DEFINE p == call[c].proposal
           ref == proposal[p].ref
           found == call[c].task
           r == [status |-> "open",
                 phase |-> "awaiting_commissioning_workflow",
                 targets |-> {ref[1], ref} \cup
                             ({proposal[p].endpoint} \ {NoEndpoint})]
           s == [task[found] EXCEPT
                   !.phase = "awaiting_commissioning_workflow"]
<1>1. /\ call[c].stage = "deciding"
      /\ call' = [call EXCEPT ![c] = NoCall]
      /\ \/ UNCHANGED task
         \/ found # 0 /\ task' = [task EXCEPT ![found] = s]
         \/ found = 0 /\ task' = [task EXCEPT ![NextTask] = r]
  BY DEF Commit, Materialize, SaveTask
<1>2. WorkInv /\ TypeOK
  BY DEF OpenInv, WorkInv
<1>3. /\ c \in Creators /\ p \in Proposals
      /\ proposal[p] \in ProposalRecords /\ OwnEndpoint(proposal[p])
      /\ found # 0 => found \in Tasks /\ task[found] \in TaskRecords
  BY <1>1, <1>2, CallFacts
<1>4. /\ NextTask \in Tasks /\ task[NextTask].status = "none"
  BY <1>2, <1>3, NextIsThere
<1>5. /\ call'[c].stage = "idle"
      /\ \A d \in Callers \ {c} : call'[d] = call[d]
      /\ \A d \in Callers \ {c} : call[d].stage # "deciding"
  BY <1>1, <1>2 DEF TypeOK, NoCall, WorkInv, Allowed, OneDecides
<1>6. ASSUME \A t \in Tasks : task[t].status \in OpenStatuses =>
               task'[t].status \in OpenStatuses
      PROVE  \A d \in Callers : /\ WorksOpen(d)'
                                /\ call'[d].stage # "deciding"
  <2>1. \A d \in Callers : call[d].task # 0 => call[d].task \in Tasks
    BY <1>2, CallFacts
  <2> QED BY <1>5, <1>6, <2>1 DEF OpenInv, WorksOpen
<1>7. CASE UNCHANGED task
  <2>1. \A d \in Callers : WorksOpen(d)' /\ call'[d].stage # "deciding"
    BY <1>6, <1>7
  <2> QED BY <1>7, <2>1, OpenFrom DEF OpenFor
<1>8. CASE found # 0 /\ task' = [task EXCEPT ![found] = s]
  <2>1. s.status = task[found].status /\ s.targets = task[found].targets
    BY <1>3, <1>8 DEF TaskRecords
  <2>2. \A t \in Tasks : /\ task'[t].status = task[t].status
                         /\ task'[t].targets = task[t].targets
    <3> HIDE DEF s, found
    <3> QED BY <1>2, <1>8, <2>1 DEF TypeOK
  <2>3. \A d \in Callers : WorksOpen(d)' /\ call'[d].stage # "deciding"
    BY <1>6, <2>2
  <2> QED BY <2>2, <2>3, OpenFrom DEF OpenFor
<1>9. CASE found = 0 /\ task' = [task EXCEPT ![NextTask] = r]
  <2>1. ref \in CandidateRefs /\ ref[1] \in Entities
    <3> HIDE DEF p
    <3> QED BY <1>3 DEF ProposalRecords, CandidateRefs
  <2>2. \A x \in CandidateRefs : x \in r.targets => x = ref
    <3>1. proposal[p].endpoint \in Endpoints \cup {NoEndpoint}
      BY <1>3 DEF ProposalRecords
    <3> HIDE DEF p
    <3> QED BY <2>1, <3>1, RefsDiffer
  <2>3. \A t \in Tasks : ~OpenFor(t, ref)
    BY <1>1, <1>9 DEF OpenInv
  <2> HIDE DEF r, ref
  <2>4. /\ task'[NextTask] = r
        /\ \A t \in Tasks \ {NextTask} : task'[t] = task[t]
    BY <1>2, <1>4, <1>9 DEF TypeOK
  <2>5. \A x \in CandidateRefs, t, u \in Tasks :
          OpenFor(t, x)' /\ OpenFor(u, x)' => t = u
    <3>1. ASSUME NEW x \in CandidateRefs, NEW t \in Tasks, OpenFor(t, x)'
          PROVE  \/ x = ref /\ t = NextTask
                 \/ x # ref /\ OpenFor(t, x)
      BY <2>2, <2>3, <2>4, <3>1 DEF OpenFor
    <3> QED BY <3>1 DEF OpenInv
  <2>6. \A d \in Callers : WorksOpen(d)' /\ call'[d].stage # "deciding"
    <3>1. \A t \in Tasks : task[t].status \in OpenStatuses =>
            task'[t].status \in OpenStatuses
      BY <1>4, <2>4 DEF OpenStatuses
    <3> QED BY <1>6, <3>1
  <2> QED BY <2>5, <2>6 DEF OpenInv, WorksOpen
<1> QED BY <1>1, <1>7, <1>8, <1>9

(* The only request that connects writes its own task.                     *)
LEMMA OpenConnection ==
  ASSUME OneEstablishes, OpenInv, WorkInv', Kept, NEW c \in Callers,
         \/ Establish(c) \/ Unavailable(c) \/ Ready(c)
         \/ Rejected(c) \/ Failed(c) \/ NotReady(c)
  PROVE  OpenInv'
<1>1. WorkInv /\ DOMAIN call = Callers
  BY DEF OpenInv, WorkInv, TypeOK
<1>2. \A d \in Callers : \/ call'[d] = call[d]
                         \/ call'[d].stage # "deciding"
  BY <1>1, ConnectionDecidesNothing
<1>3. ASSUME "establish" \in OperationsOf[c],
             \A d \in Callers \ {c} : call'[d] = call[d]
      PROVE  \A d \in Callers \ {c} : WorksOpen(d)'
  BY <1>1, <1>3 DEF WorkInv, Allowed, OneEstablishes, WorksOpen
<1>4. ASSUME NEW t \in Tasks, NEW r, SaveTask(t, r),
             \/ r.targets \cap CandidateRefs = {}
             \/ /\ call[c].task = t /\ call[c].task # 0
                /\ r.targets = task[t].targets,
             call[c].stage \in {"probing", "waiting"},
             call' = [call EXCEPT ![c] = NoCall]
      PROVE  OpenInv'
  <2>1. call[c].task = t /\ call[c].task # 0 => task[t].status \in OpenStatuses
    BY <1>4 DEF OpenInv
  <2>2. \A u \in Tasks, ref \in CandidateRefs :
          task'[u].status \in OpenStatuses /\ ref \in task'[u].targets
          => OpenFor(u, ref)
    <3>1. \/ r.targets \cap CandidateRefs = {}
          \/ task[t].status \in OpenStatuses /\ r.targets = task[t].targets
      BY <1>4, <2>1
    <3> QED BY <1>1, <1>4, <3>1, OpensNone
  <2>3. "establish" \in OperationsOf[c]
    BY <1>1, <1>4 DEF WorkInv, Allowed
  <2>4. /\ call'[c].stage = "idle"
        /\ \A d \in Callers \ {c} : call'[d] = call[d]
    BY <1>1, <1>4 DEF NoCall
  <2>5. WorksOpen(c)'
    BY <2>4 DEF WorksOpen
  <2> QED BY <1>2, <1>3, <2>2, <2>3, <2>4, <2>5, OpenFrom
<1>5. ASSUME UNCHANGED task, "establish" \in OperationsOf[c],
             \A d \in Callers \ {c} : call'[d] = call[d],
             WorksOpen(c)'
      PROVE  OpenInv'
  <2>1. \A t \in Tasks, ref \in CandidateRefs :
          task'[t].status \in OpenStatuses /\ ref \in task'[t].targets
          => OpenFor(t, ref)
    BY <1>5 DEF OpenFor
  <2> QED BY <1>2, <1>3, <1>5, <2>1, OpenFrom
<1>6. CASE Establish(c)
  <2>1. PICK n \in Endpoints :
          LET found == TaskFor(n)
              t == IF found = 0 THEN NextTask ELSE found IN
          /\ Begin(c, "establish") /\ RoomForTask
          /\ \/ /\ found = 0 /\ SaveTask(t, NewTask(n))
                /\ \E phase : call' = [call EXCEPT ![c] =
                     [NoCall EXCEPT !.stage = "waiting", !.endpoint = n,
                                    !.task = t, !.phase = phase]]
             \/ /\ UNCHANGED task /\ found # 0
                /\ \E phase : call' = [call EXCEPT ![c] =
                     [NoCall EXCEPT !.stage = "waiting", !.endpoint = n,
                                    !.task = t, !.phase = phase]]
             \/ /\ UNCHANGED task
                /\ \E stale : call' = [call EXCEPT ![c] =
                     [NoCall EXCEPT !.stage = "probing", !.endpoint = n,
                                    !.task = found, !.stale = stale]]
    BY <1>6, Zenon DEF Establish
  <2> DEFINE found == TaskFor(n)
             t == IF found = 0 THEN NextTask ELSE found
  <2>2. found # 0 => found \in Tasks /\ task[found].status \in OpenStatuses
    BY <1>1, EstablishTask
  <2>3. NextTask \in Tasks /\ NextTask # 0
    BY <1>1, <2>1, NextIsThere
  <2>4. "establish" \in OperationsOf[c]
    BY <2>1 DEF Begin
  <2> HIDE DEF found
  <2>5. CASE /\ found = 0 /\ SaveTask(t, NewTask(n))
             /\ \E phase : call' = [call EXCEPT ![c] =
                  [NoCall EXCEPT !.stage = "waiting", !.endpoint = n,
                                 !.task = t, !.phase = phase]]
    <3>1. /\ call'[c].task = NextTask /\ call'[c].stage = "waiting"
          /\ \A d \in Callers \ {c} : call'[d] = call[d]
      BY <1>1, <2>5 DEF NoCall
    <3>2. SaveTask(NextTask, NewTask(n))
      BY <2>5
    <3>3. /\ task'[NextTask] = NewTask(n)
          /\ \A u \in Tasks, ref \in CandidateRefs :
               task'[u].status \in OpenStatuses /\ ref \in task'[u].targets
               => OpenFor(u, ref)
      BY <1>1, <2>3, <3>2, NewTaskHasNoCandidate, OpensNone
    <3>4. WorksOpen(c)'
      BY <3>1, <3>3 DEF WorksOpen, NewTask, OpenStatuses
    <3> QED BY <1>2, <1>3, <2>4, <3>1, <3>3, <3>4, OpenFrom
  <2>6. CASE /\ UNCHANGED task /\ found # 0
             /\ \E phase : call' = [call EXCEPT ![c] =
                  [NoCall EXCEPT !.stage = "waiting", !.endpoint = n,
                                 !.task = t, !.phase = phase]]
    <3>1. /\ call'[c].task = found
          /\ \A d \in Callers \ {c} : call'[d] = call[d]
      BY <1>1, <2>6 DEF NoCall
    <3>2. WorksOpen(c)'
      BY <2>2, <2>6, <3>1 DEF WorksOpen
    <3> QED BY <1>5, <2>4, <2>6, <3>1, <3>2
  <2>7. CASE /\ UNCHANGED task
             /\ \E stale : call' = [call EXCEPT ![c] =
                  [NoCall EXCEPT !.stage = "probing", !.endpoint = n,
                                 !.task = found, !.stale = stale]]
    <3>1. /\ call'[c].task = found
          /\ \A d \in Callers \ {c} : call'[d] = call[d]
      BY <1>1, <2>7 DEF NoCall
    <3>2. WorksOpen(c)'
      BY <2>2, <2>7, <3>1 DEF WorksOpen
    <3> QED BY <1>5, <2>4, <2>7, <3>1, <3>2
  <2> QED BY <2>1, <2>5, <2>6, <2>7 DEF found
<1>7. CASE Unavailable(c)
  <2> DEFINE n == call[c].endpoint
             found == call[c].task
             t == IF found = 0 THEN NextTask ELSE found
             r == IF found = 0 THEN NewTask(n) ELSE task[t]
             new == [r EXCEPT !.status = "blocked",
                              !.phase = "waiting_for_peer_certificate"]
  <2>1. /\ call[c].stage = "probing" /\ SaveTask(t, new)
        /\ call' = [call EXCEPT ![c] = NoCall]
    BY <1>7 DEF Unavailable
  <2>2. /\ n \in Endpoints /\ c \in Creators
        /\ found # 0 => found \in Tasks /\ task[found] \in TaskRecords
    BY <1>1, <2>1, CallFacts
  <2>3. NextTask \in Tasks
    BY <1>1, <2>2, NextIsThere
  <2>4. /\ NewTask(n) \in TaskRecords
        /\ NewTask(n).targets \cap CandidateRefs = {}
    BY <2>2, NewTaskIsFine, NewTaskHasNoCandidate
  <2> HIDE DEF n
  <2>5. t \in Tasks /\ r \in TaskRecords
    <3> HIDE DEF found
    <3> QED BY <2>2, <2>3, <2>4
  <2>6. new.targets = r.targets
    <3> HIDE DEF r
    <3> QED BY <2>5 DEF TaskRecords
  <2>7. \/ new.targets \cap CandidateRefs = {}
        \/ /\ call[c].task = t /\ call[c].task # 0
           /\ new.targets = task[t].targets
    <3> HIDE DEF new
    <3> QED BY <2>4, <2>6
  <2> HIDE DEF t, new
  <2> QED BY <1>4, <2>1, <2>5, <2>7
<1>8. ASSUME call[c].stage = "waiting",
             \E status, phase :
               SaveTask(call[c].task,
                        [task[call[c].task] EXCEPT !.status = status,
                                                   !.phase = phase]),
             call' = [call EXCEPT ![c] = NoCall]
      PROVE  OpenInv'
  <2> DEFINE t == call[c].task
  <2>1. t \in Tasks /\ t # 0 /\ task[t] \in TaskRecords
    BY <1>1, <1>8, CallFacts
  <2>2. PICK status, phase :
          SaveTask(t, [task[t] EXCEPT !.status = status, !.phase = phase])
    BY <1>8
  <2> DEFINE r == [task[t] EXCEPT !.status = status, !.phase = phase]
  <2>3. r.targets = task[t].targets
    BY <2>1 DEF TaskRecords
  <2> HIDE DEF r
  <2>4. SaveTask(t, r)
    BY <2>2 DEF r
  <2> QED BY <1>4, <1>8, <2>1, <2>3, <2>4
<1>9. CASE Ready(c)
  <2>1. /\ call[c].stage = "waiting"
        /\ call' = [call EXCEPT ![c] = NoCall]
        /\ \/ SaveTask(call[c].task,
                       [task[call[c].task] EXCEPT !.status = "in_progress",
                                                  !.phase = "ship_ready"])
           \/ UNCHANGED task
    BY <1>9 DEF Ready
  <2>2. CASE UNCHANGED task
    <3>1. "establish" \in OperationsOf[c]
      BY <1>1, <2>1 DEF WorkInv, Allowed
    <3>2. /\ call'[c].stage = "idle"
          /\ \A d \in Callers \ {c} : call'[d] = call[d]
      BY <1>1, <2>1 DEF NoCall
    <3> QED BY <1>5, <2>2, <3>1, <3>2 DEF WorksOpen
  <2> QED BY <1>8, <2>1, <2>2
<1>10. CASE Rejected(c) \/ Failed(c) \/ NotReady(c)
  <2>1. \E phase, type : Pending(c, phase, type)
    BY <1>10 DEF Rejected, Failed, NotReady
  <2> QED BY <1>8, <2>1 DEF Pending
<1> QED BY <1>6, <1>7, <1>9, <1>10

(* A removal, with nobody else at work, opens no task.                     *)
LEMMA OpenRemove ==
  ASSUME RemovesAlone, OpenInv, WorkInv', Kept, NEW c \in Callers,
         RemoveDevice(c)
  PROVE  OpenInv'
<1>1. WorkInv
  BY DEF OpenInv
<1>2. /\ Begin(c, "remove")
      /\ \E e \in present, ended \in SUBSET Stored : Removes(e, ended)
  BY <1>1, RemovalEffect
<1>3. \A d \in Callers : call[d].stage = "idle"
  BY <1>2 DEF Begin, RemovesAlone, Idle
<1>4. PICK e \in present, ended \in SUBSET Stored : Removes(e, ended)
  BY <1>2
<1>5. UNCHANGED call
  BY <1>4 DEF Removes
<1>6. \A t \in Tasks, ref \in CandidateRefs :
        task'[t].status \in OpenStatuses /\ ref \in task'[t].targets
        => OpenFor(t, ref)
  BY <1>4 DEF Removes, OpenFor, OpenStatuses
<1>7. \A d \in Callers : WorksOpen(d)'
  BY <1>3, <1>5 DEF WorksOpen
<1> QED BY <1>5, <1>6, <1>7, OpenFrom

(* Every step keeps OpenInv.                                               *)
LEMMA OpenStep ==
  ASSUME OneDecides, OneEstablishes, RemovesAlone, OpenInv, [Next]_vars
  PROVE  OpenInv'
<1>1. WorkInv' /\ Kept
  BY WorkStep DEF OpenInv
<1>2. ASSUME UNCHANGED <<task, call>> PROVE OpenInv'
  <2>1. \A d \in Callers : WorksOpen(d)'
    BY <1>2 DEF OpenInv, WorksOpen
  <2>2. \A t \in Tasks, ref \in CandidateRefs :
          task'[t].status \in OpenStatuses /\ ref \in task'[t].targets
          => OpenFor(t, ref)
    BY <1>2 DEF OpenFor
  <2> QED BY <1>1, <1>2, <2>1, <2>2, OpenFrom
<1>3. ASSUME NEW c \in Callers, Decide(c) \/ Commit(c) PROVE OpenInv'
  BY <1>1, <1>3, OpenDecide, OpenCommit
<1>4. ASSUME NEW c \in Callers,
             \/ Establish(c) \/ Unavailable(c) \/ Ready(c)
             \/ Rejected(c) \/ Failed(c) \/ NotReady(c)
      PROVE  OpenInv'
  BY <1>1, <1>4, OpenConnection
<1>5. ASSUME NEW c \in Callers, RemoveDevice(c) PROVE OpenInv'
  BY <1>1, <1>5, OpenRemove
<1>6. ASSUME NEW c \in Callers, Prepare(c) PROVE OpenInv'
  BY <1>2, <1>6 DEF Prepare
<1>7. ASSUME NEW e \in Entities, Rediscover(e) PROVE OpenInv'
  BY <1>2, <1>7 DEF Rediscover
<1>8. CASE UNCHANGED vars
  BY <1>2, <1>8 DEF vars
<1> QED BY <1>3, <1>4, <1>5, <1>6, <1>7, <1>8 DEF Next

(* However often a role is proposed, approved, connected and taken back,   *)
(* its candidate has one open task at most, as long as one request decides *)
(* and one connects at a time and a removal overlaps with none.  With two  *)
(* connecting, one can block a task again that the other has made ready    *)
(* and that an approval has replaced in between.                           *)
THEOREM OneTaskIsOpen ==
  ASSUME OneDecides, OneEstablishes, RemovesAlone
  PROVE  Spec => []OneOpenTask
<1>1. Init => OpenInv
  <2>1. Init => /\ \A t \in Tasks : task[t].status = "none"
                /\ \A c \in Callers : call[c].stage = "idle"
    BY DEF Init, NoCall, NoTask
  <2> QED BY <2>1, WorkInit DEF OpenInv, OpenFor, OpenStatuses
<1>2. OpenInv /\ [Next]_vars => OpenInv'
  BY OpenStep
<1>3. OpenInv => OneOpenTask
  <2> SUFFICES ASSUME OpenInv, NEW ref \in CandidateRefs
               PROVE  Cardinality({t \in Tasks :
                                     /\ task[t].status \in OpenStatuses
                                     /\ ref \in task[t].targets}) <= 1
    BY DEF OneOpenTask
  <2> DEFINE open == {t \in Tasks : OpenFor(t, ref)}
  <2>1. \A t, u \in open : t = u
    BY DEF OpenInv
  <2>2. Cardinality(open) <= 1
    <3> HIDE DEF open
    <3>1. CASE open = {}
      BY <3>1, FS_EmptySet
    <3>2. CASE open # {}
      <4>1. PICK t \in open : TRUE
        BY <3>2
      <4>2. open = {t}
        BY <2>1, <4>1
      <4>3. Cardinality(open) = 1
        BY <4>2, FS_Singleton
      <4> QED BY <4>3
    <3> QED BY <3>1, <3>2
  <2> QED BY <2>2 DEF OpenFor
<1> QED BY <1>1, <1>2, <1>3, PTL DEF Spec
=============================================================================
