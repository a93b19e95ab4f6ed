-------------------------- MODULE DiscoveryProofs --------------------------
(***************************************************************************)
(* The inventory, proved for any sources, scenes and number of runs that   *)
(* overlap: candidates and devices stay together, and what runs leave of   *)
(* one device does not pile up.                                            *)
(***************************************************************************)
EXTENDS Discovery, FiniteSetTheorems, TLAPS

RunFields == {"stage", "status", "found", "merged", "stale", "staleAssets",
              "candidates", "devices", "overlapped"}

(* A run that has read the inventory: every candidate it has read and not  *)
(* seen is stale, and whatever is stale had a device.                      *)
ReadOk(q) ==
  /\ Sound(q.merged)
  /\ q.status \in {"completed", "failed"}
  /\ q.candidates \ Ids(q.merged) \subseteq q.stale
  /\ q.stale \subseteq q.devices

InventoryInv ==
  /\ TypeOK
  /\ \A id \in DOMAIN candidate : candidate[id].sources # {}
  /\ DOMAIN run = Runs
  /\ \A r \in Runs : /\ DOMAIN run[r] = RunFields
                     /\ run[r].stage = "reading" => ReadOk(run[r])

Reading == {r \in Runs : run[r].stage = "reading"}
KeysInUse == UNION {candidate[id].keys : id \in DOMAIN candidate}

(* The records of a device that none of the runs in R has read.            *)
Unread(key, R) ==
  {id \in DOMAIN candidate : /\ key \in candidate[id].keys
                             /\ \A r \in R : id \notin run[r].candidates}

(* Each run that is still to commit has at most one record to add, and     *)
(* removes those that it has read.                                         *)
RecordsInv ==
  /\ InventoryInv
  /\ \A key \in KeysInUse : \A R \in SUBSET Reading :
       /\ IsFiniteSet(Unread(key, R))
       /\ Cardinality(Unread(key, R)) <= Cardinality(Runs \ R)

(* A new session knows nothing.                                            *)
LEMMA NoRunFields ==
  /\ DOMAIN NoRun = RunFields
  /\ NoRun.stage = "off"
BY DEF NoRun, RunFields

(* A session that is over is as a new one.                                 *)
LEMMA IdleFields ==
  /\ DOMAIN [NoRun EXCEPT !.stage = "idle"] = RunFields
  /\ [NoRun EXCEPT !.stage = "idle"].stage = "idle"
BY DEF NoRun, RunFields

(* The candidate that a row is written from is one of the merged ones.     *)
LEMMA WithIdIs ==
  ASSUME NEW merged, NEW id \in Ids(merged)
  PROVE  WithId(merged, id) \in Range(merged) /\ WithId(merged, id).id = id
<1>1. \E c \in Range(merged) : c.id = id
  BY DEF Ids
<1> QED BY <1>1 DEF WithId

(* The rows of what was seen are well-formed.                              *)
LEMMA RowsOk ==
  ASSUME NEW merged, Sound(merged)
  PROVE  /\ DOMAIN CandidateRows(merged) = Ids(merged)
         /\ DOMAIN DeviceRows(merged) = Ids(merged)
         /\ DOMAIN AssetRows(merged) = Ids(merged)
         /\ \A id \in Ids(merged) :
              /\ CandidateRows(merged)[id].keys = WithId(merged, id).keys
              /\ CandidateRows(merged)[id].sources # {}
              /\ CandidateRows(merged)[id].sources \subseteq Managed
              /\ DeviceRows(merged)[id].status \in
                   {"visible_only", "monitorable", "optimizable"}
              /\ DeviceRows(merged)[id].gated \in BOOLEAN
              /\ DeviceRows(merged)[id].sampled \in BOOLEAN
              /\ Range(DeviceRows(merged)[id].attempts)
                   \subseteq {"success", "partial", "info", "failed"}
              /\ AssetRows(merged)[id] = {id}
<1>1. /\ DOMAIN CandidateRows(merged) = Ids(merged)
      /\ DOMAIN DeviceRows(merged) = Ids(merged)
      /\ DOMAIN AssetRows(merged) = Ids(merged)
  BY DEF CandidateRows, DeviceRows, AssetRows
<1>2. ASSUME NEW id \in Ids(merged)
      PROVE  /\ CandidateRows(merged)[id].keys = WithId(merged, id).keys
             /\ CandidateRows(merged)[id].sources # {}
             /\ CandidateRows(merged)[id].sources \subseteq Managed
  BY <1>2, WithIdIs DEF CandidateRows, CandidateRow, Sound, Managed
<1>3. ASSUME NEW id \in Ids(merged)
      PROVE  /\ DeviceRows(merged)[id].status \in
                  {"visible_only", "monitorable", "optimizable"}
             /\ DeviceRows(merged)[id].gated \in BOOLEAN
             /\ DeviceRows(merged)[id].sampled \in BOOLEAN
             /\ Range(DeviceRows(merged)[id].attempts)
                  \subseteq {"success", "partial", "info", "failed"}
  <2> DEFINE c == WithId(merged, id)
  <2>1. c.gated \in BOOLEAN
    BY <1>3, WithIdIs DEF Sound
  <2> HIDE DEF c
  <2>2. DeviceRows(merged)[id] = DeviceRow(c)
    BY <1>3 DEF DeviceRows, c
  <2>3. Diagnose(c) \in {"visible_only", "monitorable", "optimizable"}
    BY DEF Diagnose
  <2>4. \A p : Assess(c, p) \in {"success", "partial", "info", "failed"}
    BY DEF Assess
  <2>5. /\ DeviceRow(c).status = Diagnose(c)
        /\ DeviceRow(c).gated = c.gated
        /\ DeviceRow(c).sampled \in BOOLEAN
        /\ DeviceRow(c).attempts = [p \in c.protocols |-> Assess(c, p)]
    BY DEF DeviceRow
  <2>6. Range(DeviceRow(c).attempts)
          \subseteq {"success", "partial", "info", "failed"}
    BY <2>4, <2>5 DEF Range
  <2> QED BY <2>1, <2>2, <2>3, <2>5, <2>6
<1>4. \A id \in Ids(merged) : AssetRows(merged)[id] = {id}
  BY DEF AssetRows
<1> QED BY <1>1, <1>2, <1>3, <1>4

(* Before the first start there is what an old release has left.           *)
LEMMA InventoryInit == Init => InventoryInv
<1> SUFFICES ASSUME Init PROVE InventoryInv
  OBVIOUS
<1>1. \A r \in Runs : run[r] = NoRun
  BY DEF Init
<1>2. \A id \in DOMAIN candidate :
        /\ candidate[id].sources = {"fixture_registry"}
        /\ device[id].status = "monitorable"
        /\ device[id].gated = FALSE /\ device[id].sampled = TRUE
        /\ device[id].attempts = <<>>
  BY DEF Init
<1>3. Range(<<>>) = {}
  BY DEF Range
<1>4. TypeOK
  <2>1. /\ DOMAIN candidate = DOMAIN device
        /\ \A id \in DOMAIN asset : asset[id] = {id}
        /\ report.status = "none"
    BY DEF Init, NoReport
  <2>2. \A id \in DOMAIN candidate :
          candidate[id].sources \subseteq Managed
    BY <1>2 DEF Managed
  <2>3. \A r \in Runs : run[r].stage = "off"
    BY <1>1, NoRunFields
  <2> QED BY <1>2, <1>3, <2>1, <2>2, <2>3 DEF TypeOK
<1>5. DOMAIN run = Runs
  BY DEF Init
<1> QED BY <1>1, <1>2, <1>4, <1>5, NoRunFields DEF InventoryInv

(* A start prunes candidates together with their devices.                  *)
LEMMA InventoryStart ==
  ASSUME InventoryInv, Start
  PROVE  InventoryInv'
<1> DEFINE stale == StaleCandidates(candidate, {"fixture_registry"}, {})
<1>1. /\ candidate' = Without(candidate, stale)
      /\ device' = Without(device, stale)
      /\ \E ids : asset' = Without(asset, ids)
      /\ run' = [r \in Runs |-> [NoRun EXCEPT !.stage = "idle"]]
      /\ UNCHANGED report
  BY DEF Start
<1> HIDE DEF stale
<1>2. /\ DOMAIN candidate' = DOMAIN candidate \ stale
      /\ \A id \in DOMAIN candidate' : candidate'[id] = candidate[id]
      /\ DOMAIN device' = DOMAIN device \ stale
      /\ \A id \in DOMAIN device' : device'[id] = device[id]
      /\ \A id \in DOMAIN asset' : id \in DOMAIN asset
                                   /\ asset'[id] = asset[id]
  BY <1>1 DEF Without
<1>3. \A r \in Runs : /\ DOMAIN run'[r] = RunFields
                      /\ run'[r].stage = "idle"
  BY <1>1, IdleFields
<1>4. TypeOK'
  <2>1. TypeOK
    BY DEF InventoryInv
  <2>2. /\ DOMAIN candidate' = DOMAIN device'
        /\ \A id \in DOMAIN candidate' :
             /\ id \in DOMAIN candidate
             /\ candidate'[id] = candidate[id] /\ device'[id] = device[id]
    BY <1>2, <2>1 DEF TypeOK
  <2>3. /\ report'.status \in {"none", "completed", "failed"}
        /\ \A id \in DOMAIN asset' : asset'[id] = {id}
    BY <1>1, <1>2, <2>1 DEF TypeOK
  <2> QED BY <1>3, <2>1, <2>2, <2>3 DEF TypeOK
<1> QED BY <1>1, <1>2, <1>3, <1>4 DEF InventoryInv

(* What a run reads: every candidate that it has not seen goes.            *)
LEMMA ReadIsOk ==
  ASSUME InventoryInv, ScansAreSound, NEW r \in Runs, Read(r)
  PROVE  /\ \E q : /\ run' = [run EXCEPT ![r] = q]
                   /\ DOMAIN q = RunFields
                   /\ q.stage = "reading" /\ ReadOk(q)
                   /\ q.candidates = DOMAIN candidate
         /\ UNCHANGED <<candidate, device, asset, report>>
<1>1. PICK scene \in Scenes, down \in Outages :
        LET batches == Batches(scene, down)
            found == Found(batches)
            merged == ReconcileCandidates(found)
            keep == Ids(merged)
        IN run' = [run EXCEPT ![r] =
             [stage |-> "reading", found |-> Range(found), merged |-> merged,
              status |-> RunStatus(batches, Len(merged)),
              stale |-> StaleCandidates(candidate, Managed, keep),
              staleAssets |-> StaleAssets(asset, keep),
              candidates |-> DOMAIN candidate, devices |-> DOMAIN device,
              overlapped |-> FALSE]]
  BY Zenon DEF Read
<1> DEFINE batches == Batches(scene, down)
           found == Found(batches)
           merged == ReconcileCandidates(found)
           keep == Ids(merged)
           stale == StaleCandidates(candidate, Managed, keep)
           status == RunStatus(batches, Len(merged))
           staleAssets == StaleAssets(asset, keep)
           seen == Range(found)
           q == [stage |-> "reading", found |-> seen, merged |-> merged,
                 status |-> status, stale |-> stale,
                 staleAssets |-> staleAssets,
                 candidates |-> DOMAIN candidate, devices |-> DOMAIN device,
                 overlapped |-> FALSE]
<1>2. run' = [run EXCEPT ![r] = q]
  BY <1>1, Zenon
<1>3. Sound(merged)
  BY DEF ScansAreSound
<1>4. status \in {"completed", "failed"}
  <2> HIDE DEF batches, merged
  <2> QED BY DEF RunStatus
<1>5. DOMAIN candidate = DOMAIN device
  BY DEF InventoryInv, TypeOK
<1>6. /\ stale \subseteq DOMAIN candidate
      /\ DOMAIN candidate \ keep \subseteq stale
  <2>1. \A id \in DOMAIN candidate :
          candidate[id].sources \cap Managed # {}
    BY DEF InventoryInv, TypeOK
  <2> HIDE DEF keep
  <2> QED BY <2>1 DEF StaleCandidates
<1> HIDE DEF stale, status, staleAssets, seen, batches, found, merged, keep
<1>7. /\ DOMAIN q = RunFields
      /\ q.stage = "reading" /\ q.merged = merged /\ q.status = status
      /\ q.stale = stale /\ q.candidates = DOMAIN candidate
      /\ q.devices = DOMAIN device
  BY DEF RunFields
<1> HIDE DEF q
<1>8. ReadOk(q)
  BY <1>3, <1>4, <1>5, <1>6, <1>7 DEF ReadOk, keep
<1>9. UNCHANGED <<candidate, device, asset, report>>
  BY DEF Read
<1> QED BY <1>2, <1>7, <1>8, <1>9

(* What a run has read stays as it is while others commit.                 *)
LEMMA ReadStays ==
  ASSUME NEW q, NEW p, DOMAIN q = RunFields, DOMAIN p = RunFields,
         \A f \in RunFields \ {"overlapped"} : p[f] = q[f]
  PROVE  /\ p.stage = q.stage /\ p.candidates = q.candidates
         /\ ReadOk(q) => ReadOk(p)
<1>1. /\ p.stage = q.stage /\ p.status = q.status /\ p.merged = q.merged
      /\ p.stale = q.stale /\ p.candidates = q.candidates
      /\ p.devices = q.devices
  BY DEF RunFields
<1> QED BY <1>1 DEF ReadOk

(* A run that commits is over, and the others keep what they have read.    *)
LEMMA CommitRuns ==
  ASSUME InventoryInv, NEW r \in Runs, Commit(r)
  PROVE  /\ DOMAIN run' = Runs
         /\ \A q \in Runs :
              /\ DOMAIN run'[q] = RunFields
              /\ q = r => run'[q].stage = "idle"
              /\ q # r => /\ run'[q].stage = run[q].stage
                         /\ run'[q].candidates = run[q].candidates
                         /\ (ReadOk(run[q]) => ReadOk(run'[q]))
<1>1. run' = [q \in Runs |->
        IF q = r THEN [NoRun EXCEPT !.stage = "idle"]
        ELSE [run[q] EXCEPT !.overlapped = @ \/ run[q].stage = "reading"]]
  BY Zenon DEF Commit
<1>2. ASSUME NEW q \in Runs, q # r
      PROVE  /\ DOMAIN run'[q] = RunFields
             /\ run'[q].stage = run[q].stage
             /\ run'[q].candidates = run[q].candidates
             /\ (ReadOk(run[q]) => ReadOk(run'[q]))
  <2>1. DOMAIN run[q] = RunFields
    BY DEF InventoryInv
  <2>2. PICK x : run'[q] = [run[q] EXCEPT !["overlapped"] = x]
    BY <1>1, <1>2, Zenon
  <2>3. /\ DOMAIN run'[q] = RunFields
        /\ \A f \in RunFields \ {"overlapped"} : run'[q][f] = run[q][f]
    BY <2>1, <2>2
  <2> QED BY <2>1, <2>3, ReadStays
<1>3. /\ DOMAIN run'[r] = RunFields
      /\ run'[r].stage = "idle"
  BY <1>1, IdleFields
<1>4. DOMAIN run' = Runs
  BY <1>1
<1> QED BY <1>2, <1>3, <1>4

(* What a run writes.                                                      *)
LEMMA CommitWrites ==
  ASSUME InventoryInv, NEW r \in Runs, Commit(r)
  PROVE  LET merged == run[r].merged
             ids == Ids(merged)
             gone == run[r].stale IN
         /\ run[r].stage = "reading" /\ ReadOk(run[r])
         /\ DOMAIN candidate' = (DOMAIN candidate \ gone) \cup ids
         /\ DOMAIN device' = (DOMAIN device \ gone) \cup ids
         /\ \A id \in ids : /\ candidate'[id] = CandidateRows(merged)[id]
                            /\ device'[id] = DeviceRows(merged)[id]
         /\ \A id \in DOMAIN candidate' \ ids :
              /\ candidate'[id] = candidate[id]
              /\ device'[id] = device[id]
         /\ \A id \in DOMAIN asset' : asset'[id] = {id}
         /\ report'.status = run[r].status
<1> DEFINE merged == run[r].merged
           ids == Ids(merged)
           gone == run[r].stale
<1>1. /\ run[r].stage = "reading"
      /\ candidate' = Upserted(Without(candidate, gone),
                               CandidateRows(merged))
      /\ device' = Upserted(Without(device, gone \cap run[r].devices),
                            DeviceRows(merged))
      /\ asset' = Upserted(Without(asset, run[r].staleAssets),
                           AssetRows(merged))
      /\ report' = [status |-> run[r].status, count |-> Len(merged)]
  BY Zenon DEF Commit
<1>2. ReadOk(run[r])
  BY <1>1 DEF InventoryInv
<1>3. gone \cap run[r].devices = gone
  BY <1>2 DEF ReadOk
<1>4. /\ DOMAIN CandidateRows(merged) = ids
      /\ DOMAIN DeviceRows(merged) = ids
      /\ DOMAIN AssetRows(merged) = ids
      /\ \A id \in ids : AssetRows(merged)[id] = {id}
  BY <1>2, RowsOk DEF ReadOk
<1> HIDE DEF ids, gone, merged
<1>5. /\ DOMAIN candidate' = (DOMAIN candidate \ gone) \cup ids
      /\ \A id \in ids : candidate'[id] = CandidateRows(merged)[id]
      /\ \A id \in DOMAIN candidate' \ ids : candidate'[id] = candidate[id]
  BY <1>1, <1>4 DEF Upserted, Without
<1>6. /\ DOMAIN device' = (DOMAIN device \ gone) \cup ids
      /\ \A id \in ids : device'[id] = DeviceRows(merged)[id]
      /\ \A id \in DOMAIN device' \ ids : device'[id] = device[id]
  BY <1>1, <1>3, <1>4 DEF Upserted, Without
<1>7. \A id \in DOMAIN asset' : asset'[id] = {id}
  <2>1. \A id \in DOMAIN asset : asset[id] = {id}
    BY DEF InventoryInv, TypeOK
  <2> QED BY <1>1, <1>4, <2>1 DEF Upserted, Without
<1>8. DOMAIN candidate = DOMAIN device
  BY DEF InventoryInv, TypeOK
<1>9. report'.status = run[r].status
  BY <1>1
<1> QED BY <1>1, <1>2, <1>5, <1>6, <1>7, <1>8, <1>9
        DEF ids, gone, merged

(* A commit deletes and writes candidates together with their devices.     *)
LEMMA InventoryCommit ==
  ASSUME InventoryInv, NEW r \in Runs, Commit(r)
  PROVE  InventoryInv'
<1> DEFINE merged == run[r].merged
           ids == Ids(merged)
           gone == run[r].stale
           Status == {"visible_only", "monitorable", "optimizable"}
           Result == {"success", "partial", "info", "failed"}
<1>1. /\ ReadOk(run[r])
      /\ DOMAIN candidate' = (DOMAIN candidate \ gone) \cup ids
      /\ DOMAIN device' = (DOMAIN device \ gone) \cup ids
      /\ \A id \in ids : /\ candidate'[id] = CandidateRows(merged)[id]
                         /\ device'[id] = DeviceRows(merged)[id]
      /\ \A id \in DOMAIN candidate' \ ids :
           /\ candidate'[id] = candidate[id]
           /\ device'[id] = device[id]
      /\ \A id \in DOMAIN asset' : asset'[id] = {id}
      /\ report'.status = run[r].status
  BY CommitWrites
<1>2. /\ DOMAIN candidate = DOMAIN device
      /\ \A id \in DOMAIN candidate :
           /\ candidate[id].sources # {}
           /\ candidate[id].sources \subseteq Managed
           /\ device[id].status \in Status
           /\ device[id].gated \in BOOLEAN /\ device[id].sampled \in BOOLEAN
           /\ Range(device[id].attempts) \subseteq Result
      /\ \A q \in Runs : /\ run[q].stage \in {"off", "idle", "reading"}
                         /\ DOMAIN run[q] = RunFields
                         /\ run[q].stage = "reading" => ReadOk(run[q])
  BY DEF InventoryInv, TypeOK
<1>3. \A id \in ids :
        /\ CandidateRows(merged)[id].sources # {}
        /\ CandidateRows(merged)[id].sources \subseteq Managed
        /\ DeviceRows(merged)[id].status \in Status
        /\ DeviceRows(merged)[id].gated \in BOOLEAN
        /\ DeviceRows(merged)[id].sampled \in BOOLEAN
        /\ Range(DeviceRows(merged)[id].attempts) \subseteq Result
  <2>1. Sound(merged)
    BY <1>1 DEF ReadOk
  <2>2. ASSUME NEW m, Sound(m), NEW id \in Ids(m)
        PROVE  /\ CandidateRows(m)[id].sources # {}
               /\ CandidateRows(m)[id].sources \subseteq Managed
               /\ DeviceRows(m)[id].status \in Status
               /\ DeviceRows(m)[id].gated \in BOOLEAN
               /\ DeviceRows(m)[id].sampled \in BOOLEAN
               /\ Range(DeviceRows(m)[id].attempts) \subseteq Result
    BY <2>2, RowsOk
  <2> QED BY <2>1, <2>2
<1>4. report'.status \in {"completed", "failed"}
  BY <1>1 DEF ReadOk
<1> HIDE DEF merged, ids, gone, Status, Result
<1>5. ASSUME NEW id \in DOMAIN candidate'
      PROVE  /\ candidate'[id].sources # {}
             /\ candidate'[id].sources \subseteq Managed
             /\ device'[id].status \in Status
             /\ device'[id].gated \in BOOLEAN
             /\ device'[id].sampled \in BOOLEAN
             /\ Range(device'[id].attempts) \subseteq Result
  <2>1. CASE id \in ids
    BY <1>1, <1>3, <2>1
  <2>2. CASE id \notin ids
    <3>1. /\ id \in DOMAIN candidate
          /\ candidate'[id] = candidate[id] /\ device'[id] = device[id]
      BY <1>1, <1>5, <2>2
    <3> QED BY <1>2, <3>1
  <2> QED BY <2>1, <2>2
<1>6. ASSUME NEW q \in Runs
      PROVE  /\ DOMAIN run'[q] = RunFields
             /\ run'[q].stage \in {"off", "idle", "reading"}
             /\ run'[q].stage = "reading" => ReadOk(run'[q])
  BY <1>2, <1>6, CommitRuns
<1>7. DOMAIN candidate' = DOMAIN device'
  BY <1>1, <1>2
<1>8. DOMAIN run' = Runs
  BY CommitRuns
<1> QED BY <1>1, <1>4, <1>5, <1>6, <1>7, <1>8
        DEF InventoryInv, TypeOK, Status, Result

(* A read and a failure leave the inventory alone.                         *)
LEMMA InventorySession ==
  ASSUME InventoryInv, NEW r \in Runs, NEW q,
         run' = [run EXCEPT ![r] = q],
         DOMAIN q = RunFields,
         q.stage = "idle" \/ (q.stage = "reading" /\ ReadOk(q)),
         UNCHANGED <<candidate, device, asset, report>>
  PROVE  InventoryInv'
<1>1. /\ DOMAIN run' = Runs
      /\ run'[r] = q
      /\ \A s \in Runs \ {r} : run'[s] = run[s]
  BY DEF InventoryInv
<1>2. \A s \in Runs : /\ run'[s].stage \in {"off", "idle", "reading"}
                      /\ DOMAIN run'[s] = RunFields
                      /\ run'[s].stage = "reading" => ReadOk(run'[s])
  BY <1>1 DEF InventoryInv, TypeOK
<1>3. TypeOK'
  <2>1. TypeOK
    BY DEF InventoryInv
  <2> QED BY <1>2, <2>1 DEF TypeOK
<1> QED BY <1>1, <1>2, <1>3 DEF InventoryInv

(* Every step keeps the inventory and what the runs have read of it.       *)
LEMMA InventoryStep ==
  ASSUME InventoryInv, ScansAreSound, [Next]_vars
  PROVE  InventoryInv'
<1>1. CASE Start
  BY <1>1, InventoryStart
<1>2. ASSUME NEW r \in Runs, Read(r)
      PROVE  InventoryInv'
  <2>1. PICK q : /\ run' = [run EXCEPT ![r] = q]
                 /\ DOMAIN q = RunFields
                 /\ q.stage = "reading" /\ ReadOk(q)
    BY <1>2, ReadIsOk
  <2>2. UNCHANGED <<candidate, device, asset, report>>
    BY <1>2 DEF Read
  <2> QED BY <2>1, <2>2, InventorySession
<1>3. ASSUME NEW r \in Runs, Commit(r)
      PROVE  InventoryInv'
  BY <1>3, InventoryCommit
<1>4. ASSUME NEW r \in Runs, Fail(r)
      PROVE  InventoryInv'
  <2> DEFINE q == [NoRun EXCEPT !.stage = "idle"]
  <2>1. DOMAIN q = RunFields /\ q.stage = "idle"
    BY IdleFields
  <2>2. /\ run' = [run EXCEPT ![r] = q]
        /\ UNCHANGED <<candidate, device, asset, report>>
    BY <1>4 DEF Fail
  <2> HIDE DEF q
  <2> QED BY <2>1, <2>2, InventorySession
<1>5. CASE UNCHANGED vars
  BY <1>5 DEF vars, InventoryInv, TypeOK
<1> QED BY <1>1, <1>2, <1>3, <1>4, <1>5 DEF Next

(* Rows and sessions keep their types, and a candidate and its device are  *)
(* written and deleted together, whatever runs overlap: a run that was     *)
(* overtaken deletes the devices of just those candidates that it deletes. *)
THEOREM TypeCorrect == ASSUME ScansAreSound PROVE Spec => []TypeOK
<1>1. InventoryInv /\ [Next]_vars => InventoryInv'
  BY InventoryStep
<1>2. InventoryInv => TypeOK
  BY DEF InventoryInv
<1> QED BY <1>1, <1>2, InventoryInit, PTL DEF Spec

(* A set that lies in another one of bounded size is bounded itself.       *)
LEMMA Bounded ==
  ASSUME NEW S, NEW T, NEW n, S \subseteq T, IsFiniteSet(T),
         Cardinality(T) <= n, n \in Nat
  PROVE  IsFiniteSet(S) /\ Cardinality(S) <= n
<1>1. /\ IsFiniteSet(S) /\ Cardinality(S) \in Nat /\ Cardinality(T) \in Nat
      /\ Cardinality(S) <= Cardinality(T)
  BY FS_Subset, FS_CardinalityType
<1> QED BY <1>1

(* The runs that are not in R are counted, one less with each in R.        *)
LEMMA RunsLeft ==
  ASSUME NEW R, R \subseteq Runs
  PROVE  /\ IsFiniteSet(Runs \ R) /\ Cardinality(Runs \ R) \in Nat
         /\ \A r \in Runs \ R :
              Cardinality(Runs \ R) = Cardinality(Runs \ (R \cup {r})) + 1
<1>1. /\ IsFiniteSet(Runs \ R) /\ Cardinality(Runs \ R) \in Nat
  BY ConstantsAssumption, FS_Subset, FS_CardinalityType
<1>2. ASSUME NEW r \in Runs \ R
      PROVE  Cardinality(Runs \ R) = Cardinality(Runs \ (R \cup {r})) + 1
  <2>1. Runs \ (R \cup {r}) = (Runs \ R) \ {r}
    OBVIOUS
  <2>2. Cardinality((Runs \ R) \ {r}) = Cardinality(Runs \ R) - 1
    BY <1>1, <1>2, FS_RemoveElement
  <2> DEFINE n == Cardinality(Runs \ R)
             m == Cardinality(Runs \ (R \cup {r}))
  <2>3. n \in Nat /\ m = n - 1
    BY <1>1, <2>1, <2>2
  <2> HIDE DEF n, m
  <2>4. n = m + 1
    BY <2>3
  <2> QED BY <2>4 DEF n, m
<1> QED BY <1>1, <1>2

(* Of a device nobody has a record of, there are none to count.            *)
LEMMA UnreadBounded ==
  ASSUME RecordsInv, NEW key, NEW R, R \subseteq Reading
  PROVE  /\ IsFiniteSet(Unread(key, R))
         /\ Cardinality(Unread(key, R)) \in Nat
         /\ Cardinality(Unread(key, R)) <= Cardinality(Runs \ R)
<1>1. R \subseteq Runs
  BY DEF Reading
<1>2. CASE key \in KeysInUse
  BY <1>2, FS_CardinalityType DEF RecordsInv
<1>3. CASE key \notin KeysInUse
  <2>1. Unread(key, R) = {}
    BY <1>3 DEF Unread, KeysInUse
  <2> QED BY <1>1, <2>1, FS_EmptySet, RunsLeft
<1> QED BY <1>2, <1>3

(* At most one of the merged candidates carries a key.                     *)
LEMMA OneOfAKey ==
  ASSUME NEW merged, Sound(merged), NEW key
  PROVE  LET M == {id \in Ids(merged) : key \in WithId(merged, id).keys} IN
         IsFiniteSet(M) /\ Cardinality(M) <= 1
<1> DEFINE M == {id \in Ids(merged) : key \in WithId(merged, id).keys}
<1> SUFFICES IsFiniteSet(M) /\ Cardinality(M) <= 1
  OBVIOUS
<1>1. \A i, j \in M : i = j
  <2> SUFFICES ASSUME NEW i \in M, NEW j \in M
               PROVE  i = j
    OBVIOUS
  <2>1. /\ WithId(merged, i) \in Range(merged) /\ WithId(merged, i).id = i
        /\ WithId(merged, j) \in Range(merged) /\ WithId(merged, j).id = j
    BY WithIdIs
  <2>2. WithId(merged, i) = WithId(merged, j)
    BY <2>1 DEF Sound
  <2> QED BY <2>1, <2>2
<1> HIDE DEF M
<1>2. CASE M = {}
  BY <1>2, FS_EmptySet
<1>3. CASE M # {}
  <2>1. PICK i \in M : M = {i}
    BY <1>1, <1>3
  <2>2. IsFiniteSet({i}) /\ Cardinality({i}) = 1
    BY FS_Singleton
  <2> QED BY <2>1, <2>2
<1> QED BY <1>2, <1>3

(* The records that a commit leaves of a device are those that neither the *)
(* run itself nor any of the others has read, and the one that it writes.  *)
LEMMA CommitAddsOne ==
  ASSUME RecordsInv, NEW r \in Runs, Commit(r), NEW key,
         NEW R, R \subseteq Reading \ {r}
  PROVE  Unread(key, R)' \subseteq
           Unread(key, R \cup {r})
             \cup {id \in Ids(run[r].merged) :
                     key \in WithId(run[r].merged, id).keys}
<1> DEFINE merged == run[r].merged
           ids == Ids(merged)
           gone == run[r].stale
<1>0. InventoryInv
  BY DEF RecordsInv
<1>1. /\ ReadOk(run[r])
      /\ DOMAIN candidate' = (DOMAIN candidate \ gone) \cup ids
      /\ \A id \in ids : candidate'[id] = CandidateRows(merged)[id]
      /\ \A id \in DOMAIN candidate' \ ids : candidate'[id] = candidate[id]
  BY <1>0, CommitWrites
<1>2. /\ Sound(merged)
      /\ run[r].candidates \ ids \subseteq gone
  BY <1>1 DEF ReadOk
<1>3. \A id \in ids :
        CandidateRows(merged)[id].keys = WithId(merged, id).keys
  BY <1>2, RowsOk
<1>4. \A q \in R : run'[q].candidates = run[q].candidates
  <2>1. \A q \in R : q \in Runs /\ q # r
    BY DEF Reading
  <2> QED BY <1>0, <2>1, CommitRuns
<1> HIDE DEF merged, ids, gone
<1>5. ASSUME NEW id \in DOMAIN candidate', key \in candidate'[id].keys,
             \A q \in R : id \notin run'[q].candidates
      PROVE  \/ id \in Unread(key, R \cup {r})
             \/ id \in ids /\ key \in WithId(merged, id).keys
  <2>1. CASE id \in ids
    BY <1>1, <1>3, <1>5, <2>1
  <2>2. CASE id \notin ids
    <3>1. /\ id \in DOMAIN candidate \ gone
          /\ key \in candidate[id].keys
          /\ id \notin run[r].candidates
      BY <1>1, <1>2, <1>5, <2>2
    <3> QED BY <1>4, <1>5, <3>1 DEF Unread
  <2> QED BY <2>1, <2>2
<1> QED BY <1>5 DEF Unread, merged, ids

(* A run that commits adds one record of a device at most, and is one less *)
(* of those that still have to.                                            *)
LEMMA RecordsCommit ==
  ASSUME RecordsInv, NEW r \in Runs, Commit(r)
  PROVE  RecordsInv'
<1>1. InventoryInv /\ run[r].stage = "reading"
  BY DEF RecordsInv, Commit
<1>2. InventoryInv' /\ Sound(run[r].merged)
  BY <1>1, InventoryCommit DEF InventoryInv, ReadOk
<1>3. Reading' \subseteq Reading \ {r}
  BY <1>1, CommitRuns DEF Reading
<1>4. r \in Reading
  BY <1>1 DEF Reading
<1>5. ASSUME NEW key, NEW R \in SUBSET Reading'
      PROVE  /\ IsFiniteSet(Unread(key, R)')
             /\ Cardinality(Unread(key, R)') <= Cardinality(Runs \ R)
  <2> DEFINE merged == run[r].merged
             M == {id \in Ids(merged) : key \in WithId(merged, id).keys}
             U == Unread(key, R \cup {r})
             n == Cardinality(Runs \ R)
             m == Cardinality(Runs \ (R \cup {r}))
  <2>1. R \subseteq Reading \ {r} /\ R \subseteq Runs
    BY <1>3, <1>5 DEF Reading
  <2>2. Unread(key, R)' \subseteq U \cup M
    BY <2>1, CommitAddsOne
  <2>3. IsFiniteSet(M) /\ Cardinality(M) <= 1
    BY <1>2, OneOfAKey
  <2>4. IsFiniteSet(U) /\ Cardinality(U) \in Nat /\ Cardinality(U) <= m
    <3>1. R \cup {r} \subseteq Reading
      BY <1>4, <2>1
    <3> QED BY <3>1, UnreadBounded
  <2>5. n \in Nat /\ m \in Nat /\ n = m + 1
    <3>1. R \cup {r} \subseteq Runs /\ r \in Runs \ R
      BY <2>1
    <3> QED BY <2>1, <3>1, RunsLeft
  <2> HIDE DEF M, U, n, m
  <2>6. /\ IsFiniteSet(U \cup M)
        /\ Cardinality(U \cup M) <= Cardinality(U) + Cardinality(M)
        /\ Cardinality(M) \in Nat
    <3>1. Cardinality(U \cap M) \in Nat
      BY <2>4, FS_Intersection, FS_CardinalityType
    <3> QED BY <2>3, <2>4, <3>1, FS_Union, FS_CardinalityType
  <2>7. Cardinality(U \cup M) <= n
    BY <2>3, <2>4, <2>5, <2>6, FS_CardinalityType
  <2>8. /\ IsFiniteSet(Unread(key, R)')
        /\ Cardinality(Unread(key, R)') <= n
    BY <2>2, <2>5, <2>6, <2>7, Bounded
  <2> QED BY <2>8 DEF n
<1> QED BY <1>2, <1>5 DEF RecordsInv

(* A run that reads the inventory has read every record of every device.   *)
LEMMA RecordsRead ==
  ASSUME RecordsInv, InventoryInv', NEW r \in Runs, NEW q,
         run' = [run EXCEPT ![r] = q],
         q.candidates = DOMAIN candidate \/ q.stage # "reading",
         UNCHANGED candidate
  PROVE  RecordsInv'
<1>1. /\ run'[r] = q
      /\ \A s \in Runs \ {r} : run'[s] = run[s]
  BY DEF RecordsInv, InventoryInv
<1>2. ASSUME NEW key, NEW R \in SUBSET Reading'
      PROVE  /\ IsFiniteSet(Unread(key, R)')
             /\ Cardinality(Unread(key, R)') <= Cardinality(Runs \ R)
  <2>1. R \subseteq Runs
    BY <1>2 DEF Reading
  <2>2. CASE r \in R
    <3>1. q.candidates = DOMAIN candidate
      BY <1>1, <1>2, <2>2 DEF Reading
    <3>2. Unread(key, R)' = {}
      BY <1>1, <2>2, <3>1 DEF Unread
    <3> QED BY <2>1, <3>2, FS_EmptySet, RunsLeft
  <2>3. CASE r \notin R
    <3>1. R \subseteq Reading /\ \A s \in R : run'[s] = run[s]
      BY <1>1, <1>2, <2>3 DEF Reading
    <3>2. Unread(key, R)' = Unread(key, R)
      BY <3>1 DEF Unread
    <3> QED BY <3>1, <3>2, UnreadBounded
  <2> QED BY <2>2, <2>3
<1> QED BY <1>2 DEF RecordsInv

(* After a start no run is under way, and no record is new.                *)
LEMMA RecordsStart ==
  ASSUME RecordsInv, Start
  PROVE  RecordsInv'
<1>1. InventoryInv'
  BY InventoryStart DEF RecordsInv
<1>2. Reading' = {}
  <2>1. \A r \in Runs : run'[r].stage = "idle"
    BY IdleFields DEF Start
  <2> QED BY <2>1 DEF Reading
<1>3. /\ DOMAIN candidate' \subseteq DOMAIN candidate
      /\ \A id \in DOMAIN candidate' : candidate'[id] = candidate[id]
  BY DEF Start, Without
<1>4. ASSUME NEW key, NEW R \in SUBSET Reading'
      PROVE  /\ IsFiniteSet(Unread(key, R)')
             /\ Cardinality(Unread(key, R)') <= Cardinality(Runs \ R)
  <2>1. R = {}
    BY <1>2, <1>4
  <2>2. Unread(key, R)' \subseteq Unread(key, R)
    BY <1>3, <2>1 DEF Unread
  <2>3. /\ IsFiniteSet(Unread(key, R))
        /\ Cardinality(Unread(key, R)) <= Cardinality(Runs \ R)
    BY <2>1, UnreadBounded
  <2>4. Cardinality(Runs \ R) \in Nat
    BY <2>1, RunsLeft
  <2> QED BY <2>2, <2>3, <2>4, Bounded
<1> QED BY <1>1, <1>4 DEF RecordsInv

(* Every step keeps the bound.                                             *)
LEMMA RecordsStep ==
  ASSUME RecordsInv, ScansAreSound, [Next]_vars
  PROVE  RecordsInv'
<1>1. InventoryInv'
  BY InventoryStep DEF RecordsInv
<1>2. CASE Start
  BY <1>2, RecordsStart
<1>3. ASSUME NEW r \in Runs, Read(r)
      PROVE  RecordsInv'
  <2>1. PICK q : /\ run' = [run EXCEPT ![r] = q]
                 /\ q.candidates = DOMAIN candidate
    BY <1>3, ReadIsOk DEF RecordsInv
  <2>2. UNCHANGED candidate
    BY <1>3 DEF Read
  <2> QED BY <1>1, <2>1, <2>2, RecordsRead
<1>4. ASSUME NEW r \in Runs, Commit(r)
      PROVE  RecordsInv'
  BY <1>4, RecordsCommit
<1>5. ASSUME NEW r \in Runs, Fail(r)
      PROVE  RecordsInv'
  <2> DEFINE q == [NoRun EXCEPT !.stage = "idle"]
  <2>1. q.stage # "reading"
    BY IdleFields
  <2>2. run' = [run EXCEPT ![r] = q] /\ UNCHANGED candidate
    BY <1>5 DEF Fail
  <2> HIDE DEF q
  <2> QED BY <1>1, <2>1, <2>2, RecordsRead
<1>6. CASE UNCHANGED vars
  <2>1. UNCHANGED <<candidate, run>>
    BY <1>6 DEF vars
  <2> QED BY <1>1, <2>1 DEF RecordsInv, KeysInUse, Unread, Reading
<1> QED BY <1>2, <1>3, <1>4, <1>5, <1>6 DEF Next

(* Of what an old release has left nothing carries a key.                  *)
LEMMA RecordsInit == Init => RecordsInv
<1> SUFFICES ASSUME Init PROVE RecordsInv
  OBVIOUS
<1>1. InventoryInv
  BY InventoryInit
<1>2. KeysInUse = {}
  BY DEF Init, KeysInUse
<1> QED BY <1>1, <1>2 DEF RecordsInv

(* Of one device there are never more records than runs that can be under  *)
(* way at the same time.  A run deletes every record that it has read of   *)
(* the device and writes at most one, so that the records which none of a  *)
(* set of running runs has read are no more than the runs outside of it.   *)
THEOREM RecordsDoNotPileUp ==
  ASSUME ScansAreSound PROVE Spec => []RecordsPerDevice
<1>1. RecordsInv /\ [Next]_vars => RecordsInv'
  BY RecordsStep
<1>2. RecordsInv => RecordsPerDevice
  <2> SUFFICES ASSUME RecordsInv, NEW id \in DOMAIN candidate,
                      NEW key \in candidate[id].keys
               PROVE  Cardinality({other \in DOMAIN candidate :
                                     key \in candidate[other].keys})
                        <= Cardinality(Runs)
    BY DEF RecordsPerDevice
  <2>1. Unread(key, {}) = {other \in DOMAIN candidate :
                             key \in candidate[other].keys}
    BY DEF Unread
  <2>2. Cardinality(Unread(key, {})) <= Cardinality(Runs \ {})
    BY UnreadBounded
  <2>3. Runs \ {} = Runs
    OBVIOUS
  <2> QED BY <2>1, <2>2, <2>3
<1> QED BY <1>1, <1>2, RecordsInit, PTL DEF Spec
=============================================================================
