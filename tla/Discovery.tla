----------------------------- MODULE Discovery -----------------------------
(***************************************************************************)
(* Discovery: five sources look at the local network, what they see of the *)
(* same device is merged by identity, and the result replaces the          *)
(* inventory, which is a candidate, a device and an asset per device.      *)
(*                                                                         *)
(* A run scans for seconds before it reads the inventory, and reads it     *)
(* before it holds the write lock, so two runs can overlap: the second one *)
(* writes by what it read before the first one committed.  Every start of  *)
(* the process prunes what an old release has left in the inventory.       *)
(*                                                                         *)
(* What devices, brokers and announcements say is external: a sighting is  *)
(* what one source can get to see of one device.  The ids of a candidate,  *)
(* of its device and of its asset differ in their prefix only.             *)
(***************************************************************************)
EXTENDS Integers, FiniteSets, FiniteSetsExt, SequencesExt

CONSTANTS
  Runs,           \* requests that run a discovery
  Sightings,      \* what the sources may see
  Scenes,         \* which of it at the same time
  Outages,        \* sources and subnets that fail at the same time
  Configured,     \* subnets of the site's settings
  Reachable,      \* subnets of the host's routing table
  ModbusLive,     \* whether subnets are scanned for Modbus/TCP
  Broker,         \* whether the site has an MQTT broker
  MaxHosts,       \* known hosts probed for Modbus/TCP without that scan
  Legacy,         \* ids a release with fixtures has left behind
  None            \* no value

Sources == {"local_network_live", "modbus_live", "eebus_ship_live",
            "network_broadcast_live", "mqtt_live"}

(* Labels are the positions of display names in their order.               *)
ASSUME ConstantsAssumption ==
  /\ Scenes \subseteq SUBSET Sightings
  /\ \A s \in Sightings : s.source \in Sources /\ s.label \in Nat
  /\ ModbusLive \in BOOLEAN /\ Broker \in BOOLEAN
  /\ MaxHosts \in Nat
  /\ \A s, t \in Sightings : s.label = t.label => s = t
  /\ IsFiniteSet(Runs)

VARIABLES
  candidate,      \* DeviceCandidate rows by id
  device,         \* Device rows
  asset,          \* Asset rows, the devices of each
  report,         \* the latest DiscoveryRun row
  run             \* the sessions of the requests

vars == <<candidate, device, asset, report, run>>

-----------------------------------------------------------------------------
(* Raw candidates: what each source makes of what it sees.  A candidate    *)
(* has keys by which it is recognised; every http-host key comes with the  *)
(* network-host key of the same host and is left out.                      *)

Known(values) == {v \in values : v # None}
FirstKnown(values) == SelectSeq(values, LAMBDA v : v # None)[1]
Keys(kind, values) == {<<kind, v>> : v \in Known(values)}
ByLabel(S) == SetToSortSeq(S, LAMBDA x, y : x.label < y.label)

Raw(s, id, protocols, keys) ==
  [id |-> <<s.source, id>>, sources |-> {s.source}, protocols |-> protocols,
   keys |-> keys, telemetry |-> {}, monitorable |-> FALSE,
   controllable |-> FALSE, gated |-> FALSE, evidence |-> {},
   label |-> s.label, generic |-> FALSE]

(* _build_tasmota_candidate, _build_shelly_candidate and, for any other    *)
(* page, _build_generic_candidate.  Without its status document a plug is  *)
(* known by its host alone.                                                *)
HttpIdentity(s) ==
  IF ~s.answered THEN <<>>
  ELSE CASE s.family = "tasmota" -> <<s.mac, s.slug>>
         [] s.family = "shelly" -> <<s.slug, s.mac>>
         [] OTHER -> <<>>

HttpCandidate(s) ==
  LET identity == HttpIdentity(s)
      metrics == IF identity = <<>> THEN {} ELSE s.metrics
      known == IF identity = <<>> THEN {}
               ELSE Keys("mac", {s.mac}) \cup Keys("mqtt-slug", {s.slug})
  IN [Raw(s, FirstKnown(identity \o <<s.host>>), {"http_local"},
          Keys("network-host", {s.host}) \cup known)
       EXCEPT !.telemetry = metrics,
              !.monitorable = metrics # {},
              !.controllable = metrics # {} /\ s.appliance,
              !.generic = s.generic]

(* build_candidate_from_modbus_probe: a device with a dispatch profile is  *)
(* controllable even if none of its registers could be read.               *)
ModbusCandidate(s) ==
  [Raw(s, s.host, {"modbus_tcp"}, Keys("network-host", {s.host}))
    EXCEPT !.telemetry = s.metrics \cup (IF s.profile THEN {"control"}
                                         ELSE {}),
           !.monitorable = s.metrics # {},
           !.controllable = s.profile]

(* _build_announcement_candidate: the announcements of one host, or of one *)
(* service if they name no host, are one candidate.                        *)
Group(s) == IF s.host # None THEN s.host ELSE s.service

BroadcastCandidate(group) ==
  LET first == ByLabel(group)[1]
      all(field) == {s[field] : s \in group}
  IN Raw(first, Group(first),
         all("protocol") \cup {"eebus_ship" : s \in {t \in group : t.ship}},
         Keys("network-host", all("host") \cup UNION all("urls"))
           \cup Keys("service-name", all("service"))
           \cup Keys("service-instance", all("instance"))
           \cup Keys("service-uuid", all("uuid")))

(* _build_tasmota_candidate and _build_shelly_candidate of mqtt.py         *)
MqttCandidate(s) ==
  [Raw(s, s.slug, {"mqtt"}, Keys("mqtt-slug", {s.slug}))
    EXCEPT !.telemetry = s.metrics, !.monitorable = TRUE,
           !.evidence = {"mqtt_topics"}]

(* build_candidate_from_ship_service *)
ShipCandidate(s) ==
  [Raw(s, FirstKnown(<<s.shipId, s.ski, s.service, s.host>>),
       {"eebus_ship"},
       Keys("service-name", {s.service})
         \cup Keys("eebus-ship-id", {s.shipId})
         \cup Keys("eebus-ski", {s.ski})
         \cup Keys("network-host", {s.host}))
    EXCEPT !.telemetry = {"eebus_ship_advertised"}, !.gated = TRUE,
           !.evidence = IF s.ski = None THEN {} ELSE {"ski"}]

-----------------------------------------------------------------------------
(* Batches: what each source reports of a scan.  A subnet in down cannot   *)
(* be scanned, a source in down fails.                                     *)

ScanSubnets == IF Configured # {} THEN Configured ELSE Reachable

Batch(source, status, candidates) ==
  [source |-> source, status |-> status, candidates |-> candidates]

From(scene, source) == {s \in scene : s.source = source}

(* _combine_batches over the subnets of a scan, in their order             *)
Combined(source, found, down) ==
  LET completed == ScanSubnets \ down
  IN IF ScanSubnets = {} THEN Batch(source, "skipped", <<>>)
     ELSE IF completed = {} THEN Batch(source, "failed", <<>>)
     ELSE Batch(source, "completed",
                FlattenSeq(SetToSeq({ByLabel(found[n]) : n \in completed})))

Whole(source, found, down) ==
  IF source \in down THEN Batch(source, "failed", <<>>)
  ELSE Batch(source, "completed", ByLabel(found))

(* discover_local_network_site: pages that are not about energy are none   *)
LocalBatch(scene, down) ==
  LET pages == {s \in From(scene, "local_network_live") :
                  s.family # "other"}
  IN Combined("local_network_live",
              [n \in ScanSubnets |->
                {HttpCandidate(s) : s \in {p \in pages : p.subnet = n}}],
              down)

(* discover_modbus_site *)
ModbusBatch(scene, down) ==
  Combined("modbus_live",
           [n \in ScanSubnets |-> {ModbusCandidate(s) :
             s \in {t \in From(scene, "modbus_live") : t.subnet = n}}],
           down)

(* _known_modbus_probe_hosts and discover_modbus_hosts: without a scan for *)
(* Modbus/TCP, the hosts whose pages were found are asked, if any answers. *)
KnownHosts(batch) ==
  LET hosts(c) == {k[2] : k \in {q \in c.keys : q[1] = "network-host"}}
  IN UNION {hosts(batch.candidates[i]) :
            i \in {j \in DOMAIN batch.candidates : j <= MaxHosts}}

TargetedBatch(scene, batch) ==
  Batch("modbus_live", "completed",
        ByLabel({ModbusCandidate(s) :
          s \in {t \in From(scene, "modbus_live") :
                 t.host \in KnownHosts(batch)}}))

(* discover_network_broadcast, discover_mqtt_site, discover_eebus_site     *)
BroadcastBatch(scene, down) ==
  LET heard == From(scene, "network_broadcast_live")
      groups == {{s \in heard : Group(s) = g} : g \in {Group(s) : s \in heard}}
  IN Whole("network_broadcast_live",
           {BroadcastCandidate(g) : g \in
             {h \in groups : \E s \in h : s.relevant}}, down)

MqttBatch(scene, down) ==
  Whole("mqtt_live",
        {MqttCandidate(s) : s \in
          {t \in From(scene, "mqtt_live") : t.metrics # {}}}, down)

ShipBatch(scene, down) ==
  Whole("eebus_ship_live",
        {ShipCandidate(s) : s \in From(scene, "eebus_ship_live")}, down)

(* _discover_batches *)
Batches(scene, down) ==
  LET local == LocalBatch(scene, down)
      targeted == TargetedBatch(scene, local)
  IN <<local>>
     \o (IF ModbusLive \/ targeted.candidates = <<>> THEN <<>>
         ELSE <<targeted>>)
     \o <<BroadcastBatch(scene, down)>>
     \o (IF ModbusLive THEN <<ModbusBatch(scene, down)>> ELSE <<>>)
     \o (IF Broker THEN <<MqttBatch(scene, down)>> ELSE <<>>)
     \o <<ShipBatch(scene, down)>>

Found(batches) == FlattenSeq([i \in DOMAIN batches |-> batches[i].candidates])

-----------------------------------------------------------------------------
(* reconcile_candidates: raw candidates that share a key, directly or over *)
(* others, become one.                                                     *)

KeysOf(cluster) == UNION {c.keys : c \in Range(cluster)}

Join(clusters, c) ==
  LET hit == {i \in DOMAIN clusters : KeysOf(clusters[i]) \cap c.keys # {}}
      rest == hit \ {Min(hit)}
      absorbed == [j \in 1..Cardinality(rest) |->
                    clusters[SetToSortSeq(rest, >)[j]]]
      kept == SetToSortSeq(DOMAIN clusters \ rest, <)
  IN IF hit = {} THEN Append(clusters, <<c>>)
     ELSE [j \in DOMAIN kept |->
            IF kept[j] = Min(hit)
            THEN Append(clusters[kept[j]], c) \o FlattenSeq(absorbed)
            ELSE clusters[kept[j]]]

(* _source_rank; fewer than fifty metrics keep it lexicographic.           *)
Priority == [local_network_live |-> 0, modbus_live |-> 1,
             eebus_ship_live |-> 2, network_broadcast_live |-> 3,
             mqtt_live |-> 4]
SourceRank(c) ==
  100 * Min({Priority[s] : s \in c.sources})
    + (IF c.monitorable THEN 0 ELSE 50) - Cardinality(c.telemetry)

Best(cluster, S) ==
  cluster[Min({i \in S : \A j \in S :
                 SourceRank(cluster[i]) <= SourceRank(cluster[j])})]

\* Mutant: what only another source says of a device is lost.
MergeIntoBest(cluster) ==
  [Best(cluster, DOMAIN cluster) EXCEPT !.keys = KeysOf(cluster)]

(* _merge_cluster: ids and evidence are those of the best candidate.       *)
MergeCluster(cluster) ==
  LET primary == Best(cluster, DOMAIN cluster)
      all == Range(cluster)
      named == {i \in DOMAIN cluster : ~cluster[i].generic}
  IN IF Len(cluster) = 1 THEN primary
     ELSE [primary EXCEPT
            !.sources = UNION {c.sources : c \in all},
            !.protocols = UNION {c.protocols : c \in all},
            !.keys = KeysOf(cluster),
            !.telemetry = UNION {c.telemetry : c \in all},
            !.monitorable = \E c \in all : c.monitorable,
            !.controllable = \E c \in all : c.controllable,
            !.gated = \E c \in all : c.gated,
            !.label = IF named = {} THEN @ ELSE Best(cluster, named).label]

ReconcileCandidates(raw) ==
  LET clusters == FoldLeft(Join, <<>>, raw)
      merged == {MergeCluster(clusters[i]) : i \in DOMAIN clusters}
  IN ByLabel(merged)

-----------------------------------------------------------------------------
(* Rows *)

(* assess_connectors: what the evidence of the best candidate says of the  *)
(* protocols of all.                                                       *)
Assess(c, protocol) ==
  CASE protocol = "mqtt" ->
         IF "mqtt_topics" \in c.evidence THEN "success" ELSE "failed"
    [] protocol = "modbus_tcp" ->
         IF c.controllable \/ c.monitorable THEN "success" ELSE "info"
    [] protocol = "http_local" ->
         IF c.monitorable THEN "success" ELSE "info"
    [] protocol = "eebus_ship" ->
         IF "ski" \in c.evidence THEN "info" ELSE "partial"
    [] OTHER -> "info"

(* diagnose_candidate: no source reports an issue of its own.              *)
Diagnose(c) ==
  IF ~c.monitorable THEN "visible_only"
  ELSE IF c.controllable THEN "optimizable" ELSE "monitorable"

CandidateRow(c) == [sources |-> c.sources, keys |-> c.keys]
DeviceRow(c) ==
  [status |-> Diagnose(c), gated |-> c.gated,
   sampled |-> c.telemetry # {},
   attempts |-> [p \in c.protocols |-> Assess(c, p)]]

Ids(raw) == {c.id : c \in Range(raw)}
WithId(raw, id) == CHOOSE c \in Range(raw) : c.id = id
CandidateRows(raw) == [id \in Ids(raw) |-> CandidateRow(WithId(raw, id))]
DeviceRows(raw) == [id \in Ids(raw) |-> DeviceRow(WithId(raw, id))]
AssetRows(raw) == [id \in Ids(raw) |-> {id}]
Upserted(rows, seen) ==
  [id \in DOMAIN rows \cup DOMAIN seen |->
    IF id \in DOMAIN seen THEN seen[id] ELSE rows[id]]
Without(rows, ids) == [id \in DOMAIN rows \ ids |-> rows[id]]

\* Mutant: a run prunes the rows of fixtures only.
ManagedFixtures == {"fixture_registry"}

Managed == Sources \cup {"fixture_registry"}

(* _remove_materialization_for_sources, on the rows a session has read:    *)
(* candidates of the sources go with their devices unless they are kept,   *)
(* and every asset goes whose device is not kept.                          *)
StaleCandidates(rows, sources, keep) ==
  {id \in DOMAIN rows \ keep : rows[id].sources \cap sources # {}}
StaleAssets(rows, keep) == {id \in DOMAIN rows : rows[id] \cap keep = {}}

-----------------------------------------------------------------------------
(* Runs.  found and merged are what a run has scanned; stale, staleAssets, *)
(* candidates and devices are what it read of the inventory.  overlapped   *)
(* says that another run has committed since.                              *)
NoRun == [stage |-> "off", status |-> "none", found |-> {},
          merged |-> <<>>, stale |-> {}, staleAssets |-> {},
          candidates |-> {}, devices |-> {}, overlapped |-> FALSE]
NoReport == [status |-> "none", count |-> 0]

(* _build_discovery_status *)
RunStatus(batches, count) ==
  LET statuses == {batches[i].status : i \in DOMAIN batches} \ {"skipped"}
  IN IF statuses = {} \/ ("failed" \in statuses /\ count = 0)
     THEN "failed" ELSE "completed"

Init ==
  /\ candidate = [id \in Legacy |-> [sources |-> {"fixture_registry"},
                                     keys |-> {}]]
  /\ device = [id \in Legacy |-> [status |-> "monitorable",
                                  gated |-> FALSE, sampled |-> TRUE,
                                  attempts |-> <<>>]]
  /\ asset = [id \in Legacy |-> {id}]
  /\ report = NoReport
  /\ run = [r \in Runs |-> NoRun]

(* The process starts, or starts again: whatever was running is gone, and  *)
(* prune_legacy_fixture_inventory keeps nothing of the fixtures.           *)
Start ==
  LET stale == StaleCandidates(candidate, {"fixture_registry"}, {})
  IN /\ candidate' = Without(candidate, stale)
     /\ device' = Without(device, stale)
     /\ asset' = Without(asset, StaleAssets(asset, {}))
     /\ run' = [r \in Runs |-> [NoRun EXCEPT !.stage = "idle"]]
     /\ UNCHANGED report

(* run_discovery up to the first statement that takes the write lock: the  *)
(* scan is over, the inventory has been read.                              *)
Read(r) ==
  /\ run[r].stage = "idle"
  /\ \E scene \in Scenes, down \in Outages :
       LET batches == Batches(scene, down)
           found == Found(batches)
           merged == ReconcileCandidates(found)
           keep == Ids(merged)
       IN run' = [run EXCEPT ![r] =
            [stage |-> "reading", found |-> Range(found), merged |-> merged,
             status |-> RunStatus(batches, Len(merged)),
             stale |-> StaleCandidates(candidate, Managed, keep),
             staleAssets |-> StaleAssets(asset, keep),
             candidates |-> DOMAIN candidate, devices |-> DOMAIN device,
             overlapped |-> FALSE]]
  /\ UNCHANGED <<candidate, device, asset, report>>

(* The rows of the first candidate were looked up before the lock was      *)
(* taken, those of the others after it.  Inserting one that is there by    *)
(* now, or updating one that is gone, fails the whole session.             *)
Conflicting(r) ==
  /\ run[r].merged # <<>>
  /\ LET first == run[r].merged[1].id
     IN (first \in run[r].candidates /\ first \in run[r].devices)
          # (first \in DOMAIN candidate /\ first \in DOMAIN device)

\* Mutant: candidates that were not seen go, their devices stay.
CommitKeepsDevices(r) ==
  LET merged == run[r].merged
      gone == run[r].stale
  IN /\ run[r].stage = "reading"
     /\ ~Conflicting(r)
     /\ candidate' = Upserted(Without(candidate, gone), CandidateRows(merged))
     /\ device' = Upserted(device, DeviceRows(merged))
     /\ asset' = Upserted(Without(asset, run[r].staleAssets),
                          AssetRows(merged))
     /\ report' = [status |-> run[r].status, count |-> Len(merged)]
     /\ run' = [q \in Runs |->
          IF q = r THEN [NoRun EXCEPT !.stage = "idle"]
          ELSE [run[q] EXCEPT !.overlapped = @ \/ run[q].stage = "reading"]]

(* The rest of run_discovery, in one transaction: the rows of devices that *)
(* were not seen go, those of the others are written.                      *)
Commit(r) ==
  LET merged == run[r].merged
      gone == run[r].stale
  IN /\ run[r].stage = "reading"
     /\ ~Conflicting(r)
     /\ candidate' = Upserted(Without(candidate, gone), CandidateRows(merged))
     /\ device' = Upserted(Without(device, gone \cap run[r].devices),
                           DeviceRows(merged))
     /\ asset' = Upserted(Without(asset, run[r].staleAssets),
                          AssetRows(merged))
     /\ report' = [status |-> run[r].status, count |-> Len(merged)]
     /\ run' = [q \in Runs |->
          IF q = r THEN [NoRun EXCEPT !.stage = "idle"]
          ELSE [run[q] EXCEPT !.overlapped = @ \/ run[q].stage = "reading"]]

(* The session is rolled back and the request answered with an error.      *)
Fail(r) ==
  /\ run[r].stage = "reading"
  /\ Conflicting(r)
  /\ run' = [run EXCEPT ![r] = [NoRun EXCEPT !.stage = "idle"]]
  /\ UNCHANGED <<candidate, device, asset, report>>

Next ==
  \/ Start
  \/ \E r \in Runs : Read(r) \/ Commit(r) \/ Fail(r)

Spec == Init /\ [][Next]_vars

-----------------------------------------------------------------------------
(* Properties *)

(* Rows and sessions have their types, and a candidate and its device are  *)
(* written and deleted together, whatever runs overlap.                    *)
TypeOK ==
  /\ DOMAIN candidate = DOMAIN device
  /\ \A id \in DOMAIN candidate :
       /\ candidate[id].sources \subseteq Managed
       /\ device[id].status \in {"visible_only", "monitorable",
                                 "optimizable"}
       /\ device[id].gated \in BOOLEAN /\ device[id].sampled \in BOOLEAN
       /\ Range(device[id].attempts)
            \subseteq {"success", "partial", "info", "failed"}
  /\ \A id \in DOMAIN asset : asset[id] = {id}
  /\ report.status \in {"none", "completed", "failed"}
  /\ \A r \in Runs : run[r].stage \in {"off", "idle", "reading"}

(* The devices of what was found: candidates that are linked by shared     *)
(* keys, directly or over others.                                          *)
Closed(C, S) == \A x \in C, y \in S \ C : x.keys \cap y.keys = {}
SameDevice(S) ==
  LET closed == {C \in SUBSET S : Closed(C, S)}
  IN {{y \in S : \A C \in closed : x \in C => y \in C} : x \in S}

(* A run that no other one overlaps leaves exactly one record for each     *)
(* device that any source has seen, under the id of its best source, and   *)
(* nothing of any other; the record says of the device what any of its     *)
(* sources says, and the report counts the devices.                        *)
ScanIsMaterialised ==
  [][\A r \in Runs : Commit(r) /\ ~run[r].overlapped =>
       LET found == run[r].found
           devices == SameDevice(found)
           recorded(K) == {c.id : c \in K} \cap DOMAIN device'
       IN /\ DOMAIN device' \subseteq {c.id : c \in found}
          /\ DOMAIN asset' = DOMAIN device'
          /\ report'.count = Cardinality(devices)
          /\ \A K \in devices :
               /\ Cardinality(recorded(K)) = 1
               /\ \A id \in recorded(K), c \in K :
                    /\ Priority[id[1]] <= Priority[c.id[1]]
                    /\ c.monitorable => device'[id].status # "visible_only"
                    /\ c.gated => device'[id].gated
                    /\ c.protocols \subseteq DOMAIN device'[id].attempts
    ]_vars

(* What a scan finds is merged into well-formed candidates, of which no    *)
(* two share a key.                                                        *)
Sound(merged) ==
  /\ \A c \in Range(merged) : /\ c.sources # {} /\ c.sources \subseteq Sources
                              /\ c.gated \in BOOLEAN
  /\ \A c, d \in Range(merged) : c.keys \cap d.keys # {} => c = d

ScansAreSound ==
  \A scene \in Scenes, down \in Outages :
    Sound(ReconcileCandidates(Found(Batches(scene, down))))

(* Of one device there are never more records than there are runs at the   *)
(* same time: what overlapping runs have left twice does not pile up.      *)
RecordsPerDevice ==
  \A id \in DOMAIN candidate : \A key \in candidate[id].keys :
    Cardinality({other \in DOMAIN candidate : key \in candidate[other].keys})
      <= Cardinality(Runs)

(* Device and asset are said to be persisted: a device in the inventory    *)
(* still has its asset, which the HEMS plans with, after the process has   *)
(* started again.  (The HEMS makes up for it only for devices that have a  *)
(* load-control configuration, under an id of its own.)                    *)
DevicesHaveAssets ==
  (\A r \in Runs : run[r].stage # "off") => DOMAIN device \subseteq DOMAIN asset

=============================================================================
