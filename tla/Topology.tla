-------------------------------- MODULE Topology --------------------------------
(***************************************************************************)
(* controllers/storagecluster/topology.go, api/v1/topologymap.go: every    *)
(* reconcile lists the nodes for storage, collects their topology labels   *)
(* and determines, the first time, over what Ceph spreads its replicas:    *)
(* the failure domain. If that is the rack, nodes without a rack label get *)
(* one, one patch after the other. Then the CephCluster and the pools are  *)
(* made for the failure domain, and the status is written that remembers   *)
(* it. Nodes come, go and change their labels meanwhile, nodes and the     *)
(* StorageCluster come from caches that may not show the last patches and  *)
(* the last status, patches and status updates fail, the operator crashes. *)
(***************************************************************************)
EXTENDS Naturals, Sequences, FiniteSets

CONSTANTS
  Nodes,            \* names of nodes
  RackNames,        \* in alphabetical order: "rack0" and so on, those of users
  OperatorRacks,    \* how many of RackNames are of the form "rack<number>"
  Zones,            \* names of availability zones
  Starts,           \* StorageClusters with the nodes there are for them
  Labellings,       \* the labels a node may have when it joins
  MaxEdits,         \* bound: nodes that join, leave or change
  MaxDisturbances   \* bound: failed calls, crashes

(* The labels for the zone: topology.kubernetes.io/zone, and its ancestors *)
(* failure-domain.beta.kubernetes.io/zone and the one without "beta". All  *)
(* those a node has have the same value. Those for the region are treated  *)
(* alike and decide nothing.                                               *)
ZoneKeys == {"stable", "beta", "old"}
Racks == DOMAIN RackNames
NoRack == 0

Labels == {l \in [zone: Zones \cup {""}, zoneKeys: SUBSET ZoneKeys,
                  rack: Racks \cup {NoRack}] : l.zone = "" <=> l.zoneKeys = {}}
Absent == [gone |-> TRUE]

Cluster == [arbiter: BOOLEAN, flexible: BOOLEAN, single: BOOLEAN,
            replicas: SUBSET Nat]   \* spec.storageDeviceSets[].replica

ASSUME TopologyAssumption ==
  /\ Nodes \subseteq STRING /\ IsFiniteSet(Nodes)
  /\ RackNames \in Seq(STRING)
  /\ OperatorRacks \in 1..Len(RackNames)
  /\ Zones \subseteq STRING \ {""}
  /\ Labellings \subseteq Labels
  /\ Starts \subseteq [cluster: Cluster, nodes: [Nodes -> Labels \cup {Absent}]]
  /\ \A start \in Starts : IsFiniteSet(start.cluster.replicas)
  /\ MaxEdits \in Nat /\ MaxDisturbances \in Nat

VARIABLES
  cluster,      \* what the StorageCluster asks for
  nodes,        \* by name, the labels of a node for storage, or Absent
  recent,       \* nodes that got a rack since the nodes were listed last
  status,       \* the topology in the status of the StorageCluster
  seen,         \* the same as the reconciles saw it last
  pools,        \* the failure domain the CephCluster and the pools have
  pass,         \* the reconcile in progress
  spoiled,      \* racks that users made hold nodes of two zones, or that
                \* changed behind the back of a reconcile
  foreign,      \* did a node leave, or come with a rack, or did the cache
                \* not show one?
  edits, disturbances

vars == <<cluster, nodes, recent, status, seen, pools, pass, spoiled, foreign,
          edits, disturbances>>

Domains == {"", "rack", "zone", "host", "osd"}

(* key: the label found for the failure domain, or the domain itself.      *)
Status == [domain: Domains, key: Domains \cup ZoneKeys \cup {"rackLabel",
                                                              "hostname"},
           values: SUBSET STRING, racks: SUBSET Racks]

NoStatus == [domain |-> "", key |-> "", values |-> {}, racks |-> {}]
NoPass == [at |-> "idle", read |-> NoStatus, listed |-> <<>>, racks |-> <<>>,
           todo |-> {}, status |-> NoStatus]

TypeOK ==
  /\ cluster \in Cluster
  /\ nodes \in [Nodes -> Labels \cup {Absent}]
  /\ recent \subseteq Nodes
  /\ status \in Status
  /\ seen \in Status
  /\ pools \in Domains
  /\ pass.at \in {"idle", "racks", "status"}
  /\ pass.todo \subseteq DOMAIN pass.listed
  /\ pass.read \in Status
  /\ pass.status \in Status
  /\ DOMAIN pass.listed \subseteq Nodes
  /\ \A n \in DOMAIN pass.listed : pass.listed[n] \in Labels
  /\ DOMAIN pass.racks \subseteq Racks
  /\ \A r \in DOMAIN pass.racks : pass.racks[r] \subseteq Nodes
  /\ spoiled \subseteq Racks
  /\ foreign \in BOOLEAN
  /\ edits \in 0..MaxEdits
  /\ disturbances \in 0..MaxDisturbances

(* Racks with nodes of two zones.                                          *)
MixedRacks ==
  {r \in Racks :
     \E n, m \in {n \in Nodes : nodes[n] # Absent} :
       /\ nodes[n].rack = r /\ nodes[m].rack = r
       /\ nodes[n].zone # "" /\ nodes[m].zone # ""
       /\ nodes[n].zone # nodes[m].zone}

Init ==
  /\ \E start \in Starts : cluster = start.cluster /\ nodes = start.nodes
  /\ recent = {}
  /\ status = NoStatus
  /\ seen = NoStatus
  /\ pools = ""
  /\ pass = NoPass
  /\ spoiled = MixedRacks
  /\ foreign = (\E n \in Nodes : nodes[n] # Absent /\ nodes[n].rack # NoRack)
  /\ edits = 0
  /\ disturbances = 0

Least(set) == CHOOSE x \in set : \A y \in set : x <= y
Greatest(set) == CHOOSE x \in set : \A y \in set : x >= y

Disturb ==
  /\ disturbances < MaxDisturbances
  /\ disturbances' = disturbances + 1
  /\ UNCHANGED edits

Undisturbed == UNCHANGED <<edits, disturbances>>

Edit ==
  /\ edits < MaxEdits
  /\ edits' = edits + 1
  /\ UNCHANGED disturbances

-----------------------------------------------------------------------------
(* What the cluster needs                                                  *)

(* The devices of a set go to different failure domains, so to different   *)
(* nodes: two for arbiter and each of them twice.                          *)
MinDeviceSetReplica ==
  IF cluster.arbiter THEN 2 ELSE IF cluster.single THEN 1 ELSE 3

ReplicasPerFailureDomain == IF cluster.arbiter THEN 2 ELSE 1

MinimumNodes ==
  Greatest({MinDeviceSetReplica * ReplicasPerFailureDomain}
             \cup cluster.replicas)

-----------------------------------------------------------------------------
(* The topology map                                                        *)

(* The nodes by the cache, which misses some racks.                        *)
Listing(missed) ==
  [n \in {n \in Nodes : nodes[n] # Absent} |->
     IF n \in missed THEN [nodes[n] EXCEPT !.rack = NoRack] ELSE nodes[n]]

ZonesBy(listed, key) ==
  {listed[n].zone : n \in {n \in DOMAIN listed : key \in listed[n].zoneKeys}}

KeysFound(listed) == {k \in ZoneKeys : ZonesBy(listed, k) # {}}

AllKeysOnAll(listed) == \A n \in DOMAIN listed : listed[n].zoneKeys = ZoneKeys

(* Mutant: a new label in use is given up again for the ancestors.         *)
FilteredCautiously(read, listed) ==
  LET found == KeysFound(listed) IN
  IF read.domain = ""
    THEN IF "stable" \in found THEN {"stable"} ELSE found
  ELSE IF AllKeysOnAll(listed) THEN found \cap {"stable"}
  ELSE found \ {"stable"}

(* filterDuplicateLabels: the first time the new label is preferred. When  *)
(* the failure domain is there, the new label is used if it was before;    *)
(* otherwise it takes over only if all nodes have all labels.              *)
FilterDuplicateLabels(read, listed) ==
  LET found == KeysFound(listed) IN
  IF read.domain = ""
    THEN IF "stable" \in found THEN {"stable"} ELSE found
  ELSE IF read.key = "stable" \/ AllKeysOnAll(listed)
    THEN found \cap {"stable"}
  ELSE found \ {"stable"}

RacksOf(listed) == {listed[n].rack : n \in DOMAIN listed} \ {NoRack}
NamesOf(racks) == {RackNames[r] : r \in racks}

(* GetKeyValues: a label that contains the name of the failure domain, any *)
(* of those in the map, with its values; if there is none, the name.       *)
KeyValues(domain, read, listed) ==
  LET keys == FilterDuplicateLabels(read, listed) IN
  IF domain = "zone" /\ keys # {}
    THEN {[key |-> k, values |-> ZonesBy(listed, k)] : k \in keys}
  ELSE IF domain = "rack" /\ RacksOf(listed) # {}
    THEN {[key |-> "rackLabel", values |-> NamesOf(RacksOf(listed))]}
  ELSE IF domain = "host"
    THEN {[key |-> "hostname", values |-> DOMAIN listed]}
  ELSE {[key |-> domain, values |-> {}]}

(* Mutant: determined anew by every reconcile.                             *)
FailureDomainOfNow(read, listed) ==
  IF cluster.single THEN "osd"
  ELSE IF cluster.flexible THEN "host"
  ELSE IF \E k \in FilterDuplicateLabels(read, listed) :
            Cardinality(ZonesBy(listed, k)) >= (IF cluster.arbiter THEN 2 ELSE 3)
    THEN "zone"
  ELSE "rack"

(* setFailureDomain: "We don't change the failure domain after it is       *)
(* determined".                                                            *)
FailureDomain(read, listed) ==
  IF read.domain # "" THEN read.domain
  ELSE IF cluster.single THEN "osd"
  ELSE IF cluster.flexible THEN "host"
  ELSE IF \E k \in FilterDuplicateLabels(read, listed) :
            Cardinality(ZonesBy(listed, k)) >= (IF cluster.arbiter THEN 2 ELSE 3)
    THEN "zone"
  ELSE "rack"

(* Mutant: the locations are those found when it was determined.           *)
StatusOnce(read, listed) ==
  LET domain == FailureDomain(read, listed) IN
  IF read.domain # "" THEN {read}
  ELSE {[domain |-> domain, key |-> kv.key, values |-> kv.values,
         racks |-> RacksOf(listed)] :
          kv \in KeyValues(IF domain = "osd" THEN "host" ELSE domain,
                          read, listed)}

(* The key and the locations are looked up again every time: for a domain  *)
(* "osd" those of the hosts, though only when it is determined.            *)
NewStatus(read, listed) ==
  LET domain == FailureDomain(read, listed)
      lookedUp == IF domain = "osd" /\ read.domain = "" THEN "host"
                  ELSE domain
  IN {[domain |-> domain, key |-> kv.key, values |-> kv.values,
       racks |-> RacksOf(listed)] : kv \in KeyValues(lookedUp, read, listed)}

-----------------------------------------------------------------------------
(* Racks for nodes                                                         *)

(* Mutant: the number after the last.                                      *)
RackAfterLast(racks, from) == Greatest(DOMAIN racks \cup {from - 1}) + 1

(* Operator racks are "rack0", "rack1", ...                                *)
NextRack(racks, from) ==
  Least({r \in 1..OperatorRacks : r >= from /\ r \notin DOMAIN racks})

WithRack(racks, r) == [x \in DOMAIN racks \cup {r} |->
                         IF x \in DOMAIN racks THEN racks[x] ELSE {}]

(* Mutant: a rack is defined when there is none at all.                    *)
DefinedIfNone(racks, minRacks) ==
  IF DOMAIN racks = {} THEN WithRack(racks, NextRack(racks, 1)) ELSE racks

(* One more rack is defined while there are too few.                       *)
Defined(racks, minRacks) ==
  IF Cardinality(DOMAIN racks) < minRacks
       /\ \E r \in 1..minRacks : r \notin DOMAIN racks
    THEN WithRack(racks, NextRack(racks, 1))
  ELSE racks

(* Mutant: a rack may be any, whatever the zones of the nodes in it.       *)
AnyRack(racks, zone, listed) == DOMAIN racks

(* Racks without nodes, or with a node in the zone of the one to be placed *)
(* ("EBS volumes cannot move to a different AZ").                          *)
ValidRacks(racks, zone, listed) ==
  {r \in DOMAIN racks :
     \/ zone = "" \/ racks[r] = {}
     \/ \E n \in racks[r] : listed[n].zone = zone}

(* determinePlacementRack: the first of the racks with the fewest nodes.   *)
Fewest(valid, racks) ==
  LET few == {r \in valid : \A x \in valid :
                Cardinality(racks[r]) <= Cardinality(racks[x])}
  IN Least(few)

DeterminePlacementRack(zone) ==
  LET racks == Defined(pass.racks, MinimumNodes)
      valid == ValidRacks(racks, zone, pass.listed)
  IN IF valid = {} THEN NextRack(racks, Cardinality(DOMAIN racks) + 1)
     ELSE Fewest(valid, racks)

(* The racks after that, with those that were defined but not taken.       *)
Placed(n, r) ==
  LET racks == WithRack(Defined(pass.racks, MinimumNodes), r)
  IN [racks EXCEPT ![r] = @ \cup {n}]

-----------------------------------------------------------------------------
(* The reconcile                                                           *)

(* reconcileNodeTopologyMap, to where the failure domain is set: with too  *)
(* few nodes it returns an error, and nothing changes.                     *)
ReconcileWith(read, listed) ==
  /\ Cardinality(DOMAIN listed) >= MinimumNodes
  /\ \E new \in NewStatus(read, listed) :
       pass' = [at |-> "racks", read |-> read, listed |-> listed, status |-> new,
                racks |-> [r \in RacksOf(listed) |->
                             {n \in DOMAIN listed : listed[n].rack = r}],
                todo |-> IF new.domain # "rack" THEN {}
                         ELSE {n \in DOMAIN listed : listed[n].rack = NoRack}]

(* The caches show the status and the patches of the reconcile before, or, *)
(* rarely, not. (The copy of the StorageCluster is the one that had been   *)
(* read last, or the last: a status update from any other fails.)          *)
ReconcileNodeTopologyMap ==
  /\ pass.at = "idle"
  /\ \/ /\ ReconcileWith(status, Listing({}))
        /\ seen' = status
        /\ Undisturbed
        /\ UNCHANGED <<spoiled, foreign>>
     \/ /\ Disturb
        /\ \E read \in {seen, status}, missed \in SUBSET recent :
             /\ read # status \/ missed # {}
             /\ ReconcileWith(read, Listing(missed))
             /\ seen' = read
             /\ spoiled' = spoiled \cup
                             {r \in Racks : \E n \in missed : nodes[n].rack = r}
             /\ foreign' = (foreign \/ missed # {})
  /\ recent' = {}
  /\ UNCHANGED <<cluster, nodes, status, pools>>

(* ensureNodeRacks: a node without a rack gets one. It may be gone by now, *)
(* or the patch fails: the reconcile ends with what the status has so far. *)
EnsureNodeRack ==
  /\ pass.at = "racks"
  /\ \E x \in 1..OperatorRacks :                  \* a number is left (bound)
       x > Cardinality(DOMAIN pass.racks) /\ x \notin DOMAIN pass.racks
  /\ \E n \in pass.todo :
       LET r == DeterminePlacementRack(pass.listed[n].zone) IN
          \/ /\ nodes[n] # Absent
             /\ nodes' = [nodes EXCEPT ![n].rack = r]
             /\ recent' = IF nodes' = nodes THEN recent ELSE recent \cup {n}
             /\ pass' = [pass EXCEPT !.todo = @ \ {n},
                                     !.racks = Placed(n, r),
                                     !.status.racks = @ \cup {r}]
             /\ spoiled' = IF nodes[n].zone = pass.listed[n].zone THEN spoiled
                           ELSE spoiled \cup {r}
             /\ Undisturbed
          \/ /\ pass' = [pass EXCEPT !.at = "status",
                                     !.status.racks = @ \cup {r}]
             /\ \/ nodes[n] = Absent /\ Undisturbed
                \/ Disturb
             /\ UNCHANGED <<nodes, recent, spoiled>>
  /\ UNCHANGED <<cluster, status, seen, pools, foreign>>

(* When all have racks, what the reconcile does next uses the failure      *)
(* domain it has in memory: the CephCluster and the pools are made for it. *)
Deploy ==
  /\ pass.at = "racks" /\ pass.todo = {}
  /\ pass' = [pass EXCEPT !.at = "status"]
  /\ \/ pools' = pass.status.domain /\ Undisturbed
     \/ Disturb /\ UNCHANGED pools
  /\ UNCHANGED <<cluster, nodes, recent, status, seen, spoiled, foreign>>

(* Whatever became of the reconcile, the status is updated after it. If    *)
(* the copy it began with was not the last, or something else changed the  *)
(* StorageCluster, that is a conflict and what was determined is lost.     *)
WriteStatus ==
  /\ pass.at = "status"
  /\ pass' = NoPass
  /\ \/ status = pass.read /\ status' = pass.status /\ Undisturbed
     \/ status # pass.read /\ Undisturbed /\ UNCHANGED status
     \/ Disturb /\ UNCHANGED status
  /\ UNCHANGED <<cluster, nodes, recent, seen, pools, spoiled, foreign>>

Crash ==
  /\ pass.at # "idle"
  /\ Disturb
  /\ pass' = NoPass
  /\ seen' = status
  /\ UNCHANGED <<cluster, nodes, recent, status, pools, spoiled, foreign>>

-----------------------------------------------------------------------------
(* The nodes                                                               *)

(* What users do can give a rack two zones. That it changed is not in the  *)
(* list of nodes that a reconcile in progress goes by.                     *)
Changed(racks) ==
  spoiled' = spoiled \cup MixedRacks'
               \cup (IF pass.at = "racks" THEN racks \ {NoRack} ELSE {})

(* A node is made one for storage, with the labels it has.                 *)
NodeJoins ==
  /\ Edit
  /\ \E n \in Nodes :
       /\ nodes[n] = Absent
       /\ \E labels \in Labellings :
            /\ nodes' = [nodes EXCEPT ![n] = labels]
            /\ Changed({labels.rack})
            /\ foreign' = (foreign \/ labels.rack # NoRack)
  /\ UNCHANGED <<cluster, recent, status, seen, pools, pass>>

NodeLeaves ==
  /\ Edit
  /\ \E n \in Nodes :
       /\ nodes[n] # Absent
       /\ nodes' = [nodes EXCEPT ![n] = Absent]
       /\ recent' = recent \ {n}
  /\ foreign' = TRUE
  /\ UNCHANGED <<cluster, status, seen, pools, pass, spoiled>>

(* One leaves and another takes its place.                                 *)
NodeReplaced ==
  /\ Edit
  /\ \E n, m \in Nodes, labels \in Labellings :
       /\ nodes[n] # Absent /\ nodes[m] = Absent
       /\ nodes' = [nodes EXCEPT ![n] = Absent, ![m] = labels]
       /\ recent' = recent \ {n}
       /\ Changed({labels.rack})
  /\ foreign' = TRUE
  /\ UNCHANGED <<cluster, status, seen, pools, pass>>

(* The labels for the zone change; the rack stays what it is.              *)
NodeRelabelled ==
  /\ Edit
  /\ \E n \in Nodes, labels \in Labellings :
       /\ nodes[n] # Absent
       /\ nodes' = [nodes EXCEPT ![n].zone = labels.zone,
                                 ![n].zoneKeys = labels.zoneKeys]
       /\ Changed({nodes[n].rack})
  /\ UNCHANGED <<cluster, recent, status, seen, pools, pass, foreign>>

(* Kubernetes is updated: another set of labels has the zones.             *)
NodesRelabelled ==
  /\ Edit
  /\ \E keys \in {labels.zoneKeys : labels \in Labellings} \ {{}} :
       nodes' = [n \in Nodes |->
                   IF nodes[n] = Absent \/ nodes[n].zone = "" THEN nodes[n]
                   ELSE [nodes[n] EXCEPT !.zoneKeys = keys]]
  /\ nodes' # nodes
  /\ UNCHANGED <<cluster, recent, status, seen, pools, pass, spoiled,
                 foreign>>

Reconcile ==
  \/ ReconcileNodeTopologyMap \/ EnsureNodeRack \/ Deploy \/ WriteStatus

Next ==
  \/ Reconcile \/ Crash
  \/ NodeJoins \/ NodeLeaves \/ NodeReplaced
  \/ NodeRelabelled \/ NodesRelabelled

(* The StorageCluster is reconciled for every change of the CephCluster's  *)
(* status, which has the time Rook last looked, and nodes are not watched. *)
Spec == Init /\ [][Next]_vars /\ WF_vars(Reconcile)

-----------------------------------------------------------------------------
(* Properties                                                              *)

(* A rack never holds nodes of two zones, volumes cannot follow an OSD     *)
(* from one to the other, unless users made it so, or changed it while a   *)
(* reconcile went by what it had listed: whatever the order in which nodes *)
(* got their racks, in which reconcile, and what failed between.           *)
RacksKeepZones == MixedRacks \subseteq spoiled

(* Ceph is deployed over racks only when there are as many of them as the  *)
(* cluster needs failure domains, where the operator labelled the nodes.   *)
EnoughRacks ==
  (/\ pass.at = "racks" /\ pass.todo = {}
   /\ pass.status.domain = "rack" /\ ~foreign)
    => Cardinality(pass.status.racks) >= MinimumNodes

(* The failure domain in the status stays, whatever copies of it the       *)
(* reconciles began with, and pools that move to another, with all their   *)
(* data, move to that one. Only a reconcile whose copy had none yet, as it *)
(* was not recorded or the cache did not show it, determines it anew: the  *)
(* nodes of the moment may then give another, for which the pools are made *)
(* before the conflict comes, until a later reconcile moves them back.     *)
DomainKept ==
  [][/\ status.domain # "" => status'.domain = status.domain
     /\ (status.domain # "" /\ pools' # pools)
          => pools' = status.domain \/ pass.read.domain = ""]_vars

(* A label that is in use for the zones stays in use for as long as there  *)
(* are nodes with it, until all nodes have the new label and the old ones, *)
(* with one exception: when nodes have both of the old ones, each of the   *)
(* reconciles takes either of them, by the order Go has for the keys of a  *)
(* map (GetKeyValues), so the key goes from one to the other and back.     *)
ZoneKeyKept ==
  [][(status.key \in ZoneKeys /\ status'.key # status.key)
       => \/ ZonesBy(pass.listed, status.key) = {}
          \/ status'.key = "stable" /\ AllKeysOnAll(pass.listed)
          \/ /\ {status.key, status'.key} = {"beta", "old"}
             /\ {"beta", "old"} \subseteq KeysFound(pass.listed)]_vars

(* When nodes do not change any more, the pools come to have the failure   *)
(* domain of the status, wherever stale copies and lost status updates     *)
(* moved them, and the status the locations the nodes are in, although it  *)
(* is filled before the last racks are given out and the cache shows these *)
(* late. Locations do not settle once a reconcile found no node with a     *)
(* zone: the name of the domain it left as the key makes all that follow   *)
(* discard the new label. Nor do they for an OSD as the domain.            *)
Locations ==
  CASE status.domain = "rack" -> NamesOf(RacksOf(Listing({})))
    [] status.domain = "zone" /\ status.key \in ZoneKeys ->
         ZonesBy(Listing({}), status.key)
    [] status.domain = "host" -> DOMAIN Listing({})
    [] OTHER -> {}

Locatable == status.domain # "osd" /\ status.key # "zone"

ValuesSettle ==
  <>[](Cardinality(DOMAIN Listing({})) >= MinimumNodes
         => /\ status.domain # "" /\ pools = status.domain
            /\ Locatable => status.values = Locations)
=============================================================================
