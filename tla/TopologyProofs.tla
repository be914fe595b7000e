----------------------------- MODULE TopologyProofs -----------------------------
(***************************************************************************)
(* Proofs about Topology, for any nodes, labels, clusters and bounds: the  *)
(* operator never makes a rack hold nodes of two zones, there are as many  *)
(* racks as replicas, the failure domain in the status stays, and the      *)
(* label for the zones stays while it is used.                             *)
(***************************************************************************)
EXTENDS Topology, FiniteSetTheorems, WellFoundedInduction, TLAPS

-----------------------------------------------------------------------------
(* Least elements                                                          *)

(* A set of natural numbers that is not empty has a least element: the     *)
(* intervals up to its elements are finite sets, which are well-founded    *)
(* with respect to inclusion.                                              *)
LEMMA LeastIsIn ==
  ASSUME NEW set, set \subseteq Nat, set # {}
  PROVE  Least(set) \in set /\ \A y \in set : Least(set) <= y
<1> DEFINE intervals == {1..n : n \in set}
<1>1. intervals \subseteq FiniteSubsetsOf(Nat) /\ intervals # {}
  <2>1. ASSUME NEW n \in set
        PROVE  IsFiniteSet(1..n) /\ 1..n \subseteq Nat
    BY FS_Interval
  <2>. QED
    BY <2>1 DEF FiniteSubsetsOf
<1>2. PICK least \in intervals :
        \A other \in intervals : <<other, least>> \notin StrictSubsetOrdering(Nat)
  BY <1>1, WFMin, FS_StrictSubsetOrderingWellFounded
<1>3. PICK x \in set : least = 1..x
  BY <1>2
<1>4. ASSUME NEW y \in set
      PROVE  x <= y
  <2>1. <<1..y, 1..x>> \notin StrictSubsetOrdering(Nat)
    BY <1>2, <1>3
  <2>2. 1..y \in SUBSET Nat /\ 1..x \in SUBSET Nat
    OBVIOUS
  <2>3. ~(1..y \subseteq 1..x /\ 1..y # 1..x)
    BY <2>1, <2>2 DEF StrictSubsetOrdering
  <2>4. SUFFICES ASSUME y < x PROVE FALSE
    OBVIOUS
  <2>5. 1..y \subseteq 1..x /\ x \in 1..x /\ x \notin 1..y
    BY <2>4
  <2>. QED
    BY <2>3, <2>5
<1>. QED
  BY <1>4 DEF Least

(* Among racks with finitely many nodes each, the first with the fewest is *)
(* one of them.                                                            *)
LEMMA FewestIsValid ==
  ASSUME NEW racks, NEW valid, valid \subseteq Nat, valid # {},
         \A r \in valid : IsFiniteSet(racks[r])
  PROVE  Fewest(valid, racks) \in valid
<1> DEFINE sizes == {Cardinality(racks[r]) : r \in valid}
           few == {r \in valid : \A x \in valid :
                     Cardinality(racks[r]) <= Cardinality(racks[x])}
<1>1. \A r \in valid : Cardinality(racks[r]) \in Nat
  BY FS_CardinalityType
<1>2. sizes \subseteq Nat /\ sizes # {}
  BY <1>1
<1>3. Least(sizes) \in sizes /\ \A y \in sizes : Least(sizes) <= y
  BY <1>2, LeastIsIn
<1>4. PICK r \in valid : Cardinality(racks[r]) = Least(sizes)
  BY <1>3
<1>5. r \in few
  BY <1>3, <1>4
<1>6. Least(few) \in few
  <2>1. few \subseteq Nat /\ few # {}
    BY <1>5
  <2>. QED
    BY <2>1, LeastIsIn
<1>. QED
  BY <1>6 DEF Fewest

LEMMA OperatorRacksNat ==
  OperatorRacks \in Nat /\ 1..OperatorRacks \subseteq Racks
<1>1. RackNames \in Seq(STRING) /\ OperatorRacks \in 1..Len(RackNames)
  BY TopologyAssumption
<1>2. Len(RackNames) \in Nat /\ DOMAIN RackNames = 1..Len(RackNames)
  BY <1>1
<1>. QED
  BY <1>1, <1>2 DEF Racks

(* There is a number for the next rack as long as any is left.             *)
LEMMA NextRackIsFree ==
  ASSUME NEW racks, NEW from \in Nat,
         \E x \in 1..OperatorRacks : x >= from /\ x \notin DOMAIN racks
  PROVE  /\ NextRack(racks, from) \in 1..OperatorRacks
         /\ NextRack(racks, from) \notin DOMAIN racks
<1> DEFINE free == {r \in 1..OperatorRacks : r >= from /\ r \notin DOMAIN racks}
<1>1. OperatorRacks \in Nat
  BY OperatorRacksNat
<1>2. free \subseteq Nat /\ free # {}
  BY <1>1
<1>3. Least(free) \in free
  BY <1>2, LeastIsIn
<1>. QED
  BY <1>3 DEF NextRack
-----------------------------------------------------------------------------
(* Types                                                                   *)

(* The fields of the reconcile in progress, which TypeOK has one by one.   *)
Shaped ==
  pass = [at |-> pass.at, read |-> pass.read, listed |-> pass.listed,
          racks |-> pass.racks, todo |-> pass.todo, status |-> pass.status]

TypeInv == TypeOK /\ Shaped

(* The racks are numbers other than that for none.                         *)
LEMMA RacksAreNat == Racks \subseteq Nat \ {0}
<1>1. RackNames \in Seq(STRING)
  BY TopologyAssumption
<1>. QED
  BY <1>1 DEF Racks

LEMMA LabelsApart ==
  /\ Absent \notin Labels
  /\ \A l \in Labels : /\ l.zone # "" => l.zone \in STRING
                       /\ l.zone \in Zones \cup {""}
                       /\ l.zoneKeys \subseteq ZoneKeys
                       /\ l.rack \in Racks \cup {NoRack}
                       /\ l.zone = "" <=> l.zoneKeys = {}
<1>1. Zones \subseteq STRING
  BY TopologyAssumption
<1>2. \A l \in Labels : DOMAIN l = {"zone", "zoneKeys", "rack"}
  BY DEF Labels
<1>3. DOMAIN Absent = {"gone"}
  BY DEF Absent
<1>4. Absent \notin Labels
  BY <1>2, <1>3
<1>5. ASSUME NEW l \in Labels
      PROVE  /\ l.zone \in Zones \cup {""} /\ l.zoneKeys \in SUBSET ZoneKeys
             /\ l.rack \in Racks \cup {NoRack}
             /\ l.zone = "" <=> l.zoneKeys = {}
  BY DEF Labels
<1>6. ASSUME NEW l \in Labels
      PROVE  l.zone # "" => l.zone \in STRING
  BY <1>1, <1>5
<1>. QED
  BY <1>4, <1>5, <1>6

(* What the cache shows are labels of nodes that are there.                *)
LEMMA ListingLabels ==
  ASSUME TypeOK, NEW missed
  PROVE  /\ DOMAIN Listing(missed) = {n \in Nodes : nodes[n] # Absent}
         /\ \A n \in DOMAIN Listing(missed) :
              /\ Listing(missed)[n] \in Labels
              /\ Listing(missed)[n].zone = nodes[n].zone
              /\ n \notin missed => Listing(missed)[n].rack = nodes[n].rack
              /\ Listing(missed)[n].rack \in {NoRack, nodes[n].rack}
<1>1. ASSUME NEW n \in Nodes, nodes[n] # Absent
      PROVE  nodes[n] \in Labels /\ [nodes[n] EXCEPT !.rack = NoRack] \in Labels
             /\ [nodes[n] EXCEPT !.rack = NoRack].zone = nodes[n].zone
             /\ [nodes[n] EXCEPT !.rack = NoRack].rack = NoRack
  BY <1>1 DEF TypeOK, Labels
<1>. QED
  BY <1>1 DEF Listing

(* Names of zones, racks and nodes are strings.                            *)
LEMMA ValuesAreStrings ==
  ASSUME NEW listed, DOMAIN listed \subseteq Nodes,
         \A n \in DOMAIN listed : listed[n] \in Labels
  PROVE  /\ \A k : ZonesBy(listed, k) \subseteq STRING
         /\ RacksOf(listed) \subseteq Racks
         /\ NamesOf(RacksOf(listed)) \subseteq STRING
         /\ DOMAIN listed \subseteq STRING
<1>1. ASSUME NEW k
      PROVE  ZonesBy(listed, k) \subseteq STRING
  <2>1. \A n \in DOMAIN listed :
          k \in listed[n].zoneKeys => listed[n].zone \in STRING
    BY LabelsApart
  <2>. QED
    BY <2>1 DEF ZonesBy
<1>2. RacksOf(listed) \subseteq Racks
  BY LabelsApart DEF RacksOf
<1>3. \A r \in Racks : RackNames[r] \in STRING
  <2>1. RackNames \in Seq(STRING)
    BY TopologyAssumption
  <2>. QED
    BY <2>1 DEF Racks
<1>4. NamesOf(RacksOf(listed)) \subseteq STRING
  BY <1>2, <1>3 DEF NamesOf
<1>. QED
  BY <1>1, <1>2, <1>4, TopologyAssumption

(* The failure domain, once determined, is one of the four.                *)
LEMMA FailureDomainIsDomain ==
  ASSUME NEW read \in Status, NEW listed
  PROVE  /\ FailureDomain(read, listed) \in Domains \ {""}
         /\ read.domain # "" => FailureDomain(read, listed) = read.domain
BY DEF FailureDomain, Status, Domains

(* Label and values are found for it.                                      *)
LEMMA KeyValuesTyped ==
  ASSUME NEW domain \in Domains, NEW read, NEW listed, DOMAIN listed \subseteq Nodes,
         \A n \in DOMAIN listed : listed[n] \in Labels,
         NEW kv \in KeyValues(domain, read, listed)
  PROVE  /\ kv.key \in Domains \cup ZoneKeys \cup {"rackLabel", "hostname"}
         /\ kv.values \in SUBSET STRING
         /\ kv.key \in ZoneKeys => /\ domain = "zone"
                                  /\ kv.key \in FilterDuplicateLabels(read, listed)
         /\ (domain = "zone" /\ kv.key \notin ZoneKeys)
              => FilterDuplicateLabels(read, listed) = {} /\ kv.key = "zone"
<1>1. FilterDuplicateLabels(read, listed) \subseteq ZoneKeys
  BY DEF FilterDuplicateLabels, KeysFound, ZoneKeys
<1>2. CASE domain = "zone" /\ FilterDuplicateLabels(read, listed) # {}
  <2>1. PICK k \in FilterDuplicateLabels(read, listed) :
          kv = [key |-> k, values |-> ZonesBy(listed, k)]
    BY <1>2 DEF KeyValues
  <2>2. kv.key = k /\ kv.values = ZonesBy(listed, k)
    BY <2>1
  <2>3. ZonesBy(listed, k) \subseteq STRING
    BY ValuesAreStrings
  <2>. QED
    BY <1>1, <1>2, <2>2, <2>3
<1>3. CASE ~(domain = "zone" /\ FilterDuplicateLabels(read, listed) # {})
  <2>1. CASE domain = "rack" /\ RacksOf(listed) # {}
    BY <2>1, ValuesAreStrings DEF KeyValues, ZoneKeys
  <2>2. CASE domain = "host"
    BY <2>2, ValuesAreStrings DEF KeyValues, ZoneKeys
  <2>3. CASE /\ ~(domain = "rack" /\ RacksOf(listed) # {})
             /\ domain # "host"
    <3>1. kv = [key |-> domain, values |-> {}]
      BY <1>3, <2>3 DEF KeyValues
    <3>2. domain \notin ZoneKeys
      BY DEF Domains, ZoneKeys
    <3>. QED
      BY <1>3, <3>1, <3>2
  <2>. QED
    BY <2>1, <2>2, <2>3
<1>. QED
  BY <1>2, <1>3

LEMMA NewStatusTyped ==
  ASSUME NEW read \in Status, NEW listed, DOMAIN listed \subseteq Nodes,
         \A n \in DOMAIN listed : listed[n] \in Labels,
         NEW new \in NewStatus(read, listed)
  PROVE  /\ new \in Status
         /\ new.domain # ""
         /\ new.domain = FailureDomain(read, listed)
         /\ \E domain \in Domains : \E kv \in KeyValues(domain, read, listed) :
              /\ new.key = kv.key
              /\ domain = "zone" <=> new.domain = "zone"
<1> DEFINE lookedUp == IF FailureDomain(read, listed) = "osd" /\ read.domain = ""
                         THEN "host" ELSE FailureDomain(read, listed)
<1>1. PICK kv \in KeyValues(lookedUp, read, listed) :
        new = [domain |-> FailureDomain(read, listed), key |-> kv.key,
               values |-> kv.values, racks |-> RacksOf(listed)]
  BY DEF NewStatus
<1>2. lookedUp \in Domains /\ (lookedUp = "zone" <=> FailureDomain(read, listed) = "zone")
  BY FailureDomainIsDomain DEF Domains
<1>3. /\ kv.key \in Domains \cup ZoneKeys \cup {"rackLabel", "hostname"}
      /\ kv.values \in SUBSET STRING
  BY <1>2, KeyValuesTyped
<1>4. new \in Status
  BY <1>1, <1>3, FailureDomainIsDomain, ValuesAreStrings DEF Status
<1>. QED
  BY <1>1, <1>2, <1>4, FailureDomainIsDomain

(* A label that is in use by the copy a reconcile began with is kept by    *)
(* it, as ZoneKeyKept has it.                                              *)
KeepsKey(read, key, listed) ==
  (read.key \in ZoneKeys /\ key # read.key)
    => \/ ZonesBy(listed, read.key) = {}
       \/ key = "stable" /\ AllKeysOnAll(listed)
       \/ /\ {read.key, key} = {"beta", "old"}
          /\ {"beta", "old"} \subseteq KeysFound(listed)

(* The key in a status is one for zones only if those are the domain.      *)
KeyFits(record) == record.key \in ZoneKeys => record.domain = "zone"

LEMMA NewStatusKeepsKey ==
  ASSUME NEW read \in Status, KeyFits(read),
         NEW listed, DOMAIN listed \subseteq Nodes,
         \A n \in DOMAIN listed : listed[n] \in Labels,
         NEW new \in NewStatus(read, listed)
  PROVE  KeepsKey(read, new.key, listed) /\ KeyFits(new)
<1> DEFINE found == KeysFound(listed)
           used == FilterDuplicateLabels(read, listed)
<1>0. PICK domain \in Domains :
        \E kv \in KeyValues(domain, read, listed) :
          new.key = kv.key /\ (domain = "zone" <=> new.domain = "zone")
  BY NewStatusTyped
<1>1. PICK kv \in KeyValues(domain, read, listed) :
        new.key = kv.key /\ (domain = "zone" <=> new.domain = "zone")
  BY <1>0
<1>2. /\ kv.key \in ZoneKeys => domain = "zone" /\ kv.key \in used
      /\ (domain = "zone" /\ kv.key \notin ZoneKeys) => used = {}
  BY KeyValuesTyped
<1>3. SUFFICES ASSUME read.key \in ZoneKeys, new.key # read.key
               PROVE  \/ ZonesBy(listed, read.key) = {}
                      \/ new.key = "stable" /\ AllKeysOnAll(listed)
                      \/ /\ {read.key, new.key} = {"beta", "old"}
                         /\ {"beta", "old"} \subseteq found
  BY <1>1, <1>2 DEF KeepsKey, KeyFits
<1>4. read.domain = "zone" /\ new.domain = "zone" /\ domain = "zone"
  BY <1>1, <1>3, NewStatusTyped, FailureDomainIsDomain DEF KeyFits
<1>5. read.key \in found \/ ZonesBy(listed, read.key) = {}
  BY <1>3 DEF KeysFound
<1>6. CASE read.key = "stable"
  <2>1. used = found \cap {"stable"}
    BY <1>4, <1>6 DEF FilterDuplicateLabels
  <2>2. new.key \notin used
    BY <1>3, <1>6, <2>1
  <2>3. "stable" \notin found
    BY <1>1, <1>2, <1>4, <2>1, <2>2
  <2>. QED
    BY <1>5, <1>6, <2>3
<1>7. CASE read.key # "stable" /\ AllKeysOnAll(listed)
  <2>1. used = found \cap {"stable"}
    BY <1>4, <1>7 DEF FilterDuplicateLabels
  <2>2. CASE "stable" \in found
    BY <1>1, <1>2, <1>4, <1>7, <2>1, <2>2
  <2>3. CASE "stable" \notin found
    <3>1. ZonesBy(listed, "stable") = {}
      BY <2>3 DEF KeysFound, ZoneKeys
    <3>2. DOMAIN listed = {}
      BY <1>7, <3>1 DEF ZonesBy, AllKeysOnAll, ZoneKeys
    <3>. QED
      BY <3>2 DEF ZonesBy
  <2>. QED
    BY <2>2, <2>3
<1>8. CASE read.key # "stable" /\ ~AllKeysOnAll(listed)
  <2>1. used = found \ {"stable"}
    BY <1>4, <1>8 DEF FilterDuplicateLabels
  <2>2. used \subseteq {"beta", "old"} /\ read.key \in {"beta", "old"}
    BY <1>3, <1>8, <2>1 DEF KeysFound, ZoneKeys
  <2>3. CASE read.key \notin found
    BY <1>5, <2>3
  <2>4. CASE read.key \in found
    <3>1. read.key \in used
      BY <1>8, <2>1, <2>4
    <3>2. new.key \in used
      BY <1>1, <1>2, <1>4, <3>1
    <3>. QED
      BY <1>3, <2>1, <2>2, <3>1, <3>2
  <2>. QED
    BY <2>3, <2>4
<1>. QED
  BY <1>6, <1>7, <1>8

-----------------------------------------------------------------------------
(* The rack for a node                                                     *)

RackLeft ==
  \E x \in 1..OperatorRacks :
    x > Cardinality(DOMAIN pass.racks) /\ x \notin DOMAIN pass.racks

(* Defining a rack adds an empty one, or none.                             *)
LEMMA DefinedAdds ==
  ASSUME RackLeft, NEW minRacks, DOMAIN pass.racks \subseteq Racks
  PROVE  LET racks == Defined(pass.racks, minRacks) IN
         \/ racks = pass.racks
         \/ \E x \in Racks \ DOMAIN pass.racks :
              /\ racks = WithRack(pass.racks, x)
              /\ DOMAIN racks = DOMAIN pass.racks \cup {x}
              /\ \A y \in DOMAIN pass.racks : racks[y] = pass.racks[y]
              /\ racks[x] = {}
<1>1. \E x \in 1..OperatorRacks : x >= 1 /\ x \notin DOMAIN pass.racks
  BY OperatorRacksNat DEF RackLeft
<1>2. /\ NextRack(pass.racks, 1) \in Racks
      /\ NextRack(pass.racks, 1) \notin DOMAIN pass.racks
  BY <1>1, NextRackIsFree, OperatorRacksNat
<1>. QED
  BY <1>2 DEF Defined, WithRack

(* The rack chosen has no number yet, or no nodes, or one with the zone.   *)
LEMMA PlacementRack ==
  ASSUME TypeInv, RackLeft, NEW zone
  PROVE  LET r == DeterminePlacementRack(zone) IN
         /\ r \in Racks
         /\ \/ r \notin DOMAIN pass.racks
            \/ zone = "" \/ pass.racks[r] = {}
            \/ \E x \in pass.racks[r] : pass.listed[x].zone = zone
<1> DEFINE racks == Defined(pass.racks, MinimumNodes)
           valid == ValidRacks(racks, zone, pass.listed)
           r == DeterminePlacementRack(zone)
<1>1. DOMAIN pass.racks \subseteq Racks
  BY DEF TypeInv, TypeOK
<1>2. /\ DOMAIN racks \subseteq Racks
      /\ \A x \in DOMAIN racks :
           \/ x \in DOMAIN pass.racks /\ racks[x] = pass.racks[x]
           \/ x \notin DOMAIN pass.racks /\ racks[x] = {}
      /\ racks = pass.racks \/ \E x \in DOMAIN racks : racks[x] = {}
  BY <1>1, DefinedAdds
<1> HIDE DEF racks
<1>3. CASE valid = {}
  <2>1. \A x \in DOMAIN racks : racks[x] # {}
    BY <1>3 DEF ValidRacks
  <2>2. racks = pass.racks
    BY <1>2, <2>1
  <2>3. Cardinality(DOMAIN pass.racks) \in Nat
    <3>1. IsFiniteSet(Racks)
      <4>1. RackNames \in Seq(STRING)
        BY TopologyAssumption
      <4>2. Racks = 1..Len(RackNames) /\ Len(RackNames) \in Nat
        BY <4>1 DEF Racks
      <4>. QED
        BY <4>2, FS_Interval
    <3>2. IsFiniteSet(DOMAIN pass.racks)
      BY <1>1, <3>1, FS_Subset
    <3>. QED
      BY <3>2, FS_CardinalityType
  <2>4. r = NextRack(pass.racks, Cardinality(DOMAIN pass.racks) + 1)
    BY <1>3, <2>2 DEF DeterminePlacementRack, racks
  <2>5. \E x \in 1..OperatorRacks :
          /\ x >= Cardinality(DOMAIN pass.racks) + 1
          /\ x \notin DOMAIN pass.racks
    BY <2>3, OperatorRacksNat DEF RackLeft
  <2>6. r \in 1..OperatorRacks /\ r \notin DOMAIN pass.racks
    BY <2>3, <2>4, <2>5, NextRackIsFree
  <2>. QED
    BY <2>6, OperatorRacksNat
<1>4. CASE valid # {}
  <2>1. valid \subseteq DOMAIN racks /\ valid \subseteq Nat
    BY <1>2, RacksAreNat DEF ValidRacks
  <2>2. ASSUME NEW x \in valid
        PROVE  IsFiniteSet(racks[x])
    <3>1. racks[x] \subseteq Nodes
      BY <1>2, <2>1 DEF TypeInv, TypeOK
    <3>. QED
      BY <3>1, FS_Subset, TopologyAssumption
  <2>3. Fewest(valid, racks) \in valid
    BY <1>4, <2>1, <2>2, FewestIsValid
  <2>4. r \in valid
    BY <1>4, <2>3 DEF DeterminePlacementRack, racks
  <2>5. zone = "" \/ racks[r] = {} \/ \E x \in racks[r] : pass.listed[x].zone = zone
    BY <2>4 DEF ValidRacks
  <2>. QED
    BY <1>2, <2>1, <2>4, <2>5
<1>. QED
  BY <1>3, <1>4

(* After that the node is in the rack, and the other racks are the same.   *)
LEMMA PlacedRacks ==
  ASSUME TypeInv, RackLeft, NEW n, NEW r \in Racks
  PROVE  /\ DOMAIN pass.racks \cup {r} \subseteq DOMAIN Placed(n, r)
         /\ DOMAIN Placed(n, r) \subseteq Racks
         /\ \A x \in DOMAIN Placed(n, r) :
              Placed(n, r)[x] =
                (IF x \in DOMAIN pass.racks THEN pass.racks[x] ELSE {})
                  \cup (IF x = r THEN {n} ELSE {})
<1> DEFINE racks == Defined(pass.racks, MinimumNodes)
<1>1. DOMAIN pass.racks \subseteq Racks
  BY DEF TypeInv, TypeOK
<1>2. /\ DOMAIN pass.racks \subseteq DOMAIN racks
      /\ DOMAIN racks \subseteq Racks
      /\ \A x \in DOMAIN racks :
           racks[x] = IF x \in DOMAIN pass.racks THEN pass.racks[x] ELSE {}
  BY <1>1, DefinedAdds
<1> HIDE DEF racks
<1>3. Placed(n, r) = [WithRack(racks, r) EXCEPT ![r] = @ \cup {n}]
  BY DEF Placed, racks
<1>4. /\ DOMAIN WithRack(racks, r) = DOMAIN racks \cup {r}
      /\ \A x \in DOMAIN racks \cup {r} :
           WithRack(racks, r)[x] = IF x \in DOMAIN racks THEN racks[x] ELSE {}
  BY DEF WithRack
<1>5. /\ DOMAIN Placed(n, r) = DOMAIN racks \cup {r}
      /\ \A x \in DOMAIN racks \cup {r} :
           Placed(n, r)[x] = IF x = r THEN WithRack(racks, r)[x] \cup {n}
                             ELSE WithRack(racks, r)[x]
  BY <1>3, <1>4
<1>. QED
  BY <1>1, <1>2, <1>4, <1>5

-----------------------------------------------------------------------------
(* Types are kept                                                          *)

LEMMA NoPassTyped ==
  /\ NoStatus \in Status
  /\ NoPass.at = "idle" /\ NoPass.read = NoStatus /\ NoPass.status = NoStatus
  /\ DOMAIN NoPass.listed = {} /\ DOMAIN NoPass.racks = {} /\ NoPass.todo = {}
  /\ NoPass = [at |-> NoPass.at, read |-> NoPass.read,
               listed |-> NoPass.listed, racks |-> NoPass.racks,
               todo |-> NoPass.todo, status |-> NoPass.status]
BY DEF NoPass, NoStatus, Status, Domains

LEMMA BoundsAreNat == MaxEdits \in Nat /\ MaxDisturbances \in Nat
BY TopologyAssumption

LEMMA MixedAreRacks == MixedRacks \subseteq Racks
BY DEF MixedRacks

LEMMA TypeInvInit == Init => TypeInv
<1>. SUFFICES ASSUME Init PROVE TypeInv
  OBVIOUS
<1>1. cluster \in Cluster /\ nodes \in [Nodes -> Labels \cup {Absent}]
  <2>1. PICK start \in Starts : cluster = start.cluster /\ nodes = start.nodes
    BY DEF Init
  <2>2. start \in [cluster : Cluster, nodes : [Nodes -> Labels \cup {Absent}]]
    BY <2>1, TopologyAssumption
  <2>. QED
    BY <2>1, <2>2
<1>2. edits \in 0..MaxEdits /\ disturbances \in 0..MaxDisturbances
  <2>1. edits = 0 /\ disturbances = 0
    BY DEF Init
  <2>. QED
    BY <2>1, BoundsAreNat
<1>3. foreign \in BOOLEAN /\ spoiled \subseteq Racks
  BY MixedAreRacks DEF Init
<1>4. /\ pass = NoPass /\ status = NoStatus /\ seen = NoStatus
      /\ pools = "" /\ recent = {}
  BY DEF Init
<1>. QED
  BY <1>1, <1>2, <1>3, <1>4, NoPassTyped DEF TypeInv, TypeOK, Shaped, Domains

(* Bounds are bounds.                                                      *)
LEMMA BoundsKept ==
  ASSUME TypeOK, Disturb \/ Undisturbed \/ Edit
  PROVE  edits' \in 0..MaxEdits /\ disturbances' \in 0..MaxDisturbances
<1>1. edits \in 0..MaxEdits /\ disturbances \in 0..MaxDisturbances
  BY DEF TypeOK
<1>. QED
  BY <1>1, BoundsAreNat DEF Disturb, Undisturbed, Edit

(* What the start of a reconcile, after the nodes were listed, determines. *)
LEMMA ReconcileStarts ==
  ASSUME TypeInv, NEW read, NEW missed, ReconcileWith(read, Listing(missed))
  PROVE  /\ pass'.at = "racks"
         /\ pass'.read = read
         /\ pass'.listed = Listing(missed)
         /\ pass'.status \in NewStatus(read, Listing(missed))
         /\ DOMAIN pass'.racks = RacksOf(Listing(missed))
         /\ \A r \in DOMAIN pass'.racks :
              pass'.racks[r] = {n \in DOMAIN Listing(missed) :
                                  Listing(missed)[n].rack = r}
         /\ pass'.todo \subseteq DOMAIN Listing(missed)
         /\ Shaped'
BY DEF ReconcileWith, Shaped

(* A reconcile starts from a copy of the status and a list of the nodes.   *)
LEMMA ReconcileReads ==
  ASSUME ReconcileNodeTopologyMap
  PROVE  \E read \in {seen, status}, missed \in SUBSET recent :
           /\ ReconcileWith(read, Listing(missed))
           /\ seen' = read
           /\ spoiled \subseteq spoiled'
           /\ \A n \in missed : nodes[n].rack \in Racks
                                  => nodes[n].rack \in spoiled'
           /\ ~foreign' => missed = {} /\ ~foreign
<1>1. CASE /\ ReconcileWith(status, Listing({}))
           /\ seen' = status /\ UNCHANGED <<spoiled, foreign>>
  BY <1>1
<1>2. CASE \E read \in {seen, status}, missed \in SUBSET recent :
             /\ ReconcileWith(read, Listing(missed))
             /\ seen' = read
             /\ spoiled' = spoiled \cup
                             {r \in Racks : \E n \in missed : nodes[n].rack = r}
             /\ foreign' = (foreign \/ missed # {})
  BY <1>2
<1>. QED
  BY <1>1, <1>2 DEF ReconcileNodeTopologyMap

LEMMA TypeInvReconcile ==
  ASSUME TypeInv, ReconcileNodeTopologyMap
  PROVE  TypeInv'
<1>1. PICK read \in {seen, status}, missed \in SUBSET recent :
        ReconcileWith(read, Listing(missed)) /\ seen' = read
  BY ReconcileReads
<1> DEFINE listed == Listing(missed)
<1>2. DOMAIN listed \subseteq Nodes /\ \A n \in DOMAIN listed : listed[n] \in Labels
  BY ListingLabels DEF TypeInv
<1> HIDE DEF listed
<1>3. /\ pass'.at = "racks" /\ pass'.read = read /\ pass'.listed = listed
      /\ pass'.status \in NewStatus(read, listed)
      /\ DOMAIN pass'.racks = RacksOf(listed)
      /\ \A r \in DOMAIN pass'.racks :
           pass'.racks[r] = {n \in DOMAIN listed : listed[n].rack = r}
      /\ pass'.todo \subseteq DOMAIN listed
      /\ Shaped'
  BY <1>1, ReconcileStarts DEF listed
<1>4. read \in Status /\ pass'.status \in Status
  <2>1. read \in Status
    BY DEF TypeInv, TypeOK
  <2>. QED
    BY <1>2, <1>3, <2>1, NewStatusTyped
<1>5. RacksOf(listed) \subseteq Racks
  BY <1>2, ValuesAreStrings
<1>6. edits' \in 0..MaxEdits /\ disturbances' \in 0..MaxDisturbances
  BY BoundsKept DEF ReconcileNodeTopologyMap, TypeInv
<1>7. spoiled' \subseteq Racks /\ foreign' \in BOOLEAN
  BY DEF ReconcileNodeTopologyMap, TypeInv, TypeOK
<1>8. UNCHANGED <<cluster, nodes, status, pools>> /\ recent' = {}
  BY DEF ReconcileNodeTopologyMap
<1>. QED
  BY <1>1, <1>2, <1>3, <1>4, <1>5, <1>6, <1>7, <1>8 DEF TypeInv, TypeOK

LEMMA TypeInvRack ==
  ASSUME TypeInv, EnsureNodeRack
  PROVE  TypeInv'
<1>1. RackLeft
  BY DEF EnsureNodeRack, RackLeft
<1>2. PICK n \in pass.todo :
        LET r == DeterminePlacementRack(pass.listed[n].zone) IN
          \/ /\ nodes[n] # Absent
             /\ nodes' = [nodes EXCEPT ![n].rack = r]
             /\ recent' = IF nodes' = nodes THEN recent ELSE recent \cup {n}
             /\ pass' = [pass EXCEPT !.todo = @ \ {n},
                                     !.racks = Placed(n, r),
                                     !.status.racks = @ \cup {r}]
             /\ spoiled' = IF nodes[n].zone = pass.listed[n].zone THEN spoiled
                           ELSE spoiled \cup {r}
             /\ Undisturbed
          \/ /\ pass' = [pass EXCEPT !.at = "status",
                                     !.status.racks = @ \cup {r}]
             /\ \/ nodes[n] = Absent /\ Undisturbed
                \/ Disturb
             /\ UNCHANGED <<nodes, recent, spoiled>>
  BY DEF EnsureNodeRack
<1> DEFINE r == DeterminePlacementRack(pass.listed[n].zone)
<1>3. r \in Racks
  BY <1>1, PlacementRack
<1>4. n \in Nodes /\ n \in DOMAIN pass.listed
  BY DEF TypeInv, TypeOK
<1>5. [pass.status EXCEPT !.racks = @ \cup {r}] \in Status
  <2> HIDE DEF r
  <2>. QED
    BY <1>3 DEF TypeInv, TypeOK, Status
<1>6. UNCHANGED <<cluster, status, seen, pools, foreign>>
  BY DEF EnsureNodeRack
<1>7. edits' \in 0..MaxEdits /\ disturbances' \in 0..MaxDisturbances
  BY <1>2, BoundsKept DEF TypeInv
<1>8. CASE /\ nodes[n] # Absent
           /\ nodes' = [nodes EXCEPT ![n].rack = r]
           /\ recent' = IF nodes' = nodes THEN recent ELSE recent \cup {n}
           /\ pass' = [pass EXCEPT !.todo = @ \ {n},
                                   !.racks = Placed(n, r),
                                   !.status.racks = @ \cup {r}]
           /\ spoiled' = IF nodes[n].zone = pass.listed[n].zone THEN spoiled
                         ELSE spoiled \cup {r}
  <2>1. nodes' \in [Nodes -> Labels \cup {Absent}]
    <3>1. nodes[n] \in Labels
      BY <1>4, <1>8 DEF TypeInv, TypeOK
    <3>2. [nodes[n] EXCEPT !.rack = r] \in Labels
      BY <1>3, <3>1 DEF Labels
    <3>. QED
      BY <1>4, <1>8, <3>2 DEF TypeInv, TypeOK
  <2>2. \A x \in DOMAIN Placed(n, r) : Placed(n, r)[x] \subseteq Nodes
    BY <1>1, <1>3, <1>4, PlacedRacks DEF TypeInv, TypeOK
  <2>3. /\ pass'.at = pass.at /\ pass'.read = pass.read
        /\ pass'.listed = pass.listed
        /\ pass'.todo = pass.todo \ {n}
        /\ pass'.racks = Placed(n, r)
        /\ pass'.status = [pass.status EXCEPT !.racks = @ \cup {r}]
        /\ Shaped'
    BY <1>8 DEF TypeInv, Shaped
  <2>4. DOMAIN Placed(n, r) \subseteq Racks
    BY <1>1, <1>3, PlacedRacks
  <2>5. spoiled' \subseteq Racks /\ recent' \subseteq Nodes
    BY <1>3, <1>4, <1>8 DEF TypeInv, TypeOK
  <2>. QED
    BY <1>5, <1>6, <1>7, <2>1, <2>2, <2>3, <2>4, <2>5 DEF TypeInv, TypeOK
<1>9. CASE /\ pass' = [pass EXCEPT !.at = "status",
                                   !.status.racks = @ \cup {r}]
           /\ UNCHANGED <<nodes, recent, spoiled>>
  <2>1. /\ pass'.at = "status" /\ pass'.read = pass.read
        /\ pass'.listed = pass.listed
        /\ pass'.todo = pass.todo /\ pass'.racks = pass.racks
        /\ pass'.status = [pass.status EXCEPT !.racks = @ \cup {r}]
        /\ Shaped'
    BY <1>9 DEF TypeInv, Shaped
  <2>. QED
    BY <1>5, <1>6, <1>7, <1>9, <2>1 DEF TypeInv, TypeOK
<1>. QED
  BY <1>2, <1>8, <1>9

LEMMA TypeInvRest ==
  ASSUME TypeInv, Deploy \/ WriteStatus \/ Crash
  PROVE  TypeInv'
<1>1. edits' \in 0..MaxEdits /\ disturbances' \in 0..MaxDisturbances
  BY BoundsKept DEF TypeInv, Deploy, WriteStatus, Crash
<1>2. CASE Deploy
  <2>1. /\ pass'.at = "status" /\ pass'.read = pass.read
        /\ pass'.listed = pass.listed
        /\ pass'.todo = pass.todo /\ pass'.racks = pass.racks
        /\ pass'.status = pass.status
        /\ Shaped'
    BY <1>2 DEF TypeInv, Shaped, Deploy
  <2>2. pools' \in Domains
    BY <1>2 DEF Deploy, TypeInv, TypeOK, Status
  <2>. QED
    BY <1>1, <1>2, <2>1, <2>2 DEF Deploy, TypeInv, TypeOK
<1>3. CASE WriteStatus
  BY <1>1, <1>3, NoPassTyped DEF WriteStatus, TypeInv, TypeOK, Shaped
<1>4. CASE Crash
  BY <1>1, <1>4, NoPassTyped DEF Crash, TypeInv, TypeOK, Shaped
<1>. QED
  BY <1>2, <1>3, <1>4

(* What happens to the nodes leaves the reconcile alone.                   *)
NodesChange ==
  \/ NodeJoins \/ NodeLeaves \/ NodeReplaced
  \/ NodeRelabelled \/ NodesRelabelled

LEMMA LabellingsAreLabels == Labellings \subseteq Labels
BY TopologyAssumption

LEMMA ChangedTyped ==
  ASSUME TypeOK, TypeOK => nodes' \in [Nodes -> Labels \cup {Absent}],
         NEW racks, racks \subseteq Racks \cup {NoRack}, Changed(racks)
  PROVE  spoiled' \subseteq Racks
<1>1. MixedRacks' \subseteq Racks
  BY DEF MixedRacks
<1>. QED
  BY <1>1 DEF Changed, TypeOK

LEMMA NodesChangeTyped ==
  ASSUME TypeInv, NodesChange
  PROVE  /\ nodes' \in [Nodes -> Labels \cup {Absent}]
         /\ spoiled' \subseteq Racks
         /\ recent' \subseteq Nodes
         /\ foreign' \in BOOLEAN
<1>. USE DEF TypeInv, TypeOK
<1>1. CASE NodeJoins
  BY <1>1, LabellingsAreLabels, LabelsApart, ChangedTyped DEF NodeJoins
<1>2. CASE NodeLeaves
  BY <1>2 DEF NodeLeaves
<1>3. CASE NodeReplaced
  BY <1>3, LabellingsAreLabels, LabelsApart, ChangedTyped DEF NodeReplaced
<1>4. CASE NodeRelabelled
  <2>1. PICK n \in Nodes, labels \in Labellings :
          /\ nodes[n] # Absent
          /\ nodes' = [nodes EXCEPT ![n].zone = labels.zone,
                                    ![n].zoneKeys = labels.zoneKeys]
          /\ Changed({nodes[n].rack})
    BY <1>4 DEF NodeRelabelled
  <2>2. nodes[n] \in Labels /\ labels \in Labels
    BY <2>1, LabellingsAreLabels
  <2>3. [[nodes[n] EXCEPT !.zone = labels.zone]
          EXCEPT !.zoneKeys = labels.zoneKeys] \in Labels
    BY <2>2 DEF Labels
  <2>4. nodes' \in [Nodes -> Labels \cup {Absent}]
    BY <2>1, <2>3
  <2>5. {nodes[n].rack} \subseteq Racks \cup {NoRack}
    BY <2>2, LabelsApart
  <2>. QED
    BY <1>4, <2>1, <2>4, <2>5, ChangedTyped DEF NodeRelabelled
<1>5. CASE NodesRelabelled
  <2>1. PICK keys \in {labels.zoneKeys : labels \in Labellings} \ {{}} :
          nodes' = [n \in Nodes |->
                      IF nodes[n] = Absent \/ nodes[n].zone = "" THEN nodes[n]
                      ELSE [nodes[n] EXCEPT !.zoneKeys = keys]]
    BY <1>5 DEF NodesRelabelled
  <2>2. ASSUME NEW n \in Nodes, nodes[n] # Absent, nodes[n].zone # ""
        PROVE  [nodes[n] EXCEPT !.zoneKeys = keys] \in Labels
    <3>1. keys \in SUBSET ZoneKeys /\ keys # {}
      <4>1. PICK labels \in Labellings : keys = labels.zoneKeys
        OBVIOUS
      <4>. QED
        BY <2>1, <4>1, LabellingsAreLabels, LabelsApart
    <3>2. nodes[n] \in Labels
      BY <2>2
    <3>. QED
      BY <2>2, <3>1, <3>2 DEF Labels
  <2>3. nodes' \in [Nodes -> Labels \cup {Absent}]
    BY <2>1, <2>2
  <2>. QED
    BY <1>5, <2>3 DEF NodesRelabelled
<1>. QED
  BY <1>1, <1>2, <1>3, <1>4, <1>5 DEF NodesChange

LEMMA TypeInvNodes ==
  ASSUME TypeInv, NodesChange
  PROVE  TypeInv'
<1>1. edits' \in 0..MaxEdits /\ disturbances' \in 0..MaxDisturbances
  BY BoundsKept DEF TypeInv, NodesChange, NodeJoins, NodeLeaves, NodeReplaced,
                    NodeRelabelled, NodesRelabelled
<1>2. UNCHANGED <<cluster, status, seen, pools, pass>>
  BY DEF NodesChange, NodeJoins, NodeLeaves, NodeReplaced, NodeRelabelled,
         NodesRelabelled
<1>. QED
  BY <1>1, <1>2, NodesChangeTyped DEF TypeInv, TypeOK, Shaped

LEMMA TypeInvNext ==
  ASSUME TypeInv, [Next]_vars
  PROVE  TypeInv'
<1>1. CASE Next
  BY <1>1, TypeInvReconcile, TypeInvRack, TypeInvRest, TypeInvNodes
     DEF Next, Reconcile, NodesChange
<1>2. CASE UNCHANGED vars
  BY <1>2 DEF vars, TypeInv, TypeOK, Shaped
<1>. QED
  BY <1>1, <1>2

(* Every variable is of its type, for any nodes, labels, clusters and      *)
(* bounds.                                                                 *)
THEOREM TopologyTyped == Spec => []TypeOK
<1>1. Init => TypeInv
  BY TypeInvInit
<1>2. TypeInv /\ [Next]_vars => TypeInv'
  BY TypeInvNext
<1>3. TypeInv => TypeOK
  BY DEF TypeInv
<1>. QED
  BY <1>1, <1>2, <1>3, PTL DEF Spec

-----------------------------------------------------------------------------
(* The invariant                                                           *)

(* The copy that was read last has the domain of the status, or none.      *)
CopyFits ==
  /\ KeyFits(status) /\ KeyFits(seen)
  /\ seen.domain # "" => seen.domain = status.domain

(* The status a reconcile is to write follows from the copy it began with, *)
(* which has the domain of the status, or none.                            *)
PassFits ==
  pass.at # "idle" =>
    /\ pass.status.domain # "" /\ KeyFits(pass.status)
    /\ pass.read.domain # "" => /\ pass.read.domain = status.domain
                                /\ pass.read.domain = pass.status.domain
    /\ KeepsKey(pass.read, pass.status.key, pass.listed)

Compatible(y, z) == y = "" \/ z = "" \/ y = z

(* n is in the rack the reconcile has it in, and in the zone.              *)
Known(n) ==
  (nodes[n] # Absent /\ nodes[n].rack \in Racks \ spoiled)
    => /\ nodes[n].rack \in DOMAIN pass.racks
       /\ n \in pass.racks[nodes[n].rack]
       /\ pass.listed[n].zone = nodes[n].zone

(* The racks a reconcile has in memory, so far as they are not spoiled,    *)
(* keep to zones and have all nodes with these racks.                      *)
RacksFit ==
  pass.at = "racks" =>
    /\ \A r \in DOMAIN pass.racks \ spoiled : \A n, m \in pass.racks[r] :
         Compatible(pass.listed[n].zone, pass.listed[m].zone)
    /\ \A n \in Nodes : Known(n)

Inv == TypeInv /\ CopyFits /\ PassFits /\ RacksFit /\ RacksKeepZones

LEMMA InvInit == Init => Inv
<1>. SUFFICES ASSUME Init PROVE Inv
  OBVIOUS
<1>1. TypeInv
  BY TypeInvInit
<1>2. /\ status = NoStatus /\ seen = NoStatus
      /\ pass = NoPass /\ spoiled = MixedRacks
  BY DEF Init
<1>3. CopyFits
  BY <1>2 DEF CopyFits, KeyFits, NoStatus, ZoneKeys
<1>4. PassFits /\ RacksFit
  BY <1>2, NoPassTyped DEF PassFits, RacksFit
<1>. QED
  BY <1>1, <1>2, <1>3, <1>4 DEF Inv, RacksKeepZones

(* A reconcile starts with the racks of the nodes as they are, so far as   *)
(* the cache shows them.                                                   *)
LEMMA InvReconcile ==
  ASSUME Inv, ReconcileNodeTopologyMap
  PROVE  Inv'
<1>1. PICK read \in {seen, status}, missed \in SUBSET recent :
        /\ ReconcileWith(read, Listing(missed))
        /\ seen' = read
        /\ spoiled \subseteq spoiled'
        /\ \A n \in missed : nodes[n].rack \in Racks => nodes[n].rack \in spoiled'
  BY ReconcileReads
<1> DEFINE listed == Listing(missed)
<1>2. /\ DOMAIN listed = {n \in Nodes : nodes[n] # Absent}
      /\ \A n \in DOMAIN listed :
           /\ listed[n] \in Labels
           /\ listed[n].zone = nodes[n].zone
           /\ n \notin missed => listed[n].rack = nodes[n].rack
           /\ listed[n].rack \in {NoRack, nodes[n].rack}
  BY ListingLabels DEF Inv, TypeInv
<1>3. /\ pass'.at = "racks" /\ pass'.read = read /\ pass'.listed = listed
      /\ pass'.status \in NewStatus(read, listed)
      /\ DOMAIN pass'.racks = RacksOf(listed)
      /\ \A r \in DOMAIN pass'.racks :
           pass'.racks[r] = {n \in DOMAIN listed : listed[n].rack = r}
  BY <1>1, ReconcileStarts DEF Inv
<1> HIDE DEF listed
<1>4. UNCHANGED <<cluster, nodes, status, pools>>
  BY DEF ReconcileNodeTopologyMap
<1>5. TypeInv'
  BY TypeInvReconcile DEF Inv
<1>6. /\ read \in Status /\ KeyFits(read) /\ CopyFits'
      /\ read.domain # "" => read.domain = status.domain
  <2>1. read = seen \/ read = status
    OBVIOUS
  <2>2. /\ read \in Status /\ KeyFits(read)
        /\ read.domain # "" => read.domain = status.domain
    BY <2>1 DEF Inv, TypeInv, TypeOK, CopyFits
  <2>. QED
    BY <1>1, <1>4, <2>2 DEF Inv, CopyFits, KeyFits
<1>7. PassFits'
  <2>1. DOMAIN listed \subseteq Nodes
    BY <1>2
  <2>2. /\ pass'.status.domain # ""
        /\ pass'.status.domain = FailureDomain(read, listed)
    <3>1. \A new \in NewStatus(read, listed) :
            new.domain # "" /\ new.domain = FailureDomain(read, listed)
      BY <1>2, <1>6, <2>1, NewStatusTyped
    <3>. QED
      BY <1>3, <3>1
  <2>3. /\ KeepsKey(read, pass'.status.key, listed)
        /\ KeyFits(pass'.status)
    BY <1>2, <1>3, <1>6, <2>1, NewStatusKeepsKey
  <2>4. read.domain # "" => FailureDomain(read, listed) = read.domain
    BY <1>6, FailureDomainIsDomain
  <2>. QED
    BY <1>3, <1>4, <1>6, <2>2, <2>3, <2>4 DEF PassFits, KeepsKey, KeyFits
<1>8. RacksFit'
  <2>1. ASSUME NEW r \in RacksOf(listed) \ spoiled',
               NEW n \in pass'.racks[r], NEW m \in pass'.racks[r]
        PROVE  Compatible(listed[n].zone, listed[m].zone)
    <3>1. r \in Racks /\ r # NoRack
      <4>1. RacksOf(listed) \subseteq Racks
        BY <1>2, ValuesAreStrings
      <4>. QED
        BY <4>1 DEF RacksOf
    <3>2. /\ n \in Nodes /\ nodes[n] # Absent /\ nodes[n].rack = r
          /\ m \in Nodes /\ nodes[m] # Absent /\ nodes[m].rack = r
          /\ listed[n].zone = nodes[n].zone /\ listed[m].zone = nodes[m].zone
      BY <1>2, <1>3, <2>1, <3>1
    <3>3. r \notin MixedRacks
      BY <1>1 DEF Inv, RacksKeepZones
    <3>. QED
      BY <3>1, <3>2, <3>3 DEF MixedRacks, Compatible
  <2>2. ASSUME NEW n \in Nodes
        PROVE  Known(n)'
    <3>1. SUFFICES ASSUME nodes[n] # Absent, nodes[n].rack \in Racks \ spoiled'
                   PROVE  /\ nodes[n].rack \in RacksOf(listed)
                          /\ n \in DOMAIN listed
                          /\ listed[n].rack = nodes[n].rack
                          /\ listed[n].zone = nodes[n].zone
      BY <1>3, <1>4 DEF Known
    <3>2. n \in DOMAIN listed /\ n \notin missed
      BY <1>1, <1>2, <3>1
    <3>3. nodes[n].rack # NoRack
      BY <3>1, RacksAreNat DEF NoRack
    <3>. QED
      BY <1>2, <3>2, <3>3 DEF RacksOf
  <2>. QED
    BY <1>3, <2>1, <2>2 DEF RacksFit
<1>9. RacksKeepZones'
  <2>1. MixedRacks' = MixedRacks
    BY <1>4 DEF MixedRacks
  <2>. QED
    BY <1>1, <2>1 DEF Inv, RacksKeepZones
<1>. QED
  BY <1>5, <1>6, <1>7, <1>8, <1>9 DEF Inv

(* A node gets a rack that has its zone, or none.                          *)
LEMMA InvRack ==
  ASSUME Inv, EnsureNodeRack
  PROVE  Inv'
<1>1. RackLeft /\ pass.at = "racks"
  BY DEF EnsureNodeRack, RackLeft
<1>2. PICK n \in pass.todo :
        LET r == DeterminePlacementRack(pass.listed[n].zone) IN
          \/ /\ nodes[n] # Absent
             /\ nodes' = [nodes EXCEPT ![n].rack = r]
             /\ pass' = [pass EXCEPT !.todo = @ \ {n},
                                     !.racks = Placed(n, r),
                                     !.status.racks = @ \cup {r}]
             /\ spoiled' = IF nodes[n].zone = pass.listed[n].zone THEN spoiled
                           ELSE spoiled \cup {r}
          \/ /\ pass' = [pass EXCEPT !.at = "status",
                                     !.status.racks = @ \cup {r}]
             /\ UNCHANGED <<nodes, spoiled>>
  BY DEF EnsureNodeRack
<1> DEFINE r == DeterminePlacementRack(pass.listed[n].zone)
<1>3. /\ r \in Racks
      /\ \/ r \notin DOMAIN pass.racks
         \/ pass.listed[n].zone = "" \/ pass.racks[r] = {}
         \/ \E x \in pass.racks[r] : pass.listed[x].zone = pass.listed[n].zone
  BY <1>1, PlacementRack DEF Inv
<1> HIDE DEF r
<1>4. n \in Nodes /\ n \in DOMAIN pass.listed
  BY DEF Inv, TypeInv, TypeOK
<1>5. UNCHANGED <<cluster, status, seen, pools>>
  BY DEF EnsureNodeRack
<1>6. TypeInv'
  BY TypeInvRack DEF Inv
<1>7. CopyFits'
  BY <1>5 DEF Inv, CopyFits, KeyFits
<1>8. /\ pass'.status.domain = pass.status.domain
      /\ pass'.status.key = pass.status.key
      /\ pass'.read = pass.read /\ pass'.listed = pass.listed
  <2>1. pass.status \in Status
    BY DEF Inv, TypeInv, TypeOK
  <2>2. /\ pass'.status = [pass.status EXCEPT !.racks = @ \cup {r}]
        /\ pass'.read = pass.read /\ pass'.listed = pass.listed
    BY <1>2 DEF Inv, TypeInv, Shaped, r
  <2>. QED
    BY <2>1, <2>2 DEF Status
<1>9. PassFits'
  BY <1>1, <1>5, <1>8 DEF Inv, PassFits, KeepsKey, KeyFits
<1>10. CASE /\ nodes[n] # Absent
            /\ nodes' = [nodes EXCEPT ![n].rack = r]
            /\ pass' = [pass EXCEPT !.todo = @ \ {n},
                                    !.racks = Placed(n, r),
                                    !.status.racks = @ \cup {r}]
            /\ spoiled' = IF nodes[n].zone = pass.listed[n].zone THEN spoiled
                          ELSE spoiled \cup {r}
  <2>1. /\ pass'.racks = Placed(n, r)
        /\ DOMAIN pass.racks \cup {r} \subseteq DOMAIN Placed(n, r)
        /\ \A x \in DOMAIN Placed(n, r) :
             Placed(n, r)[x] =
               (IF x \in DOMAIN pass.racks THEN pass.racks[x] ELSE {})
                 \cup (IF x = r THEN {n} ELSE {})
    <3>1. pass'.racks = Placed(n, r)
      BY <1>10 DEF Inv, TypeInv, Shaped
    <3>2. TypeInv /\ RackLeft /\ r \in Racks
      BY <1>1, <1>3 DEF Inv
    <3>. QED
      BY <3>1, <3>2, PlacedRacks
  <2>2. ASSUME NEW x \in DOMAIN pass.racks \ spoiled,
               NEW k \in pass.racks[x], NEW m \in pass.racks[x]
        PROVE  Compatible(pass.listed[k].zone, pass.listed[m].zone)
    BY <1>1 DEF Inv, RacksFit
  <2>3. ASSUME r \notin spoiled, r \in DOMAIN pass.racks, NEW m \in pass.racks[r]
        PROVE  /\ Compatible(pass.listed[n].zone, pass.listed[m].zone)
               /\ Compatible(pass.listed[m].zone, pass.listed[n].zone)
    BY <1>3, <2>2, <2>3 DEF Compatible
  <2>4. ASSUME NEW x \in DOMAIN Placed(n, r) \ spoiled',
               NEW k \in Placed(n, r)[x], NEW m \in Placed(n, r)[x]
        PROVE  Compatible(pass.listed[k].zone, pass.listed[m].zone)
    <3>1. x \notin spoiled
      BY <1>10
    <3>2. /\ \/ k \in pass.racks[x] /\ x \in DOMAIN pass.racks
             \/ k = n /\ x = r
          /\ \/ m \in pass.racks[x] /\ x \in DOMAIN pass.racks
             \/ m = n /\ x = r
      BY <2>1
    <3>3. CASE k = n /\ m = n
      BY <3>3 DEF Compatible
    <3>. QED
      BY <2>2, <2>3, <3>1, <3>2, <3>3
  <2>5. nodes'[n].rack = r /\ nodes'[n].zone = nodes[n].zone
    <3>1. nodes[n] \in Labels /\ nodes \in [Nodes -> Labels \cup {Absent}]
      BY <1>4, <1>10 DEF Inv, TypeInv, TypeOK
    <3>. QED
      BY <1>4, <1>10, <3>1 DEF Labels
  <2>6. \A k \in Nodes \ {n} : nodes'[k] = nodes[k]
    BY <1>4, <1>10 DEF Inv, TypeInv, TypeOK
  <2>7. ASSUME NEW k \in Nodes
        PROVE  Known(k)'
    <3>1. SUFFICES ASSUME nodes'[k] # Absent, nodes'[k].rack \in Racks \ spoiled'
                   PROVE  /\ nodes'[k].rack \in DOMAIN Placed(n, r)
                          /\ k \in Placed(n, r)[nodes'[k].rack]
                          /\ pass.listed[k].zone = nodes'[k].zone
      BY <1>8, <2>1 DEF Known
    <3>2. CASE k = n
      BY <1>10, <2>1, <2>5, <3>1, <3>2
    <3>3. CASE k # n
      <4>1. nodes[k] # Absent /\ nodes[k].rack \in Racks \ spoiled
        BY <1>10, <2>6, <3>1, <3>3
      <4>2. /\ nodes[k].rack \in DOMAIN pass.racks
            /\ k \in pass.racks[nodes[k].rack]
            /\ pass.listed[k].zone = nodes[k].zone
        BY <1>1, <4>1 DEF Inv, RacksFit, Known
      <4>. QED
        BY <2>1, <2>6, <3>3, <4>2
    <3>. QED
      BY <3>2, <3>3
  <2>8. RacksFit'
    BY <1>8, <2>1, <2>4, <2>7 DEF RacksFit
  <2>9. RacksKeepZones'
    <3>1. SUFFICES ASSUME NEW x \in Racks, x \notin spoiled',
                          NEW k \in Nodes, NEW m \in Nodes,
                          nodes'[k] # Absent, nodes'[m] # Absent,
                          nodes'[k].rack = x, nodes'[m].rack = x,
                          nodes'[k].zone # "", nodes'[m].zone # "",
                          nodes'[k].zone # nodes'[m].zone
                   PROVE  FALSE
      BY DEF RacksKeepZones, MixedRacks
    <3>2. /\ x \in DOMAIN Placed(n, r)
          /\ k \in Placed(n, r)[x] /\ m \in Placed(n, r)[x]
          /\ pass.listed[k].zone = nodes'[k].zone
          /\ pass.listed[m].zone = nodes'[m].zone
      BY <1>8, <2>1, <2>7, <3>1 DEF Known
    <3>. QED
      BY <2>4, <3>1, <3>2 DEF Compatible
  <2>. QED
    BY <1>6, <1>7, <1>9, <2>8, <2>9 DEF Inv
<1>11. CASE /\ pass' = [pass EXCEPT !.at = "status",
                                    !.status.racks = @ \cup {r}]
            /\ UNCHANGED <<nodes, spoiled>>
  <2>1. pass'.at = "status"
    BY <1>11 DEF Inv, TypeInv, Shaped
  <2>2. RacksFit'
    BY <2>1 DEF RacksFit
  <2>3. RacksKeepZones'
    <3>1. MixedRacks' = MixedRacks
      BY <1>11 DEF MixedRacks
    <3>. QED
      BY <1>11, <3>1 DEF Inv, RacksKeepZones
  <2>. QED
    BY <1>6, <1>7, <1>9, <2>2, <2>3 DEF Inv
<1>. QED
  BY <1>2, <1>10, <1>11 DEF r

(* The rest of a reconcile does not touch nodes.                           *)
LEMMA InvRest ==
  ASSUME Inv, Deploy \/ WriteStatus \/ Crash
  PROVE  Inv'
<1>1. TypeInv'
  BY TypeInvRest DEF Inv
<1>2. UNCHANGED <<nodes, spoiled>>
  BY DEF Deploy, WriteStatus, Crash
<1>3. RacksKeepZones'
  <2>1. MixedRacks' = MixedRacks
    BY <1>2 DEF MixedRacks
  <2>. QED
    BY <1>2, <2>1 DEF Inv, RacksKeepZones
<1>4. CASE Deploy
  <2>1. /\ pass.at = "racks" /\ pass'.at = "status" /\ pass'.read = pass.read
        /\ pass'.status = pass.status /\ pass'.listed = pass.listed
        /\ UNCHANGED <<status, seen>>
    BY <1>4 DEF Inv, TypeInv, Shaped, Deploy
  <2>2. CopyFits' /\ RacksFit'
    BY <2>1 DEF Inv, CopyFits, KeyFits, RacksFit
  <2>3. PassFits'
    BY <2>1 DEF Inv, PassFits, KeepsKey, KeyFits
  <2>. QED
    BY <1>1, <1>3, <2>2, <2>3 DEF Inv
<1>5. CASE WriteStatus
  <2>1. /\ pass.at = "status" /\ pass'.at = "idle" /\ UNCHANGED seen
        /\ \/ status = pass.read /\ status' = pass.status
           \/ UNCHANGED status
    BY <1>5, NoPassTyped DEF WriteStatus
  <2>2. RacksFit' /\ PassFits'
    BY <2>1 DEF RacksFit, PassFits
  <2>3. CopyFits'
    <3>1. CASE UNCHANGED status
      BY <2>1, <3>1 DEF Inv, CopyFits, KeyFits
    <3>2. CASE status = pass.read /\ status' = pass.status
      <4>1. KeyFits(status)' /\ KeyFits(seen)'
        BY <2>1, <3>2 DEF Inv, CopyFits, PassFits, KeyFits
      <4>2. (seen.domain # "" => seen.domain = status.domain)'
        BY <2>1, <3>2 DEF Inv, CopyFits, PassFits
      <4>. QED
        BY <4>1, <4>2 DEF CopyFits
    <3>. QED
      BY <2>1, <3>1, <3>2
  <2>. QED
    BY <1>1, <1>3, <2>2, <2>3 DEF Inv
<1>6. CASE Crash
  <2>1. pass'.at = "idle" /\ seen' = status /\ UNCHANGED status
    BY <1>6, NoPassTyped DEF Crash
  <2>2. CopyFits' /\ RacksFit' /\ PassFits'
    BY <2>1 DEF Inv, CopyFits, KeyFits, RacksFit, PassFits
  <2>. QED
    BY <1>1, <1>3, <2>2 DEF Inv
<1>. QED
  BY <1>4, <1>5, <1>6

(* Whatever users do to a node while a reconcile is at the racks, what it  *)
(* has in memory is right for the racks that are not spoiled by it.        *)
LEMMA NodeStaysKnown ==
  ASSUME Inv, NodesChange, pass.at = "racks", NEW k \in Nodes
  PROVE  /\ spoiled \subseteq spoiled'
         /\ (nodes'[k] # Absent /\ nodes'[k].rack \in Racks \ spoiled')
              => /\ nodes[k] # Absent /\ nodes'[k].rack = nodes[k].rack
                 /\ nodes'[k].zone = nodes[k].zone
<1>1. nodes \in [Nodes -> Labels \cup {Absent}]
  BY DEF Inv, TypeInv, TypeOK
<1>2. NoRack \notin Racks
  BY RacksAreNat DEF NoRack
<1>3. CASE NodeJoins
  BY <1>1, <1>2, <1>3 DEF NodeJoins, Changed
<1>4. CASE NodeLeaves
  BY <1>1, <1>4 DEF NodeLeaves
<1>5. CASE NodeReplaced
  BY <1>1, <1>2, <1>5 DEF NodeReplaced, Changed
<1>6. CASE NodeRelabelled
  <2>1. PICK n \in Nodes, labels \in Labellings :
          /\ nodes[n] # Absent
          /\ nodes' = [nodes EXCEPT ![n].zone = labels.zone,
                                    ![n].zoneKeys = labels.zoneKeys]
          /\ Changed({nodes[n].rack})
    BY <1>6 DEF NodeRelabelled
  <2>2. nodes[n] \in Labels
    BY <1>1, <2>1
  <2>3. nodes'[n].rack = nodes[n].rack
    BY <1>1, <2>1, <2>2 DEF Labels
  <2>4. k # n => nodes'[k] = nodes[k]
    BY <1>1, <2>1
  <2>5. spoiled \subseteq spoiled' /\ {nodes[n].rack} \ {NoRack} \subseteq spoiled'
    BY <2>1 DEF Changed
  <2>. QED
    BY <1>2, <2>3, <2>4, <2>5
<1>7. CASE NodesRelabelled
  <2>1. PICK keys : \A n \in Nodes :
          nodes'[n] = IF nodes[n] = Absent \/ nodes[n].zone = "" THEN nodes[n]
                      ELSE [nodes[n] EXCEPT !.zoneKeys = keys]
    BY <1>7 DEF NodesRelabelled
  <2>2. nodes[k] # Absent => nodes[k] \in Labels
    BY <1>1
  <2>3. nodes[k] # Absent => /\ nodes'[k].zone = nodes[k].zone
                             /\ nodes'[k].rack = nodes[k].rack
    BY <2>1, <2>2 DEF Labels
  <2>. QED
    BY <1>7, <2>1, <2>3 DEF NodesRelabelled
<1>. QED
  BY <1>3, <1>4, <1>5, <1>6, <1>7 DEF NodesChange

(* Where nodes that are there keep zone and rack, no rack gets mixed.      *)
LEMMA MixesNoMore ==
  ASSUME \A k \in Nodes : nodes'[k] # Absent =>
           /\ nodes[k] # Absent
           /\ nodes'[k].zone = nodes[k].zone /\ nodes'[k].rack = nodes[k].rack
  PROVE  MixedRacks' \subseteq MixedRacks
<1>. SUFFICES ASSUME NEW r \in MixedRacks' PROVE r \in MixedRacks
  OBVIOUS
<1>1. r \in Racks /\ \E n, m \in {x \in Nodes : nodes'[x] # Absent} :
        /\ nodes'[n].rack = r /\ nodes'[m].rack = r
        /\ nodes'[n].zone # "" /\ nodes'[m].zone # ""
        /\ nodes'[n].zone # nodes'[m].zone
  BY DEF MixedRacks
<1>2. PICK n \in Nodes, m \in Nodes :
        /\ nodes'[n] # Absent /\ nodes'[m] # Absent
        /\ nodes'[n].rack = r /\ nodes'[m].rack = r
        /\ nodes'[n].zone # "" /\ nodes'[m].zone # ""
        /\ nodes'[n].zone # nodes'[m].zone
  BY <1>1
<1>3. n \in {x \in Nodes : nodes[x] # Absent} /\ m \in {x \in Nodes : nodes[x] # Absent}
  BY <1>2
<1>4. /\ nodes[n].rack = r /\ nodes[m].rack = r
      /\ nodes[n].zone # "" /\ nodes[m].zone # ""
      /\ nodes[n].zone # nodes[m].zone
  <2>1. nodes[n].rack = r /\ nodes[n].zone = nodes'[n].zone
    BY <1>2
  <2>2. nodes[m].rack = r /\ nodes[m].zone = nodes'[m].zone
    BY <1>2
  <2>. QED
    BY <1>2, <2>1, <2>2
<1>5. r \in Racks
  BY <1>1
<1>. QED
  BY <1>3, <1>4, <1>5 DEF MixedRacks

(* What they do leaves no rack with nodes of two zones unnoticed.          *)
LEMMA NodesMix ==
  ASSUME Inv, NodesChange
  PROVE  RacksKeepZones'
<1>1. nodes \in [Nodes -> Labels \cup {Absent}]
  BY DEF Inv, TypeInv, TypeOK
<1>2. CASE NodeJoins \/ NodeReplaced \/ NodeRelabelled
  <2>1. MixedRacks' \subseteq spoiled'
    BY <1>2 DEF NodeJoins, NodeReplaced, NodeRelabelled, Changed
  <2>. QED
    BY <2>1 DEF RacksKeepZones
<1>3. CASE NodeLeaves
  <2>1. PICK n \in Nodes : nodes' = [nodes EXCEPT ![n] = Absent]
    BY <1>3 DEF NodeLeaves
  <2>2. \A k \in Nodes : nodes'[k] # Absent => nodes'[k] = nodes[k]
    BY <1>1, <2>1
  <2>3. MixedRacks' \subseteq MixedRacks
    BY <2>2, MixesNoMore
  <2>. QED
    BY <1>3, <2>3 DEF Inv, RacksKeepZones, NodeLeaves
<1>4. CASE NodesRelabelled
  <2>1. PICK keys : \A n \in Nodes :
          nodes'[n] = IF nodes[n] = Absent \/ nodes[n].zone = "" THEN nodes[n]
                      ELSE [nodes[n] EXCEPT !.zoneKeys = keys]
    BY <1>4 DEF NodesRelabelled
  <2>2. ASSUME NEW k \in Nodes, nodes'[k] # Absent
        PROVE  /\ nodes[k] # Absent
               /\ nodes'[k].zone = nodes[k].zone
               /\ nodes'[k].rack = nodes[k].rack
    <3>1. nodes[k] # Absent
      BY <2>1, <2>2
    <3>2. nodes[k] \in Labels
      BY <1>1, <3>1
    <3>. QED
      BY <2>1, <3>1, <3>2 DEF Labels
  <2>3. MixedRacks' \subseteq MixedRacks
    BY <2>2, MixesNoMore
  <2>. QED
    BY <1>4, <2>3 DEF Inv, RacksKeepZones, NodesRelabelled
<1>. QED
  BY <1>2, <1>3, <1>4 DEF NodesChange

LEMMA NodesSpoilMore ==
  ASSUME NodesChange
  PROVE  spoiled \subseteq spoiled'
BY DEF NodesChange, NodeJoins, NodeLeaves, NodeReplaced, NodeRelabelled,
       NodesRelabelled, Changed

LEMMA InvNodes ==
  ASSUME Inv, NodesChange
  PROVE  Inv'
<1>1. UNCHANGED <<cluster, status, seen, pools, pass>>
  BY DEF NodesChange, NodeJoins, NodeLeaves, NodeReplaced, NodeRelabelled,
         NodesRelabelled
<1>2. TypeInv'
  BY TypeInvNodes DEF Inv
<1>3. CopyFits' /\ PassFits'
  BY <1>1 DEF Inv, CopyFits, KeyFits, PassFits, KeepsKey
<1>4. ASSUME pass.at = "racks"
      PROVE  RacksFit'
  <2>1. ASSUME NEW k \in Nodes
        PROVE  Known(k)'
    <3>1. Known(k)
      BY <1>4 DEF Inv, RacksFit
    <3>2. /\ spoiled \subseteq spoiled'
          /\ (nodes'[k] # Absent /\ nodes'[k].rack \in Racks \ spoiled')
               => /\ nodes[k] # Absent /\ nodes'[k].rack = nodes[k].rack
                  /\ nodes'[k].zone = nodes[k].zone
      BY <1>4, NodeStaysKnown
    <3>. QED
      BY <1>1, <3>1, <3>2 DEF Known
  <2>2. \A r \in DOMAIN pass.racks \ spoiled' : r \notin spoiled
    BY <1>4, NodesSpoilMore
  <2>3. \A r \in DOMAIN pass.racks \ spoiled' : \A n, m \in pass.racks[r] :
          Compatible(pass.listed[n].zone, pass.listed[m].zone)
    BY <1>4, <2>2 DEF Inv, RacksFit
  <2>. QED
    BY <1>1, <2>1, <2>3 DEF RacksFit
<1>5. RacksFit'
  BY <1>1, <1>4 DEF RacksFit
<1>. QED
  BY <1>2, <1>3, <1>5, NodesMix DEF Inv

LEMMA InvNext ==
  ASSUME Inv, [Next]_vars
  PROVE  Inv'
<1>1. CASE Next
  BY <1>1, InvReconcile, InvRack, InvRest, InvNodes
     DEF Next, Reconcile, NodesChange
<1>2. CASE UNCHANGED vars
  <2>1. MixedRacks' = MixedRacks
    BY <1>2 DEF vars, MixedRacks
  <2>2. TypeInv'
    BY TypeInvNext DEF Inv
  <2>3. CopyFits' /\ PassFits' /\ RacksFit' /\ RacksKeepZones'
    BY <1>2, <2>1 DEF vars, Inv, CopyFits, KeyFits, PassFits, KeepsKey, RacksFit,
                      Known, RacksKeepZones
  <2>. QED
    BY <2>2, <2>3 DEF Inv
<1>. QED
  BY <1>1, <1>2

LEMMA InvHolds == Spec => []Inv
<1>1. Init => Inv
  BY InvInit
<1>2. Inv /\ [Next]_vars => Inv'
  BY InvNext
<1>. QED
  BY <1>1, <1>2, PTL DEF Spec

-----------------------------------------------------------------------------
(* Theorems                                                                *)

(* The operator never brings nodes of two zones together in a rack         *)
(* (determinePlacementRack), whatever nodes there are, in whatever order   *)
(* they get their racks, and however reconciles end.                       *)
THEOREM RacksKeepZonesHolds == Spec => []RacksKeepZones
<1>1. Inv => RacksKeepZones
  BY DEF Inv
<1>. QED
  BY <1>1, InvHolds, PTL

(* The failure domain in the status stays, and pools move to that one, but *)
(* by a reconcile whose copy had none yet (setFailureDomain): a status is  *)
(* only written over the copy it was made from.                            *)
THEOREM DomainKeptHolds == Spec => DomainKept
<1> DEFINE Kept ==
      /\ status.domain # "" => status'.domain = status.domain
      /\ (status.domain # "" /\ pools' # pools)
           => pools' = status.domain \/ pass.read.domain = ""
<1>1. ASSUME Inv, [Next]_vars
      PROVE  [Kept]_vars
  <2>1. ASSUME status' # status
        PROVE  status.domain # "" => status'.domain = status.domain
    <3>1. WriteStatus /\ status = pass.read /\ status' = pass.status
      BY <1>1, <2>1 DEF Next, Reconcile, vars, ReconcileNodeTopologyMap,
         EnsureNodeRack, Deploy, WriteStatus, Crash, NodeJoins, NodeLeaves,
         NodeReplaced, NodeRelabelled, NodesRelabelled
    <3>2. pass.at = "status"
      BY <3>1 DEF WriteStatus
    <3>. QED
      BY <1>1, <3>1, <3>2 DEF Inv, PassFits
  <2>2. ASSUME pools' # pools
        PROVE  pools' = status.domain \/ pass.read.domain = ""
    <3>1. Deploy /\ pools' = pass.status.domain
      BY <1>1, <2>2 DEF Next, Reconcile, vars, ReconcileNodeTopologyMap,
         EnsureNodeRack, Deploy, WriteStatus, Crash, NodeJoins, NodeLeaves,
         NodeReplaced, NodeRelabelled, NodesRelabelled
    <3>2. pass.at = "racks"
      BY <3>1 DEF Deploy
    <3>. QED
      BY <1>1, <3>1, <3>2 DEF Inv, PassFits
  <2>. QED
    BY <2>1, <2>2 DEF Kept
<1>. QED
  BY <1>1, InvHolds, PTL DEF Spec, DomainKept

(* The label for the zones stays the one in use (filterDuplicateLabels),   *)
(* but for the two old ones where nodes have both (GetKeyValues).          *)
THEOREM ZoneKeyKeptHolds == Spec => ZoneKeyKept
<1> DEFINE Kept ==
      (status.key \in ZoneKeys /\ status'.key # status.key)
        => \/ ZonesBy(pass.listed, status.key) = {}
           \/ status'.key = "stable" /\ AllKeysOnAll(pass.listed)
           \/ /\ {status.key, status'.key} = {"beta", "old"}
              /\ {"beta", "old"} \subseteq KeysFound(pass.listed)
<1>1. ASSUME Inv, [Next]_vars
      PROVE  [Kept]_vars
  <2>1. SUFFICES ASSUME status' # status
                 PROVE  Kept
    BY DEF Kept
  <2>2. WriteStatus /\ status = pass.read /\ status' = pass.status
    BY <1>1, <2>1 DEF Next, Reconcile, vars, ReconcileNodeTopologyMap,
       EnsureNodeRack, Deploy, WriteStatus, Crash, NodeJoins, NodeLeaves,
       NodeReplaced, NodeRelabelled, NodesRelabelled
  <2>3. KeepsKey(pass.read, pass.status.key, pass.listed)
    BY <1>1, <2>2 DEF Inv, PassFits, WriteStatus
  <2>. QED
    BY <2>2, <2>3 DEF KeepsKey
<1>. QED
  BY <1>1, InvHolds, PTL DEF Spec, ZoneKeyKept

-----------------------------------------------------------------------------
(* As many racks as replicas                                               *)

(* A finite set of natural numbers that is not empty has a greatest        *)
(* element: a least set without one would have one less its elements.      *)
LEMMA GreatestIsIn ==
  ASSUME NEW set, set \subseteq Nat, set # {}, IsFiniteSet(set)
  PROVE  Greatest(set) \in set /\ \A y \in set : Greatest(set) >= y
<1> DEFINE Headed(T) == \E x \in T : \A y \in T : x >= y
           headless == {T \in FiniteSubsetsOf(Nat) : T # {} /\ ~Headed(T)}
<1>1. headless = {}
  <2>1. SUFFICES ASSUME headless # {} PROVE FALSE
    OBVIOUS
  <2>2. headless \subseteq FiniteSubsetsOf(Nat)
    OBVIOUS
  <2>3. PICK T \in headless :
          \A other \in headless : <<other, T>> \notin StrictSubsetOrdering(Nat)
    BY <2>1, <2>2, WFMin, FS_StrictSubsetOrderingWellFounded
  <2>4. T \subseteq Nat /\ IsFiniteSet(T) /\ T # {} /\ ~Headed(T)
    BY DEF FiniteSubsetsOf
  <2>5. PICK x \in T : TRUE
    BY <2>4
  <2> DEFINE U == T \ {x}
  <2>6. U \subseteq Nat /\ IsFiniteSet(U)
    BY <2>4, FS_RemoveElement
  <2>7. <<U, T>> \in StrictSubsetOrdering(Nat)
    BY <2>4, <2>5, <2>6 DEF StrictSubsetOrdering
  <2>8. U = {} \/ Headed(U)
    BY <2>3, <2>6, <2>7 DEF FiniteSubsetsOf
  <2>9. CASE U = {}
    BY <2>4, <2>5, <2>9
  <2>10. CASE Headed(U)
    <3>1. PICK h \in U : \A y \in U : h >= y
      BY <2>10
    <3>2. h \in Nat /\ x \in Nat /\ h \in T
      BY <2>4, <2>5
    <3>3. CASE h >= x
      <4>1. \A y \in T : h >= y
        BY <3>1, <3>3
      <4>. QED
        BY <2>4, <3>2, <4>1
    <3>4. CASE x > h
      <4>1. \A y \in T : y \in Nat
        BY <2>4
      <4>2. \A y \in T : x >= y
        BY <3>1, <3>2, <3>4, <4>1
      <4>. QED
        BY <2>4, <2>5, <4>2
    <3>. QED
      BY <3>2, <3>3, <3>4
  <2>. QED
    BY <2>8, <2>9, <2>10
<1>2. Headed(set)
  BY <1>1 DEF FiniteSubsetsOf
<1>. QED
  BY <1>2 DEF Greatest

ReplicasFinite == IsFiniteSet(cluster.replicas)

LEMMA MinimumNodesNat ==
  ASSUME TypeOK, ReplicasFinite
  PROVE  MinimumNodes \in Nat
<1> DEFINE own == MinDeviceSetReplica * ReplicasPerFailureDomain
           set == {own} \cup cluster.replicas
<1>1. own \in Nat
  BY DEF MinDeviceSetReplica, ReplicasPerFailureDomain
<1>2. cluster.replicas \subseteq Nat
  BY DEF TypeOK, Cluster
<1>3. IsFiniteSet(set)
  BY FS_AddElement DEF ReplicasFinite
<1>4. Greatest(set) \in set
  <2>1. set \subseteq Nat /\ set # {}
    BY <1>1, <1>2
  <2> HIDE DEF set
  <2>. QED
    BY <1>3, <2>1, GreatestIsIn
<1>5. set \subseteq Nat
  BY <1>1, <1>2
<1> HIDE DEF own
<1>6. MinimumNodes = Greatest(set)
  BY DEF MinimumNodes, own
<1>. QED
  BY <1>4, <1>5, <1>6

(* Racks are finitely many.                                                *)
LEMMA RacksFinite ==
  ASSUME NEW racks, racks \subseteq Racks
  PROVE  IsFiniteSet(racks) /\ Cardinality(racks) \in Nat
<1>1. RackNames \in Seq(STRING)
  BY TopologyAssumption
<1>2. Racks = 1..Len(RackNames) /\ Len(RackNames) \in Nat
  BY <1>1 DEF Racks
<1>3. IsFiniteSet(Racks)
  BY <1>2, FS_Interval
<1>4. IsFiniteSet(racks)
  BY <1>3, FS_Subset
<1>. QED
  BY <1>4, FS_CardinalityType

(* With too few racks one is defined, which is the only one without nodes, *)
(* so the next node gets it.                                               *)
LEMMA PlacedInNewRack ==
  ASSUME TypeInv, ReplicasFinite, RackLeft, NEW n, NEW zone,
         \A r \in DOMAIN pass.racks : pass.racks[r] # {},
         Cardinality(DOMAIN pass.racks) < MinimumNodes
  PROVE  LET r == DeterminePlacementRack(zone) IN
         /\ r \notin DOMAIN pass.racks
         /\ DOMAIN Placed(n, r) = DOMAIN pass.racks \cup {r}
<1> DEFINE racks == Defined(pass.racks, MinimumNodes)
           x == NextRack(pass.racks, 1)
           valid == ValidRacks(racks, zone, pass.listed)
           few == {r \in valid : \A y \in valid :
                     Cardinality(racks[r]) <= Cardinality(racks[y])}
<1>1. DOMAIN pass.racks \subseteq Racks
  BY DEF TypeInv, TypeOK
<1>2. MinimumNodes \in Nat
  BY MinimumNodesNat DEF TypeInv
<1>3. \E r \in 1..MinimumNodes : r \notin DOMAIN pass.racks
  <2>1. SUFFICES ASSUME 1..MinimumNodes \subseteq DOMAIN pass.racks PROVE FALSE
    OBVIOUS
  <2>2. /\ IsFiniteSet(DOMAIN pass.racks)
        /\ Cardinality(DOMAIN pass.racks) \in Nat
    BY <1>1, RacksFinite
  <2>3. Cardinality(1..MinimumNodes) <= Cardinality(DOMAIN pass.racks)
    BY <2>1, <2>2, FS_Subset
  <2>4. Cardinality(1..MinimumNodes) = MinimumNodes
    <3>1. Cardinality(1..MinimumNodes) =
            IF 1 > MinimumNodes THEN 0 ELSE MinimumNodes - 1 + 1
      BY <1>2, FS_Interval
    <3>. QED
      BY <1>2, <2>2, <3>1
  <2>. QED
    BY <1>2, <2>2, <2>3, <2>4
<1>4. racks = WithRack(pass.racks, x)
  BY <1>3 DEF Defined
<1>5. x \in Racks /\ x \notin DOMAIN pass.racks
  <2>1. \E y \in 1..OperatorRacks : y >= 1 /\ y \notin DOMAIN pass.racks
    BY OperatorRacksNat DEF RackLeft
  <2>. QED
    BY <2>1, NextRackIsFree, OperatorRacksNat
<1>6. /\ DOMAIN racks = DOMAIN pass.racks \cup {x}
      /\ racks[x] = {}
      /\ \A r \in DOMAIN pass.racks : racks[r] # {} /\ IsFiniteSet(racks[r])
  <2>1. \A r \in DOMAIN pass.racks : IsFiniteSet(pass.racks[r])
    BY FS_Subset, TopologyAssumption DEF TypeInv, TypeOK
  <2>. QED
    BY <1>4, <1>5, <2>1 DEF WithRack
<1> HIDE DEF racks, x
<1>7. x \in valid /\ valid \subseteq DOMAIN racks
  BY <1>6 DEF ValidRacks
<1> HIDE DEF valid
<1>8. few = {x}
  <2>1. Cardinality(racks[x]) = 0
    BY <1>6, FS_EmptySet
  <2>2. ASSUME NEW r \in valid, r # x
        PROVE  Cardinality(racks[r]) \in Nat /\ Cardinality(racks[r]) # 0
    BY <1>6, <1>7, <2>2, FS_EmptySet, FS_CardinalityType
  <2>. QED
    BY <1>7, <2>1, <2>2
<1>9. Fewest(valid, racks) = x
  <2>1. {x} \subseteq Nat /\ {x} # {}
    BY <1>5, RacksAreNat
  <2>2. Least({x}) \in {x}
    BY <2>1, LeastIsIn
  <2>3. Fewest(valid, racks) = Least(few)
    BY DEF Fewest
  <2>. QED
    BY <1>8, <2>2, <2>3
<1>10. DeterminePlacementRack(zone) = x
  BY <1>7, <1>9 DEF DeterminePlacementRack, racks, valid
<1>11. DOMAIN Placed(n, x) = DOMAIN pass.racks \cup {x}
  BY <1>6 DEF Placed, WithRack, racks
<1>. QED
  BY <1>5, <1>10, <1>11

(* With enough of them no other is defined than the one the node gets.     *)
LEMMA PlacedElsewhere ==
  ASSUME NEW n, NEW r, Cardinality(DOMAIN pass.racks) \in Nat,
         MinimumNodes \in Nat,
         Cardinality(DOMAIN pass.racks) >= MinimumNodes
  PROVE  DOMAIN Placed(n, r) = DOMAIN pass.racks \cup {r}
<1>1. Defined(pass.racks, MinimumNodes) = pass.racks
  BY DEF Defined
<1>. QED
  BY <1>1 DEF Placed, WithRack

InUse == {n \in Nodes : nodes[n] # Absent}
RacksInUse == {nodes[n].rack : n \in InUse} \ {NoRack}

(* There are enough racks, or no two nodes share one.                      *)
Spread ==
  \/ Cardinality(RacksInUse) >= MinimumNodes
  \/ \A n, m \in InUse :
       nodes[n].rack = nodes[m].rack /\ nodes[n].rack # NoRack => n = m

(* Only a reconcile for the rack as the domain gives nodes racks, and what *)
(* it has in memory is what the nodes have.                                *)
OnlyRacks ==
  pass.at = "racks" /\ pass.todo # {} => pass.status.domain = "rack"

InMemory ==
  (pass.at = "racks" /\ pass.status.domain = "rack") =>
    /\ Cardinality(DOMAIN pass.listed) >= MinimumNodes
    /\ DOMAIN pass.listed \subseteq InUse
    /\ pass.todo = {n \in DOMAIN pass.listed : nodes[n].rack = NoRack}
    /\ pass.status.racks = DOMAIN pass.racks
    /\ DOMAIN pass.racks = RacksInUse
    /\ \A r \in DOMAIN pass.racks :
         pass.racks[r] = {n \in InUse : nodes[n].rack = r}

RackInv ==
  /\ TypeInv /\ ReplicasFinite /\ OnlyRacks
  /\ ~foreign => Spread /\ InMemory

LEMMA RacksInUseAreRacks ==
  ASSUME TypeOK
  PROVE  /\ RacksInUse \subseteq Racks /\ NoRack \notin Racks
         /\ \A r \in RacksInUse : \E n \in InUse : nodes[n].rack = r
<1>1. \A n \in InUse : nodes[n].rack \in Racks \cup {NoRack}
  BY LabelsApart DEF TypeOK, InUse
<1>. QED
  BY <1>1, RacksAreNat DEF RacksInUse, NoRack

(* If so, a reconcile that has given out all racks has enough.             *)
LEMMA RackInvIsEnough ==
  ASSUME RackInv
  PROVE  EnoughRacks
<1>1. SUFFICES ASSUME pass.at = "racks", pass.todo = {},
                      pass.status.domain = "rack", ~foreign
               PROVE  Cardinality(RacksInUse) >= MinimumNodes
  BY DEF RackInv, EnoughRacks, InMemory
<1>2. SUFFICES ASSUME \A n, m \in InUse :
                        nodes[n].rack = nodes[m].rack /\ nodes[n].rack # NoRack
                          => n = m
               PROVE  Cardinality(RacksInUse) >= MinimumNodes
  BY <1>1 DEF RackInv, Spread
<1> DEFINE listed == DOMAIN pass.listed
           rack == [n \in listed |-> nodes[n].rack]
<1>3. /\ Cardinality(listed) >= MinimumNodes /\ listed \subseteq InUse
      /\ \A n \in listed : nodes[n].rack # NoRack
  BY <1>1 DEF RackInv, InMemory
<1>4. rack \in [listed -> RacksInUse]
  BY <1>3 DEF RacksInUse
<1>5. \A n, m \in listed : rack[n] = rack[m] => n = m
  BY <1>2, <1>3
<1>6. /\ IsFiniteSet(RacksInUse) /\ Cardinality(RacksInUse) \in Nat
      /\ IsFiniteSet(listed) /\ Cardinality(listed) \in Nat
  <2>1. IsFiniteSet(listed)
    BY FS_Subset, TopologyAssumption DEF RackInv, TypeInv, TypeOK
  <2>. QED
    BY <2>1, RacksInUseAreRacks, RacksFinite, FS_CardinalityType
       DEF RackInv, TypeInv
<1>7. ~(Cardinality(RacksInUse) < Cardinality(listed))
  <2> HIDE DEF rack, listed
  <2>. QED
    BY <1>4, <1>5, <1>6, FS_PigeonHole
<1>8. MinimumNodes \in Nat
  BY MinimumNodesNat DEF RackInv, TypeInv
<1>. QED
  BY <1>3, <1>6, <1>7, <1>8

LEMMA RackInvInit == Init => RackInv
<1>. SUFFICES ASSUME Init PROVE RackInv
  OBVIOUS
<1>1. TypeInv
  BY TypeInvInit
<1>2. ReplicasFinite
  BY TopologyAssumption DEF Init, ReplicasFinite
<1>3. pass.at = "idle"
  BY NoPassTyped DEF Init
<1>4. ~foreign => Spread
  BY DEF Init, Spread, InUse
<1>. QED
  BY <1>1, <1>2, <1>3, <1>4 DEF RackInv, OnlyRacks, InMemory

(* The nodes keep their racks, and others come without one.                *)
RacksStay ==
  /\ \A n \in InUse : n \in InUse' /\ nodes'[n].rack = nodes[n].rack
  /\ \A n \in InUse' \ InUse : nodes'[n].rack = NoRack

LEMMA SpreadStays ==
  ASSUME TypeOK, RacksStay, UNCHANGED cluster
  PROVE  /\ RacksInUse' = RacksInUse
         /\ MinimumNodes' = MinimumNodes
         /\ \A r : r # NoRack => {n \in InUse' : nodes'[n].rack = r}
                                   = {n \in InUse : nodes[n].rack = r}
         /\ Spread => Spread'
<1>1. RacksInUse' = RacksInUse
  BY DEF RacksStay, RacksInUse
<1>2. MinimumNodes' = MinimumNodes
  BY DEF MinimumNodes, MinDeviceSetReplica, ReplicasPerFailureDomain
<1>3. \A r : r # NoRack => {n \in InUse' : nodes'[n].rack = r}
                             = {n \in InUse : nodes[n].rack = r}
  BY DEF RacksStay
<1>4. Spread => Spread'
  <2>1. ASSUME \A n, m \in InUse :
                 nodes[n].rack = nodes[m].rack /\ nodes[n].rack # NoRack => n = m,
               NEW n \in InUse', NEW m \in InUse',
               nodes'[n].rack = nodes'[m].rack, nodes'[n].rack # NoRack
        PROVE  n = m
    BY <2>1 DEF RacksStay
  <2>. QED
    BY <1>1, <1>2, <2>1 DEF Spread
<1>. QED
  BY <1>1, <1>2, <1>3, <1>4

(* A reconcile lists the nodes with the racks they have.                   *)
LEMMA RackInvReconcile ==
  ASSUME RackInv, ReconcileNodeTopologyMap
  PROVE  RackInv'
<1>1. PICK read \in {seen, status}, missed \in SUBSET recent :
        /\ ReconcileWith(read, Listing(missed))
        /\ ~foreign' => missed = {} /\ ~foreign
  BY ReconcileReads
<1> DEFINE listed == Listing(missed)
<1>2. /\ DOMAIN listed = InUse
      /\ ~foreign' => \A n \in InUse : listed[n].rack = nodes[n].rack
  BY <1>1, ListingLabels DEF RackInv, TypeInv, InUse
<1> HIDE DEF listed
<1>3. PICK new \in NewStatus(read, listed) :
        pass' = [at |-> "racks", read |-> read, listed |-> listed, status |-> new,
                 racks |-> [r \in RacksOf(listed) |->
                              {n \in DOMAIN listed : listed[n].rack = r}],
                 todo |-> IF new.domain # "rack" THEN {}
                          ELSE {n \in DOMAIN listed : listed[n].rack = NoRack}]
  BY <1>1 DEF ReconcileWith, listed
<1>4. Cardinality(DOMAIN listed) >= MinimumNodes
  BY <1>1 DEF ReconcileWith, listed
<1>5. new.racks = RacksOf(listed)
  <2>1. \E kvs : \E kv \in kvs :
          new = [domain |-> FailureDomain(read, listed), key |-> kv.key,
                 values |-> kv.values, racks |-> RacksOf(listed)]
    BY DEF NewStatus
  <2>. QED
    BY <2>1
<1>6. TypeInv'
  BY TypeInvReconcile DEF RackInv
<1>7. UNCHANGED <<cluster, nodes>>
  BY DEF ReconcileNodeTopologyMap
<1>8. ReplicasFinite' /\ OnlyRacks'
  BY <1>3, <1>7 DEF RackInv, ReplicasFinite, OnlyRacks
<1>9. ASSUME ~foreign'
      PROVE  Spread' /\ InMemory'
  <2>1. RacksStay
    BY <1>7 DEF RacksStay, InUse
  <2>2. /\ InUse' = InUse /\ RacksInUse' = RacksInUse
        /\ MinimumNodes' = MinimumNodes /\ Spread'
    BY <1>1, <1>7, <1>9, <2>1, SpreadStays DEF RackInv, TypeInv, InUse
  <2>3. RacksOf(listed) = RacksInUse
    BY <1>2, <1>9 DEF RacksOf, RacksInUse
  <2>4. InMemory'
    BY <1>2, <1>3, <1>4, <1>5, <1>7, <1>9, <2>2, <2>3 DEF InMemory
  <2>. QED
    BY <2>2, <2>4
<1>. QED
  BY <1>6, <1>8, <1>9 DEF RackInv

(* While there are too few racks the node gets one that is new.            *)
LEMMA RackInvRack ==
  ASSUME RackInv, EnsureNodeRack
  PROVE  RackInv'
<1>1. RackLeft /\ pass.at = "racks"
  BY DEF EnsureNodeRack, RackLeft
<1>2. PICK n \in pass.todo :
        LET r == DeterminePlacementRack(pass.listed[n].zone) IN
          \/ /\ nodes[n] # Absent
             /\ nodes' = [nodes EXCEPT ![n].rack = r]
             /\ pass' = [pass EXCEPT !.todo = @ \ {n},
                                     !.racks = Placed(n, r),
                                     !.status.racks = @ \cup {r}]
          \/ /\ pass' = [pass EXCEPT !.at = "status",
                                     !.status.racks = @ \cup {r}]
             /\ UNCHANGED nodes
  BY DEF EnsureNodeRack
<1> DEFINE r == DeterminePlacementRack(pass.listed[n].zone)
<1>3. r \in Racks
  BY <1>1, PlacementRack DEF RackInv
<1>4. n \in Nodes /\ n \in DOMAIN pass.listed
  BY DEF RackInv, TypeInv, TypeOK
<1>5. UNCHANGED <<cluster, foreign>>
  BY DEF EnsureNodeRack
<1>6. TypeInv'
  BY TypeInvRack DEF RackInv
<1>7. ReplicasFinite'
  BY <1>5 DEF RackInv, ReplicasFinite
<1>8. pass.status.domain = "rack" /\ pass.status \in Status
  BY <1>1 DEF RackInv, OnlyRacks, TypeInv, TypeOK
<1>9. CASE /\ nodes[n] # Absent
           /\ nodes' = [nodes EXCEPT ![n].rack = r]
           /\ pass' = [pass EXCEPT !.todo = @ \ {n},
                                   !.racks = Placed(n, r),
                                   !.status.racks = @ \cup {r}]
  <2>1. /\ pass'.at = "racks" /\ pass'.listed = pass.listed
        /\ pass'.todo = pass.todo \ {n} /\ pass'.racks = Placed(n, r)
        /\ pass'.status = [pass.status EXCEPT !.racks = @ \cup {r}]
    BY <1>1, <1>9 DEF RackInv, TypeInv, Shaped
  <2>2. /\ pass'.status.domain = "rack"
        /\ pass'.status.racks = pass.status.racks \cup {r}
    <3> HIDE DEF r
    <3>. QED
      BY <1>8, <2>1 DEF Status
  <2>3. /\ InUse' = InUse /\ n \in InUse
        /\ nodes'[n].rack = r
        /\ \A k \in InUse : k # n => nodes'[k].rack = nodes[k].rack
    <3>1. nodes[n] \in Labels /\ nodes \in [Nodes -> Labels \cup {Absent}]
      BY <1>4, <1>9 DEF RackInv, TypeInv, TypeOK
    <3>2. nodes'[n].rack = r /\ [nodes[n] EXCEPT !.rack = r] \in Labels
      <4> HIDE DEF r
      <4>. QED
        BY <1>3, <1>4, <1>9, <3>1 DEF Labels
    <3>3. nodes'[n] # Absent
      BY <1>4, <1>9, <3>1, <3>2, LabelsApart
    <3>4. \A k \in Nodes : k # n => nodes'[k] = nodes[k]
      BY <1>4, <1>9, <3>1
    <3>. QED
      BY <1>4, <1>9, <3>2, <3>3, <3>4 DEF InUse
  <2>4. ASSUME ~foreign
        PROVE  Spread' /\ InMemory'
    <3>1. /\ Cardinality(DOMAIN pass.listed) >= MinimumNodes
          /\ DOMAIN pass.listed \subseteq InUse
          /\ pass.todo = {k \in DOMAIN pass.listed : nodes[k].rack = NoRack}
          /\ pass.status.racks = DOMAIN pass.racks
          /\ DOMAIN pass.racks = RacksInUse
          /\ \A x \in DOMAIN pass.racks :
               pass.racks[x] = {k \in InUse : nodes[k].rack = x}
      BY <1>1, <1>8, <2>4 DEF RackInv, InMemory
    <3>2. nodes[n].rack = NoRack /\ r # NoRack
      BY <1>3, <3>1, RacksInUseAreRacks DEF RackInv, TypeInv
    <3>3. \A x \in DOMAIN pass.racks : pass.racks[x] # {}
      BY <3>1, RacksInUseAreRacks DEF RackInv, TypeInv
    <3>4. /\ MinimumNodes \in Nat /\ MinimumNodes' = MinimumNodes
          /\ IsFiniteSet(DOMAIN pass.racks)
          /\ Cardinality(DOMAIN pass.racks) \in Nat
      <4>1. MinimumNodes' = MinimumNodes
        BY <1>5 DEF MinimumNodes, MinDeviceSetReplica, ReplicasPerFailureDomain
      <4>2. DOMAIN pass.racks \subseteq Racks
        BY DEF RackInv, TypeInv, TypeOK
      <4>. QED
        BY <4>1, <4>2, MinimumNodesNat, RacksFinite DEF RackInv, TypeInv
    <3>5. RacksInUse' = RacksInUse \cup {r}
      BY <2>3, <3>2 DEF RacksInUse
    <3>6. /\ DOMAIN Placed(n, r) = DOMAIN pass.racks \cup {r}
          /\ \/ r \notin RacksInUse
             \/ Cardinality(RacksInUse) >= MinimumNodes
      <4>1. CASE Cardinality(DOMAIN pass.racks) < MinimumNodes
        BY <1>1, <3>1, <3>3, <4>1, PlacedInNewRack DEF RackInv
      <4>2. CASE Cardinality(DOMAIN pass.racks) >= MinimumNodes
        BY <3>1, <3>4, <4>2, PlacedElsewhere
      <4>. QED
        BY <3>4, <4>1, <4>2
    <3>7. \A x \in DOMAIN Placed(n, r) :
            Placed(n, r)[x] =
              (IF x \in DOMAIN pass.racks THEN pass.racks[x] ELSE {})
                \cup (IF x = r THEN {n} ELSE {})
      <4> HIDE DEF r
      <4>. QED
        BY <1>1, <1>3, PlacedRacks DEF RackInv
    <3> HIDE DEF r
    <3>8. Spread'
      <4>1. CASE Cardinality(RacksInUse) >= MinimumNodes
        <5>1. IsFiniteSet(RacksInUse) /\ Cardinality(RacksInUse) \in Nat
          BY <3>1, <3>4
        <5>2. Cardinality(RacksInUse \cup {r}) =
                IF r \in RacksInUse THEN Cardinality(RacksInUse)
                ELSE Cardinality(RacksInUse) + 1
          BY <5>1, FS_AddElement
        <5>3. Cardinality(RacksInUse \cup {r}) >= MinimumNodes
          BY <3>4, <4>1, <5>1, <5>2
        <5>. QED
          BY <3>4, <3>5, <5>3 DEF Spread
      <4>2. CASE /\ r \notin RacksInUse
                 /\ ~(Cardinality(RacksInUse) >= MinimumNodes)
        <5>1. \A k, m \in InUse :
                nodes[k].rack = nodes[m].rack /\ nodes[k].rack # NoRack => k = m
          BY <2>4, <4>2 DEF RackInv, Spread
        <5>2. \A k \in InUse : nodes[k].rack # r
          BY <3>2, <4>2 DEF RacksInUse
        <5>3. ASSUME NEW k \in InUse', NEW m \in InUse',
                     nodes'[k].rack = nodes'[m].rack, nodes'[k].rack # NoRack
              PROVE  k = m
          BY <2>3, <5>1, <5>2, <5>3
        <5>. QED
          BY <5>3 DEF Spread
      <4>. QED
        BY <3>6, <4>1, <4>2
    <3>9. InMemory'
      <4>1. pass'.todo = {k \in DOMAIN pass.listed : nodes'[k].rack = NoRack}
        BY <2>1, <2>3, <3>1, <3>2
      <4>2. ASSUME NEW x \in DOMAIN Placed(n, r)
            PROVE  Placed(n, r)[x] = {k \in InUse : nodes'[k].rack = x}
        <5>1. x # NoRack
          BY <1>3, <3>1, <3>2, <3>6, RacksInUseAreRacks DEF RackInv, TypeInv
        <5>2. (IF x \in DOMAIN pass.racks THEN pass.racks[x] ELSE {})
                = {k \in InUse : nodes[k].rack = x}
          BY <3>1, <5>1 DEF RacksInUse
        <5>. QED
          BY <2>3, <3>2, <3>7, <5>1, <5>2
      <4>. QED
        BY <2>1, <2>2, <2>3, <3>1, <3>4, <3>5, <3>6, <4>1, <4>2 DEF InMemory
    <3>. QED
      BY <3>8, <3>9
  <2>5. OnlyRacks'
    BY <2>2 DEF OnlyRacks
  <2>. QED
    BY <1>5, <1>6, <1>7, <2>4, <2>5 DEF RackInv
<1>10. CASE /\ pass' = [pass EXCEPT !.at = "status",
                                    !.status.racks = @ \cup {r}]
            /\ UNCHANGED nodes
  <2>1. pass'.at = "status"
    BY <1>10 DEF RackInv, TypeInv, Shaped
  <2>2. Spread => Spread'
    <3>1. RacksStay
      BY <1>10 DEF RacksStay, InUse
    <3>. QED
      BY <1>5, <3>1, SpreadStays DEF RackInv, TypeInv
  <2>3. OnlyRacks' /\ InMemory'
    BY <2>1 DEF OnlyRacks, InMemory
  <2>. QED
    BY <1>5, <1>6, <1>7, <2>2, <2>3 DEF RackInv
<1>. QED
  BY <1>2, <1>9, <1>10

LEMMA RackInvRest ==
  ASSUME RackInv, Deploy \/ WriteStatus \/ Crash
  PROVE  RackInv'
<1>1. TypeInv'
  BY TypeInvRest DEF RackInv
<1>2. UNCHANGED <<cluster, nodes, foreign>>
  BY DEF Deploy, WriteStatus, Crash
<1>3. Spread => Spread'
  <2>1. RacksStay
    BY <1>2 DEF RacksStay, InUse
  <2>. QED
    BY <1>2, <2>1, SpreadStays DEF RackInv, TypeInv
<1>4. pass'.at # "racks"
  BY NoPassTyped DEF RackInv, TypeInv, Shaped, Deploy, WriteStatus, Crash
<1>. QED
  BY <1>1, <1>2, <1>3, <1>4
     DEF RackInv, ReplicasFinite, OnlyRacks, InMemory

(* As long as no node leaves or brings a rack, the racks are the same.     *)
LEMMA NodesKeepRacks ==
  ASSUME TypeInv, NodesChange, ~foreign'
  PROVE  RacksStay /\ ~foreign
<1>1. nodes \in [Nodes -> Labels \cup {Absent}]
  BY DEF TypeInv, TypeOK
<1>2. CASE NodeJoins
  <2>1. PICK n \in Nodes, labels \in Labellings :
          /\ nodes[n] = Absent /\ nodes' = [nodes EXCEPT ![n] = labels]
          /\ foreign' = (foreign \/ labels.rack # NoRack)
    BY <1>2 DEF NodeJoins
  <2>. QED
    BY <1>1, <2>1 DEF RacksStay, InUse
<1>3. CASE NodeRelabelled
  <2>1. PICK n \in Nodes, labels \in Labellings :
          /\ nodes[n] # Absent
          /\ nodes' = [nodes EXCEPT ![n].zone = labels.zone,
                                    ![n].zoneKeys = labels.zoneKeys]
    BY <1>3 DEF NodeRelabelled
  <2>2. nodes[n] \in Labels /\ labels \in Labels
    BY <1>1, <2>1, LabellingsAreLabels
  <2>3. nodes'[n].rack = nodes[n].rack /\ nodes'[n] # Absent
    <3>1. [[nodes[n] EXCEPT !.zone = labels.zone]
            EXCEPT !.zoneKeys = labels.zoneKeys] \in Labels
      BY <2>2 DEF Labels
    <3>2. nodes'[n] \in Labels /\ nodes'[n].rack = nodes[n].rack
      BY <1>1, <2>1, <2>2, <3>1 DEF Labels
    <3>. QED
      BY <3>2, LabelsApart
  <2>4. \A k \in Nodes : k # n => nodes'[k] = nodes[k]
    BY <1>1, <2>1
  <2>. QED
    BY <1>3, <2>1, <2>3, <2>4 DEF RacksStay, InUse, NodeRelabelled
<1>4. CASE NodesRelabelled
  <2>1. PICK keys : \A n \in Nodes :
          nodes'[n] = IF nodes[n] = Absent \/ nodes[n].zone = "" THEN nodes[n]
                      ELSE [nodes[n] EXCEPT !.zoneKeys = keys]
    BY <1>4 DEF NodesRelabelled
  <2>2. nodes' \in [Nodes -> Labels \cup {Absent}]
    BY <1>4, NodesChangeTyped DEF NodesChange
  <2>3. ASSUME NEW n \in Nodes, nodes[n] # Absent
        PROVE  nodes'[n].rack = nodes[n].rack /\ nodes'[n] # Absent
    <3>1. nodes[n] \in Labels
      BY <1>1, <2>3
    <3>2. DOMAIN nodes'[n] = DOMAIN nodes[n] /\ nodes'[n].rack = nodes[n].rack
      BY <2>1, <2>3, <3>1 DEF Labels
    <3>. QED
      BY <3>1, <3>2 DEF Labels, Absent
  <2>. QED
    BY <1>4, <2>1, <2>3 DEF RacksStay, InUse, NodesRelabelled
<1>5. ~NodeLeaves /\ ~NodeReplaced
  BY DEF NodeLeaves, NodeReplaced
<1>. QED
  BY <1>2, <1>3, <1>4, <1>5 DEF NodesChange

LEMMA RackInvNodes ==
  ASSUME RackInv, NodesChange
  PROVE  RackInv'
<1>1. UNCHANGED <<cluster, status, seen, pools, pass>>
  BY DEF NodesChange, NodeJoins, NodeLeaves, NodeReplaced, NodeRelabelled,
         NodesRelabelled
<1>2. TypeInv'
  BY TypeInvNodes DEF RackInv
<1>3. ReplicasFinite' /\ OnlyRacks'
  BY <1>1 DEF RackInv, ReplicasFinite, OnlyRacks
<1>4. ASSUME ~foreign'
      PROVE  Spread' /\ InMemory'
  <2>1. RacksStay /\ Spread /\ InMemory
    BY <1>4, NodesKeepRacks DEF RackInv
  <2>2. /\ RacksInUse' = RacksInUse /\ MinimumNodes' = MinimumNodes
        /\ \A r : r # NoRack => {n \in InUse' : nodes'[n].rack = r}
                                  = {n \in InUse : nodes[n].rack = r}
        /\ Spread'
    BY <1>1, <2>1, SpreadStays DEF RackInv, TypeInv
  <2>3. \A r \in RacksInUse : r # NoRack
    BY DEF RacksInUse
  <2>4. InMemory'
    <3>1. SUFFICES ASSUME pass.at = "racks", pass.status.domain = "rack"
                   PROVE  /\ Cardinality(DOMAIN pass.listed) >= MinimumNodes'
                          /\ DOMAIN pass.listed \subseteq InUse'
                          /\ pass.todo = {n \in DOMAIN pass.listed :
                                            nodes'[n].rack = NoRack}
                          /\ pass.status.racks = DOMAIN pass.racks
                          /\ DOMAIN pass.racks = RacksInUse'
                          /\ \A r \in DOMAIN pass.racks :
                               pass.racks[r] = {n \in InUse' : nodes'[n].rack = r}
      BY <1>1 DEF InMemory
    <3>. QED
      BY <2>1, <2>2, <2>3, <3>1 DEF InMemory, RacksStay
  <2>. QED
    BY <2>2, <2>4
<1>. QED
  BY <1>2, <1>3, <1>4 DEF RackInv

LEMMA RackInvNext ==
  ASSUME RackInv, [Next]_vars
  PROVE  RackInv'
<1>1. CASE Next
  BY <1>1, RackInvReconcile, RackInvRack, RackInvRest, RackInvNodes
     DEF Next, Reconcile, NodesChange
<1>2. CASE UNCHANGED vars
  <2>1. TypeInv'
    BY TypeInvNext DEF RackInv
  <2>2. RacksInUse' = RacksInUse /\ InUse' = InUse /\ MinimumNodes' = MinimumNodes
    BY <1>2 DEF vars, RacksInUse, InUse, MinimumNodes, MinDeviceSetReplica,
                ReplicasPerFailureDomain
  <2>3. Spread' = Spread /\ InMemory' = InMemory
    BY <1>2, <2>2 DEF vars, Spread, InMemory
  <2>. QED
    BY <1>2, <2>1, <2>3 DEF vars, RackInv, ReplicasFinite, OnlyRacks
<1>. QED
  BY <1>1, <1>2

(* Ceph is deployed over racks only when there are as many as the cluster  *)
(* has replicas (ensureNodeRacks, determinePlacementRack), however many    *)
(* reconciles, failed patches and crashes it took to give them out.        *)
THEOREM EnoughRacksHolds == Spec => []EnoughRacks
<1>1. Init => RackInv
  BY RackInvInit
<1>2. RackInv /\ [Next]_vars => RackInv'
  BY RackInvNext
<1>3. RackInv => EnoughRacks
  BY RackInvIsEnough
<1>. QED
  BY <1>1, <1>2, <1>3, PTL DEF Spec
=============================================================================
