------------------------- MODULE OCSInitializationProofs -------------------------
(***************************************************************************)
(* Proofs about OCSInitialization, for any clusters and bounds: when the   *)
(* controller has nothing left to do, the config maps are those the        *)
(* clusters want, Rook runs with them, and all objects are there.          *)
(***************************************************************************)
EXTENDS OCSInitialization, SequenceTheorems, FiniteSetTheorems,
        WellFoundedInduction, TLAPS

-----------------------------------------------------------------------------
(* What is left to do                                                      *)

(* The last thing a reconcile does is to complete, once.                   *)
LastComplete(s) == \A i \in DOMAIN s : s[i] = "Complete" <=> i = Len(s)

LEMMA TailProperties ==
  ASSUME NEW s \in Seq(Steps), s # <<>>
  PROVE  /\ Tail(s) \in Seq(Steps)
         /\ Head(s) \in Elements(s)
         /\ Elements(s) = {Head(s)} \cup Elements(Tail(s))
         /\ LastComplete(s) =>
              /\ LastComplete(Tail(s))
              /\ Head(s) # "Complete" => Tail(s) # <<>>
              /\ Head(s) = "Complete" => Elements(s) = {"Complete"}
<1>1. /\ Len(s) \in Nat \ {0} /\ DOMAIN s = 1..Len(s)
      /\ Tail(s) \in Seq(Steps) /\ Len(Tail(s)) = Len(s) - 1
      /\ DOMAIN Tail(s) = 1..(Len(s) - 1)
      /\ \A i \in 1..(Len(s) - 1) : Tail(s)[i] = s[i + 1]
      /\ Head(s) = s[1]
  BY HeadTailProperties, EmptySeq
<1>2. Elements(s) = {Head(s)} \cup Elements(Tail(s))
  <2>1. ASSUME NEW i \in DOMAIN s
        PROVE  s[i] \in {Head(s)} \cup Elements(Tail(s))
    <3>1. CASE i = 1
      BY <1>1, <3>1
    <3>2. CASE i # 1
      <4>1. i - 1 \in DOMAIN Tail(s) /\ Tail(s)[i - 1] = s[i]
        BY <1>1, <3>2
      <4>. QED
        BY <4>1 DEF Elements
    <3>. QED
      BY <3>1, <3>2
  <2>2. ASSUME NEW i \in DOMAIN Tail(s)
        PROVE  Tail(s)[i] \in Elements(s)
    <3>1. i + 1 \in DOMAIN s /\ Tail(s)[i] = s[i + 1]
      BY <1>1
    <3>. QED
      BY <3>1 DEF Elements
  <2>3. 1 \in DOMAIN s
    BY <1>1
  <2>. QED
    BY <1>1, <2>1, <2>2, <2>3 DEF Elements
<1>3. ASSUME LastComplete(s)
      PROVE  /\ LastComplete(Tail(s))
             /\ Head(s) # "Complete" => Tail(s) # <<>>
             /\ Head(s) = "Complete" => Elements(s) = {"Complete"}
  <2>1. LastComplete(Tail(s))
    BY <1>1, <1>3 DEF LastComplete
  <2>2. Head(s) = "Complete" <=> Len(s) = 1
    BY <1>1, <1>3 DEF LastComplete
  <2>3. Head(s) # "Complete" => Tail(s) # <<>>
    BY <1>1, <2>2
  <2>4. Head(s) = "Complete" => Elements(s) = {"Complete"}
    BY <1>1, <2>2 DEF Elements
  <2>. QED
    BY <2>1, <2>3, <2>4
<1>. QED
  BY <1>1, <1>2, <1>3 DEF Elements

LEMMA ConcatElements ==
  ASSUME NEW s \in Seq(Steps), NEW t \in Seq(Steps)
  PROVE  s \o t \in Seq(Steps) /\ Elements(s \o t) = Elements(s) \cup Elements(t)
<1>1. /\ s \o t \in Seq(Steps)
      /\ DOMAIN (s \o t) = 1..(Len(s) + Len(t))
      /\ DOMAIN s = 1..Len(s) /\ DOMAIN t = 1..Len(t)
      /\ Len(s) \in Nat /\ Len(t) \in Nat
      /\ \A i \in 1..(Len(s) + Len(t)) :
           (s \o t)[i] = IF i <= Len(s) THEN s[i] ELSE t[i - Len(s)]
  BY ConcatProperties
<1>2. ASSUME NEW i \in DOMAIN (s \o t)
      PROVE  (s \o t)[i] \in Elements(s) \cup Elements(t)
  <2>1. CASE i <= Len(s)
    BY <1>1, <2>1 DEF Elements
  <2>2. CASE ~(i <= Len(s))
    <3>1. i - Len(s) \in DOMAIN t /\ (s \o t)[i] = t[i - Len(s)]
      BY <1>1, <2>2
    <3>. QED
      BY <3>1 DEF Elements
  <2>. QED
    BY <2>1, <2>2
<1>3. ASSUME NEW i \in DOMAIN s
      PROVE  s[i] \in Elements(s \o t)
  <2>1. i \in DOMAIN (s \o t) /\ (s \o t)[i] = s[i]
    BY <1>1
  <2>. QED
    BY <2>1 DEF Elements
<1>4. ASSUME NEW i \in DOMAIN t
      PROVE  t[i] \in Elements(s \o t)
  <2>1. Len(s) + i \in DOMAIN (s \o t) /\ (s \o t)[Len(s) + i] = t[i]
    BY <1>1
  <2>. QED
    BY <2>1 DEF Elements
<1>. QED
  BY <1>1, <1>2, <1>3, <1>4 DEF Elements

(* Completion after other things is the last.                              *)
LEMMA CompleteIsLast ==
  ASSUME NEW s \in Seq(Steps), "Complete" \notin Elements(s)
  PROVE  LastComplete(s \o <<"Complete">>)
<1>1. <<"Complete">> \in Seq(Steps)
  BY DEF Steps
<1>2. /\ DOMAIN (s \o <<"Complete">>) = 1..(Len(s) + 1)
      /\ Len(s \o <<"Complete">>) = Len(s) + 1
      /\ DOMAIN s = 1..Len(s) /\ Len(s) \in Nat
      /\ \A i \in 1..(Len(s) + 1) :
           (s \o <<"Complete">>)[i] = IF i <= Len(s) THEN s[i] ELSE "Complete"
  BY <1>1, ConcatProperties
<1>3. \A i \in 1..Len(s) : s[i] # "Complete"
  BY <1>2 DEF Elements
<1>. QED
  BY <1>2, <1>3 DEF LastComplete

(* A restart before what is left to do.                                    *)
LEMMA RestartFirst ==
  ASSUME NEW s \in Seq(Steps), s # <<>>, LastComplete(s)
  PROVE  LET t == <<"Restart">> \o s IN
         /\ t \in Seq(Steps) /\ t # <<>> /\ Head(t) = "Restart"
         /\ Elements(t) = {"Restart"} \cup Elements(s)
         /\ LastComplete(t)
<1> DEFINE t == <<"Restart">> \o s
<1>1. <<"Restart">> \in Seq(Steps) /\ Elements(<<"Restart">>) = {"Restart"}
  BY DEF Steps, Elements
<1>2. t \in Seq(Steps) /\ Elements(t) = {"Restart"} \cup Elements(s)
  BY <1>1, ConcatElements
<1>3. /\ DOMAIN t = 1..(1 + Len(s)) /\ Len(t) = 1 + Len(s)
      /\ DOMAIN s = 1..Len(s) /\ Len(s) \in Nat
      /\ \A i \in 1..(1 + Len(s)) : t[i] = IF i <= 1 THEN "Restart" ELSE s[i - 1]
  BY <1>1, ConcatProperties
<1>4. LastComplete(t)
  <2>1. Len(s) # 0
    BY EmptySeq
  <2>2. ASSUME NEW i \in DOMAIN t
        PROVE  t[i] = "Complete" <=> i = Len(t)
    <3>1. CASE i = 1
      BY <1>3, <2>1, <3>1
    <3>2. CASE i # 1
      <4>1. i - 1 \in DOMAIN s /\ t[i] = s[i - 1]
        BY <1>3, <3>2
      <4>2. s[i - 1] = "Complete" <=> i - 1 = Len(s)
        BY <4>1 DEF LastComplete
      <4>. QED
        BY <1>3, <4>1, <4>2
    <3>. QED
      BY <3>1, <3>2
  <2>. QED
    BY <2>2 DEF LastComplete
<1>5. t # <<>> /\ Head(t) = "Restart"
  BY <1>2, <1>3
<1>. QED
  BY <1>2, <1>4, <1>5

(* What a reconcile starts with.                                           *)
LEMMA TodoProperties ==
  /\ Todo \in Seq(Steps) /\ Todo # <<>>
  /\ LastComplete(Todo)
  /\ {"RookConfig", "OperatorConfig", "Complete"} \subseteq Elements(Todo)
  /\ hcp => "PrometheusCSV" \in Elements(Todo)
<1> DEFINE first == <<"SCCs", "SCCStatus", "RookConfig", "OperatorConfig">>
           monitoring == IF hcp THEN <<"PrometheusCSV">> \o Monitoring ELSE <<>>
           before == first \o UXBackend \o monitoring
<1>1. /\ first \in Seq(Steps)
      /\ Elements(first) = {"SCCs", "SCCStatus", "RookConfig", "OperatorConfig"}
  BY DEF Steps, Elements
<1>2. /\ UXBackend \in Seq(Steps)
      /\ Elements(UXBackend) = {"UXBackendSecret", "UXBackendService"}
  BY DEF UXBackend, Steps, AllObjects, Elements
<1>3. /\ Monitoring \in Seq(Steps)
      /\ Elements(Monitoring) = {"KubeRBACConfigMap", "PrometheusService",
                                 "Prometheus", "AlertManager", "ServiceMonitor"}
  BY DEF Monitoring, Steps, AllObjects, Elements
<1>4. /\ <<"PrometheusCSV">> \in Seq(Steps)
      /\ Elements(<<"PrometheusCSV">>) = {"PrometheusCSV"}
      /\ <<"Complete">> \in Seq(Steps)
      /\ Elements(<<"Complete">>) = {"Complete"}
      /\ <<>> \in Seq(Steps)
      /\ Elements(<<>>) = {}
  BY DEF Steps, Elements
<1>5. /\ monitoring \in Seq(Steps)
      /\ "Complete" \notin Elements(monitoring)
      /\ hcp => "PrometheusCSV" \in Elements(monitoring)
  <2> DEFINE both == <<"PrometheusCSV">> \o Monitoring
  <2>1. /\ both \in Seq(Steps)
        /\ Elements(both) = {"PrometheusCSV"} \cup Elements(Monitoring)
    BY <1>3, <1>4, ConcatElements
  <2>2. monitoring = IF hcp THEN both ELSE <<>>
    OBVIOUS
  <2> HIDE DEF both, monitoring
  <2>. QED
    BY <1>3, <1>4, <2>1, <2>2
<1> HIDE DEF first, monitoring
<1>6. /\ first \o UXBackend \in Seq(Steps)
      /\ Elements(first \o UXBackend) = Elements(first) \cup Elements(UXBackend)
  BY <1>1, <1>2, ConcatElements
<1>7. /\ before \in Seq(Steps)
      /\ Elements(before) = Elements(first \o UXBackend) \cup Elements(monitoring)
  BY <1>5, <1>6, ConcatElements
<1>8. "Complete" \notin Elements(before)
  BY <1>1, <1>2, <1>5, <1>6, <1>7
<1>9. Todo = before \o <<"Complete">>
  BY DEF Todo, first, monitoring
<1> HIDE DEF before
<1>10. /\ Todo \in Seq(Steps)
       /\ Elements(Todo) = Elements(before) \cup {"Complete"}
  BY <1>4, <1>7, <1>9, ConcatElements
<1>11. LastComplete(Todo)
  BY <1>7, <1>8, <1>9, CompleteIsLast
<1>12. Todo # <<>>
  BY <1>4, <1>10
<1>. QED
  BY <1>1, <1>5, <1>6, <1>7, <1>10, <1>11, <1>12

-----------------------------------------------------------------------------
(* Types                                                                   *)

(* A set of natural numbers that is not empty has a least element: the     *)
(* intervals up to its elements are finite sets, well-founded by inclusion.*)
LEMMA LeastNat ==
  ASSUME NEW set, set \subseteq Nat, set # {}
  PROVE  \E x \in set : \A y \in set : x <= y
<1> DEFINE intervals == {1..n : n \in set}
<1>1. intervals \subseteq FiniteSubsetsOf(Nat) /\ intervals # {}
  <2>1. ASSUME NEW n \in set
        PROVE  IsFiniteSet(1..n) /\ 1..n \subseteq Nat
    BY FS_Interval
  <2>. QED
    BY <2>1 DEF FiniteSubsetsOf
<1>2. PICK least \in intervals :
        \A other \in intervals : <<other, least>> \notin StrictSubsetOrdering(Nat)
  BY <1>1, WFMin, FS_StrictSubsetOrderingWellFounded
<1>3. PICK x \in set : least = 1..x
  BY <1>2
<1>4. ASSUME NEW y \in set
      PROVE  x <= y
  <2>1. <<1..y, 1..x>> \notin StrictSubsetOrdering(Nat)
    BY <1>2, <1>3
  <2>2. 1..y \in SUBSET Nat /\ 1..x \in SUBSET Nat
    OBVIOUS
  <2>3. ~(1..y \subseteq 1..x /\ 1..y # 1..x)
    BY <2>1, <2>2 DEF StrictSubsetOrdering
  <2>4. SUFFICES ASSUME y < x PROVE FALSE
    OBVIOUS
  <2>5. 1..y \subseteq 1..x /\ x \in 1..x /\ x \notin 1..y
    BY <2>4
  <2>. QED
    BY <2>3, <2>5
<1>. QED
  BY <1>4

LEMMA BoundsAreNat == MaxEdits \in Nat /\ MaxDisturbances \in Nat
BY InitializationAssumption

(* The key of a cluster is one of a label.                                 *)
LEMMA TopologyLabelTyped ==
  ASSUME NEW clusters \in Seq(Cluster)
  PROVE  TopologyLabel(clusters) \in Labels
<1> DEFINE having == {i \in DOMAIN clusters : HasTopology(clusters[i])}
           first == CHOOSE i \in having : \A j \in having : i <= j
<1>1. CASE having = {}
  BY <1>1 DEF TopologyLabel, Labels
<1>2. CASE having # {}
  <2>1. having \subseteq Nat /\ having \subseteq DOMAIN clusters
    OBVIOUS
  <2>2. first \in having
    BY <1>2, <2>1, LeastNat
  <2>3. clusters[first] \in Cluster
    BY <2>1, <2>2, ElementOfSeq
  <2>4. clusters[first].label \in Labels
    BY <2>3 DEF Cluster
  <2>. QED
    BY <1>2, <2>4 DEF TopologyLabel
<1>. QED
  BY <1>1, <1>2

LEMMA PassClusters ==
  ASSUME TypeOK
  PROVE  pass.clusters \in Seq(Cluster)
<1>1. Fleets \subseteq Seq(Cluster)
  BY InitializationAssumption
<1>2. pass.clusters \in Fleets \cup {<<>>}
  BY DEF TypeOK
<1>3. <<>> \in Seq(Cluster)
  BY EmptySeq
<1>. QED
  BY <1>1, <1>2, <1>3

(* What is written to ocs-operator-config.                                 *)
LEMMA WantedConfigTyped ==
  ASSUME TypeOK
  PROVE  /\ WantedConfig \in OperatorConfig
         /\ WantedConfig # NoConfig
         /\ WantedConfig.data = WantedData(pass.clusters)
         /\ WantedConfig.orphaned = ~ocsinit.exists
<1>1. pass.clusters \in Seq(Cluster)
  BY PassClusters
<1>2. TopologyLabel(pass.clusters) \in Labels
  BY <1>1, TopologyLabelTyped
<1>3. NoHolders \in {"", "true", "false"}
  <2>1. config # NoConfig => config.data.noHolders \in {"", "true", "false"}
    BY DEF TypeOK, OperatorConfig, Data
  <2>. QED
    BY <2>1 DEF NoHolders
<1>4. (Len(pass.clusters) <= 1) \in BOOLEAN
  OBVIOUS
<1>5. WantedData(pass.clusters) \in Data
  <2>1. /\ Any(pass.clusters, HasTopology) \in BOOLEAN
        /\ Any(pass.clusters, LAMBDA c : c.nfs) \in BOOLEAN
        /\ Any(pass.clusters, LAMBDA c : ~c.external /\ c.consumers) \in BOOLEAN
    BY DEF Any
  <2>2. ASSUME NEW a \in BOOLEAN, NEW b \in BOOLEAN, NEW l \in Labels,
               NEW c \in BOOLEAN, NEW d \in BOOLEAN,
               NEW h \in {"", "true", "false"}
        PROVE  [single |-> a, topology |-> b, label |-> l, nfs |-> c,
                csiDisabled |-> d, noHolders |-> h] \in Data
    BY DEF Data
  <2>. QED
    BY <1>2, <1>3, <1>4, <2>1, <2>2, Zenon DEF WantedData
<1>6. ocsinit.exists \in BOOLEAN
  BY DEF TypeOK
<1>7. WantedConfig \in OperatorConfig
  BY <1>5, <1>6 DEF WantedConfig, OperatorConfig
<1>8. WantedConfig # NoConfig
  <2>1. DOMAIN WantedConfig = {"data", "orphaned"} /\ DOMAIN NoConfig = {"absent"}
    BY DEF WantedConfig, NoConfig
  <2>. QED
    BY <2>1
<1>. QED
  BY <1>7, <1>8 DEF WantedConfig

Pass == [todo : Seq(Steps), clusters : Fleets \cup {<<>>},
         modified : [CsiKeys -> BOOLEAN]]

LEMMA NoPassTyped ==
  /\ NoPass \in Pass
  /\ NoPass.todo = <<>>
  /\ NoPass.modified = Unmodified
  /\ Unmodified \in [CsiKeys -> BOOLEAN]
  /\ \A k \in CsiKeys : ~Unmodified[k]
BY EmptySeq DEF NoPass, Pass, Unmodified

LEMMA NewInitTyped ==
  NewInit \in [exists : BOOLEAN, phase : Phases, modified : [CsiKeys -> BOOLEAN]]
BY NoPassTyped DEF NewInit, Phases

(* A step done is taken from those left to do.                             *)
LEMMA Next1Typed ==
  ASSUME NEW p \in Pass, ~Idle, p.todo = pass.todo, p.todo \in Seq(Steps), Next1(p)
  PROVE  /\ pass' \in Pass
         /\ pass'.todo = Tail(pass.todo)
         /\ pass'.clusters = p.clusters /\ pass'.modified = p.modified
<1>1. Tail(pass.todo) \in Seq(Steps)
  BY TailProperties DEF Idle
<1>. QED
  BY <1>1 DEF Next1, Pass

LEMMA BoundsKept ==
  ASSUME TypeOK, Disturb \/ Undisturbed \/ Edit
  PROVE  edits' \in 0..MaxEdits /\ disturbances' \in 0..MaxDisturbances
<1>1. edits \in 0..MaxEdits /\ disturbances \in 0..MaxDisturbances
  BY DEF TypeOK
<1>. QED
  BY <1>1, BoundsAreNat DEF Disturb, Undisturbed, bounds, Edit

LEMMA TypeInit == Init => TypeOK
<1>. SUFFICES ASSUME Init PROVE TypeOK
  OBVIOUS
<1>1. edits \in 0..MaxEdits /\ disturbances \in 0..MaxDisturbances
  <2>1. edits = 0 /\ disturbances = 0
    BY DEF Init
  <2>. QED
    BY <2>1, BoundsAreNat
<1>2. Upgraded \in OperatorConfig /\ Upgraded.data \in Data
  BY DEF Upgraded, OperatorConfig, Data, Labels
<1>3. config \in OperatorConfig \cup {NoConfig} /\ rook \in Data \cup {NoConfig}
  BY <1>2 DEF Init
<1>. QED
  BY <1>1, <1>3, NoPassTyped, NewInitTyped DEF Init, TypeOK, Pass

(* A failing step ends the reconcile.                                      *)
LEMMA FailTyped ==
  ASSUME TypeOK, Fail, LosesFlags
  PROVE  /\ pass' \in Pass /\ queued' \subseteq {"ocsinit", "stray"}
         /\ unflagged' \subseteq CsiKeys
BY NoPassTyped DEF TypeOK, Fail, LosesFlags

LEMMA TolerationsTyped ==
  ASSUME TypeOK
  PROVE  /\ \A k \in CsiKeys : NewTolerations(k) \in SUBSET AllTolerations
         /\ NewFlags \in [CsiKeys -> BOOLEAN]
<1>1. ASSUME NEW k \in CsiKeys
      PROVE  CsiTolerations(pass.clusters, k) \subseteq AllTolerations
  <2>1. pass.clusters \in Seq(Cluster)
    BY PassClusters
  <2>2. \A c \in Elements(pass.clusters) : c \in Cluster
    BY <2>1 DEF Elements
  <2>3. \A c \in Cluster : c.tolerations[k] \subseteq AllTolerations
    BY DEF Cluster
  <2>. QED
    BY <2>2, <2>3 DEF CsiTolerations
<1>2. \A k \in CsiKeys : NewTolerations(k) \in SUBSET AllTolerations
  BY <1>1 DEF NewTolerations, TypeOK
<1>3. NewFlags \in [CsiKeys -> BOOLEAN]
  BY DEF NewFlags
<1>. QED
  BY <1>2, <1>3

LEMMA TypeStart ==
  ASSUME TypeOK, Reconcile \/ IgnoreStray
  PROVE  TypeOK'
<1>1. CASE Reconcile
  <2>1. ocsinit' \in [exists : BOOLEAN, phase : Phases,
                      modified : [CsiKeys -> BOOLEAN]]
    BY <1>1, NewInitTyped DEF Reconcile, TypeOK, Phases
  <2>2. pass' \in Pass
    <3>1. CASE UNCHANGED pass
      BY <3>1 DEF TypeOK, Pass
    <3>2. CASE pass' = [todo |-> Todo, clusters |-> fleet,
                        modified |-> ocsinit.modified]
      BY <3>2, TodoProperties DEF TypeOK, Pass
    <3>. QED
      BY <1>1, <3>1, <3>2 DEF Reconcile
  <2>3. edits' \in 0..MaxEdits /\ disturbances' \in 0..MaxDisturbances
    BY <1>1, BoundsKept DEF Reconcile
  <2>. QED
    BY <1>1, <2>1, <2>2, <2>3 DEF Reconcile, TypeOK, Pass, made
<1>2. CASE IgnoreStray
  <2>1. edits' \in 0..MaxEdits /\ disturbances' \in 0..MaxDisturbances
    BY <1>2, BoundsKept DEF IgnoreStray
  <2>. QED
    BY <1>2, <2>1 DEF IgnoreStray, IgnoredPhase, TypeOK, made
<1>. QED
  BY <1>1, <1>2

(* The steps of a reconcile, each done or failed.                          *)
LEMMA TypeStep ==
  ASSUME TypeOK,
         \/ EnsureSCCs \/ SCCStatus \/ EnsureRookCephOperatorConfigExists
         \/ EnsureOcsOperatorConfigExists \/ RestartPod \/ ReconcileObject
         \/ ReconcilePrometheusOperatorCSV \/ Complete
  PROVE  TypeOK'
<1>1. edits' \in 0..MaxEdits /\ disturbances' \in 0..MaxDisturbances
  BY BoundsKept DEF EnsureSCCs, SCCStatus, EnsureRookCephOperatorConfigExists,
       EnsureOcsOperatorConfigExists, RestartPod, ReconcileObject,
       ReconcilePrometheusOperatorCSV, Complete
<1>2. pass \in Pass /\ pass.todo \in Seq(Steps)
  BY DEF TypeOK, Pass
<1>3. CASE EnsureSCCs
  <2>1. ~Idle
    BY <1>3 DEF EnsureSCCs, At
  <2>2. objects' \in [AllObjects -> {"absent", "owned", "orphaned"}]
    BY <1>3 DEF EnsureSCCs, TypeOK
  <2>3. ocsinit' \in [exists : BOOLEAN, phase : Phases,
                      modified : [CsiKeys -> BOOLEAN]]
    BY <1>3 DEF EnsureSCCs, TypeOK, Phases
  <2>4. pass' \in Pass /\ queued' \subseteq {"ocsinit", "stray"}
        /\ unflagged' \subseteq CsiKeys
    BY <1>2, <1>3, <2>1, Next1Typed, FailTyped DEF EnsureSCCs, TypeOK
  <2>. QED
    BY <1>1, <1>3, <2>2, <2>3, <2>4 DEF EnsureSCCs, TypeOK, Pass
<1>4. CASE SCCStatus
  <2>1. ~Idle
    BY <1>4 DEF SCCStatus, At
  <2>2. pass' \in Pass /\ queued' \subseteq {"ocsinit", "stray"}
        /\ unflagged' \subseteq CsiKeys
    BY <1>2, <1>4, <2>1, Next1Typed, FailTyped DEF SCCStatus, TypeOK
  <2>. QED
    BY <1>1, <1>4, <2>2 DEF SCCStatus, TypeOK, Pass, made
<1>5. CASE EnsureRookCephOperatorConfigExists
  <2>1. ~Idle
    BY <1>5 DEF EnsureRookCephOperatorConfigExists, At
  <2>2. pass' \in Pass /\ queued' \subseteq {"ocsinit", "stray"}
        /\ unflagged' \subseteq CsiKeys
    <3>1. [pass EXCEPT !.modified = NewFlags] \in Pass
          /\ [pass EXCEPT !.modified = NewFlags].todo = pass.todo
      BY <1>2, TolerationsTyped DEF Pass
    <3>. QED
      BY <1>2, <1>5, <2>1, <3>1, Next1Typed, FailTyped
         DEF EnsureRookCephOperatorConfigExists, TypeOK
  <2>3. tolerations' \in [CsiKeys -> SUBSET AllTolerations]
    BY <1>5, TolerationsTyped DEF EnsureRookCephOperatorConfigExists, TypeOK
  <2>. QED
    BY <1>1, <1>5, <2>2, <2>3 DEF EnsureRookCephOperatorConfigExists, TypeOK, Pass
<1>6. CASE EnsureOcsOperatorConfigExists
  <2>1. ~Idle
    BY <1>6 DEF EnsureOcsOperatorConfigExists, At
  <2>2. RestartIfChanged \in Seq(Steps)
    <3>1. Tail(pass.todo) \in Seq(Steps) /\ <<"Restart">> \in Seq(Steps)
      BY <1>2, <2>1, TailProperties DEF Idle, Steps
    <3>. QED
      BY <3>1, ConcatElements DEF RestartIfChanged
  <2>3. pass' \in Pass /\ queued' \subseteq {"ocsinit", "stray"}
        /\ unflagged' \subseteq CsiKeys
    <3>1. [pass EXCEPT !.todo = RestartIfChanged] \in Pass
      BY <1>2, <2>2 DEF Pass
    <3>. QED
      BY <1>6, <3>1, FailTyped DEF EnsureOcsOperatorConfigExists, TypeOK
  <2>4. config' \in OperatorConfig \cup {NoConfig}
    BY <1>6, WantedConfigTyped DEF EnsureOcsOperatorConfigExists, TypeOK
  <2>. QED
    BY <1>1, <1>6, <2>3, <2>4 DEF EnsureOcsOperatorConfigExists, TypeOK, Pass, made
<1>7. CASE RestartPod
  <2>1. ~Idle
    BY <1>7 DEF RestartPod, At
  <2>2. pass' \in Pass
    BY <1>2, <1>7, <2>1, Next1Typed DEF RestartPod
  <2>. QED
    BY <1>1, <1>7, <2>2 DEF RestartPod, TypeOK, Pass, made
<1>8. CASE ReconcileObject
  <2>1. PICK o \in Owned :
          /\ At(o)
          /\ \/ /\ objects' = [objects EXCEPT ![o] = OwnedNow(o)]
                /\ Next1(pass)
                /\ queued' \in {queued, queued \cup {"ocsinit"}}
                /\ UNCHANGED unflagged
             \/ Fail /\ LosesFlags /\ UNCHANGED objects
    BY <1>8 DEF ReconcileObject
  <2>2. ~Idle
    BY <2>1 DEF At
  <2>3. pass' \in Pass /\ queued' \subseteq {"ocsinit", "stray"}
        /\ unflagged' \subseteq CsiKeys
    BY <1>2, <2>1, <2>2, Next1Typed, FailTyped DEF TypeOK
  <2>4. objects' \in [AllObjects -> {"absent", "owned", "orphaned"}]
    BY <2>1 DEF OwnedNow, TypeOK
  <2>. QED
    BY <1>1, <1>8, <2>3, <2>4 DEF ReconcileObject, TypeOK, Pass
<1>9. CASE ReconcilePrometheusOperatorCSV
  <2>1. ~Idle
    BY <1>9 DEF ReconcilePrometheusOperatorCSV, At
  <2>2. pass' \in Pass /\ queued' \subseteq {"ocsinit", "stray"}
        /\ unflagged' \subseteq CsiKeys
    BY <1>2, <1>9, <2>1, Next1Typed, FailTyped
       DEF ReconcilePrometheusOperatorCSV, TypeOK
  <2>. QED
    BY <1>1, <1>9, <2>2 DEF ReconcilePrometheusOperatorCSV, TypeOK, Pass
<1>10. CASE Complete
  <2>1. ocsinit' \in [exists : BOOLEAN, phase : Phases,
                      modified : [CsiKeys -> BOOLEAN]]
    BY <1>10 DEF Complete, TypeOK, Phases
  <2>2. pass' \in Pass /\ queued' \subseteq {"ocsinit", "stray"}
        /\ unflagged' \subseteq CsiKeys
    BY <1>10, NoPassTyped, FailTyped DEF Complete, TypeOK
  <2>. QED
    BY <1>1, <1>10, <2>1, <2>2 DEF Complete, TypeOK, Pass, made
<1>. QED
  BY <1>3, <1>4, <1>5, <1>6, <1>7, <1>8, <1>9, <1>10

LEMMA TypeEnvironment ==
  ASSUME TypeOK, Environment
  PROVE  TypeOK'
<1>1. edits' \in 0..MaxEdits /\ disturbances' \in 0..MaxDisturbances
  BY BoundsKept DEF Environment, RookPodStarts, CollectGarbage, InstallCSV,
       EditFleet, UserSetsTolerations, DeleteInit, CreateStray, DeleteStray, Crash
<1>2. CASE RookPodStarts
  BY <1>1, <1>2 DEF RookPodStarts, TypeOK, OperatorConfig, made
<1>3. CASE CollectGarbage
  <2>1. objects' \in [AllObjects -> {"absent", "owned", "orphaned"}]
    BY <1>3 DEF CollectGarbage, TypeOK
  <2>2. config' \in OperatorConfig \cup {NoConfig}
    BY <1>3 DEF CollectGarbage, TypeOK
  <2>. QED
    BY <1>1, <1>3, <2>1, <2>2 DEF CollectGarbage, TypeOK
<1>4. CASE InstallCSV
  BY <1>1, <1>4 DEF InstallCSV, TypeOK
<1>5. CASE EditFleet
  BY <1>1, <1>5 DEF EditFleet, TypeOK, made
<1>6. CASE UserSetsTolerations
  <2>1. PICK k \in CsiKeys : tolerations' = [tolerations EXCEPT ![k] = {"user"}]
    BY <1>6 DEF UserSetsTolerations
  <2>2. tolerations \in [CsiKeys -> SUBSET AllTolerations]
    BY DEF TypeOK
  <2>3. {"user"} \in SUBSET AllTolerations
    BY InitializationAssumption
  <2>4. \A set \in SUBSET AllTolerations :
          [tolerations EXCEPT ![k] = set] \in [CsiKeys -> SUBSET AllTolerations]
    BY <2>2
  <2>5. tolerations' \in [CsiKeys -> SUBSET AllTolerations]
    BY <2>1, <2>3, <2>4
  <2>. QED
    BY <1>1, <1>6, <2>5 DEF UserSetsTolerations, TypeOK
<1>7. CASE DeleteInit
  <2>1. ocsinit' \in [exists : BOOLEAN, phase : Phases,
                      modified : [CsiKeys -> BOOLEAN]]
    BY <1>7, NoPassTyped DEF DeleteInit, Phases
  <2>2. config' \in OperatorConfig \cup {NoConfig}
    BY <1>7 DEF DeleteInit, TypeOK, OperatorConfig
  <2>3. objects' \in [AllObjects -> {"absent", "owned", "orphaned"}]
    BY <1>7 DEF DeleteInit, TypeOK
  <2>. QED
    BY <1>1, <1>7, <2>1, <2>2, <2>3 DEF DeleteInit, TypeOK
<1>8. CASE CreateStray \/ DeleteStray
  BY <1>1, <1>8 DEF CreateStray, DeleteStray, TypeOK, made
<1>9. CASE Crash
  <2>1. unrestarted' \in BOOLEAN
    BY <1>9 DEF Crash, TypeOK, At, Idle
  <2>2. ocsinit' \in [exists : BOOLEAN, phase : Phases,
                      modified : [CsiKeys -> BOOLEAN]]
    BY <1>9, NewInitTyped DEF Crash, TypeOK
  <2>. QED
    BY <1>1, <1>9, <2>1, <2>2, NoPassTyped DEF Crash, LosesFlags, TypeOK, Pass, made
<1>. QED
  BY <1>2, <1>3, <1>4, <1>5, <1>6, <1>7, <1>8, <1>9 DEF Environment

LEMMA TypeNext ==
  ASSUME TypeOK, [Next]_vars
  PROVE  TypeOK'
<1>1. CASE Next
  BY <1>1, TypeStart, TypeStep, TypeEnvironment DEF Next, Controller
<1>2. CASE UNCHANGED vars
  BY <1>2 DEF vars, made, bounds, TypeOK
<1>. QED
  BY <1>1, <1>2

(* Every variable is of its type, for any clusters and bounds.             *)
THEOREM InitializationTyped == Spec => []TypeOK
<1>1. Init => TypeOK
  BY TypeInit
<1>2. TypeOK /\ [Next]_vars => TypeOK'
  BY TypeNext
<1>. QED
  BY <1>1, <1>2, PTL DEF Spec

-----------------------------------------------------------------------------
(* The invariant                                                           *)

(* Does the controller take tolerations in the map for its own?            *)
Flagged(k) == IF Idle THEN ocsinit.modified[k] ELSE pass.modified[k]

(* What is in the map is the user's, or flagged, or the flag got lost.     *)
FlagsFit ==
  /\ \A k \in CsiKeys :
       tolerations[k] \subseteq {"user"} \/ k \in unflagged \/ Flagged(k)
  /\ ~ocsinit.exists => \A k \in CsiKeys : ~ocsinit.modified[k]

(* Rook runs with the map, or is going to be restarted.                    *)
RookFits ==
  \/ rook = NoConfig \/ unrestarted \/ At("Restart")
  \/ config = NoConfig \/ rook = config.data

Past(step) == step \notin Elements(pass.todo)

ConfigFits ==
  config # NoConfig /\ config.data = WantedData(fleet) /\ ~config.orphaned

TolerationsFit ==
  \A k \in CsiKeys :
    LET wanted == CsiTolerations(fleet, k) IN
    /\ wanted # {} => tolerations[k] = wanted
    /\ Flagged(k) => wanted # {}

(* As long as nothing happened that makes another reconcile necessary, the *)
(* one in progress, or the last, has in place what it is past.             *)
Current ==
  "ocsinit" \notin queued =>
    /\ ocsinit.exists
    /\ ~Idle => pass.clusters = fleet
    /\ Idle => ocsinit.phase = "Ready"
    /\ Past("OperatorConfig") => ConfigFits
    /\ Past("RookConfig") => TolerationsFit
    /\ \A i \in DOMAIN Todo :
         Todo[i] \in Owned /\ Past(Todo[i]) => objects[Todo[i]] = "owned"
    /\ hcp /\ Past("PrometheusCSV") => csv = "scaled"

Inv ==
  TypeOK /\ LastComplete(pass.todo) /\ FlagsFit /\ RookFits /\ Current

(* There is nothing to do in an idle controller.                           *)
LEMMA IdlePast == Idle => LastComplete(pass.todo) /\ \A step : Past(step)
<1>1. Elements(<<>>) = {} /\ LastComplete(<<>>)
  BY DEF Elements, LastComplete
<1>. QED
  BY <1>1 DEF Idle, Past

LEMMA InvInit == Init => Inv
<1>. SUFFICES ASSUME Init PROVE Inv
  OBVIOUS
<1>1. TypeOK
  BY TypeInit
<1>2. Idle
  BY NoPassTyped DEF Init, Idle
<1>3. LastComplete(pass.todo)
  BY <1>2, IdlePast
<1>4. FlagsFit
  BY <1>2, NoPassTyped DEF Init, FlagsFit, NewInit
<1>5. RookFits
  BY DEF Init, RookFits
<1>6. Current
  BY DEF Init, Current
<1>. QED
  BY <1>1, <1>3, <1>4, <1>5, <1>6 DEF Inv

(* What the clusters want of ocs-operator-config depends on nothing else.  *)
LEMMA WantedDataKept ==
  ASSUME UNCHANGED <<fleet, config>>
  PROVE  WantedData(fleet)' = WantedData(fleet)
BY DEF WantedData, Any, HasTopology, TopologyLabel, NoHolders

(* A failing step leaves what it found, and has the flags lost.            *)
LEMMA FailKeeps ==
  ASSUME Inv, ~Idle, ~At("Restart"), Fail, LosesFlags,
         UNCHANGED <<tolerations, config, rook, unrestarted>>,
         ocsinit'.modified = ocsinit.modified, ocsinit'.exists = ocsinit.exists
  PROVE  LastComplete(pass.todo)' /\ FlagsFit' /\ RookFits' /\ Current'
<1>1. pass' = NoPass /\ "ocsinit" \in queued'
  BY DEF Fail
<1>2. Idle'
  BY <1>1, NoPassTyped DEF Idle
<1>3. LastComplete(pass.todo)'
  BY <1>1, NoPassTyped DEF LastComplete
<1>4. FlagsFit'
  BY <1>2 DEF Inv, FlagsFit, Flagged, LosesFlags
<1>5. RookFits'
  BY DEF Inv, RookFits
<1>6. Current'
  BY <1>1 DEF Current
<1>. QED
  BY <1>3, <1>4, <1>5, <1>6

(* A step that is done is one the reconcile is past.                       *)
LEMMA StepDone ==
  ASSUME Inv, ~Idle, Head(pass.todo) # "Complete", pass'.todo = Tail(pass.todo)
  PROVE  /\ LastComplete(pass.todo)' /\ ~Idle'
         /\ \A step : Past(step)' <=> Past(step) \/ ~(step \in Elements(Tail(pass.todo)))
         /\ \A step : Past(step)' => Past(step) \/ step = Head(pass.todo)
<1>1. pass.todo \in Seq(Steps) /\ pass.todo # <<>>
  BY DEF Inv, TypeOK, Idle
<1>2. /\ Elements(pass.todo) = {Head(pass.todo)} \cup Elements(Tail(pass.todo))
      /\ LastComplete(Tail(pass.todo)) /\ Tail(pass.todo) # <<>>
  BY <1>1, TailProperties DEF Inv
<1>. QED
  BY <1>2 DEF Past, Idle

(* Such a step changes nothing of what was reached.                        *)
LEMMA StepKeeps ==
  ASSUME Inv, ~Idle, Head(pass.todo) # "Complete", pass'.todo = Tail(pass.todo),
         pass'.clusters = pass.clusters, pass'.modified = pass.modified,
         UNCHANGED <<fleet, hcp, ocsinit, tolerations, config, unflagged>>,
         queued \subseteq queued',
         "ocsinit" \notin queued' =>
           /\ \A o \in Owned :
                objects[o] = "owned" \/ Head(pass.todo) = o => objects'[o] = "owned"
           /\ csv = "scaled" \/ Head(pass.todo) = "PrometheusCSV" => csv' = "scaled",
         Head(pass.todo) \notin {"RookConfig", "OperatorConfig"}
  PROVE  LastComplete(pass.todo)' /\ FlagsFit' /\ Current'
<1>1. /\ LastComplete(pass.todo)' /\ ~Idle'
      /\ \A step : Past(step)' => Past(step) \/ step = Head(pass.todo)
  BY StepDone
<1>2. FlagsFit'
  BY <1>1 DEF Inv, FlagsFit, Flagged
<1>3. Todo' = Todo
  BY DEF Todo
<1>4. ConfigFits => ConfigFits'
  BY WantedDataKept DEF ConfigFits
<1>5. TolerationsFit => TolerationsFit'
  BY <1>1 DEF TolerationsFit, Flagged
<1>6. ASSUME "ocsinit" \notin queued'
      PROVE  /\ ocsinit'.exists /\ pass'.clusters = fleet'
             /\ Past("OperatorConfig")' => ConfigFits'
             /\ Past("RookConfig")' => TolerationsFit'
  BY <1>1, <1>4, <1>5, <1>6 DEF Inv, Current
<1>7. ASSUME "ocsinit" \notin queued', NEW i \in DOMAIN Todo,
             Todo[i] \in Owned, Past(Todo[i])'
      PROVE  objects'[Todo[i]] = "owned"
  <2>1. Past(Todo[i]) \/ Head(pass.todo) = Todo[i]
    BY <1>1, <1>3, <1>7 DEF Past
  <2>2. "ocsinit" \notin queued
    BY <1>7
  <2>3. Past(Todo[i]) => objects[Todo[i]] = "owned"
    BY <1>7, <2>2 DEF Inv, Current
  <2>4. objects[Todo[i]] = "owned" \/ Head(pass.todo) = Todo[i]
    BY <2>1, <2>3
  <2>. QED
    BY <1>7, <2>4
<1>8. ASSUME "ocsinit" \notin queued', hcp, Past("PrometheusCSV")'
      PROVE  csv' = "scaled"
  BY <1>1, <1>8 DEF Inv, Current
<1>9. Current'
  BY <1>1, <1>3, <1>6, <1>7, <1>8 DEF Current
<1>. QED
  BY <1>1, <1>2, <1>9

(* The steps that touch neither config map: each is done or fails.         *)
LEMMA PlainStepKeeps ==
  ASSUME Inv, EnsureSCCs \/ SCCStatus \/ ReconcileObject
                \/ ReconcilePrometheusOperatorCSV
  PROVE  Inv'
<1>1. TypeOK'
  BY TypeStep DEF Inv
<1>2. /\ ~Idle
      /\ Head(pass.todo) \notin {"RookConfig", "OperatorConfig", "Restart",
                                 "Complete"}
  BY DEF EnsureSCCs, SCCStatus, ReconcileObject, ReconcilePrometheusOperatorCSV,
         At, Owned, AllObjects
<1>3. UNCHANGED <<fleet, hcp, tolerations, config, rook, unrestarted>>
  BY DEF EnsureSCCs, SCCStatus, ReconcileObject, ReconcilePrometheusOperatorCSV,
         made
<1>4. RookFits'
  BY <1>2, <1>3 DEF Inv, RookFits, At
<1>5. /\ ocsinit'.modified = ocsinit.modified
      /\ ocsinit'.exists = ocsinit.exists
  BY DEF EnsureSCCs, SCCStatus, ReconcileObject, ReconcilePrometheusOperatorCSV,
         Inv, TypeOK
<1>6. CASE Fail /\ LosesFlags
  <2>1. ~At("Restart")
    BY <1>2 DEF At
  <2>2. LastComplete(pass.todo)' /\ FlagsFit' /\ Current'
    BY <1>2, <1>3, <1>5, <1>6, <2>1, FailKeeps
  <2>. QED
    BY <1>1, <1>4, <2>2 DEF Inv
<1>7. CASE ~(Fail /\ LosesFlags)
  <2>1. Next1(pass) /\ UNCHANGED <<ocsinit, unflagged>> /\ queued \subseteq queued'
    BY <1>7 DEF EnsureSCCs, SCCStatus, ReconcileObject,
         ReconcilePrometheusOperatorCSV
  <2>2. /\ pass'.todo = Tail(pass.todo) /\ pass'.clusters = pass.clusters
        /\ pass'.modified = pass.modified
    <3>1. pass \in Pass /\ pass.todo \in Seq(Steps)
      BY DEF Inv, TypeOK, Pass
    <3>. QED
      BY <1>2, <2>1, <3>1, Next1Typed
  <2>3. ASSUME "ocsinit" \notin queued'
        PROVE  /\ \A o \in Owned :
                    objects[o] = "owned" \/ Head(pass.todo) = o
                      => objects'[o] = "owned"
               /\ csv = "scaled" \/ Head(pass.todo) = "PrometheusCSV"
                    => csv' = "scaled"
    <3>1. ocsinit.exists
      BY <2>1, <2>3 DEF Inv, Current
    <3>2. CASE EnsureSCCs
      BY <3>2 DEF EnsureSCCs, At, Owned, AllObjects, Inv, TypeOK
    <3>3. CASE SCCStatus
      BY <3>3 DEF SCCStatus, At, Owned, AllObjects, made
    <3>4. CASE ReconcileObject
      <4>1. PICK o \in Owned : At(o) /\ objects' = [objects EXCEPT ![o] = OwnedNow(o)]
        BY <1>7, <3>4 DEF ReconcileObject
      <4>2. objects \in [AllObjects -> {"absent", "owned", "orphaned"}]
            /\ Owned \subseteq AllObjects
        BY DEF Inv, TypeOK, Owned
      <4>3. OwnedNow(o) = "owned" /\ Head(pass.todo) = o
        BY <3>1, <4>1 DEF OwnedNow, At
      <4>4. o # "PrometheusCSV" /\ csv' = csv
        BY <3>4 DEF Owned, AllObjects, ReconcileObject
      <4>. QED
        BY <4>1, <4>2, <4>3, <4>4
    <3>5. CASE ReconcilePrometheusOperatorCSV
      <4>1. csv' = "scaled" /\ objects' = objects /\ Head(pass.todo) = "PrometheusCSV"
        BY <1>7, <3>5 DEF ReconcilePrometheusOperatorCSV, At
      <4>2. "PrometheusCSV" \notin Owned
        BY DEF Owned, AllObjects
      <4>. QED
        BY <4>1, <4>2
    <3>. QED
      BY <3>2, <3>3, <3>4, <3>5
  <2>4. LastComplete(pass.todo)' /\ FlagsFit' /\ Current'
    BY <1>2, <1>3, <2>1, <2>2, <2>3, StepKeeps
  <2>. QED
    BY <1>1, <1>4, <2>4 DEF Inv
<1>. QED
  BY <1>6, <1>7

(* The restart of Rook, which may fail and be forgotten.                   *)
LEMMA RestartKeeps ==
  ASSUME Inv, RestartPod
  PROVE  Inv'
<1>1. TypeOK'
  BY TypeStep DEF Inv
<1>2. ~Idle /\ Head(pass.todo) = "Restart" /\ Next1(pass)
  BY DEF RestartPod, At
<1>3. /\ pass'.todo = Tail(pass.todo) /\ pass'.clusters = pass.clusters
      /\ pass'.modified = pass.modified
  <2>1. pass \in Pass /\ pass.todo \in Seq(Steps)
    BY DEF Inv, TypeOK, Pass
  <2>. QED
    BY <1>2, <2>1, Next1Typed
<1>4. UNCHANGED <<fleet, hcp, ocsinit, objects, csv, tolerations, config,
                  queued, unflagged>>
  BY DEF RestartPod, made
<1>5. RookFits'
  BY DEF RestartPod, RookFits
<1>6. "Restart" \notin Owned
  BY DEF Owned, AllObjects
<1>7. LastComplete(pass.todo)' /\ FlagsFit' /\ Current'
  BY <1>2, <1>3, <1>4, <1>6, StepKeeps
<1>. QED
  BY <1>1, <1>5, <1>7 DEF Inv

(* The tolerations are those of the clusters the reconcile listed, and the *)
(* flags say which are the controller's.                                   *)
LEMMA RookConfigKeeps ==
  ASSUME Inv, EnsureRookCephOperatorConfigExists
  PROVE  Inv'
<1>1. TypeOK'
  BY TypeStep DEF Inv
<1>2. ~Idle /\ Head(pass.todo) = "RookConfig"
  BY DEF EnsureRookCephOperatorConfigExists, At
<1>3. UNCHANGED <<fleet, hcp, ocsinit, objects, csv, config, rook, unrestarted>>
  BY DEF EnsureRookCephOperatorConfigExists
<1>4. RookFits'
  BY <1>2, <1>3 DEF Inv, RookFits, At
<1>5. CASE Fail /\ LosesFlags /\ UNCHANGED tolerations
  <2>1. ~At("Restart")
    BY <1>2 DEF At
  <2>2. LastComplete(pass.todo)' /\ FlagsFit' /\ Current'
    BY <1>2, <1>3, <1>5, <2>1, FailKeeps
  <2>. QED
    BY <1>1, <1>4, <2>2 DEF Inv
<1>6. CASE ~(Fail /\ LosesFlags /\ UNCHANGED tolerations)
  <2>1. /\ tolerations' = [k \in CsiKeys |-> NewTolerations(k)]
        /\ Next1([pass EXCEPT !.modified = NewFlags])
        /\ queued \subseteq queued' /\ UNCHANGED unflagged
    BY <1>6 DEF EnsureRookCephOperatorConfigExists
  <2>2. /\ pass'.todo = Tail(pass.todo) /\ pass'.clusters = pass.clusters
        /\ pass'.modified = NewFlags
    <3>1. /\ [pass EXCEPT !.modified = NewFlags] \in Pass
          /\ [pass EXCEPT !.modified = NewFlags].todo = pass.todo
          /\ [pass EXCEPT !.modified = NewFlags].clusters = pass.clusters
          /\ [pass EXCEPT !.modified = NewFlags].modified = NewFlags
          /\ pass.todo \in Seq(Steps)
      BY TolerationsTyped DEF Inv, TypeOK, Pass
    <3>. QED
      BY <1>2, <2>1, <3>1, Next1Typed
  <2>3. /\ LastComplete(pass.todo)' /\ ~Idle'
        /\ \A step : Past(step)' => Past(step) \/ step = "RookConfig"
    BY <1>2, <2>2, StepDone
  <2>4. FlagsFit'
    <3>1. ASSUME NEW k \in CsiKeys
          PROVE  tolerations'[k] \subseteq {"user"} \/ k \in unflagged'
                   \/ Flagged(k)'
      <4>1. tolerations'[k] = NewTolerations(k)
        BY <2>1
      <4>2. Flagged(k)' = NewFlags[k]
        BY <2>2, <2>3 DEF Flagged
      <4>3. NewFlags[k] = (CsiTolerations(pass.clusters, k) # {})
        BY DEF NewFlags
      <4>4. \/ tolerations[k] \subseteq {"user"} \/ k \in unflagged
            \/ pass.modified[k]
        BY <1>2 DEF Inv, FlagsFit, Flagged
      <4>5. CASE CsiTolerations(pass.clusters, k) # {}
        BY <4>2, <4>3, <4>5
      <4>6. CASE CsiTolerations(pass.clusters, k) = {}
        BY <2>1, <4>1, <4>4, <4>6 DEF NewTolerations
      <4>. QED
        BY <4>5, <4>6
    <3>. QED
      BY <1>3, <3>1 DEF Inv, FlagsFit
  <2>5. ASSUME "ocsinit" \notin queued'
        PROVE  TolerationsFit'
    <3>1. pass.clusters = fleet /\ fleet' = fleet
      BY <1>2, <1>3, <2>1, <2>5 DEF Inv, Current
    <3>2. ASSUME NEW k \in CsiKeys
          PROVE  LET wanted == CsiTolerations(fleet', k) IN
                 /\ wanted # {} => tolerations'[k] = wanted
                 /\ Flagged(k)' => wanted # {}
      <4>1. tolerations'[k] = NewTolerations(k)
        BY <2>1
      <4>2. Flagged(k)' = NewFlags[k]
        BY <2>2, <2>3 DEF Flagged
      <4>3. NewFlags[k] = (CsiTolerations(pass.clusters, k) # {})
        BY DEF NewFlags
      <4>. QED
        BY <3>1, <4>1, <4>2, <4>3 DEF NewTolerations
    <3>. QED
      BY <3>2 DEF TolerationsFit, CsiTolerations
  <2>6. Todo' = Todo /\ "RookConfig" \notin Owned
    BY <1>3 DEF Todo, Owned, AllObjects
  <2>7. ConfigFits => ConfigFits'
    BY <1>3, WantedDataKept DEF ConfigFits
  <2>8. ASSUME "ocsinit" \notin queued', NEW i \in DOMAIN Todo,
               Todo[i] \in Owned, Past(Todo[i])'
        PROVE  objects'[Todo[i]] = "owned"
    <3>1. Past(Todo[i])
      BY <2>3, <2>6, <2>8 DEF Past
    <3>2. "ocsinit" \notin queued
      BY <2>1, <2>8
    <3>. QED
      BY <1>3, <2>8, <3>1, <3>2 DEF Inv, Current
  <2>9. ASSUME "ocsinit" \notin queued'
        PROVE  /\ ocsinit'.exists /\ pass'.clusters = fleet'
               /\ Past("OperatorConfig")' => ConfigFits'
               /\ hcp' /\ Past("PrometheusCSV")' => csv' = "scaled"
    <3>1. "ocsinit" \notin queued
      BY <2>1, <2>9
    <3>. QED
      BY <1>2, <1>3, <2>2, <2>3, <2>7, <3>1 DEF Inv, Current
  <2>10. Current'
    BY <2>3, <2>5, <2>6, <2>8, <2>9 DEF Current
  <2>. QED
    BY <1>1, <1>4, <2>3, <2>4, <2>10 DEF Inv
<1>. QED
  BY <1>5, <1>6

(* The map becomes what the clusters listed want; for a change of it Rook  *)
(* is restarted next.                                                      *)
LEMMA OperatorConfigKeeps ==
  ASSUME Inv, EnsureOcsOperatorConfigExists
  PROVE  Inv'
<1>1. TypeOK'
  BY TypeStep DEF Inv
<1>2. ~Idle /\ Head(pass.todo) = "OperatorConfig"
  BY DEF EnsureOcsOperatorConfigExists, At
<1>3. UNCHANGED <<fleet, hcp, ocsinit, objects, csv, tolerations, rook,
                  unrestarted>>
  BY DEF EnsureOcsOperatorConfigExists, made
<1>4. CASE Fail /\ LosesFlags /\ UNCHANGED config
  <2>1. ~At("Restart")
    BY <1>2 DEF At
  <2>2. LastComplete(pass.todo)' /\ FlagsFit' /\ RookFits' /\ Current'
    BY <1>2, <1>3, <1>4, <2>1, FailKeeps
  <2>. QED
    BY <1>1, <2>2 DEF Inv
<1>5. CASE ~(Fail /\ LosesFlags /\ UNCHANGED config)
  <2>1. /\ config' = WantedConfig /\ UNCHANGED unflagged
        /\ pass' = [pass EXCEPT !.todo = RestartIfChanged]
        /\ queued \subseteq queued'
        /\ config' = config \/ "ocsinit" \in queued'
    BY <1>5 DEF EnsureOcsOperatorConfigExists
  <2>2. /\ pass'.todo = RestartIfChanged /\ pass'.clusters = pass.clusters
        /\ pass'.modified = pass.modified
    BY <2>1 DEF Inv, TypeOK
  <2> DEFINE rest == Tail(pass.todo)
  <2>3. /\ rest \in Seq(Steps) /\ rest # <<>> /\ LastComplete(rest)
        /\ Elements(pass.todo) = {"OperatorConfig"} \cup Elements(rest)
    <3>1. pass.todo \in Seq(Steps) /\ pass.todo # <<>>
      BY <1>2 DEF Inv, TypeOK, Idle
    <3>. QED
      BY <1>2, <3>1, TailProperties DEF Inv
  <2>4. /\ RestartIfChanged # <<>> /\ LastComplete(RestartIfChanged)
        /\ Elements(rest) \subseteq Elements(RestartIfChanged)
        /\ config' = config \/ Head(RestartIfChanged) = "Restart"
    BY <2>1, <2>3, RestartFirst DEF RestartIfChanged
  <2>5. /\ LastComplete(pass.todo)' /\ ~Idle'
        /\ \A step : Past(step)' => Past(step) \/ step = "OperatorConfig"
    BY <2>2, <2>3, <2>4 DEF Idle, Past
  <2>6. FlagsFit'
    BY <1>2, <1>3, <2>1, <2>2, <2>5 DEF Inv, FlagsFit, Flagged
  <2>7. RookFits'
    <3>1. CASE config' = config
      BY <1>2, <1>3, <3>1 DEF Inv, RookFits, At
    <3>2. CASE config' # config
      <4>1. At("Restart")'
        BY <2>2, <2>4, <2>5, <3>2 DEF At
      <4>. QED
        BY <4>1 DEF RookFits
    <3>. QED
      BY <3>1, <3>2
  <2>8. Todo' = Todo /\ "OperatorConfig" \notin Owned
    BY <1>3 DEF Todo, Owned, AllObjects
  <2>9. TolerationsFit => TolerationsFit'
    BY <1>2, <1>3, <2>2, <2>5 DEF TolerationsFit, Flagged
  <2>10. ASSUME "ocsinit" \notin queued'
         PROVE  /\ ocsinit'.exists /\ pass'.clusters = fleet'
                /\ ConfigFits'
                /\ Past("RookConfig")' => TolerationsFit'
                /\ hcp' /\ Past("PrometheusCSV")' => csv' = "scaled"
    <3>1. "ocsinit" \notin queued /\ config' = config
      BY <2>1, <2>10
    <3>2. pass.clusters = fleet /\ ocsinit.exists
      BY <1>2, <3>1 DEF Inv, Current
    <3>3. WantedData(fleet)' = WantedData(fleet)
      BY <1>3, <3>1, WantedDataKept
    <3>4. /\ WantedConfig # NoConfig /\ WantedConfig.data = WantedData(fleet)
          /\ ~WantedConfig.orphaned
      BY <3>2, WantedConfigTyped DEF Inv
    <3>5. ConfigFits'
      BY <2>1, <3>3, <3>4 DEF ConfigFits
    <3>6. /\ Past("RookConfig")' => TolerationsFit'
          /\ hcp' /\ Past("PrometheusCSV")' => csv' = "scaled"
      BY <1>3, <2>5, <2>9, <3>1 DEF Inv, Current
    <3>. QED
      BY <1>3, <2>2, <3>2, <3>5, <3>6
  <2>11. ASSUME "ocsinit" \notin queued', NEW i \in DOMAIN Todo,
                Todo[i] \in Owned, Past(Todo[i])'
         PROVE  objects'[Todo[i]] = "owned"
    <3>1. Past(Todo[i])
      BY <2>5, <2>8, <2>11 DEF Past
    <3>2. "ocsinit" \notin queued
      BY <2>1, <2>11
    <3>. QED
      BY <1>3, <2>11, <3>1, <3>2 DEF Inv, Current
  <2>12. Current'
    BY <2>5, <2>8, <2>10, <2>11 DEF Current
  <2>. QED
    BY <1>1, <2>5, <2>6, <2>7, <2>12 DEF Inv
<1>. QED
  BY <1>4, <1>5

(* A reconcile that comes to its end is past all that there was to do.     *)
LEMMA CompleteKeeps ==
  ASSUME Inv, Complete
  PROVE  Inv'
<1>1. TypeOK'
  BY TypeStep DEF Inv
<1>2. ~Idle /\ Head(pass.todo) = "Complete"
  BY DEF Complete, At
<1>3. UNCHANGED <<fleet, hcp, objects, csv, tolerations, config, rook,
                  unrestarted>>
  BY DEF Complete, made
<1>4. CASE Fail /\ LosesFlags /\ UNCHANGED ocsinit
  <2>1. ~At("Restart")
    BY <1>2 DEF At
  <2>2. LastComplete(pass.todo)' /\ FlagsFit' /\ RookFits' /\ Current'
    BY <1>2, <1>3, <1>4, <2>1, FailKeeps
  <2>. QED
    BY <1>1, <2>2 DEF Inv
<1>5. CASE ~(Fail /\ LosesFlags /\ UNCHANGED ocsinit)
  <2>1. /\ ocsinit.exists
        /\ ocsinit' = [ocsinit EXCEPT !.phase = "Ready",
                                      !.modified = pass.modified]
        /\ pass' = NoPass /\ queued \subseteq queued'
        /\ unflagged' = {k \in unflagged : ~pass.modified[k]}
    BY <1>5 DEF Complete
  <2>2. /\ ocsinit'.exists /\ ocsinit'.phase = "Ready"
        /\ ocsinit'.modified = pass.modified
    BY <2>1 DEF Inv, TypeOK
  <2>3. Idle' /\ LastComplete(pass.todo)'
    BY <2>1, NoPassTyped DEF Idle, LastComplete
  <2>4. \A step : step # "Complete" => Past(step)
    <3>1. pass.todo \in Seq(Steps) /\ pass.todo # <<>>
      BY <1>2 DEF Inv, TypeOK, Idle
    <3>2. Elements(pass.todo) = {"Complete"}
      BY <1>2, <3>1, TailProperties DEF Inv
    <3>. QED
      BY <3>2 DEF Past
  <2>5. \A k \in CsiKeys : Flagged(k)' = Flagged(k)
    BY <1>2, <2>2, <2>3 DEF Flagged
  <2>6. FlagsFit'
    <3>1. ASSUME NEW k \in CsiKeys
          PROVE  tolerations'[k] \subseteq {"user"} \/ k \in unflagged'
                   \/ Flagged(k)'
      BY <1>2, <1>3, <2>1, <2>5 DEF Inv, FlagsFit, Flagged
    <3>. QED
      BY <2>2, <3>1 DEF FlagsFit
  <2>7. RookFits'
    BY <1>2, <1>3 DEF Inv, RookFits, At
  <2>8. ConfigFits => ConfigFits'
    BY <1>3, WantedDataKept DEF ConfigFits
  <2>9. TolerationsFit => TolerationsFit'
    BY <1>3, <2>5 DEF TolerationsFit
  <2>10. Todo' = Todo /\ "Complete" \notin Owned
    BY <1>3 DEF Todo, Owned, AllObjects
  <2>11. ASSUME "ocsinit" \notin queued'
         PROVE  /\ ConfigFits' /\ TolerationsFit'
                /\ \A i \in DOMAIN Todo :
                     Todo[i] \in Owned => objects'[Todo[i]] = "owned"
                /\ hcp' => csv' = "scaled"
    <3>1. "ocsinit" \notin queued
      BY <2>1, <2>11
    <3>2. ConfigFits /\ TolerationsFit /\ (hcp => csv = "scaled")
      BY <2>4, <3>1 DEF Inv, Current
    <3>3. \A i \in DOMAIN Todo : Todo[i] \in Owned => objects[Todo[i]] = "owned"
      BY <2>4, <2>10, <3>1 DEF Inv, Current
    <3>. QED
      BY <1>3, <2>8, <2>9, <3>2, <3>3
  <2>12. Current'
    BY <2>2, <2>3, <2>10, <2>11 DEF Current
  <2>. QED
    BY <1>1, <2>3, <2>6, <2>7, <2>12 DEF Inv
<1>. QED
  BY <1>4, <1>5

(* A reconcile starts with everything to do, the clusters there are, and   *)
(* the flags as they are in the status.                                    *)
LEMMA ReconcileKeeps ==
  ASSUME Inv, Reconcile
  PROVE  Inv'
<1>1. TypeOK'
  BY TypeStart DEF Inv
<1>2. Idle /\ "ocsinit" \in queued
  BY DEF Reconcile
<1>3. UNCHANGED <<fleet, hcp, objects, csv, tolerations, config, rook,
                  unrestarted, unflagged>>
  BY DEF Reconcile, made
<1>4. ~At("Restart")
  BY <1>2 DEF At
<1>5. RookFits'
  BY <1>3, <1>4 DEF Inv, RookFits
<1>6. CASE ~ocsinit.exists /\ ocsinit' = NewInit /\ UNCHANGED <<pass, queued>>
  <2>1. LastComplete(pass.todo)' /\ Idle'
    BY <1>2, <1>6 DEF Inv, Idle
  <2>2. FlagsFit'
    <3>1. \A k \in CsiKeys : ~Flagged(k)
      BY <1>2, <1>6 DEF Inv, FlagsFit, Flagged
    <3>2. NewInit.exists /\ NewInit.modified = Unmodified
      BY DEF NewInit
    <3>. QED
      BY <1>3, <1>6, <3>1, <3>2 DEF Inv, FlagsFit
  <2>3. Current'
    BY <1>2, <1>6 DEF Current
  <2>. QED
    BY <1>1, <1>5, <2>1, <2>2, <2>3 DEF Inv
<1>7. CASE /\ ocsinit.exists
           /\ ocsinit' = [ocsinit EXCEPT
                            !.phase = IF @ = "" THEN "Progressing" ELSE @]
           /\ pass' = [todo |-> Todo, clusters |-> fleet,
                       modified |-> ocsinit.modified]
  <2>1. /\ pass'.todo = Todo /\ pass'.clusters = fleet
        /\ pass'.modified = ocsinit.modified
        /\ ocsinit'.modified = ocsinit.modified /\ ocsinit'.exists
    BY <1>7 DEF Inv, TypeOK
  <2>2. LastComplete(pass.todo)' /\ ~Idle'
    BY <2>1, TodoProperties DEF Idle
  <2>3. FlagsFit'
    <3>1. \A k \in CsiKeys : Flagged(k)' = Flagged(k)
      BY <1>2, <2>1, <2>2 DEF Flagged
    <3>. QED
      BY <1>3, <2>1, <3>1 DEF Inv, FlagsFit
  <2>4. /\ ~Past("OperatorConfig")' /\ ~Past("RookConfig")'
        /\ hcp => ~Past("PrometheusCSV")'
    BY <2>1, TodoProperties DEF Past
  <2>5. Todo' = Todo
    BY <1>3 DEF Todo
  <2>6. ASSUME NEW i \in DOMAIN Todo
        PROVE  ~Past(Todo[i])'
    <3>1. Todo[i] \in Elements(Todo)
      BY DEF Elements
    <3>. QED
      BY <2>1, <2>5, <3>1 DEF Past
  <2>7. Current'
    BY <1>3, <2>1, <2>2, <2>4, <2>5, <2>6 DEF Current
  <2>. QED
    BY <1>1, <1>5, <2>2, <2>3, <2>7 DEF Inv
<1>. QED
  BY <1>6, <1>7 DEF Reconcile

(* What another OCSInitialization, the work queue's other names and the    *)
(* bounds do does not matter.                                              *)
LEMMA UnrelatedKeeps ==
  ASSUME Inv, TypeOK',
         UNCHANGED <<fleet, hcp, ocsinit, objects, csv, tolerations, config,
                     pass, unflagged>>,
         RookFits', "ocsinit" \in queued => "ocsinit" \in queued'
  PROVE  Inv'
<1>1. Idle' <=> Idle
  BY DEF Idle
<1>2. \A step : Past(step)' <=> Past(step)
  BY DEF Past
<1>3. \A k \in CsiKeys : Flagged(k)' = Flagged(k)
  BY DEF Idle, Flagged
<1>4. LastComplete(pass.todo)' /\ FlagsFit'
  BY <1>3 DEF Inv, FlagsFit
<1>5. ConfigFits => ConfigFits'
  BY WantedDataKept DEF ConfigFits
<1>6. TolerationsFit => TolerationsFit'
  BY <1>3 DEF TolerationsFit
<1>7. Todo' = Todo
  BY DEF Todo
<1>8. ASSUME "ocsinit" \notin queued', NEW i \in DOMAIN Todo,
             Todo[i] \in Owned, Past(Todo[i])'
      PROVE  objects'[Todo[i]] = "owned"
  <2>1. Past(Todo[i])
    BY <1>7, <1>8 DEF Past
  <2>. QED
    BY <1>8, <2>1 DEF Inv, Current
<1>9. Current'
  <2>1. ASSUME "ocsinit" \notin queued'
        PROVE  /\ ocsinit'.exists
               /\ ~Idle' => pass'.clusters = fleet'
               /\ Idle' => ocsinit'.phase = "Ready"
               /\ Past("OperatorConfig")' => ConfigFits'
               /\ Past("RookConfig")' => TolerationsFit'
               /\ hcp' /\ Past("PrometheusCSV")' => csv' = "scaled"
    BY <1>1, <1>2, <1>5, <1>6, <2>1 DEF Inv, Current
  <2>. QED
    BY <1>7, <1>8, <2>1 DEF Current
<1>. QED
  BY <1>4, <1>9 DEF Inv

(* What makes another reconcile necessary queues it.                       *)
LEMMA EnvironmentKeeps ==
  ASSUME Inv, Environment
  PROVE  Inv'
<1>1. TypeOK'
  BY TypeEnvironment DEF Inv
<1>2. CASE RookPodStarts
  <2>1. RookFits'
    BY <1>2 DEF RookPodStarts, RookFits, made
  <2>. QED
    BY <1>1, <1>2, <2>1, UnrelatedKeeps DEF RookPodStarts, made
<1>3. CASE CreateStray \/ DeleteStray
  <2>1. RookFits'
    BY <1>3 DEF CreateStray, DeleteStray, Inv, RookFits, At, Idle
  <2>. QED
    BY <1>1, <1>3, <2>1, UnrelatedKeeps DEF CreateStray, DeleteStray, made
<1>4. CASE Crash
  <2>1. pass' = NoPass /\ "ocsinit" \in queued'
    BY <1>4 DEF Crash
  <2>2. Idle' /\ LastComplete(pass.todo)'
    BY <2>1, NoPassTyped DEF Idle, LastComplete
  <2>3. \A k \in CsiKeys : ocsinit'.modified[k] = ocsinit.modified[k]
    <3>1. ocsinit.exists => ocsinit' = ocsinit
      BY <1>4 DEF Crash
    <3>2. ~ocsinit.exists =>
            /\ \A k \in CsiKeys : ~ocsinit.modified[k]
            /\ ocsinit' = NewInit
      BY <1>4 DEF Crash, Inv, FlagsFit
    <3>3. \A k \in CsiKeys : ~NewInit.modified[k]
      BY NoPassTyped DEF NewInit
    <3>4. \A k \in CsiKeys : /\ ocsinit.modified[k] \in BOOLEAN
                            /\ NewInit.modified[k] \in BOOLEAN
      BY NoPassTyped DEF Inv, TypeOK, NewInit
    <3>. QED
      BY <3>1, <3>2, <3>3, <3>4
  <2>4. ocsinit'.exists
    BY <1>4 DEF Crash, NewInit
  <2>5. FlagsFit'
    BY <1>4, <2>2, <2>3, <2>4 DEF Crash, LosesFlags, Inv, FlagsFit, Flagged, made
  <2>6. RookFits'
    BY <1>4 DEF Crash, Inv, RookFits, made
  <2>7. Current'
    BY <2>1 DEF Current
  <2>. QED
    BY <1>1, <2>2, <2>5, <2>6, <2>7 DEF Inv
<1>5. CASE CollectGarbage \/ InstallCSV \/ EditFleet \/ UserSetsTolerations
             \/ DeleteInit
  <2>1. UNCHANGED pass /\ "ocsinit" \in queued' /\ UNCHANGED <<rook, unrestarted>>
    BY <1>5 DEF CollectGarbage, InstallCSV, EditFleet, UserSetsTolerations,
         DeleteInit
  <2>2. LastComplete(pass.todo)' /\ (Idle' <=> Idle) /\ (At("Restart")' <=> At("Restart"))
    BY <2>1 DEF Inv, Idle, At
  <2>3. Current'
    BY <2>1 DEF Current
  <2>4. RookFits'
    <3>1. config' = NoConfig \/ (config # NoConfig /\ config'.data = config.data)
            \/ config' = config
      BY <1>5 DEF CollectGarbage, InstallCSV, EditFleet, UserSetsTolerations,
           DeleteInit, made, Inv, TypeOK, OperatorConfig
    <3>. QED
      BY <2>1, <2>2, <3>1 DEF Inv, RookFits
  <2>5. FlagsFit'
    <3>1. CASE CollectGarbage \/ InstallCSV \/ EditFleet
      <4>1. UNCHANGED <<ocsinit, tolerations, unflagged>>
        BY <3>1 DEF CollectGarbage, InstallCSV, EditFleet, made
      <4>. QED
        BY <2>1, <2>2, <4>1 DEF Inv, FlagsFit, Flagged
    <3>2. CASE UserSetsTolerations
      <4>1. PICK k \in CsiKeys : tolerations' = [tolerations EXCEPT ![k] = {"user"}]
        BY <3>2 DEF UserSetsTolerations
      <4>2. UNCHANGED <<ocsinit, unflagged>>
        BY <3>2 DEF UserSetsTolerations
      <4>3. tolerations \in [CsiKeys -> SUBSET AllTolerations]
        BY DEF Inv, TypeOK
      <4>4. \A l \in CsiKeys : tolerations'[l] \in {tolerations[l], {"user"}}
        BY <4>1, <4>3
      <4>. QED
        BY <2>1, <2>2, <4>2, <4>4 DEF Inv, FlagsFit, Flagged
    <3>3. CASE DeleteInit
      <4>1. /\ ocsinit'.modified = Unmodified /\ UNCHANGED tolerations
            /\ unflagged' = unflagged \cup {k \in CsiKeys : ocsinit.modified[k]}
        BY <3>3 DEF DeleteInit
      <4>. QED
        BY <2>1, <2>2, <4>1, NoPassTyped DEF Inv, FlagsFit, Flagged
    <3>. QED
      BY <1>5, <3>1, <3>2, <3>3
  <2>. QED
    BY <1>1, <2>2, <2>3, <2>4, <2>5 DEF Inv
<1>. QED
  BY <1>2, <1>3, <1>4, <1>5 DEF Environment

LEMMA InvNext ==
  ASSUME Inv, [Next]_vars
  PROVE  Inv'
<1>1. TypeOK'
  BY TypeNext DEF Inv
<1>2. CASE IgnoreStray \/ UNCHANGED vars
  <2>1. /\ UNCHANGED <<fleet, hcp, ocsinit, objects, csv, tolerations, config,
                       rook, pass, unrestarted, unflagged>>
        /\ "ocsinit" \in queued => "ocsinit" \in queued'
    BY <1>2 DEF IgnoreStray, vars, made
  <2>2. RookFits'
    BY <2>1 DEF Inv, RookFits, At, Idle
  <2>. QED
    BY <1>1, <2>1, <2>2, UnrelatedKeeps
<1>. QED
  BY <1>2, ReconcileKeeps, PlainStepKeeps, RookConfigKeeps, OperatorConfigKeeps,
     RestartKeeps, CompleteKeeps, EnvironmentKeeps DEF Next, Controller

LEMMA InvAlways == Spec => []Inv
<1>1. Init => Inv
  BY InvInit
<1>2. Inv /\ [Next]_vars => Inv'
  BY InvNext
<1>. QED
  BY <1>1, <1>2, PTL DEF Spec

-----------------------------------------------------------------------------
(* What the controller promises                                            *)

(* When the controller has nothing left to do, ocs-operator-config says    *)
(* what the clusters there are want, whichever they are, however often     *)
(* they changed, calls failed, and the operator crashed.                   *)
THEOREM ConfigFollowsClustersHolds == Spec => []ConfigFollowsClusters
<1>1. Inv => ConfigFollowsClusters
  BY IdlePast DEF Inv, Current, ConfigFits, ConfigFollowsClusters, Settled
<1>. QED
  BY <1>1, InvAlways, PTL

(* ... and rook-ceph-operator-config has the tolerations they want, and    *)
(* what the controller put there for clusters before is taken back, unless *)
(* the flag that says it is the controller's got lost.                     *)
THEOREM TolerationsFollowClustersHolds == Spec => []TolerationsFollowClusters
<1>1. ASSUME Inv, Settled, NEW k \in CsiKeys
      PROVE  LET wanted == CsiTolerations(fleet, k) IN
             /\ wanted \subseteq tolerations[k]
             /\ \/ tolerations[k] \subseteq wanted \cup {"user"}
                \/ wanted = {} /\ k \in unflagged
  <2>1. TolerationsFit
    BY <1>1, IdlePast DEF Inv, Current, Settled
  <2>2. tolerations[k] \subseteq {"user"} \/ k \in unflagged \/ Flagged(k)
    BY <1>1 DEF Inv, FlagsFit
  <2>. QED
    BY <2>1, <2>2 DEF TolerationsFit
<1>2. Inv => TolerationsFollowClusters
  BY <1>1 DEF TolerationsFollowClusters
<1>. QED
  BY <1>2, InvAlways, PTL

(* ... and Rook runs with the map as it is, or its pod is about to start,  *)
(* or the restart is one that failed or that a crash came before.          *)
THEOREM RookRunsConfigHolds == Spec => []RookRunsConfig
<1>1. ASSUME Inv, Settled
      PROVE  rook = NoConfig \/ unrestarted \/ rook = config.data
  <2>1. config # NoConfig
    BY <1>1, IdlePast DEF Inv, Current, ConfigFits, Settled
  <2>2. ~At("Restart")
    BY <1>1 DEF Settled, At
  <2>. QED
    BY <1>1, <2>1, <2>2 DEF Inv, RookFits
<1>2. Inv => RookRunsConfig
  BY <1>1 DEF RookRunsConfig
<1>. QED
  BY <1>2, InvAlways, PTL

(* ... and ocsinit is Ready, with all that the platform calls for in place *)
(* and owned by it, also after a reset.                                    *)
THEOREM ReadyMeansCompleteHolds == Spec => []ReadyMeansComplete
<1>1. Inv => ReadyMeansComplete
  BY IdlePast DEF Inv, Current, ReadyMeansComplete, Settled
<1>. QED
  BY <1>1, InvAlways, PTL

(* No step of anyone takes the holder pods of an upgraded cluster away.    *)
THEOREM HolderPodsKeptHolds == Spec => HolderPodsKept
<1>1. ASSUME TypeOK, [Next]_vars,
             config # NoConfig, config.data.noHolders # "true", config' # NoConfig
      PROVE  config'.data.noHolders # "true"
  <2>1. CASE config' = config
    BY <1>1, <2>1
  <2>2. CASE EnsureOcsOperatorConfigExists /\ config' = WantedConfig
    <3>1. config'.data.noHolders = NoHolders
      BY <2>2 DEF WantedConfig, WantedData
    <3>. QED
      BY <1>1, <3>1 DEF NoHolders
  <2>3. CASE DeleteInit
    BY <1>1, <2>3 DEF DeleteInit, TypeOK, OperatorConfig
  <2>4. \/ UNCHANGED config \/ config' = NoConfig \/ DeleteInit
        \/ EnsureOcsOperatorConfigExists /\ config' = WantedConfig
    <3>1. CASE UNCHANGED vars
      BY <3>1 DEF vars
    <3>2. CASE Controller
      BY <3>2 DEF Controller, Reconcile, IgnoreStray, EnsureSCCs, SCCStatus,
           EnsureRookCephOperatorConfigExists, EnsureOcsOperatorConfigExists,
           RestartPod, ReconcileObject, ReconcilePrometheusOperatorCSV, Complete
    <3>3. CASE Environment
      BY <3>3 DEF Environment, RookPodStarts, CollectGarbage, InstallCSV,
           EditFleet, UserSetsTolerations, DeleteInit, CreateStray, DeleteStray,
           Crash
    <3>. QED
      BY <1>1, <3>1, <3>2, <3>3 DEF Next
  <2>. QED
    BY <1>1, <2>1, <2>2, <2>3, <2>4
<1>2. TypeOK /\ [Next]_vars =>
        [(/\ config # NoConfig /\ config.data.noHolders # "true"
          /\ config' # NoConfig)
           => config'.data.noHolders # "true"]_vars
  BY <1>1
<1>. QED
  BY <1>2, InitializationTyped, PTL DEF Spec, HolderPodsKept
=============================================================================
