------------------------- MODULE ResourcePipelineProofs -------------------------
(***************************************************************************)
(* Proofs about ResourcePipeline, for any scripts, leftovers and bounds:   *)
(* a cluster left alone in phase Ready is well, and the keys of an         *)
(* encrypted cluster are deleted after it.                                 *)
(***************************************************************************)
EXTENDS ResourcePipeline, SequenceTheorems, TLAPS

-----------------------------------------------------------------------------
(* Types                                                                   *)

PassRecord ==
  [todo: Seq(Steps), gen: DOMAIN script, deleting: BOOLEAN, status: Status,
   expanding: BOOLEAN, negative: SUBSET Negatives]

LEMMA ScriptTyped ==
  ASSUME NEW s \in Scripts
  PROVE  /\ s \in Seq(ClusterSpec) /\ s # <<>>
         /\ Len(s) \in Nat \ {0} /\ DOMAIN s = 1..Len(s) /\ 1 \in DOMAIN s
         /\ \A i \in DOMAIN s : s[i] \in ClusterSpec
         /\ MaxDisturbances[s] \in Nat
<1>1. s \in Seq(ClusterSpec) /\ s # <<>> /\ MaxDisturbances[s] \in Nat
  BY PipelineAssumption
<1>2. Len(s) \in Nat /\ DOMAIN s = 1..Len(s)
  BY <1>1
<1>3. Len(s) # 0
  BY <1>1, EmptySeq
<1>. QED
  BY <1>1, <1>2, <1>3

LEMMA PassTyped ==
  ASSUME TypeOK
  PROVE  /\ pass \in PassRecord
         /\ pass.gen \in DOMAIN script /\ sc \in ClusterSpec
         /\ pass.gen \in 1..Len(script)
<1>1. pass \in PassRecord
  BY DEF TypeOK, PassRecord
<1>2. script \in Scripts
  BY DEF TypeOK
<1>3. pass.gen \in DOMAIN script
  BY <1>1 DEF PassRecord
<1>. QED
  BY <1>1, <1>2, <1>3, ScriptTyped DEF sc

LEMMA SpecFields ==
  ASSUME NEW s \in ClusterSpec
  PROVE  /\ s.mode \in Modes /\ s.features \in SUBSET Features
         /\ s.strategy \in [Kinds -> Strategies]
         /\ s.disabled \in SUBSET Objects /\ s.devices \in Nat
         /\ s.profile \in Profiles
         /\ s.entries \in Seq(ExternalEntries) /\ s.secret \in Nat
BY DEF ClusterSpec

(* Every write leaves the objects as the types have them.                  *)
StoreTyped ==
  /\ written' \in [Objects -> 0..Len(script)]
  /\ dying' \subseteq Finalized
  /\ ready' \subseteq Objects
  /\ passedOver' \subseteq Objects

LEMMA WriteTyped ==
  ASSUME TypeOK, NEW puts, NEW dels, NEW over, over \subseteq Objects,
         WriteExcept(puts, dels, over)
  PROVE  StoreTyped
<1>1. pass.gen \in 1..Len(script)
  BY PassTyped
<1>2. /\ written \in [Objects -> 0..Len(script)] /\ dying \subseteq Finalized
      /\ ready \subseteq Objects /\ passedOver \subseteq Objects
  BY DEF TypeOK
<1>3. Len(script) \in Nat
  BY ScriptTyped DEF TypeOK
<1>4. written' \in [Objects -> 0..Len(script)]
  <2>1. ASSUME NEW o \in Objects
        PROVE  (IF o \in dels \ Finalized THEN 0
                ELSE IF o \in puts THEN pass.gen ELSE written[o])
                 \in 0..Len(script)
    BY <1>1, <1>2, <1>3
  <2>. QED
    BY <2>1 DEF WriteExcept
<1>. QED
  BY <1>2, <1>4 DEF WriteExcept, StoreTyped

LEMMA NothingWritten ==
  ASSUME TypeOK, NoWrite
  PROVE  StoreTyped
BY WriteTyped DEF NoWrite, Write

-----------------------------------------------------------------------------
(* Steps of a pass                                                         *)

LEMMA LastStepsTyped ==
  /\ LastSteps \in Seq(Steps) /\ LastSteps # <<>>
  /\ LastSteps[1] = "Tools" /\ LastSteps[2] = "StatusUpdate"
  /\ Len(LastSteps) = 2 /\ DOMAIN LastSteps = 1..2
  /\ Elements(LastSteps) = {"Tools", "StatusUpdate"}
<1>1. 5 \in DOMAIN Completion /\ 6 \in DOMAIN Completion
  BY DEF Completion
<1>2. Completion[5] = "Tools" /\ Completion[6] = "StatusUpdate"
  BY DEF Completion
<1>3. {"Tools", "StatusUpdate"} \subseteq Steps
  BY <1>1, <1>2 DEF Steps, Elements
<1>. QED
  BY <1>3 DEF LastSteps, Elements

LEMMA TailIndices ==
  ASSUME NEW s \in Seq(Steps), s # <<>>
  PROVE  /\ Tail(s) \in Seq(Steps)
         /\ Len(s) \in Nat \ {0} /\ Len(Tail(s)) = Len(s) - 1
         /\ DOMAIN s = 1..Len(s) /\ DOMAIN Tail(s) = 1..(Len(s) - 1)
         /\ \A i \in 1..(Len(s) - 1) : Tail(s)[i] = s[i + 1]
         /\ Head(s) = s[1]
         /\ Elements(s) = {Head(s)} \cup Elements(Tail(s))
<1>1. /\ Len(s) \in Nat \ {0} /\ DOMAIN s = 1..Len(s)
      /\ Tail(s) \in Seq(Steps) /\ Len(Tail(s)) = Len(s) - 1
      /\ DOMAIN Tail(s) = 1..(Len(s) - 1)
      /\ \A i \in 1..(Len(s) - 1) : Tail(s)[i] = s[i + 1]
      /\ Head(s) = s[1]
  BY HeadTailProperties, EmptySeq
<1>2. ASSUME NEW i \in DOMAIN s
      PROVE  s[i] \in {Head(s)} \cup Elements(Tail(s))
  <2>1. CASE i = 1
    BY <1>1, <2>1
  <2>2. CASE i # 1
    <3>1. i - 1 \in DOMAIN Tail(s) /\ Tail(s)[i - 1] = s[i]
      BY <1>1, <2>2
    <3>. QED
      BY <3>1 DEF Elements
  <2>. QED
    BY <2>1, <2>2
<1>3. ASSUME NEW i \in DOMAIN Tail(s)
      PROVE  Tail(s)[i] \in Elements(s)
  <2>1. i + 1 \in DOMAIN s /\ Tail(s)[i] = s[i + 1]
    BY <1>1
  <2>. QED
    BY <2>1 DEF Elements
<1>4. 1 \in DOMAIN s
  BY <1>1
<1>5. Elements(s) = {Head(s)} \cup Elements(Tail(s))
  BY <1>1, <1>2, <1>3, <1>4 DEF Elements
<1>. QED
  BY <1>1, <1>5

LEMMA TodoTyped ==
  ASSUME TypeOK, ~Idle
  PROVE  /\ pass.todo \in Seq(Steps) /\ pass.todo # <<>>
         /\ Tail(pass.todo) \in Seq(Steps)
<1>1. pass.todo \in Seq(Steps) /\ pass.todo # <<>>
  BY PassTyped DEF PassRecord, Idle
<1>. QED
  BY <1>1, TailIndices

(* A step of a pass has left the queue alone only if it went on.           *)
PassStep(p) ==
  /\ pass' \in PassRecord
  /\ queued' \in BOOLEAN
  /\ pass'.gen = p.gen /\ pass'.deleting = p.deleting
  /\ pass'.negative = p.negative
  /\ pass'.todo \in {Tail(pass.todo), LastSteps}
  /\ ~queued' => ~queued /\ pass'.todo = Tail(pass.todo)

LEMMA GoOnTyped ==
  ASSUME TypeOK, ~Idle, NEW p \in PassRecord, NEW again, GoOn(p, again)
  PROVE  PassStep(p) /\ (~queued' => ~again)
         /\ pass'.status = p.status
         /\ pass'.todo = Tail(pass.todo)
<1>1. Tail(pass.todo) \in Seq(Steps)
  BY TodoTyped
<1>2. pass' = [p EXCEPT !.todo = Tail(pass.todo)]
  BY DEF GoOn
<1>3. queued' = (queued \/ again)
  BY DEF GoOn
<1>4. queued' \in BOOLEAN
  BY <1>3
<1>5. ~queued' => ~queued /\ ~again
  BY <1>3
<1>6. /\ pass' \in PassRecord /\ pass'.gen = p.gen
      /\ pass'.deleting = p.deleting /\ pass'.negative = p.negative
      /\ pass'.todo = Tail(pass.todo) /\ pass'.status = p.status
  BY <1>1, <1>2 DEF PassRecord
<1>. QED
  BY <1>4, <1>5, <1>6 DEF PassStep

LEMMA GiveUpTyped ==
  ASSUME TypeOK, ~Idle, NEW p \in PassRecord, GiveUp(p)
  PROVE  PassStep(p) /\ queued' /\ pass'.todo = LastSteps
<1>1. pass' = [p EXCEPT !.todo = LastSteps]
  BY DEF GiveUp
<1>2. queued' = TRUE
  BY DEF GiveUp
<1>3. /\ pass' \in PassRecord /\ pass'.gen = p.gen
      /\ pass'.deleting = p.deleting /\ pass'.negative = p.negative
      /\ pass'.todo = LastSteps
  BY <1>1, LastStepsTyped DEF PassRecord
<1>. QED
  BY <1>2, <1>3 DEF PassStep

LEMMA InLoopTyped ==
  ASSUME NEW s \in Status, NEW expanding
  PROVE  InLoop(s, expanding) \in Status
BY DEF InLoop, Status, Phases

LEMMA PhaseTyped ==
  ASSUME NEW s \in Status, NEW phase \in Phases
  PROVE  [s EXCEPT !.phase = phase] \in Status
BY DEF Status

LEMMA StatusInPass ==
  ASSUME NEW p \in PassRecord, NEW s \in Status
  PROVE  /\ [p EXCEPT !.status = s] \in PassRecord
         /\ [p EXCEPT !.status = s].gen = p.gen
         /\ [p EXCEPT !.status = s].deleting = p.deleting
         /\ [p EXCEPT !.status = s].negative = p.negative
         /\ [p EXCEPT !.status = s].status = s
BY DEF PassRecord

LEMMA ManagedTyped ==
  ASSUME TypeOK, ~Idle, NEW p \in PassRecord, NEW out, NEW again,
         Managed(p, out, again)
  PROVE  PassStep(p) /\ (~queued' => out = "ok" /\ ~again)
<1> DEFINE s == InLoop(p.status, p.expanding)
<1>1. s \in Status
  BY InLoopTyped DEF PassRecord
<1>2. "Progressing" \in Phases /\ "Error" \in Phases
  BY DEF Phases
<1>3. /\ [s EXCEPT !.phase = "Progressing"] \in Status
      /\ [s EXCEPT !.phase = "Error"] \in Status
  BY <1>1, <1>2, PhaseTyped
<1>4. CASE out = "ok"
  <2>1. GoOn([p EXCEPT !.status = s], again)
    BY <1>4 DEF Managed
  <2> DEFINE q == [p EXCEPT !.status = s]
  <2>2. q \in PassRecord /\ q.gen = p.gen /\ q.deleting = p.deleting
        /\ q.negative = p.negative
    BY <1>1, StatusInPass
  <2> HIDE DEF q, s
  <2>3. PassStep(q) /\ (~queued' => ~again)
    BY <2>1, <2>2, GoOnTyped DEF q
  <2>. QED
    BY <1>4, <2>2, <2>3 DEF PassStep
<1>5. CASE out # "ok"
  <2>1. \E t \in Status : GiveUp([p EXCEPT !.status = t])
    <3> HIDE DEF s
    <3>1. CASE out = "wait"
      BY <1>1, <3>1 DEF Managed, s
    <3>2. CASE out = "skipped"
      BY <1>3, <3>2 DEF Managed, s
    <3>3. CASE out \notin {"ok", "wait", "skipped"}
      BY <1>3, <3>3 DEF Managed, s
    <3>. QED
      BY <1>5, <3>1, <3>2, <3>3
  <2>2. PICK t \in Status : GiveUp([p EXCEPT !.status = t])
    BY <2>1
  <2> DEFINE q == [p EXCEPT !.status = t]
  <2>3. q \in PassRecord /\ q.gen = p.gen /\ q.deleting = p.deleting
        /\ q.negative = p.negative
    BY StatusInPass
  <2> HIDE DEF q
  <2>4. PassStep(q) /\ queued'
    BY <2>2, <2>3, GiveUpTyped DEF q
  <2>. QED
    BY <2>3, <2>4 DEF PassStep
<1>. QED
  BY <1>4, <1>5

LEMMA ErrorQueues ==
  ASSUME TypeOK, ~Idle, NEW p \in PassRecord, Managed(p, "error", FALSE)
  PROVE  queued'
<1>1. PICK again : Managed(p, "error", again)
  OBVIOUS
<1>2. ~queued' => "error" = "ok"
  BY <1>1, ManagedTyped
<1>. QED
  BY <1>2

-----------------------------------------------------------------------------
(* What the managers of a live cluster have in common                      *)

Counted == disturbances' \in 0..MaxDisturbances[script]

LEMMA DisturbanceCounted ==
  ASSUME TypeOK, Disturb \/ Undisturbed
  PROVE  Counted
<1>1. disturbances \in 0..MaxDisturbances[script] /\ script \in Scripts
  BY DEF TypeOK
<1>2. MaxDisturbances[script] \in Nat
  BY <1>1, ScriptTyped
<1>. QED
  BY <1>1, <1>2 DEF Disturb, Undisturbed, Counted

(* They delete neither NooBaa nor the keys.                                *)
Lasting == {"NooBaa"} \cup KMSResources

LiveWrite ==
  \E puts, dels, over :
    over \subseteq Objects /\ dels \cap Lasting = {}
      /\ WriteExcept(puts, dels, over)

LEMMA LiveWriteOf ==
  ASSUME NEW puts, NEW dels, dels \cap Lasting = {}, Write(puts, dels)
  PROVE  LiveWrite
BY DEF Write, LiveWrite

LEMMA CreationIsLiveWrite ==
  ASSUME NEW puts, Write(puts, {})
  PROVE  LiveWrite
BY LiveWriteOf

LEMMA NoWriteIsLiveWrite ==
  ASSUME NoWrite
  PROVE  LiveWrite
BY CreationIsLiveWrite DEF NoWrite

LEMMA CephFinalized ==
  /\ "CephCluster" \in Finalized /\ "NooBaa" \in Finalized
  /\ {"CephCluster", "NooBaa"} \subseteq Objects
  /\ KMSResources \subseteq Objects /\ KMSResources = {"KMSConfigMap"}
  /\ "KMSConfigMap" \notin Finalized
BY DEF Finalized, RookObjects, Objects, KMSResources

(* No write removes the CephCluster: it has a finalizer.                   *)
LEMMA WriteKeepsCeph ==
  ASSUME TypeOK, NEW puts, NEW dels, NEW over, WriteExcept(puts, dels, over)
  PROVE  Present("CephCluster") => Present("CephCluster")'
<1>1. pass.gen \in 1..Len(script)
  BY PassTyped
<1>2. written'["CephCluster"] =
        IF "CephCluster" \in puts THEN pass.gen ELSE written["CephCluster"]
  BY CephFinalized DEF WriteExcept
<1>. QED
  BY <1>1, <1>2 DEF Present

LEMMA LiveWriteKeeps ==
  ASSUME TypeOK, LiveWrite
  PROVE  /\ StoreTyped
         /\ "NooBaa" \in ready => "NooBaa" \in ready'
         /\ Present("KMSConfigMap") => Present("KMSConfigMap")'
         /\ Present("CephCluster") => Present("CephCluster")'
<1>1. PICK puts, dels, over :
        over \subseteq Objects /\ dels \cap Lasting = {}
          /\ WriteExcept(puts, dels, over)
  BY DEF LiveWrite
<1>2. StoreTyped /\ (Present("CephCluster") => Present("CephCluster")')
  BY <1>1, WriteTyped, WriteKeepsCeph
<1>3. "NooBaa" \notin dels /\ "KMSConfigMap" \notin dels
  BY <1>1 DEF Lasting, KMSResources
<1>4. "NooBaa" \in ready => "NooBaa" \in ready'
  BY <1>1, <1>3 DEF WriteExcept
<1>5. Present("KMSConfigMap") => Present("KMSConfigMap")'
  <2>1. written'["KMSConfigMap"] \in {pass.gen, written["KMSConfigMap"]}
    BY <1>1, <1>3, CephFinalized DEF WriteExcept
  <2>2. pass.gen \in 1..Len(script)
    BY PassTyped
  <2>. QED
    BY <2>1, <2>2 DEF Present
<1>. QED
  BY <1>2, <1>4, <1>5

(* Nor does a pass forget a negative condition.                            *)
Successors ==
  {p \in PassRecord :
     /\ p.gen = pass.gen /\ p.deleting = pass.deleting
     /\ p.negative = {} => pass.negative = {}}

LiveEnd == \E p \in Successors : \E out, again : Managed(p, out, again)

LEMMA ManagedIsLiveEnd ==
  ASSUME NEW p \in Successors, NEW out, NEW again, Managed(p, out, again)
  PROVE  LiveEnd
BY DEF LiveEnd

LEMMA PassIsSuccessor ==
  ASSUME TypeOK
  PROVE  pass \in Successors
BY PassTyped DEF Successors

(* A step of a live pass, as the invariants below see it.                  *)
LiveStep ==
  /\ pass' \in PassRecord
  /\ queued' \in BOOLEAN
  /\ pass'.gen = pass.gen /\ pass'.deleting = pass.deleting
  /\ pass'.todo \in {Tail(pass.todo), LastSteps, <<>>}
  /\ ~queued' => /\ ~queued /\ pass'.todo = Tail(pass.todo)
                 /\ pass'.negative = {} => pass.negative = {}

LEMMA LiveEndIsStep ==
  ASSUME TypeOK, ~Idle, LiveEnd
  PROVE  LiveStep
<1>0. PICK p \in Successors : \E out, again : Managed(p, out, again)
  BY DEF LiveEnd
<1>1. PICK out, again : Managed(p, out, again)
  BY <1>0
<1>2. p \in PassRecord
  BY <1>1 DEF Successors
<1>3. PassStep(p)
  BY <1>1, <1>2, ManagedTyped
<1>. QED
  BY <1>1, <1>3 DEF PassStep, LiveStep, Successors

(* A manager writes, ends its step, and at most one disturbance counts.    *)
ManagerStep == LiveWrite /\ LiveEnd /\ Counted

LEMMA CreatesStep ==
  ASSUME TypeOK, NEW objects, NEW out, Creates(objects, out)
  PROVE  ManagerStep
<1>1. pass \in Successors
  BY PassIsSuccessor
<1>2. \E puts : Write(puts, {})
  BY DEF Creates
<1>3. \E o, again : Managed(pass, o, again)
  BY DEF Creates
<1>4. Disturb \/ Undisturbed
  BY DEF Creates
<1>. QED
  BY <1>1, <1>2, <1>3, <1>4, CreationIsLiveWrite, ManagedIsLiveEnd,
     DisturbanceCounted DEF ManagerStep

LEMMA SkipsStep ==
  ASSUME TypeOK, Skips
  PROVE  ManagerStep
<1>1. pass \in Successors
  BY PassIsSuccessor
<1>2. NoWrite /\ Managed(pass, "ok", FALSE) /\ Undisturbed
  BY DEF Skips
<1>. QED
  BY <1>1, <1>2, NoWriteIsLiveWrite, ManagedIsLiveEnd, DisturbanceCounted
     DEF ManagerStep

LEMMA RestoresStep ==
  ASSUME TypeOK, NEW objects, NEW strategy, Restores(objects, strategy)
  PROVE  ManagerStep
BY CreatesStep DEF Restores

LEMMA PassesOverStep ==
  ASSUME TypeOK, NEW objects, NEW strategy, NEW loose,
         Elements(loose) \subseteq Objects,
         PassesOver(objects, strategy, loose)
  PROVE  ManagerStep
<1>1. Disturb
  BY DEF PassesOver
<1>2. PICK o \in Elements(loose) :
        /\ WriteExcept(Elements(UpToStop(objects, strategy, {o})) \ {o},
                       {}, {o})
        /\ Managed(pass, StopOutcome(objects, strategy, {o}), FALSE)
  BY DEF PassesOver
<1>3. LiveWrite
  <2>1. \E puts : WriteExcept(puts, {}, {o})
    BY <1>2
  <2>2. {o} \subseteq Objects /\ {} \cap Lasting = {}
    BY <1>2
  <2>. QED
    BY <2>1, <2>2 DEF LiveWrite
<1>4. \E out, again : Managed(pass, out, again)
  BY <1>2
<1>. QED
  BY <1>1, <1>3, <1>4, PassIsSuccessor, ManagedIsLiveEnd,
     DisturbanceCounted DEF ManagerStep

-----------------------------------------------------------------------------
(* The managers one by one                                                 *)

LEMMA ProviderObjectsAre ==
  ASSUME NEW s
  PROVE  Elements(ProviderObjects(s)) =
           {"ProviderSecret", "ProviderService", "ProviderDeployment"}
BY DEF ProviderObjects, GetProviderAPIServerSecret,
       GetProviderAPIServerService, GetProviderAPIServerDeployment, Elements

LEMMA RemoveProviderWrites ==
  ASSUME NEW s, NEW out, RemoveProvider(s, out)
  PROVE  /\ \E dels : Write({}, dels) /\ dels \cap Lasting = {}
         /\ (Disturb \/ Undisturbed)
<1>1. \A some \in SUBSET Elements(ProviderObjects(s)) : some \cap Lasting = {}
  BY ProviderObjectsAre DEF Lasting, KMSResources
<1>2. CASE ~consumers /\ out = "ok" /\ Undisturbed
             /\ Write({}, Elements(ProviderObjects(s)))
  BY <1>1, <1>2
<1>3. CASE NoWrite /\ Undisturbed
  BY <1>3 DEF NoWrite
<1>4. CASE Disturb /\ \E some \in SUBSET Elements(ProviderObjects(s)) :
                        Write({}, some)
  BY <1>1, <1>4
<1>. QED
  BY <1>2, <1>3, <1>4 DEF RemoveProvider

LEMMA EnsureProviderServerStep ==
  ASSUME TypeOK, EnsureProviderServer
  PROVE  ManagerStep
<1>1. CASE ~Has(sc, "consumers")
  <2>1. PICK out \in {"ok", "error"} :
          RemoveProvider(sc, out) /\ Managed(pass, out, FALSE)
    BY <1>1 DEF EnsureProviderServer
  <2>2. LiveWrite
    BY <2>1, RemoveProviderWrites, LiveWriteOf
  <2>3. Counted
    BY <2>1, RemoveProviderWrites, DisturbanceCounted
  <2>. QED
    BY <2>1, <2>2, <2>3, PassIsSuccessor, ManagedIsLiveEnd DEF ManagerStep
<1>2. CASE Has(sc, "consumers")
  <2>1. \E objects, out : Creates(objects, out)
    BY <1>2 DEF EnsureProviderServer
  <2>. QED
    BY <2>1, CreatesStep
<1>. QED
  BY <1>1, <1>2

LEMMA EnsureStorageClientStep ==
  ASSUME TypeOK, EnsureStorageClient
  PROVE  ManagerStep
<1>1. \E out, again : Managed(pass, out, again)
  BY DEF EnsureStorageClient
<1>2. Disturb \/ Undisturbed
  BY DEF EnsureStorageClient
<1>3. LiveWrite
  <2>1. \/ Write({"StorageClient"}, {})
        \/ WriteExcept({}, {}, {"StorageClient"})
        \/ Write({}, {"StorageClient"})
        \/ NoWrite
    BY DEF EnsureStorageClient
  <2>2. {"StorageClient"} \cap Lasting = {} /\ {} \cap Lasting = {}
    BY DEF Lasting, KMSResources
  <2>3. {"StorageClient"} \subseteq Objects
    BY DEF Objects
  <2>4. CASE WriteExcept({}, {}, {"StorageClient"})
    BY <2>2, <2>3, <2>4 DEF LiveWrite
  <2>. QED
    BY <2>1, <2>2, <2>4, LiveWriteOf, CreationIsLiveWrite, NoWriteIsLiveWrite
<1>. QED
  BY <1>1, <1>2, <1>3, PassIsSuccessor, ManagedIsLiveEnd, DisturbanceCounted
     DEF ManagerStep

LEMMA EnsureBackingStorageClassesStep ==
  ASSUME TypeOK, EnsureBackingStorageClasses
  PROVE  ManagerStep
<1> DEFINE wanted == Elements(NewBackingStorageClasses(sc))
<1>1. \E out, again : Managed(pass, out, again)
  BY DEF EnsureBackingStorageClasses
<1>2. Disturb \/ Undisturbed
  BY DEF EnsureBackingStorageClasses
<1>3. LiveWrite
  <2>1. \/ Write(wanted, {"BackingClass"} \ wanted)
        \/ WriteExcept({}, {"BackingClass"}, wanted)
        \/ NoWrite
    BY DEF EnsureBackingStorageClasses
  <2>2. wanted \subseteq {"BackingClass"}
    BY DEF NewBackingStorageClasses, Optional, Elements
  <2>3. "BackingClass" \in Objects /\ "BackingClass" \notin Lasting
    BY DEF Objects, Lasting, KMSResources
  <2> HIDE DEF wanted
  <2>4. /\ ({"BackingClass"} \ wanted) \cap Lasting = {}
        /\ {"BackingClass"} \cap Lasting = {} /\ wanted \subseteq Objects
    BY <2>2, <2>3
  <2>5. CASE WriteExcept({}, {"BackingClass"}, wanted)
    BY <2>4, <2>5 DEF LiveWrite
  <2>. QED
    BY <2>1, <2>4, <2>5, LiveWriteOf, NoWriteIsLiveWrite
<1>. QED
  BY <1>1, <1>2, <1>3, PassIsSuccessor, ManagedIsLiveEnd, DisturbanceCounted
     DEF ManagerStep

(* The managers that only create.                                          *)
LEMMA CreatingStep ==
  ASSUME TypeOK,
         \/ EnsureTopologyMap \/ EnsureStorageQuota \/ EnsureCephConfig
         \/ EnsureJobTemplates \/ EnsureCephNFS \/ EnsureCephNFSService
  PROVE  ManagerStep
<1>1. \/ \E objects, out : Creates(objects, out)
      \/ \E objects, strategy : Restores(objects, strategy)
      \/ Skips
  BY DEF EnsureTopologyMap, EnsureStorageQuota, EnsureCephConfig,
         EnsureJobTemplates, EnsureCephNFS, EnsureCephNFSService
<1>. QED
  BY <1>1, CreatesStep, RestoresStep, SkipsStep

LEMMA LooseObjects ==
  ASSUME NEW s
  PROVE  /\ Elements(NewCephBlockPoolInstances(s)) \subseteq Objects
         /\ Elements(NewCephFilesystemInstances(s)) \subseteq Objects
         /\ Elements(NewCephObjectStoreInstances(s)) \subseteq Objects
         /\ Elements(NewCephObjectStoreUserInstances(s)) \subseteq Objects
         /\ Elements(NewCephRGWRoutes(s)) \subseteq Objects
<1>1. Elements(NewCephBlockPoolInstances(s)) \subseteq
        {"CephBlockPool", "NonResilientPools", "NFSPool"}
  BY DEF NewCephBlockPoolInstances, Optional, Elements
<1>2. {"CephBlockPool", "NonResilientPools", "NFSPool"} \subseteq Objects
  BY DEF Objects, RookObjects
<1>3. Elements(NewCephFilesystemInstances(s)) \subseteq Objects
  BY DEF NewCephFilesystemInstances, Elements, Objects, RookObjects
<1>4. Elements(NewCephObjectStoreInstances(s)) \subseteq Objects
  BY DEF NewCephObjectStoreInstances, Elements, Objects, RookObjects
<1>5. Elements(NewCephObjectStoreUserInstances(s)) \subseteq Objects
  BY DEF NewCephObjectStoreUserInstances, Elements, Objects, RookObjects
<1>6. Elements(NewCephRGWRoutes(s)) \subseteq Objects
  BY DEF NewCephRGWRoutes, Elements, Objects
<1>. QED
  BY <1>1, <1>2, <1>3, <1>4, <1>5, <1>6

LEMMA RestoringStep ==
  ASSUME TypeOK,
         \/ EnsureCephBlockPools \/ EnsureCephFilesystems
         \/ EnsureCephObjectStores \/ EnsureCephObjectStoreUsers
         \/ EnsureCephRGWRoutes
  PROVE  ManagerStep
<1>1. \/ Skips
      \/ \E objects, strategy : Restores(objects, strategy)
      \/ \E objects, strategy, loose :
           /\ Elements(loose) \subseteq Objects
           /\ PassesOver(objects, strategy, loose)
  <2>1. CASE EnsureCephBlockPools
    BY <2>1, LooseObjects DEF EnsureCephBlockPools, RestoresLoosely
  <2>2. CASE EnsureCephFilesystems
    BY <2>2, LooseObjects DEF EnsureCephFilesystems
  <2>3. CASE EnsureCephObjectStores
    BY <2>3, LooseObjects DEF EnsureCephObjectStores, RestoresLoosely
  <2>4. CASE EnsureCephObjectStoreUsers
    BY <2>4, LooseObjects DEF EnsureCephObjectStoreUsers, RestoresLoosely
  <2>5. CASE EnsureCephRGWRoutes
    BY <2>5, LooseObjects DEF EnsureCephRGWRoutes, RestoresLoosely
  <2>. QED
    BY <2>1, <2>2, <2>3, <2>4, <2>5
<1>. QED
  BY <1>1, SkipsStep, RestoresStep, PassesOverStep

(* Storage and snapshot classes.                                           *)
LEMMA CreatingClassesWrites ==
  ASSUME NEW classes, NEW before, NEW after, NEW p,
         CreateStorageClasses(classes, before, after, p)
  PROVE  \E puts, lost : lost \subseteq StorageClasses /\ Write(puts, lost)
<1> DEFINE wanted == WantedClasses(classes) \cap StorageClasses
           made == {c \in wanted : MayBeMade(c) /\ ~IsKept(c)}
           replaced(n) ==
             {c \in made : n < Len(classes) /\ c = classes[n + 1]}
<1>1. \/ \E puts : Write(puts, {})
      \/ \E n \in 0..Len(classes) : \E puts : \E lost \in SUBSET replaced(n) :
           Write(puts, lost)
  BY DEF CreateStorageClasses
<1>2. \A n : replaced(n) \subseteq StorageClasses
  OBVIOUS
<1> HIDE DEF replaced
<1>. QED
  BY <1>1, <1>2

LEMMA CreateStorageClassesStep ==
  ASSUME TypeOK, NEW classes, NEW before, NEW after, NEW p \in Successors,
         CreateStorageClasses(classes, before, after, p)
  PROVE  ManagerStep
<1>1. \E puts, lost : lost \subseteq StorageClasses /\ Write(puts, lost)
  BY CreatingClassesWrites
<1>2. \E out, again : Managed(p, out, again)
  BY DEF CreateStorageClasses
<1>3. Disturb \/ Undisturbed
  BY DEF CreateStorageClasses
<1>4. StorageClasses \cap Lasting = {}
  BY DEF StorageClasses, ExternalClasses, Lasting, KMSResources
<1>5. LiveWrite
  BY <1>1, <1>4, LiveWriteOf
<1>. QED
  BY <1>2, <1>3, <1>5, ManagedIsLiveEnd, DisturbanceCounted DEF ManagerStep

LEMMA EnsureStorageClassStep ==
  ASSUME TypeOK, EnsureStorageClass
  PROVE  ManagerStep
BY CreateStorageClassesStep, PassIsSuccessor DEF EnsureStorageClass

LEMMA HashRecorded ==
  ASSUME TypeOK
  PROVE  [pass EXCEPT !.status.hash = sc.secret] \in Successors
<1>1. pass \in PassRecord /\ sc.secret \in Nat
  BY PassTyped, SpecFields
<1>2. [pass.status EXCEPT !.hash = sc.secret] \in Status
  BY <1>1 DEF PassRecord, Status
<1> DEFINE p == [pass EXCEPT !.status.hash = sc.secret]
<1>3. p = [pass EXCEPT !.status = [pass.status EXCEPT !.hash = sc.secret]]
  BY <1>1 DEF PassRecord
<1>. QED
  BY <1>1, <1>2, <1>3, StatusInPass DEF Successors

LEMMA EnsureExternalResourcesStep ==
  ASSUME TypeOK, EnsureExternalResources
  PROVE  ManagerStep
<1> DEFINE p == [pass EXCEPT !.status.hash = sc.secret]
<1>1. p \in Successors
  BY HashRecorded
<1>2. \/ \E objects, out : Creates(objects, out)
      \/ \E classes, before, after :
           CreateStorageClasses(classes, before, after, p)
      \/ Disturb /\ \E puts : Write(puts, {}) /\ Managed(p, "error", FALSE)
      \/ Disturb /\ NoWrite /\ Managed(pass, "error", FALSE)
  BY DEF EnsureExternalResources
<1> HIDE DEF p
<1>4. CASE Disturb /\ \E puts : Write(puts, {}) /\ Managed(p, "error", FALSE)
  BY <1>1, <1>4, CreationIsLiveWrite, ManagedIsLiveEnd, DisturbanceCounted
     DEF ManagerStep
<1>3. CASE Disturb /\ NoWrite /\ Managed(pass, "error", FALSE)
  BY <1>3, PassIsSuccessor, NoWriteIsLiveWrite, ManagedIsLiveEnd,
     DisturbanceCounted DEF ManagerStep
<1>. QED
  BY <1>1, <1>2, <1>3, <1>4, CreatesStep, CreateStorageClassesStep

LEMMA SnapshotClassesAreObjects ==
  ASSUME NEW s
  PROVE  Elements(NewSnapshotClassConfigurations(s)) \subseteq Objects
<1>1. Elements(NewSnapshotClassConfigurations(s)) \subseteq
        {"CephFSSnapshotClass", "RBDSnapshotClass", "NFSSnapshotClass"}
  BY DEF NewSnapshotClassConfigurations, Optional, Elements
<1>. QED
  BY <1>1 DEF Objects

LEMMA EnsureSnapshotClassStep ==
  ASSUME TypeOK, EnsureSnapshotClass
  PROVE  ManagerStep
<1>1. Managed(pass, "ok", FALSE)
  BY DEF EnsureSnapshotClass
<1>2. Disturb \/ Undisturbed
  BY DEF EnsureSnapshotClass
<1>3. \/ \E puts : Write(puts, {})
      \/ \E puts, over : /\ over \subseteq
                              Elements(NewSnapshotClassConfigurations(sc))
                         /\ WriteExcept(puts, {}, over)
  <2> DEFINE classes == NewSnapshotClassConfigurations(sc)
             wanted == WantedClasses(classes)
  <2>1. \/ \E puts : Write(puts, {})
        \/ \E puts, prefix : WriteExcept(puts, {}, wanted \ prefix)
    BY DEF EnsureSnapshotClass
  <2>2. wanted \subseteq Elements(classes)
    BY DEF WantedClasses
  <2> HIDE DEF wanted, classes
  <2>3. \A prefix : wanted \ prefix \subseteq Elements(classes)
    BY <2>2
  <2>. QED
    BY <2>1, <2>3 DEF classes
<1>4. LiveWrite
  BY <1>3, SnapshotClassesAreObjects, CreationIsLiveWrite DEF LiveWrite
<1>. QED
  BY <1>1, <1>2, <1>4, PassIsSuccessor, ManagedIsLiveEnd, DisturbanceCounted
     DEF ManagerStep

(* The mirror.                                                             *)
LEMMA DeleteMirrorWrites ==
  ASSUME NEW out, DeleteMirror(out)
  PROVE  /\ \E dels : Write({}, dels) /\ dels \cap Lasting = {}
         /\ (Disturb \/ Undisturbed)
<1>1. Elements(NewCephRbdMirrorInstances(sc)) \cap Lasting = {}
  BY DEF NewCephRbdMirrorInstances, Elements, Lasting, KMSResources
<1>2. {} \cap Lasting = {}
  OBVIOUS
<1>. QED
  BY <1>1, <1>2 DEF DeleteMirror, NoWrite

LEMMA EnsureCephRbdMirrorsStep ==
  ASSUME TypeOK, EnsureCephRbdMirrors
  PROVE  ManagerStep
<1>1. CASE Skips
  BY <1>1, SkipsStep
<1>2. CASE \E out \in {"ok", "error"} :
             DeleteMirror(out) /\ Managed(pass, out, FALSE)
  <2>1. PICK out \in {"ok", "error"} :
          DeleteMirror(out) /\ Managed(pass, out, FALSE)
    BY <1>2
  <2>2. LiveWrite /\ Counted
    BY <2>1, DeleteMirrorWrites, LiveWriteOf, DisturbanceCounted
  <2>. QED
    BY <2>1, <2>2, PassIsSuccessor, ManagedIsLiveEnd DEF ManagerStep
<1>3. CASE Restores(NewCephRbdMirrorInstances(sc), "manage")
  BY <1>3, RestoresStep
<1>. QED
  BY <1>1, <1>2, <1>3 DEF EnsureCephRbdMirrors

LEMMA EnsureClusterClaimStep ==
  ASSUME TypeOK, EnsureClusterClaim
  PROVE  ManagerStep
<1>1. CASE NoWrite /\ Managed(pass, "error", FALSE) /\ Undisturbed
  BY <1>1, PassIsSuccessor, NoWriteIsLiveWrite, ManagedIsLiveEnd,
     DisturbanceCounted DEF ManagerStep
<1>2. CASE Creates(NewClusterClaims(sc), "ok")
  BY <1>2, CreatesStep
<1>. QED
  BY <1>1, <1>2 DEF EnsureClusterClaim

(* The CephCluster: what is found wrong with it is added to the negative   *)
(* conditions.                                                             *)
LEMMA NegativeOfCephTyped ==
  NegativeOfCeph \subseteq Negatives /\ NoCephStatus \in SUBSET Negatives
    /\ NoCephStatus # {}
BY DEF NegativeOfCeph, NoCephStatus, Negatives

LEMMA FoundCephClusterTyped ==
  ASSUME TypeOK
  PROVE  /\ FoundCephCluster \in Successors
         /\ FoundCephCluster.negative = pass.negative \cup NegativeOfCeph
<1> DEFINE phase == IF sc.mode = "external" THEN ExternalPhase
                    ELSE pass.status.phase
           negative == pass.negative \cup NegativeOfCeph
<1>1. pass \in PassRecord
  BY PassTyped
<1>2. negative \in SUBSET Negatives
  BY <1>1, NegativeOfCephTyped DEF PassRecord
<1>3. PICK e \in BOOLEAN : e = (pass.expanding \/ IsExpanding)
  OBVIOUS
<1>4. phase \in Phases
  BY <1>1 DEF PassRecord, Status, ExternalPhase, Phases
<1>5. [pass.status EXCEPT !.phase = phase] \in Status
  BY <1>1, <1>4, PhaseTyped DEF PassRecord
<1> DEFINE s == [pass.status EXCEPT !.phase = phase]
<1>6. FoundCephCluster =
        [[[pass EXCEPT !.negative = negative] EXCEPT !.expanding = e]
            EXCEPT !.status = s]
  <2>1. FoundCephCluster =
          [[[pass EXCEPT !.negative = negative]
              EXCEPT !.expanding = (pass.expanding \/ IsExpanding)]
                EXCEPT !.status = s]
    BY <1>1, Zenon DEF PassRecord, FoundCephCluster
  <2>. QED
    BY <1>3, <2>1, Zenon
<1>s. s \in Status
  BY <1>5
<1> HIDE DEF phase, negative, s
<1> DEFINE a == [pass EXCEPT !.negative = negative]
           b == [a EXCEPT !.expanding = e]
<1>a. /\ a \in PassRecord /\ a.gen = pass.gen /\ a.deleting = pass.deleting
      /\ a.negative = negative
  BY <1>1, <1>2 DEF PassRecord
<1> HIDE DEF a
<1>b. /\ b \in PassRecord /\ b.gen = a.gen /\ b.deleting = a.deleting
      /\ b.negative = a.negative
  BY <1>3, <1>a DEF PassRecord
<1>c. FoundCephCluster = [b EXCEPT !.status = s]
  BY <1>6 DEF a
<1> HIDE DEF b
<1>7. /\ FoundCephCluster \in PassRecord /\ FoundCephCluster.gen = pass.gen
      /\ FoundCephCluster.deleting = pass.deleting
      /\ FoundCephCluster.negative = negative
  BY <1>s, <1>a, <1>b, <1>c, StatusInPass
<1>8. negative = {} => pass.negative = {}
  BY DEF negative
<1>. QED
  BY <1>7, <1>8 DEF Successors, negative

LEMMA NoCephClusterTyped ==
  ASSUME TypeOK
  PROVE  [pass EXCEPT !.negative = NoCephStatus] \in Successors
BY PassTyped, NegativeOfCephTyped DEF PassRecord, Successors

LEMMA EnsureCephClusterStep ==
  ASSUME TypeOK, EnsureCephCluster
  PROVE  ManagerStep
<1> DEFINE none == [pass EXCEPT !.negative = NoCephStatus]
<1>1. none \in Successors /\ FoundCephCluster \in Successors
        /\ pass \in Successors
  BY NoCephClusterTyped, FoundCephClusterTyped, PassIsSuccessor
<1>2. Disturb \/ Undisturbed
  BY DEF EnsureCephCluster, Skips
<1>3. NoWrite \/ \E puts : Write(puts, {})
  BY DEF EnsureCephCluster, Skips
<1>4. \E p \in {none, FoundCephCluster, pass} : \E out, again :
        Managed(p, out, again)
  BY DEF EnsureCephCluster, Skips
<1> HIDE DEF none
<1>. QED
  BY <1>1, <1>2, <1>3, <1>4, NoWriteIsLiveWrite, CreationIsLiveWrite,
     ManagedIsLiveEnd, DisturbanceCounted DEF ManagerStep

(* A pass that goes on without a negative condition has seen the           *)
(* CephCluster without one.                                                *)
LEMMA CephClusterSeen ==
  ASSUME TypeOK, EnsureCephCluster, sc.strategy["CephCluster"] = "manage",
         ~queued', pass'.negative = {}
  PROVE  NegativeOfCeph = {}
<1>0. ~Idle
  BY DEF EnsureCephCluster, At
<1> DEFINE none == [pass EXCEPT !.negative = NoCephStatus]
<1>1. none \in PassRecord /\ none.negative # {}
  BY NoCephClusterTyped, PassTyped, NegativeOfCephTyped
     DEF Successors, PassRecord
<1>2. FoundCephCluster \in PassRecord /\ pass \in PassRecord
  BY FoundCephClusterTyped, PassTyped DEF Successors
<1>3. \/ \E p \in {none, FoundCephCluster, pass} : Managed(p, "error", FALSE)
      \/ Managed(none, "ok", TRUE)
      \/ Managed(FoundCephCluster, "ok", Event({"CephCluster"}))
      \/ Managed(FoundCephCluster, "error", TRUE)
  BY DEF EnsureCephCluster, Unmanaged
<1> HIDE DEF none
<1>4. ASSUME NEW p \in {none, FoundCephCluster, pass}
      PROVE  ~Managed(p, "error", FALSE)
  <2>1. p \in PassRecord
    BY <1>1, <1>2
  <2>. QED
    BY <1>0, <2>1, ErrorQueues
<1>5. ~Managed(none, "ok", TRUE) /\ ~Managed(FoundCephCluster, "error", TRUE)
  BY <1>0, <1>1, <1>2, ManagedTyped
<1>6. Managed(FoundCephCluster, "ok", Event({"CephCluster"}))
  BY <1>3, <1>4, <1>5
<1>7. pass'.negative = FoundCephCluster.negative
  BY <1>0, <1>2, <1>6, ManagedTyped DEF PassStep
<1>. QED
  BY <1>7, FoundCephClusterTyped

(* NooBaa, when Ceph serves.                                               *)
LEMMA NooBaaLooked ==
  ASSUME TypeOK
  PROVE  LET p == [pass EXCEPT !.negative = @ \cup NegativeOfNooBaa] IN
         p \in Successors /\ p.negative = pass.negative \cup NegativeOfNooBaa
<1>1. NegativeOfNooBaa \subseteq Negatives
  BY DEF NegativeOfNooBaa, Negatives
<1>. QED
  BY <1>1, PassTyped DEF PassRecord, Successors

LEMMA EnsureNoobaaSystemStep ==
  ASSUME TypeOK, EnsureNoobaaSystem
  PROVE  /\ ManagerStep
         /\ ~queued' /\ pass'.negative = {} =>
              Unmanaged("MultiCloudGateway") \/ ~CephServes \/ "NooBaa" \in ready
<1> DEFINE p == [pass EXCEPT !.negative = @ \cup NegativeOfNooBaa]
<1>1. /\ p \in Successors /\ pass \in Successors
      /\ p \in PassRecord /\ pass \in PassRecord
      /\ p.negative = pass.negative \cup NegativeOfNooBaa
  BY NooBaaLooked, PassIsSuccessor DEF Successors
<1>2. ~Idle
  BY DEF EnsureNoobaaSystem, At
<1>3. CASE Unmanaged("MultiCloudGateway") \/ ~CephServes
  <2>1. Skips
    BY <1>3 DEF EnsureNoobaaSystem
  <2>. QED
    BY <1>3, <2>1, SkipsStep
<1>4. CASE /\ ~(Unmanaged("MultiCloudGateway") \/ ~CephServes)
           /\ Write({"NooBaa"}, {}) /\ Undisturbed
           /\ Managed(p, "ok", Event({"NooBaa"}))
  <2> HIDE DEF p
  <2>0. \E out, again : Managed(p, out, again)
    BY <1>4
  <2>a. Disturb \/ Undisturbed
    BY <1>4
  <2>b. LiveWrite
    BY <1>4, CreationIsLiveWrite
  <2>c. LiveEnd
    BY <1>1, <2>0, Zenon DEF LiveEnd
  <2>1. ManagerStep
    BY <2>a, <2>b, <2>c, DisturbanceCounted DEF ManagerStep
  <2>2. pass'.negative = p.negative
    BY <1>1, <1>2, <2>0, ManagedTyped DEF PassStep
  <2>3. pass'.negative = {} => "NooBaa" \in ready
    BY <1>1, <2>2 DEF NegativeOfNooBaa
  <2>. QED
    BY <2>1, <2>3
<1>5. CASE Disturb /\ NoWrite /\ Managed(pass, "error", FALSE)
  <2>1. ManagerStep
    BY <1>1, <1>5, NoWriteIsLiveWrite, ManagedIsLiveEnd, DisturbanceCounted
       DEF ManagerStep
  <2> HIDE DEF p
  <2>2. queued'
    BY <1>1, <1>2, <1>5, ErrorQueues
  <2>. QED
    BY <2>1, <2>2
<1>. QED
  BY <1>3, <1>4, <1>5 DEF EnsureNoobaaSystem

(* Together.                                                               *)
LEMMA EnsureStep ==
  ASSUME TypeOK, Ensure
  PROVE  /\ ManagerStep /\ ~Idle /\ ~pass.deleting
         /\ UNCHANGED <<cluster, status, rook, consumers, mirror>>
<1>1. CASE EnsureProviderServer
  BY <1>1, EnsureProviderServerStep DEF EnsureProviderServer, At
<1>2. CASE EnsureStorageClient
  BY <1>2, EnsureStorageClientStep DEF EnsureStorageClient, At
<1>3. CASE EnsureBackingStorageClasses
  BY <1>3, EnsureBackingStorageClassesStep DEF EnsureBackingStorageClasses, At
<1>4. CASE \/ EnsureTopologyMap \/ EnsureStorageQuota \/ EnsureCephConfig
           \/ EnsureJobTemplates \/ EnsureCephNFS \/ EnsureCephNFSService
  BY <1>4, CreatingStep
     DEF EnsureTopologyMap, EnsureStorageQuota, EnsureCephConfig,
         EnsureJobTemplates, EnsureCephNFS, EnsureCephNFSService, At
<1>5. CASE \/ EnsureCephBlockPools \/ EnsureCephFilesystems
           \/ EnsureCephObjectStores \/ EnsureCephObjectStoreUsers
           \/ EnsureCephRGWRoutes
  BY <1>5, RestoringStep
     DEF EnsureCephBlockPools, EnsureCephFilesystems, EnsureCephObjectStores,
         EnsureCephObjectStoreUsers, EnsureCephRGWRoutes, At
<1>6. CASE EnsureCephCluster
  BY <1>6, EnsureCephClusterStep DEF EnsureCephCluster, At
<1>7. CASE EnsureStorageClass
  BY <1>7, EnsureStorageClassStep DEF EnsureStorageClass, At
<1>8. CASE EnsureNoobaaSystem
  BY <1>8, EnsureNoobaaSystemStep DEF EnsureNoobaaSystem, At
<1>9. CASE EnsureSnapshotClass
  BY <1>9, EnsureSnapshotClassStep DEF EnsureSnapshotClass, At
<1>10. CASE EnsureCephRbdMirrors
  BY <1>10, EnsureCephRbdMirrorsStep DEF EnsureCephRbdMirrors, At
<1>11. CASE EnsureClusterClaim
  BY <1>11, EnsureClusterClaimStep DEF EnsureClusterClaim, At
<1>12. CASE EnsureExternalResources
  BY <1>12, EnsureExternalResourcesStep DEF EnsureExternalResources, At
<1>. QED
  BY <1>1, <1>2, <1>3, <1>4, <1>5, <1>6, <1>7, <1>8, <1>9, <1>10, <1>11,
     <1>12 DEF Ensure

-----------------------------------------------------------------------------
(* Steps after the managers                                                *)

(* What all steps of a live pass but the last have in common.              *)
LiveEffect ==
  /\ StoreTyped /\ LiveStep /\ Counted
  /\ "NooBaa" \in ready => "NooBaa" \in ready'
  /\ Present("KMSConfigMap") => Present("KMSConfigMap")'
  /\ Present("CephCluster") => Present("CephCluster")'
  /\ UNCHANGED <<script, gen, life, ceph, seen, consumers>>

LEMMA EnsureEffect ==
  ASSUME TypeOK, Ensure
  PROVE  /\ LiveEffect /\ ~Idle /\ ~pass.deleting
         /\ UNCHANGED <<status, jobs, verbose, logging>>
<1>1. /\ LiveWrite /\ LiveEnd /\ Counted /\ ~Idle /\ ~pass.deleting
      /\ UNCHANGED <<cluster, status, rook, consumers, mirror>>
  BY EnsureStep DEF ManagerStep
<1>2. LiveStep
  BY <1>1, LiveEndIsStep
<1>. QED
  BY <1>1, <1>2, LiveWriteKeeps DEF LiveEffect, cluster, rook, mirror

LEMMA GoOnIsLiveStep ==
  ASSUME TypeOK, ~Idle, NEW p \in Successors, NEW again, GoOn(p, again)
  PROVE  LiveStep /\ pass'.status = p.status
<1>1. p \in PassRecord
  BY DEF Successors
<1>2. PassStep(p) /\ pass'.status = p.status /\ pass'.todo = Tail(pass.todo)
  BY <1>1, GoOnTyped
<1>. QED
  BY <1>2 DEF PassStep, LiveStep, Successors

LEMMA GiveUpIsLiveStep ==
  ASSUME TypeOK, ~Idle, NEW p \in Successors, GiveUp(p)
  PROVE  LiveStep /\ queued'
<1>1. p \in PassRecord
  BY DEF Successors
<1>2. PassStep(p) /\ queued' /\ pass'.todo = LastSteps
  BY <1>1, GiveUpTyped
<1>. QED
  BY <1>2 DEF PassStep, LiveStep, Successors

LEMMA StatusIsSuccessor ==
  ASSUME TypeOK, NEW s \in Status
  PROVE  [pass EXCEPT !.status = s] \in Successors
BY StatusInPass, PassTyped DEF Successors

(* The resource profile.                                                   *)
LEMMA ProfileStatuses ==
  ASSUME TypeOK
  PROVE  /\ Applying \in Successors
         /\ [pass EXCEPT !.status.phase = "Error"] \in Successors
         /\ [pass EXCEPT !.status.profile = sc.profile] \in Successors
         /\ [pass EXCEPT !.status.profile = sc.profile].status \in Status
<1>1. pass \in PassRecord /\ pass.status \in Status /\ sc.profile \in Profiles
  BY PassTyped, SpecFields DEF PassRecord
<1> DEFINE applying == [[[pass.status EXCEPT !.phase = "Progressing"]
                           EXCEPT !.progressing = "True"]
                             EXCEPT !.upgradeable = "Unknown"]
           failed == [pass.status EXCEPT !.phase = "Error"]
           applied == [pass.status EXCEPT !.profile = sc.profile]
<1>2. applying \in Status /\ failed \in Status /\ applied \in Status
  BY <1>1 DEF Status, Phases
<1>3. Applying = [pass EXCEPT !.status = applying]
  BY <1>1 DEF Applying, PassRecord
<1>4. [pass EXCEPT !.status.phase = "Error"] = [pass EXCEPT !.status = failed]
  BY <1>1 DEF PassRecord
<1>5. [pass EXCEPT !.status.profile = sc.profile] =
        [pass EXCEPT !.status = applied]
  BY <1>1 DEF PassRecord
<1> HIDE DEF applying, failed, applied
<1>6. ASSUME NEW t \in Status
      PROVE  /\ [pass EXCEPT !.status = t] \in Successors
             /\ [pass EXCEPT !.status = t].status = t
  BY <1>1, StatusIsSuccessor, StatusInPass
<1>7. Applying \in Successors
  BY <1>2, <1>3, <1>6
<1>8. [pass EXCEPT !.status.phase = "Error"] \in Successors
  BY <1>2, <1>4, <1>6
<1>9. [pass EXCEPT !.status = applied] \in Successors
        /\ [pass EXCEPT !.status = applied].status \in Status
  BY <1>2, <1>6
<1>. QED
  BY <1>5, <1>7, <1>8, <1>9, Zenon

LEMMA ResourceProfileEffect ==
  ASSUME TypeOK, ResourceProfile
  PROVE  /\ LiveEffect /\ ~Idle /\ ~pass.deleting
         /\ Head(pass.todo) = "ResourceProfile"
         /\ status' \in Status
         /\ UNCHANGED <<jobs, verbose, logging>>
<1> DEFINE applied == [pass EXCEPT !.status.profile = sc.profile]
           failed == [pass EXCEPT !.status.phase = "Error"]
<1>1. /\ ~Idle /\ ~pass.deleting /\ NoWrite
      /\ Head(pass.todo) = "ResourceProfile"
      /\ UNCHANGED <<cluster, rook, consumers, mirror>>
      /\ (Disturb \/ Undisturbed)
  BY DEF ResourceProfile, At
<1>2. \/ GoOn(pass, FALSE) \/ GiveUp(Applying) \/ GoOn(applied, FALSE)
      \/ GiveUp(applied) \/ GiveUp(failed)
  BY DEF ResourceProfile
<1>3. status' \in {status, applied.status}
  BY DEF ResourceProfile
<1>4. applied \in Successors /\ failed \in Successors /\ Applying \in Successors
        /\ pass \in Successors /\ applied.status \in Status
  BY ProfileStatuses, PassIsSuccessor
<1>5. status \in Status
  BY DEF TypeOK
<1> HIDE DEF applied, failed
<1>6. \/ \E p \in Successors : \E again : GoOn(p, again)
      \/ \E p \in Successors : GiveUp(p)
  BY <1>2, <1>4
<1>7. LiveStep
  BY <1>1, <1>6, GoOnIsLiveStep, GiveUpIsLiveStep
<1>8. Counted /\ LiveWrite
  BY <1>1, DisturbanceCounted, NoWriteIsLiveWrite
<1>. QED
  BY <1>1, <1>3, <1>4, <1>5, <1>7, <1>8, LiveWriteKeeps
     DEF LiveEffect, cluster, rook, mirror

(* The conditions.                                                         *)
LEMMA EvaluatedTyped ==
  ASSUME NEW s \in Status
  PROVE  Evaluated(s) \in Status
<1>1. Complete(s) \in Status
  BY DEF Complete, Status
<1>2. Ready(Complete(s)) \in Status
  BY <1>1 DEF Ready, Status, Phases
<1>3. Collected(s) \in Status
  BY DEF Collected, Status
<1>4. NegativePhase(Collected(s)) \in Phases
  BY <1>3 DEF NegativePhase, Status, Phases
<1>. QED
  BY <1>2, <1>3, <1>4, PhaseTyped DEF Evaluated

LEMMA EvaluateConditionsEffect ==
  ASSUME TypeOK, EvaluateConditions
  PROVE  /\ LiveEffect /\ ~Idle /\ ~pass.deleting
         /\ Head(pass.todo) = "Completion"
         /\ pass'.status = Evaluated(pass.status)
         /\ UNCHANGED <<status, jobs, verbose, logging>>
<1>1. /\ ~Idle /\ ~pass.deleting /\ NoWrite /\ Undisturbed
      /\ Head(pass.todo) = "Completion"
      /\ UNCHANGED <<cluster, status, rook, consumers, mirror>>
  BY DEF EvaluateConditions, At
<1> DEFINE s == Evaluated(pass.status)
           p == [pass EXCEPT !.status = s]
<1>2. s \in Status
  BY EvaluatedTyped, PassTyped DEF PassRecord
<1>3. \E again : GoOn(p, again)
  BY DEF EvaluateConditions
<1> HIDE DEF s
<1>4. p \in Successors /\ p.status = s
  BY <1>2, StatusIsSuccessor, PassTyped, StatusInPass
<1> HIDE DEF p
<1>5. LiveStep /\ pass'.status = s
  BY <1>1, <1>3, <1>4, GoOnIsLiveStep
<1>6. Counted /\ LiveWrite
  BY <1>1, DisturbanceCounted, NoWriteIsLiveWrite
<1>. QED
  BY <1>1, <1>5, <1>6, LiveWriteKeeps DEF LiveEffect, cluster, rook, mirror, s

(* Exporter, logging and tools leave the status in the pass alone.         *)
LEMMA StepOfPass ==
  ASSUME TypeOK, ~Idle, (\E again : GoOn(pass, again)) \/ GiveUp(pass)
  PROVE  LiveStep /\ (~queued' => pass'.status = pass.status)
BY PassIsSuccessor, GoOnIsLiveStep, GiveUpIsLiveStep

LEMMA EnableMetricsExporterEffect ==
  ASSUME TypeOK, EnableMetricsExporter
  PROVE  /\ LiveEffect /\ ~Idle /\ ~pass.deleting
         /\ Head(pass.todo) = "MetricsExporter"
         /\ ~queued' => pass'.status = pass.status
         /\ UNCHANGED <<status, jobs, verbose, logging>>
<1>1. /\ ~Idle /\ ~pass.deleting /\ (Disturb \/ Undisturbed)
      /\ Head(pass.todo) = "MetricsExporter"
      /\ UNCHANGED <<cluster, status, rook, consumers, mirror>>
      /\ \E puts : Write(puts, {})
      /\ (\E again : GoOn(pass, again)) \/ GiveUp(pass)
  BY DEF EnableMetricsExporter, At
<1>2. LiveStep /\ (~queued' => pass'.status = pass.status)
  BY <1>1, StepOfPass
<1>3. Counted /\ LiveWrite
  BY <1>1, DisturbanceCounted, CreationIsLiveWrite
<1>. QED
  BY <1>1, <1>2, <1>3, LiveWriteKeeps DEF LiveEffect, cluster, rook, mirror

JobsTyped == jobs' \in [{"enable", "disable"} -> JobStates]
               /\ verbose' \in BOOLEAN /\ logging' \in BOOLEAN

LEMMA LoggingJobs ==
  LoggingJob \subseteq {"enable", "disable"}
BY DEF LoggingJob

LEMMA EnsureRbdMirrorDebugLoggingEffect ==
  ASSUME TypeOK, EnsureRbdMirrorDebugLogging
  PROVE  /\ LiveEffect /\ ~Idle /\ ~pass.deleting
         /\ Head(pass.todo) = "MirrorDebugLogging"
         /\ ~queued' => pass'.status = pass.status
         /\ JobsTyped /\ UNCHANGED status
<1>1. /\ ~Idle /\ ~pass.deleting /\ NoWrite
      /\ Head(pass.todo) = "MirrorDebugLogging"
      /\ UNCHANGED <<cluster, status, rook, consumers>>
  BY DEF EnsureRbdMirrorDebugLogging, At
<1>2. Disturb \/ Undisturbed
  BY DEF EnsureRbdMirrorDebugLogging
<1>3. (\E again : GoOn(pass, again)) \/ GiveUp(pass)
  BY DEF EnsureRbdMirrorDebugLogging
<1>4. LiveStep /\ (~queued' => pass'.status = pass.status)
  BY <1>1, <1>3, StepOfPass
<1>5. Counted /\ LiveWrite
  BY <1>1, <1>2, DisturbanceCounted, NoWriteIsLiveWrite
<1>6. verbose' = verbose /\ (logging' = logging \/ logging' = ~logging)
  BY DEF EnsureRbdMirrorDebugLogging, mirror
<1>7. jobs' \in [{"enable", "disable"} -> JobStates]
  <2>1. jobs \in [{"enable", "disable"} -> JobStates]
    BY DEF TypeOK
  <2>2. {"absent", "running"} \subseteq JobStates
    BY DEF JobStates
  <2>3. \/ jobs' = jobs
        \/ \E j \in {"enable", "disable"} :
             jobs' = [jobs EXCEPT ![j] = "running"]
        \/ jobs' = [i \in {"enable", "disable"} |-> "absent"]
        \/ jobs' = [jobs EXCEPT !["enable"] = "absent"]
    BY LoggingJobs DEF EnsureRbdMirrorDebugLogging, mirror
  <2>. QED
    BY <2>1, <2>2, <2>3
<1>8. verbose \in BOOLEAN /\ logging \in BOOLEAN
  BY DEF TypeOK
<1>9. JobsTyped
  BY <1>6, <1>7, <1>8 DEF JobsTyped
<1>. QED
  BY <1>1, <1>4, <1>5, <1>9, LiveWriteKeeps DEF LiveEffect, cluster, rook

(* The tools come last, in every pass.                                     *)
LEMMA EnsureToolsDeploymentEffect ==
  ASSUME TypeOK, EnsureToolsDeployment
  PROVE  /\ LiveEffect /\ ~Idle
         /\ Head(pass.todo) = "Tools"
         /\ ~queued' => pass'.status = pass.status
         /\ Present("CephCluster")' => Present("CephCluster")
         /\ pass'.todo \in {Tail(pass.todo), <<>>}
         /\ UNCHANGED <<status, jobs, verbose, logging>>
<1> DEFINE tools == Elements(NewToolsDeployment(sc))
           stopped == [pass EXCEPT !.todo = <<>>]
<1>1. /\ ~Idle /\ (Disturb \/ Undisturbed)
      /\ Head(pass.todo) = "Tools"
      /\ UNCHANGED <<cluster, status, rook, consumers, mirror>>
      /\ NoWrite \/ Write(tools, {}) \/ Write({}, tools)
      /\ (\E again : GoOn(pass, again)) \/ (pass' = stopped /\ queued' = TRUE)
  BY DEF EnsureToolsDeployment, At, Uninstalling
<1>2. tools = {"ToolsDeployment"}
  BY DEF NewToolsDeployment, Elements
<1>3. tools \cap Lasting = {} /\ "CephCluster" \notin tools
  BY <1>2 DEF Lasting, KMSResources
<1> HIDE DEF tools
<1>4. LiveWrite
  BY <1>1, <1>3, NoWriteIsLiveWrite, LiveWriteOf, CreationIsLiveWrite
<1>5. written'["CephCluster"] = written["CephCluster"]
  BY <1>1, <1>3, CephFinalized DEF NoWrite, Write, WriteExcept
<1>6. /\ LiveStep /\ (~queued' => pass'.status = pass.status)
      /\ pass'.todo \in {Tail(pass.todo), <<>>}
  <2>1. CASE \E again : GoOn(pass, again)
    <3>1. LiveStep /\ (~queued' => pass'.status = pass.status)
      BY <1>1, <2>1, StepOfPass
    <3>2. pass \in PassRecord
      BY PassTyped
    <3>3. pass'.todo = Tail(pass.todo)
      BY <1>1, <2>1, <3>2, GoOnTyped
    <3>. QED
      BY <3>1, <3>3
  <2>2. CASE pass' = stopped /\ queued' = TRUE
    <3>1. pass \in PassRecord /\ <<>> \in Seq(Steps)
      BY PassTyped
    <3>2. stopped \in PassRecord /\ stopped.gen = pass.gen
            /\ stopped.deleting = pass.deleting /\ stopped.todo = <<>>
      BY <3>1 DEF PassRecord
    <3> HIDE DEF stopped
    <3>. QED
      BY <2>2, <3>2 DEF LiveStep, PassRecord
  <2>. QED
    BY <1>1, <2>1, <2>2
<1>7. Counted
  BY <1>1, DisturbanceCounted
<1>. QED
  BY <1>1, <1>4, <1>5, <1>6, <1>7, LiveWriteKeeps
     DEF LiveEffect, cluster, rook, mirror, Present

LEMMA UpdateStatusEffect ==
  ASSUME TypeOK, UpdateStatus
  PROVE  /\ StoreTyped /\ Counted
         /\ pass' \in PassRecord /\ pass'.todo = <<>>
         /\ queued' \in BOOLEAN
         /\ ~Idle /\ Head(pass.todo) = "StatusUpdate"
         /\ status' \in {status, pass.status}
         /\ ~queued' => ~queued /\ status' = pass.status
         /\ UNCHANGED <<written, ready, script, gen, life, ceph, seen,
                        consumers, jobs, verbose, logging>>
<1>1. /\ ~Idle /\ (Disturb \/ Undisturbed)
      /\ Head(pass.todo) = "StatusUpdate"
      /\ NoWrite
      /\ UNCHANGED <<cluster, rook, consumers, mirror>>
      /\ pass' = [pass EXCEPT !.todo = <<>>]
      /\ \/ status' = pass.status /\ UNCHANGED queued
         \/ status' = status /\ queued' = TRUE
  BY DEF UpdateStatus, At, Uninstalling
<1>2. pass \in PassRecord /\ <<>> \in Seq(Steps) /\ queued \in BOOLEAN
  BY PassTyped DEF TypeOK
<1>3. pass' \in PassRecord /\ pass'.todo = <<>>
  BY <1>1, <1>2 DEF PassRecord
<1>4. queued' \in BOOLEAN /\ (~queued' => ~queued /\ status' = pass.status)
  BY <1>1, <1>2
<1>5. written' = written /\ ready' = ready
  <2>1. written \in [Objects -> 0..Len(script)]
    BY DEF TypeOK
  <2>2. written' = [o \in Objects |-> written[o]]
    BY <1>1 DEF NoWrite, Write, WriteExcept
  <2>3. ready' = ready
    BY <1>1 DEF NoWrite, Write, WriteExcept
  <2>. QED
    BY <2>1, <2>2, <2>3
<1>. QED
  BY <1>1, <1>3, <1>4, <1>5, NothingWritten, DisturbanceCounted
     DEF cluster, rook, mirror

-----------------------------------------------------------------------------
(* Uninstall                                                               *)

(* A step deletes some objects, and its pass goes on or gives up.          *)
Deletion(set) ==
  /\ \E dels \in SUBSET set : Write({}, dels)
  /\ (\E again : GoOn(pass, again)) \/ GiveUp(pass)
  /\ Disturb \/ Undisturbed

DeletionEffect ==
  /\ StoreTyped /\ Counted
  /\ pass' \in PassRecord /\ queued' \in BOOLEAN
  /\ pass'.gen = pass.gen /\ pass'.deleting = pass.deleting
  /\ pass'.todo \in {Tail(pass.todo), LastSteps}
  /\ \E dels : Write({}, dels)
  /\ written'["CephCluster"] = written["CephCluster"]

LEMMA DeletionHas ==
  ASSUME TypeOK, ~Idle, NEW set, Deletion(set)
  PROVE  /\ DeletionEffect
         /\ \A o \in Objects \ set : written'[o] = written[o]
<1>1. PICK dels \in SUBSET set : Write({}, dels)
  BY DEF Deletion
<1>2. StoreTyped
  BY <1>1, WriteTyped DEF Write
<1>3. Counted
  BY DisturbanceCounted DEF Deletion
<1>4. pass \in PassRecord
  BY PassTyped
<1>5. PassStep(pass)
  BY <1>4, GoOnTyped, GiveUpTyped DEF Deletion
<1>6. written'["CephCluster"] = written["CephCluster"]
  BY <1>1, CephFinalized DEF Write, WriteExcept
<1>7. \A o \in Objects \ set : written'[o] = written[o]
  BY <1>1 DEF Write, WriteExcept
<1>. QED
  BY <1>1, <1>2, <1>3, <1>5, <1>6, <1>7 DEF DeletionEffect, PassStep

LEMMA PassesDeletes ==
  ASSUME Passes
  PROVE  Deletion({})
<1>1. \E again : GoOn(pass, again)
  BY DEF Passes
<1>2. Write({}, {}) /\ Undisturbed
  BY DEF Passes, NoWrite
<1>. QED
  BY <1>1, <1>2 DEF Deletion

LEMMA FailureDeletes ==
  ASSUME NEW set, NEW dels \in SUBSET set, Write({}, dels), GiveUp(pass),
         Disturb \/ Undisturbed
  PROVE  Deletion(set)
BY DEF Deletion

LEMMA ForgetsDeletes ==
  ASSUME NEW objects, Forgets(objects)
  PROVE  Deletion(Elements(objects))
<1>1. \E again : GoOn(pass, again)
  BY DEF Forgets
<1>2. /\ \E dels \in SUBSET Elements(objects) : Write({}, dels)
      /\ Disturb \/ Undisturbed
  BY DEF Forgets
<1>. QED
  BY <1>1, <1>2 DEF Deletion

(* The lists of objects that are waited for are short.                     *)
Short(objects) == objects \in Seq(Objects) /\ Len(objects) <= 3

LEMMA FirstOfThree ==
  ASSUME NEW set \in SUBSET (1..3), set # {}
  PROVE  First(set) \in set /\ \A j \in set : First(set) <= j
<1>1. \E i \in set : \A j \in set : i <= j
  <2>1. CASE 1 \in set
    BY <2>1
  <2>2. CASE 1 \notin set /\ 2 \in set
    <3>1. \A j \in set : j = 2 \/ j = 3
      BY <2>2
    <3>. QED
      BY <2>2, <3>1
  <2>3. CASE 1 \notin set /\ 2 \notin set
    <3>1. \A j \in set : j = 3
      BY <2>3
    <3>2. 3 \in set
      BY <3>1
    <3>. QED
      BY <3>1, <3>2
  <2>. QED
    BY <2>1, <2>2, <2>3
<1>. QED
  BY <1>1 DEF First

LEMMA PrefixOf ==
  ASSUME NEW objects \in Seq(Objects), NEW n \in 0..Len(objects)
  PROVE  Prefix(objects, n) \subseteq Elements(objects)
<1>1. Len(objects) \in Nat /\ DOMAIN objects = 1..Len(objects)
  OBVIOUS
<1>2. /\ DOMAIN SubSeq(objects, 1, n) = 1..n
      /\ \A i \in 1..n : SubSeq(objects, 1, n)[i] = objects[i]
  <2>1. n \in Nat /\ n <= Len(objects)
    BY <1>1
  <2>2. /\ Len(SubSeq(objects, 1, n)) = n
        /\ SubSeq(objects, 1, n) \in Seq(Objects)
        /\ \A i \in 1..n : SubSeq(objects, 1, n)[i] = objects[i]
    BY <1>1, <2>1
  <2>. QED
    BY <2>1, <2>2
<1>. QED
  BY <1>1, <1>2 DEF Prefix, Elements

LEMMA RemovesDeletes ==
  ASSUME NEW objects, Short(objects), Removes(objects)
  PROVE  /\ Deletion(Elements(objects))
         /\ Waits(objects) # {} => GiveUp(pass)
<1>0. objects \in Seq(Objects) /\ Len(objects) <= 3
  BY DEF Short
<1>1. objects \in Seq(Objects) /\ Len(objects) \in 0..3
        /\ DOMAIN objects = 1..Len(objects)
  <2>1. Len(objects) \in Nat /\ DOMAIN objects = 1..Len(objects)
    BY <1>0
  <2>. QED
    BY <1>0, <2>1
<1>2. UpToWait(objects) \subseteq Elements(objects)
  <2>1. CASE Waits(objects) = {}
    BY <2>1 DEF UpToWait
  <2>2. CASE Waits(objects) # {}
    <3> DEFINE k == First(Waits(objects))
    <3>1. Waits(objects) \in SUBSET (1..3) /\ Waits(objects) \subseteq DOMAIN objects
      BY <1>1 DEF Waits
    <3>2. k \in Waits(objects)
      BY <2>2, <3>1, FirstOfThree
    <3>3. k \in 0..Len(objects)
      BY <1>1, <3>1, <3>2
    <3>4. UpToWait(objects) = Prefix(objects, k)
      BY <2>2 DEF UpToWait
    <3> HIDE DEF k
    <3>. QED
      BY <1>1, <3>3, <3>4, PrefixOf
  <2>. QED
    BY <2>1, <2>2
<1>3. \E dels \in SUBSET UpToWait(objects) : Write({}, dels)
  BY DEF Removes
<1>4. Disturb \/ Undisturbed
  BY DEF Removes
<1>5. (\E again : GoOn(pass, again)) \/ GiveUp(pass)
  BY DEF Removes, Uninstalled
<1>6. Waits(objects) # {} => GiveUp(pass)
  BY DEF Removes, Uninstalled
<1>. QED
  BY <1>2, <1>3, <1>4, <1>5, <1>6 DEF Deletion

(* The objects an uninstall waits for, and the classes it forgets.         *)
LEMMA OneObject ==
  ASSUME NEW o \in Objects
  PROVE  Short(<<o>>) /\ Elements(<<o>>) = {o}
BY DEF Short, Elements

LEMMA NoObject == Short(<<>>) /\ Elements(<<>>) = {}
BY DEF Short, Elements

Others == Objects \ {"KMSConfigMap", "RBDClass"}

LEMMA UninstalledOthers ==
  /\ {"NooBaa", "StorageClient", "RGWRoute", "RGWSecureRoute",
      "CephObjectStoreUser", "CephObjectStore", "CephRBDMirror", "CephNFS",
      "NFSService", "NFSServiceMonitor", "CephFilesystem", "SubVolumeGroup",
      "CephBlockPool", "NonResilientPools", "NFSPool",
      "ClusterResourceQuota", "CephCluster", "ClusterClaims",
      "BackingClass"} \subseteq Others
  /\ {"CephFSSnapshotClass", "RBDSnapshotClass", "NFSSnapshotClass"}
       \subseteq Others
  /\ {"CephFSClass", "VirtualizationClass", "NonResilientClass",
      "NFSClass", "OBCClass", "EncryptedClass"} \subseteq Others
  /\ {"ProviderSecret", "ProviderService", "ProviderDeployment"}
       \subseteq Others
  /\ {"ExternalDetailsSecret", "ToolsDeployment"} \subseteq Others
BY DEF Others, Objects, RookObjects, StorageClasses, ExternalClasses,
       ExternalSecrets

LEMMA ElementsOfConcat ==
  ASSUME NEW S, NEW s \in Seq(S), NEW t \in Seq(S)
  PROVE  s \o t \in Seq(S) /\ Elements(s \o t) \subseteq S
<1>1. s \o t \in Seq(S)
  OBVIOUS
<1>. QED
  BY <1>1 DEF Elements

LEMMA ShortLists ==
  ASSUME NEW s
  PROVE  /\ Short(NewNooBaa(s)) /\ Short(NewCephRGWRoutes(s))
         /\ Short(NewCephObjectStoreUserInstances(s))
         /\ Short(NewCephObjectStoreInstances(s))
         /\ Short(NewCephNFSInstances(s))
         /\ Short(NewNFSServices(s) \o NewNFSServiceMonitors(s))
         /\ Short(NewCephFilesystemInstances(s))
         /\ Short(DefaultSubvolumeGroup(s) \o NewCephFilesystemInstances(s))
         /\ Short(NewCephBlockPoolInstances(s))
         /\ Short(NewStorageQuotas(s)) /\ Short(NewCephCluster(s))
         /\ Short(NewClusterClaims(s)) /\ Short(<<"BackingClass">>)
<1>0. Others \subseteq Objects
  BY DEF Others
<1>1. Short(NewNooBaa(s)) /\ Short(NewCephObjectStoreUserInstances(s))
        /\ Short(NewCephObjectStoreInstances(s))
        /\ Short(NewCephNFSInstances(s)) /\ Short(NewCephCluster(s))
        /\ Short(<<"BackingClass">>) /\ Short(NewCephFilesystemInstances(s))
  BY <1>0, UninstalledOthers, OneObject
     DEF NewNooBaa, NewCephObjectStoreUserInstances,
         NewCephObjectStoreInstances, NewCephNFSInstances, NewCephCluster,
         NewCephFilesystemInstances
<1>2. Short(NewStorageQuotas(s)) /\ Short(NewClusterClaims(s))
  BY <1>0, UninstalledOthers, OneObject, NoObject
     DEF NewStorageQuotas, NewClusterClaims, Optional
<1>3. Short(NewCephRGWRoutes(s))
        /\ Short(NewNFSServices(s) \o NewNFSServiceMonitors(s))
  BY <1>0, UninstalledOthers
     DEF Short, NewCephRGWRoutes, NewNFSServices, NewNFSServiceMonitors
<1>4. Short(DefaultSubvolumeGroup(s) \o NewCephFilesystemInstances(s))
  BY <1>0, UninstalledOthers
     DEF Short, DefaultSubvolumeGroup, NewCephFilesystemInstances, Optional
<1>5. Short(NewCephBlockPoolInstances(s))
  BY <1>0, UninstalledOthers DEF Short, NewCephBlockPoolInstances, Optional
<1>. QED
  BY <1>1, <1>2, <1>3, <1>4, <1>5

LEMMA OtherLists ==
  ASSUME NEW s
  PROVE  /\ Elements(NewNooBaa(s)) \subseteq Others
         /\ Elements(NewCephRGWRoutes(s)) \subseteq Others
         /\ Elements(NewCephObjectStoreUserInstances(s)) \subseteq Others
         /\ Elements(NewCephObjectStoreInstances(s)) \subseteq Others
         /\ Elements(NewCephNFSInstances(s)) \subseteq Others
         /\ Elements(NewNFSServices(s) \o NewNFSServiceMonitors(s))
              \subseteq Others
         /\ Elements(NewCephFilesystemInstances(s)) \subseteq Others
         /\ Elements(DefaultSubvolumeGroup(s)
                       \o NewCephFilesystemInstances(s)) \subseteq Others
         /\ Elements(NewCephBlockPoolInstances(s)) \subseteq Others
         /\ Elements(NewStorageQuotas(s)) \subseteq Others
         /\ Elements(NewCephCluster(s)) \subseteq Others
         /\ Elements(NewClusterClaims(s)) \subseteq Others
         /\ Elements(<<"BackingClass">>) \subseteq Others
         /\ Elements(NewStorageClient(s)) \subseteq Others
         /\ Elements(NewCephRbdMirrorInstances(s)) \subseteq Others
<1>1. /\ NewNooBaa(s) \in Seq(Others)
      /\ NewCephObjectStoreUserInstances(s) \in Seq(Others)
      /\ NewCephObjectStoreInstances(s) \in Seq(Others)
      /\ NewCephNFSInstances(s) \in Seq(Others)
      /\ NewCephCluster(s) \in Seq(Others)
      /\ <<"BackingClass">> \in Seq(Others)
      /\ NewCephFilesystemInstances(s) \in Seq(Others)
      /\ NewCephRGWRoutes(s) \in Seq(Others)
  BY UninstalledOthers
     DEF NewNooBaa, NewCephObjectStoreUserInstances,
         NewCephObjectStoreInstances, NewCephNFSInstances, NewCephCluster,
         NewCephFilesystemInstances, NewCephRGWRoutes
<1>2. /\ NewNFSServices(s) \in Seq(Others)
      /\ NewNFSServiceMonitors(s) \in Seq(Others)
      /\ NewStorageClient(s) \in Seq(Others)
      /\ NewCephRbdMirrorInstances(s) \in Seq(Others)
      /\ DefaultSubvolumeGroup(s) \in Seq(Others)
      /\ NewStorageQuotas(s) \in Seq(Others)
      /\ NewClusterClaims(s) \in Seq(Others)
  BY UninstalledOthers
     DEF NewNFSServices, NewNFSServiceMonitors, NewStorageClient,
         NewCephRbdMirrorInstances, DefaultSubvolumeGroup, NewStorageQuotas,
         NewClusterClaims, Optional
<1>3. NewCephBlockPoolInstances(s) \in Seq(Others)
  BY UninstalledOthers DEF NewCephBlockPoolInstances, Optional
<1>4. ASSUME NEW t \in Seq(Others)
      PROVE  Elements(t) \subseteq Others
  BY DEF Elements
<1>5. /\ NewNFSServices(s) \o NewNFSServiceMonitors(s) \in Seq(Others)
      /\ DefaultSubvolumeGroup(s) \o NewCephFilesystemInstances(s)
           \in Seq(Others)
  BY <1>1, <1>2, ElementsOfConcat
<1>. QED
  BY <1>1, <1>2, <1>3, <1>4, <1>5

LEMMA ClassLists ==
  ASSUME NEW s
  PROVE  /\ Elements(NewStorageClassConfigurations(s))
              \subseteq Others \cup {"RBDClass"}
         /\ Elements(NewSnapshotClassConfigurations(s)) \subseteq Others
<1> DEFINE All == Others \cup {"RBDClass"}
<1>0. {"CephFSClass", "RBDClass", "VirtualizationClass", "NonResilientClass",
       "NFSClass", "OBCClass", "EncryptedClass"} \subseteq All
  BY UninstalledOthers
<1> HIDE DEF All
<1> DEFINE c1 == <<"CephFSClass", "RBDClass">>
           c2 == Optional(~Has(s, "consumers") /\ "kubevirt" \in Platform,
                          <<"VirtualizationClass">>)
           c3 == Optional(Has(s, "nonresilient"), <<"NonResilientClass">>)
           c4 == Optional(Has(s, "nfs"), <<"NFSClass">>)
           c5 == Optional(s.mode = "external" \/ ~SkipObjectStore,
                          <<"OBCClass">>)
           c6 == Optional(Has(s, "encryptedclass") /\ Has(s, "kms"),
                          <<"EncryptedClass">>)
           d1 == <<"CephFSSnapshotClass", "RBDSnapshotClass">>
           d2 == Optional(Has(s, "nfs"), <<"NFSSnapshotClass">>)
<1>1. c1 \in Seq(All) /\ c2 \in Seq(All) /\ c3 \in Seq(All)
        /\ c4 \in Seq(All)
  BY <1>0 DEF Optional
<1>2. c5 \in Seq(All) /\ c6 \in Seq(All)
        /\ d1 \in Seq(Others) /\ d2 \in Seq(Others)
  BY <1>0, UninstalledOthers DEF Optional
<1>3. NewStorageClassConfigurations(s) = c1 \o c2 \o c3 \o c4 \o c5 \o c6
        /\ NewSnapshotClassConfigurations(s) = d1 \o d2
  BY DEF NewStorageClassConfigurations, NewSnapshotClassConfigurations
<1> HIDE DEF c1, c2, c3, c4, c5, c6, d1, d2
<1>4. c1 \o c2 \in Seq(All)
  BY <1>1, ElementsOfConcat
<1>5. c1 \o c2 \o c3 \in Seq(All)
  BY <1>1, <1>4, ElementsOfConcat
<1>6. c1 \o c2 \o c3 \o c4 \in Seq(All)
  BY <1>1, <1>5, ElementsOfConcat
<1>7. c1 \o c2 \o c3 \o c4 \o c5 \in Seq(All)
  BY <1>2, <1>6, ElementsOfConcat
<1>8. Elements(NewStorageClassConfigurations(s)) \subseteq All
  BY <1>2, <1>3, <1>7, ElementsOfConcat
<1>. QED
  BY <1>2, <1>3, <1>8, ElementsOfConcat DEF All

(* What an uninstall step deletes.  Only the step of the keys deletes them, *)
(* and only the step of the storage classes the one of RBD.                *)
LEMMA PlainDeletions ==
  ASSUME \/ MarkCephCluster \/ SetNoobaaUninstallMode \/ DeleteNoobaaSystem
         \/ DeleteStorageClient \/ DeleteProviderServer
         \/ DeleteCephRGWRoutes \/ DeleteCephObjectStoreUsers
         \/ DeleteCephObjectStores \/ DeleteCephRbdMirrors
  PROVE  \E set \in SUBSET Others : Deletion(set)
<1>0. {} \in SUBSET Others /\ {"CephCluster"} \in SUBSET Others
  BY UninstalledOthers
<1>1. CASE MarkCephCluster
  <2>1. \/ Write({}, {"CephCluster"})
            /\ (\E again : GoOn(pass, again)) /\ Undisturbed
        \/ Write({}, {}) /\ GiveUp(pass) /\ Disturb
    BY <1>1 DEF MarkCephCluster, NoWrite
  <2>2. Deletion({"CephCluster"})
    BY <2>1 DEF Deletion
  <2>. QED
    BY <1>0, <2>2
<1>2. CASE SetNoobaaUninstallMode
  <2>1. Passes \/ (Write({}, {}) /\ GiveUp(pass) /\ Disturb)
    BY <1>2 DEF SetNoobaaUninstallMode, NoWrite
  <2>2. Deletion({})
    BY <2>1, PassesDeletes DEF Deletion
  <2>. QED
    BY <1>0, <2>2
<1>3. CASE DeleteNoobaaSystem
  BY <1>0, <1>3, PassesDeletes, RemovesDeletes, ShortLists, OtherLists
     DEF DeleteNoobaaSystem
<1>4. CASE DeleteStorageClient
  <2>1. \/ Write({}, Elements(NewStorageClient(sc)))
            /\ (\E again : GoOn(pass, again)) /\ Undisturbed
        \/ Write({}, {}) /\ GiveUp(pass) /\ Disturb
    BY <1>4 DEF DeleteStorageClient, NoWrite
  <2>2. Deletion(Elements(NewStorageClient(sc)))
    BY <2>1 DEF Deletion
  <2>. QED
    BY <2>2, OtherLists
<1>5. CASE DeleteProviderServer
  <2> DEFINE provider == Elements(ProviderObjects(sc))
  <2>1. PICK out \in {"ok", "error"} :
          RemoveProvider(sc, out) /\ Uninstalled(out, FALSE)
    BY <1>5 DEF DeleteProviderServer
  <2>2. (\E again : GoOn(pass, again)) \/ GiveUp(pass)
    BY <2>1 DEF Uninstalled
  <2>3. \E dels \in SUBSET provider : Write({}, dels)
    BY <2>1 DEF RemoveProvider, NoWrite
  <2>4. Disturb \/ Undisturbed
    BY <2>1 DEF RemoveProvider
  <2>5. provider \in SUBSET Others
    BY ProviderObjectsAre, UninstalledOthers
  <2> HIDE DEF provider
  <2>. QED
    BY <2>2, <2>3, <2>4, <2>5 DEF Deletion
<1>6. CASE DeleteCephRGWRoutes
  BY <1>0, <1>6, PassesDeletes, RemovesDeletes, ShortLists, OtherLists
     DEF DeleteCephRGWRoutes
<1>7. CASE DeleteCephObjectStoreUsers \/ DeleteCephObjectStores
  BY <1>7, RemovesDeletes, ShortLists, OtherLists
     DEF DeleteCephObjectStoreUsers, DeleteCephObjectStores
<1>8. CASE DeleteCephRbdMirrors
  <2> DEFINE mirrors == Elements(NewCephRbdMirrorInstances(sc))
  <2>1. PICK out \in {"ok", "error"} :
          DeleteMirror(out) /\ Uninstalled(out, FALSE)
    BY <1>8 DEF DeleteCephRbdMirrors
  <2>2. (\E again : GoOn(pass, again)) \/ GiveUp(pass)
    BY <2>1 DEF Uninstalled
  <2>3. \E dels \in SUBSET mirrors : Write({}, dels)
    BY <2>1 DEF DeleteMirror, NoWrite
  <2>4. Disturb \/ Undisturbed
    BY <2>1 DEF DeleteMirror
  <2>5. mirrors \in SUBSET Others
    BY OtherLists
  <2> HIDE DEF mirrors
  <2>. QED
    BY <2>2, <2>3, <2>4, <2>5 DEF Deletion
<1>. QED
  BY <1>1, <1>2, <1>3, <1>4, <1>5, <1>6, <1>7, <1>8

LEMMA OtherDeletions ==
  ASSUME \/ DeleteCephNFS \/ DeleteCephNFSService \/ DeleteCephFilesystems
         \/ DeleteCephBlockPools \/ DeleteSnapshotClass \/ DeleteStorageQuota
         \/ DeleteCephCluster \/ DeleteClusterClaim
         \/ DeleteBackingStorageClasses \/ DeleteNodeTaint
         \/ DeleteExternalSecret
  PROVE  \E set \in SUBSET Others : Deletion(set)
<1>0. {} \in SUBSET Others /\ ExternalSecrets \in SUBSET Others
  BY UninstalledOthers DEF ExternalSecrets
<1>1. CASE DeleteCephNFS \/ DeleteCephNFSService
  BY <1>1, RemovesDeletes, ShortLists, OtherLists
     DEF DeleteCephNFS, DeleteCephNFSService
<1>2. CASE DeleteCephFilesystems
  BY <1>2, RemovesDeletes, ShortLists, OtherLists DEF DeleteCephFilesystems
<1>3. CASE DeleteCephBlockPools
  BY <1>3, RemovesDeletes, ShortLists, OtherLists DEF DeleteCephBlockPools
<1>4. CASE DeleteSnapshotClass
  BY <1>4, ForgetsDeletes, ClassLists DEF DeleteSnapshotClass
<1>5. CASE DeleteStorageQuota
  <2>1. \/ Removes(NewStorageQuotas(sc))
        \/ Write({}, {}) /\ (\E again : GoOn(pass, again)) /\ Disturb
    BY <1>5 DEF DeleteStorageQuota, NoWrite
  <2>2. Deletion(Elements(NewStorageQuotas(sc))) \/ Deletion({})
    BY <2>1, RemovesDeletes, ShortLists DEF Deletion
  <2>. QED
    BY <1>0, <2>2, OtherLists
<1>6. CASE DeleteCephCluster
  BY <1>6, RemovesDeletes, ShortLists, OtherLists DEF DeleteCephCluster
<1>7. CASE DeleteClusterClaim \/ DeleteBackingStorageClasses
  BY <1>7, RemovesDeletes, ShortLists, OtherLists
     DEF DeleteClusterClaim, DeleteBackingStorageClasses
<1>8. CASE DeleteNodeTaint
  BY <1>0, <1>8, PassesDeletes DEF DeleteNodeTaint
<1>9. CASE DeleteExternalSecret
  <2>1. \/ Passes
        \/ Write({}, ExternalSecrets)
             /\ (\E again : GoOn(pass, again)) /\ Undisturbed
        \/ Write({}, {}) /\ GiveUp(pass) /\ Disturb
    BY <1>9 DEF DeleteExternalSecret, NoWrite
  <2>2. Deletion({}) \/ Deletion(ExternalSecrets)
    BY <2>1, PassesDeletes DEF Deletion
  <2>. QED
    BY <1>0, <2>2
<1>. QED
  BY <1>1, <1>2, <1>3, <1>4, <1>5, <1>6, <1>7, <1>8, <1>9

LEMMA DeleteKMSResourcesDeletes ==
  ASSUME DeleteKMSResources
  PROVE  Deletion(KMSResources)
<1>1. \/ Passes
      \/ Write({}, KMSResources)
           /\ (\E again : GoOn(pass, again)) /\ Undisturbed
      \/ /\ \E some \in SUBSET KMSResources : Write({}, some)
         /\ GiveUp(pass) /\ Disturb
  BY DEF DeleteKMSResources
<1>2. CASE Passes
  BY <1>2, PassesDeletes DEF Deletion
<1>. QED
  BY <1>1, <1>2 DEF Deletion

LEMMA RemoveFinalizerDeletes ==
  ASSUME RemoveFinalizer
  PROVE  Deletion({}) /\ life' \in {life, "gone"}
<1>1. /\ Write({}, {}) /\ (Disturb \/ Undisturbed)
      /\ (\E again : GoOn(pass, again)) \/ GiveUp(pass)
  BY DEF RemoveFinalizer, NoWrite
<1>. QED
  BY <1>1 DEF RemoveFinalizer, Deletion

(* A step of an uninstall, as the invariants below see it.                 *)
UninstallEffect ==
  /\ DeletionEffect
  /\ Head(pass.todo) # "KMSResources" =>
       written'["KMSConfigMap"] = written["KMSConfigMap"]
  /\ Head(pass.todo) # "StorageClass" =>
       written'["RBDClass"] = written["RBDClass"]
  /\ Head(pass.todo) = "CephCluster" =>
       pass'.todo = LastSteps \/ ~Present("CephCluster")
  /\ life' \in {life, "gone"}
  /\ UNCHANGED <<script, gen, status, ceph, seen, consumers,
                 jobs, verbose, logging>>

(* Rook's finalizer keeps the CephCluster: its step waits while it is      *)
(* there.                                                                  *)
LEMMA CephClusterAwaited ==
  ASSUME TypeOK, DeleteCephCluster
  PROVE  pass'.todo = LastSteps \/ ~Present("CephCluster")
<1>1. Removes(<<"CephCluster">>) /\ Short(<<"CephCluster">>) /\ ~Idle
  BY ShortLists DEF DeleteCephCluster, NewCephCluster, Uninstalling
<1>2. Present("CephCluster") => 1 \in Waits(<<"CephCluster">>)
  BY CephFinalized DEF Waits
<1>3. pass \in PassRecord
  BY PassTyped
<1>4. Present("CephCluster") => GiveUp(pass)
  BY <1>1, <1>2, RemovesDeletes
<1>. QED
  BY <1>1, <1>3, <1>4, GiveUpTyped

LEMMA UninstallHas ==
  ASSUME TypeOK, Uninstall
  PROVE  UninstallEffect /\ ~Idle /\ pass.deleting
<1> DEFINE first ==
             \/ MarkCephCluster \/ SetNoobaaUninstallMode
             \/ DeleteNoobaaSystem \/ DeleteStorageClient
             \/ DeleteProviderServer \/ DeleteCephRGWRoutes
             \/ DeleteCephObjectStoreUsers \/ DeleteCephObjectStores
             \/ DeleteCephRbdMirrors
           second ==
             \/ DeleteCephNFS \/ DeleteCephNFSService
             \/ DeleteCephFilesystems \/ DeleteCephBlockPools
             \/ DeleteSnapshotClass \/ DeleteStorageQuota
             \/ DeleteCephCluster \/ DeleteClusterClaim
             \/ DeleteBackingStorageClasses \/ DeleteNodeTaint
             \/ DeleteExternalSecret
<1>0. /\ {"KMSConfigMap", "RBDClass"} \subseteq Objects
      /\ "RBDClass" \notin KMSResources
      /\ {"KMSConfigMap", "RBDClass"} \cap Others = {}
      /\ "KMSConfigMap" \notin Others \cup {"RBDClass"}
  BY DEF Objects, KMSResources, StorageClasses, ExternalClasses, Others
<1>1. CASE first
  <2>1. /\ ~Idle /\ pass.deleting
        /\ Head(pass.todo) \notin {"KMSResources", "CephCluster"}
        /\ UNCHANGED <<cluster, status, rook, consumers, mirror>>
    BY <1>1
       DEF MarkCephCluster, SetNoobaaUninstallMode, DeleteNoobaaSystem,
           DeleteStorageClient, DeleteProviderServer, DeleteCephRGWRoutes,
           DeleteCephObjectStoreUsers, DeleteCephObjectStores,
           DeleteCephRbdMirrors, Uninstalling
  <2>2. PICK set \in SUBSET Others : Deletion(set)
    BY <1>1, PlainDeletions
  <2>3. /\ DeletionEffect
        /\ written'["KMSConfigMap"] = written["KMSConfigMap"]
        /\ written'["RBDClass"] = written["RBDClass"]
    BY <1>0, <2>1, <2>2, DeletionHas
  <2>. QED
    BY <2>1, <2>3 DEF UninstallEffect, cluster, rook, mirror
<1>2. CASE second
  <2>1. /\ ~Idle /\ pass.deleting
        /\ Head(pass.todo) # "KMSResources"
        /\ Head(pass.todo) = "CephCluster" => DeleteCephCluster
        /\ UNCHANGED <<cluster, status, rook, consumers, mirror>>
    BY <1>2
       DEF DeleteCephNFS, DeleteCephNFSService, DeleteCephFilesystems,
           DeleteCephBlockPools, DeleteSnapshotClass, DeleteStorageQuota,
           DeleteCephCluster, DeleteClusterClaim,
           DeleteBackingStorageClasses, DeleteNodeTaint,
           DeleteExternalSecret, Uninstalling
  <2>2. PICK set \in SUBSET Others : Deletion(set)
    BY <1>2, OtherDeletions
  <2>3. /\ DeletionEffect
        /\ written'["KMSConfigMap"] = written["KMSConfigMap"]
        /\ written'["RBDClass"] = written["RBDClass"]
    BY <1>0, <2>1, <2>2, DeletionHas
  <2>. QED
    BY <2>1, <2>3, CephClusterAwaited DEF UninstallEffect, cluster, rook, mirror
<1>3. CASE DeleteStorageClass
  <2>1. /\ ~Idle /\ pass.deleting /\ Head(pass.todo) = "StorageClass"
        /\ UNCHANGED <<cluster, status, rook, consumers, mirror>>
    BY <1>3 DEF DeleteStorageClass, Uninstalling
  <2>2. PICK set \in SUBSET (Others \cup {"RBDClass"}) : Deletion(set)
    BY <1>3, ForgetsDeletes, ClassLists DEF DeleteStorageClass
  <2>3. DeletionEffect /\ written'["KMSConfigMap"] = written["KMSConfigMap"]
    BY <1>0, <2>1, <2>2, DeletionHas
  <2>. QED
    BY <2>1, <2>3 DEF UninstallEffect, cluster, rook, mirror
<1>4. CASE DeleteKMSResources
  <2>1. /\ ~Idle /\ pass.deleting /\ Head(pass.todo) = "KMSResources"
        /\ UNCHANGED <<cluster, status, rook, consumers, mirror>>
    BY <1>4 DEF DeleteKMSResources, Uninstalling
  <2>2. DeletionEffect /\ written'["RBDClass"] = written["RBDClass"]
    BY <1>0, <1>4, <2>1, DeleteKMSResourcesDeletes, DeletionHas
  <2>. QED
    BY <2>1, <2>2 DEF UninstallEffect, cluster, rook, mirror
<1>5. CASE RemoveFinalizer
  <2>1. /\ ~Idle /\ pass.deleting /\ Head(pass.todo) = "Finalizer"
        /\ UNCHANGED <<script, gen, status, rook, consumers, mirror>>
    BY <1>5 DEF RemoveFinalizer, Uninstalling
  <2>2. /\ DeletionEffect /\ life' \in {life, "gone"}
        /\ written'["KMSConfigMap"] = written["KMSConfigMap"]
        /\ written'["RBDClass"] = written["RBDClass"]
    BY <1>0, <1>5, <2>1, RemoveFinalizerDeletes, DeletionHas
  <2>. QED
    BY <2>1, <2>2 DEF UninstallEffect, rook, mirror
<1>. QED
  BY <1>1, <1>2, <1>3, <1>4, <1>5 DEF Uninstall

-----------------------------------------------------------------------------
(* Reconcile, crash and the environment                                    *)

LEMMA StartStatusTyped ==
  ASSUME TypeOK
  PROVE  StartStatus \in Status
<1>1. status \in Status
  BY DEF TypeOK
<1>. QED
  BY <1>1 DEF StartStatus, Status, Phases

LEMMA StepsAre ==
  /\ UninstallOrder \in Seq(Steps)
  /\ Completion \in Seq(Steps)
  /\ {"NoobaaSystem", "ExternalResources", "StorageQuota", "CephCluster",
      "SnapshotClass", "ClusterClaim"} \subseteq Steps
<1>1. /\ \A i \in 1..25 : UninstallOrder[i] \in Elements(UninstallOrder)
      /\ Len(UninstallOrder) = 25 /\ DOMAIN UninstallOrder = 1..25
  BY DEF UninstallOrder, Elements
<1>2. /\ \A i \in 1..6 : Completion[i] \in Elements(Completion)
      /\ Len(Completion) = 6 /\ DOMAIN Completion = 1..6
  BY DEF Completion, Elements
<1>3. UninstallOrder \in Seq(Elements(UninstallOrder))
  BY <1>1 DEF UninstallOrder
<1>4. Completion \in Seq(Elements(Completion))
  BY <1>2 DEF Completion
<1>5. Elements(UninstallOrder) \subseteq Steps
        /\ Elements(Completion) \subseteq Steps
  BY DEF Steps
<1>6. {"NoobaaSystem", "StorageQuota", "CephCluster", "SnapshotClass",
       "ClusterClaim"} \subseteq Elements(UninstallOrder)
  <2>1. /\ UninstallOrder[3] = "NoobaaSystem"
        /\ UninstallOrder[15] = "StorageQuota"
        /\ UninstallOrder[17] = "CephCluster"
        /\ UninstallOrder[14] = "SnapshotClass"
        /\ UninstallOrder[18] = "ClusterClaim"
    BY DEF UninstallOrder
  <2>. QED
    BY <1>1, <2>1
<1>7. "ExternalResources" \in Steps
  BY DEF Steps
<1>. QED
  BY <1>3, <1>4, <1>5, <1>6, <1>7

LEMMA StepNames ==
  {"ProviderServer", "StorageClient", "BackingStorageClasses",
   "TopologyMap", "CephConfig", "CephBlockPools", "CephFilesystems",
   "CephNFS", "CephNFSService", "CephObjectStores", "CephObjectStoreUsers",
   "CephRGWRoutes", "StorageClass", "JobTemplates", "CephRbdMirrors"}
    \subseteq Steps
<1>1. \A i \in 1..25 : UninstallOrder[i] \in Steps
  <2>1. Len(UninstallOrder) = 25
    BY DEF UninstallOrder
  <2>2. \A i \in 1..Len(UninstallOrder) : UninstallOrder[i] \in Steps
    BY StepsAre, ElementOfSeq
  <2>. QED
    BY <2>1, <2>2
<1>2. /\ UninstallOrder[4] = "StorageClient"
      /\ UninstallOrder[5] = "ProviderServer"
      /\ UninstallOrder[6] = "CephRGWRoutes"
      /\ UninstallOrder[7] = "CephObjectStoreUsers"
      /\ UninstallOrder[8] = "CephObjectStores"
      /\ UninstallOrder[9] = "CephRbdMirrors"
      /\ UninstallOrder[10] = "CephNFS"
      /\ UninstallOrder[11] = "CephNFSService"
  BY DEF UninstallOrder
<1>3. /\ UninstallOrder[12] = "CephFilesystems"
      /\ UninstallOrder[13] = "CephBlockPools"
      /\ UninstallOrder[16] = "StorageClass"
      /\ UninstallOrder[19] = "BackingStorageClasses"
  BY DEF UninstallOrder
<1>4. {"TopologyMap", "CephConfig", "JobTemplates"} \subseteq Steps
  BY DEF Steps
<1>5. {"StorageClient", "ProviderServer", "CephRGWRoutes",
       "CephObjectStoreUsers", "CephObjectStores", "CephRbdMirrors",
       "CephNFS", "CephNFSService"} \subseteq Steps
  BY <1>1, <1>2
<1>6. {"CephFilesystems", "CephBlockPools", "StorageClass",
       "BackingStorageClasses"} \subseteq Steps
  BY <1>1, <1>3
<1>. QED
  BY <1>4, <1>5, <1>6

LEMMA ManagersTyped ==
  ASSUME NEW s
  PROVE  Managers(s) \in Seq(Steps)
<1>1. CASE s.mode = "standalone"
  BY <1>1, StepsAre DEF Managers
<1>2. CASE s.mode = "external"
  BY <1>2, StepsAre DEF Managers
<1>3. CASE s.mode \notin {"standalone", "external"}
  BY <1>3, StepsAre, StepNames DEF Managers
<1>. QED
  BY <1>1, <1>2, <1>3

LEMMA ReconcileEffect ==
  ASSUME TypeOK, Reconcile
  PROVE  /\ pass' \in PassRecord /\ queued' = FALSE /\ Idle /\ queued
         /\ pass'.gen = gen /\ pass'.deleting = (life = "deleting")
         /\ pass'.todo = IF life = "deleting" THEN UninstallOrder
                         ELSE Managers(script[gen]) \o Completion
         /\ pass'.negative = {}
<1> DEFINE todo == IF life = "deleting" THEN UninstallOrder
                   ELSE Managers(script[gen]) \o Completion
           deleting == life = "deleting"
           start == StartStatus
<1>1. pass' = [todo |-> todo, gen |-> gen, deleting |-> deleting,
               status |-> start, expanding |-> FALSE, negative |-> {}]
  BY DEF Reconcile
<1>2. todo \in Seq(Steps)
  BY StepsAre, ManagersTyped
<1>3. start \in Status /\ gen \in DOMAIN script
  BY StartStatusTyped DEF TypeOK
<1>4. PICK d \in BOOLEAN : d = deleting
  OBVIOUS
<1> HIDE DEF todo, deleting, start
<1>5. pass' = [todo |-> todo, gen |-> gen, deleting |-> d, status |-> start,
               expanding |-> FALSE, negative |-> {}]
  BY <1>1, <1>4
<1>6. pass' \in PassRecord
  BY <1>2, <1>3, <1>5 DEF PassRecord
<1>. QED
  BY <1>4, <1>5, <1>6 DEF todo, deleting, Reconcile

LEMMA NoPassTyped ==
  ASSUME TypeOK
  PROVE  NoPass \in PassRecord /\ NoPass.todo = <<>>
<1>1. NewStatus \in Status
  BY DEF NewStatus, Status, Phases, Profiles
<1>2. 1 \in DOMAIN script
  BY ScriptTyped DEF TypeOK
<1>3. <<>> \in Seq(Steps)
  OBVIOUS
<1> HIDE DEF NewStatus
<1>. QED
  BY <1>1, <1>2, <1>3 DEF NoPass, PassRecord

LEMMA InitTyped ==
  ASSUME Init
  PROVE  TypeOK
<1>1. /\ script \in Scripts /\ Len(script) \in Nat \ {0}
      /\ 1 \in DOMAIN script /\ DOMAIN script = 1..Len(script)
      /\ MaxDisturbances[script] \in Nat
  BY ScriptTyped DEF Init
<1>2. dying \subseteq Finalized
  BY PipelineAssumption DEF Init
<1>3. written \in [Objects -> 0..Len(script)]
  <2> DEFINE there == dying \cup Provided(script[1])
  <2>1. written = [o \in Objects |-> IF o \in there THEN 1 ELSE 0]
    BY DEF Init
  <2> HIDE DEF there
  <2>. QED
    BY <1>1, <2>1
<1>4. NewStatus \in Status
  BY DEF NewStatus, Status, Phases, Profiles
<1>5. pass \in PassRecord
  <2>1. pass = NoPass
    BY DEF Init
  <2>2. <<>> \in Seq(Steps)
    OBVIOUS
  <2> HIDE DEF NewStatus
  <2>. QED
    BY <1>1, <1>4, <2>1, <2>2 DEF NoPass, PassRecord
<1>6. jobs \in [{"enable", "disable"} -> JobStates]
  BY DEF Init, JobStates
<1>7. /\ gen = 1 /\ life = "live" /\ status = NewStatus /\ ready = {}
      /\ ceph = "" /\ seen = 0 /\ consumers = FALSE /\ verbose = FALSE
      /\ logging = FALSE /\ queued = TRUE /\ passedOver = {}
      /\ disturbances = 0
  BY DEF Init
<1> HIDE DEF NewStatus
<1>8. ceph \in CephStates /\ seen \in 0..Len(script)
        /\ disturbances \in 0..MaxDisturbances[script]
  <2>1. ceph \in CephStates
    BY <1>7 DEF CephStates
  <2>3. ASSUME NEW n \in Nat
        PROVE  0 \in 0..n
    OBVIOUS
  <2>a. seen = 0 /\ Len(script) \in Nat
    BY <1>1, <1>7
  <2>2. seen \in 0..Len(script)
    BY <2>a, <2>3
  <2>4. disturbances \in 0..MaxDisturbances[script]
    BY <1>1, <1>7, <2>3
  <2>. QED
    BY <2>1, <2>2, <2>4
<1>9. /\ gen \in DOMAIN script /\ life \in {"live", "deleting", "gone"}
      /\ status \in Status /\ ready \subseteq Objects
      /\ passedOver \subseteq Objects
  BY <1>1, <1>4, <1>7
<1>10. /\ consumers \in BOOLEAN /\ verbose \in BOOLEAN
       /\ logging \in BOOLEAN /\ queued \in BOOLEAN
  BY <1>7
<1>. QED
  BY <1>1, <1>2, <1>3, <1>5, <1>6, <1>8, <1>9, <1>10, Zenon
     DEF TypeOK, PassRecord

-----------------------------------------------------------------------------
(* The types are an invariant                                              *)

LEMMA Typed ==
  ASSUME TypeOK, script' = script, gen' \in DOMAIN script,
         life' \in {"live", "deleting", "gone"}, status' \in Status,
         StoreTyped, ceph' \in CephStates, seen' \in 0..Len(script),
         consumers' \in BOOLEAN, JobsTyped, pass' \in PassRecord,
         queued' \in BOOLEAN, Counted
  PROVE  TypeOK'
<1>1. script' \in Scripts
  BY DEF TypeOK
<1>2. /\ written' \in [Objects -> 0..Len(script')]
      /\ dying' \subseteq Finalized /\ ready' \subseteq Objects
      /\ passedOver' \subseteq Objects
  BY DEF StoreTyped
<1>3. /\ jobs' \in [{"enable", "disable"} -> JobStates]
      /\ verbose' \in BOOLEAN /\ logging' \in BOOLEAN
  BY DEF JobsTyped
<1>4. pass' \in [todo: Seq(Steps), gen: DOMAIN script', deleting: BOOLEAN,
                 status: Status, expanding: BOOLEAN,
                 negative: SUBSET Negatives]
  BY DEF PassRecord
<1>5. disturbances' \in 0..MaxDisturbances[script']
  BY DEF Counted
<1>. QED
  BY <1>1, <1>2, <1>3, <1>4, <1>5 DEF TypeOK

(* What a step leaves alone keeps its type.                                *)
LEMMA Unmoved ==
  ASSUME TypeOK
  PROVE  /\ gen \in DOMAIN script /\ life \in {"live", "deleting", "gone"}
         /\ status \in Status /\ ceph \in CephStates
         /\ seen \in 0..Len(script) /\ consumers \in BOOLEAN
         /\ queued \in BOOLEAN /\ pass \in PassRecord
         /\ UNCHANGED store => StoreTyped
         /\ UNCHANGED <<jobs, verbose, logging>> => JobsTyped
         /\ Undisturbed => Counted
<1>1. /\ gen \in DOMAIN script /\ life \in {"live", "deleting", "gone"}
      /\ status \in Status /\ ceph \in CephStates
      /\ seen \in 0..Len(script) /\ consumers \in BOOLEAN
      /\ queued \in BOOLEAN
  BY DEF TypeOK
<1>2. UNCHANGED store => StoreTyped
  BY DEF TypeOK, store, StoreTyped
<1>3. UNCHANGED <<jobs, verbose, logging>> => JobsTyped
  BY DEF TypeOK, JobsTyped
<1>4. Undisturbed => Counted
  BY DisturbanceCounted
<1>. QED
  BY <1>1, <1>2, <1>3, <1>4, PassTyped

LEMMA LiveEffectTyped ==
  ASSUME TypeOK, LiveEffect, status' \in Status, JobsTyped
  PROVE  TypeOK'
<1>1. /\ StoreTyped /\ pass' \in PassRecord /\ queued' \in BOOLEAN /\ Counted
      /\ UNCHANGED <<script, gen, life, ceph, seen, consumers>>
  BY DEF LiveEffect, LiveStep
<1>. QED
  BY <1>1, Typed, Unmoved

LEMMA ControllerTyped ==
  ASSUME TypeOK, Controller
  PROVE  TypeOK'
<1>0. status \in Status /\ pass.status \in Status
  BY Unmoved, PassTyped DEF PassRecord
<1>1. CASE Reconcile \/ ReconcileGone
  <2>1. /\ UNCHANGED <<cluster, status, store, rook, consumers, mirror>>
        /\ Undisturbed
    BY <1>1 DEF Reconcile, ReconcileGone, Undisturbed
  <2>2. pass' \in PassRecord /\ queued' \in BOOLEAN
    <3>1. CASE Reconcile
      BY <3>1, ReconcileEffect
    <3>2. CASE ReconcileGone
      BY <3>2, PassTyped DEF ReconcileGone
    <3>. QED
      BY <1>1, <3>1, <3>2
  <2>. QED
    BY <2>1, <2>2, Typed, Unmoved DEF cluster, rook, mirror
<1>2. CASE Ensure
  BY <1>0, <1>2, EnsureEffect, Unmoved, LiveEffectTyped
<1>3. CASE ResourceProfile
  BY <1>3, ResourceProfileEffect, Unmoved, LiveEffectTyped
<1>4. CASE EvaluateConditions
  BY <1>0, <1>4, EvaluateConditionsEffect, Unmoved, LiveEffectTyped
<1>5. CASE EnableMetricsExporter
  BY <1>0, <1>5, EnableMetricsExporterEffect, Unmoved, LiveEffectTyped
<1>6. CASE EnsureRbdMirrorDebugLogging
  BY <1>0, <1>6, EnsureRbdMirrorDebugLoggingEffect, LiveEffectTyped
<1>7. CASE EnsureToolsDeployment
  BY <1>0, <1>7, EnsureToolsDeploymentEffect, Unmoved, LiveEffectTyped
<1>8. CASE UpdateStatus
  <2>1. /\ StoreTyped /\ Counted
        /\ pass' \in PassRecord /\ queued' \in BOOLEAN
        /\ status' \in {status, pass.status}
        /\ UNCHANGED <<script, gen, life, ceph, seen, consumers,
                       jobs, verbose, logging>>
    BY <1>8, UpdateStatusEffect
  <2>. QED
    BY <1>0, <2>1, Typed, Unmoved
<1>9. CASE Uninstall
  <2>1. /\ StoreTyped /\ Counted
        /\ pass' \in PassRecord /\ queued' \in BOOLEAN
        /\ life' \in {life, "gone"}
        /\ UNCHANGED <<script, gen, status, ceph, seen, consumers,
                       jobs, verbose, logging>>
    BY <1>9, UninstallHas DEF UninstallEffect, DeletionEffect
  <2>2. life' \in {"live", "deleting", "gone"}
    BY <2>1, Unmoved
  <2>. QED
    BY <1>0, <2>1, <2>2, Typed, Unmoved
<1>. QED
  BY <1>1, <1>2, <1>3, <1>4, <1>5, <1>6, <1>7, <1>8, <1>9
     DEF Controller, Finish

(* What a step of the environment leaves alone: all but the queue puts     *)
(* nothing in the way of the types.                                        *)
LEMMA CephBecomesTyped ==
  ASSUME TypeOK, NEW state \in CephStates, CephBecomes(state),
         seen' \in 0..Len(script), Disturb \/ Undisturbed
  PROVE  TypeOK'
<1>1. /\ UNCHANGED <<cluster, status, store, consumers, mirror, pass>>
      /\ ceph' = state /\ queued' = TRUE
  BY DEF CephBecomes
<1>. QED
  BY <1>1, Typed, Unmoved, DisturbanceCounted DEF cluster, mirror

LEMMA OperatorsTyped ==
  ASSUME TypeOK, Operators
  PROVE  TypeOK'
<1>1. /\ written \in [Objects -> 0..Len(script)] /\ ready \subseteq Objects
      /\ dying \subseteq Finalized /\ passedOver \subseteq Objects
      /\ seen \in 0..Len(script) /\ queued \in BOOLEAN
      /\ "CephCluster" \in Objects /\ Len(script) \in Nat
  BY CephFinalized, ScriptTyped DEF TypeOK
<1>2. CASE RookStarts \/ RookFinishes \/ RookUpdates
  <2>1. \E state \in CephStates : CephBecomes(state)
    BY <1>2 DEF RookStarts, RookFinishes, RookUpdates, CephStates
  <2>2. seen' \in {seen, written["CephCluster"]} /\ Undisturbed
    BY <1>2 DEF RookStarts, RookFinishes, RookUpdates
  <2>. QED
    BY <1>1, <2>1, <2>2, CephBecomesTyped
<1>3. CASE \E o \in Reporting : BecomesReady(o)
  <2>1. PICK o \in Reporting : BecomesReady(o)
    BY <1>3
  <2>2. o \in Objects
    BY <2>1 DEF Reporting, Objects, RookObjects
  <2>3. /\ ready' = ready \cup {o} /\ queued' = (queued \/ o \in Watched)
        /\ UNCHANGED <<cluster, status, written, dying, passedOver, rook,
                       consumers, mirror, pass>>
        /\ Undisturbed
    BY <2>1 DEF BecomesReady, Undisturbed
  <2>4. StoreTyped
    BY <1>1, <2>2, <2>3 DEF StoreTyped
  <2>5. queued' \in BOOLEAN
    BY <2>3
  <2>. QED
    BY <2>3, <2>4, <2>5, Typed, Unmoved DEF cluster, rook, mirror
<1>4. CASE \E o \in Finalized : FinalizerRemoved(o)
  <2>1. PICK o \in Finalized : FinalizerRemoved(o)
    BY <1>4
  <2>2. /\ written' = [written EXCEPT ![o] = 0] /\ dying' = dying \ {o}
        /\ queued' = (queued \/ o \in Watched)
        /\ UNCHANGED <<cluster, status, ready, passedOver, consumers, mirror,
                       pass>>
        /\ Undisturbed
    BY <2>1 DEF FinalizerRemoved, Undisturbed
  <2>3. ceph' \in CephStates /\ seen' \in 0..Len(script)
    <3>1. \/ ceph' = "" /\ seen' = 0
          \/ ceph' = ceph /\ seen' = seen
      BY <2>1 DEF FinalizerRemoved, rook
    <3>2. "" \in CephStates /\ 0 \in 0..Len(script)
      BY <1>1 DEF CephStates
    <3>. QED
      BY <3>1, <3>2, Unmoved
  <2>4. StoreTyped
    <3>1. 0 \in 0..Len(script)
      BY <1>1
    <3>. QED
      BY <1>1, <2>2, <3>1 DEF StoreTyped
  <2>5. queued' \in BOOLEAN
    BY <2>2
  <2>. QED
    BY <2>2, <2>3, <2>4, <2>5, Typed, Unmoved DEF cluster, mirror
<1>. QED
  BY <1>2, <1>3, <1>4 DEF Operators

LEMMA JobsAreTyped ==
  ASSUME TypeOK, Jobs
  PROVE  TypeOK'
<1>1. CASE OnboardingJobDone
  <2>1. /\ written' = [written EXCEPT !["OnboardingJob"] = 0,
                                      !["OnboardingKey"] = 1]
        /\ UNCHANGED <<cluster, status, dying, ready, passedOver, rook,
                       consumers, mirror, pass, queued>>
        /\ Undisturbed
    BY <1>1 DEF OnboardingJobDone, Undisturbed
  <2>2. StoreTyped
    <3>1. /\ written \in [Objects -> 0..Len(script)]
          /\ ready \subseteq Objects /\ dying \subseteq Finalized
          /\ passedOver \subseteq Objects
      BY DEF TypeOK
    <3>2. Len(script) \in Nat \ {0}
      BY ScriptTyped DEF TypeOK
    <3>3. 0 \in 0..Len(script) /\ 1 \in 0..Len(script)
      BY <3>2
    <3>4. written' \in [Objects -> 0..Len(script)]
      BY <2>1, <3>1, <3>3
    <3>. QED
      BY <2>1, <3>1, <3>4 DEF StoreTyped
  <2>. QED
    BY <2>1, <2>2, Typed, Unmoved DEF cluster, rook, mirror
<1>2. CASE \E j \in {"enable", "disable"} : LoggingJobDone(j)
  <2>1. PICK j \in {"enable", "disable"} : LoggingJobDone(j)
    BY <1>2
  <2>2. /\ jobs' = [jobs EXCEPT ![j] = "succeeded"]
        /\ verbose' = (j = "enable")
        /\ UNCHANGED <<cluster, status, store, rook, consumers, logging, pass,
                       queued>>
        /\ Undisturbed
    BY <2>1 DEF LoggingJobDone, Undisturbed
  <2>3. JobsTyped
    <3>1. /\ jobs \in [{"enable", "disable"} -> JobStates]
          /\ logging \in BOOLEAN /\ "succeeded" \in JobStates
      BY DEF TypeOK, JobStates
    <3>2. verbose' \in BOOLEAN
      BY <2>2
    <3>. QED
      BY <2>2, <3>1, <3>2 DEF JobsTyped
  <2>. QED
    BY <2>2, <2>3, Typed, Unmoved DEF cluster, rook
<1>. QED
  BY <1>1, <1>2 DEF Jobs

LEMMA EnvironmentTyped ==
  ASSUME TypeOK, Environment \/ Offboard
  PROVE  TypeOK'
<1>1. CASE EditSpec
  <2>1. /\ gen' = gen + 1 /\ gen < Len(script) /\ queued' = TRUE
        /\ UNCHANGED <<script, life, status, store, rook, consumers, mirror,
                       pass>>
        /\ Undisturbed
    BY <1>1 DEF EditSpec, Undisturbed
  <2>2. DOMAIN script = 1..Len(script) /\ Len(script) \in Nat
    BY ScriptTyped DEF TypeOK
  <2>3. gen' \in DOMAIN script
    BY <2>1, <2>2, Unmoved
  <2>. QED
    BY <2>1, <2>3, Typed, Unmoved DEF rook, mirror
<1>2. CASE DeleteStorageCluster
  BY <1>2, Typed, Unmoved DEF DeleteStorageCluster, rook, mirror, Undisturbed
<1>3. CASE Onboard \/ Offboard
  BY <1>3, Typed, Unmoved DEF Onboard, Offboard, cluster, rook, mirror, Undisturbed
<1>4. CASE CephFails
  <2>1. CephBecomes("Error") /\ Disturb /\ seen' = seen
    BY <1>4 DEF CephFails
  <2>2. "Error" \in CephStates
    BY DEF CephStates
  <2>. QED
    BY <2>1, <2>2, CephBecomesTyped, Unmoved
<1>5. CASE Crash
  <2>1. /\ pass' = NoPass /\ logging' = FALSE /\ queued' = TRUE
        /\ UNCHANGED <<cluster, status, store, rook, consumers, jobs, verbose>>
        /\ Disturb
    BY <1>5 DEF Crash
  <2>2. JobsTyped
    BY <2>1 DEF TypeOK, JobsTyped
  <2>3. pass' \in PassRecord
    BY <2>1, NoPassTyped
  <2>. QED
    BY <2>1, <2>2, <2>3, Typed, Unmoved, DisturbanceCounted DEF cluster, rook
<1>. QED
  BY <1>1, <1>2, <1>3, <1>4, <1>5 DEF Environment

LEMMA NextTyped ==
  ASSUME TypeOK, [Next]_vars
  PROVE  TypeOK'
<1>1. CASE Next
  BY <1>1, ControllerTyped, OperatorsTyped, JobsAreTyped, EnvironmentTyped
     DEF Next
<1>2. CASE UNCHANGED vars
  BY <1>2, Typed, Unmoved
     DEF vars, cluster, rook, mirror, Undisturbed
<1>. QED
  BY <1>1, <1>2

(* Whatever is edited, fails or crashes, every variable keeps its type: no *)
(* pass is in a step that does not exist, no object is of a generation     *)
(* that was never written, no phase is outside the list of the API.        *)
THEOREM PipelineTyped == Spec => []TypeOK
<1>1. Init => TypeOK
  BY InitTyped
<1>2. TypeOK /\ [Next]_vars => TypeOK'
  BY NextTyped
<1>. QED
  BY <1>1, <1>2, PTL DEF Spec

-----------------------------------------------------------------------------
(* The keys outlive the cluster                                            *)

(* What the others do to the CephCluster, to the keys and to the pass.     *)
LEMMA AroundEffect ==
  ASSUME TypeOK, Operators \/ Jobs \/ Environment \/ Offboard
  PROVE  /\ script' = script
         /\ Present("KMSConfigMap")' = Present("KMSConfigMap")
         /\ Present("CephCluster")' => Present("CephCluster")
         /\ pass' \in {pass, NoPass}
         /\ life' # "live" \/ life = "live"
         /\ life # "live" => life' # "live"
<1>1. /\ written \in [Objects -> 0..Len(script)]
      /\ "CephCluster" \in Objects /\ "KMSConfigMap" \in Objects
      /\ "KMSConfigMap" \notin Finalized
  BY CephFinalized DEF TypeOK, KMSResources
<1>2. CASE \E o \in Finalized : FinalizerRemoved(o)
  <2>1. PICK o \in Finalized : FinalizerRemoved(o)
    BY <1>2
  <2>2. /\ written' = [written EXCEPT ![o] = 0]
        /\ UNCHANGED <<cluster, pass>>
    BY <2>1 DEF FinalizerRemoved
  <2>3. /\ written'["KMSConfigMap"] = written["KMSConfigMap"]
        /\ written'["CephCluster"] \in {written["CephCluster"], 0}
    BY <1>1, <2>2
  <2>. QED
    BY <2>2, <2>3 DEF Present, cluster
<1>3. CASE OnboardingJobDone
  <2>1. /\ written' = [written EXCEPT !["OnboardingJob"] = 0,
                                      !["OnboardingKey"] = 1]
        /\ UNCHANGED <<cluster, pass>>
    BY <1>3 DEF OnboardingJobDone
  <2>2. /\ written'["KMSConfigMap"] = written["KMSConfigMap"]
        /\ written'["CephCluster"] = written["CephCluster"]
    BY <1>1, <2>1
  <2>. QED
    BY <2>1, <2>2 DEF Present, cluster
<1>4. CASE \/ RookStarts \/ RookFinishes \/ RookUpdates \/ CephFails
           \/ (\E o \in Reporting : BecomesReady(o))
           \/ \E j \in {"enable", "disable"} : LoggingJobDone(j)
  <2>1. UNCHANGED <<cluster, written, pass>>
    BY <1>4
       DEF RookStarts, RookFinishes, RookUpdates, CephFails, CephBecomes,
           BecomesReady, LoggingJobDone, store
  <2>. QED
    BY <2>1 DEF cluster, Present
<1>5. CASE EditSpec \/ DeleteStorageCluster \/ Onboard \/ Offboard
  <2>1. UNCHANGED <<script, written, pass>> /\ life' \in {life, "deleting"}
    BY <1>5
       DEF EditSpec, DeleteStorageCluster, Onboard, Offboard, store, cluster
  <2>. QED
    BY <2>1 DEF Present
<1>6. CASE Crash
  BY <1>6 DEF Crash, store, cluster, Present
<1>. QED
  BY <1>2, <1>3, <1>4, <1>5, <1>6 DEF Operators, Jobs, Environment

(* The rest of an uninstall has the keys after the CephCluster, and is     *)
(* past the CephCluster only if that is gone.                              *)
KeysLast(todo) ==
  \A i, j \in DOMAIN todo :
    todo[i] = "KMSResources" /\ todo[j] = "CephCluster" => j < i

CephAwaited ==
  "KMSResources" \in Elements(pass.todo)
    /\ "CephCluster" \notin Elements(pass.todo) => ~Present("CephCluster")

DeletedInOrder ==
  ~Idle /\ pass.deleting =>
    life # "live" /\ KeysLast(pass.todo) /\ CephAwaited

(* Without the keys there is no CephCluster, and nobody who would make it. *)
NoKeysNoCeph ==
  Has(script[1], "kms") /\ ~Present("KMSConfigMap") =>
    life # "live" /\ (Idle \/ pass.deleting) /\ ~Present("CephCluster")

KeyInv == TypeOK /\ DeletedInOrder /\ NoKeysNoCeph

LEMMA KeysLastAtFirst ==
  /\ KeysLast(UninstallOrder)
  /\ "CephCluster" \in Elements(UninstallOrder)
<1>1. /\ Len(UninstallOrder) = 25 /\ DOMAIN UninstallOrder = 1..25
      /\ UninstallOrder[17] = "CephCluster"
  BY DEF UninstallOrder
<1>2. \A i \in 1..25 : UninstallOrder[i] = "KMSResources" => i = 21
  BY DEF UninstallOrder
<1>3. \A j \in 1..25 : UninstallOrder[j] = "CephCluster" => j = 17
  BY DEF UninstallOrder
<1>4. 17 \in DOMAIN UninstallOrder
  BY <1>1
<1>. QED
  BY <1>1, <1>2, <1>3, <1>4 DEF KeysLast, Elements

LEMMA KeysStayLast ==
  ASSUME NEW s \in Seq(Steps), s # <<>>, KeysLast(s)
  PROVE  /\ KeysLast(Tail(s)) /\ KeysLast(LastSteps) /\ KeysLast(<<>>)
         /\ Head(s) = "KMSResources" => "CephCluster" \notin Elements(s)
<1>1. /\ Len(s) \in Nat \ {0} /\ DOMAIN s = 1..Len(s)
      /\ DOMAIN Tail(s) = 1..(Len(s) - 1) /\ Head(s) = s[1]
      /\ \A i \in 1..(Len(s) - 1) : Tail(s)[i] = s[i + 1]
  BY TailIndices
<1>2. KeysLast(Tail(s))
  <2> SUFFICES ASSUME NEW i \in 1..(Len(s) - 1), NEW j \in 1..(Len(s) - 1),
                      Tail(s)[i] = "KMSResources", Tail(s)[j] = "CephCluster"
               PROVE  j < i
    BY <1>1 DEF KeysLast
  <2>1. i + 1 \in DOMAIN s /\ j + 1 \in DOMAIN s
    BY <1>1
  <2>2. s[i + 1] = "KMSResources" /\ s[j + 1] = "CephCluster"
    BY <1>1
  <2>3. j + 1 < i + 1
    BY <2>1, <2>2 DEF KeysLast
  <2>. QED
    BY <1>1, <2>3
<1>3. KeysLast(LastSteps)
  BY LastStepsTyped DEF KeysLast
<1>4. KeysLast(<<>>)
  BY DEF KeysLast
<1>5. ASSUME Head(s) = "KMSResources"
      PROVE  "CephCluster" \notin Elements(s)
  <2>1. \A j \in DOMAIN s : s[j] = "CephCluster" => j < 1
    BY <1>1, <1>5 DEF KeysLast
  <2>. QED
    BY <1>1, <2>1 DEF Elements
<1>. QED
  BY <1>2, <1>3, <1>4, <1>5

LEMMA LiveStepKeepsKeys ==
  ASSUME KeyInv, LiveEffect, ~Idle, ~pass.deleting
  PROVE  DeletedInOrder' /\ NoKeysNoCeph'
<1>1. /\ pass'.deleting = pass.deleting /\ script' = script
      /\ Present("KMSConfigMap") => Present("KMSConfigMap")'
  BY DEF LiveEffect, LiveStep
<1>2. DeletedInOrder'
  BY <1>1 DEF DeletedInOrder
<1>3. NoKeysNoCeph'
  BY <1>1 DEF KeyInv, NoKeysNoCeph
<1>. QED
  BY <1>2, <1>3

LEMMA ToolsKeepKeys ==
  ASSUME KeyInv, EnsureToolsDeployment
  PROVE  DeletedInOrder' /\ NoKeysNoCeph'
<1>1. /\ ~Idle /\ LiveEffect /\ UNCHANGED <<script, life>>
      /\ pass'.deleting = pass.deleting
      /\ Present("KMSConfigMap") => Present("KMSConfigMap")'
      /\ Present("CephCluster")' => Present("CephCluster")
      /\ pass'.todo \in {Tail(pass.todo), <<>>}
      /\ Head(pass.todo) = "Tools"
  BY EnsureToolsDeploymentEffect DEF KeyInv, LiveEffect, LiveStep
<1>2. pass.todo \in Seq(Steps) /\ pass.todo # <<>>
  BY <1>1, TodoTyped DEF KeyInv
<1>3. DeletedInOrder'
  <2>1. ASSUME pass.deleting, pass'.todo = Tail(pass.todo)
        PROVE  life' # "live" /\ KeysLast(pass'.todo) /\ CephAwaited'
    <3>1. life # "live" /\ KeysLast(pass.todo) /\ CephAwaited
      BY <1>1, <2>1 DEF KeyInv, DeletedInOrder
    <3>2. KeysLast(pass'.todo)
      BY <1>2, <2>1, <3>1, KeysStayLast
    <3>3. Elements(pass.todo) = {"Tools"} \cup Elements(pass'.todo)
      BY <1>1, <1>2, <2>1, TailIndices
    <3>4. CephAwaited'
      BY <1>1, <3>1, <3>3 DEF CephAwaited
    <3>. QED
      BY <1>1, <3>1, <3>2, <3>4
  <2>2. pass'.todo = <<>> => Idle'
    BY DEF Idle
  <2>. QED
    BY <1>1, <2>1, <2>2 DEF DeletedInOrder
<1>4. NoKeysNoCeph'
  <2>1. pass'.todo = <<>> => Idle'
    BY DEF Idle
  <2>. QED
    BY <1>1, <2>1 DEF KeyInv, NoKeysNoCeph
<1>. QED
  BY <1>3, <1>4

LEMMA UninstallKeepsKeys ==
  ASSUME KeyInv, Uninstall
  PROVE  DeletedInOrder' /\ NoKeysNoCeph'
<1>1. /\ ~Idle /\ pass.deleting /\ script' = script
      /\ pass'.deleting = pass.deleting
      /\ pass'.todo \in {Tail(pass.todo), LastSteps}
      /\ Present("CephCluster")' = Present("CephCluster")
      /\ Head(pass.todo) # "KMSResources" =>
           Present("KMSConfigMap")' = Present("KMSConfigMap")
      /\ Head(pass.todo) = "CephCluster" =>
           pass'.todo = LastSteps \/ ~Present("CephCluster")
      /\ life' \in {life, "gone"}
  BY UninstallHas DEF KeyInv, UninstallEffect, DeletionEffect, Present
<1>2. pass.todo \in Seq(Steps) /\ pass.todo # <<>>
  BY <1>1, TodoTyped DEF KeyInv
<1>3. life # "live" /\ KeysLast(pass.todo) /\ CephAwaited
  BY <1>1 DEF KeyInv, DeletedInOrder
<1>4. life' # "live"
  BY <1>1, <1>3
<1>5. KeysLast(pass'.todo)
  BY <1>1, <1>2, <1>3, KeysStayLast
<1>6. CephAwaited'
  <2>1. CASE pass'.todo = LastSteps
    BY <2>1, LastStepsTyped DEF CephAwaited
  <2>2. CASE pass'.todo = Tail(pass.todo) /\ pass'.todo # LastSteps
    <3>1. Elements(pass.todo) = {Head(pass.todo)} \cup Elements(pass'.todo)
      BY <1>2, <2>2, TailIndices
    <3>2. Head(pass.todo) = "CephCluster" => ~Present("CephCluster")
      BY <1>1, <2>2
    <3>. QED
      BY <1>1, <1>3, <3>1, <3>2 DEF CephAwaited
  <2>. QED
    BY <1>1, <2>1, <2>2
<1>7. NoKeysNoCeph'
  <2>1. CASE Head(pass.todo) = "KMSResources"
    <3>1. "CephCluster" \notin Elements(pass.todo)
      BY <1>2, <1>3, <2>1, KeysStayLast
    <3>2. "KMSResources" \in Elements(pass.todo)
      BY <1>2, <2>1, TailIndices
    <3>3. ~Present("CephCluster")
      BY <1>3, <3>1, <3>2 DEF CephAwaited
    <3>. QED
      BY <1>1, <1>4, <3>3 DEF NoKeysNoCeph
  <2>2. CASE Head(pass.todo) # "KMSResources"
    BY <1>1, <1>4, <2>2 DEF KeyInv, NoKeysNoCeph
  <2>. QED
    BY <2>1, <2>2
<1>. QED
  BY <1>1, <1>4, <1>5, <1>6, <1>7 DEF DeletedInOrder

LEMMA ReconcileKeepsKeys ==
  ASSUME KeyInv, Reconcile \/ ReconcileGone
  PROVE  DeletedInOrder' /\ NoKeysNoCeph'
<1>1. UNCHANGED <<script, gen, life, written>>
  BY DEF Reconcile, ReconcileGone, cluster, store
<1>2. CASE Reconcile
  <2>1. /\ pass'.deleting = (life = "deleting")
        /\ life = "deleting" => pass'.todo = UninstallOrder
        /\ life # "gone"
    BY <1>2, ReconcileEffect DEF KeyInv, Reconcile
  <2>2. DeletedInOrder'
    <3>1. ASSUME life = "deleting"
          PROVE  KeysLast(pass'.todo) /\ CephAwaited'
      BY <2>1, <3>1, KeysLastAtFirst DEF CephAwaited
    <3>. QED
      BY <1>1, <2>1, <3>1 DEF DeletedInOrder
  <2>3. NoKeysNoCeph'
    <3>1. life \in {"live", "deleting", "gone"}
      BY DEF KeyInv, TypeOK
    <3>. QED
      BY <1>1, <2>1, <3>1 DEF KeyInv, NoKeysNoCeph, Present
  <2>. QED
    BY <2>2, <2>3
<1>3. CASE ReconcileGone
  <2>1. UNCHANGED pass
    BY <1>3 DEF ReconcileGone
  <2>. QED
    BY <1>1, <2>1 DEF KeyInv, DeletedInOrder, NoKeysNoCeph, Present, Idle,
                      CephAwaited
<1>. QED
  BY <1>2, <1>3

LEMMA NextKeepsKeys ==
  ASSUME KeyInv, [Next]_vars
  PROVE  KeyInv'
<1>0. TypeOK
  BY DEF KeyInv
<1> SUFFICES DeletedInOrder' /\ NoKeysNoCeph'
  BY <1>0, NextTyped DEF KeyInv
<1>1. CASE Reconcile \/ ReconcileGone
  BY <1>1, ReconcileKeepsKeys
<1>2. CASE Ensure
  BY <1>0, <1>2, EnsureEffect, LiveStepKeepsKeys
<1>3. CASE ResourceProfile \/ EvaluateConditions
  BY <1>0, <1>3, ResourceProfileEffect, EvaluateConditionsEffect,
     LiveStepKeepsKeys
<1>4. CASE EnableMetricsExporter \/ EnsureRbdMirrorDebugLogging
  BY <1>0, <1>4, EnableMetricsExporterEffect,
     EnsureRbdMirrorDebugLoggingEffect, LiveStepKeepsKeys
<1>5. CASE EnsureToolsDeployment
  BY <1>5, ToolsKeepKeys
<1>6. CASE UpdateStatus
  <2>1. /\ pass'.todo = <<>>
        /\ UNCHANGED <<script, life, written>>
        /\ ~Idle
    BY <1>0, <1>6, UpdateStatusEffect
  <2>2. Idle'
    BY <2>1 DEF Idle
  <2>. QED
    BY <2>1, <2>2 DEF KeyInv, DeletedInOrder, NoKeysNoCeph, Present
<1>7. CASE Uninstall
  BY <1>7, UninstallKeepsKeys
<1>8. CASE Operators \/ Jobs \/ Environment \/ Offboard
  <2>1. /\ script' = script
        /\ Present("KMSConfigMap")' = Present("KMSConfigMap")
        /\ Present("CephCluster")' => Present("CephCluster")
        /\ pass' \in {pass, NoPass}
        /\ life # "live" => life' # "live"
    BY <1>0, <1>8, AroundEffect
  <2>2. pass' = NoPass => Idle'
    BY DEF NoPass, Idle
  <2>3. DeletedInOrder'
    BY <2>1, <2>2 DEF KeyInv, DeletedInOrder, Idle, CephAwaited
  <2>4. NoKeysNoCeph'
    BY <2>1, <2>2 DEF KeyInv, NoKeysNoCeph, Idle
  <2>. QED
    BY <2>3, <2>4
<1>9. CASE UNCHANGED vars
  BY <1>9 DEF KeyInv, DeletedInOrder, NoKeysNoCeph, Present, Idle,
              CephAwaited, vars, cluster, store
<1>. QED
  BY <1>1, <1>2, <1>3, <1>4, <1>5, <1>6, <1>7, <1>8, <1>9
     DEF Next, Controller, Finish

LEMMA InitKeepsKeys ==
  ASSUME Init
  PROVE  KeyInv
<1>1. TypeOK /\ Idle /\ written = [o \in Objects |->
        IF o \in dying \cup Provided(script[1]) THEN 1 ELSE 0]
  BY InitTyped DEF Init, NoPass, Idle
<1>2. Has(script[1], "kms") => "KMSConfigMap" \in Provided(script[1])
  BY DEF Provided, KMSResources
<1>3. Has(script[1], "kms") => Present("KMSConfigMap")
  BY <1>1, <1>2, CephFinalized DEF Present, KMSResources
<1>. QED
  BY <1>1, <1>3 DEF KeyInv, DeletedInOrder, NoKeysNoCeph

(* An encrypted CephCluster never outlives its keys: whatever fails on the *)
(* way and however often the uninstall starts again, their step comes only *)
(* when the CephCluster is gone, and no pass that would make another one   *)
(* is left or starts.                                                      *)
THEOREM KMSOutlivesCephHolds == Spec => []KMSOutlivesCeph
<1>1. Init => KeyInv
  BY InitKeepsKeys
<1>2. KeyInv /\ [Next]_vars => KeyInv'
  BY NextKeepsKeys
<1>3. KeyInv => KMSOutlivesCeph
  <2>1. TypeOK => (Has(script[gen], "kms") => Has(script[1], "kms"))
    BY ScriptAssumption DEF TypeOK
  <2>. QED
    BY <2>1 DEF KeyInv, NoKeysNoCeph, KMSOutlivesCeph
<1>. QED
  BY <1>1, <1>2, <1>3, PTL DEF Spec

-----------------------------------------------------------------------------
(* A cluster left alone in phase Ready is well                             *)

(* The state of the CephCluster is that of a CephCluster of its mode.      *)
CephStateFits ==
  /\ ceph # "" => Present("CephCluster")
  /\ script[gen].mode # "external" => ceph \notin {"Connecting", "Connected"}

CephWell == script[gen].mode = "internal" => ceph = "Created"

NooBaaWell ==
  script[gen].mode # "external"
    /\ script[gen].strategy["MultiCloudGateway"] # "ignore" =>
    "NooBaa" \in ready

LateSteps == {"MetricsExporter", "MirrorDebugLogging", "Tools",
              "StatusUpdate"}

(* The rest of a pass: NooBaa comes after the CephCluster, the conditions  *)
(* after both, and the status is written last.                             *)
InOrder(todo) ==
  \A i, j \in DOMAIN todo :
    /\ todo[i] = "NoobaaSystem" /\ todo[j] = "CephCluster" => j < i
    /\ todo[i] = "Completion" /\ todo[j] = "StatusUpdate" => i < j
    /\ todo[i] = "Completion" /\ todo[j] \notin LateSteps => j <= i

LiveShape(todo) ==
  /\ InOrder(todo)
  /\ "StatusUpdate" \in Elements(todo)
  /\ "Completion" \in Elements(todo) \/ Elements(todo) \subseteq LateSteps

(* What a pass that nothing has disturbed knows: what it has looked at and *)
(* not found wanting is well.                                              *)
Looked(todo, negative) ==
  "Completion" \in Elements(todo) /\ negative = {} =>
    /\ "CephCluster" \notin Elements(todo) => CephWell
    /\ "NoobaaSystem" \notin Elements(todo) => NooBaaWell

Undisputed == ~queued /\ life = "live"
                /\ script[gen].strategy["CephCluster"] = "manage"

PassKnows ==
  /\ pass.gen = gen /\ ~pass.deleting
  /\ LiveShape(pass.todo)
  /\ Looked(pass.todo, pass.negative)
  /\ "Completion" \notin Elements(pass.todo) /\ pass.status.phase = "Ready" =>
       CephWell /\ NooBaaWell

Healthy ==
  Undisputed =>
    IF Idle THEN status.phase = "Ready" => CephWell /\ NooBaaWell
    ELSE PassKnows

HealthInv == KeyInv /\ CephStateFits /\ Healthy

LEMMA InOrderOfTail ==
  ASSUME NEW s \in Seq(Steps), s # <<>>, LiveShape(s)
  PROVE  /\ InOrder(Tail(s))
         /\ Head(s) # "StatusUpdate" => "StatusUpdate" \in Elements(Tail(s))
         /\ Head(s) = "StatusUpdate" => "Completion" \notin Elements(s)
         /\ Head(s) = "NoobaaSystem" => "CephCluster" \notin Elements(s)
         /\ Head(s) = "Completion" =>
              /\ Elements(Tail(s)) \subseteq LateSteps
              /\ {"CephCluster", "NoobaaSystem"} \cap Elements(s) = {}
         /\ "Completion" \notin LateSteps
<1>1. /\ Len(s) \in Nat \ {0} /\ DOMAIN s = 1..Len(s)
      /\ DOMAIN Tail(s) = 1..(Len(s) - 1) /\ Head(s) = s[1]
      /\ \A i \in 1..(Len(s) - 1) : Tail(s)[i] = s[i + 1]
      /\ Elements(s) = {Head(s)} \cup Elements(Tail(s))
  BY TailIndices
<1>2. InOrder(s)
  BY DEF LiveShape
<1>3. InOrder(Tail(s))
  <2> DEFINE t == Tail(s)
  <2> SUFFICES ASSUME NEW i \in 1..(Len(s) - 1), NEW j \in 1..(Len(s) - 1)
               PROVE
        /\ t[i] = "NoobaaSystem" /\ t[j] = "CephCluster" => j < i
        /\ t[i] = "Completion" /\ t[j] = "StatusUpdate" => i < j
        /\ t[i] = "Completion" /\ t[j] \notin LateSteps => j <= i
    BY <1>1 DEF InOrder
  <2>1. i + 1 \in DOMAIN s /\ j + 1 \in DOMAIN s
    BY <1>1
  <2>2. /\ s[i + 1] = "NoobaaSystem" /\ s[j + 1] = "CephCluster" =>
             j + 1 < i + 1
        /\ s[i + 1] = "Completion" /\ s[j + 1] = "StatusUpdate" =>
             i + 1 < j + 1
        /\ s[i + 1] = "Completion" /\ s[j + 1] \notin LateSteps =>
             j + 1 <= i + 1
    BY <1>2, <2>1 DEF InOrder
  <2>3. t[i] = s[i + 1] /\ t[j] = s[j + 1]
    BY <1>1
  <2> HIDE DEF t
  <2>. QED
    BY <1>1, <2>2, <2>3
<1>4. Head(s) # "StatusUpdate" => "StatusUpdate" \in Elements(Tail(s))
  BY <1>1 DEF LiveShape
<1>5. 1 \in DOMAIN s /\ \A j \in DOMAIN s : j >= 1 /\ (j = 1 \/ j > 1)
  BY <1>1
<1>6. Head(s) = "StatusUpdate" => "Completion" \notin Elements(s)
  <2>1. ASSUME Head(s) = "StatusUpdate", NEW i \in DOMAIN s,
               s[i] = "Completion"
        PROVE  FALSE
    <3>1. i < 1
      BY <1>1, <1>2, <1>5, <2>1 DEF InOrder
    <3>. QED
      BY <1>1, <3>1
  <2>. QED
    BY <2>1 DEF Elements
<1>7. Head(s) = "NoobaaSystem" => "CephCluster" \notin Elements(s)
  <2>1. ASSUME Head(s) = "NoobaaSystem", NEW j \in DOMAIN s,
               s[j] = "CephCluster"
        PROVE  FALSE
    <3>1. j < 1
      BY <1>1, <1>2, <1>5, <2>1 DEF InOrder
    <3>. QED
      BY <1>1, <3>1
  <2>. QED
    BY <2>1 DEF Elements
<1>8. ASSUME Head(s) = "Completion"
      PROVE  /\ Elements(Tail(s)) \subseteq LateSteps
             /\ {"CephCluster", "NoobaaSystem"} \cap Elements(s) = {}
  <2>1. ASSUME NEW j \in DOMAIN s, s[j] \notin LateSteps
        PROVE  j = 1
    <3>1. j <= 1
      BY <1>1, <1>2, <1>5, <1>8, <2>1 DEF InOrder
    <3>. QED
      BY <1>1, <3>1
  <2>2. Elements(Tail(s)) \subseteq LateSteps
    <3>1. ASSUME NEW k \in DOMAIN Tail(s)
          PROVE  Tail(s)[k] \in LateSteps
      <4>1. k + 1 \in DOMAIN s /\ k + 1 # 1 /\ Tail(s)[k] = s[k + 1]
        BY <1>1
      <4>. QED
        BY <2>1, <4>1
    <3>. QED
      BY <3>1 DEF Elements
  <2>3. {"CephCluster", "NoobaaSystem"} \cap LateSteps = {}
    BY DEF LateSteps
  <2>. QED
    BY <1>1, <1>8, <2>2, <2>3
<1>9. "Completion" \notin LateSteps
  BY DEF LateSteps
<1>. QED
  BY <1>3, <1>4, <1>6, <1>7, <1>8, <1>9

(* So are the passes that start: managers, then what follows them.         *)
LEMMA CompletionIs ==
  /\ Completion \in Seq(Steps) /\ Len(Completion) = 6
  /\ Completion[1] = "ResourceProfile" /\ Completion[2] = "Completion"
  /\ Completion[3] = "MetricsExporter"
  /\ Completion[4] = "MirrorDebugLogging"
  /\ Completion[5] = "Tools" /\ Completion[6] = "StatusUpdate"
<1>1. Completion \in Seq(Steps)
  BY StepsAre
<1>2. /\ Len(Completion) = 6
      /\ Completion[1] = "ResourceProfile" /\ Completion[2] = "Completion"
      /\ Completion[3] = "MetricsExporter"
      /\ Completion[4] = "MirrorDebugLogging"
      /\ Completion[5] = "Tools" /\ Completion[6] = "StatusUpdate"
  BY DEF Completion
<1>. QED
  BY <1>1, <1>2

LEMMA CompletionSteps ==
  ASSUME NEW i \in 1..6
  PROVE  /\ Completion[i] = "Completion" => i = 2
         /\ Completion[i] = "StatusUpdate" => i = 6
         /\ Completion[i] \notin LateSteps => i <= 2
         /\ Completion[i] \notin {"NoobaaSystem", "CephCluster"}
<1>1. i = 1 \/ i = 2 \/ i = 3 \/ i = 4 \/ i = 5 \/ i = 6
  OBVIOUS
<1>. QED
  BY <1>1, CompletionIs DEF LateSteps

LEMMA ConcatIs ==
  ASSUME NEW S, NEW s \in Seq(S), NEW t \in Seq(S)
  PROVE  /\ s \o t \in Seq(S) /\ Len(s \o t) = Len(s) + Len(t)
         /\ \A i \in 1..(Len(s) + Len(t)) :
              (s \o t)[i] = IF i <= Len(s) THEN s[i] ELSE t[i - Len(s)]
BY ConcatProperties

LEMMA WholePass ==
  ASSUME NEW m \in Seq(Steps), "NoobaaSystem" \in Elements(m),
         \A i \in DOMAIN m : m[i] \notin LateSteps \cup {"Completion"},
         \A i, j \in DOMAIN m :
           m[i] = "NoobaaSystem" /\ m[j] = "CephCluster" => j < i
  PROVE  LET s == m \o Completion IN
         /\ LiveShape(s) /\ "Completion" \in Elements(s)
         /\ Elements(m) \subseteq Elements(s)
<1> DEFINE s == m \o Completion
           n == Len(m)
<1>1. /\ n \in Nat /\ DOMAIN m = 1..n
      /\ Len(s) = n + 6 /\ DOMAIN s = 1..(n + 6)
      /\ \A i \in 1..(n + 6) : s[i] = IF i <= n THEN m[i]
                                      ELSE Completion[i - n]
  <2> DEFINE c == Completion
  <2>1. c \in Seq(Steps) /\ Len(c) = 6
    BY CompletionIs
  <2> HIDE DEF c
  <2>2. /\ m \o c \in Seq(Steps) /\ Len(m \o c) = Len(m) + Len(c)
        /\ \A i \in 1..(Len(m) + Len(c)) :
             (m \o c)[i] = IF i <= Len(m) THEN m[i] ELSE c[i - Len(m)]
    BY <2>1, ConcatIs, Zenon
  <2>3. n \in Nat /\ DOMAIN m = 1..n
    OBVIOUS
  <2>4. DOMAIN (m \o c) = 1..Len(m \o c)
    BY <2>2
  <2>. QED
    BY <2>1, <2>2, <2>3, <2>4 DEF c
<1> HIDE DEF s, n
<1>2. ASSUME NEW i \in 1..(n + 6)
      PROVE  /\ s[i] = "Completion" => i = n + 2
             /\ s[i] = "StatusUpdate" => i = n + 6
             /\ s[i] \notin LateSteps => i <= n + 2
             /\ s[i] \in {"NoobaaSystem", "CephCluster"} => i <= n
  <2>1. CASE i <= n
    <3>1. i \in DOMAIN m /\ s[i] = m[i]
      BY <1>1, <2>1
    <3>2. s[i] # "Completion" /\ s[i] # "StatusUpdate"
      BY <3>1 DEF LateSteps
    <3>. QED
      BY <1>1, <2>1, <3>2
  <2>2. CASE i > n
    <3>1. i - n \in 1..6 /\ s[i] = Completion[i - n]
      BY <1>1, <2>2
    <3>2. /\ s[i] = "Completion" => i - n = 2
          /\ s[i] = "StatusUpdate" => i - n = 6
          /\ s[i] \notin LateSteps => i - n <= 2
          /\ s[i] \notin {"NoobaaSystem", "CephCluster"}
      BY <3>1, CompletionSteps
    <3>. QED
      BY <1>1, <3>2
  <2>. QED
    BY <1>1, <2>1, <2>2
<1>3. InOrder(s)
  <2> SUFFICES ASSUME NEW i \in 1..(n + 6), NEW j \in 1..(n + 6)
               PROVE
        /\ s[i] = "NoobaaSystem" /\ s[j] = "CephCluster" => j < i
        /\ s[i] = "Completion" /\ s[j] = "StatusUpdate" => i < j
        /\ s[i] = "Completion" /\ s[j] \notin LateSteps => j <= i
    BY <1>1 DEF InOrder
  <2>1. ASSUME s[i] = "NoobaaSystem", s[j] = "CephCluster"
        PROVE  j < i
    <3>1. i <= n /\ j <= n
      BY <1>2, <2>1
    <3>2. i \in DOMAIN m /\ j \in DOMAIN m /\ s[i] = m[i] /\ s[j] = m[j]
      BY <1>1, <3>1
    <3>. QED
      BY <2>1, <3>2
  <2>2. s[i] = "Completion" /\ s[j] = "StatusUpdate" => i < j
    BY <1>1, <1>2
  <2>3. s[i] = "Completion" /\ s[j] \notin LateSteps => j <= i
    BY <1>1, <1>2
  <2>. QED
    BY <2>1, <2>2, <2>3
<1>4. "StatusUpdate" \in Elements(s) /\ "Completion" \in Elements(s)
  <2>1. n + 6 \in DOMAIN s /\ n + 2 \in DOMAIN s
    BY <1>1
  <2>2. s[n + 6] = "StatusUpdate" /\ s[n + 2] = "Completion"
    BY <1>1, CompletionIs
  <2>. QED
    BY <2>1, <2>2 DEF Elements
<1>5. Elements(m) \subseteq Elements(s)
  <2>1. ASSUME NEW i \in DOMAIN m
        PROVE  i \in DOMAIN s /\ s[i] = m[i]
    BY <1>1
  <2>. QED
    BY <2>1 DEF Elements
<1>. QED
  BY <1>3, <1>4, <1>5 DEF LiveShape, s

LEMMA ManagersInOrder ==
  ASSUME NEW x \in ClusterSpec
  PROVE  LET todo == Managers(x) \o Completion IN
         /\ LiveShape(todo) /\ "Completion" \in Elements(todo)
         /\ "NoobaaSystem" \in Elements(todo)
         /\ x.mode = "internal" => "CephCluster" \in Elements(todo)
<1> DEFINE m == Managers(x)
<1>1. m \in Seq(Steps)
  BY ManagersTyped
<1>2. /\ "NoobaaSystem" \in Elements(m)
      /\ x.mode = "internal" => "CephCluster" \in Elements(m)
      /\ \A i \in DOMAIN m : m[i] \notin LateSteps \cup {"Completion"}
      /\ \A i, j \in DOMAIN m :
           m[i] = "NoobaaSystem" /\ m[j] = "CephCluster" => j < i
  <2>1. CASE x.mode = "standalone"
    <3>1. m = <<"NoobaaSystem">>
      BY <2>1 DEF Managers
    <3> HIDE DEF m
    <3>. QED
      BY <2>1, <3>1 DEF Elements, LateSteps
  <2>2. CASE x.mode = "external"
    <3>1. m = <<"ExternalResources", "StorageQuota", "CephCluster",
                "SnapshotClass", "NoobaaSystem", "ClusterClaim">>
      BY <2>2 DEF Managers
    <3> HIDE DEF m
    <3>2. DOMAIN m = 1..6 /\ m[5] = "NoobaaSystem"
      BY <3>1
    <3>3. \A i \in 1..6 : /\ m[i] \notin LateSteps \cup {"Completion"}
                          /\ m[i] = "NoobaaSystem" => i = 5
                          /\ m[i] = "CephCluster" => i = 3
      BY <3>1 DEF LateSteps
    <3>4. "NoobaaSystem" \in Elements(m)
      BY <3>2 DEF Elements
    <3>. QED
      BY <2>2, <3>2, <3>3, <3>4
  <2>3. CASE x.mode = "internal"
    <3>1. m = <<"ProviderServer", "StorageClient", "BackingStorageClasses",
           "TopologyMap", "StorageQuota", "CephConfig", "CephCluster",
           "CephBlockPools", "CephFilesystems", "CephNFS",
           "CephNFSService", "CephObjectStores", "CephObjectStoreUsers",
           "CephRGWRoutes", "StorageClass", "NoobaaSystem",
           "SnapshotClass", "JobTemplates", "CephRbdMirrors",
           "ClusterClaim">>
      BY <2>3 DEF Managers
    <3> HIDE DEF m
    <3>2. DOMAIN m = 1..20 /\ m[16] = "NoobaaSystem" /\ m[7] = "CephCluster"
      BY <3>1
    <3>3. \A i \in 1..20 : m[i] = "NoobaaSystem" => i = 16
      BY <3>1
    <3>4. \A i \in 1..20 : m[i] = "CephCluster" => i = 7
      BY <3>1
    <3>5. \A i \in 1..20 : m[i] \notin LateSteps \cup {"Completion"}
      BY <3>1 DEF LateSteps
    <3>6. {"NoobaaSystem", "CephCluster"} \subseteq Elements(m)
      BY <3>2 DEF Elements
    <3>. QED
      BY <3>2, <3>3, <3>4, <3>5, <3>6
  <2>. QED
    BY <2>1, <2>2, <2>3, SpecFields DEF Modes
<1> HIDE DEF m
<1>3. /\ LiveShape(m \o Completion)
      /\ "Completion" \in Elements(m \o Completion)
      /\ Elements(m) \subseteq Elements(m \o Completion)
  BY <1>1, <1>2, WholePass
<1>. QED
  BY <1>2, <1>3 DEF m

(* A step of a live pass that neither evaluates the conditions nor writes  *)
(* the status.                                                             *)
LEMMA LiveStepKeepsHealth ==
  ASSUME HealthInv, LiveEffect, ~Idle, ~pass.deleting,
         Head(pass.todo) \notin {"Completion", "StatusUpdate"},
         Undisputed /\ ~queued' /\ pass'.negative = {}
           /\ Head(pass.todo) = "CephCluster" => CephWell,
         Undisputed /\ ~queued' /\ pass'.negative = {}
           /\ Head(pass.todo) = "NoobaaSystem" /\ CephWell => NooBaaWell,
         ~queued' /\ Head(pass.todo) \in LateSteps =>
           pass'.status = pass.status
  PROVE  Healthy'
<1> SUFFICES ASSUME Undisputed'
             PROVE  ~Idle' /\ PassKnows'
  BY DEF Healthy
<1>0. TypeOK
  BY DEF HealthInv, KeyInv
<1>1. /\ UNCHANGED <<script, gen, life, ceph>>
      /\ "NooBaa" \in ready => "NooBaa" \in ready'
      /\ ~queued' /\ ~queued
      /\ pass'.gen = pass.gen /\ pass'.deleting = pass.deleting
      /\ pass'.todo = Tail(pass.todo)
      /\ pass'.negative = {} => pass.negative = {}
  BY DEF LiveEffect, LiveStep, Undisputed
<1>2. Undisputed
  BY <1>1 DEF Undisputed
<1>3. PassKnows
  BY <1>2 DEF HealthInv, Healthy
<1>4. pass.todo \in Seq(Steps) /\ pass.todo # <<>>
  BY <1>0, TodoTyped
<1>5. LiveShape(pass.todo)
  BY <1>3 DEF PassKnows
<1>6. Elements(pass.todo) = {Head(pass.todo)} \cup Elements(pass'.todo)
  BY <1>1, <1>4, TailIndices
<1>7. /\ InOrder(pass'.todo) /\ "StatusUpdate" \in Elements(pass'.todo)
      /\ Head(pass.todo) = "NoobaaSystem" =>
           "CephCluster" \notin Elements(pass.todo)
  BY <1>1, <1>4, <1>5, InOrderOfTail
<1>8. LiveShape(pass'.todo)
  <2>1. "Completion" \in Elements(pass.todo)
          \/ Elements(pass.todo) \subseteq LateSteps
    BY <1>5 DEF LiveShape
  <2>2. "Completion" \in Elements(pass'.todo)
          \/ Elements(pass'.todo) \subseteq LateSteps
    BY <1>6, <2>1
  <2>. QED
    BY <1>7, <2>2 DEF LiveShape
<1>9. /\ CephWell => CephWell'
      /\ NooBaaWell => NooBaaWell'
  BY <1>1 DEF CephWell, NooBaaWell
<1>10. Looked(pass.todo, pass.negative)'
  <2> SUFFICES ASSUME "Completion" \in Elements(pass'.todo),
                      pass'.negative = {}
               PROVE  /\ "CephCluster" \notin Elements(pass'.todo) => CephWell
                      /\ "NoobaaSystem" \notin Elements(pass'.todo) =>
                           NooBaaWell
    BY <1>9 DEF Looked
  <2>1. "Completion" \in Elements(pass.todo) /\ pass.negative = {}
    BY <1>1, <1>6
  <2>2. /\ "CephCluster" \notin Elements(pass.todo) => CephWell
        /\ "NoobaaSystem" \notin Elements(pass.todo) => NooBaaWell
    BY <1>3, <2>1 DEF PassKnows, Looked
  <2>3. "CephCluster" \notin Elements(pass'.todo) => CephWell
    <3>1. CASE Head(pass.todo) = "CephCluster"
      BY <1>1, <1>2, <3>1
    <3>2. CASE Head(pass.todo) # "CephCluster"
      BY <1>6, <2>2, <3>2
    <3>. QED
      BY <3>1, <3>2
  <2>4. "NoobaaSystem" \notin Elements(pass'.todo) => NooBaaWell
    <3>1. CASE Head(pass.todo) = "NoobaaSystem"
      <4>1. CephWell
        BY <1>7, <2>2, <3>1
      <4>. QED
        BY <1>1, <1>2, <3>1, <4>1
    <3>2. CASE Head(pass.todo) # "NoobaaSystem"
      BY <1>6, <2>2, <3>2
    <3>. QED
      BY <3>1, <3>2
  <2>. QED
    BY <2>3, <2>4
<1>11. "Completion" \notin Elements(pass'.todo)
         /\ pass'.status.phase = "Ready" => CephWell' /\ NooBaaWell'
  <2> SUFFICES ASSUME "Completion" \notin Elements(pass'.todo),
                      pass'.status.phase = "Ready"
               PROVE  CephWell /\ NooBaaWell
    BY <1>9
  <2>1. "Completion" \notin Elements(pass.todo)
    BY <1>6
  <2>2. Head(pass.todo) \in LateSteps
    BY <1>5, <1>6, <2>1 DEF LiveShape
  <2>3. pass.status.phase = "Ready"
    BY <1>1, <2>2
  <2>. QED
    BY <1>3, <2>1, <2>3 DEF PassKnows
<1>12. ~Idle'
  BY <1>7 DEF Idle, Elements
<1>13. pass'.gen = gen' /\ ~pass'.deleting
  BY <1>1, <1>3 DEF PassKnows
<1>. QED
  BY <1>8, <1>10, <1>11, <1>12, <1>13 DEF PassKnows, Looked

(* Where the managers are in a pass.                                       *)
LEMMA EnsureHeads ==
  ASSUME Ensure
  PROVE  /\ Head(pass.todo) \notin {"Completion", "StatusUpdate"}
         /\ Head(pass.todo) \notin LateSteps
         /\ Head(pass.todo) = "CephCluster" => EnsureCephCluster
         /\ Head(pass.todo) = "NoobaaSystem" => EnsureNoobaaSystem
         /\ Head(pass.todo) = "StorageClass" => EnsureStorageClass
<1>1. CASE \/ EnsureProviderServer \/ EnsureStorageClient
           \/ EnsureBackingStorageClasses \/ EnsureTopologyMap
           \/ EnsureStorageQuota \/ EnsureCephConfig \/ EnsureCephCluster
  BY <1>1 DEF EnsureProviderServer, EnsureStorageClient,
              EnsureBackingStorageClasses, EnsureTopologyMap,
              EnsureStorageQuota, EnsureCephConfig, EnsureCephCluster, At,
              LateSteps
<1>2. CASE \/ EnsureCephBlockPools \/ EnsureCephFilesystems \/ EnsureCephNFS
           \/ EnsureCephNFSService \/ EnsureCephObjectStores
           \/ EnsureCephObjectStoreUsers \/ EnsureCephRGWRoutes
  BY <1>2 DEF EnsureCephBlockPools, EnsureCephFilesystems, EnsureCephNFS,
              EnsureCephNFSService, EnsureCephObjectStores,
              EnsureCephObjectStoreUsers, EnsureCephRGWRoutes, At, LateSteps
<1>3. CASE \/ EnsureStorageClass \/ EnsureNoobaaSystem \/ EnsureSnapshotClass
           \/ EnsureJobTemplates \/ EnsureCephRbdMirrors
           \/ EnsureClusterClaim \/ EnsureExternalResources
  BY <1>3 DEF EnsureStorageClass, EnsureNoobaaSystem, EnsureSnapshotClass,
              EnsureJobTemplates, EnsureCephRbdMirrors, EnsureClusterClaim,
              EnsureExternalResources, At, LateSteps
<1>. QED
  BY <1>1, <1>2, <1>3 DEF Ensure

LEMMA EnsureKeepsHealth ==
  ASSUME HealthInv, Ensure
  PROVE  Healthy'
<1>0. TypeOK /\ CephStateFits
  BY DEF HealthInv, KeyInv
<1>1. LiveEffect /\ ~Idle /\ ~pass.deleting
  BY <1>0, EnsureEffect
<1>2. Undisputed => pass.gen = gen
  BY <1>1 DEF HealthInv, Healthy, PassKnows
<1>3. Undisputed => sc = script[gen]
  BY <1>2 DEF sc
<1>4. ASSUME Undisputed, ~queued', pass'.negative = {},
             Head(pass.todo) = "CephCluster"
      PROVE  CephWell
  <2>1. EnsureCephCluster /\ sc.strategy["CephCluster"] = "manage"
    BY <1>3, <1>4, EnsureHeads DEF Undisputed
  <2>2. NegativeOfCeph = {}
    BY <1>0, <1>4, <2>1, CephClusterSeen
  <2>3. ASSUME script[gen].mode = "internal"
        PROVE  ceph = "Created"
    <3>1. ceph \in CephStates \ {"Connecting", "Connected"}
      BY <1>0, <2>3 DEF CephStateFits, TypeOK
    <3>2. ceph \notin {"", "Creating", "Updating", "Error"}
      BY <1>3, <1>4, <2>2, <2>3 DEF NegativeOfCeph, NoCephStatus
    <3>. QED
      BY <3>1, <3>2 DEF CephStates
  <2>. QED
    BY <2>3 DEF CephWell
<1>5. ASSUME Undisputed, ~queued', pass'.negative = {},
             Head(pass.todo) = "NoobaaSystem", CephWell
      PROVE  NooBaaWell
  <2>1. \/ Unmanaged("MultiCloudGateway") \/ ~CephServes \/ "NooBaa" \in ready
    BY <1>0, <1>5, EnsureHeads, EnsureNoobaaSystemStep
  <2>2. ASSUME script[gen].mode # "external"
        PROVE  CephServes
    <3>1. script[gen].mode \in {"internal", "standalone"}
      <4>1. script[gen] \in ClusterSpec
        BY <1>0, ScriptTyped DEF TypeOK
      <4>. QED
        BY <2>2, <4>1, SpecFields DEF Modes
    <3>2. CASE script[gen].mode = "standalone"
      BY <1>3, <1>5, <3>2 DEF CephServes
    <3>3. CASE script[gen].mode = "internal"
      <4>1. ceph = "Created"
        BY <1>5, <3>3 DEF CephWell
      <4>2. Present("CephCluster")
        BY <1>0, <4>1 DEF CephStateFits
      <4>. QED
        BY <1>3, <1>5, <3>3, <4>1, <4>2 DEF CephServes
    <3>. QED
      BY <3>1, <3>2, <3>3
  <2>. QED
    BY <1>3, <1>5, <2>1, <2>2 DEF NooBaaWell, Unmanaged
<1>6. Head(pass.todo) \notin {"Completion", "StatusUpdate"}
        /\ Head(pass.todo) \notin LateSteps
  BY EnsureHeads
<1>. QED
  BY <1>1, <1>4, <1>5, <1>6, LiveStepKeepsHealth

LEMMA EvaluationKeepsHealth ==
  ASSUME HealthInv, EvaluateConditions
  PROVE  Healthy'
<1> SUFFICES ASSUME Undisputed'
             PROVE  ~Idle' /\ PassKnows'
  BY DEF Healthy
<1>0. TypeOK
  BY DEF HealthInv, KeyInv
<1>1. /\ LiveEffect /\ ~Idle /\ ~pass.deleting
      /\ Head(pass.todo) = "Completion"
      /\ pass'.status = Evaluated(pass.status)
  BY <1>0, EvaluateConditionsEffect
<1>2. /\ UNCHANGED <<script, gen, life, ceph>>
      /\ "NooBaa" \in ready => "NooBaa" \in ready'
      /\ ~queued
      /\ pass'.gen = pass.gen /\ pass'.deleting = pass.deleting
      /\ pass'.todo = Tail(pass.todo)
  BY <1>1 DEF LiveEffect, LiveStep, Undisputed
<1>3. PassKnows
  BY <1>1, <1>2 DEF HealthInv, Healthy, Undisputed
<1>4. pass.todo \in Seq(Steps) /\ pass.todo # <<>> /\ LiveShape(pass.todo)
  BY <1>0, <1>1, <1>3, TodoTyped DEF PassKnows
<1>5. /\ InOrder(pass'.todo) /\ "StatusUpdate" \in Elements(pass'.todo)
      /\ Elements(pass'.todo) \subseteq LateSteps
      /\ {"CephCluster", "NoobaaSystem"} \cap Elements(pass.todo) = {}
      /\ "Completion" \notin LateSteps
  BY <1>1, <1>2, <1>4, InOrderOfTail
<1>6. "Completion" \in Elements(pass.todo)
  BY <1>1, <1>4, TailIndices
<1>7. ASSUME pass'.status.phase = "Ready"
      PROVE  CephWell /\ NooBaaWell
  <2>1. CASE pass.negative = {}
    BY <1>3, <1>5, <1>6, <2>1 DEF PassKnows, Looked
  <2>2. CASE pass.negative # {}
    <3> DEFINE s == Collected(pass.status)
    <3>1. s \in Status
      BY PassTyped, <1>0 DEF PassRecord, Collected, Status
    <3>2. pass'.status = [s EXCEPT !.phase = NegativePhase(s)]
      BY <1>1, <2>2 DEF Evaluated
    <3> HIDE DEF s
    <3>3. NegativePhase(s) = "Ready"
      BY <1>7, <3>1, <3>2 DEF Status
    <3>4. sc.mode = "external"
      BY <3>3 DEF NegativePhase
    <3>. QED
      BY <1>3, <3>4 DEF PassKnows, sc, CephWell, NooBaaWell
  <2>. QED
    BY <2>1, <2>2
<1>8. /\ CephWell => CephWell'
      /\ NooBaaWell => NooBaaWell'
  BY <1>2 DEF CephWell, NooBaaWell
<1>9. LiveShape(pass'.todo)
  BY <1>5 DEF LiveShape
<1>10. "Completion" \notin Elements(pass'.todo)
  BY <1>5
<1>11. ~Idle'
  BY <1>5 DEF Idle, Elements
<1>12. pass'.gen = gen' /\ ~pass'.deleting
  BY <1>2, <1>3 DEF PassKnows
<1>. QED
  BY <1>7, <1>8, <1>9, <1>10, <1>11, <1>12 DEF PassKnows, Looked

LEMMA LateStepsKeepHealth ==
  ASSUME HealthInv,
         \/ ResourceProfile \/ EnableMetricsExporter
         \/ EnsureRbdMirrorDebugLogging
         \/ EnsureToolsDeployment /\ ~pass.deleting
  PROVE  Healthy'
<1>0. TypeOK
  BY DEF HealthInv, KeyInv
<1>1. /\ LiveEffect /\ ~Idle /\ ~pass.deleting
      /\ Head(pass.todo) \in {"ResourceProfile", "MetricsExporter",
                              "MirrorDebugLogging", "Tools"}
      /\ Head(pass.todo) # "ResourceProfile" /\ ~queued' =>
           pass'.status = pass.status
  <2>1. CASE ResourceProfile
    BY <1>0, <2>1, ResourceProfileEffect
  <2>2. CASE EnableMetricsExporter
    BY <1>0, <2>2, EnableMetricsExporterEffect
  <2>3. CASE EnsureRbdMirrorDebugLogging
    BY <1>0, <2>3, EnsureRbdMirrorDebugLoggingEffect
  <2>4. CASE EnsureToolsDeployment /\ ~pass.deleting
    BY <1>0, <2>4, EnsureToolsDeploymentEffect
  <2>. QED
    BY <2>1, <2>2, <2>3, <2>4
<1>2. /\ Head(pass.todo) \notin {"Completion", "StatusUpdate"}
      /\ Head(pass.todo) # "CephCluster" /\ Head(pass.todo) # "NoobaaSystem"
      /\ Head(pass.todo) \in LateSteps => Head(pass.todo) # "ResourceProfile"
  BY <1>1 DEF LateSteps
<1>. QED
  BY <1>1, <1>2, LiveStepKeepsHealth

LEMMA UpdateKeepsHealth ==
  ASSUME HealthInv, UpdateStatus
  PROVE  Healthy'
<1> SUFFICES ASSUME Undisputed'
             PROVE  /\ Idle'
                    /\ status'.phase = "Ready" => CephWell' /\ NooBaaWell'
  BY DEF Healthy
<1>0. TypeOK
  BY DEF HealthInv, KeyInv
<1>1. /\ ~Idle /\ Head(pass.todo) = "StatusUpdate" /\ pass'.todo = <<>>
      /\ ~queued' => ~queued /\ status' = pass.status
      /\ UNCHANGED <<ready, script, gen, life, ceph>>
  BY <1>0, UpdateStatusEffect
<1>2. ~queued /\ status' = pass.status
  BY <1>1 DEF Undisputed
<1>3. PassKnows
  BY <1>1, <1>2 DEF HealthInv, Healthy, Undisputed
<1>4. pass.todo \in Seq(Steps) /\ pass.todo # <<>> /\ LiveShape(pass.todo)
  BY <1>0, <1>1, <1>3, TodoTyped DEF PassKnows
<1>5. "Completion" \notin Elements(pass.todo)
  BY <1>1, <1>4, InOrderOfTail
<1>6. status'.phase = "Ready" => CephWell /\ NooBaaWell
  BY <1>2, <1>3, <1>5 DEF PassKnows
<1>7. Idle'
  BY <1>1 DEF Idle
<1>. QED
  BY <1>1, <1>6, <1>7 DEF CephWell, NooBaaWell

LEMMA ReconcileKeepsHealth ==
  ASSUME HealthInv, Reconcile \/ ReconcileGone
  PROVE  Healthy'
<1> SUFFICES ASSUME Undisputed'
             PROVE  ~Idle' /\ PassKnows'
  BY DEF Healthy
<1>0. TypeOK
  BY DEF HealthInv, KeyInv
<1>1. UNCHANGED <<script, gen, life, ceph, ready>>
  BY DEF Reconcile, ReconcileGone, cluster, store, rook
<1>2. life = "live" /\ Reconcile
  BY <1>1 DEF Undisputed, ReconcileGone
<1> DEFINE todo == Managers(script[gen]) \o Completion
<1>3. /\ pass'.gen = gen /\ pass'.deleting = FALSE /\ pass'.todo = todo
      /\ pass'.negative = {}
  BY <1>0, <1>2, ReconcileEffect
<1>4. script[gen] \in ClusterSpec
  BY <1>0, ScriptTyped DEF TypeOK
<1>5. /\ LiveShape(todo) /\ "Completion" \in Elements(todo)
      /\ "NoobaaSystem" \in Elements(todo)
      /\ script[gen].mode = "internal" => "CephCluster" \in Elements(todo)
  BY <1>4, ManagersInOrder
<1> HIDE DEF todo
<1>6. Looked(pass.todo, pass.negative)'
  BY <1>1, <1>3, <1>5 DEF Looked, CephWell
<1>7. ~Idle'
  BY <1>3, <1>5 DEF Idle, Elements
<1>. QED
  BY <1>1, <1>3, <1>5, <1>6, <1>7 DEF PassKnows

(* What the others do while nothing is put into the queue.                 *)
LEMMA AroundKeepsHealth ==
  ASSUME HealthInv, Operators \/ Jobs \/ Environment \/ Offboard
  PROVE  Healthy'
<1> SUFFICES ASSUME Undisputed'
             PROVE  Healthy'
  BY DEF Healthy
<1>1. ~queued'
  BY DEF Undisputed
<1>2. CASE \/ RookStarts \/ RookFinishes \/ RookUpdates \/ CephFails
           \/ EditSpec \/ DeleteStorageCluster \/ Crash
  BY <1>1, <1>2
     DEF RookStarts, RookFinishes, RookUpdates, CephFails, CephBecomes,
         EditSpec, DeleteStorageCluster, Crash
<1>3. CASE \/ OnboardingJobDone \/ Onboard \/ Offboard
           \/ (\E o \in Reporting : BecomesReady(o))
           \/ (\E o \in Finalized : FinalizerRemoved(o))
           \/ \E j \in {"enable", "disable"} : LoggingJobDone(j)
  <2>1. /\ UNCHANGED <<script, gen, life, status, ceph, pass>>
        /\ ready \subseteq ready' /\ ~queued
    <3>1. CASE OnboardingJobDone \/ Onboard \/ Offboard
      BY <1>1, <3>1
         DEF OnboardingJobDone, Onboard, Offboard, cluster, rook, store
    <3>2. CASE \E o \in Reporting : BecomesReady(o)
      <4>1. PICK o \in Reporting : BecomesReady(o)
        BY <3>2
      <4>2. queued' = (queued \/ o \in Watched)
        BY <4>1 DEF BecomesReady
      <4>3. ~queued
        BY <1>1, <4>2
      <4>. QED
        BY <4>1, <4>3 DEF BecomesReady, cluster, rook
    <3>3. CASE \E o \in Finalized : FinalizerRemoved(o)
      <4>1. PICK o \in Finalized : FinalizerRemoved(o)
        BY <3>3
      <4>2. queued' = (queued \/ o \in Watched)
        BY <4>1 DEF FinalizerRemoved
      <4>3. ~queued /\ o \notin Watched
        BY <1>1, <4>2
      <4>4. o # "CephCluster"
        BY <4>3 DEF Watched
      <4>. QED
        BY <4>1, <4>3, <4>4 DEF FinalizerRemoved, cluster, rook
    <3>4. CASE \E j \in {"enable", "disable"} : LoggingJobDone(j)
      BY <1>1, <3>4 DEF LoggingJobDone, cluster, rook, store
    <3>. QED
      BY <1>3, <3>1, <3>2, <3>3, <3>4
  <2>2. Undisputed
    BY <2>1 DEF Undisputed
  <2>3. /\ CephWell => CephWell'
        /\ NooBaaWell => NooBaaWell'
    BY <2>1 DEF CephWell, NooBaaWell
  <2>4. CASE Idle
    BY <2>1, <2>2, <2>3, <2>4 DEF HealthInv, Healthy, Idle
  <2>5. CASE ~Idle
    <3>1. PassKnows
      BY <2>2, <2>5 DEF HealthInv, Healthy
    <3>2. PassKnows'
      BY <2>1, <2>3, <3>1 DEF PassKnows, Looked
    <3>. QED
      BY <2>1, <2>5, <3>2 DEF Healthy, Idle
  <2>. QED
    BY <2>4, <2>5
<1>. QED
  BY <1>2, <1>3 DEF Operators, Jobs, Environment

(* The state of the CephCluster keeps fitting.                             *)
LEMMA CephStateKept ==
  ASSUME CephStateFits, UNCHANGED <<script, gen, ceph>>,
         Present("CephCluster") => Present("CephCluster")'
  PROVE  CephStateFits'
BY DEF CephStateFits

LEMMA ControllerKeepsCephState ==
  ASSUME HealthInv, Controller
  PROVE  CephStateFits'
<1>0. TypeOK /\ CephStateFits
  BY DEF HealthInv, KeyInv
<1> SUFFICES /\ UNCHANGED <<script, gen, ceph>>
             /\ Present("CephCluster") => Present("CephCluster")'
  BY <1>0, CephStateKept
<1>1. CASE Reconcile \/ ReconcileGone
  BY <1>1 DEF Reconcile, ReconcileGone, cluster, rook, store, Present
<1>2. CASE Ensure \/ EnsureToolsDeployment
  BY <1>0, <1>2, EnsureEffect, EnsureToolsDeploymentEffect DEF LiveEffect
<1>3. CASE ResourceProfile \/ EvaluateConditions
  BY <1>0, <1>3, ResourceProfileEffect, EvaluateConditionsEffect
     DEF LiveEffect
<1>4. CASE EnableMetricsExporter \/ EnsureRbdMirrorDebugLogging
  BY <1>0, <1>4, EnableMetricsExporterEffect,
     EnsureRbdMirrorDebugLoggingEffect DEF LiveEffect
<1>5. CASE UpdateStatus
  BY <1>0, <1>5, UpdateStatusEffect DEF Present
<1>6. CASE Uninstall
  BY <1>0, <1>6, UninstallHas DEF UninstallEffect, DeletionEffect, Present
<1>. QED
  BY <1>1, <1>2, <1>3, <1>4, <1>5, <1>6 DEF Controller, Finish

LEMMA ModeKept ==
  ASSUME TypeOK
  PROVE  \A i \in DOMAIN script : script[i].mode = script[gen].mode
BY ScriptAssumption DEF TypeOK

LEMMA AroundKeepsCephState ==
  ASSUME HealthInv, Operators \/ Jobs \/ Environment \/ Offboard
  PROVE  CephStateFits'
<1>0. TypeOK /\ CephStateFits
  BY DEF HealthInv, KeyInv
<1>1. CASE RookStarts \/ RookFinishes \/ RookUpdates \/ CephFails
  <2>1. /\ UNCHANGED <<script, gen, written>>
        /\ Present("CephCluster")
        /\ script[gen].mode # "external" =>
             ceph' \notin {"Connecting", "Connected"}
    <3>1. CASE RookStarts
      BY <3>1 DEF RookStarts, CephBecomes, IsExternal, cluster, store
    <3>2. CASE RookFinishes \/ RookUpdates \/ CephFails
      BY <1>0, <3>2
         DEF RookFinishes, RookUpdates, CephFails, CephBecomes, IsExternal,
             cluster, store, CephStateFits
    <3>. QED
      BY <1>1, <3>1, <3>2
  <2>. QED
    BY <2>1 DEF CephStateFits, Present
<1>2. CASE \E o \in Finalized : FinalizerRemoved(o)
  <2>1. PICK o \in Finalized : FinalizerRemoved(o)
    BY <1>2
  <2>2. /\ UNCHANGED <<script, gen>>
        /\ written' = [written EXCEPT ![o] = 0]
        /\ IF o = "CephCluster" THEN ceph' = "" ELSE ceph' = ceph
    BY <2>1 DEF FinalizerRemoved, cluster, rook
  <2>3. CASE o = "CephCluster"
    BY <2>2, <2>3 DEF CephStateFits
  <2>4. CASE o # "CephCluster"
    <3>1. written'["CephCluster"] = written["CephCluster"]
      BY <1>0, <2>2, <2>4, CephFinalized DEF TypeOK
    <3>. QED
      BY <1>0, <2>2, <2>4, <3>1, CephStateKept DEF Present
  <2>. QED
    BY <2>3, <2>4
<1>3. CASE OnboardingJobDone
  <2>1. /\ written' = [written EXCEPT !["OnboardingJob"] = 0,
                                      !["OnboardingKey"] = 1]
        /\ UNCHANGED <<script, gen, ceph>>
    BY <1>3 DEF OnboardingJobDone, cluster, rook
  <2>2. written'["CephCluster"] = written["CephCluster"]
    BY <1>0, <2>1, CephFinalized DEF TypeOK
  <2>. QED
    BY <1>0, <2>1, <2>2, CephStateKept DEF Present
<1>4. CASE EditSpec
  <2>1. gen' = gen + 1 /\ UNCHANGED <<script, ceph, written>>
    BY <1>4 DEF EditSpec, rook, store
  <2>2. gen' \in DOMAIN script
    BY <1>0, <1>4, <2>1, EnvironmentTyped DEF Environment, TypeOK
  <2>3. script[gen'].mode = script[gen].mode
    BY <1>0, <2>2, ModeKept
  <2>. QED
    BY <1>0, <2>1, <2>3 DEF CephStateFits, Present
<1>5. CASE \/ DeleteStorageCluster \/ Crash \/ Onboard \/ Offboard
           \/ (\E o \in Reporting : BecomesReady(o))
           \/ \E j \in {"enable", "disable"} : LoggingJobDone(j)
  <2>1. UNCHANGED <<script, gen, ceph, written>>
    BY <1>5
       DEF DeleteStorageCluster, Crash, Onboard, Offboard, BecomesReady,
           LoggingJobDone, cluster, rook, store
  <2>. QED
    BY <1>0, <2>1, CephStateKept DEF Present
<1>. QED
  BY <1>1, <1>2, <1>3, <1>4, <1>5 DEF Operators, Jobs, Environment

LEMMA ControllerKeepsHealth ==
  ASSUME HealthInv, Controller
  PROVE  Healthy'
<1>0. TypeOK
  BY DEF HealthInv, KeyInv
<1>1. CASE Uninstall \/ (EnsureToolsDeployment /\ pass.deleting)
  <2>1. ~Idle /\ pass.deleting /\ life' \in {life, "gone"}
    BY <1>0, <1>1, UninstallHas, EnsureToolsDeploymentEffect
       DEF UninstallEffect, LiveEffect
  <2>2. life # "live"
    BY <2>1 DEF HealthInv, KeyInv, DeletedInOrder
  <2>. QED
    BY <2>1, <2>2 DEF Healthy, Undisputed
<1>2. CASE \/ ResourceProfile \/ EnableMetricsExporter
           \/ EnsureRbdMirrorDebugLogging
           \/ (EnsureToolsDeployment /\ ~pass.deleting)
  BY <1>2, LateStepsKeepHealth
<1>. QED
  BY <1>1, <1>2, ReconcileKeepsHealth, EnsureKeepsHealth,
     EvaluationKeepsHealth, UpdateKeepsHealth DEF Controller, Finish

(* A cluster that is left alone in phase Ready is well: the pass that      *)
(* wrote the phase found Ceph finished, NooBaa ready when it came to it,   *)
(* and everything that could have changed that since puts the cluster back *)
(* into the queue.                                                         *)
THEOREM ReadyMeansHealthyHolds == Spec => []ReadyMeansHealthy
<1>1. Init => HealthInv
  <2> SUFFICES ASSUME Init
               PROVE  HealthInv
    OBVIOUS
  <2>1. KeyInv
    BY InitKeepsKeys
  <2>2. ceph = "" /\ queued = TRUE
    BY DEF Init
  <2>. QED
    BY <2>1, <2>2 DEF HealthInv, CephStateFits, Healthy, Undisputed
<1>2. HealthInv /\ [Next]_vars => HealthInv'
  <2> SUFFICES ASSUME HealthInv, [Next]_vars
               PROVE  CephStateFits' /\ Healthy'
    BY NextKeepsKeys DEF HealthInv
  <2>1. CASE Controller
    BY <2>1, ControllerKeepsCephState, ControllerKeepsHealth
  <2>2. CASE Operators \/ Jobs \/ Environment \/ Offboard
    BY <2>2, AroundKeepsCephState, AroundKeepsHealth
  <2>3. CASE UNCHANGED vars
    <3>1. UNCHANGED <<script, gen, life, status, written, ready, ceph, pass,
                      queued>>
      BY <2>3 DEF vars, cluster, store, rook
    <3>2. CephStateFits'
      BY <3>1 DEF HealthInv, CephStateFits, Present
    <3>3. Healthy'
      BY <3>1 DEF HealthInv, Healthy, Undisputed, Idle, PassKnows, Looked,
                  CephWell, NooBaaWell
    <3>. QED
      BY <3>2, <3>3
  <2>. QED
    BY <2>1, <2>2, <2>3 DEF Next
<1>3. HealthInv => ReadyMeansHealthy
  BY DEF HealthInv, Healthy, Undisputed, ReadyMeansHealthy, Settled,
         CephWell, NooBaaWell
<1>. QED
  BY <1>1, <1>2, <1>3, PTL DEF Spec

=============================================================================
