---------------------------- MODULE DeliveryProofs ----------------------------
(***************************************************************************)
(* Proofs about what ResourcePipeline leaves behind: a cluster left alone  *)
(* in phase Ready has what its spec asks for, NooBaa never lives without   *)
(* its storage class, and the finalizer of a deleted cluster goes last.    *)
(*                                                                         *)
(* Each needs to know of a manager what it writes, makes up for what fails *)
(* and leaves for the next pass; that comes first.                         *)
(***************************************************************************)
EXTENDS ResourcePipelineProofs

When(condition, set) == IF condition THEN set ELSE {}

-----------------------------------------------------------------------------
(* What each step of a live pass is there for                              *)

(* What is up to date after a step that went on.                           *)
Due(s, step) ==
  IF s.mode # "internal" THEN {} ELSE
  CASE step = "ProviderServer" ->
         When(Has(s, "consumers"), Elements(ProviderObjects(s)))
    [] step = "StorageClient" ->
         When(Has(s, "consumers"), Elements(NewStorageClient(s)))
    [] step = "BackingStorageClasses" -> Elements(NewBackingStorageClasses(s))
    [] step = "StorageQuota" -> Elements(NewStorageQuotas(s))
    [] step = "CephCluster" ->
         When(s.strategy["CephCluster"] = "manage",
              Elements(NewCephCluster(s)))
    [] step = "CephBlockPools" ->
         When(s.strategy["CephBlockPools"] = "manage",
              Elements(NewCephBlockPoolInstances(s)))
    [] step = "CephFilesystems" ->
         When(s.strategy["CephFilesystems"] = "manage",
              Elements(NewCephFilesystemInstances(s)
                         \o DefaultSubvolumeGroup(s)))
    [] step = "CephNFS" -> When(Has(s, "nfs"), Elements(NewCephNFSInstances(s)))
    [] step = "CephNFSService" ->
         When(Has(s, "nfs"),
              Elements(NewNFSServices(s) \o NewNFSServiceMonitors(s)))
    [] step = "CephObjectStores" ->
         When(s.strategy["CephObjectStores"] = "manage" /\ ~SkipObjectStore,
              Elements(NewCephObjectStoreInstances(s)))
    [] step = "CephObjectStoreUsers" ->
         When(s.strategy["CephObjectStoreUsers"] = "manage"
                /\ ~SkipObjectStore,
              Elements(NewCephObjectStoreUserInstances(s)))
    [] step = "StorageClass" ->
         {c \in Elements(NewStorageClassConfigurations(s)) :
            c \notin s.disabled /\ ClassStrategy(s, c) = "manage"}
    [] step = "SnapshotClass" ->
         {c \in Elements(NewSnapshotClassConfigurations(s)) :
            c \notin s.disabled /\ ClassStrategy(s, c) = "manage"}
    [] step = "JobTemplates" ->
         Elements(OsdCleanUpTemplate(s) \o ExtendClusterTemplate(s))
    [] step = "CephRbdMirrors" ->
         When(s.strategy["CephRBDMirror"] # "ignore" /\ Has(s, "mirroring"),
              Elements(NewCephRbdMirrorInstances(s)))
    [] step = "ClusterClaim" -> Elements(NewClusterClaims(s))
    [] step = "MetricsExporter" ->
         When(s.strategy["Monitoring"] # "ignore",
              Elements(NewMetricsExporter(s)))
    [] OTHER -> {}

Inits(s, kind) == s.mode = "internal" /\ s.strategy[kind] = "init"

(* What is there after it, of what is only initialised.  A pool or a       *)
(* filesystem of a storage class is known to be there once the class is    *)
(* made: it was ready, and nothing that is about to go is.                 *)
Kept(s, step) ==
  CASE step = "CephCluster" -> When(Inits(s, "CephCluster"), {"CephCluster"})
    [] step = "CephBlockPools" ->
         When(Inits(s, "CephBlockPools") /\ "RBDClass" \in s.disabled,
              {"CephBlockPool"})
    [] step = "CephFilesystems" ->
         When(Inits(s, "CephFilesystems") /\ "CephFSClass" \in s.disabled,
              {"CephFilesystem"})
    [] step = "CephObjectStores" ->
         When(Inits(s, "CephObjectStores") /\ ~SkipObjectStore,
              {"CephObjectStore"})
    [] step = "CephObjectStoreUsers" ->
         When(Inits(s, "CephObjectStoreUsers") /\ ~SkipObjectStore,
              {"CephObjectStoreUser"})
    [] step = "StorageClass" ->
         When(Inits(s, "CephBlockPools") /\ "RBDClass" \notin s.disabled,
              {"CephBlockPool"})
           \cup When(Inits(s, "CephFilesystems")
                       /\ "CephFSClass" \notin s.disabled,
                     {"CephFilesystem"})
    [] OTHER -> {}

IgnoresNooBaa(s) == s.strategy["MultiCloudGateway"] = "ignore"

(* The objects whose step in an uninstall does not always wait for them,   *)
(* and NooBaa: who makes them.                                             *)
Traced == {"NonResilientPools", "NFSPool", "CephRBDMirror"}

Makes(s, step) ==
  CASE step = "CephBlockPools" -> Elements(NewCephBlockPoolInstances(s))
    [] step = "CephRbdMirrors" -> When(Has(s, "mirroring"), {"CephRBDMirror"})
    [] step = "NoobaaSystem" -> When(~IgnoresNooBaa(s), {"NooBaa"})
    [] OTHER -> {}

(* What a live pass may delete.                                            *)
Dispensable(s) ==
  Elements(NewToolsDeployment(s))
    \cup When(~Has(s, "consumers"),
              Elements(ProviderObjects(s)) \cup Elements(NewStorageClient(s)))
    \cup When(~Has(s, "backing"), {"BackingClass"})
    \cup When(~Has(s, "mirroring"), Elements(NewCephRbdMirrorInstances(s)))

-----------------------------------------------------------------------------
(* The effect of a manager                                                 *)

GaveUp == queued' /\ pass'.todo = LastSteps

(* Of two steps nothing is said.  The entries of an external cluster are   *)
(* not all delivered; and the loop over the snapshot classes ends with the *)
(* first that is there and only initialised, so a managed one that comes   *)
(* after such a one need not be brought up to date.                        *)
SnapshotsOrdered(s) ==
  LET classes == NewSnapshotClassConfigurations(s) IN
  \A j, k \in DOMAIN classes :
    j < k /\ {classes[j], classes[k]} \cap s.disabled = {}
      /\ ClassStrategy(s, classes[j]) = "init" =>
    ClassStrategy(s, classes[k]) # "manage"

Unclaimed(s, step) ==
  \/ step = "ExternalResources"
  \/ step = "SnapshotClass" /\ ~SnapshotsOrdered(s)

Brought(puts, over) ==
  /\ puts \cap dying \subseteq Watched
  /\ Due(sc, Head(pass.todo)) \subseteq puts \cup over
  /\ \A o \in Kept(sc, Head(pass.todo)) :
       \/ o \in puts \cup over \/ o \in ready
       \/ Present(o) /\ Head(pass.todo) # "StorageClass"

(* A pass that fails may have deleted a class to make it again.            *)
Replacing == GaveUp /\ ~pass.deleting

Effect(puts, dels, over) ==
  /\ WriteExcept(puts, dels, over)
  /\ over \subseteq Objects
  /\ dels \subseteq Dispensable(sc) \cup (over \cap {"BackingClass"})
                     \cup When(Replacing, StorageClasses)
  /\ puts \cap (Traced \cup {"NooBaa"}) \subseteq Makes(sc, Head(pass.todo))
  /\ GaveUp \/ Unclaimed(sc, Head(pass.todo)) \/ Brought(puts, over)

Works == \E puts, dels, over : Effect(puts, dels, over)

LEMMA OnlyOkGoesOn ==
  ASSUME TypeOK, ~Idle, NEW p \in PassRecord, NEW out, NEW again,
         Managed(p, out, again), out # "ok"
  PROVE  GaveUp
<1> DEFINE s == InLoop(p.status, p.expanding)
<1>1. s \in Status
  BY InLoopTyped DEF PassRecord
<1>2. "Progressing" \in Phases /\ "Error" \in Phases
  BY DEF Phases
<1>3. /\ [s EXCEPT !.phase = "Progressing"] \in Status
      /\ [s EXCEPT !.phase = "Error"] \in Status
  BY <1>1, <1>2, PhaseTyped
<1>4. \E t \in Status : GiveUp([p EXCEPT !.status = t])
  <2> HIDE DEF s
  <2>1. CASE out = "wait"
    BY <1>1, <2>1 DEF Managed, s
  <2>2. CASE out = "skipped"
    BY <1>3, <2>2 DEF Managed, s
  <2>3. CASE out \notin {"ok", "wait", "skipped"}
    BY <1>3, <2>3 DEF Managed, s
  <2>. QED
    BY <2>1, <2>2, <2>3
<1>5. PICK t \in Status : GiveUp([p EXCEPT !.status = t])
  BY <1>4
<1> DEFINE q == [p EXCEPT !.status = t]
<1>6. q \in PassRecord
  BY StatusInPass
<1> HIDE DEF q
<1>. QED
  BY <1>5, <1>6, GiveUpTyped DEF q, GaveUp

LEMMA ErrorGivesUp ==
  ASSUME TypeOK, ~Idle, Managed(pass, "error", FALSE)
  PROVE  GaveUp
BY PassTyped, OnlyOkGoesOn

(* A failed call and an empty step.                                        *)
LEMMA NoWorkOf ==
  ASSUME NoWrite,
         GaveUp \/ (Due(sc, Head(pass.todo)) = {}
                      /\ Kept(sc, Head(pass.todo)) = {})
  PROVE  Works
<1>1. WriteExcept({}, {}, {})
  BY DEF NoWrite, Write
<1>2. Effect({}, {}, {})
  BY <1>1 DEF Effect, Brought
<1>. QED
  BY <1>2 DEF Works

LEMMA CreatesWrites ==
  ASSUME TypeOK, ~Idle, NEW objects \in Seq(Objects), NEW out,
         Creates(objects, out)
  PROVE  \E puts \in SUBSET Elements(objects) :
           /\ Write(puts, {})
           /\ GaveUp \/ (puts = Elements(objects) /\ out = "ok")
<1>1. CASE Write(Elements(objects), {})
             /\ Managed(pass, out, Event(Elements(objects)))
  <2>1. out # "ok" => GaveUp
    BY <1>1, PassTyped, OnlyOkGoesOn
  <2>. QED
    BY <1>1, <2>1
<1>2. CASE /\ \E n \in 0..Len(objects) : Write(Prefix(objects, n), {})
           /\ Managed(pass, "error", FALSE)
  BY <1>2, ErrorGivesUp, PrefixOf
<1>. QED
  BY <1>1, <1>2 DEF Creates

(* A manager that creates objects without a finalizer.                     *)
LEMMA CreatesPlainly ==
  ASSUME TypeOK, ~Idle, NEW objects \in Seq(Objects), NEW out,
         Creates(objects, out),
         Elements(objects) \cap Finalized = {},
         out = "ok" => Due(sc, Head(pass.todo)) \subseteq Elements(objects),
         Kept(sc, Head(pass.todo)) = {}
  PROVE  Works
<1>1. PICK puts \in SUBSET Elements(objects) :
        /\ Write(puts, {})
        /\ GaveUp \/ (puts = Elements(objects) /\ out = "ok")
  BY CreatesWrites
<1>2. dying \subseteq Finalized
  BY DEF TypeOK
<1>3. Traced \cup {"NooBaa"} \subseteq Finalized
  BY DEF Traced, Finalized, RookObjects
<1>4. Effect(puts, {}, {})
  BY <1>1, <1>2, <1>3 DEF Effect, Brought, Write
<1>. QED
  BY <1>4 DEF Works

(* A loop over the objects of a kind makes the objects before the one that *)
(* stops it.  It makes none that is marked for deletion.                   *)
Restored(objects, strategy, puts, over) ==
  /\ puts \cap dying = {}
  /\ strategy # "init" => Elements(objects) \subseteq puts \cup over
  /\ strategy = "init" /\ objects # <<>> =>
       objects[1] \in puts \cup over \/ Present(objects[1])

DyingThere == \A o \in dying : Present(o)

LEMMA ShortIs ==
  ASSUME NEW objects, Short(objects)
  PROVE  /\ objects \in Seq(Objects)
         /\ Len(objects) \in 0..3 /\ DOMAIN objects = 1..Len(objects)
         /\ objects # <<>> => 1 \in DOMAIN objects
<1>1. objects \in Seq(Objects) /\ Len(objects) <= 3
  BY DEF Short
<1>2. Len(objects) \in Nat /\ DOMAIN objects = 1..Len(objects)
  BY <1>1
<1>3. objects # <<>> => Len(objects) # 0
  BY <1>1, EmptySeq
<1>. QED
  BY <1>1, <1>2, <1>3

LEMMA UpToStopIs ==
  ASSUME NEW objects, Short(objects), NEW strategy, NEW over, DyingThere
  PROVE  LET all == UpToStop(objects, strategy, over) IN
         /\ all \in Seq(Objects)
         /\ Elements(all) \subseteq Elements(objects)
         /\ Elements(all) \cap dying \subseteq over
         /\ StopOutcome(objects, strategy, over) = "ok"
              /\ strategy # "init" => all = objects
         /\ objects # <<>> =>
              objects[1] \in Elements(all) \/ Present(objects[1])
<1> DEFINE stops == Stops(objects, strategy, over)
           all == UpToStop(objects, strategy, over)
<1>1. /\ objects \in Seq(Objects)
      /\ Len(objects) \in 0..3 /\ DOMAIN objects = 1..Len(objects)
      /\ objects # <<>> => 1 \in DOMAIN objects
  BY ShortIs
<1>2. ASSUME NEW i \in DOMAIN objects, objects[i] \in dying, i \notin stops
      PROVE  objects[i] \in over
  BY <1>2 DEF DyingThere, Stops
<1>3. ASSUME NEW i \in DOMAIN objects, i \in stops
      PROVE  Present(objects[i])
  BY <1>3 DEF Stops
<1>4. CASE stops = {}
  <2>1. all = objects
    BY <1>4 DEF UpToStop
  <2>2. Elements(objects) \cap dying \subseteq over
    BY <1>2, <1>4 DEF Elements
  <2>3. objects # <<>> => objects[1] \in Elements(objects)
    BY <1>1 DEF Elements
  <2>. QED
    BY <1>1, <2>1, <2>2, <2>3
<1>5. CASE stops # {}
  <2> DEFINE k == First(stops)
  <2>1. stops \subseteq DOMAIN objects
    BY DEF Stops
  <2>2. stops \in SUBSET (1..3)
    BY <1>1, <2>1
  <2>3. k \in stops /\ \A j \in stops : k <= j
    BY <1>5, <2>2, FirstOfThree
  <2>4. k \in 1..Len(objects) /\ all = SubSeq(objects, 1, k - 1)
    BY <1>1, <1>5, <2>1, <2>3 DEF UpToStop
  <2> HIDE DEF k, stops, all
  <2>5. /\ all \in Seq(Objects) /\ Len(all) = k - 1
        /\ \A i \in 1..(k - 1) : all[i] = objects[i]
    BY <1>1, <2>4
  <2>6. DOMAIN all = 1..(k - 1)
    BY <1>1, <2>4, <2>5
  <2>7. \A i \in DOMAIN all : i \in DOMAIN objects /\ all[i] = objects[i]
                                /\ i \notin stops
    BY <1>1, <2>3, <2>4, <2>5, <2>6
  <2>8. Elements(all) \subseteq Elements(objects)
    BY <2>7 DEF Elements
  <2>9. Elements(all) \cap dying \subseteq over
    BY <1>2, <2>7 DEF Elements
  <2>10. strategy # "init" => StopOutcome(objects, strategy, over) = "error"
    BY <1>5 DEF StopOutcome, stops
  <2>11. objects[1] \in Elements(all) \/ Present(objects[1])
    <3>1. CASE k = 1
      BY <1>3, <2>1, <2>3, <3>1
    <3>2. CASE k # 1
      <4>1. 1 \in DOMAIN all
        BY <1>1, <2>4, <2>6, <3>2
      <4>. QED
        BY <2>7, <4>1 DEF Elements
    <3>. QED
      BY <3>1, <3>2
  <2>. QED
    BY <2>5, <2>8, <2>9, <2>10, <2>11 DEF all
<1>. QED
  BY <1>4, <1>5

Writes(objects, strategy, loose) ==
  \E puts \in SUBSET Elements(objects), over \in SUBSET Elements(loose) :
    /\ WriteExcept(puts, {}, over)
    /\ GaveUp \/ Restored(objects, strategy, puts, over)

LEMMA RestoresWrites ==
  ASSUME TypeOK, ~Idle, DyingThere, NEW objects, Short(objects),
         NEW strategy, NEW loose, Restores(objects, strategy)
  PROVE  Writes(objects, strategy, loose)
<1> DEFINE all == UpToStop(objects, strategy, {})
           out == StopOutcome(objects, strategy, {})
<1>1. /\ all \in Seq(Objects)
      /\ Elements(all) \subseteq Elements(objects)
      /\ Elements(all) \cap dying \subseteq {}
      /\ out = "ok" /\ strategy # "init" => all = objects
      /\ objects # <<>> =>
           objects[1] \in Elements(all) \/ Present(objects[1])
  BY UpToStopIs
<1>2. Creates(all, out)
  BY DEF Restores
<1> HIDE DEF all, out
<1>3. PICK puts \in SUBSET Elements(all) :
        /\ Write(puts, {})
        /\ GaveUp \/ (puts = Elements(all) /\ out = "ok")
  BY <1>1, <1>2, CreatesWrites
<1>4. WriteExcept(puts, {}, {})
  BY <1>3 DEF Write
<1>5. GaveUp \/ Restored(objects, strategy, puts, {})
  BY <1>1, <1>3 DEF Restored
<1>. QED
  BY <1>1, <1>3, <1>4, <1>5 DEF Writes

LEMMA PassesOverWrites ==
  ASSUME TypeOK, ~Idle, DyingThere, NEW objects, Short(objects),
         NEW strategy, NEW loose, PassesOver(objects, strategy, loose)
  PROVE  Writes(objects, strategy, loose)
<1>1. PICK o \in Elements(loose) :
        /\ WriteExcept(Elements(UpToStop(objects, strategy, {o})) \ {o},
                       {}, {o})
        /\ Managed(pass, StopOutcome(objects, strategy, {o}), FALSE)
  BY DEF PassesOver
<1> DEFINE all == UpToStop(objects, strategy, {o})
           out == StopOutcome(objects, strategy, {o})
           puts == Elements(all) \ {o}
<1>2. /\ Elements(all) \subseteq Elements(objects)
      /\ Elements(all) \cap dying \subseteq {o}
      /\ out = "ok" /\ strategy # "init" => all = objects
      /\ objects # <<>> =>
           objects[1] \in Elements(all) \/ Present(objects[1])
  BY UpToStopIs
<1>3. WriteExcept(puts, {}, {o})
  BY <1>1
<1>4. out = "ok" \/ GaveUp
  BY <1>1, PassTyped, OnlyOkGoesOn
<1> HIDE DEF all, out
<1>5. GaveUp \/ Restored(objects, strategy, puts, {o})
  BY <1>2, <1>4 DEF Restored
<1>6. puts \in SUBSET Elements(objects) /\ {o} \in SUBSET Elements(loose)
  BY <1>2
<1> HIDE DEF puts
<1>. QED
  BY <1>3, <1>5, <1>6 DEF Writes

LEMMA RestoresLooselyWrites ==
  ASSUME TypeOK, ~Idle, DyingThere, NEW objects, Short(objects),
         NEW strategy, NEW loose, RestoresLoosely(objects, strategy, loose)
  PROVE  Writes(objects, strategy, loose)
BY RestoresWrites, PassesOverWrites DEF RestoresLoosely

(* A manager that restores its objects does its work.                      *)
LEMMA RestoringWorks ==
  ASSUME NEW objects, NEW strategy,
         NEW loose, Elements(loose) \subseteq Objects,
         Writes(objects, strategy, loose),
         Elements(objects) \cap (Traced \cup {"NooBaa"})
           \subseteq Makes(sc, Head(pass.todo)),
         Due(sc, Head(pass.todo)) # {} =>
           /\ strategy # "init"
           /\ Due(sc, Head(pass.todo)) \subseteq Elements(objects),
         Head(pass.todo) # "StorageClass",
         Kept(sc, Head(pass.todo)) # {} =>
           objects # <<>> /\ Kept(sc, Head(pass.todo)) = {objects[1]},
         strategy # "init" =>
           Kept(sc, Head(pass.todo)) \subseteq Elements(objects)
  PROVE  Works
<1>1. PICK puts \in SUBSET Elements(objects), over \in SUBSET Elements(loose) :
        /\ WriteExcept(puts, {}, over)
        /\ GaveUp \/ Restored(objects, strategy, puts, over)
  BY DEF Writes
<1>2. ASSUME Restored(objects, strategy, puts, over)
      PROVE  Brought(puts, over)
  <2>1. puts \cap dying \subseteq Watched
    BY <1>2 DEF Restored
  <2>2. Due(sc, Head(pass.todo)) \subseteq puts \cup over
    BY <1>2 DEF Restored
  <2>3. ASSUME NEW o \in Kept(sc, Head(pass.todo))
        PROVE  o \in puts \cup over \/ Present(o)
    BY <1>2, <2>3 DEF Restored
  <2>. QED
    BY <2>1, <2>2, <2>3 DEF Brought
<1>3. Effect(puts, {}, over)
  BY <1>1, <1>2 DEF Effect
<1>. QED
  BY <1>3 DEF Works

-----------------------------------------------------------------------------
(* The managers one by one                                                 *)

(* Which objects are only initialised.                                     *)
InitSteps == {"CephCluster", "CephBlockPools", "CephFilesystems",
              "CephObjectStores", "CephObjectStoreUsers", "StorageClass"}

LEMMA KeptElsewhere ==
  ASSUME NEW s, NEW step, step \notin InitSteps
  PROVE  Kept(s, step) = {}
BY DEF Kept, InitSteps

LEMMA DueOfPlainSteps ==
  ASSUME NEW s
  PROVE  /\ Due(s, "ProviderServer") \subseteq
              When(Has(s, "consumers"), Elements(ProviderObjects(s)))
         /\ Due(s, "StorageClient") \subseteq
              When(Has(s, "consumers"), Elements(NewStorageClient(s)))
         /\ Due(s, "BackingStorageClasses") \subseteq
              Elements(NewBackingStorageClasses(s))
         /\ Due(s, "StorageQuota") \subseteq Elements(NewStorageQuotas(s))
         /\ Due(s, "JobTemplates") \subseteq
              Elements(OsdCleanUpTemplate(s) \o ExtendClusterTemplate(s))
         /\ Due(s, "ClusterClaim") \subseteq Elements(NewClusterClaims(s))
         /\ Due(s, "MetricsExporter") \subseteq
              When(s.strategy["Monitoring"] # "ignore",
                   Elements(NewMetricsExporter(s)))
BY DEF Due, When

LEMMA NothingDue ==
  ASSUME NEW s,
         NEW step \in {"TopologyMap", "CephConfig", "CephRGWRoutes",
                       "NoobaaSystem", "ExternalResources",
                       "ResourceProfile", "Completion", "MirrorDebugLogging",
                       "Tools", "StatusUpdate"}
  PROVE  Due(s, step) = {} /\ Kept(s, step) = {}
BY DEF Due, Kept

(* What a list put together from two has.                                  *)
LEMMA ElementsOfBoth ==
  ASSUME NEW S, NEW s \in Seq(S), NEW t \in Seq(S)
  PROVE  /\ s \o t \in Seq(S)
         /\ Elements(s \o t) = Elements(s) \cup Elements(t)
         /\ s # <<>> => s \o t # <<>> /\ (s \o t)[1] = s[1]
<1> DEFINE n == Len(s)
           m == Len(t)
           u == s \o t
<1>1. /\ n \in Nat /\ m \in Nat /\ DOMAIN s = 1..n /\ DOMAIN t = 1..m
      /\ s # <<>> => n # 0
  BY EmptySeq
<1>2. /\ u \in Seq(S) /\ Len(u) = n + m
      /\ \A i \in 1..(n + m) : u[i] = IF i <= n THEN s[i] ELSE t[i - n]
  BY ConcatIs
<1> HIDE DEF u, n, m
<1>3. DOMAIN u = 1..(n + m)
  BY <1>1, <1>2
<1>4. ASSUME NEW i \in DOMAIN u
      PROVE  u[i] \in Elements(s) \cup Elements(t)
  <2>1. CASE i <= n
    BY <1>1, <1>2, <1>3, <2>1 DEF Elements
  <2>2. CASE ~(i <= n)
    <3>1. i - n \in 1..m /\ u[i] = t[i - n]
      BY <1>1, <1>2, <1>3, <2>2
    <3>. QED
      BY <1>1, <3>1 DEF Elements
  <2>. QED
    BY <2>1, <2>2
<1>5. ASSUME NEW i \in DOMAIN s
      PROVE  i \in DOMAIN u /\ u[i] = s[i]
  BY <1>1, <1>2, <1>3
<1>6. ASSUME NEW i \in DOMAIN t
      PROVE  t[i] \in Elements(u)
  <2>1. i + n \in 1..(n + m) /\ ~(i + n <= n) /\ (i + n) - n = i
    BY <1>1
  <2>2. u[i + n] = t[i]
    BY <1>2, <2>1
  <2>. QED
    BY <1>3, <2>1, <2>2 DEF Elements
<1>7. Elements(u) = Elements(s) \cup Elements(t)
  BY <1>4, <1>5, <1>6 DEF Elements
<1>8. s # <<>> => 1 \in DOMAIN u /\ u[1] = s[1]
  BY <1>1, <1>5
<1>9. s # <<>> => u # <<>>
  BY <1>8
<1>. QED
  BY <1>2, <1>7, <1>8, <1>9 DEF u

LEMMA SequencesOfObjects ==
  ASSUME NEW s
  PROVE  /\ ProviderObjects(s) \in Seq(Objects)
         /\ GetProviderAPIServerSecret(s) \o GetProviderAPIServerService(s)
              \in Seq(Objects)
         /\ Elements(GetProviderAPIServerSecret(s)
              \o GetProviderAPIServerService(s))
              \subseteq {"ProviderSecret", "ProviderService"}
         /\ ProviderObjects(s) \o JobToCreate \in Seq(Objects)
         /\ Elements(ProviderObjects(s)) \subseteq
              Elements(ProviderObjects(s) \o JobToCreate)
         /\ Elements(ProviderObjects(s) \o JobToCreate) \subseteq
              {"ProviderSecret", "ProviderService", "ProviderDeployment",
               "OnboardingJob"}
<1> DEFINE S == {"ProviderSecret", "ProviderService", "ProviderDeployment",
                 "OnboardingJob"}
           a == GetProviderAPIServerSecret(s)
           b == GetProviderAPIServerService(s)
           c == GetProviderAPIServerDeployment(s)
           d == JobToCreate
<1>1. a \in Seq(S) /\ b \in Seq(S) /\ c \in Seq(S)
        /\ Elements(a) = {"ProviderSecret"}
        /\ Elements(b) = {"ProviderService"}
  BY DEF GetProviderAPIServerSecret, GetProviderAPIServerService,
         GetProviderAPIServerDeployment, Elements
<1>2. d \in Seq(S)
  <2>1. <<>> \in Seq(S) /\ <<"OnboardingJob">> \in Seq(S)
    OBVIOUS
  <2>2. d = <<>> \/ d = <<"OnboardingJob">>
    BY Zenon DEF JobToCreate, Optional, GetOnboardingJobObject
  <2>. QED
    BY <2>1, <2>2
<1>3. ProviderObjects(s) = (a \o b) \o c
  BY DEF ProviderObjects
<1>4. S \subseteq Objects
  BY DEF Objects
<1> HIDE DEF S, a, b, c, d
<1>5. a \o b \in Seq(S) /\ Elements(a \o b) = Elements(a) \cup Elements(b)
  BY <1>1, ElementsOfBoth
<1>6. (a \o b) \o c \in Seq(S)
  BY <1>1, <1>5, ElementsOfBoth
<1>7. /\ ((a \o b) \o c) \o d \in Seq(S)
      /\ Elements(((a \o b) \o c) \o d)
           = Elements((a \o b) \o c) \cup Elements(d)
  BY <1>2, <1>6, ElementsOfBoth
<1>8. \A t \in Seq(S) : t \in Seq(Objects) /\ Elements(t) \subseteq S
  BY <1>4 DEF Elements
<1>. QED
  BY <1>1, <1>3, <1>5, <1>6, <1>7, <1>8 DEF a, b, d, S

LEMMA PlainlyUnfinalized ==
  /\ {"ProviderSecret", "ProviderService", "ProviderDeployment",
      "OnboardingJob"} \cap Finalized = {}
  /\ {"ClusterResourceQuota", "RookConfigOverride", "OsdRemovalTemplate",
      "ExtendClusterTemplate", "ClusterClaims", "BackingClass",
      "NFSService", "NFSServiceMonitor"} \cap Finalized = {}
  /\ {"ClusterResourceQuota", "RookConfigOverride", "OsdRemovalTemplate",
      "ExtendClusterTemplate", "ClusterClaims", "BackingClass",
      "StorageClient", "ToolsDeployment"} \subseteq Objects
BY DEF Finalized, RookObjects, Objects

LEMMA ProviderServerWorks ==
  ASSUME TypeOK, EnsureProviderServer
  PROVE  Works
<1>1. ~Idle /\ Head(pass.todo) = "ProviderServer"
  BY DEF EnsureProviderServer, At
<1>2. Kept(sc, "ProviderServer") = {}
  BY KeptElsewhere DEF InitSteps
<1>3. Due(sc, "ProviderServer") \subseteq
        When(Has(sc, "consumers"), Elements(ProviderObjects(sc)))
  BY DueOfPlainSteps
<1>4. CASE ~Has(sc, "consumers")
  <2>1. PICK out \in {"ok", "error"} :
          RemoveProvider(sc, out) /\ Managed(pass, out, FALSE)
    BY <1>4 DEF EnsureProviderServer
  <2>2. PICK dels \in SUBSET Elements(ProviderObjects(sc)) : Write({}, dels)
    BY <2>1 DEF RemoveProvider, NoWrite
  <2>3. WriteExcept({}, dels, {})
    BY <2>2 DEF Write
  <2>4. dels \subseteq Dispensable(sc)
    BY <1>4, <2>2 DEF Dispensable, When
  <2>5. Due(sc, "ProviderServer") = {}
    BY <1>3, <1>4 DEF When
  <2>6. Effect({}, dels, {})
    BY <1>1, <1>2, <2>3, <2>4, <2>5 DEF Effect, Brought
  <2>. QED
    BY <2>6 DEF Works
<1>5. CASE Has(sc, "consumers")
  <2> DEFINE first == GetProviderAPIServerSecret(sc)
                        \o GetProviderAPIServerService(sc)
             all == ProviderObjects(sc)
  <2>1. \/ \E out \in {"wait", "error"} : Creates(first, out) \/ Creates(all, out)
        \/ Creates(all \o JobToCreate, "ok")
    BY <1>5 DEF EnsureProviderServer
  <2>2. /\ first \in Seq(Objects) /\ all \in Seq(Objects)
        /\ all \o JobToCreate \in Seq(Objects)
        /\ Elements(all) \subseteq Elements(all \o JobToCreate)
        /\ Elements(first) \cap Finalized = {}
        /\ Elements(all) \cap Finalized = {}
        /\ Elements(all \o JobToCreate) \cap Finalized = {}
    BY SequencesOfObjects, ProviderObjectsAre, PlainlyUnfinalized
  <2>3. Due(sc, "ProviderServer") \subseteq Elements(all \o JobToCreate)
    BY <1>3, <2>2 DEF When
  <2> HIDE DEF first, all
  <2>. QED
    BY <1>1, <1>2, <2>1, <2>2, <2>3, CreatesPlainly
<1>. QED
  BY <1>4, <1>5

LEMMA StorageClientWorks ==
  ASSUME TypeOK, EnsureStorageClient
  PROVE  Works
<1>1. ~Idle /\ Head(pass.todo) = "StorageClient"
  BY DEF EnsureStorageClient, At
<1>2. Kept(sc, "StorageClient") = {}
  BY KeptElsewhere DEF InitSteps
<1>3. Elements(NewStorageClient(sc)) = {"StorageClient"}
  BY DEF NewStorageClient, Elements
<1>4. Due(sc, "StorageClient") \subseteq {"StorageClient"}
        /\ (~Has(sc, "consumers") => Due(sc, "StorageClient") = {})
  BY <1>3, DueOfPlainSteps DEF When
<1>5. /\ "StorageClient" \in Watched /\ {"StorageClient"} \subseteq Objects
      /\ "StorageClient" \notin Traced \cup {"NooBaa"}
  BY PlainlyUnfinalized DEF Watched, Traced
<1>6. CASE WriteExcept({"StorageClient"}, {}, {})
  <2>1. Effect({"StorageClient"}, {}, {})
    BY <1>1, <1>2, <1>4, <1>5, <1>6 DEF Effect, Brought
  <2>. QED
    BY <2>1 DEF Works
<1>7. CASE WriteExcept({}, {}, {"StorageClient"})
  <2>1. Effect({}, {}, {"StorageClient"})
    BY <1>1, <1>2, <1>4, <1>5, <1>7 DEF Effect, Brought
  <2>. QED
    BY <2>1 DEF Works
<1>8. CASE WriteExcept({}, {"StorageClient"}, {}) /\ ~Has(sc, "consumers")
  <2>1. {"StorageClient"} \subseteq Dispensable(sc)
    BY <1>3, <1>8 DEF Dispensable, When
  <2>2. Effect({}, {"StorageClient"}, {})
    BY <1>1, <1>2, <1>4, <1>8, <2>1 DEF Effect, Brought
  <2>. QED
    BY <2>2 DEF Works
<1>9. CASE NoWrite /\ Managed(pass, "error", FALSE)
  BY <1>1, <1>9, ErrorGivesUp, NoWorkOf
<1>. QED
  BY <1>6, <1>7, <1>8, <1>9 DEF EnsureStorageClient, Write

LEMMA BackingStorageClassesWork ==
  ASSUME TypeOK, EnsureBackingStorageClasses
  PROVE  Works
<1> DEFINE wanted == Elements(NewBackingStorageClasses(sc))
<1>1. ~Idle /\ Head(pass.todo) = "BackingStorageClasses"
  BY DEF EnsureBackingStorageClasses, At
<1>2. Kept(sc, "BackingStorageClasses") = {}
  BY KeptElsewhere DEF InitSteps
<1>3. Due(sc, "BackingStorageClasses") \subseteq wanted
  BY DueOfPlainSteps
<1>4. wanted = IF Has(sc, "backing") THEN {"BackingClass"} ELSE {}
  BY DEF NewBackingStorageClasses, Optional, Elements
<1>5. /\ "BackingClass" \in Objects /\ "BackingClass" \notin Finalized
      /\ dying \subseteq Finalized
      /\ "BackingClass" \notin Traced \cup {"NooBaa"}
  BY PlainlyUnfinalized DEF TypeOK, Traced
<1>6. {"BackingClass"} \ wanted \subseteq Dispensable(sc)
  BY <1>4 DEF Dispensable, When
<1>7. \/ WriteExcept(wanted, {"BackingClass"} \ wanted, {})
      \/ WriteExcept({}, {"BackingClass"}, wanted)
      \/ NoWrite /\ Managed(pass, "error", FALSE)
  BY DEF EnsureBackingStorageClasses, Write
<1> HIDE DEF wanted
<1>8. CASE WriteExcept(wanted, {"BackingClass"} \ wanted, {})
  <2>1. Effect(wanted, {"BackingClass"} \ wanted, {})
    BY <1>1, <1>2, <1>3, <1>4, <1>5, <1>6, <1>8 DEF Effect, Brought
  <2>. QED
    BY <2>1 DEF Works
<1>9. CASE WriteExcept({}, {"BackingClass"}, wanted)
  <2>1. Effect({}, {"BackingClass"}, wanted)
    BY <1>1, <1>2, <1>3, <1>4, <1>5, <1>6, <1>9 DEF Effect, Brought
  <2>. QED
    BY <2>1 DEF Works
<1>10. CASE NoWrite /\ Managed(pass, "error", FALSE)
  BY <1>1, <1>10, ErrorGivesUp, NoWorkOf
<1>. QED
  BY <1>7, <1>8, <1>9, <1>10

(* Steps that create objects without a finalizer, or do nothing.           *)
LEMMA PlainListsAre ==
  ASSUME NEW s
  PROVE  /\ NewStorageQuotas(s) \in Seq({"ClusterResourceQuota"})
         /\ NewCephConfig(s) \in Seq({"RookConfigOverride"})
         /\ NewClusterClaims(s) \in Seq({"ClusterClaims"})
         /\ OsdCleanUpTemplate(s) \o ExtendClusterTemplate(s)
              \in Seq({"OsdRemovalTemplate", "ExtendClusterTemplate"})
<1> DEFINE S == {"OsdRemovalTemplate", "ExtendClusterTemplate"}
<1>1. NewStorageQuotas(s) \in Seq({"ClusterResourceQuota"})
  <2>1. <<>> \in Seq({"ClusterResourceQuota"})
          /\ <<"ClusterResourceQuota">> \in Seq({"ClusterResourceQuota"})
    OBVIOUS
  <2>. QED
    BY <2>1 DEF NewStorageQuotas, Optional
<1>2. NewClusterClaims(s) \in Seq({"ClusterClaims"})
  <2>1. <<>> \in Seq({"ClusterClaims"})
          /\ <<"ClusterClaims">> \in Seq({"ClusterClaims"})
    OBVIOUS
  <2>. QED
    BY <2>1 DEF NewClusterClaims, Optional
<1>3. NewCephConfig(s) \in Seq({"RookConfigOverride"})
  BY DEF NewCephConfig
<1>4. OsdCleanUpTemplate(s) \in Seq(S) /\ ExtendClusterTemplate(s) \in Seq(S)
  BY DEF OsdCleanUpTemplate, ExtendClusterTemplate
<1> HIDE DEF S
<1>5. OsdCleanUpTemplate(s) \o ExtendClusterTemplate(s) \in Seq(S)
  BY <1>4, ElementsOfBoth
<1>. QED
  BY <1>1, <1>2, <1>3, <1>5 DEF S

LEMMA SeqWithin ==
  ASSUME NEW S, NEW T, S \subseteq T, NEW t \in Seq(S)
  PROVE  t \in Seq(T) /\ Elements(t) \subseteq S
BY DEF Elements

LEMMA Unfinalized ==
  ASSUME NEW S, S \subseteq {"ClusterResourceQuota", "RookConfigOverride",
                             "OsdRemovalTemplate", "ExtendClusterTemplate",
                             "ClusterClaims"},
         NEW objects \in Seq(S)
  PROVE  objects \in Seq(Objects) /\ Elements(objects) \cap Finalized = {}
<1>1. S \subseteq Objects /\ S \cap Finalized = {}
  BY PlainlyUnfinalized
<1>2. Elements(objects) \subseteq S /\ objects \in Seq(Objects)
  BY <1>1, SeqWithin
<1>. QED
  BY <1>1, <1>2

LEMMA NothingWorks ==
  ASSUME Skips, Due(sc, Head(pass.todo)) = {}, Kept(sc, Head(pass.todo)) = {}
  PROVE  Works
BY NoWorkOf DEF Skips

LEMMA PlainStepsWork ==
  ASSUME TypeOK,
         \/ EnsureTopologyMap \/ EnsureStorageQuota \/ EnsureCephConfig
         \/ EnsureJobTemplates \/ EnsureClusterClaim
  PROVE  Works
<1>1. CASE EnsureTopologyMap
  <2>1. ~Idle /\ Head(pass.todo) = "TopologyMap" /\ Creates(<<>>, "ok")
    BY <1>1 DEF EnsureTopologyMap, At
  <2>2. Due(sc, "TopologyMap") = {} /\ Kept(sc, "TopologyMap") = {}
    BY NothingDue
  <2>3. <<>> \in Seq(Objects) /\ Elements(<<>>) = {}
    BY NoObject
  <2>. QED
    BY <2>1, <2>2, <2>3, CreatesPlainly
<1>2. CASE EnsureStorageQuota
  <2>1. ~Idle /\ Head(pass.todo) = "StorageQuota"
          /\ Creates(NewStorageQuotas(sc), "ok")
    BY <1>2 DEF EnsureStorageQuota, At
  <2>2. /\ Due(sc, "StorageQuota") \subseteq Elements(NewStorageQuotas(sc))
        /\ Kept(sc, "StorageQuota") = {}
    BY DueOfPlainSteps, KeptElsewhere DEF InitSteps
  <2>3. NewStorageQuotas(sc) \in Seq(Objects)
          /\ Elements(NewStorageQuotas(sc)) \cap Finalized = {}
    BY PlainListsAre, Unfinalized
  <2>. QED
    BY <2>1, <2>2, <2>3, CreatesPlainly
<1>3. CASE EnsureCephConfig
  <2>1. ~Idle /\ Head(pass.todo) = "CephConfig"
          /\ (Skips \/ Creates(NewCephConfig(sc), "ok"))
    BY <1>3 DEF EnsureCephConfig, At
  <2>2. Due(sc, "CephConfig") = {} /\ Kept(sc, "CephConfig") = {}
    BY NothingDue
  <2>3. NewCephConfig(sc) \in Seq(Objects)
          /\ Elements(NewCephConfig(sc)) \cap Finalized = {}
    BY PlainListsAre, Unfinalized
  <2>. QED
    BY <2>1, <2>2, <2>3, CreatesPlainly, NothingWorks
<1>4. CASE EnsureJobTemplates
  <2> DEFINE all == OsdCleanUpTemplate(sc) \o ExtendClusterTemplate(sc)
  <2>1. ~Idle /\ Head(pass.todo) = "JobTemplates" /\ Creates(all, "ok")
    BY <1>4 DEF EnsureJobTemplates, At
  <2>2. /\ Due(sc, "JobTemplates") \subseteq Elements(all)
        /\ Kept(sc, "JobTemplates") = {}
    BY DueOfPlainSteps, KeptElsewhere DEF InitSteps
  <2>3. all \in Seq(Objects) /\ Elements(all) \cap Finalized = {}
    BY PlainListsAre, Unfinalized
  <2> HIDE DEF all
  <2>. QED
    BY <2>1, <2>2, <2>3, CreatesPlainly
<1>5. CASE EnsureClusterClaim
  <2>1. /\ ~Idle /\ Head(pass.todo) = "ClusterClaim"
        /\ \/ NoWrite /\ Managed(pass, "error", FALSE)
           \/ Creates(NewClusterClaims(sc), "ok")
    BY <1>5 DEF EnsureClusterClaim, At
  <2>2. /\ Due(sc, "ClusterClaim") \subseteq Elements(NewClusterClaims(sc))
        /\ Kept(sc, "ClusterClaim") = {}
    BY DueOfPlainSteps, KeptElsewhere DEF InitSteps
  <2>3. NewClusterClaims(sc) \in Seq(Objects)
          /\ Elements(NewClusterClaims(sc)) \cap Finalized = {}
    BY PlainListsAre, Unfinalized
  <2>. QED
    BY <2>1, <2>2, <2>3, CreatesPlainly, ErrorGivesUp, NoWorkOf
<1>. QED
  BY <1>1, <1>2, <1>3, <1>4, <1>5

(* The CephCluster: whichever way the step goes on, it is there after it.  *)
LEMMA CephClusterDue ==
  ASSUME NEW s
  PROVE  /\ Due(s, "CephCluster") \subseteq
              When(s.strategy["CephCluster"] = "manage", {"CephCluster"})
         /\ Kept(s, "CephCluster") \subseteq
              When(s.strategy["CephCluster"] = "init", {"CephCluster"})
<1>1. Elements(NewCephCluster(s)) = {"CephCluster"}
  BY CephFinalized, OneObject DEF NewCephCluster
<1>. QED
  BY <1>1 DEF Due, Kept, When, Inits

LEMMA CephClusterWorks ==
  ASSUME TypeOK, EnsureCephCluster
  PROVE  /\ Works
         /\ GaveUp \/ Unmanaged("CephCluster") \/ Present("CephCluster")'
<1>1. ~Idle /\ Head(pass.todo) = "CephCluster"
  BY DEF EnsureCephCluster, At
<1>2. /\ Due(sc, "CephCluster") \subseteq
           When(sc.strategy["CephCluster"] = "manage", {"CephCluster"})
      /\ Kept(sc, "CephCluster") \subseteq
           When(sc.strategy["CephCluster"] = "init", {"CephCluster"})
  BY CephClusterDue
<1>3. "CephCluster" \in Watched /\ dying \subseteq Finalized
        /\ "CephPrometheusRule" \notin Finalized
        /\ {"CephCluster", "CephPrometheusRule"}
             \cap (Traced \cup {"NooBaa"}) = {}
  BY DEF Watched, TypeOK, Finalized, RookObjects, Traced
<1>4. ASSUME NEW puts \in SUBSET {"CephCluster", "CephPrometheusRule"},
             "CephCluster" \in puts, Write(puts, {})
      PROVE  Works /\ Present("CephCluster")'
  <2>1. puts \cap dying \subseteq Watched
    BY <1>3
  <2>2. Effect(puts, {}, {})
    BY <1>1, <1>2, <1>3, <1>4, <2>1 DEF Effect, Brought, Write, When
  <2>3. written'["CephCluster"] = pass.gen
    BY <1>4, CephFinalized DEF Write, WriteExcept
  <2>4. pass.gen # 0
    BY PassTyped
  <2>. QED
    BY <2>2, <2>3, <2>4 DEF Works, Present
<1>5. CASE \/ Write({"CephCluster"}, {})
           \/ Write({"CephCluster", "CephPrometheusRule"}, {})
  BY <1>4, <1>5
<1>6. CASE NoWrite /\ Unmanaged("CephCluster")
  <2>1. Due(sc, "CephCluster") = {} /\ Kept(sc, "CephCluster") = {}
    BY <1>2, <1>6 DEF Unmanaged, When
  <2>. QED
    BY <1>1, <1>6, <2>1, NoWorkOf
<1>7. CASE NoWrite /\ Present("CephCluster")
             /\ sc.strategy["CephCluster"] = "init"
  <2>1. Due(sc, "CephCluster") = {}
    BY <1>2, <1>7 DEF When
  <2>2. \A o \in Kept(sc, "CephCluster") : Present(o)
    BY <1>2, <1>7 DEF When
  <2>3. WriteExcept({}, {}, {})
    BY <1>7 DEF NoWrite, Write
  <2>4. Effect({}, {}, {})
    BY <1>1, <2>1, <2>2, <2>3 DEF Effect, Brought
  <2>5. Present("CephCluster")'
    BY <1>7, <2>3, WriteKeepsCeph
  <2>. QED
    BY <2>4, <2>5 DEF Works
<1>8. CASE NoWrite /\ \E p \in {pass, FoundCephCluster} :
                        Managed(p, "error", FALSE)
  <2>1. FoundCephCluster \in PassRecord /\ pass \in PassRecord
    BY FoundCephClusterTyped, PassTyped DEF Successors
  <2>2. GaveUp
    BY <1>1, <1>8, <2>1, OnlyOkGoesOn
  <2>. QED
    BY <1>8, <2>2, NoWorkOf
<1>. QED
  BY <1>5, <1>6, <1>7, <1>8 DEF EnsureCephCluster, Skips

(* The managers whose loop restores what they find.                        *)
LEMMA RestoredListsAre ==
  ASSUME NEW s
  PROVE  /\ Short(NewCephBlockPoolInstances(s))
         /\ NewCephBlockPoolInstances(s) # <<>>
         /\ NewCephBlockPoolInstances(s)[1] = "CephBlockPool"
         /\ NewCephFilesystemInstances(s) = <<"CephFilesystem">>
         /\ NewCephFilesystemInstances(s) # <<>>
         /\ Elements(NewCephFilesystemInstances(s)) = {"CephFilesystem"}
         /\ Elements(NewCephNFSInstances(s)) = {"CephNFS"}
         /\ NewCephObjectStoreInstances(s) = <<"CephObjectStore">>
         /\ Elements(NewCephObjectStoreInstances(s)) = {"CephObjectStore"}
         /\ NewCephObjectStoreUserInstances(s) = <<"CephObjectStoreUser">>
         /\ Elements(NewCephObjectStoreUserInstances(s))
              = {"CephObjectStoreUser"}
         /\ Elements(NewCephRGWRoutes(s))
              \subseteq {"RGWRoute", "RGWSecureRoute"}
         /\ Elements(NewCephRbdMirrorInstances(s)) = {"CephRBDMirror"}
<1> DEFINE S == {"CephBlockPool", "NonResilientPools", "NFSPool"}
           a == <<"CephBlockPool">>
           b == Optional(Has(s, "nonresilient"), <<"NonResilientPools">>)
           c == Optional(Has(s, "nfs"), <<"NFSPool">>)
<1>1. a \in Seq(S) /\ a # <<>> /\ a[1] = "CephBlockPool"
  OBVIOUS
<1>2. b \in Seq(S) /\ c \in Seq(S)
  <2>1. <<>> \in Seq(S) /\ <<"NonResilientPools">> \in Seq(S)
          /\ <<"NFSPool">> \in Seq(S)
    OBVIOUS
  <2>. QED
    BY <2>1 DEF Optional
<1>3. NewCephBlockPoolInstances(s) = (a \o b) \o c
  BY DEF NewCephBlockPoolInstances
<1> HIDE DEF S, a, b, c
<1>4. a \o b \in Seq(S) /\ a \o b # <<>> /\ (a \o b)[1] = a[1]
  BY <1>1, <1>2, ElementsOfBoth
<1>5. (a \o b) \o c # <<>> /\ ((a \o b) \o c)[1] = (a \o b)[1]
  BY <1>2, <1>4, ElementsOfBoth
<1>6. /\ NewCephFilesystemInstances(s) = <<"CephFilesystem">>
      /\ NewCephFilesystemInstances(s) # <<>>
      /\ Elements(NewCephFilesystemInstances(s)) = {"CephFilesystem"}
      /\ Elements(NewCephNFSInstances(s)) = {"CephNFS"}
      /\ NewCephObjectStoreInstances(s) = <<"CephObjectStore">>
      /\ Elements(NewCephObjectStoreInstances(s)) = {"CephObjectStore"}
  BY DEF NewCephFilesystemInstances, NewCephNFSInstances,
         NewCephObjectStoreInstances, Elements
<1>7. /\ NewCephObjectStoreUserInstances(s) = <<"CephObjectStoreUser">>
      /\ Elements(NewCephObjectStoreUserInstances(s)) = {"CephObjectStoreUser"}
      /\ Elements(NewCephRbdMirrorInstances(s)) = {"CephRBDMirror"}
      /\ Elements(NewCephRGWRoutes(s)) \subseteq {"RGWRoute", "RGWSecureRoute"}
  BY DEF NewCephObjectStoreUserInstances, NewCephRGWRoutes,
         NewCephRbdMirrorInstances, Elements
<1>. QED
  BY <1>1, <1>3, <1>4, <1>5, <1>6, <1>7, ShortLists

(* The filesystem and the subvolume group.                                 *)
LEMMA FilesystemAndGroup ==
  ASSUME NEW s
  PROVE  LET all == NewCephFilesystemInstances(s) \o DefaultSubvolumeGroup(s) IN
         /\ Short(all) /\ all # <<>> /\ all[1] = "CephFilesystem"
         /\ Elements(all) \subseteq {"CephFilesystem", "SubVolumeGroup"}
         /\ "CephFilesystem" \in Elements(all)
<1> DEFINE S == {"CephFilesystem", "SubVolumeGroup"}
           a == NewCephFilesystemInstances(s)
           b == DefaultSubvolumeGroup(s)
<1>1. a \in Seq(S) /\ a # <<>> /\ a[1] = "CephFilesystem" /\ Len(a) = 1
        /\ Elements(a) = {"CephFilesystem"}
  BY RestoredListsAre DEF NewCephFilesystemInstances
<1>2. b \in Seq(S) /\ Len(b) <= 1
  <2>1. /\ <<>> \in Seq(S) /\ <<"SubVolumeGroup">> \in Seq(S)
        /\ Len(<<>>) = 0 /\ Len(<<"SubVolumeGroup">>) = 1
    OBVIOUS
  <2>2. b = <<>> \/ b = <<"SubVolumeGroup">>
    BY Zenon DEF DefaultSubvolumeGroup, Optional
  <2> HIDE DEF S, b
  <2>3. CASE b = <<>>
    BY <2>1, <2>3
  <2>4. CASE b = <<"SubVolumeGroup">>
    BY <2>1, <2>4
  <2>. QED
    BY <2>2, <2>3, <2>4
<1>3. S \subseteq Objects
  BY DEF Objects, RookObjects
<1> HIDE DEF S, a, b
<1>4. /\ a \o b \in Seq(S) /\ Elements(a \o b) = Elements(a) \cup Elements(b)
      /\ a \o b # <<>> /\ (a \o b)[1] = a[1]
  BY <1>1, <1>2, ElementsOfBoth
<1>5. Len(a \o b) = Len(a) + Len(b)
  BY <1>1, <1>2, ConcatIs
<1>6. Len(b) \in Nat
  BY <1>2
<1>7. Len(a \o b) <= 3
  BY <1>1, <1>2, <1>5, <1>6
<1>8. a \o b \in Seq(Objects) /\ Elements(a \o b) \subseteq S
  BY <1>3, <1>4, SeqWithin
<1>. QED
  BY <1>1, <1>4, <1>7, <1>8 DEF Short, a, b, S

LEMMA RestoredDue ==
  ASSUME NEW s
  PROVE  /\ Due(s, "CephBlockPools") # {} =>
              /\ s.strategy["CephBlockPools"] = "manage"
              /\ Due(s, "CephBlockPools")
                   = Elements(NewCephBlockPoolInstances(s))
         /\ Due(s, "CephFilesystems") # {} =>
              /\ s.strategy["CephFilesystems"] = "manage"
              /\ Due(s, "CephFilesystems") =
                   Elements(NewCephFilesystemInstances(s)
                              \o DefaultSubvolumeGroup(s))
         /\ Due(s, "CephNFS") # {} =>
              /\ Has(s, "nfs")
              /\ Due(s, "CephNFS") = Elements(NewCephNFSInstances(s))
         /\ Due(s, "CephNFSService") # {} =>
              /\ Has(s, "nfs")
              /\ Due(s, "CephNFSService") =
                   Elements(NewNFSServices(s) \o NewNFSServiceMonitors(s))
         /\ Due(s, "CephObjectStores") # {} =>
              /\ s.strategy["CephObjectStores"] = "manage" /\ ~SkipObjectStore
              /\ Due(s, "CephObjectStores")
                   = Elements(NewCephObjectStoreInstances(s))
         /\ Due(s, "CephObjectStoreUsers") # {} =>
              /\ s.strategy["CephObjectStoreUsers"] = "manage"
              /\ ~SkipObjectStore
              /\ Due(s, "CephObjectStoreUsers")
                   = Elements(NewCephObjectStoreUserInstances(s))
         /\ Due(s, "CephRbdMirrors") # {} =>
              /\ s.strategy["CephRBDMirror"] # "ignore" /\ Has(s, "mirroring")
              /\ Due(s, "CephRbdMirrors")
                   = Elements(NewCephRbdMirrorInstances(s))
BY DEF Due, When

LEMMA RestoredKept ==
  ASSUME NEW s
  PROVE  /\ Kept(s, "CephBlockPools") # {} =>
              /\ s.strategy["CephBlockPools"] = "init"
              /\ Kept(s, "CephBlockPools") = {"CephBlockPool"}
         /\ Kept(s, "CephFilesystems") # {} =>
              /\ s.strategy["CephFilesystems"] = "init"
              /\ Kept(s, "CephFilesystems") = {"CephFilesystem"}
         /\ Kept(s, "CephObjectStores") # {} =>
              /\ s.strategy["CephObjectStores"] = "init" /\ ~SkipObjectStore
              /\ Kept(s, "CephObjectStores") = {"CephObjectStore"}
         /\ Kept(s, "CephObjectStoreUsers") # {} =>
              /\ s.strategy["CephObjectStoreUsers"] = "init"
              /\ ~SkipObjectStore
              /\ Kept(s, "CephObjectStoreUsers") = {"CephObjectStoreUser"}
BY DEF Kept, When, Inits

LEMMA RestoredNames ==
  /\ {"CephFilesystem", "SubVolumeGroup", "CephNFS", "NFSService",
      "NFSServiceMonitor", "CephObjectStore", "CephObjectStoreUser",
      "RGWRoute", "RGWSecureRoute"} \cap (Traced \cup {"NooBaa"}) = {}
BY DEF Traced

LEMMA RestoringManagersWork ==
  ASSUME TypeOK, DyingThere,
         \/ EnsureCephBlockPools \/ EnsureCephNFS \/ EnsureCephNFSService
         \/ EnsureCephObjectStores \/ EnsureCephObjectStoreUsers
         \/ EnsureCephRGWRoutes
  PROVE  Works
<1>1. CASE EnsureCephBlockPools
  <2> DEFINE pools == NewCephBlockPoolInstances(sc)
             strategy == sc.strategy["CephBlockPools"]
  <2>1. /\ ~Idle /\ Head(pass.todo) = "CephBlockPools"
        /\ \/ strategy = "ignore" /\ Skips
           \/ RestoresLoosely(pools, strategy, pools)
    BY <1>1 DEF EnsureCephBlockPools, At, Unmanaged
  <2>2. /\ Short(pools) /\ pools # <<>> /\ pools[1] = "CephBlockPool"
        /\ Elements(pools) \subseteq Objects
        /\ Elements(pools) = Makes(sc, "CephBlockPools")
    BY RestoredListsAre, LooseObjects DEF Makes
  <2>3. /\ Due(sc, "CephBlockPools") # {} =>
             strategy = "manage" /\ Due(sc, "CephBlockPools") = Elements(pools)
        /\ Kept(sc, "CephBlockPools") # {} =>
             strategy = "init" /\ Kept(sc, "CephBlockPools") = {"CephBlockPool"}
    BY RestoredDue, RestoredKept
  <2> HIDE DEF pools, strategy
  <2>4. CASE strategy = "ignore" /\ Skips
    BY <2>1, <2>3, <2>4, NothingWorks
  <2>5. CASE RestoresLoosely(pools, strategy, pools)
    <3>1. Writes(pools, strategy, pools)
      BY <2>1, <2>2, <2>5, RestoresLooselyWrites
    <3>. QED
      BY <2>1, <2>2, <2>3, <3>1, RestoringWorks
  <2>. QED
    BY <2>1, <2>4, <2>5
<1>2. CASE EnsureCephNFS
  <2> DEFINE all == NewCephNFSInstances(sc)
  <2>1. /\ ~Idle /\ Head(pass.todo) = "CephNFS"
        /\ (~Has(sc, "nfs") /\ Skips) \/ Restores(all, "manage")
    BY <1>2 DEF EnsureCephNFS, At
  <2>2. Short(all) /\ Elements(all) = {"CephNFS"}
    BY ShortLists, RestoredListsAre
  <2>3. /\ Due(sc, "CephNFS") # {} =>
             Has(sc, "nfs") /\ Due(sc, "CephNFS") = Elements(all)
        /\ Kept(sc, "CephNFS") = {}
    BY RestoredDue, KeptElsewhere DEF InitSteps
  <2>4. Elements(<<>>) \subseteq Objects /\ Elements(<<>>) = {}
    BY NoObject
  <2> HIDE DEF all
  <2>5. CASE ~Has(sc, "nfs") /\ Skips
    BY <2>1, <2>3, <2>5, NothingWorks
  <2>6. CASE Restores(all, "manage")
    <3>1. Writes(all, "manage", <<>>)
      BY <2>1, <2>2, <2>6, RestoresWrites
    <3>. QED
      BY <2>1, <2>2, <2>3, <2>4, <3>1, RestoringWorks, RestoredNames
  <2>. QED
    BY <2>1, <2>5, <2>6
<1>3. CASE EnsureCephNFSService
  <2> DEFINE all == NewNFSServices(sc) \o NewNFSServiceMonitors(sc)
  <2>1. /\ ~Idle /\ Head(pass.todo) = "CephNFSService"
        /\ (~Has(sc, "nfs") /\ Skips) \/ Restores(all, "manage")
    BY <1>3 DEF EnsureCephNFSService, At
  <2>2. /\ Short(all)
        /\ Elements(all) \subseteq {"NFSService", "NFSServiceMonitor"}
    <3>1. /\ NewNFSServices(sc) \in Seq({"NFSService", "NFSServiceMonitor"})
          /\ NewNFSServiceMonitors(sc)
               \in Seq({"NFSService", "NFSServiceMonitor"})
      BY DEF NewNFSServices, NewNFSServiceMonitors
    <3>. QED
      BY <3>1, ElementsOfConcat, ShortLists
  <2>3. /\ Due(sc, "CephNFSService") # {} =>
             Has(sc, "nfs") /\ Due(sc, "CephNFSService") = Elements(all)
        /\ Kept(sc, "CephNFSService") = {}
    BY RestoredDue, KeptElsewhere DEF InitSteps
  <2>4. Elements(<<>>) \subseteq Objects /\ Elements(<<>>) = {}
    BY NoObject
  <2> HIDE DEF all
  <2>5. CASE ~Has(sc, "nfs") /\ Skips
    BY <2>1, <2>3, <2>5, NothingWorks
  <2>6. CASE Restores(all, "manage")
    <3>1. Writes(all, "manage", <<>>)
      BY <2>1, <2>2, <2>6, RestoresWrites
    <3>. QED
      BY <2>1, <2>2, <2>3, <2>4, <3>1, RestoringWorks, RestoredNames
  <2>. QED
    BY <2>1, <2>5, <2>6
<1>4. CASE EnsureCephObjectStores
  <2> DEFINE all == NewCephObjectStoreInstances(sc)
             strategy == sc.strategy["CephObjectStores"]
  <2>1. /\ ~Idle /\ Head(pass.todo) = "CephObjectStores"
        /\ \/ (strategy = "ignore" \/ SkipObjectStore) /\ Skips
           \/ RestoresLoosely(all, strategy, all)
    BY <1>4 DEF EnsureCephObjectStores, At, Unmanaged
  <2>2. /\ Short(all) /\ all # <<>> /\ all[1] = "CephObjectStore"
        /\ Elements(all) \subseteq Objects /\ Elements(all) = {"CephObjectStore"}
    BY ShortLists, RestoredListsAre, LooseObjects
  <2>3. /\ Due(sc, "CephObjectStores") # {} =>
             /\ strategy = "manage" /\ ~SkipObjectStore
             /\ Due(sc, "CephObjectStores") = Elements(all)
        /\ Kept(sc, "CephObjectStores") # {} =>
             /\ strategy = "init" /\ ~SkipObjectStore
             /\ Kept(sc, "CephObjectStores") = {"CephObjectStore"}
    BY RestoredDue, RestoredKept
  <2> HIDE DEF all, strategy
  <2>4. CASE (strategy = "ignore" \/ SkipObjectStore) /\ Skips
    BY <2>1, <2>3, <2>4, NothingWorks
  <2>5. CASE RestoresLoosely(all, strategy, all)
    <3>1. Writes(all, strategy, all)
      BY <2>1, <2>2, <2>5, RestoresLooselyWrites
    <3>. QED
      BY <2>1, <2>2, <2>3, <3>1, RestoringWorks, RestoredNames
  <2>. QED
    BY <2>1, <2>4, <2>5
<1>5. CASE EnsureCephObjectStoreUsers
  <2> DEFINE all == NewCephObjectStoreUserInstances(sc)
             strategy == sc.strategy["CephObjectStoreUsers"]
  <2>1. /\ ~Idle /\ Head(pass.todo) = "CephObjectStoreUsers"
        /\ \/ (strategy = "ignore" \/ SkipObjectStore) /\ Skips
           \/ RestoresLoosely(all, strategy, all)
    BY <1>5 DEF EnsureCephObjectStoreUsers, At, Unmanaged
  <2>2. /\ Short(all) /\ all # <<>> /\ all[1] = "CephObjectStoreUser"
        /\ Elements(all) \subseteq Objects
        /\ Elements(all) = {"CephObjectStoreUser"}
    BY ShortLists, RestoredListsAre, LooseObjects
  <2>3. /\ Due(sc, "CephObjectStoreUsers") # {} =>
             /\ strategy = "manage" /\ ~SkipObjectStore
             /\ Due(sc, "CephObjectStoreUsers") = Elements(all)
        /\ Kept(sc, "CephObjectStoreUsers") # {} =>
             /\ strategy = "init" /\ ~SkipObjectStore
             /\ Kept(sc, "CephObjectStoreUsers") = {"CephObjectStoreUser"}
    BY RestoredDue, RestoredKept
  <2> HIDE DEF all, strategy
  <2>4. CASE (strategy = "ignore" \/ SkipObjectStore) /\ Skips
    BY <2>1, <2>3, <2>4, NothingWorks
  <2>5. CASE RestoresLoosely(all, strategy, all)
    <3>1. Writes(all, strategy, all)
      BY <2>1, <2>2, <2>5, RestoresLooselyWrites
    <3>. QED
      BY <2>1, <2>2, <2>3, <3>1, RestoringWorks, RestoredNames
  <2>. QED
    BY <2>1, <2>4, <2>5
<1>6. CASE EnsureCephRGWRoutes
  <2> DEFINE all == NewCephRGWRoutes(sc)
             strategy == sc.strategy["CephObjectStores"]
  <2>1. /\ ~Idle /\ Head(pass.todo) = "CephRGWRoutes"
        /\ Skips \/ RestoresLoosely(all, strategy, all)
    BY <1>6 DEF EnsureCephRGWRoutes, At
  <2>2. /\ Short(all) /\ Elements(all) \subseteq Objects
        /\ Elements(all) \subseteq {"RGWRoute", "RGWSecureRoute"}
    BY ShortLists, RestoredListsAre, LooseObjects
  <2>3. Due(sc, "CephRGWRoutes") = {} /\ Kept(sc, "CephRGWRoutes") = {}
    BY NothingDue
  <2> HIDE DEF all, strategy
  <2>4. CASE Skips
    BY <2>1, <2>3, <2>4, NothingWorks
  <2>5. CASE RestoresLoosely(all, strategy, all)
    <3>1. Writes(all, strategy, all)
      BY <2>1, <2>2, <2>5, RestoresLooselyWrites
    <3>. QED
      BY <2>1, <2>2, <2>3, <3>1, RestoringWorks, RestoredNames
  <2>. QED
    BY <2>1, <2>4, <2>5
<1>. QED
  BY <1>1, <1>2, <1>3, <1>4, <1>5, <1>6

(* A filesystem that ends the loop leaves the group to the next pass, or   *)
(* is all that is asked for.                                               *)
LEMMA CephFilesystemsWork ==
  ASSUME TypeOK, DyingThere, EnsureCephFilesystems
  PROVE  Works
<1> DEFINE fs == NewCephFilesystemInstances(sc)
           all == fs \o DefaultSubvolumeGroup(sc)
           strategy == sc.strategy["CephFilesystems"]
<1>1. /\ ~Idle /\ Head(pass.todo) = "CephFilesystems"
      /\ \/ strategy = "ignore" /\ Skips
         \/ /\ strategy # "ignore" /\ Stops(fs, strategy, {}) # {}
            /\ Restores(fs, strategy)
         \/ strategy # "ignore" /\ Restores(all, "manage")
         \/ strategy # "ignore" /\ PassesOver(all, "manage", fs)
  BY DEF EnsureCephFilesystems, At, Unmanaged
<1>2. /\ Short(fs) /\ fs # <<>> /\ fs[1] = "CephFilesystem"
      /\ Elements(fs) = {"CephFilesystem"} /\ Elements(fs) \subseteq Objects
  BY ShortLists, RestoredListsAre, LooseObjects
<1>3. /\ Short(all) /\ all # <<>> /\ all[1] = "CephFilesystem"
      /\ Elements(all) \subseteq {"CephFilesystem", "SubVolumeGroup"}
      /\ "CephFilesystem" \in Elements(all)
  BY FilesystemAndGroup
<1>4. /\ Due(sc, "CephFilesystems") # {} =>
           strategy = "manage" /\ Due(sc, "CephFilesystems") = Elements(all)
      /\ Kept(sc, "CephFilesystems") # {} =>
           /\ strategy = "init"
           /\ Kept(sc, "CephFilesystems") = {"CephFilesystem"}
  BY RestoredDue, RestoredKept
<1> HIDE DEF fs, all, strategy
<1>5. CASE strategy = "ignore" /\ Skips
  BY <1>1, <1>4, <1>5, NothingWorks
<1>6. CASE strategy = "init" /\ Restores(fs, strategy)
  <2>1. Writes(fs, strategy, fs)
    BY <1>1, <1>2, <1>6, RestoresWrites
  <2>. QED
    BY <1>1, <1>2, <1>4, <1>6, <2>1, RestoringWorks, RestoredNames
<1>7. CASE strategy \notin {"init", "ignore"} /\ Restores(fs, strategy)
             /\ Stops(fs, strategy, {}) # {}
  <2>1. /\ UpToStop(fs, strategy, {}) \in Seq(Objects)
        /\ Elements(UpToStop(fs, strategy, {})) \subseteq Elements(fs)
    BY <1>2, UpToStopIs
  <2>2. Creates(UpToStop(fs, strategy, {}), "error")
    BY <1>7 DEF Restores, StopOutcome
  <2>3. PICK puts \in SUBSET Elements(UpToStop(fs, strategy, {})) :
          Write(puts, {}) /\ GaveUp
    BY <1>1, <2>1, <2>2, CreatesWrites
  <2>4. puts \cap (Traced \cup {"NooBaa"}) = {}
    BY <1>2, <2>1, <2>3, RestoredNames
  <2>5. Effect(puts, {}, {})
    BY <2>3, <2>4 DEF Effect, Write
  <2>. QED
    BY <2>5 DEF Works
<1>8. CASE Restores(all, "manage") \/ PassesOver(all, "manage", fs)
  <2>1. Writes(all, "manage", fs)
    BY <1>1, <1>3, <1>8, RestoresWrites, PassesOverWrites
  <2>2. Elements(all) \cap (Traced \cup {"NooBaa"}) = {}
    BY <1>3, RestoredNames
  <2>. QED
    BY <1>1, <1>2, <1>3, <1>4, <2>1, <2>2, RestoringWorks
<1>. QED
  BY <1>1, <1>5, <1>6, <1>7, <1>8

(* Storage classes: a step that goes on has skipped none, so what a class  *)
(* waits for was ready.                                                    *)
LEMMA OptionalSeq ==
  ASSUME NEW S, NEW o \in S, NEW condition
  PROVE  Optional(condition, <<o>>) \in Seq(S)
<1>1. <<>> \in Seq(S) /\ <<o>> \in Seq(S)
  OBVIOUS
<1>2. Optional(condition, <<o>>) \in {<<>>, <<o>>}
  BY Zenon DEF Optional
<1>. QED
  BY <1>1, <1>2

LEMMA StorageClassList ==
  ASSUME NEW s
  PROVE  /\ Elements(NewStorageClassConfigurations(s)) \subseteq StorageClasses
         /\ {"CephFSClass", "RBDClass"}
              \subseteq Elements(NewStorageClassConfigurations(s))
         /\ NewStorageClassConfigurations(s) \in Seq(Objects)
<1> DEFINE All == StorageClasses
<1>0. {"CephFSClass", "RBDClass", "VirtualizationClass", "NonResilientClass",
       "NFSClass", "OBCClass", "EncryptedClass"} \subseteq All
        /\ All \subseteq Objects
  BY DEF StorageClasses, ExternalClasses, Objects
<1> HIDE DEF All
<1> DEFINE c1 == <<"CephFSClass", "RBDClass">>
           c2 == Optional(~Has(s, "consumers") /\ "kubevirt" \in Platform,
                          <<"VirtualizationClass">>)
           c3 == Optional(Has(s, "nonresilient"), <<"NonResilientClass">>)
           c4 == Optional(Has(s, "nfs"), <<"NFSClass">>)
           c5 == Optional(s.mode = "external" \/ ~SkipObjectStore,
                          <<"OBCClass">>)
           c6 == Optional(Has(s, "encryptedclass") /\ Has(s, "kms"),
                          <<"EncryptedClass">>)
<1>1. /\ c1 \in Seq(All) /\ Elements(c1) = {"CephFSClass", "RBDClass"}
  BY <1>0 DEF Elements
<1>2. /\ c2 \in Seq(All) /\ c3 \in Seq(All) /\ c4 \in Seq(All)
      /\ c5 \in Seq(All) /\ c6 \in Seq(All)
  BY <1>0, OptionalSeq
<1>3. NewStorageClassConfigurations(s) = c1 \o c2 \o c3 \o c4 \o c5 \o c6
  BY DEF NewStorageClassConfigurations
<1> HIDE DEF c1, c2, c3, c4, c5, c6
<1> DEFINE d2 == c1 \o c2
           d3 == d2 \o c3
           d4 == d3 \o c4
           d5 == d4 \o c5
<1>4. d2 \in Seq(All) /\ Elements(c1) \subseteq Elements(d2)
  BY <1>1, <1>2, ElementsOfBoth
<1> HIDE DEF d2
<1>5. d3 \in Seq(All) /\ Elements(d2) \subseteq Elements(d3)
  BY <1>2, <1>4, ElementsOfBoth
<1> HIDE DEF d3
<1>6. d4 \in Seq(All) /\ Elements(d3) \subseteq Elements(d4)
  BY <1>2, <1>5, ElementsOfBoth
<1> HIDE DEF d4
<1>7. d5 \in Seq(All) /\ Elements(d4) \subseteq Elements(d5)
  BY <1>2, <1>6, ElementsOfBoth
<1> HIDE DEF d5
<1>8. d5 \o c6 \in Seq(All) /\ Elements(d5) \subseteq Elements(d5 \o c6)
  BY <1>2, <1>7, ElementsOfBoth
<1>9. NewStorageClassConfigurations(s) = d5 \o c6
  BY <1>3 DEF d5, d4, d3, d2
<1>10. /\ Elements(d5 \o c6) \subseteq All
       /\ d5 \o c6 \in Seq(Objects)
  BY <1>0, <1>8, SeqWithin
<1>. QED
  BY <1>1, <1>4, <1>5, <1>6, <1>7, <1>8, <1>9, <1>10 DEF All

LEMMA StorageClassNames ==
  /\ StorageClasses \cap Finalized = {} /\ StorageClasses \subseteq Objects
  /\ Traced \cup {"NooBaa"} \subseteq Finalized
  /\ "RBDClass" \in StorageClasses
BY DEF StorageClasses, ExternalClasses, Finalized, RookObjects, Traced, Objects

LEMMA StorageClassesWork ==
  ASSUME TypeOK, EnsureStorageClass
  PROVE  /\ Works
         /\ GaveUp \/ (WantsRBD(sc) => Present("RBDClass")')
<1> DEFINE classes == NewStorageClassConfigurations(sc)
           wanted == WantedClasses(classes) \cap StorageClasses
           skipped == {c \in wanted : ~MayBeMade(c)}
           made == {c \in wanted : MayBeMade(c) /\ ~IsKept(c)}
           all == {} \cup made \cup (IF skipped = {} THEN {} ELSE {})
<1>1. /\ ~Idle /\ Head(pass.todo) = "StorageClass" /\ ~pass.deleting
      /\ CreateStorageClasses(classes, {}, {}, pass)
  BY DEF EnsureStorageClass, At
<1>2. /\ Elements(classes) \subseteq StorageClasses
      /\ {"CephFSClass", "RBDClass"} \subseteq Elements(classes)
  BY StorageClassList
<1>3. all = made
  OBVIOUS
<1>4. \E puts \in SUBSET made : \E lost \in SUBSET StorageClasses :
        /\ Write(puts, lost)
        /\ \/ GaveUp
           \/ puts = made /\ skipped = {} /\ lost = {}
  <2>1. CASE /\ Write(made, {})
             /\ Managed(pass, IF skipped = {} THEN "ok" ELSE "skipped", FALSE)
    <3>1. skipped # {} => GaveUp
      BY <1>1, <2>1, PassTyped, OnlyOkGoesOn
    <3>. QED
      BY <2>1, <3>1
  <2> DEFINE replaced(n) ==
               {c \in made : n < Len(classes) /\ c = classes[n + 1]}
  <2>2. CASE /\ \/ Write(made, {})
                \/ \E n \in 0..Len(classes) : \E lost \in SUBSET replaced(n) :
                     Write({} \cup (made \cap Prefix(classes, n)), lost)
             /\ Managed(pass, "error", FALSE)
    <3>1. GaveUp
      BY <1>1, <2>2, ErrorGivesUp
    <3>2. \A n : replaced(n) \subseteq StorageClasses
      OBVIOUS
    <3> HIDE DEF replaced
    <3>3. \E puts \in SUBSET made : \E lost \in SUBSET StorageClasses :
            Write(puts, lost)
      BY <2>2, <3>2
    <3>. QED
      BY <3>1, <3>3
  <2>. QED
    BY <1>1, <1>3, <2>1, <2>2 DEF CreateStorageClasses
<1>5. PICK puts \in SUBSET made, lost \in SUBSET StorageClasses :
        /\ Write(puts, lost)
        /\ \/ GaveUp
           \/ puts = made /\ skipped = {} /\ lost = {}
  BY <1>4
<1>6. made \subseteq StorageClasses
  OBVIOUS
<1>7. puts \cap (Traced \cup {"NooBaa"}) = {} /\ puts \cap dying = {}
  BY <1>5, <1>6, StorageClassNames DEF TypeOK
<1>8. ASSUME puts = made, skipped = {}
      PROVE  Brought(puts, {})
  <2>1. ASSUME NEW c \in wanted
        PROVE  Prerequisite(sc, c) \subseteq ready /\ (c \in made \/ IsKept(c))
    BY <1>8, <2>1 DEF MayBeMade
  <2>2. ASSUME NEW c \in Due(sc, "StorageClass")
        PROVE  c \in made
    <3>1. /\ c \in Elements(classes) /\ c \notin sc.disabled
          /\ ClassStrategy(sc, c) = "manage"
      BY DEF Due
    <3>2. c \in wanted
      BY <1>2, <3>1 DEF WantedClasses
    <3>3. ~IsKept(c)
      BY <3>1 DEF IsKept
    <3>. QED
      BY <2>1, <3>2, <3>3
  <2>3. ASSUME NEW o \in Kept(sc, "StorageClass")
        PROVE  o \in ready
    <3>1. CASE /\ o = "CephBlockPool" /\ Inits(sc, "CephBlockPools")
               /\ "RBDClass" \notin sc.disabled
      <4>1. ClassStrategy(sc, "RBDClass") = "init"
        BY <3>1 DEF Inits, ClassStrategy, KindOfClass
      <4>2. "RBDClass" \in wanted
        BY <1>2, <3>1, <4>1 DEF WantedClasses
      <4>3. Prerequisite(sc, "RBDClass") = {"CephBlockPool"}
        BY <3>1 DEF Prerequisite, Inits
      <4>. QED
        BY <2>1, <3>1, <4>2, <4>3
    <3>2. CASE /\ o = "CephFilesystem" /\ Inits(sc, "CephFilesystems")
               /\ "CephFSClass" \notin sc.disabled
      <4>1. ClassStrategy(sc, "CephFSClass") = "init"
        BY <3>2 DEF Inits, ClassStrategy, KindOfClass
      <4>2. "CephFSClass" \in wanted
        BY <1>2, <3>2, <4>1 DEF WantedClasses
      <4>3. Prerequisite(sc, "CephFSClass") = {"CephFilesystem"}
        BY <3>2 DEF Prerequisite, Inits
      <4>. QED
        BY <2>1, <3>2, <4>2, <4>3
    <3>. QED
      BY <3>1, <3>2 DEF Kept, When
  <2> HIDE DEF made
  <2>. QED
    BY <1>1, <1>7, <1>8, <2>2, <2>3 DEF Brought
<1>9. ASSUME puts = made, skipped = {}, lost = {}, WantsRBD(sc)
      PROVE  Present("RBDClass")'
  <2>1. "RBDClass" \in wanted
    BY <1>2, <1>9 DEF WantedClasses, WantsRBD
  <2>2. "RBDClass" \in made \/ Present("RBDClass")
    BY <1>9, <2>1 DEF IsKept
  <2>3. written'["RBDClass"] =
          IF "RBDClass" \in puts THEN pass.gen ELSE written["RBDClass"]
    BY <1>5, <1>9, StorageClassNames DEF Write, WriteExcept
  <2>4. pass.gen # 0
    BY PassTyped
  <2> HIDE DEF made
  <2>. QED
    BY <1>9, <2>2, <2>3, <2>4 DEF Present
<1> HIDE DEF made, skipped
<1>10. Effect(puts, lost, {})
  BY <1>1, <1>5, <1>7, <1>8 DEF Effect, Write, When, Replacing
<1>. QED
  BY <1>5, <1>9, <1>10 DEF Works

LEMMA NoobaaSystemWorks ==
  ASSUME TypeOK, EnsureNoobaaSystem
  PROVE  Works
<1>1. ~Idle /\ Head(pass.todo) = "NoobaaSystem"
  BY DEF EnsureNoobaaSystem, At
<1>2. Due(sc, "NoobaaSystem") = {} /\ Kept(sc, "NoobaaSystem") = {}
  BY NothingDue
<1>3. CASE Skips
  BY <1>1, <1>2, <1>3, NothingWorks
<1>4. CASE Write({"NooBaa"}, {}) /\ ~Unmanaged("MultiCloudGateway")
  <2>1. "NooBaa" \in Makes(sc, "NoobaaSystem")
    BY <1>4 DEF Makes, When, IgnoresNooBaa, Unmanaged
  <2>2. "NooBaa" \in Watched /\ "NooBaa" \notin Traced
    BY DEF Watched, Traced
  <2>3. Effect({"NooBaa"}, {}, {})
    BY <1>1, <1>2, <1>4, <2>1, <2>2 DEF Effect, Brought, Write
  <2>. QED
    BY <2>3 DEF Works
<1>5. CASE NoWrite /\ Managed(pass, "error", FALSE)
  BY <1>1, <1>2, <1>5, NoWorkOf
<1>. QED
  BY <1>3, <1>4, <1>5 DEF EnsureNoobaaSystem

LEMMA CephRbdMirrorsWork ==
  ASSUME TypeOK, DyingThere, EnsureCephRbdMirrors
  PROVE  Works
<1> DEFINE all == NewCephRbdMirrorInstances(sc)
<1>1. /\ ~Idle /\ Head(pass.todo) = "CephRbdMirrors"
      /\ \/ Unmanaged("CephRBDMirror") /\ Skips
         \/ ~Has(sc, "mirroring")
              /\ \E out \in {"ok", "error"} :
                   DeleteMirror(out) /\ Managed(pass, out, FALSE)
         \/ Has(sc, "mirroring") /\ Restores(all, "manage")
  BY DEF EnsureCephRbdMirrors, At
<1>2. Short(all) /\ Elements(all) = {"CephRBDMirror"}
  BY RestoredListsAre, OneObject DEF Objects, RookObjects,
     NewCephRbdMirrorInstances
<1>3. /\ Due(sc, "CephRbdMirrors") # {} =>
           /\ ~Unmanaged("CephRBDMirror") /\ Has(sc, "mirroring")
           /\ Due(sc, "CephRbdMirrors") = Elements(all)
      /\ Kept(sc, "CephRbdMirrors") = {}
  BY RestoredDue, KeptElsewhere DEF InitSteps, Unmanaged
<1>4. CASE Unmanaged("CephRBDMirror") /\ Skips
  BY <1>1, <1>3, <1>4, NothingWorks
<1>5. CASE ~Has(sc, "mirroring")
             /\ \E out \in {"ok", "error"} :
                  DeleteMirror(out) /\ Managed(pass, out, FALSE)
  <2>1. PICK dels \in SUBSET Elements(all) : Write({}, dels)
    BY <1>5 DEF DeleteMirror, NoWrite
  <2>2. dels \subseteq Dispensable(sc)
    BY <1>5, <2>1 DEF Dispensable, When
  <2> HIDE DEF all
  <2>3. Effect({}, dels, {})
    BY <1>1, <1>3, <1>5, <2>1, <2>2 DEF Effect, Brought, Write
  <2>. QED
    BY <2>3 DEF Works
<1>6. CASE Has(sc, "mirroring") /\ Restores(all, "manage")
  <2>1. Elements(all) \cap (Traced \cup {"NooBaa"})
          \subseteq Makes(sc, "CephRbdMirrors")
    BY <1>2, <1>6 DEF Makes, When
  <2>2. Elements(<<>>) \subseteq Objects
    BY NoObject
  <2> HIDE DEF all
  <2>3. Writes(all, "manage", <<>>)
    BY <1>1, <1>2, <1>6, RestoresWrites
  <2>. QED
    BY <1>1, <1>3, <2>1, <2>2, <2>3, RestoringWorks
<1>. QED
  BY <1>1, <1>4, <1>5, <1>6

LEMMA ExternalResourcesWork ==
  ASSUME TypeOK, EnsureExternalResources
  PROVE  Works
<1> DEFINE may == ExternalEntries \cup StorageClasses \cup {"CephObjectStore"}
<1>1. ~Idle /\ Head(pass.todo) = "ExternalResources" /\ ~pass.deleting
  BY DEF EnsureExternalResources, At
<1>2. may \cap (Traced \cup {"NooBaa"}) = {}
  BY DEF ExternalEntries, ExternalClasses, StorageClasses, Traced
<1>3. Elements(sc.entries) \subseteq ExternalEntries
  BY PassTyped, SpecFields, SeqWithin
<1>4. Elements(NewExternalCephObjectStoreInstances(sc)) \subseteq may
  <2>1. NewExternalCephObjectStoreInstances(sc) \in Seq({"CephObjectStore"})
    BY OptionalSeq DEF NewExternalCephObjectStoreInstances
  <2>. QED
    BY <2>1, SeqWithin
<1>5. \A n \in 0..Len(sc.entries) : Prefix(sc.entries, n) \subseteq may
  <2>1. sc.entries \in Seq(Objects)
    <3>1. ExternalEntries \subseteq Objects
      BY DEF ExternalEntries, ExternalClasses, Objects, RookObjects,
             StorageClasses
    <3>. QED
      BY <3>1, PassTyped, SpecFields, SeqWithin
  <2>. QED
    BY <1>3, <2>1, PrefixOf
<1>6. \E puts \in SUBSET may : \E lost \in SUBSET StorageClasses :
        Write(puts, lost) /\ (GaveUp \/ lost = {})
  <2>1. CASE Creates(<<>>, "ok")
    <3>1. Elements(<<>>) = {} /\ <<>> \in Seq(Objects)
      BY NoObject
    <3>. QED
      BY <1>1, <2>1, <3>1, CreatesWrites
  <2>2. CASE CreateStorageClasses(
               sc.entries, NewExternalObjects(sc),
               Elements(NewExternalCephObjectStoreInstances(sc)),
               [pass EXCEPT !.status.hash = sc.secret])
    <3> DEFINE before == NewExternalObjects(sc)
               after == Elements(NewExternalCephObjectStoreInstances(sc))
               p == [pass EXCEPT !.status.hash = sc.secret]
    <3>1. before \subseteq may /\ after \subseteq may
      BY <1>3, <1>4 DEF NewExternalObjects
    <3>2. CreateStorageClasses(sc.entries, before, after, p)
      BY <2>2
    <3>3. p \in PassRecord
      BY HashRecorded DEF Successors
    <3> HIDE DEF before, after, p
    <3> DEFINE wanted == WantedClasses(sc.entries) \cap StorageClasses
               made == {c \in wanted : MayBeMade(c) /\ ~IsKept(c)}
               replaced(n) == {c \in made : /\ n < Len(sc.entries)
                                            /\ c = sc.entries[n + 1]}
    <3>4. \/ \E puts \in SUBSET (before \cup made \cup after) : Write(puts, {})
          \/ /\ \E n \in 0..Len(sc.entries) : \E lost \in SUBSET replaced(n) :
                  Write(before \cup (made \cap Prefix(sc.entries, n)), lost)
             /\ Managed(p, "error", FALSE)
      BY <3>2 DEF CreateStorageClasses
    <3>5. /\ \A n : replaced(n) \subseteq StorageClasses
          /\ made \subseteq may
      OBVIOUS
    <3>6. Managed(p, "error", FALSE) => GaveUp
      BY <1>1, <3>3, OnlyOkGoesOn
    <3> HIDE DEF replaced, made, may
    <3>. QED
      BY <3>1, <3>4, <3>5, <3>6
  <2>3. CASE \E n \in 0..Len(sc.entries) :
               Write(Prefix(sc.entries, n) \ ExternalClasses, {})
    <3>1. PICK n \in 0..Len(sc.entries) :
            Write(Prefix(sc.entries, n) \ ExternalClasses, {})
      BY <2>3
    <3>2. Prefix(sc.entries, n) \ ExternalClasses \subseteq may
      BY <1>5
    <3> HIDE DEF may
    <3>. QED
      BY <3>1, <3>2
  <2>4. CASE NoWrite
    BY <2>4 DEF NoWrite
  <2>. QED
    BY <2>1, <2>2, <2>3, <2>4 DEF EnsureExternalResources
<1>7. PICK puts \in SUBSET may, lost \in SUBSET StorageClasses :
        Write(puts, lost) /\ (GaveUp \/ lost = {})
  BY <1>6
<1> HIDE DEF may
<1>8. Effect(puts, lost, {})
  BY <1>1, <1>2, <1>7 DEF Effect, Write, Unclaimed, When, Replacing
<1>. QED
  BY <1>8 DEF Works

LEMMA SnapshotClassList ==
  ASSUME NEW s
  PROVE  LET classes == NewSnapshotClassConfigurations(s) IN
         /\ Short(classes)
         /\ Elements(classes) \subseteq Objects
         /\ Elements(classes) \cap (Finalized \cup Traced) = {}
         /\ Elements(classes) \subseteq
              {"CephFSSnapshotClass", "RBDSnapshotClass", "NFSSnapshotClass"}
<1> DEFINE All == {"CephFSSnapshotClass", "RBDSnapshotClass",
                   "NFSSnapshotClass"}
           nfs == Optional(Has(s, "nfs"), <<"NFSSnapshotClass">>)
           two == <<"CephFSSnapshotClass", "RBDSnapshotClass">>
<1>1. All \subseteq Objects /\ All \cap (Finalized \cup Traced) = {}
  BY DEF Objects, Finalized, RookObjects, Traced
<1>2. nfs = <<>> \/ nfs = <<"NFSSnapshotClass">>
  BY Zenon DEF Optional
<1>a. nfs \in Seq(All)
  BY OptionalSeq
<1> HIDE DEF nfs
<1>3. nfs \in Seq(All) /\ (Len(nfs) = 0 \/ Len(nfs) = 1)
  <2>1. Len(nfs) = 0 \/ Len(nfs) = 1
    <3> HIDE DEF All
    <3>1. CASE nfs = <<>>
      BY <3>1
    <3>2. CASE nfs = <<"NFSSnapshotClass">>
      BY <3>2
    <3>. QED
      BY <1>2, <3>1, <3>2
  <2>. QED
    BY <1>a, <2>1
<1>4. two \in Seq(All) /\ Len(two) = 2
  OBVIOUS
<1>5. NewSnapshotClassConfigurations(s) = two \o nfs
  BY DEF NewSnapshotClassConfigurations, nfs
<1> HIDE DEF two, All
<1>6. two \o nfs \in Seq(All) /\ Len(two \o nfs) = Len(two) + Len(nfs)
  BY <1>3, <1>4, ConcatIs
<1>7. two \o nfs \in Seq(Objects) /\ Elements(two \o nfs) \subseteq All
  BY <1>1, <1>6, SeqWithin
<1>. QED
  BY <1>1, <1>3, <1>4, <1>5, <1>6, <1>7 DEF Short, All

LEMMA SnapshotClassesWork ==
  ASSUME TypeOK, EnsureSnapshotClass
  PROVE  Works
<1> DEFINE classes == NewSnapshotClassConfigurations(sc)
           wanted == WantedClasses(classes)
           kept == {i \in DOMAIN classes :
                      classes[i] \in wanted /\ IsKept(classes[i])}
           made == IF kept = {} THEN classes
                   ELSE SubSeq(classes, 1, First(kept) - 1)
<1>1. /\ ~Idle /\ Head(pass.todo) = "SnapshotClass"
      /\ \/ Write(wanted \cap Elements(made), {})
         \/ \E n \in 0..Len(made) :
              WriteExcept(wanted \cap Prefix(made, n), {},
                          wanted \ Prefix(made, n))
  BY DEF EnsureSnapshotClass, At
<1>2. /\ classes \in Seq(Objects) /\ Len(classes) \in 0..3
      /\ DOMAIN classes = 1..Len(classes)
      /\ Elements(classes) \subseteq Objects
      /\ Elements(classes) \cap (Finalized \cup Traced) = {}
  BY SnapshotClassList, ShortIs
<1>3. wanted \subseteq Elements(classes)
  BY DEF WantedClasses
<1>4. Due(sc, "SnapshotClass") \subseteq wanted
  BY DEF Due, WantedClasses
<1>5. Kept(sc, "SnapshotClass") = {}
  BY DEF Kept
<1>6. ASSUME SnapshotsOrdered(sc), NEW c \in Due(sc, "SnapshotClass")
      PROVE  c \in Elements(made)
  <2>1. PICK k \in DOMAIN classes : c = classes[k]
    BY <1>3, <1>4 DEF Elements
  <2>2. ClassStrategy(sc, c) = "manage" /\ c \notin sc.disabled
    BY <1>6 DEF Due
  <2>3. CASE kept = {}
    BY <2>1, <2>3 DEF Elements
  <2>4. CASE kept # {}
    <3> DEFINE f == First(kept)
    <3>1. kept \in SUBSET (1..3)
      BY <1>2
    <3>2. f \in kept
      BY <2>4, <3>1, FirstOfThree
    <3>3. /\ f \in DOMAIN classes /\ classes[f] \in wanted
          /\ ClassStrategy(sc, classes[f]) = "init"
      BY <3>2 DEF IsKept
    <3> HIDE DEF f, kept
    <3>4. classes[f] \notin sc.disabled
      BY <3>3 DEF WantedClasses
    <3>5. ~(f < k)
      BY <1>6, <2>1, <2>2, <3>3, <3>4 DEF SnapshotsOrdered
    <3>6. f # k
      BY <2>1, <2>2, <3>3
    <3>7. f \in Nat /\ k \in 1..(f - 1) /\ f - 1 <= Len(classes)
      BY <1>2, <2>1, <3>3, <3>5, <3>6
    <3>8. /\ SubSeq(classes, 1, f - 1) \in Seq(Objects)
          /\ Len(SubSeq(classes, 1, f - 1)) = f - 1
          /\ SubSeq(classes, 1, f - 1)[k] = classes[k]
      <4> HIDE DEF classes
      <4>. QED
        BY <1>2, <3>7
    <3>9. made = SubSeq(classes, 1, f - 1)
      BY <2>4 DEF f
    <3>10. k \in DOMAIN made /\ made[k] = c
      <4> HIDE DEF made, classes
      <4>. QED
        BY <2>1, <3>7, <3>8, <3>9
    <3>. QED
      BY <3>10 DEF Elements
  <2>. QED
    BY <2>3, <2>4
<1>7. \E puts, over : /\ WriteExcept(puts, {}, over)
                      /\ puts \cup over \subseteq wanted
                      /\ SnapshotsOrdered(sc) =>
                           Due(sc, "SnapshotClass") \subseteq puts \cup over
  <2> HIDE DEF made, wanted
  <2>1. CASE Write(wanted \cap Elements(made), {})
    <3>1. WriteExcept(wanted \cap Elements(made), {}, {})
      BY <2>1 DEF Write
    <3>2. SnapshotsOrdered(sc) =>
            Due(sc, "SnapshotClass") \subseteq wanted \cap Elements(made)
      BY <1>4, <1>6
    <3>. QED
      BY <3>1, <3>2
  <2>2. CASE \E n \in 0..Len(made) :
               WriteExcept(wanted \cap Prefix(made, n), {},
                           wanted \ Prefix(made, n))
    <3>1. PICK n \in 0..Len(made) :
            WriteExcept(wanted \cap Prefix(made, n), {},
                        wanted \ Prefix(made, n))
      BY <2>2
    <3>2. (wanted \cap Prefix(made, n)) \cup (wanted \ Prefix(made, n))
            = wanted
      OBVIOUS
    <3>. QED
      BY <1>4, <3>1, <3>2
  <2>. QED
    BY <1>1, <2>1, <2>2
<1>8. PICK puts, over : /\ WriteExcept(puts, {}, over)
                        /\ puts \cup over \subseteq wanted
                        /\ SnapshotsOrdered(sc) =>
                             Due(sc, "SnapshotClass") \subseteq puts \cup over
  BY <1>7
<1> HIDE DEF wanted, classes
<1>9. /\ puts \subseteq Objects /\ over \subseteq Objects
      /\ puts \cap Finalized = {} /\ puts \cap Traced = {}
  BY <1>2, <1>3, <1>8
<1>10. dying \subseteq Finalized /\ "NooBaa" \in Finalized
  BY CephFinalized DEF TypeOK
<1>11. Effect(puts, {}, over)
  BY <1>1, <1>5, <1>8, <1>9, <1>10 DEF Effect, Brought, Unclaimed
<1>. QED
  BY <1>11 DEF Works

(* Together.                                                               *)
LEMMA EnsureWorks ==
  ASSUME TypeOK, DyingThere, Ensure
  PROVE  Works
<1>1. CASE \/ EnsureProviderServer \/ EnsureStorageClient
           \/ EnsureBackingStorageClasses
  BY <1>1, ProviderServerWorks, StorageClientWorks, BackingStorageClassesWork
<1>2. CASE \/ EnsureTopologyMap \/ EnsureStorageQuota \/ EnsureCephConfig
           \/ EnsureJobTemplates \/ EnsureClusterClaim
  BY <1>2, PlainStepsWork
<1>3. CASE \/ EnsureCephBlockPools \/ EnsureCephNFS \/ EnsureCephNFSService
           \/ EnsureCephObjectStores \/ EnsureCephObjectStoreUsers
           \/ EnsureCephRGWRoutes
  BY <1>3, RestoringManagersWork
<1>4. CASE EnsureCephCluster \/ EnsureCephFilesystems
  BY <1>4, CephClusterWorks, CephFilesystemsWork
<1>5. CASE EnsureStorageClass \/ EnsureNoobaaSystem \/ EnsureSnapshotClass
  BY <1>5, StorageClassesWork, NoobaaSystemWorks, SnapshotClassesWork
<1>6. CASE EnsureCephRbdMirrors \/ EnsureExternalResources
  BY <1>6, CephRbdMirrorsWork, ExternalResourcesWork
<1>. QED
  BY <1>1, <1>2, <1>3, <1>4, <1>5, <1>6 DEF Ensure

-----------------------------------------------------------------------------
(* After the managers                                                      *)

(* Objects that no live pass deletes, whatever its spec.                   *)
Permanent ==
  Objects \ {"OnboardingJob", "OnboardingKey", "ToolsDeployment",
             "ProviderSecret", "ProviderService", "ProviderDeployment",
             "StorageClient", "BackingClass", "CephRBDMirror"}

LEMMA ExporterList ==
  ASSUME NEW s
  PROVE  /\ NewMetricsExporter(s) \in Seq(Objects)
         /\ Elements(NewMetricsExporter(s)) \cap Finalized = {}
         /\ Elements(NewMetricsExporter(s)) \subseteq Permanent
<1> DEFINE All == Permanent \ Finalized
<1>1. {"ExporterAccount", "ExporterClusterRole",
       "ExporterClusterRoleBinding", "ExporterRole", "ExporterRoleBinding",
       "RookMonitoringBinding", "ExporterConfigMap", "ExporterDeployment",
       "ExporterService", "ExporterServiceMonitor", "PrometheusRule"}
        \subseteq All
  BY DEF Permanent, Objects, Finalized, RookObjects
<1> HIDE DEF All
<1> DEFINE a == ExporterServiceAccount(s)
           b == ExporterClusterRoles(s)
           c == ExporterClusterRoleBindings(s)
           d == ExporterRoles(s)
           e == ExporterRolebindings(s)
           f == RookCephClusterRolebindings(s)
           g == ExporterConfigMap(s)
           h == DeployMetricsExporter(s)
           i == ExporterService(s)
           j == ExporterServiceMonitor(s)
           k == NewPrometheusRules(s)
<1>2. /\ a \in Seq(All) /\ b \in Seq(All) /\ c \in Seq(All) /\ d \in Seq(All)
      /\ e \in Seq(All) /\ f \in Seq(All)
  BY <1>1 DEF ExporterServiceAccount, ExporterClusterRoles,
              ExporterClusterRoleBindings, ExporterRoles,
              ExporterRolebindings, RookCephClusterRolebindings
<1>3. /\ g \in Seq(All) /\ h \in Seq(All) /\ i \in Seq(All) /\ j \in Seq(All)
      /\ k \in Seq(All)
  BY <1>1 DEF ExporterConfigMap, DeployMetricsExporter, ExporterService,
              ExporterServiceMonitor, NewPrometheusRules
<1>4. NewMetricsExporter(s) =
        a \o b \o c \o d \o e \o f \o g \o h \o i \o j \o k
  BY DEF NewMetricsExporter
<1> HIDE DEF a, b, c, d, e, f, g, h, i, j, k
<1>5. a \o b \o c \in Seq(All)
  BY <1>2, ElementsOfBoth
<1>6. a \o b \o c \o d \o e \in Seq(All)
  BY <1>2, <1>5, ElementsOfBoth
<1>7. a \o b \o c \o d \o e \o f \o g \in Seq(All)
  BY <1>2, <1>3, <1>6, ElementsOfBoth
<1>8. a \o b \o c \o d \o e \o f \o g \o h \o i \in Seq(All)
  BY <1>3, <1>7, ElementsOfBoth
<1>9. a \o b \o c \o d \o e \o f \o g \o h \o i \o j \o k \in Seq(All)
  BY <1>3, <1>8, ElementsOfBoth
<1>10. NewMetricsExporter(s) \in Seq(All)
  BY <1>4, <1>9
<1>11. /\ All \subseteq Objects /\ All \cap Finalized = {}
       /\ All \subseteq Permanent
  BY DEF All, Permanent
<1>. QED
  BY <1>10, <1>11, SeqWithin

LEMMA GivingUp ==
  ASSUME TypeOK, ~Idle, GiveUp(pass)
  PROVE  GaveUp
BY PassTyped, GiveUpTyped DEF GaveUp

LEMMA MetricsExporterWorks ==
  ASSUME TypeOK, EnableMetricsExporter
  PROVE  Works
<1> DEFINE objects == IF Unmanaged("Monitoring") THEN <<>>
                      ELSE NewMetricsExporter(sc)
<1>1. /\ ~Idle /\ Head(pass.todo) = "MetricsExporter"
      /\ \/ Write(Elements(objects), {})
         \/ /\ \E n \in 0..Len(objects) : Write(Prefix(objects, n), {})
            /\ GiveUp(pass)
  BY DEF EnableMetricsExporter, At
<1>2. objects \in Seq(Objects) /\ Elements(objects) \cap Finalized = {}
  BY ExporterList, NoObject DEF Short
<1>3. Due(sc, "MetricsExporter") \subseteq Elements(objects)
  BY DueOfPlainSteps DEF When, Unmanaged
<1>4. Kept(sc, "MetricsExporter") = {}
  BY KeptElsewhere DEF InitSteps
<1> HIDE DEF objects
<1>5. \E puts \in SUBSET Elements(objects) :
        Write(puts, {}) /\ (GaveUp \/ puts = Elements(objects))
  BY <1>1, <1>2, PrefixOf, GivingUp
<1>6. PICK puts \in SUBSET Elements(objects) :
        Write(puts, {}) /\ (GaveUp \/ puts = Elements(objects))
  BY <1>5
<1>7. dying \subseteq Finalized /\ Traced \cup {"NooBaa"} \subseteq Finalized
  BY StorageClassNames DEF TypeOK
<1>8. Effect(puts, {}, {})
  BY <1>1, <1>2, <1>3, <1>4, <1>6, <1>7 DEF Effect, Brought, Write
<1>. QED
  BY <1>8 DEF Works

LEMMA ToolsWork ==
  ASSUME TypeOK, EnsureToolsDeployment
  PROVE  Works /\ \A o \in Finalized : written'[o] = written[o]
<1> DEFINE tools == Elements(NewToolsDeployment(sc))
<1>1. /\ Head(pass.todo) = "Tools"
      /\ \E puts, dels : /\ Write(puts, dels)
                         /\ puts \in {{}, tools} /\ dels \in {{}, tools}
  BY DEF EnsureToolsDeployment, At, Uninstalling, NoWrite
<1>2. PICK puts, dels : /\ Write(puts, dels)
                        /\ puts \in {{}, tools} /\ dels \in {{}, tools}
  BY <1>1
<1>3. tools \cap Finalized = {} /\ tools \cap Traced = {}
  BY DEF NewToolsDeployment, Elements, Finalized, RookObjects, Traced
<1>4. tools \subseteq Dispensable(sc)
  BY DEF Dispensable
<1>5. Due(sc, "Tools") = {} /\ Kept(sc, "Tools") = {}
  BY NothingDue
<1> HIDE DEF tools
<1>6. dying \subseteq Finalized /\ "NooBaa" \in Finalized
        /\ Finalized \subseteq Objects
  BY CephFinalized DEF TypeOK, Finalized, Objects
<1>7. puts \cap Finalized = {} /\ puts \cap Traced = {}
        /\ dels \subseteq Dispensable(sc)
  BY <1>2, <1>3, <1>4
<1>8. Effect(puts, dels, {})
  BY <1>1, <1>2, <1>5, <1>6, <1>7 DEF Effect, Brought, Write
<1>9. \A o \in Finalized : written'[o] = written[o]
  BY <1>2, <1>6, <1>7 DEF Write, WriteExcept
<1>. QED
  BY <1>8, <1>9 DEF Works

(* The other steps write nothing, and nothing is due after them.           *)
LEMMA QuietStepsWork ==
  ASSUME TypeOK, \/ ResourceProfile \/ EvaluateConditions
                 \/ EnsureRbdMirrorDebugLogging \/ UpdateStatus
  PROVE  Works
<1>1. NoWrite
  BY DEF ResourceProfile, EvaluateConditions, EnsureRbdMirrorDebugLogging,
         UpdateStatus
<1>2. Head(pass.todo) \in {"ResourceProfile", "Completion",
                           "MirrorDebugLogging", "StatusUpdate"}
  BY DEF ResourceProfile, EvaluateConditions, EnsureRbdMirrorDebugLogging,
         UpdateStatus, At, Uninstalling
<1>3. Due(sc, Head(pass.todo)) = {} /\ Kept(sc, Head(pass.todo)) = {}
  BY <1>2, NothingDue
<1>. QED
  BY <1>1, <1>3, NoWorkOf

-----------------------------------------------------------------------------
(* The steps of a pass, and what the others do around it                   *)

WorkMove ==
  /\ ~Idle /\ Works
  /\ pass'.gen = pass.gen /\ pass'.deleting = pass.deleting
  /\ pass'.todo \in {Tail(pass.todo), LastSteps, <<>>}
  /\ UNCHANGED <<script, gen, life>>
  /\ ~queued' =>
       /\ ~queued
       /\ pass'.todo = Tail(pass.todo) \/ Head(pass.todo) = "StatusUpdate"
  /\ Head(pass.todo) = "CephCluster" =>
       GaveUp \/ Unmanaged("CephCluster") \/ Present("CephCluster")'
  /\ Head(pass.todo) = "StorageClass" =>
       GaveUp \/ (WantsRBD(sc) => Present("RBDClass")')
  /\ pass.deleting =>
       /\ Head(pass.todo) \in {"Tools", "StatusUpdate"}
       /\ \A o \in Finalized : written'[o] = written[o]

LEMMA FinishHeads ==
  ASSUME Finish
  PROVE  /\ Head(pass.todo) \notin {"CephCluster", "StorageClass"}
         /\ UpdateStatus => Head(pass.todo) = "StatusUpdate"
         /\ pass.deleting => Head(pass.todo) \in {"Tools", "StatusUpdate"}
BY DEF Finish, ResourceProfile, EvaluateConditions, EnableMetricsExporter,
       EnsureRbdMirrorDebugLogging, EnsureToolsDeployment, UpdateStatus, At,
       Uninstalling

LEMMA WorkMoves ==
  ASSUME TypeOK, DyingThere, Ensure \/ Finish
  PROVE  WorkMove
<1>1. CASE Ensure
  BY <1>1, EnsureEffect, EnsureWorks, EnsureHeads, CephClusterWorks,
     StorageClassesWork DEF LiveEffect, LiveStep, WorkMove
<1>2. CASE \/ ResourceProfile \/ EvaluateConditions
           \/ EnsureRbdMirrorDebugLogging
  BY <1>2, ResourceProfileEffect, EvaluateConditionsEffect,
     EnsureRbdMirrorDebugLoggingEffect, QuietStepsWork, FinishHeads
     DEF LiveEffect, LiveStep, WorkMove, Finish
<1>3. CASE EnableMetricsExporter
  BY <1>3, EnableMetricsExporterEffect, MetricsExporterWorks, FinishHeads
     DEF LiveEffect, LiveStep, WorkMove, Finish
<1>4. CASE EnsureToolsDeployment
  BY <1>4, EnsureToolsDeploymentEffect, ToolsWork, FinishHeads
     DEF LiveEffect, LiveStep, WorkMove, Finish
<1>5. CASE UpdateStatus
  <2>1. /\ ~Idle /\ UNCHANGED <<script, gen, life, written>>
        /\ pass'.todo = <<>>
    BY <1>5, UpdateStatusEffect
  <2>2. pass'.gen = pass.gen /\ pass'.deleting = pass.deleting
    BY <1>5, PassTyped DEF UpdateStatus, PassRecord
  <2>3. \A o \in Finalized : written'[o] = written[o]
    BY <2>1
  <2>4. ~queued' => ~queued
    BY <1>5, UpdateStatusEffect
  <2>. QED
    BY <1>5, <2>1, <2>2, <2>3, <2>4, QuietStepsWork, FinishHeads
       DEF WorkMove, Finish
<1>. QED
  BY <1>1, <1>2, <1>3, <1>4, <1>5 DEF Finish

(* Everybody else.                                                         *)
AroundMove ==
  /\ script' = script /\ gen' \in {gen, gen + 1}
  /\ gen' # gen => queued' /\ life' = life
  /\ pass' \in {pass, NoPass}
  /\ pass' # pass => queued'
  /\ life' = life \/ (life = "live" /\ life' = "deleting" /\ queued')
  /\ ~queued' => ~queued
  /\ passedOver' = passedOver
  /\ dying' \subseteq dying
  /\ \A o \in Objects \ {"OnboardingJob", "OnboardingKey"} :
       \/ written'[o] = written[o] /\ (o \in dying => o \in dying')
       \/ /\ written'[o] = 0 /\ o \in dying \ dying'
          /\ \A d \in Dependents(o) : ~Present(d)
          /\ o \in Watched => queued'

LEMMA FinalizerMoves ==
  ASSUME TypeOK, NEW o \in Finalized, FinalizerRemoved(o)
  PROVE  AroundMove
<1>1. /\ o \in dying /\ \A d \in Dependents(o) : ~Present(d)
      /\ written' = [written EXCEPT ![o] = 0]
      /\ dying' = dying \ {o}
      /\ queued' = (queued \/ o \in Watched)
      /\ UNCHANGED <<script, gen, life, pass, passedOver>>
  BY DEF FinalizerRemoved, cluster
<1>2. written \in [Objects -> 0..Len(script)]
  BY DEF TypeOK
<1>3. /\ \A p \in Objects \ {o} : written'[p] = written[p]
      /\ o \in Objects => written'[o] = 0
  BY <1>1, <1>2
<1>4. ASSUME NEW p \in Objects
      PROVE  \/ written'[p] = written[p] /\ (p \in dying => p \in dying')
             \/ /\ written'[p] = 0 /\ p \in dying \ dying'
                /\ \A d \in Dependents(p) : ~Present(d)
                /\ p \in Watched => queued'
  BY <1>1, <1>3
<1>. QED
  BY <1>1, <1>4 DEF AroundMove

LEMMA AroundMoves ==
  ASSUME TypeOK, Operators \/ Jobs \/ Environment \/ Offboard
  PROVE  AroundMove
<1>1. CASE \E o \in Finalized : FinalizerRemoved(o)
  BY <1>1, FinalizerMoves
<1>2. CASE OnboardingJobDone
  <2>1. /\ written' = [written EXCEPT !["OnboardingJob"] = 0,
                                      !["OnboardingKey"] = 1]
        /\ UNCHANGED <<script, gen, life, pass, queued, passedOver, dying>>
    BY <1>2 DEF OnboardingJobDone, cluster
  <2>2. written \in [Objects -> 0..Len(script)]
    BY DEF TypeOK
  <2>3. \A o \in Objects \ {"OnboardingJob", "OnboardingKey"} :
          written'[o] = written[o]
    BY <2>1, <2>2
  <2>. QED
    BY <2>1, <2>3 DEF AroundMove
<1>3. CASE \/ RookStarts \/ RookFinishes \/ RookUpdates \/ CephFails
           \/ (\E o \in Reporting : BecomesReady(o))
           \/ (\E j \in {"enable", "disable"} : LoggingJobDone(j))
           \/ Onboard \/ Offboard
  <2>1. /\ UNCHANGED <<script, gen, life, written, dying, passedOver, pass>>
        /\ ~queued' => ~queued
    <3>1. CASE \E o \in Reporting : BecomesReady(o)
      <4>1. PICK o \in Reporting : BecomesReady(o)
        BY <3>1
      <4>2. queued' = (queued \/ o \in Watched)
        BY <4>1 DEF BecomesReady
      <4>. QED
        BY <4>1, <4>2 DEF BecomesReady, cluster
    <3>2. CASE RookStarts \/ RookFinishes \/ RookUpdates \/ CephFails
      <4>1. \E state : CephBecomes(state)
        BY <3>2 DEF RookStarts, RookFinishes, RookUpdates, CephFails
      <4>. QED
        BY <4>1 DEF CephBecomes, store, cluster
    <3>4. CASE Onboard \/ Offboard
      BY <3>4 DEF Onboard, Offboard, store, cluster
    <3>3. CASE \E j \in {"enable", "disable"} : LoggingJobDone(j)
      BY <3>3 DEF LoggingJobDone, store, cluster
    <3>. QED
      BY <1>3, <3>1, <3>2, <3>3, <3>4
  <2>. QED
    BY <2>1 DEF AroundMove
<1>4. CASE EditSpec
  BY <1>4 DEF EditSpec, AroundMove, store
<1>5. CASE DeleteStorageCluster
  BY <1>5 DEF DeleteStorageCluster, AroundMove, store
<1>6. CASE Crash
  BY <1>6 DEF Crash, AroundMove, store, cluster
<1>. QED
  BY <1>1, <1>2, <1>3, <1>4, <1>5, <1>6 DEF Operators, Jobs, Environment

-----------------------------------------------------------------------------
(* Objects that are marked for deletion, or ready, are there               *)

ReadyThere == \A o \in ready : Present(o) /\ o \notin dying

Standing == ready \subseteq Reporting /\ DyingThere /\ ReadyThere

StoreInv == KeyInv /\ Standing

LEMMA FinalizedAre ==
  /\ Finalized \subseteq Objects /\ Reporting \subseteq Objects
  /\ {"OnboardingJob", "OnboardingKey"} \cap (Finalized \cup Reporting) = {}
  /\ Watched \subseteq Finalized
BY DEF Finalized, Objects, RookObjects, Reporting, Watched

LEMMA WriteStands ==
  ASSUME TypeOK, Standing,
         NEW puts, NEW dels, NEW over, WriteExcept(puts, dels, over)
  PROVE  Standing'
<1>1. pass.gen # 0 /\ dying \subseteq Finalized /\ ready \subseteq Reporting
  BY PassTyped DEF TypeOK, Standing
<1>2. \A o \in Objects : o \notin dels \/ o \in Finalized =>
        written'[o] \in {pass.gen, written[o]}
  BY DEF WriteExcept
<1>3. DyingThere'
  BY <1>1, <1>2, FinalizedAre
     DEF Standing, DyingThere, WriteExcept, Present
<1>4. ReadyThere'
  BY <1>1, <1>2, FinalizedAre
     DEF Standing, ReadyThere, WriteExcept, Present
<1>5. ready' \subseteq Reporting
  BY <1>1 DEF WriteExcept
<1>. QED
  BY <1>3, <1>4, <1>5 DEF Standing

LEMMA AroundStands ==
  ASSUME TypeOK, Standing, Operators \/ Jobs \/ Environment \/ Offboard
  PROVE  Standing'
<1>0. dying \subseteq Finalized /\ ready \subseteq Reporting
  BY DEF TypeOK, Standing
<1>1. AroundMove
  BY AroundMoves
<1>2. \A o \in Objects \ {"OnboardingJob", "OnboardingKey"} :
        o \notin dying => written'[o] = written[o]
  BY <1>1 DEF AroundMove
<1>3. DyingThere'
  BY <1>0, <1>1, FinalizedAre DEF Standing, DyingThere, AroundMove, Present
<1>4. \/ ready' = ready
      \/ \E o \in Reporting : ready' = ready \cup {o} /\ written[o] # 0
                                /\ o \notin dying
  <2>1. CASE \/ RookStarts \/ RookFinishes \/ RookUpdates \/ CephFails
             \/ (\E j \in {"enable", "disable"} : LoggingJobDone(j))
             \/ Onboard \/ Offboard
             \/ EditSpec \/ DeleteStorageCluster \/ Crash
    BY <2>1 DEF RookStarts, RookFinishes, RookUpdates, CephFails,
       CephBecomes, LoggingJobDone, Onboard, Offboard, EditSpec,
       DeleteStorageCluster, Crash, store
  <2>2. CASE OnboardingJobDone \/ \E o \in Finalized : FinalizerRemoved(o)
    BY <2>2 DEF OnboardingJobDone, FinalizerRemoved
  <2>3. CASE \E o \in Reporting : BecomesReady(o)
    <3>1. PICK o \in Reporting : BecomesReady(o)
      BY <2>3
    <3>. QED
      BY <3>1 DEF BecomesReady, Present
  <2>. QED
    BY <2>1, <2>2, <2>3 DEF Operators, Jobs, Environment
<1>5. \A o \in ready' : o \in Reporting /\ o \notin dying /\ written[o] # 0
  BY <1>0, <1>4 DEF Standing, ReadyThere, Present
<1>6. ReadyThere' /\ ready' \subseteq Reporting
  BY <1>1, <1>2, <1>5, FinalizedAre DEF ReadyThere, AroundMove, Present
<1>. QED
  BY <1>3, <1>6 DEF Standing

LEMMA NextStands ==
  ASSUME StoreInv, [Next]_vars
  PROVE  StoreInv'
<1>0. TypeOK /\ Standing /\ KeyInv'
  BY NextKeepsKeys DEF StoreInv, KeyInv
<1>1. CASE Ensure \/ Finish
  <2>1. \E puts, dels, over : WriteExcept(puts, dels, over)
    BY <1>0, <1>1, WorkMoves DEF WorkMove, Works, Effect, Standing
  <2>. QED
    BY <1>0, <2>1, WriteStands DEF StoreInv
<1>2. CASE Uninstall
  <2>1. \E dels : WriteExcept({}, dels, {})
    BY <1>0, <1>2, UninstallHas DEF UninstallEffect, DeletionEffect, Write
  <2>. QED
    BY <1>0, <2>1, WriteStands DEF StoreInv
<1>3. CASE Operators \/ Jobs \/ Environment \/ Offboard
  BY <1>0, <1>3, AroundStands DEF StoreInv
<1>4. CASE Reconcile \/ ReconcileGone \/ UNCHANGED vars
  <2>1. UNCHANGED <<written, dying, ready>>
    BY <1>4 DEF Reconcile, ReconcileGone, vars, store
  <2>2. Standing'
    BY <1>0, <2>1 DEF Standing, DyingThere, ReadyThere, Present
  <2>. QED
    BY <1>0, <2>2 DEF StoreInv
<1>. QED
  BY <1>1, <1>2, <1>3, <1>4 DEF Next, Controller

LEMMA InitStands ==
  ASSUME Init
  PROVE  StoreInv
<1>1. KeyInv /\ ready = {} /\ dying \subseteq Finalized
  BY InitKeepsKeys DEF Init, KeyInv, TypeOK
<1>2. written = [o \in Objects |->
                   IF o \in dying \cup Provided(script[1]) THEN 1 ELSE 0]
  BY DEF Init
<1>3. \A o \in dying : written[o] = 1
  BY <1>1, <1>2, FinalizedAre
<1>4. Standing
  BY <1>1, <1>3 DEF Standing, DyingThere, ReadyThere, Present
<1>. QED
  BY <1>1, <1>4 DEF StoreInv

-----------------------------------------------------------------------------
(* The order of the steps                                                  *)

(* Of the steps ahead, those of earlier come before step.                  *)
Follows(todo, step, earlier) ==
  \A i, j \in DOMAIN todo : todo[i] = step /\ todo[j] \in earlier => j < i

LEMMA FollowsStays ==
  ASSUME NEW s \in Seq(Steps), s # <<>>, NEW step, step # "Tools",
         NEW earlier, step \notin earlier, Follows(s, step, earlier)
  PROVE  /\ \A t \in {Tail(s), LastSteps, <<>>} : Follows(t, step, earlier)
         /\ Head(s) = step => earlier \cap Elements(s) = {}
<1>1. /\ Len(s) \in Nat \ {0} /\ DOMAIN s = 1..Len(s)
      /\ DOMAIN Tail(s) = 1..(Len(s) - 1) /\ Head(s) = s[1]
      /\ \A i \in 1..(Len(s) - 1) : Tail(s)[i] = s[i + 1]
  BY TailIndices
<1>2. Follows(Tail(s), step, earlier)
  <2> SUFFICES ASSUME NEW i \in 1..(Len(s) - 1), NEW j \in 1..(Len(s) - 1),
                      Tail(s)[i] = step, Tail(s)[j] \in earlier
               PROVE  j < i
    BY <1>1 DEF Follows
  <2>1. i + 1 \in DOMAIN s /\ j + 1 \in DOMAIN s
    BY <1>1
  <2>2. s[i + 1] = step /\ s[j + 1] \in earlier
    BY <1>1
  <2>3. j + 1 < i + 1
    BY <2>1, <2>2 DEF Follows
  <2>. QED
    BY <1>1, <2>3
<1>3. Follows(LastSteps, step, earlier)
  <2> SUFFICES ASSUME NEW i \in 1..2, NEW j \in 1..2,
                      LastSteps[i] = step, LastSteps[j] \in earlier
               PROVE  j < i
    BY LastStepsTyped DEF Follows
  <2>1. i = 2
    BY LastStepsTyped
  <2>2. j # 2
    BY <2>1
  <2>. QED
    BY <2>1, <2>2
<1>4. Follows(<<>>, step, earlier)
  BY DEF Follows
<1>5. ASSUME Head(s) = step
      PROVE  earlier \cap Elements(s) = {}
  <2>1. \A j \in DOMAIN s : s[j] \in earlier => j < 1
    BY <1>1, <1>5 DEF Follows
  <2>. QED
    BY <1>1, <2>1 DEF Elements
<1>. QED
  BY <1>2, <1>3, <1>4, <1>5

AwaitedSteps == {"NoobaaSystem", "CephObjectStoreUsers", "CephObjectStores",
                 "CephNFS", "CephFilesystems", "CephBlockPools",
                 "CephCluster"}

(* An uninstall takes the finalizer off after what it waits for, and       *)
(* deletes the classes after NooBaa.                                       *)
TakenDownInOrder(todo) ==
  /\ Follows(todo, "Finalizer", AwaitedSteps)
  /\ Follows(todo, "StorageClass", {"NoobaaSystem"})

LEMMA UninstallInOrder ==
  /\ TakenDownInOrder(UninstallOrder)
  /\ AwaitedSteps \subseteq Elements(UninstallOrder)
<1>1. /\ Len(UninstallOrder) = 25 /\ DOMAIN UninstallOrder = 1..25
  BY DEF UninstallOrder
<1>2. \A i \in 1..25 : UninstallOrder[i] = "Finalizer" => i = 23
  BY DEF UninstallOrder
<1>3. \A i \in 1..25 : UninstallOrder[i] = "StorageClass" => i = 16
  BY DEF UninstallOrder
<1>4. \A i \in 1..25 : UninstallOrder[i] = "NoobaaSystem" => i = 3
  BY DEF UninstallOrder
<1>5. \A i \in 1..25 : UninstallOrder[i] \in AwaitedSteps => i <= 17
  <2>1. /\ UninstallOrder[18] = "ClusterClaim"
        /\ UninstallOrder[19] = "BackingStorageClasses"
        /\ UninstallOrder[20] = "NodeTaint"
        /\ UninstallOrder[21] = "KMSResources"
        /\ UninstallOrder[22] = "ExternalSecret"
        /\ UninstallOrder[23] = "Finalizer"
        /\ UninstallOrder[24] = "Tools"
        /\ UninstallOrder[25] = "StatusUpdate"
    BY DEF UninstallOrder
  <2>2. \A i \in 1..25 : \/ i <= 17 \/ i = 18 \/ i = 19 \/ i = 20 \/ i = 21
                         \/ i = 22 \/ i = 23 \/ i = 24 \/ i = 25
    OBVIOUS
  <2>. QED
    BY <2>1, <2>2 DEF AwaitedSteps
<1>6. TakenDownInOrder(UninstallOrder)
  <2>1. \A i, j \in 1..25 : UninstallOrder[i] = "Finalizer"
          /\ UninstallOrder[j] \in AwaitedSteps => j < i
    BY <1>2, <1>5
  <2>2. \A i, j \in 1..25 : UninstallOrder[i] = "StorageClass"
          /\ UninstallOrder[j] = "NoobaaSystem" => j < i
    BY <1>3, <1>4
  <2>. QED
    BY <1>1, <2>1, <2>2 DEF TakenDownInOrder, Follows
<1>7. /\ UninstallOrder[3] = "NoobaaSystem"
      /\ UninstallOrder[7] = "CephObjectStoreUsers"
      /\ UninstallOrder[8] = "CephObjectStores"
      /\ UninstallOrder[10] = "CephNFS"
      /\ UninstallOrder[12] = "CephFilesystems"
      /\ UninstallOrder[13] = "CephBlockPools"
      /\ UninstallOrder[17] = "CephCluster"
  BY DEF UninstallOrder
<1>8. \A i \in {3, 7, 8, 10, 12, 13, 17} :
        UninstallOrder[i] \in Elements(UninstallOrder)
  BY <1>1 DEF Elements
<1>. QED
  BY <1>6, <1>7, <1>8 DEF AwaitedSteps

(* A live pass makes the pools and the mirror after the CephCluster, and   *)
(* NooBaa after the classes; the status is written last.                   *)
MadeInOrder(todo) ==
  /\ Follows(todo, "CephBlockPools", {"CephCluster"})
  /\ Follows(todo, "CephRbdMirrors", {"CephCluster"})
  /\ Follows(todo, "NoobaaSystem", {"StorageClass"})

StatusLast(todo) == Follows(todo, "StatusUpdate", Steps \ {"StatusUpdate"})

InternalSteps ==
  {"ProviderServer", "StorageClient", "BackingStorageClasses", "TopologyMap",
   "StorageQuota", "CephConfig", "CephCluster", "CephBlockPools",
   "CephFilesystems", "CephNFS", "CephNFSService", "CephObjectStores",
   "CephObjectStoreUsers", "CephRGWRoutes", "StorageClass", "NoobaaSystem",
   "SnapshotClass", "JobTemplates", "CephRbdMirrors", "ClusterClaim"}

LEMMA ManagersAre ==
  ASSUME NEW x \in ClusterSpec
  PROVE  /\ MadeInOrder(Managers(x))
         /\ x.mode = "internal" => Elements(Managers(x)) = InternalSteps
         /\ x.mode # "internal" =>
              {"CephBlockPools", "CephRbdMirrors"}
                \cap Elements(Managers(x)) = {}
         /\ x.mode # "external" =>
              "ExternalResources" \notin Elements(Managers(x))
         /\ Elements(Managers(x)) \cap Elements(Completion) = {}
<1> DEFINE m == Managers(x)
<1>0. Elements(Completion) = {"ResourceProfile", "Completion",
        "MetricsExporter", "MirrorDebugLogging", "Tools", "StatusUpdate"}
  <2>1. DOMAIN Completion = 1..6
    BY CompletionIs
  <2>2. \A i \in 1..6 : i = 1 \/ i = 2 \/ i = 3 \/ i = 4 \/ i = 5 \/ i = 6
    OBVIOUS
  <2>. QED
    BY <2>1, <2>2, CompletionIs DEF Elements
<1>1. CASE x.mode = "standalone"
  <2>1. m = <<"NoobaaSystem">>
    BY <1>1 DEF Managers
  <2> HIDE DEF m
  <2>2. DOMAIN m = {1} /\ m[1] = "NoobaaSystem"
    BY <2>1
  <2>3. Elements(m) = {"NoobaaSystem"}
    BY <2>2 DEF Elements
  <2>4. MadeInOrder(m)
    BY <2>2 DEF MadeInOrder, Follows
  <2>. QED
    BY <1>0, <1>1, <2>3, <2>4 DEF m
<1>2. CASE x.mode = "external"
  <2>1. m = <<"ExternalResources", "StorageQuota", "CephCluster",
              "SnapshotClass", "NoobaaSystem", "ClusterClaim">>
    BY <1>2 DEF Managers
  <2> HIDE DEF m
  <2>2. DOMAIN m = 1..6
        /\ m[1] = "ExternalResources" /\ m[2] = "StorageQuota"
        /\ m[3] = "CephCluster" /\ m[4] = "SnapshotClass"
        /\ m[5] = "NoobaaSystem" /\ m[6] = "ClusterClaim"
    BY <2>1
  <2>3. \A i \in 1..6 : i = 1 \/ i = 2 \/ i = 3 \/ i = 4 \/ i = 5 \/ i = 6
    OBVIOUS
  <2>4. Elements(m) = {"ExternalResources", "StorageQuota", "CephCluster",
                       "SnapshotClass", "NoobaaSystem", "ClusterClaim"}
    BY <2>2, <2>3 DEF Elements
  <2>5. /\ \A i \in DOMAIN m : m[i] # "CephBlockPools"
                                 /\ m[i] # "CephRbdMirrors"
                                 /\ m[i] # "StorageClass"
    BY <2>2, <2>3
  <2>6. MadeInOrder(m)
    BY <2>5 DEF MadeInOrder, Follows
  <2>. QED
    BY <1>0, <1>2, <2>4, <2>6 DEF m
<1>3. CASE x.mode = "internal"
  <2>1. m = <<"ProviderServer", "StorageClient", "BackingStorageClasses",
         "TopologyMap", "StorageQuota", "CephConfig", "CephCluster",
         "CephBlockPools", "CephFilesystems", "CephNFS",
         "CephNFSService", "CephObjectStores", "CephObjectStoreUsers",
         "CephRGWRoutes", "StorageClass", "NoobaaSystem",
         "SnapshotClass", "JobTemplates", "CephRbdMirrors",
         "ClusterClaim">>
    BY <1>3 DEF Managers
  <2> HIDE DEF m
  <2>2. /\ DOMAIN m = 1..20
        /\ m[1] = "ProviderServer" /\ m[2] = "StorageClient"
        /\ m[3] = "BackingStorageClasses" /\ m[4] = "TopologyMap"
        /\ m[5] = "StorageQuota" /\ m[6] = "CephConfig"
        /\ m[7] = "CephCluster" /\ m[8] = "CephBlockPools"
        /\ m[9] = "CephFilesystems" /\ m[10] = "CephNFS"
        /\ m[11] = "CephNFSService" /\ m[12] = "CephObjectStores"
        /\ m[13] = "CephObjectStoreUsers" /\ m[14] = "CephRGWRoutes"
        /\ m[15] = "StorageClass" /\ m[16] = "NoobaaSystem"
        /\ m[17] = "SnapshotClass" /\ m[18] = "JobTemplates"
        /\ m[19] = "CephRbdMirrors" /\ m[20] = "ClusterClaim"
    BY <2>1
  <2>3. \A i \in 1..20 :
          \/ i = 1 \/ i = 2 \/ i = 3 \/ i = 4 \/ i = 5 \/ i = 6 \/ i = 7
          \/ i = 8 \/ i = 9 \/ i = 10 \/ i = 11 \/ i = 12 \/ i = 13
          \/ i = 14 \/ i = 15 \/ i = 16 \/ i = 17 \/ i = 18 \/ i = 19
          \/ i = 20
    OBVIOUS
  <2>4. \A i \in DOMAIN m : m[i] \in InternalSteps
    BY <2>2, <2>3 DEF InternalSteps
  <2>5. InternalSteps \subseteq Elements(m)
    <3>1. \A i \in 1..20 : m[i] \in Elements(m)
      BY <2>2 DEF Elements
    <3>. QED
      BY <2>2, <3>1 DEF InternalSteps
  <2>6. Elements(m) = InternalSteps
    BY <2>4, <2>5 DEF Elements
  <2>7. \A i \in DOMAIN m : /\ m[i] = "CephCluster" => i = 7
                            /\ m[i] = "CephBlockPools" => i = 8
                            /\ m[i] = "StorageClass" => i = 15
                            /\ m[i] = "NoobaaSystem" => i = 16
                            /\ m[i] = "CephRbdMirrors" => i = 19
    BY <2>2, <2>3
  <2>8. MadeInOrder(m)
    BY <2>7 DEF MadeInOrder, Follows
  <2>. QED
    BY <1>0, <1>3, <2>6, <2>8 DEF m, InternalSteps
<1>. QED
  BY <1>1, <1>2, <1>3, SpecFields DEF Modes

LEMMA WholeIs ==
  ASSUME NEW m \in Seq(Steps), NEW c \in Seq(Steps), Len(c) = 6
  PROVE  LET n == Len(m) IN
         /\ n \in Nat /\ DOMAIN m = 1..n /\ DOMAIN c = 1..6
         /\ DOMAIN (m \o c) = 1..(n + 6)
         /\ \A i \in 1..(n + 6) :
              (m \o c)[i] = IF i <= n THEN m[i] ELSE c[i - n]
<1>1. /\ m \o c \in Seq(Steps) /\ Len(m \o c) = Len(m) + Len(c)
      /\ \A i \in 1..(Len(m) + Len(c)) :
           (m \o c)[i] = IF i <= Len(m) THEN m[i] ELSE c[i - Len(m)]
  BY ConcatIs, Zenon
<1>2. Len(m) \in Nat /\ DOMAIN m = 1..Len(m) /\ DOMAIN c = 1..6
  OBVIOUS
<1>3. DOMAIN (m \o c) = 1..Len(m \o c)
  BY <1>1
<1>. QED
  BY <1>1, <1>2, <1>3

LEMMA WholeFollows ==
  ASSUME NEW m \in Seq(Steps), Elements(m) \cap Elements(Completion) = {},
         NEW step, NEW earlier, Follows(m, step, earlier),
         ({step} \cup earlier) \cap Elements(Completion) = {}
  PROVE  Follows(m \o Completion, step, earlier)
<1> DEFINE c == Completion
           n == Len(m)
           s == m \o c
<1>1. c \in Seq(Steps) /\ Len(c) = 6 /\ n \in Nat /\ DOMAIN m = 1..n
  BY CompletionIs
<1> HIDE DEF c
<1>2. \A i \in 1..(n + 6) : s[i] = IF i <= n THEN m[i] ELSE c[i - n]
  BY <1>1, WholeIs
<1>3. DOMAIN s = 1..(n + 6) /\ DOMAIN c = 1..6
  BY <1>1, WholeIs
<1> HIDE DEF s, n
<1>4. ASSUME NEW i \in DOMAIN s, s[i] \notin Elements(c)
      PROVE  i \in DOMAIN m /\ s[i] = m[i]
  <2>1. ASSUME i > n
        PROVE  s[i] \in Elements(c)
    <3>1. i - n \in DOMAIN c /\ s[i] = c[i - n]
      BY <1>1, <1>2, <1>3, <2>1
    <3>. QED
      BY <3>1 DEF Elements
  <2>2. i <= n /\ i \in 1..(n + 6)
    BY <1>1, <1>3, <1>4, <2>1
  <2>. QED
    BY <1>1, <1>2, <2>2
<1>5. Follows(s, step, earlier)
  BY <1>4 DEF Follows, c
<1>. QED
  BY <1>5 DEF s, c

LEMMA StatusComesLast ==
  ASSUME NEW m \in Seq(Steps), Elements(m) \cap Elements(Completion) = {}
  PROVE  StatusLast(m \o Completion)
<1> DEFINE c == Completion
           n == Len(m)
           s == m \o c
<1>1. c \in Seq(Steps) /\ Len(c) = 6 /\ n \in Nat /\ DOMAIN m = 1..n
        /\ c[6] = "StatusUpdate"
  BY CompletionIs
<1>2. \A i \in 1..6 : c[i] = "StatusUpdate" => i = 6
  BY CompletionSteps
<1>3. "StatusUpdate" \notin Elements(m)
  <2>1. 6 \in DOMAIN c
    BY <1>1
  <2>2. "StatusUpdate" \in Elements(c)
    BY <1>1, <2>1 DEF Elements
  <2>. QED
    BY <2>2 DEF c
<1> HIDE DEF c
<1>4. \A i \in 1..(n + 6) : s[i] = IF i <= n THEN m[i] ELSE c[i - n]
  BY <1>1, WholeIs
<1>5. DOMAIN s = 1..(n + 6)
  BY <1>1, WholeIs
<1> HIDE DEF s, n
<1>6. ASSUME NEW i \in 1..(n + 6), s[i] = "StatusUpdate"
      PROVE  i = n + 6
  <2>1. ASSUME i <= n
        PROVE  FALSE
    <3>1. i \in DOMAIN m /\ m[i] = "StatusUpdate"
      BY <1>1, <1>4, <1>6, <2>1
    <3>. QED
      BY <1>3, <3>1 DEF Elements
  <2>2. i - n \in 1..6 /\ c[i - n] = "StatusUpdate"
    BY <1>1, <1>4, <1>6, <2>1
  <2>3. i - n = 6
    BY <1>2, <2>2
  <2>. QED
    BY <1>1, <2>3
<1>7. s[n + 6] = "StatusUpdate"
  BY <1>1, <1>4
<1>8. \A i, j \in 1..(n + 6) :
        s[i] = "StatusUpdate" /\ s[j] # "StatusUpdate" => j < i
  BY <1>1, <1>6, <1>7
<1>9. StatusLast(s)
  BY <1>5, <1>8 DEF StatusLast, Follows
<1>. QED
  BY <1>9 DEF s, c

LEMMA PassInOrder ==
  ASSUME NEW x \in ClusterSpec
  PROVE  LET todo == Managers(x) \o Completion IN
         /\ MadeInOrder(todo) /\ StatusLast(todo)
         /\ x.mode = "internal" => InternalSteps \subseteq Elements(todo)
         /\ x.mode # "internal" =>
              {"CephBlockPools", "CephRbdMirrors"} \cap Elements(todo) = {}
         /\ x.mode # "external" => "ExternalResources" \notin Elements(todo)
         /\ Elements(Completion) \subseteq Elements(todo)
<1> DEFINE m == Managers(x)
           c == Completion
<1>1. m \in Seq(Steps) /\ c \in Seq(Steps)
  BY ManagersTyped, CompletionIs
<1>2. /\ MadeInOrder(m)
      /\ x.mode = "internal" => Elements(m) = InternalSteps
      /\ x.mode # "internal" =>
           {"CephBlockPools", "CephRbdMirrors"} \cap Elements(m) = {}
      /\ x.mode # "external" => "ExternalResources" \notin Elements(m)
      /\ Elements(m) \cap Elements(c) = {}
  BY ManagersAre
<1>3. {"CephBlockPools", "CephRbdMirrors", "NoobaaSystem", "CephCluster",
       "StorageClass", "ExternalResources"} \cap Elements(c) = {}
  <2>1. DOMAIN Completion = 1..6
    BY CompletionIs
  <2>2. \A i \in 1..6 : i = 1 \/ i = 2 \/ i = 3 \/ i = 4 \/ i = 5 \/ i = 6
    OBVIOUS
  <2>. QED
    BY <2>1, <2>2, CompletionIs DEF Elements
<1> HIDE DEF m
<1>4. StatusLast(m \o c)
  BY <1>1, <1>2, StatusComesLast
<1>5. MadeInOrder(m \o c)
  BY <1>1, <1>2, <1>3, WholeFollows DEF MadeInOrder
<1>6. Elements(m \o c) = Elements(m) \cup Elements(c)
  <2> HIDE DEF c
  <2>. QED
    BY <1>1, ElementsOfBoth
<1>. QED
  BY <1>2, <1>3, <1>4, <1>5, <1>6 DEF m

-----------------------------------------------------------------------------
(* What an uninstall waits for                                             *)

Awaited(step) ==
  CASE step = "NoobaaSystem" -> "NooBaa"
    [] step = "CephObjectStoreUsers" -> "CephObjectStoreUser"
    [] step = "CephObjectStores" -> "CephObjectStore"
    [] step = "CephNFS" -> "CephNFS"
    [] step = "CephFilesystems" -> "CephFilesystem"
    [] step = "CephBlockPools" -> "CephBlockPool"
    [] OTHER -> "CephCluster"

LEMMA RemovesAwaits ==
  ASSUME TypeOK, ~Idle, NEW objects, Short(objects), Removes(objects),
         NEW o \in Finalized, o \in Elements(objects)
  PROVE  pass'.todo = LastSteps \/ ~Present(o)
<1>1. Present(o) => Waits(objects) # {}
  BY DEF Waits, Elements
<1>2. Present(o) => GiveUp(pass)
  BY <1>1, RemovesDeletes
<1>. QED
  BY <1>2, GivingUp DEF GaveUp

LEMMA AwaitedObjects ==
  ASSUME NEW s
  PROVE  /\ "NooBaa" \in Elements(NewNooBaa(s))
         /\ "CephObjectStoreUser" \in
              Elements(NewCephObjectStoreUserInstances(s))
         /\ "CephObjectStore" \in Elements(NewCephObjectStoreInstances(s))
         /\ "CephNFS" \in Elements(NewCephNFSInstances(s))
         /\ "CephCluster" \in Elements(NewCephCluster(s))
         /\ "CephFilesystem" \in Elements(NewCephFilesystemInstances(s))
         /\ "CephFilesystem" \in Elements(DefaultSubvolumeGroup(s)
                                            \o NewCephFilesystemInstances(s))
         /\ "CephBlockPool" \in Elements(NewCephBlockPoolInstances(s))
<1>1. \A o \in Objects : o \in Elements(<<o>>)
  BY OneObject
<1>2. Finalized \subseteq Objects
  BY FinalizedAre
<1>3. {"NooBaa", "CephObjectStoreUser", "CephObjectStore", "CephNFS",
       "CephCluster", "CephFilesystem", "CephBlockPool"} \subseteq Finalized
  BY DEF Finalized, RookObjects
<1>4. "CephFilesystem" \in Elements(DefaultSubvolumeGroup(s)
                                      \o NewCephFilesystemInstances(s))
  <2> DEFINE group == DefaultSubvolumeGroup(s)
             fs == NewCephFilesystemInstances(s)
  <2>1. group \in Seq(Objects)
    <3>1. "SubVolumeGroup" \in Objects
      BY DEF Objects, RookObjects
    <3>. QED
      BY <3>1, OptionalSeq DEF DefaultSubvolumeGroup
  <2>2. fs \in Seq(Objects) /\ "CephFilesystem" \in Elements(fs)
    BY <1>1, <1>2, <1>3, OneObject DEF NewCephFilesystemInstances, Short
  <2> HIDE DEF group, fs
  <2>3. "CephFilesystem" \in Elements(group \o fs)
    BY <2>1, <2>2, ElementsOfBoth
  <2>. QED
    BY <2>3 DEF group, fs
<1>5. "CephBlockPool" \in Elements(NewCephBlockPoolInstances(s))
  BY RestoredListsAre, ShortIs DEF Elements
<1>. QED
  BY <1>1, <1>2, <1>3, <1>4, <1>5
     DEF NewNooBaa, NewCephObjectStoreUserInstances,
         NewCephObjectStoreInstances, NewCephNFSInstances, NewCephCluster,
         NewCephFilesystemInstances

LEMMA UninstallHeads ==
  ASSUME Uninstall
  PROVE  /\ Head(pass.todo) = "NoobaaSystem" => DeleteNoobaaSystem
         /\ Head(pass.todo) = "CephObjectStoreUsers" =>
              DeleteCephObjectStoreUsers
         /\ Head(pass.todo) = "CephObjectStores" => DeleteCephObjectStores
         /\ Head(pass.todo) = "CephNFS" => DeleteCephNFS
         /\ Head(pass.todo) = "CephFilesystems" => DeleteCephFilesystems
         /\ Head(pass.todo) = "CephBlockPools" => DeleteCephBlockPools
         /\ Head(pass.todo) = "CephCluster" => DeleteCephCluster
         /\ Head(pass.todo) # "Finalizer" => life' = life
<1>1. CASE \/ MarkCephCluster \/ SetNoobaaUninstallMode
           \/ DeleteNoobaaSystem \/ DeleteStorageClient
           \/ DeleteProviderServer \/ DeleteCephRGWRoutes
           \/ DeleteCephObjectStoreUsers \/ DeleteCephObjectStores
  BY <1>1 DEF MarkCephCluster, SetNoobaaUninstallMode, DeleteNoobaaSystem,
              DeleteStorageClient, DeleteProviderServer,
              DeleteCephRGWRoutes, DeleteCephObjectStoreUsers,
              DeleteCephObjectStores, Uninstalling, cluster
<1>2. CASE \/ DeleteCephRbdMirrors \/ DeleteCephNFS
           \/ DeleteCephNFSService \/ DeleteCephFilesystems
           \/ DeleteCephBlockPools \/ DeleteSnapshotClass
           \/ DeleteStorageQuota \/ DeleteStorageClass
  BY <1>2 DEF DeleteCephRbdMirrors, DeleteCephNFS, DeleteCephNFSService,
              DeleteCephFilesystems, DeleteCephBlockPools,
              DeleteSnapshotClass, DeleteStorageQuota, DeleteStorageClass,
              Uninstalling, cluster
<1>3. CASE \/ DeleteCephCluster \/ DeleteClusterClaim
           \/ DeleteBackingStorageClasses \/ DeleteNodeTaint
           \/ DeleteKMSResources \/ DeleteExternalSecret
           \/ RemoveFinalizer
  BY <1>3 DEF DeleteCephCluster, DeleteClusterClaim,
              DeleteBackingStorageClasses, DeleteNodeTaint,
              DeleteKMSResources, DeleteExternalSecret, RemoveFinalizer,
              Uninstalling, cluster
<1>. QED
  BY <1>1, <1>2, <1>3 DEF Uninstall

(* A step goes on only when its object is gone; NooBaa's asks for nothing  *)
(* when NooBaa is ignored.                                                 *)
LEMMA UninstallAwaits ==
  ASSUME TypeOK, Uninstall, Head(pass.todo) \in AwaitedSteps
  PROVE  \/ pass'.todo = LastSteps
         \/ ~Present(Awaited(Head(pass.todo)))
         \/ Head(pass.todo) = "NoobaaSystem" /\ IgnoresNooBaa(sc)
<1> DEFINE step == Head(pass.todo)
           fs == NewCephFilesystemInstances(sc)
<1>0. ~Idle
  BY UninstallHas
<1>1. {"NooBaa", "CephObjectStoreUser", "CephObjectStore", "CephNFS",
       "CephCluster", "CephFilesystem", "CephBlockPool"} \subseteq Finalized
  BY DEF Finalized, RookObjects
<1>2. CASE step = "NoobaaSystem"
  <2>1. IgnoresNooBaa(sc) \/ Removes(NewNooBaa(sc))
    BY <1>2, UninstallHeads DEF DeleteNoobaaSystem, Unmanaged, IgnoresNooBaa
  <2>2. Removes(NewNooBaa(sc)) =>
          pass'.todo = LastSteps \/ ~Present("NooBaa")
    BY <1>0, <1>1, ShortLists, AwaitedObjects, RemovesAwaits
  <2>. QED
    BY <1>2, <2>1, <2>2 DEF Awaited
<1>3. CASE step = "CephObjectStoreUsers"
  <2>1. Removes(NewCephObjectStoreUserInstances(sc))
    BY <1>3, UninstallHeads DEF DeleteCephObjectStoreUsers
  <2>2. pass'.todo = LastSteps \/ ~Present("CephObjectStoreUser")
    BY <1>0, <1>1, <2>1, ShortLists, AwaitedObjects, RemovesAwaits
  <2>. QED
    BY <1>3, <2>2 DEF Awaited
<1>4. CASE step = "CephObjectStores"
  <2>1. Removes(NewCephObjectStoreInstances(sc))
    BY <1>4, UninstallHeads DEF DeleteCephObjectStores
  <2>2. pass'.todo = LastSteps \/ ~Present("CephObjectStore")
    BY <1>0, <1>1, <2>1, ShortLists, AwaitedObjects, RemovesAwaits
  <2>. QED
    BY <1>4, <2>2 DEF Awaited
<1>5. CASE step = "CephNFS"
  <2>1. Removes(NewCephNFSInstances(sc))
    BY <1>5, UninstallHeads DEF DeleteCephNFS
  <2>2. pass'.todo = LastSteps \/ ~Present("CephNFS")
    BY <1>0, <1>1, <2>1, ShortLists, AwaitedObjects, RemovesAwaits
  <2>. QED
    BY <1>5, <2>2 DEF Awaited
<1>6. CASE step = "CephFilesystems"
  <2>1. ASSUME Present("CephFilesystem")
        PROVE  Removes(DefaultSubvolumeGroup(sc) \o fs)
    <3>1. \E o \in Elements(fs) : Present(o)
      BY <2>1, AwaitedObjects
    <3>. QED
      BY <1>6, <3>1, UninstallHeads DEF DeleteCephFilesystems
  <2>2. Present("CephFilesystem") => pass'.todo = LastSteps
    <3> DEFINE all == DefaultSubvolumeGroup(sc) \o fs
    <3>1. Short(all) /\ "CephFilesystem" \in Elements(all)
      BY ShortLists, AwaitedObjects
    <3> HIDE DEF all
    <3>2. Removes(all) => pass'.todo = LastSteps \/ ~Present("CephFilesystem")
      BY <1>0, <1>1, <3>1, RemovesAwaits
    <3>. QED
      BY <2>1, <3>2 DEF all
  <2>. QED
    BY <1>6, <2>2 DEF Awaited
<1>7. CASE step = "CephBlockPools"
  <2>1. Removes(NewCephBlockPoolInstances(sc))
    BY <1>7, UninstallHeads DEF DeleteCephBlockPools
  <2>2. pass'.todo = LastSteps \/ ~Present("CephBlockPool")
    BY <1>0, <1>1, <2>1, ShortLists, AwaitedObjects, RemovesAwaits
  <2>. QED
    BY <1>7, <2>2 DEF Awaited
<1>8. CASE step = "CephCluster"
  BY <1>8, UninstallHeads, CephClusterAwaited DEF Awaited
<1>. QED
  BY <1>2, <1>3, <1>4, <1>5, <1>6, <1>7, <1>8 DEF AwaitedSteps

UninstallMove ==
  /\ ~Idle /\ pass.deleting /\ pass'.deleting /\ pass'.gen = pass.gen
  /\ pass'.todo \in {Tail(pass.todo), LastSteps}
  /\ UNCHANGED <<script, gen>>
  /\ \A o \in Finalized : written'[o] = written[o]
  /\ Head(pass.todo) # "StorageClass" =>
       written'["RBDClass"] = written["RBDClass"]
  /\ Head(pass.todo) \in AwaitedSteps =>
       \/ pass'.todo = LastSteps
       \/ ~Present(Awaited(Head(pass.todo)))
       \/ Head(pass.todo) = "NoobaaSystem" /\ IgnoresNooBaa(sc)
  /\ life' \in {life, "gone"}
  /\ Head(pass.todo) # "Finalizer" => life' = life

LEMMA UninstallMoves ==
  ASSUME TypeOK, Uninstall
  PROVE  UninstallMove
<1>1. UninstallEffect /\ ~Idle /\ pass.deleting
  BY UninstallHas
<1>2. PICK dels : Write({}, dels)
  BY <1>1 DEF UninstallEffect, DeletionEffect
<1>3. \A o \in Finalized : written'[o] = written[o]
  BY <1>2, FinalizedAre DEF Write, WriteExcept
<1>. QED
  BY <1>1, <1>3, UninstallAwaits, UninstallHeads
     DEF UninstallMove, UninstallEffect, DeletionEffect

-----------------------------------------------------------------------------
(* NooBaa and its storage class                                            *)

Working == ~Idle /\ ~pass.deleting

LEMMA DispensableAre ==
  ASSUME NEW s
  PROVE  Dispensable(s) \subseteq
           {"ToolsDeployment", "ProviderSecret", "ProviderService",
            "ProviderDeployment", "StorageClient", "BackingClass",
            "CephRBDMirror"}
<1>1. Elements(NewToolsDeployment(s)) = {"ToolsDeployment"}
  BY DEF NewToolsDeployment, Elements
<1>2. Elements(NewStorageClient(s)) = {"StorageClient"}
  BY DEF NewStorageClient, Elements
<1>3. Elements(NewCephRbdMirrorInstances(s)) = {"CephRBDMirror"}
  BY RestoredListsAre
<1>4. Elements(ProviderObjects(s)) \subseteq
        {"ProviderSecret", "ProviderService", "ProviderDeployment"}
  BY DEF ProviderObjects, GetProviderAPIServerSecret,
         GetProviderAPIServerService, GetProviderAPIServerDeployment, Elements
<1>. QED
  BY <1>1, <1>2, <1>3, <1>4 DEF Dispensable, When

(* What a live pass does to the objects in question.                       *)
LEMMA WorkWrites ==
  ASSUME TypeOK, WorkMove
  PROVE  /\ \A o \in Traced \cup {"NooBaa"} :
              Present(o)' => Present(o) \/ o \in Makes(sc, Head(pass.todo))
         /\ Present("CephCluster") => Present("CephCluster")'
         /\ Present("RBDClass") => Present("RBDClass")' \/ Replacing
         /\ "CephCluster" \in dying' => "CephCluster" \in dying
<1>1. PICK puts, dels, over : Effect(puts, dels, over)
  BY DEF WorkMove, Works
<1>2. Traced \cup {"NooBaa", "CephCluster", "RBDClass"} \subseteq Objects
  BY DEF Traced, Objects, RookObjects, StorageClasses, ExternalClasses
<1>3. "CephCluster" \notin dels /\ ("RBDClass" \in dels => Replacing)
  <2>1. "CephCluster" \notin StorageClasses
    BY DEF StorageClasses, ExternalClasses
  <2>. QED
    BY <1>1, <2>1, DispensableAre DEF Effect, When
<1>4. pass.gen # 0
  BY PassTyped
<1>. QED
  BY <1>1, <1>2, <1>3, <1>4 DEF Effect, WriteExcept, Present

Ordered ==
  IF pass.deleting THEN TakenDownInOrder(pass.todo)
  ELSE MadeInOrder(pass.todo) /\ StatusLast(pass.todo)

LEMMA OrdersStay ==
  ASSUME NEW s \in Seq(Steps), s # <<>>, NEW t \in {Tail(s), LastSteps, <<>>}
  PROVE  /\ TakenDownInOrder(s) => TakenDownInOrder(t)
         /\ MadeInOrder(s) => MadeInOrder(t)
         /\ StatusLast(s) => StatusLast(t)
<1>1. ASSUME NEW step, step # "Tools", NEW earlier, step \notin earlier
      PROVE  Follows(s, step, earlier) => Follows(t, step, earlier)
  <2>1. Follows(s, step, earlier) =>
          \A u \in {Tail(s), LastSteps, <<>>} : Follows(u, step, earlier)
    BY <1>1, FollowsStays
  <2>. QED
    BY <2>1
<1>2. "Finalizer" \notin AwaitedSteps
  BY DEF AwaitedSteps
<1>3. TakenDownInOrder(s) => TakenDownInOrder(t)
  BY <1>1, <1>2 DEF TakenDownInOrder
<1>4. MadeInOrder(s) => MadeInOrder(t)
  BY <1>1 DEF MadeInOrder
<1>5. StatusLast(s) => StatusLast(t)
  BY <1>1 DEF StatusLast
<1>. QED
  BY <1>3, <1>4, <1>5

LEMMA OrderStays ==
  ASSUME TypeOK, Ordered, ~Idle, pass'.deleting = pass.deleting,
         pass'.todo \in {Tail(pass.todo), LastSteps, <<>>}
  PROVE  Ordered'
<1>1. pass.todo \in Seq(Steps) /\ pass.todo # <<>>
  BY TodoTyped
<1>2. /\ TakenDownInOrder(pass.todo) => TakenDownInOrder(pass'.todo)
      /\ MadeInOrder(pass.todo) => MadeInOrder(pass'.todo)
      /\ StatusLast(pass.todo) => StatusLast(pass'.todo)
  BY <1>1, OrdersStay
<1>. QED
  BY <1>2 DEF Ordered

LEMMA OrderedAtFirst ==
  ASSUME TypeOK, Reconcile
  PROVE  Ordered'
<1>1. /\ pass'.deleting = (life = "deleting")
      /\ pass'.todo = IF life = "deleting" THEN UninstallOrder
                      ELSE Managers(script[gen]) \o Completion
  BY ReconcileEffect
<1>2. script[gen] \in ClusterSpec
  BY ScriptTyped DEF TypeOK
<1>3. life = "deleting" => Ordered'
  BY <1>1, UninstallInOrder DEF Ordered
<1>4. life # "deleting" => Ordered'
  BY <1>1, <1>2, PassInOrder DEF Ordered
<1>. QED
  BY <1>3, <1>4

LEMMA NothingInOrder == TakenDownInOrder(<<>>) /\ MadeInOrder(<<>>)
                          /\ StatusLast(<<>>)
BY DEF TakenDownInOrder, MadeInOrder, StatusLast, Follows

LEMMA AroundKeepsOrder ==
  ASSUME Ordered, AroundMove
  PROVE  Ordered'
<1>1. pass' = pass => Ordered'
  BY DEF Ordered
<1>2. pass' = NoPass => Ordered'
  BY NothingInOrder DEF NoPass, Ordered
<1>. QED
  BY <1>1, <1>2 DEF AroundMove

(* Once NooBaa is managed, its strategy is not changed to ignore.          *)
NooBaaStaysManaged ==
  \A s \in Scripts : \A i, j \in DOMAIN s :
    i <= j /\ IgnoresNooBaa(s[j]) => IgnoresNooBaa(s[i])

(* No object of this name is left of an earlier cluster.                   *)
NoneLeft(objects) == \A left \in Leftovers : left \cap objects = {}

(* NooBaa is there only while it is managed: no pass, and no uninstall,    *)
(* passes it over.                                                         *)
NooBaaManaged ==
  /\ pass.gen <= gen
  /\ Present("NooBaa") =>
       ~IgnoresNooBaa(script[gen]) /\ (~Idle => ~IgnoresNooBaa(sc))

(* An uninstall is past a step that waits only when its object is gone.    *)
AwaitedGone ==
  ~Idle /\ pass.deleting =>
    /\ "Finalizer" \in Elements(pass.todo) =>
         \A step \in AwaitedSteps \ Elements(pass.todo) :
           ~Present(Awaited(step))
    /\ "StorageClass" \in Elements(pass.todo)
         /\ "NoobaaSystem" \notin Elements(pass.todo) => ~Present("NooBaa")

NooBaaInv == StoreInv /\ Ordered /\ NooBaaManaged /\ AwaitedGone

LEMMA Generations ==
  ASSUME TypeOK
  PROVE  /\ gen \in Nat \ {0} /\ pass.gen \in Nat \ {0}
         /\ gen \in DOMAIN script /\ pass.gen \in DOMAIN script
         /\ DOMAIN script = 1..Len(script) /\ script \in Scripts
<1>1. script \in Scripts /\ gen \in DOMAIN script
  BY DEF TypeOK
<1>2. DOMAIN script = 1..Len(script) /\ Len(script) \in Nat
  BY <1>1, ScriptTyped
<1>. QED
  BY <1>1, <1>2, PassTyped

LEMMA AwaitedFinalized ==
  /\ \A step \in AwaitedSteps : Awaited(step) \in Finalized
  /\ Awaited("NoobaaSystem") = "NooBaa" /\ "NoobaaSystem" \in AwaitedSteps
  /\ Traced \cup {"NooBaa", "CephCluster"} \subseteq Finalized
BY DEF AwaitedSteps, Awaited, Finalized, RookObjects, Traced

LEMMA BlockPoolsAre ==
  ASSUME NEW s
  PROVE  LET pools == Elements(NewCephBlockPoolInstances(s)) IN
         /\ pools \subseteq {"CephBlockPool", "NonResilientPools", "NFSPool"}
         /\ "NonResilientPools" \in pools => Has(s, "nonresilient")
         /\ "NFSPool" \in pools => Has(s, "nfs")
<1> DEFINE S == {"CephBlockPool", "NonResilientPools", "NFSPool"}
           a == <<"CephBlockPool">>
           b == Optional(Has(s, "nonresilient"), <<"NonResilientPools">>)
           c == Optional(Has(s, "nfs"), <<"NFSPool">>)
<1>1. a \in Seq(S) /\ b \in Seq(S) /\ c \in Seq(S)
  <2>1. {"CephBlockPool", "NonResilientPools", "NFSPool"} \subseteq S
    OBVIOUS
  <2>2. a \in Seq(S)
    OBVIOUS
  <2> HIDE DEF S
  <2>3. b \in Seq(S) /\ c \in Seq(S)
    BY <2>1, OptionalSeq
  <2>. QED
    BY <2>2, <2>3
<1>2. Elements(a) = {"CephBlockPool"}
  BY DEF Elements
<1>3. /\ Elements(b) \subseteq {"NonResilientPools"}
      /\ Elements(b) # {} => Has(s, "nonresilient")
  BY DEF Optional, Elements
<1>4. /\ Elements(c) \subseteq {"NFSPool"}
      /\ Elements(c) # {} => Has(s, "nfs")
  BY DEF Optional, Elements
<1>5. NewCephBlockPoolInstances(s) = (a \o b) \o c
  BY DEF NewCephBlockPoolInstances
<1> HIDE DEF S, a, b, c
<1>6. a \o b \in Seq(S) /\ Elements(a \o b) = Elements(a) \cup Elements(b)
  BY <1>1, ElementsOfBoth
<1>7. Elements((a \o b) \o c) = Elements(a) \cup Elements(b) \cup Elements(c)
  <2> DEFINE ab == a \o b
  <2>1. ab \in Seq(S) /\ Elements(ab) = Elements(a) \cup Elements(b)
    BY <1>6
  <2> HIDE DEF ab
  <2>2. Elements(ab \o c) = Elements(ab) \cup Elements(c)
    BY <1>1, <2>1, ElementsOfBoth
  <2>. QED
    BY <2>1, <2>2 DEF ab
<1>. QED
  BY <1>2, <1>3, <1>4, <1>5, <1>7

LEMMA MakesNooBaa ==
  ASSUME NEW s, NEW step, "NooBaa" \in Makes(s, step)
  PROVE  step = "NoobaaSystem" /\ ~IgnoresNooBaa(s)
<1>1. "NooBaa" \notin Elements(NewCephBlockPoolInstances(s))
  BY BlockPoolsAre
<1>. QED
  BY <1>1 DEF Makes, When

LEMMA WorkKeepsNooBaa ==
  ASSUME NooBaaStaysManaged, NooBaaInv, WorkMove
  PROVE  Ordered' /\ NooBaaManaged' /\ AwaitedGone'
<1>0. TypeOK /\ ~Idle /\ UNCHANGED <<script, gen>>
        /\ pass'.gen = pass.gen /\ pass'.deleting = pass.deleting
        /\ pass'.todo \in {Tail(pass.todo), LastSteps, <<>>}
  BY DEF NooBaaInv, StoreInv, KeyInv, WorkMove
<1>1. Ordered'
  BY <1>0, OrderStays DEF NooBaaInv
<1>2. NooBaaManaged'
  <2>1. Present("NooBaa")' => Present("NooBaa") \/ ~IgnoresNooBaa(sc)
    <3>1. Present("NooBaa")' =>
            Present("NooBaa") \/ "NooBaa" \in Makes(sc, Head(pass.todo))
      BY <1>0, WorkWrites
    <3>2. "NooBaa" \in Makes(sc, Head(pass.todo)) => ~IgnoresNooBaa(sc)
      BY MakesNooBaa
    <3>. QED
      BY <3>1, <3>2
  <2>2. ~IgnoresNooBaa(sc) => ~IgnoresNooBaa(script[gen])
    BY <1>0, Generations DEF NooBaaInv, NooBaaManaged, NooBaaStaysManaged, sc
  <2>. QED
    BY <1>0, <2>1, <2>2 DEF NooBaaInv, NooBaaManaged, sc
<1>3. AwaitedGone'
  <2>1. CASE pass.deleting /\ pass'.todo = Tail(pass.todo)
    <3>1. Elements(pass.todo) = {Head(pass.todo)} \cup Elements(pass'.todo)
      BY <1>0, <2>1, TodoTyped, TailIndices
    <3>2. Head(pass.todo) \in {"Tools", "StatusUpdate"}
            /\ \A o \in Finalized : written'[o] = written[o]
      BY <2>1 DEF WorkMove
    <3>3. Head(pass.todo) \notin AwaitedSteps
      BY <3>2 DEF AwaitedSteps
    <3>4. \A o \in Finalized : ~Present(o) => ~Present(o)'
      BY <3>2 DEF Present
    <3>5. /\ "Finalizer" \in Elements(pass.todo) =>
               \A step \in AwaitedSteps \ Elements(pass.todo) :
                 ~Present(Awaited(step))
          /\ "StorageClass" \in Elements(pass.todo)
               /\ "NoobaaSystem" \notin Elements(pass.todo) =>
               ~Present("NooBaa")
      BY <1>0, <2>1 DEF NooBaaInv, AwaitedGone
    <3>6. "Finalizer" \in Elements(pass'.todo) =>
            \A step \in AwaitedSteps \ Elements(pass'.todo) :
              ~Present(Awaited(step))'
      BY <3>1, <3>3, <3>4, <3>5, AwaitedFinalized
    <3>7. "StorageClass" \in Elements(pass'.todo)
            /\ "NoobaaSystem" \notin Elements(pass'.todo) =>
            ~Present("NooBaa")'
      BY <3>1, <3>3, <3>4, <3>5, AwaitedFinalized
    <3>. QED
      BY <3>6, <3>7 DEF AwaitedGone
  <2>2. CASE pass'.todo \in {LastSteps, <<>>}
    <3>1. Elements(pass'.todo) \subseteq {"Tools", "StatusUpdate"}
      BY <2>2, LastStepsTyped, NoObject
    <3>. QED
      BY <3>1 DEF AwaitedGone
  <2>. QED
    BY <1>0, <2>1, <2>2 DEF AwaitedGone
<1>. QED
  BY <1>1, <1>2, <1>3

LEMMA UninstallKeepsNooBaa ==
  ASSUME NooBaaInv, UninstallMove
  PROVE  Ordered' /\ NooBaaManaged' /\ AwaitedGone'
<1>0. TypeOK /\ ~Idle /\ UNCHANGED <<script, gen>>
        /\ pass'.gen = pass.gen /\ pass.deleting /\ pass'.deleting
        /\ pass'.todo \in {Tail(pass.todo), LastSteps}
        /\ \A o \in Finalized : written'[o] = written[o]
  BY DEF NooBaaInv, StoreInv, KeyInv, UninstallMove
<1>1. Ordered'
  <2>1. pass'.deleting = pass.deleting
    <3>1. pass.deleting \in BOOLEAN /\ pass'.deleting \in BOOLEAN
      BY <1>0, PassTyped DEF PassRecord
    <3>. QED
      BY <1>0, <3>1
  <2>. QED
    BY <1>0, <2>1, OrderStays DEF NooBaaInv
<1>2. \A o \in Finalized : Present(o)' = Present(o)
  BY <1>0 DEF Present
<1>3. NooBaaManaged'
  BY <1>0, <1>2, AwaitedFinalized DEF NooBaaInv, NooBaaManaged, sc
<1>4. AwaitedGone'
  <2>1. CASE pass'.todo = LastSteps
    <3>1. Elements(pass'.todo) \subseteq {"Tools", "StatusUpdate"}
      BY <2>1, LastStepsTyped
    <3>. QED
      BY <3>1 DEF AwaitedGone
  <2>2. CASE pass'.todo = Tail(pass.todo) /\ pass'.todo # LastSteps
    <3>1. Elements(pass.todo) = {Head(pass.todo)} \cup Elements(pass'.todo)
      BY <1>0, <2>2, TodoTyped, TailIndices
    <3>2. Head(pass.todo) \in AwaitedSteps =>
            ~Present(Awaited(Head(pass.todo)))
      BY <1>0, <2>2, AwaitedFinalized
         DEF UninstallMove, NooBaaInv, NooBaaManaged
    <3>3. /\ "Finalizer" \in Elements(pass.todo) =>
               \A step \in AwaitedSteps \ Elements(pass.todo) :
                 ~Present(Awaited(step))
          /\ "StorageClass" \in Elements(pass.todo)
               /\ "NoobaaSystem" \notin Elements(pass.todo) =>
               ~Present("NooBaa")
      BY <1>0 DEF NooBaaInv, AwaitedGone
    <3>4. "Finalizer" \in Elements(pass'.todo) =>
            \A step \in AwaitedSteps \ Elements(pass'.todo) :
              ~Present(Awaited(step))'
      BY <1>2, <3>1, <3>2, <3>3, AwaitedFinalized
    <3>5. "StorageClass" \in Elements(pass'.todo)
            /\ "NoobaaSystem" \notin Elements(pass'.todo) =>
            ~Present("NooBaa")'
      BY <1>2, <3>1, <3>2, <3>3, AwaitedFinalized
    <3>. QED
      BY <3>4, <3>5 DEF AwaitedGone
  <2>. QED
    BY <1>0, <2>1, <2>2
<1>. QED
  BY <1>1, <1>3, <1>4

LEMMA AroundKeepsNooBaa ==
  ASSUME NooBaaStaysManaged, NooBaaInv, AroundMove, TypeOK'
  PROVE  Ordered' /\ NooBaaManaged' /\ AwaitedGone'
<1>0. TypeOK /\ script' = script /\ gen' \in {gen, gen + 1}
        /\ pass' \in {pass, NoPass}
  BY DEF NooBaaInv, StoreInv, KeyInv, AroundMove
<1>1. Ordered'
  BY AroundKeepsOrder DEF NooBaaInv
<1>2. \A o \in Finalized : Present(o)' => Present(o)
  BY FinalizedAre DEF AroundMove, Present
<1>3. NoPass.gen = 1 /\ NoPass.todo = <<>> /\ ~NoPass.deleting
  BY DEF NoPass
<1>4. NooBaaManaged'
  <2>1. pass'.gen <= gen'
    BY <1>0, <1>3, Generations DEF NooBaaInv, NooBaaManaged
  <2>2. ~IgnoresNooBaa(script[gen]) => ~IgnoresNooBaa(script[gen'])
    <3>1. gen' \in DOMAIN script
      BY <1>0 DEF TypeOK
    <3>2. gen <= gen' /\ gen \in DOMAIN script /\ script \in Scripts
      BY <1>0, Generations
    <3>. QED
      BY <3>1, <3>2 DEF NooBaaStaysManaged
  <2>3. ~Idle' => pass' = pass
    BY <1>0, <1>3 DEF Idle
  <2>. QED
    BY <1>0, <1>2, <2>1, <2>2, <2>3, AwaitedFinalized
       DEF NooBaaInv, NooBaaManaged, Idle, sc
<1>5. AwaitedGone'
  <2>1. CASE pass' = pass
    BY <1>2, <2>1, AwaitedFinalized DEF NooBaaInv, AwaitedGone, Idle
  <2>2. CASE pass' = NoPass
    BY <1>3, <2>2 DEF AwaitedGone
  <2>. QED
    BY <1>0, <2>1, <2>2
<1>. QED
  BY <1>1, <1>4, <1>5

LEMMA ReconcileKeepsNooBaa ==
  ASSUME NooBaaInv, Reconcile
  PROVE  Ordered' /\ NooBaaManaged' /\ AwaitedGone'
<1>0. /\ TypeOK /\ UNCHANGED <<script, gen, written>> /\ pass'.gen = gen
      /\ pass'.deleting => pass'.todo = UninstallOrder
  BY ReconcileEffect DEF NooBaaInv, StoreInv, KeyInv, Reconcile, cluster, store
<1>1. Ordered'
  BY <1>0, OrderedAtFirst
<1>2. NooBaaManaged'
  BY <1>0, Generations DEF NooBaaInv, NooBaaManaged, Present, sc
<1>3. AwaitedGone'
  BY <1>0, UninstallInOrder, AwaitedFinalized DEF AwaitedGone
<1>. QED
  BY <1>1, <1>2, <1>3

LEMMA NextKeepsNooBaa ==
  ASSUME NooBaaStaysManaged, NooBaaInv, [Next]_vars
  PROVE  NooBaaInv'
<1>1. StoreInv' /\ TypeOK /\ DyingThere
  BY NextStands DEF NooBaaInv, StoreInv, KeyInv, Standing
<1> SUFFICES Ordered' /\ NooBaaManaged' /\ AwaitedGone'
  BY <1>1 DEF NooBaaInv
<1>2. CASE Ensure \/ Finish
  BY <1>1, <1>2, WorkMoves, WorkKeepsNooBaa
<1>3. CASE Uninstall
  BY <1>1, <1>3, UninstallMoves, UninstallKeepsNooBaa
<1>4. CASE Operators \/ Jobs \/ Environment \/ Offboard
  BY <1>1, <1>4, AroundMoves, AroundKeepsNooBaa DEF StoreInv, KeyInv
<1>5. CASE Reconcile
  BY <1>5, ReconcileKeepsNooBaa
<1>6. CASE ReconcileGone \/ UNCHANGED vars
  <2>1. UNCHANGED <<script, gen, pass, written>>
    BY <1>6 DEF ReconcileGone, vars, cluster, store
  <2>. QED
    BY <2>1 DEF NooBaaInv, Ordered, NooBaaManaged, AwaitedGone, Idle, Present,
                sc
<1>. QED
  BY <1>2, <1>3, <1>4, <1>5, <1>6 DEF Next, Controller

LEMMA InitHas ==
  ASSUME Init
  PROVE  /\ StoreInv /\ Idle /\ pass = NoPass /\ gen = 1 /\ life = "live"
         /\ dying \in Leftovers
         /\ \A o \in Finalized : Present(o) => o \in dying
<1>1. StoreInv
  BY InitStands
<1>2. Provided(script[1]) \cap Finalized = {}
  BY DEF Provided, KMSResources, ExternalSecrets, Finalized, RookObjects
<1>3. \A o \in Finalized : Present(o) => o \in dying
  BY <1>2, FinalizedAre DEF Init, Present
<1>. QED
  BY <1>1, <1>3 DEF Init, NoPass, Idle

LEMMA InitKeepsNooBaa ==
  ASSUME NoneLeft({"NooBaa"}), Init
  PROVE  NooBaaInv /\ ~Present("NooBaa")
<1>1. ~Present("NooBaa")
  BY InitHas, AwaitedFinalized DEF NoneLeft
<1>2. Ordered
  BY InitHas, NothingInOrder DEF Ordered, NoPass
<1>3. NooBaaManaged /\ AwaitedGone
  BY <1>1, InitHas DEF NooBaaManaged, AwaitedGone, NoPass
<1>. QED
  BY <1>1, <1>2, <1>3, InitHas DEF NooBaaInv

(* The class of the block pool, once there, stays asked for.               *)
ClassStaysWanted ==
  \A s \in Scripts : \A i, j \in DOMAIN s :
    i <= j /\ WantsRBD(s[j]) => WantsRBD(s[i])

(* Where NooBaa is about to be made its class is there; where it is, so is *)
(* the class, or a pass is to make it again.                               *)
ClassFirst ==
  Working /\ "StorageClass" \notin Elements(pass.todo)
    /\ "NoobaaSystem" \in Elements(pass.todo) /\ WantsRBD(sc) =>
    Present("RBDClass")

ClassThere == ClassFirst /\ NooBaaHasItsStorageClass

(* The class comes before NooBaa.                                          *)
LEMMA NooBaaComesAfter ==
  ASSUME NooBaaInv, ClassFirst, WorkMove, Present("NooBaa")', ~Present("NooBaa")
  PROVE  /\ Head(pass.todo) = "NoobaaSystem" /\ ~pass.deleting
         /\ WantsRBD(sc) => Present("RBDClass")
<1>0. TypeOK /\ ~Idle /\ pass.todo \in Seq(Steps) /\ pass.todo # <<>>
  BY TodoTyped DEF NooBaaInv, StoreInv, KeyInv, WorkMove
<1>1. Head(pass.todo) = "NoobaaSystem"
  BY <1>0, WorkWrites, MakesNooBaa
<1>2. ~pass.deleting
  BY <1>1 DEF WorkMove
<1>3. "StorageClass" \notin Elements(pass.todo)
  <2>1. Follows(pass.todo, "NoobaaSystem", {"StorageClass"})
    BY <1>2 DEF NooBaaInv, Ordered, MadeInOrder
  <2>. QED
    BY <1>0, <1>1, <2>1, FollowsStays
<1>4. "NoobaaSystem" \in Elements(pass.todo)
  BY <1>0, <1>1, TailIndices
<1>. QED
  BY <1>0, <1>1, <1>2, <1>3, <1>4 DEF ClassFirst, Working

LEMMA WorkKeepsClass ==
  ASSUME ClassStaysWanted, NooBaaInv, ClassThere, WorkMove
  PROVE  ClassThere'
<1>0. /\ TypeOK /\ ~Idle /\ UNCHANGED <<script, gen, life>>
      /\ pass'.gen = pass.gen /\ pass'.deleting = pass.deleting
      /\ pass'.todo \in {Tail(pass.todo), LastSteps, <<>>}
      /\ pass.todo \in Seq(Steps) /\ pass.todo # <<>>
  BY TodoTyped DEF NooBaaInv, StoreInv, KeyInv, WorkMove
<1>1. Present("RBDClass") => Present("RBDClass")' \/ GaveUp
  BY <1>0, WorkWrites DEF Replacing
<1>2. sc' = sc /\ script'[gen'] = script[gen]
  BY <1>0 DEF sc
<1>3. ClassFirst'
  <2> SUFFICES ASSUME Working', "StorageClass" \notin Elements(pass'.todo),
                      "NoobaaSystem" \in Elements(pass'.todo), WantsRBD(sc)
               PROVE  Present("RBDClass")'
    BY <1>2 DEF ClassFirst
  <2>1. pass'.todo \notin {LastSteps, <<>>}
    BY LastStepsTyped, NoObject
  <2>2. Elements(pass.todo) = {Head(pass.todo)} \cup Elements(pass'.todo)
    BY <1>0, <2>1, TailIndices
  <2>3. CASE Head(pass.todo) = "StorageClass"
    BY <2>1, <2>3 DEF WorkMove, GaveUp
  <2>4. CASE Head(pass.todo) # "StorageClass"
    BY <1>0, <1>1, <2>1, <2>2, <2>4
       DEF ClassThere, ClassFirst, Working, GaveUp
  <2>. QED
    BY <2>3, <2>4
<1>4. NooBaaHasItsStorageClass'
  <2> SUFFICES ASSUME life = "live", WantsRBD(script[gen]),
                      Present("NooBaa")', ~queued'
               PROVE  \/ Present("RBDClass")'
                      \/ "StorageClass" \in Elements(pass'.todo)
    BY <1>0, <1>2 DEF NooBaaHasItsStorageClass
  <2>0. /\ ~GaveUp /\ ~queued
        /\ pass'.todo = Tail(pass.todo) \/ Head(pass.todo) = "StatusUpdate"
    BY DEF GaveUp, WorkMove
  <2>4. ~pass.deleting
    BY <1>0 DEF NooBaaInv, StoreInv, KeyInv, DeletedInOrder
  <2>5. WantsRBD(sc)
    BY <1>0, Generations DEF ClassStaysWanted, NooBaaInv, NooBaaManaged, sc
  <2>1. CASE ~Present("NooBaa")
    BY <1>1, <2>0, <2>1, <2>5, NooBaaComesAfter DEF ClassThere
  <2>2. CASE Present("NooBaa") /\ Present("RBDClass")
    BY <1>1, <2>0, <2>2
  <2>3. CASE Present("NooBaa") /\ ~Present("RBDClass")
    <3>1. "StorageClass" \in Elements(pass.todo)
      BY <2>0, <2>3 DEF ClassThere, NooBaaHasItsStorageClass
    <3>2. Head(pass.todo) # "StatusUpdate"
      <4>1. Follows(pass.todo, "StatusUpdate", Steps \ {"StatusUpdate"})
        BY <2>4 DEF NooBaaInv, Ordered, StatusLast
      <4>2. Head(pass.todo) = "StatusUpdate" =>
              (Steps \ {"StatusUpdate"}) \cap Elements(pass.todo) = {}
        BY <1>0, <4>1, FollowsStays
      <4>3. "StorageClass" \in Steps
        BY <1>0, <3>1 DEF Elements
      <4>. QED
        BY <3>1, <4>2, <4>3
    <3>3. Elements(pass.todo) = {Head(pass.todo)} \cup Elements(pass'.todo)
      BY <1>0, <2>0, <3>2, TailIndices
    <3>4. CASE Head(pass.todo) = "StorageClass"
      BY <2>0, <2>5, <3>4 DEF WorkMove
    <3>. QED
      BY <3>1, <3>3, <3>4
  <2>. QED
    BY <2>1, <2>2, <2>3
<1>. QED
  BY <1>3, <1>4 DEF ClassThere

LEMMA UninstallKeepsClass ==
  ASSUME NooBaaInv, UninstallMove
  PROVE  /\ ClassThere'
         /\ Present("NooBaa") => Present("RBDClass")' = Present("RBDClass")
<1>0. TypeOK /\ pass.todo \in Seq(Steps) /\ pass.todo # <<>>
        /\ pass.deleting /\ pass'.deleting /\ ~Idle
        /\ life' \in {life, "gone"}
  BY TodoTyped DEF NooBaaInv, StoreInv, KeyInv, UninstallMove
<1>1. ClassThere'
  <2>1. life # "live"
    BY <1>0 DEF NooBaaInv, StoreInv, KeyInv, DeletedInOrder
  <2>. QED
    BY <1>0, <2>1
       DEF ClassThere, ClassFirst, NooBaaHasItsStorageClass, Working
<1>2. CASE Head(pass.todo) = "StorageClass"
  <2>1. Follows(pass.todo, "StorageClass", {"NoobaaSystem"})
    BY <1>0 DEF NooBaaInv, Ordered, TakenDownInOrder
  <2>2. "NoobaaSystem" \notin Elements(pass.todo)
    BY <1>0, <1>2, <2>1, FollowsStays
  <2>3. "StorageClass" \in Elements(pass.todo)
    BY <1>0, <1>2, TailIndices
  <2>4. ~Present("NooBaa")
    BY <1>0, <2>2, <2>3 DEF NooBaaInv, AwaitedGone
  <2>. QED
    BY <1>1, <2>4
<1>3. CASE Head(pass.todo) # "StorageClass"
  BY <1>1, <1>3 DEF UninstallMove, Present
<1>. QED
  BY <1>2, <1>3

LEMMA AroundLeavesClass ==
  ASSUME TypeOK, AroundMove
  PROVE  /\ Present("NooBaa")' => Present("NooBaa")
         /\ Present("RBDClass")' = Present("RBDClass")
<1>1. Present("NooBaa")' => Present("NooBaa")
  BY AwaitedFinalized, FinalizedAre DEF AroundMove, Present
<1>2. Present("RBDClass")' = Present("RBDClass")
  <2>1. "RBDClass" \in Objects \ {"OnboardingJob", "OnboardingKey"}
    BY DEF Objects, StorageClasses, ExternalClasses
  <2>2. "RBDClass" \notin dying
    BY DEF TypeOK, Finalized, RookObjects
  <2>. QED
    BY <2>1, <2>2 DEF AroundMove, Present
<1>. QED
  BY <1>1, <1>2

LEMMA AroundKeepsClass ==
  ASSUME NooBaaInv, ClassThere, AroundMove
  PROVE  ClassThere'
<1>0. /\ TypeOK /\ script' = script /\ pass' \in {pass, NoPass}
      /\ gen' # gen => queued'
      /\ pass' # pass => queued'
      /\ ~queued' => ~queued
      /\ life' = life \/ life' = "deleting"
  BY DEF NooBaaInv, StoreInv, KeyInv, AroundMove
<1>1. Working' => pass' = pass
  BY <1>0 DEF Working, Idle, NoPass
<1>2. ClassFirst'
  BY <1>0, <1>1, AroundLeavesClass DEF ClassThere, ClassFirst, Working, Idle, sc
<1>3. NooBaaHasItsStorageClass'
  BY <1>0, AroundLeavesClass DEF ClassThere, NooBaaHasItsStorageClass
<1>. QED
  BY <1>2, <1>3 DEF ClassThere

LEMMA ReconcileKeepsClass ==
  ASSUME NooBaaInv, Reconcile
  PROVE  ClassThere'
<1>0. TypeOK /\ UNCHANGED <<script, gen, life>> /\ pass'.gen = gen
        /\ pass'.deleting = (life = "deleting")
        /\ pass'.todo = IF life = "deleting" THEN UninstallOrder
                        ELSE Managers(script[gen]) \o Completion
  BY ReconcileEffect DEF NooBaaInv, StoreInv, KeyInv, Reconcile, cluster, store
<1>1. script[gen] \in ClusterSpec
  BY <1>0, ScriptTyped DEF TypeOK
<1>2. ASSUME ~pass'.deleting, WantsRBD(script[gen])
      PROVE  "StorageClass" \in Elements(pass'.todo)
  <2>1. pass'.todo = Managers(script[gen]) \o Completion
    BY <1>0, <1>2
  <2>2. script[gen].mode = "internal"
    BY <1>2 DEF WantsRBD
  <2>. QED
    BY <1>1, <2>1, <2>2, PassInOrder DEF InternalSteps
<1>3. sc' = script[gen]
  BY <1>0 DEF sc
<1>. QED
  BY <1>0, <1>2, <1>3
     DEF ClassThere, ClassFirst, NooBaaHasItsStorageClass, Working

LEMMA NextKeepsClass ==
  ASSUME NooBaaStaysManaged, ClassStaysWanted,
         NooBaaInv, ClassThere, [Next]_vars
  PROVE  NooBaaInv' /\ ClassThere'
<1>1. NooBaaInv' /\ TypeOK /\ DyingThere
  BY NextKeepsNooBaa DEF NooBaaInv, StoreInv, KeyInv, Standing
<1> SUFFICES ClassThere'
  BY <1>1
<1>2. CASE Ensure \/ Finish
  BY <1>1, <1>2, WorkMoves, WorkKeepsClass
<1>3. CASE Uninstall
  BY <1>1, <1>3, UninstallMoves, UninstallKeepsClass
<1>4. CASE Operators \/ Jobs \/ Environment \/ Offboard
  BY <1>1, <1>4, AroundMoves, AroundKeepsClass
<1>5. CASE Reconcile
  BY <1>5, ReconcileKeepsClass
<1>6. CASE UNCHANGED vars
  BY <1>6 DEF ClassThere, ClassFirst, NooBaaHasItsStorageClass, Working, Idle,
              Present, sc, vars, cluster, store
<1>7. CASE ReconcileGone
  <2>1. UNCHANGED <<script, gen, life, pass, written>> /\ life = "gone"
    BY <1>7 DEF ReconcileGone, cluster, store
  <2>. QED
    BY <2>1 DEF ClassThere, ClassFirst, NooBaaHasItsStorageClass, Working, Idle,
                Present, sc
<1>. QED
  BY <1>2, <1>3, <1>4, <1>5, <1>6, <1>7 DEF Next, Controller

(* A live cluster's NooBaa is without its storage class only while a pass  *)
(* that makes the class again is under way or queued, whatever fails or    *)
(* crashes between the deletion of a changed class and its creation        *)
(* (storageclasses.go:225-231), and however the spec is edited meanwhile.  *)
(* This needs NooBaa not to be given up to be ignored, where an uninstall  *)
(* would pass it over, and the class not to be asked for only later.       *)
THEOREM NooBaaHasItsStorageClassHolds ==
  ASSUME NooBaaStaysManaged, ClassStaysWanted, NoneLeft({"NooBaa"})
  PROVE  Spec => []NooBaaHasItsStorageClass
<1>1. Init => NooBaaInv /\ ClassThere
  <2>1. Init => Idle
    BY InitHas
  <2>. QED
    BY <2>1, InitKeepsNooBaa
       DEF ClassThere, ClassFirst, NooBaaHasItsStorageClass, Working
<1>2. NooBaaInv /\ ClassThere /\ [Next]_vars => NooBaaInv' /\ ClassThere'
  BY NextKeepsClass
<1>3. ClassThere => NooBaaHasItsStorageClass
  BY DEF ClassThere
<1>. QED
  BY <1>1, <1>2, <1>3, PTL DEF Spec

LEMMA NoobaaLeavesClass ==
  ASSUME TypeOK, EnsureNoobaaSystem
  PROVE  Present("RBDClass")' = Present("RBDClass")
<1>1. \E puts \in SUBSET {"NooBaa"} : Write(puts, {})
  BY DEF EnsureNoobaaSystem, Skips, NoWrite
<1>2. "RBDClass" \in Objects
  BY StorageClassNames
<1>. QED
  BY <1>1, <1>2 DEF Write, WriteExcept, Present

(* A step after which NooBaa is there without its class.                   *)
LEMMA ClassOutlives ==
  ASSUME NooBaaInv, ClassFirst, [Next]_vars,
         WantsRBD(sc), Present("NooBaa")', ~Present("RBDClass")'
  PROVE  /\ Present("NooBaa")
         /\ Present("RBDClass") => ~pass.deleting /\ queued'
<1>1. TypeOK /\ DyingThere
  BY DEF NooBaaInv, StoreInv, KeyInv, Standing
<1>2. CASE Ensure \/ Finish
  <2>1. WorkMove
    BY <1>1, <1>2, WorkMoves
  <2>2. Present("RBDClass") => Replacing
    BY <1>1, <2>1, WorkWrites
  <2>3. ASSUME ~Present("NooBaa")
        PROVE  FALSE
    <3>1. Head(pass.todo) = "NoobaaSystem" /\ Present("RBDClass")
      BY <2>1, <2>3, NooBaaComesAfter
    <3>2. ~Finish
      BY <3>1 DEF Finish, ResourceProfile, EvaluateConditions,
                  EnableMetricsExporter, EnsureRbdMirrorDebugLogging,
                  EnsureToolsDeployment, UpdateStatus, At, Uninstalling
    <3>3. EnsureNoobaaSystem
      BY <1>2, <3>1, <3>2, EnsureHeads
    <3>. QED
      BY <1>1, <3>1, <3>3, NoobaaLeavesClass
  <2>. QED
    BY <2>2, <2>3 DEF Replacing, GaveUp
<1>3. CASE Uninstall
  <2>1. UninstallMove
    BY <1>1, <1>3, UninstallMoves
  <2>2. Present("NooBaa")
    BY <2>1, AwaitedFinalized DEF UninstallMove, Present
  <2>. QED
    BY <2>1, <2>2, UninstallKeepsClass
<1>4. CASE Operators \/ Jobs \/ Environment \/ Offboard
  BY <1>1, <1>4, AroundMoves, AroundLeavesClass
<1>5. CASE Reconcile \/ ReconcileGone \/ UNCHANGED vars
  BY <1>5 DEF Reconcile, ReconcileGone, Present, vars, store
<1>. QED
  BY <1>2, <1>3, <1>4, <1>5 DEF Next, Controller

(* NooBaa is made only where its class is, and an uninstall deletes the    *)
(* class only after NooBaa is gone (reconcile.go:407,                      *)
(* uninstall_reconciler.go:322); a live pass takes it from NooBaa only     *)
(* where it is queued again (storageclasses.go:225).                       *)
THEOREM ClassOutlivesNooBaaHolds ==
  ASSUME NooBaaStaysManaged, ClassStaysWanted, NoneLeft({"NooBaa"})
  PROVE  Spec => ClassOutlivesNooBaa
<1>1. Init => NooBaaInv /\ ClassThere
  <2>1. Init => Idle
    BY InitHas
  <2>. QED
    BY <2>1, InitKeepsNooBaa
       DEF ClassThere, ClassFirst, NooBaaHasItsStorageClass, Working
<1>2. NooBaaInv /\ ClassThere /\ [Next]_vars => NooBaaInv' /\ ClassThere'
  BY NextKeepsClass
<1>3. NooBaaInv /\ ClassThere /\ [Next]_vars =>
        [ WantsRBD(sc) /\ Present("NooBaa")' /\ ~Present("RBDClass")' =>
            /\ Present("NooBaa")
            /\ Present("RBDClass") => ~pass.deleting /\ queued' ]_vars
  BY ClassOutlives DEF ClassThere
<1>. QED
  BY <1>1, <1>2, <1>3, PTL DEF Spec, ClassOutlivesNooBaa

-----------------------------------------------------------------------------
(* What the finalizer waits for                                            *)

(* A cluster that brings its own CephCluster asks for no pool and no       *)
(* mirror that an uninstall may leave behind.                              *)
TracedWithCeph ==
  \A s \in Scripts : \A i \in DOMAIN s :
    s[i].strategy["CephCluster"] = "ignore" =>
      s[i].features \cap {"nonresilient", "nfs", "mirroring"} = {}

(* The CephCluster is marked for deletion by an uninstall only.            *)
MarkedLast == "CephCluster" \in dying => life # "live" /\ ~Working

TracedNeedCeph ==
  \A o \in Traced : Present(o) => Present("CephCluster")

CephComesFirst ==
  Working /\ "CephCluster" \notin Elements(pass.todo)
    /\ {"CephBlockPools", "CephRbdMirrors"} \cap Elements(pass.todo) # {} =>
    Present("CephCluster") \/ Unmanaged("CephCluster")

TakenDown == Dependents("CephCluster") \cup {"CephCluster", "NooBaa"}

GoneForGood == life = "gone" => ~Working /\ \A o \in TakenDown : ~Present(o)

TeardownInv ==
  NooBaaInv /\ MarkedLast /\ TracedNeedCeph /\ CephComesFirst /\ GoneForGood

LEMMA TakenDownIs ==
  /\ \A o \in TakenDown :
       o \in Traced \/ \E step \in AwaitedSteps : o = Awaited(step)
  /\ Traced \subseteq Dependents("CephCluster")
  /\ Awaited("CephCluster") = "CephCluster" /\ "CephCluster" \in AwaitedSteps
  /\ TakenDown \subseteq Finalized
<1>1. Dependents("CephCluster") =
        RookObjects \ {"CephCluster", "SubVolumeGroup", "RadosNamespace"}
  BY DEF Dependents
<1>2. /\ Awaited("NoobaaSystem") = "NooBaa"
      /\ Awaited("CephObjectStoreUsers") = "CephObjectStoreUser"
      /\ Awaited("CephObjectStores") = "CephObjectStore"
      /\ Awaited("CephNFS") = "CephNFS"
      /\ Awaited("CephFilesystems") = "CephFilesystem"
      /\ Awaited("CephBlockPools") = "CephBlockPool"
      /\ Awaited("CephCluster") = "CephCluster"
  BY DEF Awaited
<1>3. TakenDown \subseteq
        Traced \cup {"CephCluster", "NooBaa", "CephBlockPool",
                     "CephFilesystem", "CephNFS", "CephObjectStore",
                     "CephObjectStoreUser"}
  BY <1>1 DEF TakenDown, Traced, RookObjects
<1>4. /\ Traced \subseteq Dependents("CephCluster")
      /\ TakenDown \subseteq Finalized
  BY <1>1 DEF TakenDown, Traced, RookObjects, Finalized
<1>. QED
  BY <1>2, <1>3, <1>4 DEF AwaitedSteps

LEMMA MakesTraced ==
  ASSUME NEW s, NEW step, NEW o \in Traced, o \in Makes(s, step)
  PROVE  /\ step \in {"CephBlockPools", "CephRbdMirrors"}
         /\ s.features \cap {"nonresilient", "nfs", "mirroring"} # {}
<1>1. /\ o \in Elements(NewCephBlockPoolInstances(s)) =>
           Has(s, "nonresilient") \/ Has(s, "nfs")
  BY BlockPoolsAre DEF Traced
<1>. QED
  BY <1>1 DEF Makes, When, Has, Traced

LEMMA WorkKeepsTeardown ==
  ASSUME TracedWithCeph, TeardownInv, WorkMove
  PROVE  MarkedLast' /\ TracedNeedCeph' /\ CephComesFirst' /\ GoneForGood'
<1>0. /\ TypeOK /\ ~Idle /\ UNCHANGED <<script, gen, life>>
      /\ pass'.gen = pass.gen /\ pass'.deleting = pass.deleting
      /\ pass'.todo \in {Tail(pass.todo), LastSteps, <<>>}
      /\ pass.todo \in Seq(Steps) /\ pass.todo # <<>>
  BY TodoTyped DEF TeardownInv, NooBaaInv, StoreInv, KeyInv, WorkMove
<1>1. MarkedLast'
  BY <1>0, WorkWrites DEF TeardownInv, MarkedLast, Working
<1>2. Present("CephCluster") => Present("CephCluster")'
  BY <1>0, WorkWrites
<1>3. ASSUME NEW o \in Traced, Present(o)', ~Present(o)
      PROVE  Present("CephCluster")
  <2>1. o \in Makes(sc, Head(pass.todo))
    BY <1>0, <1>3, WorkWrites
  <2>2. /\ Head(pass.todo) \in {"CephBlockPools", "CephRbdMirrors"}
        /\ sc.features \cap {"nonresilient", "nfs", "mirroring"} # {}
    BY <2>1, MakesTraced
  <2>3. ~pass.deleting
    BY <2>2 DEF WorkMove
  <2>4. ~Unmanaged("CephCluster")
    BY <1>0, <2>2, Generations DEF TracedWithCeph, Unmanaged, sc
  <2>5. "CephCluster" \notin Elements(pass.todo)
    <3>1. /\ Follows(pass.todo, "CephBlockPools", {"CephCluster"})
          /\ Follows(pass.todo, "CephRbdMirrors", {"CephCluster"})
      BY <2>3 DEF TeardownInv, NooBaaInv, Ordered, MadeInOrder
    <3>2. \A step \in {"CephBlockPools", "CephRbdMirrors"} :
            Follows(pass.todo, step, {"CephCluster"})
              /\ Head(pass.todo) = step =>
            {"CephCluster"} \cap Elements(pass.todo) = {}
      BY <1>0, FollowsStays
    <3>. QED
      BY <2>2, <3>1, <3>2
  <2>6. Head(pass.todo) \in Elements(pass.todo)
    BY <1>0, TailIndices
  <2>. QED
    BY <1>0, <2>2, <2>3, <2>4, <2>5, <2>6
       DEF TeardownInv, CephComesFirst, Working
<1>4. TracedNeedCeph'
  <2>1. \A o \in Traced : Present(o) => Present("CephCluster")
    BY DEF TeardownInv, TracedNeedCeph
  <2>. QED
    BY <1>2, <1>3, <2>1 DEF TracedNeedCeph
<1>5. CephComesFirst'
  <2> SUFFICES ASSUME Working', "CephCluster" \notin Elements(pass'.todo),
                      {"CephBlockPools", "CephRbdMirrors"}
                        \cap Elements(pass'.todo) # {},
                      ~Unmanaged("CephCluster")
               PROVE  Present("CephCluster")'
    BY <1>0 DEF CephComesFirst, Unmanaged, sc
  <2>1. pass'.todo \notin {LastSteps, <<>>}
    BY LastStepsTyped, NoObject
  <2>2. Elements(pass.todo) = {Head(pass.todo)} \cup Elements(pass'.todo)
    BY <1>0, <2>1, TailIndices
  <2>3. CASE Head(pass.todo) = "CephCluster"
    BY <2>1, <2>3 DEF WorkMove, GaveUp
  <2>4. CASE Head(pass.todo) # "CephCluster"
    BY <1>0, <1>2, <2>2, <2>4 DEF TeardownInv, CephComesFirst, Working
  <2>. QED
    BY <2>3, <2>4
<1>6. GoneForGood'
  <2>1. life = "gone" => pass.deleting
    BY <1>0 DEF TeardownInv, GoneForGood, Working
  <2>2. life = "gone" => \A o \in TakenDown : written'[o] = written[o]
    BY <2>1, TakenDownIs DEF WorkMove
  <2>3. life = "gone" => \A o \in TakenDown : ~Present(o)
    BY DEF TeardownInv, GoneForGood
  <2>4. life' = "gone" => \A o \in TakenDown : ~Present(o)'
    BY <1>0, <2>2, <2>3 DEF Present
  <2>5. life' = "gone" => ~Working'
    BY <1>0, <2>1 DEF Working
  <2>6. TakenDown' = TakenDown
    BY DEF TakenDown, Dependents
  <2>. QED
    BY <2>4, <2>5, <2>6 DEF GoneForGood
<1>. QED
  BY <1>1, <1>4, <1>5, <1>6

LEMMA UninstallKeepsTeardown ==
  ASSUME TeardownInv, UninstallMove
  PROVE  MarkedLast' /\ TracedNeedCeph' /\ CephComesFirst' /\ GoneForGood'
<1>0. /\ TypeOK /\ ~Idle /\ pass.deleting /\ pass'.deleting
      /\ \A o \in Finalized : written'[o] = written[o]
      /\ pass.todo \in Seq(Steps) /\ pass.todo # <<>>
      /\ life' \in {life, "gone"}
  BY TodoTyped
     DEF TeardownInv, NooBaaInv, StoreInv, KeyInv, UninstallMove
<1>1. MarkedLast'
  <2>1. life # "live"
    BY <1>0 DEF TeardownInv, NooBaaInv, StoreInv, KeyInv, DeletedInOrder
  <2>. QED
    BY <1>0, <2>1 DEF MarkedLast, Working
<1>2. \A o \in Finalized : Present(o)' = Present(o)
  BY <1>0 DEF Present
<1>3. TracedNeedCeph'
  BY <1>2, AwaitedFinalized DEF TeardownInv, TracedNeedCeph
<1>4. CephComesFirst'
  BY <1>0 DEF CephComesFirst, Working
<1>5. ASSUME life' = "gone", life # "gone"
      PROVE  \A o \in TakenDown : ~Present(o)
  <2>1. Head(pass.todo) = "Finalizer"
    BY <1>5 DEF UninstallMove
  <2>2. "Finalizer" \in Elements(pass.todo)
    BY <1>0, <2>1, TailIndices
  <2>3. AwaitedSteps \cap Elements(pass.todo) = {}
    <3>1. Follows(pass.todo, "Finalizer", AwaitedSteps)
      BY <1>0 DEF TeardownInv, NooBaaInv, Ordered, TakenDownInOrder
    <3>2. "Finalizer" \notin AwaitedSteps
      BY DEF AwaitedSteps
    <3>. QED
      BY <1>0, <2>1, <3>1, <3>2, FollowsStays
  <2>4. \A step \in AwaitedSteps : ~Present(Awaited(step))
    BY <1>0, <2>2, <2>3 DEF TeardownInv, NooBaaInv, AwaitedGone
  <2>5. \A o \in Traced : ~Present(o)
    BY <2>4, TakenDownIs DEF TeardownInv, TracedNeedCeph
  <2>. QED
    BY <2>4, <2>5, TakenDownIs
<1>6. GoneForGood'
  <2>1. TakenDown' = TakenDown
    BY DEF TakenDown, Dependents
  <2>2. life' = "gone" => \A o \in TakenDown : ~Present(o)
    BY <1>5 DEF TeardownInv, GoneForGood
  <2>3. life' = "gone" => \A o \in TakenDown : ~Present(o)'
    BY <1>2, <2>2, TakenDownIs
  <2>. QED
    BY <1>0, <2>1, <2>3 DEF GoneForGood, Working
<1>. QED
  BY <1>1, <1>3, <1>4, <1>6

LEMMA AroundKeepsTeardown ==
  ASSUME TeardownInv, AroundMove
  PROVE  MarkedLast' /\ TracedNeedCeph' /\ CephComesFirst' /\ GoneForGood'
<1>0. /\ TypeOK /\ script' = script /\ pass' \in {pass, NoPass}
      /\ life' = life \/ (life = "live" /\ life' = "deleting")
      /\ dying' \subseteq dying
  BY DEF TeardownInv, NooBaaInv, StoreInv, KeyInv, AroundMove
<1>1. \A o \in Finalized : Present(o)' => Present(o)
  BY FinalizedAre DEF AroundMove, Present
<1>2. Working' => pass' = pass /\ Working
  BY <1>0 DEF Working, Idle, NoPass
<1>3. MarkedLast'
  BY <1>0, <1>2 DEF TeardownInv, MarkedLast
<1>4. ASSUME Present("CephCluster"), ~Present("CephCluster")'
      PROVE  /\ "CephCluster" \in dying
             /\ \A d \in Dependents("CephCluster") : ~Present(d)
  <2>1. "CephCluster" \in Objects \ {"OnboardingJob", "OnboardingKey"}
    BY AwaitedFinalized, FinalizedAre
  <2>. QED
    BY <1>4, <2>1 DEF AroundMove, Present
<1>5. TracedNeedCeph'
  <2>1. \A o \in Traced : Present(o) => Present("CephCluster")
    BY DEF TeardownInv, TracedNeedCeph
  <2>. QED
    BY <1>1, <1>4, <2>1, AwaitedFinalized, TakenDownIs DEF TracedNeedCeph
<1>6. CephComesFirst'
  <2>1. Working => "CephCluster" \notin dying
    BY DEF TeardownInv, MarkedLast
  <2>. QED
    BY <1>0, <1>2, <1>4, <2>1 DEF TeardownInv, CephComesFirst, Unmanaged, sc
<1>7. GoneForGood'
  <2>1. TakenDown' = TakenDown
    BY DEF TakenDown, Dependents
  <2>2. life' = "gone" => ~Working /\ \A o \in TakenDown : ~Present(o)
    BY <1>0 DEF TeardownInv, GoneForGood
  <2>3. life' = "gone" => \A o \in TakenDown : ~Present(o)'
    BY <1>1, <2>2, TakenDownIs
  <2>. QED
    BY <1>2, <2>1, <2>2, <2>3 DEF GoneForGood
<1>. QED
  BY <1>3, <1>5, <1>6, <1>7

LEMMA ReconcileKeepsTeardown ==
  ASSUME TeardownInv, Reconcile
  PROVE  MarkedLast' /\ TracedNeedCeph' /\ CephComesFirst' /\ GoneForGood'
<1>0. /\ TypeOK /\ life # "gone"
      /\ UNCHANGED <<script, gen, life, written, dying>>
      /\ pass'.gen = gen
      /\ pass'.deleting = (life = "deleting")
      /\ pass'.todo = IF life = "deleting" THEN UninstallOrder
                      ELSE Managers(script[gen]) \o Completion
  BY ReconcileEffect
     DEF TeardownInv, NooBaaInv, StoreInv, KeyInv, Reconcile, cluster, store
<1>1. MarkedLast'
  <2>1. life # "live" => pass'.deleting
    BY <1>0 DEF TypeOK
  <2>. QED
    BY <1>0, <2>1 DEF TeardownInv, MarkedLast, Working
<1>2. TracedNeedCeph'
  BY <1>0 DEF TeardownInv, TracedNeedCeph, Present
<1>3. CephComesFirst'
  <2>1. script[gen] \in ClusterSpec
    BY <1>0, ScriptTyped DEF TypeOK
  <2>2. CASE pass'.deleting
    BY <2>2 DEF CephComesFirst, Working
  <2>3. CASE ~pass'.deleting
    <3>1. pass'.todo = Managers(script[gen]) \o Completion
      BY <1>0, <2>3
    <3>2. \/ "CephCluster" \in Elements(pass'.todo)
          \/ {"CephBlockPools", "CephRbdMirrors"} \cap Elements(pass'.todo)
               = {}
      BY <2>1, <3>1, PassInOrder DEF InternalSteps
    <3>. QED
      BY <3>2 DEF CephComesFirst
  <2>. QED
    BY <2>2, <2>3
<1>4. GoneForGood'
  BY <1>0 DEF GoneForGood
<1>. QED
  BY <1>1, <1>2, <1>3, <1>4

LEMMA NextKeepsTeardown ==
  ASSUME NooBaaStaysManaged, TracedWithCeph, TeardownInv, [Next]_vars
  PROVE  TeardownInv'
<1>1. NooBaaInv' /\ TypeOK /\ DyingThere
  BY NextKeepsNooBaa DEF TeardownInv, NooBaaInv, StoreInv, KeyInv, Standing
<1> SUFFICES MarkedLast' /\ TracedNeedCeph' /\ CephComesFirst' /\ GoneForGood'
  BY <1>1 DEF TeardownInv
<1>2. CASE Ensure \/ Finish
  BY <1>1, <1>2, WorkMoves, WorkKeepsTeardown
<1>3. CASE Uninstall
  BY <1>1, <1>3, UninstallMoves, UninstallKeepsTeardown
<1>4. CASE Operators \/ Jobs \/ Environment \/ Offboard
  BY <1>1, <1>4, AroundMoves, AroundKeepsTeardown
<1>5. CASE Reconcile
  BY <1>5, ReconcileKeepsTeardown
<1>6. CASE ReconcileGone \/ UNCHANGED vars
  <2>1. UNCHANGED <<script, gen, life, pass, written, dying>>
    BY <1>6 DEF ReconcileGone, vars, cluster, store
  <2>2. TakenDown' = TakenDown
    BY DEF TakenDown, Dependents
  <2>. QED
    BY <2>1, <2>2
       DEF TeardownInv, MarkedLast, TracedNeedCeph, CephComesFirst,
           GoneForGood, Working, Idle, Present, Unmanaged, sc
<1>. QED
  BY <1>2, <1>3, <1>4, <1>5, <1>6 DEF Next, Controller

(* The finalizer of a deleted StorageCluster goes only when everything     *)
(* that Rook or NooBaa would have to take down is gone.  The step of the   *)
(* pools knows only the pools that the last spec asks for, and the one of  *)
(* the mirror waits for nothing (uninstall_reconciler.go:328, 332); but    *)
(* the CephCluster, whose step comes later and waits, cannot go before     *)
(* what is left of them.  This needs a cluster to ask for them only beside *)
(* a CephCluster of its own, NooBaa not to be given up to be ignored, and  *)
(* nothing of the kind left of an earlier cluster.                         *)
THEOREM FinalizerWaitsHolds ==
  ASSUME NooBaaStaysManaged, TracedWithCeph,
         NoneLeft(Traced \cup {"NooBaa", "CephCluster"})
  PROVE  Spec => []FinalizerWaits
<1>1. ASSUME Init
      PROVE  TeardownInv
  <2>1. NoneLeft({"NooBaa"})
    BY DEF NoneLeft
  <2>2. /\ NooBaaInv /\ Idle /\ life = "live" /\ dying \in Leftovers
        /\ \A o \in Finalized : Present(o) => o \in dying
    BY <1>1, <2>1, InitKeepsNooBaa, InitHas
  <2>3. (Traced \cup {"CephCluster"}) \cap dying = {}
    BY <2>2 DEF NoneLeft
  <2>. QED
    BY <2>2, <2>3, AwaitedFinalized
       DEF TeardownInv, MarkedLast, TracedNeedCeph, CephComesFirst,
           GoneForGood, Working
<1>2. TeardownInv /\ [Next]_vars => TeardownInv'
  BY NextKeepsTeardown
<1>3. TeardownInv => FinalizerWaits
  BY DEF TeardownInv, GoneForGood, FinalizerWaits, TakenDown
<1>. QED
  BY <1>1, <1>2, <1>3, PTL DEF Spec

-----------------------------------------------------------------------------
(* What stays delivered                                                    *)

(* A live pass does not delete what its spec asks for.                     *)
LEMMA DueLasts ==
  ASSUME NEW s, NEW step
  PROVE  Due(s, step) \subseteq
           Permanent
             \cup When(Has(s, "consumers"),
                       {"ProviderSecret", "ProviderService",
                        "ProviderDeployment", "StorageClient"})
             \cup When(Has(s, "backing"), {"BackingClass"})
             \cup When(Has(s, "mirroring"), {"CephRBDMirror"})
<1> DEFINE Asked == Permanent
             \cup When(Has(s, "consumers"),
                       {"ProviderSecret", "ProviderService",
                        "ProviderDeployment", "StorageClient"})
             \cup When(Has(s, "backing"), {"BackingClass"})
             \cup When(Has(s, "mirroring"), {"CephRBDMirror"})
<1> SUFFICES Due(s, step) \subseteq Asked
  OBVIOUS
<1>1. /\ Has(s, "consumers") =>
           {"ProviderSecret", "ProviderService", "ProviderDeployment",
            "StorageClient"} \subseteq Asked
      /\ Has(s, "backing") => "BackingClass" \in Asked
      /\ Has(s, "mirroring") => "CephRBDMirror" \in Asked
      /\ Permanent \subseteq Asked
  BY DEF When
<1>2. {"ClusterResourceQuota", "RookConfigOverride", "OsdRemovalTemplate",
       "ExtendClusterTemplate", "ClusterClaims", "CephCluster",
       "CephBlockPool", "NonResilientPools", "NFSPool", "CephFilesystem",
       "SubVolumeGroup", "CephNFS", "NFSService", "NFSServiceMonitor",
       "CephObjectStore", "CephObjectStoreUser", "CephFSSnapshotClass",
       "RBDSnapshotClass", "NFSSnapshotClass"} \subseteq Permanent
  BY DEF Permanent, Objects, RookObjects
<1>3. StorageClasses \subseteq Permanent
  BY DEF Permanent, Objects, StorageClasses, ExternalClasses
<1> HIDE DEF Asked
<1>4. CASE step = "ProviderServer"
  <2>1. Elements(ProviderObjects(s)) \subseteq
          {"ProviderSecret", "ProviderService", "ProviderDeployment"}
    BY DEF ProviderObjects, GetProviderAPIServerSecret,
           GetProviderAPIServerService, GetProviderAPIServerDeployment,
           Elements
  <2>. QED
    BY <1>1, <1>4, <2>1, DueOfPlainSteps DEF When
<1>5. CASE step = "StorageClient"
  <2>1. Elements(NewStorageClient(s)) = {"StorageClient"}
    BY DEF NewStorageClient, Elements
  <2>. QED
    BY <1>1, <1>5, <2>1, DueOfPlainSteps DEF When
<1>6. CASE step = "BackingStorageClasses"
  <2>1. Has(s, "backing") =>
          Elements(NewBackingStorageClasses(s)) = {"BackingClass"}
    BY DEF NewBackingStorageClasses, Optional, Elements
  <2>2. ~Has(s, "backing") => Elements(NewBackingStorageClasses(s)) = {}
    BY NoObject DEF NewBackingStorageClasses, Optional
  <2>. QED
    BY <1>1, <1>6, <2>1, <2>2, DueOfPlainSteps
<1>7. CASE step \in {"StorageQuota", "ClusterClaim"}
  <2>1. /\ Elements(NewStorageQuotas(s)) \subseteq {"ClusterResourceQuota"}
        /\ Elements(NewClusterClaims(s)) \subseteq {"ClusterClaims"}
    BY DEF NewStorageQuotas, NewClusterClaims, Optional, Elements
  <2>. QED
    BY <1>1, <1>2, <1>7, <2>1, DueOfPlainSteps
<1>8. CASE step = "JobTemplates"
  <2>1. Elements(OsdCleanUpTemplate(s) \o ExtendClusterTemplate(s))
          \subseteq {"OsdRemovalTemplate", "ExtendClusterTemplate"}
    BY DEF OsdCleanUpTemplate, ExtendClusterTemplate, Elements
  <2>. QED
    BY <1>1, <1>2, <1>8, <2>1, DueOfPlainSteps
<1>9. CASE step = "MetricsExporter"
  BY <1>1, <1>9, ExporterList, DueOfPlainSteps DEF When
<1>10. CASE step = "CephCluster"
  <2>1. Elements(NewCephCluster(s)) = {"CephCluster"}
    BY DEF NewCephCluster, Elements
  <2>2. Due(s, "CephCluster") \subseteq Elements(NewCephCluster(s))
    BY DEF Due, When
  <2>. QED
    BY <1>1, <1>2, <1>10, <2>1, <2>2
<1>11. CASE step = "CephBlockPools"
  BY <1>1, <1>2, <1>11, RestoredDue, BlockPoolsAre
<1>12. CASE step = "CephFilesystems"
  BY <1>1, <1>2, <1>12, RestoredDue, FilesystemAndGroup
<1>13. CASE step = "CephNFSService"
  <2>1. Elements(NewNFSServices(s) \o NewNFSServiceMonitors(s))
          \subseteq {"NFSService", "NFSServiceMonitor"}
    BY DEF NewNFSServices, NewNFSServiceMonitors, Elements
  <2>. QED
    BY <1>1, <1>2, <1>13, <2>1, RestoredDue
<1>14. CASE step \in {"CephNFS", "CephObjectStores", "CephObjectStoreUsers",
                      "CephRbdMirrors"}
  BY <1>1, <1>2, <1>14, RestoredDue, RestoredListsAre
<1>15. CASE step \in {"StorageClass", "SnapshotClass"}
  <2>1. /\ Due(s, "StorageClass") \subseteq
             Elements(NewStorageClassConfigurations(s))
        /\ Due(s, "SnapshotClass") \subseteq
             Elements(NewSnapshotClassConfigurations(s))
    BY DEF Due
  <2>. QED
    BY <1>1, <1>2, <1>3, <1>15, <2>1, StorageClassList, SnapshotClassList
<1>16. CASE step \notin
         {"ProviderServer", "StorageClient", "BackingStorageClasses",
          "StorageQuota", "ClusterClaim", "JobTemplates", "MetricsExporter",
          "CephCluster", "CephBlockPools", "CephFilesystems",
          "CephNFSService", "CephNFS", "CephObjectStores",
          "CephObjectStoreUsers", "CephRbdMirrors", "StorageClass",
          "SnapshotClass"}
  <2>1. Due(s, step) = {}
    BY <1>16 DEF Due
  <2>. QED
    BY <2>1
<1>. QED
  BY <1>4, <1>5, <1>6, <1>7, <1>8, <1>9, <1>10, <1>11, <1>12, <1>13, <1>14,
     <1>15, <1>16

LEMMA KeptAre ==
  ASSUME NEW s, NEW step
  PROVE  Kept(s, step) \subseteq {"CephCluster", "CephBlockPool",
                                  "CephFilesystem", "CephObjectStore",
                                  "CephObjectStoreUser"}
BY DEF Kept, When

LEMMA WantedStays ==
  ASSUME NEW s, NEW step
  PROVE  /\ Due(s, step) \cup Kept(s, step)
              \subseteq Objects \ {"OnboardingJob", "OnboardingKey"}
         /\ (Due(s, step) \cup Kept(s, step)) \cap Dispensable(s) = {}
<1>1. Elements(NewToolsDeployment(s)) = {"ToolsDeployment"}
  BY DEF NewToolsDeployment, Elements
<1>2. Elements(NewStorageClient(s)) = {"StorageClient"}
  BY DEF NewStorageClient, Elements
<1>3. Elements(NewCephRbdMirrorInstances(s)) = {"CephRBDMirror"}
  BY RestoredListsAre
<1>4. Elements(ProviderObjects(s)) \subseteq
        {"ProviderSecret", "ProviderService", "ProviderDeployment"}
  BY DEF ProviderObjects, GetProviderAPIServerSecret,
         GetProviderAPIServerService, GetProviderAPIServerDeployment, Elements
<1>5. Dispensable(s) \subseteq
        {"ToolsDeployment"}
          \cup When(~Has(s, "consumers"),
                    {"ProviderSecret", "ProviderService",
                     "ProviderDeployment", "StorageClient"})
          \cup When(~Has(s, "backing"), {"BackingClass"})
          \cup When(~Has(s, "mirroring"), {"CephRBDMirror"})
  BY <1>1, <1>2, <1>3, <1>4 DEF Dispensable, When
<1>6. {"ProviderSecret", "ProviderService", "ProviderDeployment",
       "StorageClient", "BackingClass", "CephRBDMirror", "CephCluster",
       "CephBlockPool", "CephFilesystem", "CephObjectStore",
       "CephObjectStoreUser"} \subseteq
        Objects \ {"OnboardingJob", "OnboardingKey"}
  BY DEF Objects, RookObjects
<1>7. Due(s, step) \subseteq Objects \ {"OnboardingJob", "OnboardingKey"}
  BY <1>6, DueLasts DEF When, Permanent
<1>8. Due(s, step) \cap Dispensable(s) = {}
  BY <1>5, DueLasts DEF When, Permanent
<1>9. Kept(s, step) \cap Dispensable(s) = {}
  BY KeptAre, DispensableAre
<1>. QED
  BY <1>6, <1>7, <1>8, <1>9, KeptAre

(* What is about to go, and unseen, does not count.  What a swallowed      *)
(* failure has left out does.                                              *)
Stays(o) == o \notin dying \/ o \in Watched
Fresh(o) == o \in passedOver \/ (written[o] = gen /\ Stays(o))
There(o) == o \in passedOver \/ (Present(o) /\ Stays(o))

Done(step) ==
  /\ \A o \in Due(script[gen], step) : Fresh(o)
  /\ \A o \in Kept(script[gen], step) : There(o)

LeftAlone == ~queued /\ life = "live"

(* While nothing new has come up, what the pass is past is delivered, and  *)
(* stays so once it has ended.                                             *)
Delivered ==
  LeftAlone =>
    /\ ~Idle => pass.gen = gen /\ ~pass.deleting
    /\ \A step \in Steps \ Elements(pass.todo) : Done(step)

(* What a spec is content to find is not about to go, unless it is watched.*)
NotAdopted ==
  life = "live" =>
    \A i \in DOMAIN script : \A step \in Steps \ {"StorageClass"} :
      Kept(script[i], step) \cap dying \subseteq Watched

ExternalAlone ==
  Working /\ "ExternalResources" \in Elements(pass.todo) =>
    sc.mode = "external"

DeliveryInv ==
  StoreInv /\ Ordered /\ NotAdopted /\ ExternalAlone /\ Delivered

(* No spec is content with an object that an earlier cluster has left      *)
(* dying, but for those that are watched.                                  *)
NothingAdopted ==
  \A s \in Scripts : \A i \in DOMAIN s : \A left \in Leftovers :
    \A step \in Steps \ {"StorageClass"} :
      Kept(s[i], step) \cap left \subseteq Watched

(* No snapshot class that is managed comes after one that is not.          *)
SnapshotsManaged ==
  \A s \in Scripts : \A i \in DOMAIN s : SnapshotsOrdered(s[i])

LEMMA NothingAskedAbroad ==
  ASSUME NEW s, s.mode # "internal", NEW step
  PROVE  Due(s, step) = {} /\ Kept(s, step) = {}
BY DEF Due, Kept, When, Inits

(* What is done stays so: a manager deletes nothing that is asked for.     *)
LEMMA WorkKeepsDone ==
  ASSUME StoreInv, WorkMove, ~pass.deleting, pass.gen = gen, NEW step,
         NEW puts, NEW dels, NEW over, Effect(puts, dels, over), ~GaveUp,
         puts \cap dying \subseteq Watched
  PROVE  /\ \A o \in Due(sc, step) :
              Fresh(o) \/ o \in puts \cup over => Fresh(o)'
         /\ \A o \in Kept(sc, step) :
              There(o) \/ o \in puts \cup over => There(o)'
<1>0. TypeOK /\ gen' = gen /\ gen # 0
  BY Generations DEF StoreInv, KeyInv, WorkMove
<1>1. ASSUME NEW o \in Due(sc, step) \cup Kept(sc, step)
      PROVE  /\ Fresh(o) \/ o \in puts \cup over => Fresh(o)'
             /\ There(o) \/ o \in puts \cup over => There(o)'
  <2>1. o \in Objects /\ o \notin Dispensable(sc)
    BY <1>1, WantedStays
  <2>2. o \in dels => o \in over /\ o \notin Finalized
    <3>1. "BackingClass" \notin Finalized
      BY PlainlyUnfinalized
    <3>. QED
      BY <2>1, <3>1 DEF Effect, When, Replacing
  <2>3. /\ written' = [p \in Objects |->
                         IF p \in dels \ Finalized THEN 0
                         ELSE IF p \in puts THEN pass.gen ELSE written[p]]
        /\ dying' = dying \cup {p \in dels \cap Finalized : Present(p)}
        /\ passedOver' = (passedOver \ puts) \cup over
    BY DEF Effect, WriteExcept
  <2>4. o \in over => o \in passedOver'
    BY <2>3
  <2>5. o \notin over => /\ o \in dying' => o \in dying
                         /\ o \in puts => written'[o] = gen
                         /\ o \notin puts =>
                              /\ written'[o] = written[o]
                              /\ o \in passedOver => o \in passedOver'
    BY <2>1, <2>2, <2>3
  <2>6. o \in puts => Stays(o)
    BY DEF Stays
  <2>. QED
    BY <1>0, <2>4, <2>5, <2>6 DEF Fresh, There, Stays, Present
<1>. QED
  BY <1>1

LEMMA WorkDelivers ==
  ASSUME SnapshotsManaged, DeliveryInv, WorkMove
  PROVE  Delivered'
<1>0. /\ TypeOK /\ ~Idle /\ UNCHANGED <<script, gen, life>>
      /\ pass'.gen = pass.gen /\ pass'.deleting = pass.deleting
      /\ pass.todo \in Seq(Steps) /\ pass.todo # <<>>
  BY TodoTyped DEF DeliveryInv, StoreInv, KeyInv, WorkMove
<1> SUFFICES ASSUME LeftAlone'
             PROVE  /\ pass'.gen = gen' /\ ~pass'.deleting
                    /\ \A step \in Steps \ Elements(pass'.todo) : Done(step)'
  BY DEF Delivered
<1>1. /\ LeftAlone /\ ~GaveUp
      /\ pass'.todo = Tail(pass.todo) \/ Head(pass.todo) = "StatusUpdate"
  BY <1>0 DEF LeftAlone, GaveUp, WorkMove
<1>2. /\ pass.gen = gen /\ ~pass.deleting
      /\ \A step \in Steps \ Elements(pass.todo) : Done(step)
  BY <1>0, <1>1 DEF DeliveryInv, Delivered
<1>3. script[gen] = sc /\ script'[gen'] = sc /\ Working
  BY <1>0, <1>2 DEF sc, Working
<1>4. Steps \ Elements(pass'.todo)
        \subseteq (Steps \ Elements(pass.todo)) \cup {Head(pass.todo)}
  <2>1. CASE pass'.todo = Tail(pass.todo)
    <3>1. Elements(pass.todo) = {Head(pass.todo)} \cup Elements(pass'.todo)
      BY <1>0, <2>1, TailIndices
    <3>. QED
      BY <3>1
  <2>2. CASE Head(pass.todo) = "StatusUpdate"
    <3>1. Follows(pass.todo, "StatusUpdate", Steps \ {"StatusUpdate"})
      BY <1>2 DEF DeliveryInv, Ordered, StatusLast
    <3>2. (Steps \ {"StatusUpdate"}) \cap Elements(pass.todo) = {}
      BY <1>0, <2>2, <3>1, FollowsStays
    <3>. QED
      BY <2>2, <3>2
  <2>. QED
    BY <1>1, <2>1, <2>2
<1>5. CASE sc.mode # "internal"
  <2>1. \A step : Due(sc, step) = {} /\ Kept(sc, step) = {}
    BY <1>5, NothingAskedAbroad
  <2>. QED
    BY <1>0, <1>2, <1>3, <2>1 DEF Done
<1>6. CASE sc.mode = "internal"
  <2>1. PICK puts, dels, over : Effect(puts, dels, over)
    BY DEF WorkMove, Works
  <2>2. Brought(puts, over)
    <3>1. Head(pass.todo) # "ExternalResources"
      BY <1>0, <1>3, <1>6, TailIndices DEF DeliveryInv, ExternalAlone
    <3>2. SnapshotsOrdered(sc)
      BY <1>0, Generations DEF SnapshotsManaged, sc
    <3>. QED
      BY <1>1, <2>1, <3>1, <3>2 DEF Effect, Unclaimed
  <2>3. ASSUME NEW step \in Steps \ Elements(pass.todo)
        PROVE  Done(step)'
    <3>1. /\ \A o \in Due(sc, step) : Fresh(o)
          /\ \A o \in Kept(sc, step) : There(o)
      BY <1>2, <1>3, <2>3 DEF Done
    <3>2. /\ \A o \in Due(sc, step) : Fresh(o)'
          /\ \A o \in Kept(sc, step) : There(o)'
      BY <1>1, <1>2, <2>1, <2>2, <3>1, WorkKeepsDone DEF DeliveryInv, Brought
    <3>. QED
      BY <1>3, <3>2 DEF Done
  <2>4. ASSUME NEW step, step = Head(pass.todo)
        PROVE  Done(step)'
    <3>1. \A o \in Due(sc, step) : o \in puts \cup over
      BY <2>2, <2>4 DEF Brought
    <3>2. ASSUME NEW o \in Kept(sc, step), o \notin puts \cup over
          PROVE  There(o)
      <4>1. CASE o \in ready
        BY <4>1 DEF DeliveryInv, StoreInv, Standing, ReadyThere, There, Stays
      <4>2. CASE Present(o) /\ step # "StorageClass"
        <5>1. step \in Steps
          BY <1>0, <2>4
        <5>2. Kept(sc, step) \cap dying \subseteq Watched
          BY <1>0, <1>1, <4>2, <5>1, Generations
             DEF DeliveryInv, NotAdopted, LeftAlone, sc
        <5>. QED
          BY <3>2, <4>2, <5>2 DEF There, Stays
      <4>. QED
        BY <2>2, <2>4, <3>2, <4>1, <4>2 DEF Brought
    <3>3. /\ \A o \in Due(sc, step) : Fresh(o)'
          /\ \A o \in Kept(sc, step) : There(o)'
      BY <1>1, <1>2, <2>1, <2>2, <3>1, <3>2, WorkKeepsDone
         DEF DeliveryInv, Brought
    <3>. QED
      BY <1>3, <3>3 DEF Done
  <2>. QED
    BY <1>0, <1>2, <1>4, <2>3, <2>4
<1>. QED
  BY <1>5, <1>6

LEMMA WorkKeepsRest ==
  ASSUME DeliveryInv, WorkMove
  PROVE  Ordered' /\ NotAdopted' /\ ExternalAlone'
<1>0. /\ TypeOK /\ ~Idle /\ UNCHANGED <<script, gen, life>>
      /\ pass'.gen = pass.gen /\ pass'.deleting = pass.deleting
      /\ pass'.todo \in {Tail(pass.todo), LastSteps, <<>>}
      /\ pass.todo \in Seq(Steps) /\ pass.todo # <<>>
  BY TodoTyped DEF DeliveryInv, StoreInv, KeyInv, WorkMove
<1>1. Ordered'
  BY <1>0, OrderStays DEF DeliveryInv
<1>2. NotAdopted'
  <2>1. PICK puts, dels, over : Effect(puts, dels, over)
    BY DEF WorkMove, Works
  <2>2. dying' \subseteq dying \cup {"StorageClient", "CephRBDMirror"}
    <3>1. dying' \subseteq dying \cup (dels \cap Finalized)
      BY <2>1 DEF Effect, WriteExcept
    <3>2. dels \cap Finalized \subseteq {"StorageClient", "CephRBDMirror"}
      <4>1. {"ToolsDeployment", "ProviderSecret", "ProviderService",
             "ProviderDeployment", "BackingClass"} \cap Finalized = {}
        BY DEF Finalized, RookObjects
      <4>. QED
        BY <2>1, <4>1, DispensableAre, StorageClassNames
           DEF Effect, When
    <3>. QED
      BY <3>1, <3>2
  <2>3. \A s, step : {"StorageClient", "CephRBDMirror"} \cap Kept(s, step) = {}
    BY KeptAre
  <2>. QED
    BY <1>0, <2>2, <2>3 DEF DeliveryInv, NotAdopted
<1>3. ExternalAlone'
  <2>1. ASSUME "ExternalResources" \in Elements(pass'.todo)
        PROVE  "ExternalResources" \in Elements(pass.todo)
    <3>1. pass'.todo \notin {LastSteps, <<>>}
      BY <2>1, LastStepsTyped, NoObject
    <3>2. Elements(pass.todo) = {Head(pass.todo)} \cup Elements(pass'.todo)
      BY <1>0, <3>1, TailIndices
    <3>. QED
      BY <2>1, <3>2
  <2>. QED
    BY <1>0, <2>1 DEF DeliveryInv, ExternalAlone, Working, sc
<1>. QED
  BY <1>1, <1>2, <1>3

LEMMA AroundDelivers ==
  ASSUME DeliveryInv, AroundMove
  PROVE  Ordered' /\ NotAdopted' /\ ExternalAlone' /\ Delivered'
<1>0. /\ TypeOK /\ script' = script /\ pass' \in {pass, NoPass}
      /\ pass' # pass => queued'
      /\ gen' # gen => queued'
      /\ ~queued' => ~queued
      /\ life' = life \/ (life = "live" /\ life' = "deleting")
      /\ dying' \subseteq dying /\ passedOver' = passedOver
  BY DEF DeliveryInv, StoreInv, KeyInv, AroundMove
<1>1. Ordered'
  BY AroundKeepsOrder DEF DeliveryInv
<1>2. NotAdopted'
  BY <1>0 DEF DeliveryInv, NotAdopted
<1>3. ExternalAlone'
  <2>1. Working' => pass' = pass /\ Working
    BY <1>0 DEF Working, Idle, NoPass
  <2>. QED
    BY <1>0, <2>1 DEF DeliveryInv, ExternalAlone, sc
<1>4. ASSUME LeftAlone'
      PROVE  /\ LeftAlone /\ UNCHANGED <<gen, pass>>
             /\ \A step : Done(step) => Done(step)'
  <2>1. LeftAlone /\ UNCHANGED <<gen, pass>>
    BY <1>0, <1>4 DEF LeftAlone
  <2>2. ASSUME NEW o \in Objects \ {"OnboardingJob", "OnboardingKey"}
        PROVE  (Fresh(o) => Fresh(o)') /\ (There(o) => There(o)')
    <3>1. CASE written'[o] = written[o]
      BY <1>0, <2>1, <3>1 DEF Fresh, There, Stays, Present
    <3>2. CASE o \in dying /\ (o \in Watched => queued')
      <4>1. ~Stays(o)
        BY <1>4, <3>2 DEF Stays, LeftAlone
      <4>. QED
        BY <1>0, <4>1 DEF Fresh, There
    <3>. QED
      BY <2>2, <3>1, <3>2 DEF AroundMove
  <2>3. \A step : Due(script[gen], step) \cup Kept(script[gen], step)
                    \subseteq Objects \ {"OnboardingJob", "OnboardingKey"}
    BY WantedStays
  <2>. QED
    BY <1>0, <2>1, <2>2, <2>3 DEF Done
<1>5. Delivered'
  <2> SUFFICES ASSUME LeftAlone'
               PROVE  /\ ~Idle' => pass'.gen = gen' /\ ~pass'.deleting
                      /\ \A step \in Steps \ Elements(pass'.todo) : Done(step)'
    BY DEF Delivered
  <2>1. /\ ~Idle => pass.gen = gen /\ ~pass.deleting
        /\ \A step \in Steps \ Elements(pass.todo) : Done(step)
    BY <1>4 DEF DeliveryInv, Delivered
  <2>. QED
    BY <1>4, <2>1 DEF Idle
<1>. QED
  BY <1>1, <1>2, <1>3, <1>5

(* A new pass has everything ahead of it.                                  *)
LEMMA NothingElseDue ==
  ASSUME NEW s, NEW step, step \notin InternalSteps, step # "MetricsExporter"
  PROVE  Due(s, step) = {} /\ Kept(s, step) = {}
<1>1. step \notin {"ProviderServer", "StorageClient", "BackingStorageClasses",
                   "StorageQuota", "CephCluster", "CephBlockPools",
                   "CephFilesystems", "CephNFS", "CephNFSService",
                   "CephObjectStores", "CephObjectStoreUsers",
                   "StorageClass", "SnapshotClass", "JobTemplates",
                   "CephRbdMirrors", "ClusterClaim", "MetricsExporter"}
  BY DEF InternalSteps
<1>. QED
  BY <1>1 DEF Due, Kept

LEMMA ReconcileDelivers ==
  ASSUME DeliveryInv, Reconcile
  PROVE  Ordered' /\ NotAdopted' /\ ExternalAlone' /\ Delivered'
<1>0. /\ TypeOK /\ UNCHANGED <<script, gen, life, dying>> /\ pass'.gen = gen
      /\ pass'.deleting = (life = "deleting")
      /\ pass'.todo = IF life = "deleting" THEN UninstallOrder
                      ELSE Managers(script[gen]) \o Completion
  BY ReconcileEffect
     DEF DeliveryInv, StoreInv, KeyInv, Reconcile, cluster, store
<1>1. Ordered'
  BY <1>0, OrderedAtFirst
<1>2. NotAdopted'
  BY <1>0 DEF DeliveryInv, NotAdopted
<1>3. script[gen] \in ClusterSpec /\ sc' = script[gen]
  BY <1>0, ScriptTyped DEF TypeOK, sc
<1>4. ~pass'.deleting => pass'.todo = Managers(script[gen]) \o Completion
  BY <1>0
<1>5. ExternalAlone'
  <2>1. script[gen].mode # "external" =>
          "ExternalResources" \notin
            Elements(Managers(script[gen]) \o Completion)
    BY <1>3, PassInOrder
  <2>. QED
    BY <1>3, <1>4, <2>1 DEF ExternalAlone, Working
<1>6. ASSUME LeftAlone', NEW step \in Steps \ Elements(pass'.todo)
      PROVE  /\ Due(script[gen], step) = {} /\ Kept(script[gen], step) = {}
  <2>1. CASE script[gen].mode # "internal"
    BY <2>1, NothingAskedAbroad
  <2>2. CASE script[gen].mode = "internal"
    <3>1. pass'.todo = Managers(script[gen]) \o Completion
      BY <1>0, <1>6 DEF LeftAlone
    <3>2. InternalSteps \cup Elements(Completion) \subseteq Elements(pass'.todo)
      BY <1>3, <2>2, <3>1, PassInOrder
    <3>3. "MetricsExporter" \in Elements(Completion)
      BY DEF Completion, Elements
    <3>. QED
      BY <1>6, <3>2, <3>3, NothingElseDue
  <2>. QED
    BY <2>1, <2>2
<1>7. LeftAlone' => pass'.gen = gen' /\ ~pass'.deleting
  BY <1>0 DEF LeftAlone
<1>8. LeftAlone' => \A step \in Steps \ Elements(pass'.todo) : Done(step)'
  BY <1>0, <1>6 DEF Done
<1>. QED
  BY <1>1, <1>2, <1>5, <1>7, <1>8 DEF Delivered

LEMMA UninstallDelivers ==
  ASSUME DeliveryInv, UninstallMove
  PROVE  Ordered' /\ NotAdopted' /\ ExternalAlone' /\ Delivered'
<1>0. /\ TypeOK /\ ~Idle /\ pass.deleting /\ pass'.deleting
      /\ pass'.todo \in {Tail(pass.todo), LastSteps}
      /\ life' \in {life, "gone"}
  BY DEF DeliveryInv, StoreInv, KeyInv, UninstallMove
<1>1. life' # "live"
  BY <1>0 DEF DeliveryInv, StoreInv, KeyInv, DeletedInOrder
<1>2. TakenDownInOrder(pass'.todo)
  <2>1. pass.todo \in Seq(Steps) /\ pass.todo # <<>>
    BY <1>0, TodoTyped
  <2>. QED
    BY <1>0, <2>1, OrdersStay DEF DeliveryInv, Ordered
<1>. QED
  BY <1>0, <1>1, <1>2
     DEF Ordered, NotAdopted, ExternalAlone, Working, Delivered, LeftAlone

LEMMA NextDelivers ==
  ASSUME SnapshotsManaged, DeliveryInv, [Next]_vars
  PROVE  DeliveryInv'
<1>1. StoreInv' /\ TypeOK /\ DyingThere
  BY NextStands DEF DeliveryInv, StoreInv, KeyInv, Standing
<1> SUFFICES Ordered' /\ NotAdopted' /\ ExternalAlone' /\ Delivered'
  BY <1>1 DEF DeliveryInv
<1>2. CASE Ensure \/ Finish
  BY <1>1, <1>2, WorkMoves, WorkDelivers, WorkKeepsRest
<1>3. CASE Uninstall
  BY <1>1, <1>3, UninstallMoves, UninstallDelivers
<1>4. CASE Operators \/ Jobs \/ Environment \/ Offboard
  BY <1>1, <1>4, AroundMoves, AroundDelivers
<1>5. CASE Reconcile
  BY <1>5, ReconcileDelivers
<1>6. CASE ReconcileGone \/ UNCHANGED vars
  <2>1. /\ UNCHANGED <<script, gen, life, pass, written, dying, passedOver>>
        /\ life = "gone" \/ UNCHANGED queued
    BY <1>6 DEF ReconcileGone, vars, cluster, store
  <2>2. Ordered' /\ NotAdopted' /\ ExternalAlone'
    BY <2>1
       DEF DeliveryInv, Ordered, NotAdopted, ExternalAlone, Working, Idle, sc
  <2>3. LeftAlone' => LeftAlone
    BY <2>1 DEF LeftAlone
  <2>4. \A step : Done(step)' = Done(step)
    BY <2>1 DEF Done, Fresh, There, Stays, Present
  <2>. QED
    BY <2>1, <2>2, <2>3, <2>4 DEF DeliveryInv, Delivered, Idle
<1>. QED
  BY <1>2, <1>3, <1>4, <1>5, <1>6 DEF Next, Controller

-----------------------------------------------------------------------------
(* What a spec asks for is due at some step                                *)

WantedKinds == {"CephCluster", "CephBlockPools", "CephFilesystems",
                "CephObjectStores", "CephObjectStoreUsers", "CephRBDMirror",
                "Monitoring", "CephConfig"}

LEMMA WantedAre ==
  ASSUME NEW s, s.mode = "internal"
  PROVE  /\ DOMAIN Wanted(s) = WantedKinds
         /\ Wanted(s)["CephCluster"] = NewCephCluster(s)
         /\ Wanted(s)["CephBlockPools"] = NewCephBlockPoolInstances(s)
         /\ Wanted(s)["CephFilesystems"] =
              NewCephFilesystemInstances(s) \o DefaultSubvolumeGroup(s)
         /\ Wanted(s)["CephObjectStores"] =
              Optional(~SkipObjectStore, NewCephObjectStoreInstances(s))
         /\ Wanted(s)["CephObjectStoreUsers"] =
              Optional(~SkipObjectStore, NewCephObjectStoreUserInstances(s))
         /\ Wanted(s)["CephRBDMirror"] =
              Optional(Has(s, "mirroring"), NewCephRbdMirrorInstances(s))
         /\ Wanted(s)["Monitoring"] = NewMetricsExporter(s)
         /\ Wanted(s)["CephConfig"] = <<>>
BY DEF Wanted, WantedKinds

LEMMA WantedAbroad ==
  ASSUME NEW s, s.mode # "internal"
  PROVE  /\ \A k \in DOMAIN Wanted(s) : Wanted(s)[k] = <<>>
         /\ WantedAlways(s) \cup WantedClassSet(s) = {}
BY DEF Wanted, WantedAlways, WantedClassSet

LEMMA ElementsOfOptional ==
  ASSUME NEW condition, NEW objects
  PROVE  Elements(Optional(condition, objects)) =
           When(condition, Elements(objects))
BY NoObject DEF Optional, When

LEMMA ElementsOfThree ==
  ASSUME NEW S, NEW s \in Seq(S), NEW t \in Seq(S), NEW u \in Seq(S)
  PROVE  /\ s \o t \o u \in Seq(S)
         /\ Elements(s \o t \o u) =
              Elements(s) \cup Elements(t) \cup Elements(u)
<1>1. s \o t \in Seq(S) /\ Elements(s \o t) = Elements(s) \cup Elements(t)
  BY ElementsOfBoth
<1> DEFINE both == s \o t
<1>2. both \in Seq(S)
  BY <1>1
<1> HIDE DEF both
<1>3. /\ both \o u \in Seq(S)
      /\ Elements(both \o u) = Elements(both) \cup Elements(u)
  BY <1>2, ElementsOfBoth
<1>. QED
  BY <1>1, <1>3 DEF both

LEMMA AlwaysDue ==
  ASSUME NEW s, s.mode = "internal", NEW o \in WantedAlways(s)
  PROVE  \E step \in InternalSteps : o \in Due(s, step)
<1> DEFINE a == NewStorageQuotas(s)
           b == NewBackingStorageClasses(s)
           c == OsdCleanUpTemplate(s)
           d == ExtendClusterTemplate(s)
           e == NewClusterClaims(s)
           n1 == NewCephNFSInstances(s)
           n2 == NewNFSServices(s)
           n3 == NewNFSServiceMonitors(s)
           p1 == ProviderObjects(s)
           p2 == NewStorageClient(s)
           f == Optional(Has(s, "nfs"), n1 \o n2 \o n3)
           g == Optional(Has(s, "consumers"), p1 \o p2)
<1>1. {"ClusterResourceQuota", "BackingClass", "OsdRemovalTemplate",
       "ExtendClusterTemplate", "ClusterClaims", "CephNFS", "NFSService",
       "NFSServiceMonitor", "StorageClient"} \subseteq Objects
  BY DEF Objects, RookObjects
<1>2. /\ a \in Seq(Objects) /\ b \in Seq(Objects) /\ e \in Seq(Objects)
  BY <1>1, OptionalSeq
     DEF NewStorageQuotas, NewBackingStorageClasses, NewClusterClaims
<1>3. /\ c \in Seq(Objects) /\ d \in Seq(Objects) /\ n1 \in Seq(Objects)
      /\ n2 \in Seq(Objects) /\ n3 \in Seq(Objects) /\ p2 \in Seq(Objects)
  BY <1>1, OneObject
     DEF Short, OsdCleanUpTemplate, ExtendClusterTemplate,
         NewCephNFSInstances, NewNFSServices, NewNFSServiceMonitors,
         NewStorageClient
<1>4. p1 \in Seq(Objects)
  BY SequencesOfObjects
<1>5. WantedAlways(s) = Elements(a \o b \o c \o d \o e \o f \o g)
  BY DEF WantedAlways
<1>6. /\ Elements(f) = When(Has(s, "nfs"), Elements(n1 \o n2 \o n3))
      /\ Elements(g) = When(Has(s, "consumers"), Elements(p1 \o p2))
  BY ElementsOfOptional
<1>7. /\ Due(s, "ProviderServer") = When(Has(s, "consumers"), Elements(p1))
      /\ Due(s, "StorageClient") = When(Has(s, "consumers"), Elements(p2))
      /\ Due(s, "BackingStorageClasses") = Elements(b)
      /\ Due(s, "StorageQuota") = Elements(a)
      /\ Due(s, "CephNFS") = When(Has(s, "nfs"), Elements(n1))
      /\ Due(s, "CephNFSService") = When(Has(s, "nfs"), Elements(n2 \o n3))
      /\ Due(s, "JobTemplates") = Elements(c \o d)
      /\ Due(s, "ClusterClaim") = Elements(e)
  BY DEF Due
<1>8. {"ProviderServer", "StorageClient", "BackingStorageClasses",
       "StorageQuota", "CephNFS", "CephNFSService", "JobTemplates",
       "ClusterClaim"} \subseteq InternalSteps
  BY DEF InternalSteps
<1>9. f \in Seq(Objects) /\ g \in Seq(Objects)
  <2>1. n1 \o n2 \o n3 \in Seq(Objects) /\ p1 \o p2 \in Seq(Objects)
    <3> HIDE DEF n1, n2, n3, p1, p2
    <3>. QED
      BY <1>3, <1>4, ElementsOfBoth
  <2>2. <<>> \in Seq(Objects)
    OBVIOUS
  <2> HIDE DEF n1, n2, n3, p1, p2
  <2>. QED
    BY <2>1, <2>2 DEF Optional
<1> HIDE DEF a, b, c, d, e, f, g, n1, n2, n3, p1, p2
<1>10. Elements(n1 \o n2 \o n3) =
         Elements(n1) \cup Elements(n2) \cup Elements(n3)
  BY <1>3, ElementsOfThree
<1>11. Elements(n2 \o n3) = Elements(n2) \cup Elements(n3)
  BY <1>3, ElementsOfBoth
<1>12. Elements(p1 \o p2) = Elements(p1) \cup Elements(p2)
  BY <1>3, <1>4, ElementsOfBoth
<1>13. Elements(c \o d) = Elements(c) \cup Elements(d)
  BY <1>3, ElementsOfBoth
<1> DEFINE three == a \o b \o c
           five == three \o d \o e
<1>14. three \in Seq(Objects)
         /\ Elements(three) = Elements(a) \cup Elements(b) \cup Elements(c)
  BY <1>2, <1>3, ElementsOfThree
<1> HIDE DEF three
<1>15. five \in Seq(Objects)
         /\ Elements(five) = Elements(three) \cup Elements(d) \cup Elements(e)
  BY <1>2, <1>3, <1>14, ElementsOfThree
<1> HIDE DEF five
<1>16. Elements(five \o f \o g) =
         Elements(five) \cup Elements(f) \cup Elements(g)
  BY <1>9, <1>15, ElementsOfThree
<1>17. WantedAlways(s) = Elements(five \o f \o g)
  BY <1>5 DEF three, five
<1>. QED
  BY <1>6, <1>7, <1>8, <1>10, <1>11, <1>12, <1>13, <1>14, <1>15, <1>16, <1>17
     DEF When

LEMMA ClassesDue ==
  ASSUME NEW s, s.mode = "internal", NEW o \in WantedClassSet(s)
  PROVE  \E step \in InternalSteps : o \in Due(s, step)
<1>1. /\ NewStorageClassConfigurations(s) \in Seq(Objects)
      /\ NewSnapshotClassConfigurations(s) \in Seq(Objects)
  BY StorageClassList, SnapshotClassList DEF Short
<1>2. Elements(NewStorageClassConfigurations(s)
                 \o NewSnapshotClassConfigurations(s)) =
        Elements(NewStorageClassConfigurations(s))
          \cup Elements(NewSnapshotClassConfigurations(s))
  BY <1>1, ElementsOfBoth
<1>3. /\ o \in Elements(NewStorageClassConfigurations(s))
           \cup Elements(NewSnapshotClassConfigurations(s))
      /\ o \notin s.disabled /\ ClassStrategy(s, o) = "manage"
  BY <1>2 DEF WantedClassSet
<1>4. o \in Due(s, "StorageClass") \/ o \in Due(s, "SnapshotClass")
  BY <1>3 DEF Due
<1>. QED
  BY <1>4 DEF InternalSteps

(* Of what is managed everything is due, and of what is initialised the    *)
(* first object is due or kept.                                            *)
LEMMA WantedDue ==
  ASSUME NEW s, s.mode = "internal", NEW k \in DOMAIN Wanted(s)
  PROVE  /\ s.strategy[k] = "manage" =>
              \A o \in Elements(Wanted(s)[k]) :
                \E step \in InternalSteps \cup {"MetricsExporter"} :
                  o \in Due(s, step)
         /\ s.strategy[k] = "init" /\ Wanted(s)[k] # <<>> =>
              \E step \in InternalSteps \cup {"MetricsExporter"} :
                Wanted(s)[k][1] \in Due(s, step) \cup Kept(s, step)
<1> DEFINE All == InternalSteps \cup {"MetricsExporter"}
<1>0. {"CephCluster", "CephBlockPools", "CephFilesystems",
       "CephObjectStores", "CephObjectStoreUsers", "CephRbdMirrors",
       "StorageClass", "MetricsExporter"} \subseteq All
  BY DEF InternalSteps
<1>1. CASE k = "CephCluster"
  <2>1. Wanted(s)[k] = NewCephCluster(s) /\ NewCephCluster(s)[1] = "CephCluster"
    BY <1>1, WantedAre DEF NewCephCluster
  <2>2. s.strategy[k] = "manage" =>
          Elements(Wanted(s)[k]) = Due(s, "CephCluster")
    BY <1>1, <2>1 DEF Due, When
  <2>3. s.strategy[k] = "init" => "CephCluster" \in Kept(s, "CephCluster")
    BY <1>1 DEF Kept, When, Inits
  <2>. QED
    BY <1>0, <2>1, <2>2, <2>3
<1>2. CASE k = "CephBlockPools"
  <2>1. Wanted(s)[k] = NewCephBlockPoolInstances(s)
          /\ NewCephBlockPoolInstances(s)[1] = "CephBlockPool"
    BY <1>2, WantedAre, RestoredListsAre
  <2>2. s.strategy[k] = "manage" =>
          Elements(Wanted(s)[k]) = Due(s, "CephBlockPools")
    BY <1>2, <2>1 DEF Due, When
  <2>3. s.strategy[k] = "init" =>
          "CephBlockPool" \in
            Kept(s, "CephBlockPools") \cup Kept(s, "StorageClass")
    BY <1>2 DEF Kept, When, Inits
  <2>. QED
    BY <1>0, <2>1, <2>2, <2>3
<1>3. CASE k = "CephFilesystems"
  <2>1. /\ Wanted(s)[k] =
             NewCephFilesystemInstances(s) \o DefaultSubvolumeGroup(s)
        /\ Wanted(s)[k][1] = "CephFilesystem"
    BY <1>3, WantedAre, FilesystemAndGroup
  <2>2. s.strategy[k] = "manage" =>
          Elements(Wanted(s)[k]) = Due(s, "CephFilesystems")
    BY <1>3, <2>1 DEF Due, When
  <2>3. s.strategy[k] = "init" =>
          "CephFilesystem" \in
            Kept(s, "CephFilesystems") \cup Kept(s, "StorageClass")
    BY <1>3 DEF Kept, When, Inits
  <2>. QED
    BY <1>0, <2>1, <2>2, <2>3
<1>4. CASE k = "CephObjectStores"
  <2>1. Wanted(s)[k] =
          Optional(~SkipObjectStore, NewCephObjectStoreInstances(s))
    BY <1>4, WantedAre
  <2>2. s.strategy[k] = "manage" =>
          Elements(Wanted(s)[k]) = Due(s, "CephObjectStores")
    BY <1>4, <2>1, ElementsOfOptional DEF Due, When
  <2>3. s.strategy[k] = "init" /\ ~SkipObjectStore =>
          "CephObjectStore" \in Kept(s, "CephObjectStores")
    BY <1>4 DEF Kept, When, Inits
  <2>4. Wanted(s)[k] # <<>> =>
          ~SkipObjectStore /\ Wanted(s)[k][1] = "CephObjectStore"
    BY <2>1, RestoredListsAre DEF Optional
  <2>. QED
    BY <1>0, <2>2, <2>3, <2>4
<1>5. CASE k = "CephObjectStoreUsers"
  <2>1. Wanted(s)[k] =
          Optional(~SkipObjectStore, NewCephObjectStoreUserInstances(s))
    BY <1>5, WantedAre
  <2>2. s.strategy[k] = "manage" =>
          Elements(Wanted(s)[k]) = Due(s, "CephObjectStoreUsers")
    BY <1>5, <2>1, ElementsOfOptional DEF Due, When
  <2>3. s.strategy[k] = "init" /\ ~SkipObjectStore =>
          "CephObjectStoreUser" \in Kept(s, "CephObjectStoreUsers")
    BY <1>5 DEF Kept, When, Inits
  <2>4. Wanted(s)[k] # <<>> =>
          ~SkipObjectStore /\ Wanted(s)[k][1] = "CephObjectStoreUser"
    BY <2>1, RestoredListsAre DEF Optional
  <2>. QED
    BY <1>0, <2>2, <2>3, <2>4
<1>6. CASE k = "CephRBDMirror"
  <2>1. Wanted(s)[k] =
          Optional(Has(s, "mirroring"), NewCephRbdMirrorInstances(s))
    BY <1>6, WantedAre
  <2>2. s.strategy[k] # "ignore" =>
          Elements(Wanted(s)[k]) = Due(s, "CephRbdMirrors")
    BY <1>6, <2>1, ElementsOfOptional DEF Due, When
  <2>3. Wanted(s)[k] # <<>> => Wanted(s)[k][1] \in Elements(Wanted(s)[k])
    <3>1. NewCephRbdMirrorInstances(s) = <<"CephRBDMirror">>
      BY DEF NewCephRbdMirrorInstances
    <3>2. /\ <<"CephRBDMirror">>[1] = "CephRBDMirror"
          /\ Elements(<<"CephRBDMirror">>) = {"CephRBDMirror"}
      BY DEF Elements
    <3>. QED
      BY <2>1, <3>1, <3>2 DEF Optional
  <2>. QED
    BY <1>0, <2>2, <2>3
<1>7. CASE k = "Monitoring"
  <2>1. Wanted(s)[k] = NewMetricsExporter(s)
    BY <1>7, WantedAre
  <2>2. s.strategy[k] # "ignore" =>
          Elements(Wanted(s)[k]) = Due(s, "MetricsExporter")
    BY <1>7, <2>1 DEF Due, When
  <2>3. Wanted(s)[k] # <<>> => Wanted(s)[k][1] \in Elements(Wanted(s)[k])
    BY <2>1, ExporterList DEF Elements
  <2>. QED
    BY <1>0, <2>2, <2>3
<1>8. CASE k = "CephConfig"
  <2>1. Wanted(s)[k] = <<>>
    BY <1>8, WantedAre
  <2>. QED
    BY <2>1, NoObject
<1>9. k \in WantedKinds
  BY WantedAre
<1>. QED
  BY <1>1, <1>2, <1>3, <1>4, <1>5, <1>6, <1>7, <1>8, <1>9 DEF WantedKinds

(* What is done is what a spec asks for.                                   *)
LEMMA DoneIsDelivered ==
  ASSUME TypeOK, \A step \in Steps : Done(step)
  PROVE  ReadyMeansDelivered
<1> DEFINE s == script[gen]
           UpToDate(o) == o \in passedOver \/ written[o] = gen
<1>0. s \in ClusterSpec /\ gen # 0
  BY ScriptTyped, Generations DEF TypeOK
<1>1. CASE s.mode # "internal"
  <2>1. \A k \in DOMAIN Wanted(s) : Wanted(s)[k] = <<>>
    BY <1>1, WantedAbroad
  <2>2. WantedAlways(s) \cup WantedClassSet(s) = {}
    BY <1>1, WantedAbroad
  <2>. QED
    BY <2>1, <2>2, NoObject DEF ReadyMeansDelivered
<1>2. CASE s.mode = "internal"
  <2>1. InternalSteps \cup {"MetricsExporter"} \subseteq Steps
    <3>1. Managers(s) \in Seq(Steps) /\ Elements(Managers(s)) = InternalSteps
      BY <1>0, <1>2, ManagersAre, ManagersTyped
    <3>2. "MetricsExporter" \in Steps
      BY DEF Steps, Completion, Elements
    <3>. QED
      BY <3>1, <3>2 DEF Elements
  <2>2. ASSUME NEW step \in InternalSteps \cup {"MetricsExporter"}
        PROVE  /\ \A o \in Due(s, step) : UpToDate(o)
               /\ \A o \in Due(s, step) \cup Kept(s, step) :
                    Present(o) \/ o \in passedOver
    BY <1>0, <2>1, <2>2 DEF Done, Fresh, There, Present
  <2>3. \A o \in WantedAlways(s) \cup WantedClassSet(s) : UpToDate(o)
    BY <1>2, <2>2, AlwaysDue, ClassesDue
  <2>4. ASSUME NEW k \in DOMAIN Wanted(s)
        PROVE  /\ s.strategy[k] = "manage" =>
                    \A o \in Elements(Wanted(s)[k]) : UpToDate(o)
               /\ s.strategy[k] = "init" /\ Wanted(s)[k] # <<>> =>
                    Present(Wanted(s)[k][1]) \/ Wanted(s)[k][1] \in passedOver
    BY <1>2, <2>2, <2>4, WantedDue
  <2>. QED
    BY <2>3, <2>4 DEF ReadyMeansDelivered
<1>. QED
  BY <1>1, <1>2

(* A cluster that is left alone in phase Ready has what its spec asks for, *)
(* whatever failed on the way, however often the operator crashed and the  *)
(* spec was edited (reconcile.go:398): a step that leaves something undone *)
(* puts the StorageCluster back into the queue or has its failure          *)
(* swallowed, and what is made is later deleted by nobody unseen.  This    *)
(* needs the managed snapshot classes to come before those that are only   *)
(* initialised, and nothing that a spec is content to find to be left      *)
(* dying by an earlier cluster.                                            *)
THEOREM ReadyMeansDeliveredHolds ==
  ASSUME SnapshotsManaged, NothingAdopted
  PROVE  Spec => []ReadyMeansDelivered
<1>1. ASSUME Init
      PROVE  DeliveryInv
  <2>1. StoreInv /\ pass = NoPass /\ dying \in Leftovers /\ Idle
    BY <1>1, InitHas
  <2>2. queued /\ script \in Scripts
    BY <1>1 DEF Init
  <2>3. Ordered
    BY <2>1, NothingInOrder DEF Ordered, NoPass
  <2>4. NotAdopted
    BY <2>1, <2>2 DEF NotAdopted, NothingAdopted
  <2>. QED
    BY <2>1, <2>2, <2>3, <2>4
       DEF DeliveryInv, ExternalAlone, Working, Delivered, LeftAlone
<1>2. DeliveryInv /\ [Next]_vars => DeliveryInv'
  BY NextDelivers
<1>3. ASSUME DeliveryInv
      PROVE  ReadyMeansDelivered
  <2>1. TypeOK
    BY <1>3 DEF DeliveryInv, StoreInv, KeyInv
  <2>2. Settled /\ life = "live" => \A step \in Steps : Done(step)
    BY <1>3, NoObject DEF DeliveryInv, Delivered, LeftAlone, Settled, Idle
  <2>3. ~(Settled /\ life = "live") => ReadyMeansDelivered
    BY DEF ReadyMeansDelivered
  <2>. QED
    BY <2>1, <2>2, <2>3, DoneIsDelivered
<1>. QED
  BY <1>1, <1>2, <1>3, PTL DEF Spec

=============================================================================
