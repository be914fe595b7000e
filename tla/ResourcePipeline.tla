--------------------------- MODULE ResourcePipeline ---------------------------
(***************************************************************************)
(* The pipeline of resource managers in controllers/storagecluster.        *)
(*                                                                         *)
(* A reconcile reads the StorageCluster and calls the managers of its mode *)
(* one after the other; each creates or updates its objects through the    *)
(* API server and lets the pass go on, asks for another try, or fails.     *)
(* What it finds wrong on the way is collected in memory and written to    *)
(* the status at the end.  A deleted StorageCluster is taken apart in      *)
(* another order, and keeps its finalizer until that has worked.           *)
(*                                                                         *)
(* Meanwhile Rook, NooBaa, jobs, consumers and the administrator act; a    *)
(* call may fail, the operator may crash between two steps.  The spec is   *)
(* edited in the order of a script.  Election of the active cluster, the   *)
(* finalizer's own races and stale caches are in StorageClusters.          *)
(***************************************************************************)
EXTENDS ClusterResources

CONSTANTS
  Scripts,          \* scripts: sequences of specs, edited one into the next
  Leftovers,        \* sets of objects that an earlier cluster left dying
  MaxDisturbances   \* bound for each script: failed calls, crashes,
                    \* errors of Ceph

(* spec.resourceProfile, empty for the default.                            *)
Profiles == {"", "lean", "balanced", "performance"}

ClusterSpec ==
  [mode: Modes, features: SUBSET Features, strategy: [Kinds -> Strategies],
   disabled: SUBSET Objects, devices: Nat, profile: Profiles,
   entries: Seq(ExternalEntries), secret: Nat]

ASSUME PipelineAssumption ==
  /\ Scripts \subseteq Seq(ClusterSpec) \ {<<>>}
  /\ Leftovers \subseteq SUBSET Finalized
  /\ MaxDisturbances \in [Scripts -> Nat]

(* A cluster keeps its mode, and the keys of an encrypted one are provided *)
(* before its first spec.                                                  *)
ASSUME ScriptAssumption ==
  \A s \in Scripts : \A i \in DOMAIN s :
    /\ s[i].mode = s[1].mode
    /\ Has(s[i], "kms") => Has(s[1], "kms")

VARIABLES
  script,        \* the specs of this behaviour, by generation
  gen,           \* metadata.generation: script[gen] is the spec
  life,          \* "live", "deleting" (has its finalizer still) or "gone"
  status,        \* the status of the StorageCluster
  written,       \* by object: the generation it was written for, or 0
  dying,         \* objects marked for deletion that have a finalizer
  ready,         \* objects that report to be ready
  ceph,          \* status.state of the CephCluster
  seen,          \* the generation of the CephCluster that Rook works on
  consumers,     \* are there StorageConsumers?
  jobs,          \* the jobs that switch mirror logging on and off
  verbose,       \* is mirror logging on?
  logging,       \* rbdMirrorDebugLoggingEnabled, in memory
  pass,          \* the reconcile in progress
  queued,        \* is the StorageCluster in the work queue?
  passedOver,    \* objects left out by a call whose failure is swallowed
  disturbances   \* number of disturbances

cluster == <<script, gen, life>>
store == <<written, dying, ready, passedOver>>
rook == <<ceph, seen>>
mirror == <<jobs, verbose, logging>>
vars == <<cluster, status, store, rook, consumers, mirror, pass, queued,
          disturbances>>

Phases == {"", "Progressing", "Ready", "Error", "NotReady", "Expanding",
           "Connecting", "Deleting"}

(* progressing, upgradeable: the conditions the phase is derived from;     *)
(* hash: externalSecretHash; profile: lastAppliedResourceProfile.          *)
Status == [phase: Phases, progressing: {"", "True", "False"},
           upgradeable: {"", "Unknown", "True", "False"},
           hash: Nat, profile: Profiles]

(* todo: the steps ahead; gen, deleting: the StorageCluster as it was      *)
(* read; status: its copy of the status; expanding: r.phase is set;        *)
(* negative: r.conditions.                                                 *)
CephStates == {"", "Creating", "Created", "Updating", "Connecting",
               "Connected", "Error"}
Negatives == {"Unavailable", "Progressing", "NotUpgradeable", "Degraded",
              "Connecting", "Disconnected"}
JobStates == {"absent", "running", "succeeded"}

Steps == Elements(UninstallOrder) \cup Elements(Completion)
           \cup {"ExternalResources", "TopologyMap", "CephConfig",
                 "JobTemplates"}

TypeOK ==
  /\ script \in Scripts
  /\ gen \in DOMAIN script
  /\ life \in {"live", "deleting", "gone"}
  /\ status \in Status
  /\ written \in [Objects -> 0..Len(script)]
  /\ dying \subseteq Finalized
  /\ ready \subseteq Objects
  /\ ceph \in CephStates
  /\ seen \in 0..Len(script)
  /\ consumers \in BOOLEAN
  /\ jobs \in [{"enable", "disable"} -> JobStates]
  /\ verbose \in BOOLEAN
  /\ logging \in BOOLEAN
  /\ pass \in [todo: Seq(Steps), gen: DOMAIN script, deleting: BOOLEAN,
               status: Status, expanding: BOOLEAN,
               negative: SUBSET Negatives]
  /\ queued \in BOOLEAN
  /\ passedOver \subseteq Objects
  /\ disturbances \in 0..MaxDisturbances[script]

NewStatus == [phase |-> "", progressing |-> "", upgradeable |-> "",
              hash |-> 0, profile |-> ""]

NoPass == [todo |-> <<>>, gen |-> 1, deleting |-> FALSE,
           status |-> NewStatus, expanding |-> FALSE, negative |-> {}]

(* The administrator has provided the KMS resources and external secret.   *)
Provided(s) ==
  (IF Has(s, "kms") THEN KMSResources ELSE {})
    \cup (IF s.mode = "external" THEN ExternalSecrets ELSE {})

Init ==
  /\ script \in Scripts
  /\ gen = 1
  /\ life = "live"
  /\ status = NewStatus
  /\ dying \in Leftovers
  /\ written = [o \in Objects |->
                  IF o \in dying \cup Provided(script[1]) THEN 1 ELSE 0]
  /\ ready = {}
  /\ ceph = ""
  /\ seen = 0
  /\ consumers = FALSE
  /\ jobs = [j \in {"enable", "disable"} |-> "absent"]
  /\ verbose = FALSE
  /\ logging = FALSE
  /\ pass = NoPass
  /\ queued = TRUE
  /\ passedOver = {}
  /\ disturbances = 0

Present(o) == written[o] # 0

(* The spec the pass works on.                                             *)
sc == script[pass.gen]

Disturb ==
  /\ disturbances < MaxDisturbances[script]
  /\ disturbances' = disturbances + 1

Undisturbed == UNCHANGED disturbances

-----------------------------------------------------------------------------
(* What the steps are made of                                              *)

Idle == pass.todo = <<>>
At(step) == ~Idle /\ Head(pass.todo) = step /\ ~pass.deleting
Uninstalling(step) == ~Idle /\ Head(pass.todo) = step /\ pass.deleting

(* Objects are created or updated to what the pass read, and deleted: one  *)
(* with a finalizer is marked, any other is gone.  over: the objects a     *)
(* swallowed failure leaves out.                                           *)
WriteExcept(puts, dels, over) ==
  /\ written' = [o \in Objects |->
                   IF o \in dels \ Finalized THEN 0
                   ELSE IF o \in puts THEN pass.gen ELSE written[o]]
  /\ dying' = dying \cup {o \in dels \cap Finalized : Present(o)}
  /\ ready' = ready \ dels
  /\ passedOver' = (passedOver \ puts) \cup over

Write(puts, dels) == WriteExcept(puts, dels, {})
NoWrite == Write({}, {})

(* The controller's watches on its own writes.                             *)
Event(objects) ==
  \E o \in objects \cap Watched : written'[o] # written[o] \/ dying' # dying

(* The end of an iteration of the loop in reconcilePhases.                 *)
InLoop(s, expanding) ==
  IF expanding
    THEN [s EXCEPT !.phase = "Expanding", !.upgradeable = "False"]
    ELSE IF s.phase \in {"Ready", "Connecting"} THEN s
         ELSE [s EXCEPT !.phase = "Progressing"]

LastSteps == <<"Tools", "StatusUpdate">>

(* A step ends with pass p: the pass goes on, or the StorageCluster is     *)
(* requeued and only the last steps are left.                              *)
GoOn(p, again) ==
  /\ pass' = [p EXCEPT !.todo = Tail(pass.todo)]
  /\ queued' = (queued \/ again)

(* Mutant: the StorageCluster is not put back into the queue.              *)
GiveUpQuietly(p) == pass' = [p EXCEPT !.todo = LastSteps] /\ UNCHANGED queued

GiveUp(p) ==
  /\ pass' = [p EXCEPT !.todo = LastSteps]
  /\ queued' = TRUE

(* Mutant: skipped storage classes end the pass without another one.       *)
ManagedWithoutRetry(p, out, again) ==
  LET s == InLoop(p.status, p.expanding) IN
  IF out = "ok" THEN GoOn([p EXCEPT !.status = s], again)
  ELSE /\ pass' = [p EXCEPT !.todo = LastSteps, !.status.phase = "Progressing"]
       /\ queued' = (queued \/ out # "skipped")

(* What reconcilePhases makes of a manager's outcome.                      *)
Managed(p, out, again) ==
  LET s == InLoop(p.status, p.expanding) IN
  CASE out = "ok" -> GoOn([p EXCEPT !.status = s], again)
    [] out = "wait" -> GiveUp([p EXCEPT !.status = s])
    [] out = "skipped" ->
         GiveUp([p EXCEPT !.status = [s EXCEPT !.phase = "Progressing"]])
    [] OTHER -> GiveUp([p EXCEPT !.status = [s EXCEPT !.phase = "Error"]])

Prefix(objects, n) == Elements(SubSeq(objects, 1, n))

First(indices) == CHOOSE i \in indices : \A j \in indices : i <= j

(* Mutant: the loop over the objects leaves the last one out.              *)
CreatesButLast(objects, out) ==
  LET all == SubSeq(objects, 1, Len(objects) - 1) IN
  \/ /\ Write(Elements(all), {})
     /\ Managed(pass, out, Event(Elements(all)))
     /\ Undisturbed
  \/ /\ Disturb
     /\ \E n \in 0..Len(all) : Write(Prefix(all, n), {})
     /\ Managed(pass, "error", FALSE)

(* A manager writes objects in turn, or one of its calls fails on the way. *)
Creates(objects, out) ==
  \/ /\ Write(Elements(objects), {})
     /\ Managed(pass, out, Event(Elements(objects)))
     /\ Undisturbed
  \/ /\ Disturb
     /\ \E n \in 0..Len(objects) : Write(Prefix(objects, n), {})
     /\ Managed(pass, "error", FALSE)

Skips == NoWrite /\ Managed(pass, "ok", FALSE) /\ Undisturbed

(* The loop over the objects of a kind: one that is there stays as it is   *)
(* under "init", and the loop ends with it; one marked for deletion is an  *)
(* error.  over: objects that the loop passes over.                        *)
Stops(objects, strategy, over) ==
  {i \in DOMAIN objects :
     /\ Present(objects[i]) /\ objects[i] \notin over
     /\ strategy = "init" \/ objects[i] \in dying}

UpToStop(objects, strategy, over) ==
  LET stops == Stops(objects, strategy, over) IN
  IF stops = {} THEN objects ELSE SubSeq(objects, 1, First(stops) - 1)

StopOutcome(objects, strategy, over) ==
  IF Stops(objects, strategy, over) = {} \/ strategy = "init" THEN "ok"
  ELSE "error"

Restores(objects, strategy) ==
  Creates(UpToStop(objects, strategy, {}), StopOutcome(objects, strategy, {}))

(* The same where the switch on the error of Get has no default: one of    *)
(* the loose objects that cannot be read is passed over.                   *)
PassesOver(objects, strategy, loose) ==
  /\ Disturb
  /\ \E o \in Elements(loose) :
       /\ WriteExcept(Elements(UpToStop(objects, strategy, {o})) \ {o},
                      {}, {o})
       /\ Managed(pass, StopOutcome(objects, strategy, {o}), FALSE)

RestoresLoosely(objects, strategy, loose) ==
  Restores(objects, strategy) \/ PassesOver(objects, strategy, loose)

Unmanaged(kind) == sc.strategy[kind] = "ignore"

-----------------------------------------------------------------------------
(* The managers of an internal cluster                                     *)

(* verifyNoStorageConsumerExist, then the objects are deleted.  The job    *)
(* and the keys stay.                                                      *)
ProviderObjects(s) ==
  GetProviderAPIServerSecret(s) \o GetProviderAPIServerService(s)
    \o GetProviderAPIServerDeployment(s)

RemoveProvider(s, out) ==
  \/ /\ ~consumers /\ out = "ok"
     /\ Write({}, Elements(ProviderObjects(s)))
     /\ Undisturbed
  \/ /\ consumers /\ out = "error"
     /\ NoWrite
     /\ Undisturbed
  \/ /\ Disturb /\ out = "error"
     /\ \E some \in SUBSET Elements(ProviderObjects(s)) : Write({}, some)

(* createService waits for the ingress of a load balancer.                 *)
WaitsForIngress ==
  Has(sc, "loadbalancer") /\ "ProviderService" \notin ready

(* createDeployment waits for the replica.                                 *)
WaitsForReplica == "ProviderDeployment" \notin ready

(* createJob: while the key is missing it creates the job, and fails if    *)
(* the job exists.                                                         *)
JobToCreate ==
  Optional(~Present("OnboardingKey"), GetOnboardingJobObject(sc))
JobExists == ~Present("OnboardingKey") /\ Present("OnboardingJob")

EnsureProviderServer ==
  /\ At("ProviderServer")
  /\ IF ~Has(sc, "consumers")
       THEN \E out \in {"ok", "error"} :
              RemoveProvider(sc, out) /\ Managed(pass, out, FALSE)
     ELSE IF WaitsForIngress
       THEN Creates(GetProviderAPIServerSecret(sc)
                      \o GetProviderAPIServerService(sc), "wait")
     ELSE IF WaitsForReplica
       THEN Creates(ProviderObjects(sc), "wait")
     ELSE IF JobExists
       THEN Creates(ProviderObjects(sc), "error")
     ELSE Creates(ProviderObjects(sc) \o JobToCreate, "ok")
  /\ UNCHANGED <<cluster, status, rook, consumers, mirror>>

(* The token needs the key of the job; its absence, and a failed call, are *)
(* logged only.                                                            *)
EnsureStorageClient ==
  /\ At("StorageClient")
  /\ \/ /\ Has(sc, "consumers") /\ Present("OnboardingKey")
        /\ Write({"StorageClient"}, {})
        /\ Managed(pass, "ok", Event({"StorageClient"}))
        /\ Undisturbed
     \/ /\ Has(sc, "consumers")
        /\ (~Present("OnboardingKey") /\ Undisturbed) \/ Disturb
        /\ WriteExcept({}, {}, {"StorageClient"})
        /\ Managed(pass, "ok", FALSE)
     \/ /\ ~Has(sc, "consumers")
        /\ \/ /\ Write({}, {"StorageClient"})
              /\ Managed(pass, "ok", Event({"StorageClient"}))
              /\ Undisturbed
           \/ NoWrite /\ Managed(pass, "error", FALSE) /\ Disturb
  /\ UNCHANGED <<cluster, status, rook, consumers, mirror>>

(* A class that could not be created or updated stays in the map of        *)
(* existing ones, and what is left in the map is deleted.                  *)
EnsureBackingStorageClasses ==
  /\ At("BackingStorageClasses")
  /\ LET wanted == Elements(NewBackingStorageClasses(sc)) IN
     \/ /\ Write(wanted, {"BackingClass"} \ wanted)
        /\ Managed(pass, "ok", FALSE)
        /\ Undisturbed
     \/ /\ Disturb
        /\ WriteExcept({}, {"BackingClass"}, wanted)
        /\ Managed(pass, "ok", FALSE)
     \/ /\ Disturb
        /\ NoWrite
        /\ Managed(pass, "error", FALSE)
  /\ UNCHANGED <<cluster, status, rook, consumers, mirror>>

(* The topology map is in the status; see Topology.                        *)
EnsureTopologyMap ==
  /\ At("TopologyMap")
  /\ Creates(<<>>, "ok")
  /\ UNCHANGED <<cluster, status, rook, consumers, mirror>>

EnsureStorageQuota ==
  /\ At("StorageQuota")
  /\ Creates(NewStorageQuotas(sc), "ok")
  /\ UNCHANGED <<cluster, status, rook, consumers, mirror>>

EnsureCephConfig ==
  /\ At("CephConfig")
  /\ IF sc.strategy["CephConfig"] # "manage" THEN Skips
     ELSE Creates(NewCephConfig(sc), "ok")
  /\ UNCHANGED <<cluster, status, rook, consumers, mirror>>

(* Mutant: a CephCluster that is updating is not a negative condition.     *)
NegativeOfCephCreating ==
  IF ceph \in {"", "Creating", "Connecting"} THEN {"Progressing"} ELSE {}

(* MapCephClusterNegativeConditions and, for an external cluster,          *)
(* MapExternalCephClusterNegativeConditions.                               *)
NoCephStatus == {"Unavailable", "Progressing", "NotUpgradeable"}
NegativeOfCeph ==
  CASE ceph = "" -> NoCephStatus
    [] sc.mode = "external" ->
         (CASE ceph = "Connecting" -> {"Connecting", "Disconnected"}
            [] ceph = "Error" -> {"Disconnected"}
            [] OTHER -> {})
    [] ceph \in {"Creating", "Updating"} -> {"Progressing", "NotUpgradeable"}
    [] ceph = "Error" -> {"Unavailable", "Degraded"}
    [] OTHER -> {}

ExternalPhase ==
  CASE ceph = "Connecting" -> "Connecting"
    [] ceph = "Connected" -> "Ready"
    [] OTHER -> "NotReady"

(* More devices than the CephCluster has: the cluster is expanding.  So it *)
(* is while Ceph is not yet updating, if the phase is still Expanding.     *)
IsExpanding ==
  \/ pass.status.phase = "Expanding" /\ ceph # "Updating"
  \/ /\ sc.mode = "internal"
     /\ NewStorageClassDeviceSets(script[written["CephCluster"]])
          < NewStorageClassDeviceSets(sc)

FoundCephCluster ==
  [pass EXCEPT
     !.negative = @ \cup NegativeOfCeph,
     !.expanding = @ \/ IsExpanding,
     !.status.phase = IF sc.mode = "external" THEN ExternalPhase ELSE @]

EnsureCephCluster ==
  /\ At("CephCluster")
  /\ IF Unmanaged("CephCluster") THEN Skips
     ELSE IF ~Present("CephCluster")
       THEN \/ /\ Write({"CephCluster"}, {})
               /\ Managed([pass EXCEPT !.negative = NoCephStatus], "ok", TRUE)
               /\ Undisturbed
            \/ Disturb /\ NoWrite /\ Managed(pass, "error", FALSE)
     ELSE IF sc.strategy["CephCluster"] = "init" THEN Skips
     ELSE \/ /\ Write({"CephCluster", "CephPrometheusRule"}, {})
             /\ Managed(FoundCephCluster, "ok", Event({"CephCluster"}))
             /\ Undisturbed
          \/ /\ Disturb
             /\ \/ /\ Write({"CephCluster"}, {})
                   /\ Managed(FoundCephCluster, "error", TRUE)
                \/ /\ NoWrite
                   /\ \E p \in {pass, FoundCephCluster} :
                        Managed(p, "error", FALSE)
  /\ UNCHANGED <<cluster, status, rook, consumers, mirror>>

EnsureCephBlockPools ==
  /\ At("CephBlockPools")
  /\ IF Unmanaged("CephBlockPools") THEN Skips
     ELSE RestoresLoosely(NewCephBlockPoolInstances(sc),
                          sc.strategy["CephBlockPools"],
                          NewCephBlockPoolInstances(sc))
  /\ UNCHANGED <<cluster, status, rook, consumers, mirror>>

(* The default subvolume group follows the filesystem: under "init" only   *)
(* in the pass that creates the filesystem, and also where the filesystem  *)
(* could not be read.                                                      *)
EnsureCephFilesystems ==
  /\ At("CephFilesystems")
  /\ IF Unmanaged("CephFilesystems") THEN Skips
     ELSE LET fs == NewCephFilesystemInstances(sc)
              all == fs \o DefaultSubvolumeGroup(sc)
              strategy == sc.strategy["CephFilesystems"] IN
          \/ IF Stops(fs, strategy, {}) # {} THEN Restores(fs, strategy)
             ELSE Restores(all, "manage")
          \/ PassesOver(all, "manage", fs)
  /\ UNCHANGED <<cluster, status, rook, consumers, mirror>>

EnsureCephNFS ==
  /\ At("CephNFS")
  /\ IF ~Has(sc, "nfs") THEN Skips
     ELSE Restores(NewCephNFSInstances(sc), "manage")
  /\ UNCHANGED <<cluster, status, rook, consumers, mirror>>

EnsureCephNFSService ==
  /\ At("CephNFSService")
  /\ IF ~Has(sc, "nfs") THEN Skips
     ELSE Restores(NewNFSServices(sc) \o NewNFSServiceMonitors(sc), "manage")
  /\ UNCHANGED <<cluster, status, rook, consumers, mirror>>

EnsureCephObjectStores ==
  /\ At("CephObjectStores")
  /\ IF Unmanaged("CephObjectStores") \/ SkipObjectStore THEN Skips
     ELSE RestoresLoosely(NewCephObjectStoreInstances(sc),
                          sc.strategy["CephObjectStores"],
                          NewCephObjectStoreInstances(sc))
  /\ UNCHANGED <<cluster, status, rook, consumers, mirror>>

EnsureCephObjectStoreUsers ==
  /\ At("CephObjectStoreUsers")
  /\ IF Unmanaged("CephObjectStoreUsers") \/ SkipObjectStore THEN Skips
     ELSE RestoresLoosely(NewCephObjectStoreUserInstances(sc),
                          sc.strategy["CephObjectStoreUsers"],
                          NewCephObjectStoreUserInstances(sc))
  /\ UNCHANGED <<cluster, status, rook, consumers, mirror>>

EnsureCephRGWRoutes ==
  /\ At("CephRGWRoutes")
  /\ IF Has(sc, "noroute") \/ Unmanaged("CephObjectStores")
        \/ SkipObjectStore
       THEN Skips
     ELSE RestoresLoosely(NewCephRGWRoutes(sc),
                          sc.strategy["CephObjectStores"],
                          NewCephRGWRoutes(sc))
  /\ UNCHANGED <<cluster, status, rook, consumers, mirror>>

(* createStorageClasses: a class whose prerequisite is not Ready is        *)
(* skipped; one that is there is left alone under "init".                  *)
MayBeMade(class) == Prerequisite(sc, class) \subseteq ready

WantedClasses(classes) ==
  {c \in Elements(classes) :
     c \notin sc.disabled /\ ClassStrategy(sc, c) # "ignore"}

IsKept(class) == Present(class) /\ ClassStrategy(sc, class) = "init"

(* before, after: objects that are made before and after the classes.  A    *)
(* class that is there with other Parameters (of an earlier spec or        *)
(* version, or somebody else's) is deleted and made again: if that fails   *)
(* in between, it is gone.  Classes have no finalizer, so that none is met *)
(* that is marked for deletion.                                            *)
CreateStorageClasses(classes, before, after, p) ==
  LET wanted == WantedClasses(classes) \cap StorageClasses
      skipped == {c \in wanted : ~MayBeMade(c)}
      made == {c \in wanted : MayBeMade(c) /\ ~IsKept(c)}
      all == before \cup made \cup (IF skipped = {} THEN after ELSE {})
      replaced(n) == {c \in made : n < Len(classes) /\ c = classes[n + 1]} IN
  \/ /\ Write(all, {})
     /\ Managed(p, IF skipped = {} THEN "ok" ELSE "skipped", FALSE)
     /\ Undisturbed
  \/ /\ Disturb
     /\ \/ Write(all, {})
        \/ \E n \in 0..Len(classes) : \E lost \in SUBSET replaced(n) :
             Write(before \cup (made \cap Prefix(classes, n)), lost)
     /\ Managed(p, "error", FALSE)

EnsureStorageClass ==
  /\ At("StorageClass")
  /\ CreateStorageClasses(NewStorageClassConfigurations(sc), {}, {}, pass)
  /\ UNCHANGED <<cluster, status, rook, consumers, mirror>>

(* NooBaa waits for Ceph, whose state is read a second time in the pass.   *)
CephServes ==
  \/ sc.mode = "standalone"
  \/ /\ Present("CephCluster")
     /\ ceph = (IF sc.mode = "external" THEN "Connected" ELSE "Created")

NegativeOfNooBaa == IF "NooBaa" \in ready THEN {} ELSE {"Progressing"}

EnsureNoobaaSystem ==
  /\ At("NoobaaSystem")
  /\ IF Unmanaged("MultiCloudGateway") \/ ~CephServes THEN Skips
     ELSE \/ /\ Write({"NooBaa"}, {})
             /\ Managed([pass EXCEPT !.negative = @ \cup NegativeOfNooBaa],
                        "ok", Event({"NooBaa"}))
             /\ Undisturbed
          \/ Disturb /\ NoWrite /\ Managed(pass, "error", FALSE)
  /\ UNCHANGED <<cluster, status, rook, consumers, mirror>>

(* createSnapshotClasses: under "init" the loop ends with the first class  *)
(* that is there.  A failure ends it as well, and ensureCreated reports    *)
(* none.                                                                   *)
EnsureSnapshotClass ==
  /\ At("SnapshotClass")
  /\ LET classes == NewSnapshotClassConfigurations(sc)
         wanted == WantedClasses(classes)
         kept == {i \in DOMAIN classes :
                    classes[i] \in wanted /\ IsKept(classes[i])}
         made == IF kept = {} THEN classes
                 ELSE SubSeq(classes, 1, First(kept) - 1) IN
     \/ /\ Write(wanted \cap Elements(made), {})
        /\ Managed(pass, "ok", FALSE)
        /\ Undisturbed
     \/ /\ Disturb
        /\ \E n \in 0..Len(made) :
             WriteExcept(wanted \cap Prefix(made, n), {},
                         wanted \ Prefix(made, n))
        /\ Managed(pass, "ok", FALSE)
  /\ UNCHANGED <<cluster, status, rook, consumers, mirror>>

EnsureJobTemplates ==
  /\ At("JobTemplates")
  /\ Creates(OsdCleanUpTemplate(sc) \o ExtendClusterTemplate(sc), "ok")
  /\ UNCHANGED <<cluster, status, rook, consumers, mirror>>

(* Without mirroring the mirror is deleted.                                *)
DeleteMirror(out) ==
  \/ /\ out = "ok"
     /\ Write({}, Elements(NewCephRbdMirrorInstances(sc)))
     /\ Undisturbed
  \/ out = "error" /\ NoWrite /\ Disturb

EnsureCephRbdMirrors ==
  /\ At("CephRbdMirrors")
  /\ IF Unmanaged("CephRBDMirror") THEN Skips
     ELSE IF ~Has(sc, "mirroring")
       THEN \E out \in {"ok", "error"} :
              DeleteMirror(out) /\ Managed(pass, out, FALSE)
     ELSE Restores(NewCephRbdMirrorInstances(sc), "manage")
  /\ UNCHANGED <<cluster, status, rook, consumers, mirror>>

(* The claims need the fsid, and the OSD stores of a running Ceph.         *)
EnsureClusterClaim ==
  /\ At("ClusterClaim")
  /\ IF NewClusterClaims(sc) # <<>> /\ ceph \in {"", "Creating", "Connecting"}
       THEN NoWrite /\ Managed(pass, "error", FALSE) /\ Undisturbed
     ELSE Creates(NewClusterClaims(sc), "ok")
  /\ UNCHANGED <<cluster, status, rook, consumers, mirror>>

-----------------------------------------------------------------------------
(* The managers of an external cluster alone                               *)

(* The secret is worked through if its checksum is new; the checksum is    *)
(* recorded before that.                                                   *)
EnsureExternalResources ==
  /\ At("ExternalResources")
  /\ IF pass.status.hash = sc.secret THEN Creates(<<>>, "ok")
     ELSE LET p == [pass EXCEPT !.status.hash = sc.secret] IN
          \/ CreateStorageClasses(
               sc.entries, NewExternalObjects(sc),
               Elements(NewExternalCephObjectStoreInstances(sc)), p)
          \/ /\ Disturb
             /\ \E n \in 0..Len(sc.entries) :
                  Write(Prefix(sc.entries, n) \ ExternalClasses, {})
             /\ Managed(p, "error", FALSE)
          \/ Disturb /\ NoWrite /\ Managed(pass, "error", FALSE)
  /\ UNCHANGED <<cluster, status, rook, consumers, mirror>>

-----------------------------------------------------------------------------
(* After the managers                                                      *)

(* Does the profile matter, and do the daemons run with it?                *)
ProfileChanged ==
  /\ sc.mode = "internal"
  /\ ~Has(sc, "consumers")
  /\ sc.profile # pass.status.profile

DaemonsRun ==
  /\ ceph = "Created"
  /\ script[seen].profile = sc.profile
  /\ {"CephFilesystem"} \subseteq ready

Applying == [pass EXCEPT !.status.phase = "Progressing",
                         !.status.progressing = "True",
                         !.status.upgradeable = "Unknown"]

Current == gen = pass.gen /\ pass.deleting = (life = "deleting")

(* ensureResourceProfileChangeApplied updates the status by itself, and    *)
(* fails if the StorageCluster was changed meanwhile.                      *)
ResourceProfile ==
  /\ At("ResourceProfile")
  /\ LET applied == [pass EXCEPT !.status.profile = sc.profile] IN
     \/ ~ProfileChanged /\ GoOn(pass, FALSE) /\ UNCHANGED status /\ Undisturbed
     \/ /\ ProfileChanged /\ ~DaemonsRun
        /\ GiveUp(Applying)
        /\ UNCHANGED status
        /\ Undisturbed
     \/ /\ ProfileChanged /\ DaemonsRun
        /\ IF Current THEN GoOn(applied, FALSE) /\ status' = applied.status
           ELSE GiveUp(applied) /\ UNCHANGED status
        /\ Undisturbed
     \/ /\ ProfileChanged
        /\ Disturb
        /\ GiveUp([pass EXCEPT !.status.phase = "Error"])
        /\ UNCHANGED status
  /\ NoWrite
  /\ UNCHANGED <<cluster, rook, consumers, mirror>>

(* SetCompleteCondition, or the conditions that were collected.            *)
Complete(s) == [s EXCEPT !.progressing = "False", !.upgradeable = "True"]

Ready(s) == IF s.phase = "Expanding" THEN s ELSE [s EXCEPT !.phase = "Ready"]

Collected(s) ==
  [s EXCEPT
     !.progressing = IF "Progressing" \in pass.negative THEN "True" ELSE @,
     !.upgradeable = IF "NotUpgradeable" \in pass.negative THEN "False" ELSE @]

NegativePhase(s) ==
  IF s.phase = "Expanding" \/ sc.mode = "external" THEN s.phase
  ELSE IF s.progressing = "True" THEN "Progressing"
  ELSE IF s.upgradeable = "False" THEN "NotReady"
  ELSE "Error"

Evaluated(s) ==
  IF pass.negative = {} THEN Ready(Complete(s))
  ELSE [Collected(s) EXCEPT !.phase = NegativePhase(Collected(s))]

EvaluateConditions ==
  /\ At("Completion")
  /\ NoWrite
  /\ GoOn([pass EXCEPT !.status = Evaluated(@)], FALSE)
  /\ Undisturbed
  /\ UNCHANGED <<cluster, status, rook, consumers, mirror>>

(* Failures from here on leave the phase as it is.                         *)
EnableMetricsExporter ==
  /\ At("MetricsExporter")
  /\ LET objects == IF Unmanaged("Monitoring") THEN <<>>
                    ELSE NewMetricsExporter(sc) IN
     \/ Write(Elements(objects), {}) /\ GoOn(pass, FALSE) /\ Undisturbed
     \/ /\ Disturb
        /\ \E n \in 0..Len(objects) : Write(Prefix(objects, n), {})
        /\ GiveUp(pass)
  /\ UNCHANGED <<cluster, status, rook, consumers, mirror>>

(* The job that brings the logging in line with the spec: it is created    *)
(* unless it is there, waited for, and in the end its result is recorded   *)
(* in memory; both jobs go when the logging is off.                        *)
LoggingJob ==
  IF sc.mode = "external" \/ Has(sc, "mirroring") = logging THEN {}
  ELSE IF Has(sc, "mirroring") THEN {"enable"} ELSE {"disable"}

EnsureRbdMirrorDebugLogging ==
  /\ At("MirrorDebugLogging")
  /\ NoWrite
  /\ \/ LoggingJob = {} /\ GoOn(pass, FALSE) /\ UNCHANGED mirror /\ Undisturbed
     \/ \E j \in LoggingJob :
          /\ jobs[j] # "succeeded"
          /\ jobs' = [jobs EXCEPT ![j] = "running"]
          /\ GiveUp(pass)
          /\ UNCHANGED <<verbose, logging>>
          /\ Undisturbed
     \/ \E j \in LoggingJob :
          /\ jobs[j] = "succeeded"
          /\ jobs' = IF j = "enable" THEN jobs
                     ELSE [i \in {"enable", "disable"} |-> "absent"]
          /\ logging' = ~logging
          /\ GoOn(pass, FALSE)
          /\ UNCHANGED verbose
          /\ Undisturbed
     \/ \E j \in LoggingJob :
          /\ Disturb
          /\ GiveUp(pass)
          /\ jobs' \in {jobs,
                       IF jobs[j] = "absent" THEN [jobs EXCEPT ![j] = "running"]
                       ELSE IF j = "disable" /\ jobs[j] = "succeeded"
                         THEN [jobs EXCEPT !["enable"] = "absent"]
                         ELSE jobs}
          /\ UNCHANGED <<verbose, logging>>
  /\ UNCHANGED <<cluster, status, rook, consumers>>

(* ensureToolsDeployment runs after every pass; when it fails the status   *)
(* is not written.                                                         *)
EnsureToolsDeployment ==
  /\ At("Tools") \/ Uninstalling("Tools")
  /\ LET tools == Elements(NewToolsDeployment(sc)) IN
     \/ /\ IF Unmanaged("CephToolbox") THEN NoWrite
           ELSE IF Has(sc, "tools") THEN Write(tools, {})
           ELSE Write({}, tools)
        /\ GoOn(pass, FALSE)
        /\ Undisturbed
     \/ /\ ~Unmanaged("CephToolbox")
        /\ Disturb
        /\ NoWrite
        /\ pass' = [pass EXCEPT !.todo = <<>>]
        /\ queued' = TRUE
  /\ UNCHANGED <<cluster, status, rook, consumers, mirror>>

(* The API server takes the status of a StorageCluster that was not        *)
(* changed since it was read; otherwise the reconcile fails.               *)
UpdateStatus ==
  /\ At("StatusUpdate") \/ Uninstalling("StatusUpdate")
  /\ NoWrite
  /\ \/ /\ Current
        /\ status' = pass.status
        /\ UNCHANGED queued
        /\ Undisturbed
     \/ /\ ~Current
        /\ queued' = TRUE
        /\ UNCHANGED status
        /\ Undisturbed
     \/ /\ queued' = TRUE
        /\ UNCHANGED status
        /\ Disturb
  /\ pass' = [pass EXCEPT !.todo = <<>>]
  /\ UNCHANGED <<cluster, rook, consumers, mirror>>

-----------------------------------------------------------------------------
(* Uninstall                                                               *)

(* Mutant: a step that has to wait lets the next ones go on.               *)
UninstalledUnlessFailed(out, again) ==
  IF out # "error" THEN GoOn(pass, again) ELSE GiveUp(pass)

(* deleteResources stops at the first step that fails or has to wait; the  *)
(* StorageCluster is requeued.                                             *)
Uninstalled(out, again) ==
  IF out = "ok" THEN GoOn(pass, again) ELSE GiveUp(pass)

(* Mutant: an object marked for deletion counts as gone.                   *)
WaitsForUnmarked(objects) ==
  {i \in DOMAIN objects : Present(objects[i]) /\ objects[i] \in Finalized \ dying}

(* Objects are deleted in turn.  One that is still there after its         *)
(* deletion is waited for.                                                 *)
Waits(objects) ==
  {i \in DOMAIN objects : Present(objects[i]) /\ objects[i] \in Finalized}

UpToWait(objects) ==
  IF Waits(objects) = {} THEN Elements(objects)
  ELSE Prefix(objects, First(Waits(objects)))

Removes(objects) ==
  \/ /\ Write({}, UpToWait(objects))
     /\ Uninstalled(IF Waits(objects) = {} THEN "ok" ELSE "wait",
                    Event(Elements(objects)))
     /\ Undisturbed
  \/ /\ Disturb
     /\ \E n \in 0..Len(objects) :
          Write({}, Prefix(objects, n) \cap UpToWait(objects))
     /\ GiveUp(pass)

Passes == NoWrite /\ GoOn(pass, FALSE) /\ Undisturbed

(* The CephCluster is marked for deletion before anything else; Rook will  *)
(* not take it down while other resources depend on it.                    *)
MarkCephCluster ==
  /\ Uninstalling("MarkCephCluster")
  /\ \/ /\ Write({}, {"CephCluster"})
        /\ GoOn(pass, Event({"CephCluster"}))
        /\ Undisturbed
     \/ NoWrite /\ GiveUp(pass) /\ Disturb
  /\ UNCHANGED <<cluster, status, rook, consumers, mirror>>

SetNoobaaUninstallMode ==
  /\ Uninstalling("NoobaaUninstallMode")
  /\ IF Unmanaged("MultiCloudGateway") THEN Passes
     ELSE Passes \/ (NoWrite /\ GiveUp(pass) /\ Disturb)
  /\ UNCHANGED <<cluster, status, rook, consumers, mirror>>

DeleteNoobaaSystem ==
  /\ Uninstalling("NoobaaSystem")
  /\ IF Unmanaged("MultiCloudGateway") THEN Passes ELSE Removes(NewNooBaa(sc))
  /\ UNCHANGED <<cluster, status, rook, consumers, mirror>>

(* The client is not waited for.                                           *)
DeleteStorageClient ==
  /\ Uninstalling("StorageClient")
  /\ \/ /\ Write({}, Elements(NewStorageClient(sc)))
        /\ GoOn(pass, Event({"StorageClient"}))
        /\ Undisturbed
     \/ NoWrite /\ GiveUp(pass) /\ Disturb
  /\ UNCHANGED <<cluster, status, rook, consumers, mirror>>

DeleteProviderServer ==
  /\ Uninstalling("ProviderServer")
  /\ \E out \in {"ok", "error"} :
       RemoveProvider(sc, out) /\ Uninstalled(out, FALSE)
  /\ UNCHANGED <<cluster, status, rook, consumers, mirror>>

DeleteCephRGWRoutes ==
  /\ Uninstalling("CephRGWRoutes")
  /\ IF Has(sc, "noroute") THEN Passes ELSE Removes(NewCephRGWRoutes(sc))
  /\ UNCHANGED <<cluster, status, rook, consumers, mirror>>

DeleteCephObjectStoreUsers ==
  /\ Uninstalling("CephObjectStoreUsers")
  /\ Removes(NewCephObjectStoreUserInstances(sc))
  /\ UNCHANGED <<cluster, status, rook, consumers, mirror>>

DeleteCephObjectStores ==
  /\ Uninstalling("CephObjectStores")
  /\ Removes(NewCephObjectStoreInstances(sc))
  /\ UNCHANGED <<cluster, status, rook, consumers, mirror>>

DeleteCephRbdMirrors ==
  /\ Uninstalling("CephRbdMirrors")
  /\ \E out \in {"ok", "error"} : DeleteMirror(out) /\ Uninstalled(out, FALSE)
  /\ UNCHANGED <<cluster, status, rook, consumers, mirror>>

DeleteCephNFS ==
  /\ Uninstalling("CephNFS")
  /\ Removes(NewCephNFSInstances(sc))
  /\ UNCHANGED <<cluster, status, rook, consumers, mirror>>

DeleteCephNFSService ==
  /\ Uninstalling("CephNFSService")
  /\ Removes(NewNFSServices(sc) \o NewNFSServiceMonitors(sc))
  /\ UNCHANGED <<cluster, status, rook, consumers, mirror>>

(* The subvolume group goes with a filesystem that is there.               *)
DeleteCephFilesystems ==
  /\ Uninstalling("CephFilesystems")
  /\ LET fs == NewCephFilesystemInstances(sc) IN
     IF \E o \in Elements(fs) : Present(o)
       THEN Removes(DefaultSubvolumeGroup(sc) \o fs)
       ELSE Removes(fs)
  /\ UNCHANGED <<cluster, status, rook, consumers, mirror>>

DeleteCephBlockPools ==
  /\ Uninstalling("CephBlockPools")
  /\ Removes(NewCephBlockPoolInstances(sc))
  /\ UNCHANGED <<cluster, status, rook, consumers, mirror>>

(* Failures to delete a class are logged only.                             *)
Forgets(objects) ==
  \/ Write({}, Elements(objects)) /\ GoOn(pass, FALSE) /\ Undisturbed
  \/ /\ Disturb
     /\ \E o \in Elements(objects) : Write({}, Elements(objects) \ {o})
     /\ GoOn(pass, FALSE)

DeleteSnapshotClass ==
  /\ Uninstalling("SnapshotClass")
  /\ Forgets(NewSnapshotClassConfigurations(sc))
  /\ UNCHANGED <<cluster, status, rook, consumers, mirror>>

DeleteStorageQuota ==
  /\ Uninstalling("StorageQuota")
  /\ \/ Removes(NewStorageQuotas(sc))
     \/ NoWrite /\ GoOn(pass, FALSE) /\ Disturb   \* Get fails: logged only
  /\ UNCHANGED <<cluster, status, rook, consumers, mirror>>

DeleteStorageClass ==
  /\ Uninstalling("StorageClass")
  /\ Forgets(NewStorageClassConfigurations(sc))
  /\ UNCHANGED <<cluster, status, rook, consumers, mirror>>

DeleteCephCluster ==
  /\ Uninstalling("CephCluster")
  /\ Removes(NewCephCluster(sc))
  /\ UNCHANGED <<cluster, status, rook, consumers, mirror>>

DeleteClusterClaim ==
  /\ Uninstalling("ClusterClaim")
  /\ Removes(NewClusterClaims(sc))
  /\ UNCHANGED <<cluster, status, rook, consumers, mirror>>

DeleteBackingStorageClasses ==
  /\ Uninstalling("BackingStorageClasses")
  /\ Removes(<<"BackingClass">>)
  /\ UNCHANGED <<cluster, status, rook, consumers, mirror>>

(* Taints are taken off the nodes; failures are logged only.               *)
DeleteNodeTaint ==
  /\ Uninstalling("NodeTaint")
  /\ Passes
  /\ UNCHANGED <<cluster, status, rook, consumers, mirror>>

DeleteKMSResources ==
  /\ Uninstalling("KMSResources")
  /\ IF ~Has(sc, "kms") THEN Passes
     ELSE \/ Write({}, KMSResources) /\ GoOn(pass, FALSE) /\ Undisturbed
          \/ /\ Disturb
             /\ \E some \in SUBSET KMSResources : Write({}, some)
             /\ GiveUp(pass)
  /\ UNCHANGED <<cluster, status, rook, consumers, mirror>>

DeleteExternalSecret ==
  /\ Uninstalling("ExternalSecret")
  /\ IF sc.mode # "external" THEN Passes
     ELSE \/ Write({}, ExternalSecrets) /\ GoOn(pass, FALSE) /\ Undisturbed
          \/ NoWrite /\ GiveUp(pass) /\ Disturb
  /\ UNCHANGED <<cluster, status, rook, consumers, mirror>>

(* The finalizer is taken off, if nobody changed the StorageCluster.       *)
RemoveFinalizer ==
  /\ Uninstalling("Finalizer")
  /\ NoWrite
  /\ \/ Current /\ life' = "gone" /\ GoOn(pass, FALSE) /\ Undisturbed
     \/ ~Current /\ UNCHANGED life /\ GiveUp(pass) /\ Undisturbed
     \/ UNCHANGED life /\ GiveUp(pass) /\ Disturb
  /\ UNCHANGED <<script, gen, status, rook, consumers, mirror>>

-----------------------------------------------------------------------------
(* Reconcile                                                               *)

(* Mutant: a reconcile starts in a phase of its own.                       *)
StartStatusPending ==
  [status EXCEPT !.phase = IF life = "deleting" THEN "Deleting" ELSE "Pending"]

StartStatus ==
  [status EXCEPT
     !.phase = IF life = "deleting" THEN "Deleting"
               ELSE IF @ \in {"Ready", "Expanding", "Connecting"} THEN @
               ELSE "Progressing",
     !.progressing = IF @ = "" THEN "True" ELSE @,
     !.upgradeable = IF @ = "" THEN "Unknown" ELSE @]

Reconcile ==
  /\ Idle
  /\ queued
  /\ life # "gone"
  /\ queued' = FALSE
  /\ pass' = [todo |-> IF life = "deleting" THEN UninstallOrder
                       ELSE Managers(script[gen]) \o Completion,
              gen |-> gen, deleting |-> life = "deleting",
              status |-> StartStatus, expanding |-> FALSE, negative |-> {}]
  /\ UNCHANGED <<cluster, status, store, rook, consumers, mirror,
                 disturbances>>

(* A deleted StorageCluster is not found and the request is dropped.       *)
ReconcileGone ==
  /\ Idle
  /\ queued
  /\ life = "gone"
  /\ queued' = FALSE
  /\ UNCHANGED <<cluster, status, store, rook, consumers, mirror, pass,
                 disturbances>>

(* What is in memory is lost; every StorageCluster is reconciled again.    *)
Crash ==
  /\ Disturb
  /\ pass' = NoPass
  /\ logging' = FALSE
  /\ queued' = TRUE
  /\ UNCHANGED <<cluster, status, store, rook, consumers, jobs, verbose>>

Ensure ==
  \/ EnsureProviderServer \/ EnsureStorageClient
  \/ EnsureBackingStorageClasses \/ EnsureTopologyMap
  \/ EnsureStorageQuota \/ EnsureCephConfig \/ EnsureCephCluster
  \/ EnsureCephBlockPools \/ EnsureCephFilesystems \/ EnsureCephNFS
  \/ EnsureCephNFSService \/ EnsureCephObjectStores
  \/ EnsureCephObjectStoreUsers \/ EnsureCephRGWRoutes
  \/ EnsureStorageClass \/ EnsureNoobaaSystem \/ EnsureSnapshotClass
  \/ EnsureJobTemplates \/ EnsureCephRbdMirrors \/ EnsureClusterClaim
  \/ EnsureExternalResources

Finish ==
  \/ ResourceProfile \/ EvaluateConditions \/ EnableMetricsExporter
  \/ EnsureRbdMirrorDebugLogging \/ EnsureToolsDeployment \/ UpdateStatus

Uninstall ==
  \/ MarkCephCluster \/ SetNoobaaUninstallMode \/ DeleteNoobaaSystem
  \/ DeleteStorageClient \/ DeleteProviderServer \/ DeleteCephRGWRoutes
  \/ DeleteCephObjectStoreUsers \/ DeleteCephObjectStores
  \/ DeleteCephRbdMirrors \/ DeleteCephNFS \/ DeleteCephNFSService
  \/ DeleteCephFilesystems \/ DeleteCephBlockPools
  \/ DeleteSnapshotClass \/ DeleteStorageQuota \/ DeleteStorageClass
  \/ DeleteCephCluster \/ DeleteClusterClaim
  \/ DeleteBackingStorageClasses \/ DeleteNodeTaint
  \/ DeleteKMSResources \/ DeleteExternalSecret \/ RemoveFinalizer

Controller == Reconcile \/ ReconcileGone \/ Ensure \/ Finish \/ Uninstall

-----------------------------------------------------------------------------
(* Rook, NooBaa, jobs, consumers and the administrator                     *)

EditSpec ==
  /\ life # "gone"
  /\ gen < Len(script)
  /\ gen' = gen + 1
  /\ queued' = TRUE
  /\ UNCHANGED <<script, life, status, store, rook, consumers, mirror, pass,
                 disturbances>>

DeleteStorageCluster ==
  /\ life = "live"
  /\ life' = "deleting"
  /\ queued' = TRUE
  /\ UNCHANGED <<script, gen, status, store, rook, consumers, mirror, pass,
                 disturbances>>

(* The state of the CephCluster changes, and the watch sees it.            *)
CephBecomes(state) ==
  /\ ceph' = state
  /\ queued' = TRUE
  /\ UNCHANGED <<cluster, status, store, consumers, mirror, pass>>

IsExternal == script[gen].mode = "external"

RookStarts ==
  /\ ceph = ""
  /\ Present("CephCluster") /\ "CephCluster" \notin dying
  /\ seen' = written["CephCluster"]
  /\ CephBecomes(IF IsExternal THEN "Connecting" ELSE "Creating")
  /\ Undisturbed

RookFinishes ==
  /\ ceph \in {"Creating", "Updating", "Connecting", "Error"}
  /\ CephBecomes(IF IsExternal THEN "Connected" ELSE "Created")
  /\ UNCHANGED seen
  /\ Undisturbed

RookUpdates ==
  /\ ceph = "Created"
  /\ seen # written["CephCluster"]
  /\ seen' = written["CephCluster"]
  /\ CephBecomes("Updating")
  /\ Undisturbed

CephFails ==
  /\ ceph \in {"Created", "Connected"}
  /\ CephBecomes("Error")
  /\ UNCHANGED seen
  /\ Disturb

(* Only these objects are ever asked whether they are ready.               *)
Reporting == {"CephBlockPool", "NonResilientPools", "CephFilesystem",
              "CephNFS", "RadosNamespace", "NooBaa", "ProviderService",
              "ProviderDeployment"}

BecomesReady(o) ==
  /\ Present(o) /\ o \notin dying /\ o \notin ready
  /\ o \in RookObjects => ceph \in {"Created", "Updating", "Connected"}
  /\ ready' = ready \cup {o}
  /\ queued' = (queued \/ o \in Watched)
  /\ UNCHANGED <<cluster, status, written, dying, passedOver, rook, consumers,
                 mirror, pass, disturbances>>

(* Rook keeps the CephCluster while other resources need it, and a         *)
(* filesystem while it has a subvolume group.                              *)
Dependents(o) ==
  CASE o = "CephCluster" ->
         RookObjects \ {"CephCluster", "SubVolumeGroup", "RadosNamespace"}
    [] o = "CephFilesystem" -> {"SubVolumeGroup"}
    [] OTHER -> {}

FinalizerRemoved(o) ==
  /\ o \in dying
  /\ \A d \in Dependents(o) : ~Present(d)
  /\ written' = [written EXCEPT ![o] = 0]
  /\ dying' = dying \ {o}
  /\ IF o = "CephCluster" THEN ceph' = "" /\ seen' = 0 ELSE UNCHANGED rook
  /\ queued' = (queued \/ o \in Watched)
  /\ UNCHANGED <<cluster, status, ready, passedOver, consumers, mirror, pass,
                 disturbances>>

(* The onboarding job writes the key and is cleaned up.                    *)
OnboardingJobDone ==
  /\ Present("OnboardingJob")
  /\ written' = [written EXCEPT !["OnboardingJob"] = 0,
                                ![ "OnboardingKey"] = 1]
  /\ UNCHANGED <<cluster, status, dying, ready, passedOver, rook, consumers,
                 mirror, pass, queued, disturbances>>

LoggingJobDone(j) ==
  /\ jobs[j] = "running"
  /\ jobs' = [jobs EXCEPT ![j] = "succeeded"]
  /\ verbose' = (j = "enable")
  /\ UNCHANGED <<cluster, status, store, rook, consumers, logging, pass,
                 queued, disturbances>>

(* Consumers come while the provider is asked for, and go.                 *)
Onboard ==
  /\ ~consumers
  /\ life = "live" /\ Has(script[gen], "consumers")
  /\ Present("ProviderDeployment")
  /\ consumers' = TRUE
  /\ UNCHANGED <<cluster, status, store, rook, mirror, pass, queued,
                 disturbances>>

Offboard ==
  /\ consumers
  /\ consumers' = FALSE
  /\ UNCHANGED <<cluster, status, store, rook, mirror, pass, queued,
                 disturbances>>

Operators ==
  \/ RookStarts \/ RookFinishes \/ RookUpdates
  \/ \E o \in Reporting : BecomesReady(o)
  \/ \E o \in Finalized : FinalizerRemoved(o)

Jobs == OnboardingJobDone \/ \E j \in {"enable", "disable"} : LoggingJobDone(j)

Environment ==
  \/ EditSpec \/ DeleteStorageCluster \/ Onboard \/ CephFails \/ Crash

Next == Controller \/ Operators \/ Jobs \/ Offboard \/ Environment

(* The work queue serves what is in it; the other operators, jobs and      *)
(* consumers that are asked to leave do their part.                        *)
Spec ==
  /\ Init /\ [][Next]_vars
  /\ WF_vars(Controller) /\ WF_vars(Operators) /\ WF_vars(Jobs)
  /\ WF_vars(Offboard /\ (life = "deleting"
                          \/ ~Has(script[gen], "consumers")))

-----------------------------------------------------------------------------
(* Properties                                                              *)

Settled == Idle /\ ~queued

(* What a cluster of this spec is made of, by the kind whose strategy      *)
(* decides, in the order in which it is made.                              *)
Wanted(s) ==
  [ k \in {"CephCluster", "CephBlockPools", "CephFilesystems",
           "CephObjectStores", "CephObjectStoreUsers", "CephRBDMirror",
           "Monitoring", "CephConfig"} |->
      IF s.mode # "internal" THEN <<>> ELSE
      CASE k = "CephCluster" -> NewCephCluster(s)
        [] k = "CephBlockPools" -> NewCephBlockPoolInstances(s)
        [] k = "CephFilesystems" ->
             NewCephFilesystemInstances(s) \o DefaultSubvolumeGroup(s)
        [] k = "CephObjectStores" ->
             Optional(~SkipObjectStore, NewCephObjectStoreInstances(s))
        [] k = "CephObjectStoreUsers" ->
             Optional(~SkipObjectStore, NewCephObjectStoreUserInstances(s))
        [] k = "CephRBDMirror" ->
             Optional(Has(s, "mirroring"), NewCephRbdMirrorInstances(s))
        [] k = "Monitoring" -> NewMetricsExporter(s)
        [] OTHER -> <<>> ]

WantedAlways(s) ==
  IF s.mode # "internal" THEN {} ELSE
  Elements(NewStorageQuotas(s) \o NewBackingStorageClasses(s)
    \o OsdCleanUpTemplate(s) \o ExtendClusterTemplate(s)
    \o NewClusterClaims(s) \o Optional(Has(s, "nfs"),
         NewCephNFSInstances(s) \o NewNFSServices(s)
           \o NewNFSServiceMonitors(s))
    \o Optional(Has(s, "consumers"),
         ProviderObjects(s) \o NewStorageClient(s)))

WantedClassSet(s) ==
  IF s.mode # "internal" THEN {} ELSE
  {c \in Elements(NewStorageClassConfigurations(s)
                    \o NewSnapshotClassConfigurations(s)) :
     c \notin s.disabled /\ ClassStrategy(s, c) = "manage"}

(* A cluster that is left alone in phase Ready has what its spec asks for: *)
(* what is managed was brought up to this spec - a storage class in its    *)
(* Parameters, its annotations stay as they were made                      *)
(* (storageclasses.go:221) - and of what is only initialised the first     *)
(* object is there.  Left out is what a swallowed failure passed over: a   *)
(* read error in the restore loops, a snapshot class, a storage client, a  *)
(* backing class (cephblockpools.go:147, volumesnapshotterclasses.go:147). *)
ReadyMeansDelivered ==
  Settled /\ status.phase = "Ready" /\ life = "live" =>
    LET s == script[gen]
        UpToDate(o) == o \in passedOver \/ written[o] = gen IN
    /\ \A k \in DOMAIN Wanted(s) :
         CASE s.strategy[k] = "manage" ->
                \A o \in Elements(Wanted(s)[k]) : UpToDate(o)
           [] s.strategy[k] = "init" ->
                Wanted(s)[k] # <<>> =>
                  Present(Wanted(s)[k][1]) \/ Wanted(s)[k][1] \in passedOver
           [] OTHER -> TRUE
    /\ \A o \in WantedAlways(s) \cup WantedClassSet(s) : UpToDate(o)

(* Such a cluster is well: Ceph has finished and NooBaa is ready.  The     *)
(* status was computed in a pass that read both, one after the other, and  *)
(* Ceph once more to decide about NooBaa (cephcluster.go:322,              *)
(* noobaa_system_reconciler.go:43).                                        *)
ReadyMeansHealthy ==
  LET s == script[gen] IN
  Settled /\ status.phase = "Ready" /\ life = "live"
    /\ s.strategy["CephCluster"] = "manage" =>
    /\ s.mode = "internal" => ceph = "Created"
    /\ s.mode # "external" /\ s.strategy["MultiCloudGateway"] # "ignore" =>
         "NooBaa" \in ready

(* Does a cluster of this spec have the class of the block pool?           *)
WantsRBD(s) ==
  /\ s.mode = "internal"
  /\ ClassStrategy(s, "RBDClass") # "ignore" /\ "RBDClass" \notin s.disabled

(* NooBaa's database lives on a volume of the RBD class.  A live cluster's *)
(* NooBaa is without it only where a pass deleted the class and failed to  *)
(* make it again (storageclasses.go:225), and then a pass that makes it is *)
(* under way or queued.                                                    *)
NooBaaHasItsStorageClass ==
  life = "live" /\ WantsRBD(script[gen]) /\ Present("NooBaa") =>
    \/ Present("RBDClass")
    \/ queued \/ "StorageClass" \in Elements(pass.todo)

(* Otherwise the class comes before NooBaa and goes after it: NooBaa is    *)
(* made only where the class is, and an uninstall takes the class down     *)
(* only after NooBaa is gone (reconcile.go:407,                            *)
(* uninstall_reconciler.go:322).                                           *)
ClassOutlivesNooBaa ==
  [][ WantsRBD(sc) /\ Present("NooBaa")' /\ ~Present("RBDClass")' =>
        /\ Present("NooBaa")
        /\ Present("RBDClass") => ~pass.deleting /\ queued' ]_vars

(* The keys of an encrypted cluster are deleted after the cluster.         *)
KMSOutlivesCeph ==
  Has(script[gen], "kms") /\ Present("CephCluster") =>
    Present("KMSConfigMap")

(* The StorageCluster goes when nothing is left for Rook or NooBaa to take *)
(* down: without their CephCluster they could not.                         *)
FinalizerWaits ==
  life = "gone" =>
    \A o \in Dependents("CephCluster") \cup {"CephCluster", "NooBaa"} :
      ~Present(o)

(* The pipeline settles: a StorageCluster that is not deleted ends up in   *)
(* phase Ready and out of the queue.                                       *)
Converges ==
  <>[](life = "live" => Settled /\ status.phase = "Ready")

(* A deleted StorageCluster is taken apart and goes.                       *)
UninstallCompletes == life = "deleting" ~> life = "gone"

-----------------------------------------------------------------------------
(* What the comments say and the code does not do                          *)

(* external_resources.go:254: "ensureCreated ensures that requested        *)
(* resources for the external cluster being created".                      *)
ExternalDelivered ==
  Settled /\ status.phase = "Ready" /\ IsExternal /\ life = "live" =>
    \A o \in Elements(script[gen].entries) : Present(o)

(* cephcluster.go:305: "When phase is expanding, wait for CephCluster      *)
(* state to be updating this means expansion is in progress".              *)
ExpandingUntilUpdating ==
  [][ status.phase = "Expanding" /\ status'.phase = "Ready"
        => seen = written["CephCluster"] ]_vars
=============================================================================
