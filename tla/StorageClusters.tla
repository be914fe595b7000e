-------------------------- MODULE StorageClusters --------------------------
(***************************************************************************)
(* The StorageCluster reconciler (controllers/storagecluster/reconcile.go  *)
(* and uninstall_reconciler.go): which of several StorageClusters is       *)
(* active and which are ignored, the finalizer that guards the resources   *)
(* the operator creates, the uninstall, and the phase it reports.          *)
(*                                                                         *)
(* One worker reconciles one key at a time.  It reads StorageClusters      *)
(* from the informer cache, which lags behind the API server, and writes   *)
(* to the API server, which refuses a write based on an older version.     *)
(* Users create, edit and delete StorageClusters between any two of its    *)
(* steps.                                                                  *)
(***************************************************************************)
EXTENDS Naturals, FiniteSets

CONSTANTS
  Clusters,           \* namespaced names a StorageCluster may be created under
  Name,               \* Name[k]: the name of k, as its place in string order
  Namespace,          \* Namespace[k]: the namespace of k
  External,           \* External[k]: spec.externalStorage.enable of k
  OperatorNamespace,  \* the namespace the operator runs in
  MaxCreations,       \* bound: creations in a behaviour; numbers the UIDs
  Second,             \* Second[u]: creation timestamp of u, in whole seconds
  CreateModes,        \* uninstall-mode annotations users create clusters with
  Outcomes,           \* results of ensureCreated that are explored
  InvalidSpecs,       \* may users write specs that fail validation?
  MaxDisturbances,    \* bound: crashes, failed API calls and user edits
  None                \* no StorageCluster

UID == 1..MaxCreations

Phases == {"", "Ignored", "Progressing", "Error", "Ready", "NotReady",
           "Expanding", "Deleting", "Connecting"}

(* The uninstall-mode annotation; "none" is an absent or unrecognised one. *)
Modes == {"none", "graceful", "forced"}

Cluster == [uid: UID, deleting: BOOLEAN, finalizer: BOOLEAN, mode: Modes,
            valid: BOOLEAN, phase: Phases]

Conditions == {"unset", "true", "false"}

AllOutcomes == {"error", "skipped", "requeue", "expanding", "clean", "negative"}

(* Creation timestamps follow the order of creation; equal ones are two    *)
(* creations within one second.                                            *)
ASSUME ConstantsAssumption ==
  /\ IsFiniteSet(Clusters)
  /\ Name \in [Clusters -> Nat]
  /\ External \in [Clusters -> BOOLEAN]
  /\ MaxCreations \in Nat
  /\ Second \in [UID -> Nat]
  /\ \A u, v \in UID : u <= v => Second[u] <= Second[v]
  /\ CreateModes \in SUBSET Modes
  /\ Outcomes \in SUBSET AllOutcomes
  /\ InvalidSpecs \in BOOLEAN
  /\ MaxDisturbances \in Nat
  /\ None \notin Cluster

VARIABLES
  store,         \* the StorageClusters in the API server
  cache,         \* the informer cache: the store at an earlier moment
  owned,         \* the resources created for a cluster, as a whole
  upgradeable,   \* the Upgradeable OperatorCondition
  worker,        \* the reconcile in progress
  created,       \* number of creations so far
  disturbances   \* number of disturbances so far

vars == <<store, cache, owned, upgradeable, worker, created, disturbances>>

Pcs == {"idle", "phases", "finalizer", "annotations", "ensure", "uninstall",
        "status"}

(* sc is the object in the reconciler's memory, base the version of it     *)
(* that its resourceVersion names, othersReady what                        *)
(* AreOtherStorageClustersReady says of the list it read.                  *)
Worker == [pc: Pcs, key: Clusters \cup {None}, base: Cluster \cup {None},
           sc: Cluster \cup {None}, othersReady: BOOLEAN]

IdleWorker == [pc |-> "idle", key |-> None, base |-> None, sc |-> None,
               othersReady |-> FALSE]

TypeOK ==
  /\ store \in [Clusters -> Cluster \cup {None}]
  /\ cache \in [Clusters -> Cluster \cup {None}]
  /\ owned \in [Clusters -> {"none", "present", "dying"}]
  /\ upgradeable \in Conditions
  /\ worker \in Worker
  /\ created \in 0..MaxCreations
  /\ disturbances \in 0..MaxDisturbances

Init ==
  /\ store = [k \in Clusters |-> None]
  /\ cache = [k \in Clusters |-> None]
  /\ owned = [k \in Clusters |-> "none"]
  /\ upgradeable = "unset"
  /\ worker = IdleWorker
  /\ created = 0
  /\ disturbances = 0

Disturb ==
  /\ disturbances < MaxDisturbances
  /\ disturbances' = disturbances + 1

Undisturbed == UNCHANGED disturbances

(* A write fails because it is based on an old version, or by a fault.     *)
Fails(current) == \/ ~current /\ Undisturbed
                  \/ Disturb

-----------------------------------------------------------------------------
(* Which cluster is active                                                 *)

Listed == {k \in Clusters : cache[k] # None}
SameName(k) == {j \in Listed : Name[j] = Name[k]}
SameNamespace(k) == {j \in Listed : Namespace[j] = Namespace[k]}
SameKind(k) == {j \in Listed : External[j] = External[k]}

(* Mutation: the tie between new clusters is broken by name alone.         *)
IsNotIgnoredByName(k, sc, S) ==
  \A j \in S :
    cache[j].phase # "Ignored" /\ Name[j] # Name[k] =>
      cache[j].phase = "" /\ Name[j] > Name[k]

(* No listed cluster of S with another name takes precedence over sc.      *)
IsStorageClusterNotIgnored(k, sc, S) ==
  \A j \in S :
    cache[j].phase # "Ignored" /\ Name[j] # Name[k] =>
      /\ cache[j].phase = ""
      /\ Second[cache[j].uid] >= Second[sc.uid]
      /\ Second[cache[j].uid] = Second[sc.uid] => Name[j] > Name[k]

IsActiveStorageCluster(k, sc) ==
  /\ ~sc.deleting
  /\ External[k] \/ Namespace[k] = OperatorNamespace
  /\ Cardinality(SameName(k)) <= 1
  /\ \/ Cardinality(SameNamespace(k)) <= 1
     \/ IsStorageClusterNotIgnored(k, sc, SameNamespace(k))
  /\ \/ Cardinality(SameKind(k)) = 1
     \/ IsStorageClusterNotIgnored(k, sc, SameKind(k))

AreOtherStorageClustersReady(k) ==
  \A j \in Listed :
    Name[j] # Name[k] /\ Namespace[j] # Namespace[k] => cache[j].phase = "Ready"

-----------------------------------------------------------------------------
(* Reconcile                                                               *)

At(pc) == worker.pc = pc

Goto(pc, sc) == worker' = [worker EXCEPT !.pc = pc, !.sc = sc]

(* Reconcile fetches the StorageCluster from the cache and validates it;   *)
(* an invalid one is reported as Error before anything else is decided.    *)
GetStorageCluster(k) ==
  /\ At("idle")
  /\ \/ /\ cache[k] = None
        /\ UNCHANGED worker
     \/ /\ cache[k] # None
        /\ worker' = [pc |-> IF cache[k].valid THEN "phases" ELSE "status",
                      key |-> k, base |-> cache[k],
                      sc |-> IF cache[k].valid THEN cache[k]
                             ELSE [cache[k] EXCEPT !.phase = "Error"],
                      othersReady |-> FALSE]
  /\ UNCHANGED <<store, cache, owned, upgradeable, created, disturbances>>

(* The phases reconcilePhases does not reset when it starts.               *)
KeptPhases == {"Ready", "Expanding", "Deleting", "Connecting"}

(* Mutation: a phase that controllers/util/status.go does not define.      *)
StartPhasePending(sc) == IF sc.phase \in KeptPhases THEN sc.phase ELSE "Pending"

StartPhase(sc) == IF sc.phase \in KeptPhases THEN sc.phase ELSE "Progressing"

(* Mutation: an ignored cluster takes part in the election again.          *)
IsIgnoredForNow(k, sc) ==
  sc.phase \in {"", "Ignored"} /\ ~IsActiveStorageCluster(k, sc)

(* Mutation: the election is held in every reconcile.                      *)
IsIgnoredAnyTime(k, sc) ==
  sc.phase = "Ignored" \/ ~IsActiveStorageCluster(k, sc)

(* A cluster without a phase is a new one.                                 *)
IsIgnored(k, sc) ==
  \/ sc.phase = "" /\ ~IsActiveStorageCluster(k, sc)
  \/ sc.phase = "Ignored"

(* What is left to do for a cluster that is not being deleted.             *)
NextStep(sc) == IF ~sc.finalizer THEN "finalizer"
                ELSE IF sc.mode = "none" THEN "annotations" ELSE "ensure"

(* GetClusters lists the StorageClusters; reconcilePhases decides whether  *)
(* this one is ignored, is to be uninstalled or is to be deployed.         *)
ReconcilePhases ==
  LET k == worker.key
      sc == worker.sc
  IN /\ At("phases")
     /\ worker' =
          [worker EXCEPT
             !.othersReady = AreOtherStorageClustersReady(k),
             !.pc = IF IsIgnored(k, sc) THEN "status"
                    ELSE IF sc.deleting THEN "uninstall" ELSE NextStep(sc),
             !.sc.phase = IF IsIgnored(k, sc) THEN "Ignored"
                          ELSE IF sc.deleting THEN "Deleting" ELSE StartPhase(sc)]
     /\ UNCHANGED <<store, cache, owned, upgradeable, created, disturbances>>

(* Client.Update decodes its answer into the object in memory; the status  *)
(* the server holds replaces the one in memory, unless it is still empty.  *)
Answer(saved, sc) ==
  [saved EXCEPT !.phase = IF saved.phase = "" THEN sc.phase ELSE saved.phase]

(* The API server takes a write that is based on the stored version and    *)
(* is meant for the same object.                                           *)
Current(base) == store[worker.key] = base /\ base # None
                 /\ base.uid = worker.sc.uid

(* Mutation: the reconcile goes on although the finalizer was not added.   *)
AddFinalizerUnchecked ==
  LET k == worker.key
      saved == [worker.base EXCEPT !.finalizer = TRUE]
  IN /\ At("finalizer")
     /\ \/ /\ Current(worker.base)
           /\ store' = [store EXCEPT ![k] = saved]
           /\ worker' = [worker EXCEPT !.pc = NextStep(saved), !.base = saved,
                                       !.sc = Answer(saved, worker.sc)]
           /\ Undisturbed
        \/ /\ Fails(Current(worker.base))
           /\ Goto(NextStep(saved), worker.sc)
           /\ UNCHANGED store
     /\ UNCHANGED <<cache, owned, upgradeable, created>>

AddFinalizer ==
  LET k == worker.key
      saved == [worker.base EXCEPT !.finalizer = TRUE]
  IN /\ At("finalizer")
     /\ \/ /\ Current(worker.base)
           /\ store' = [store EXCEPT ![k] = saved]
           /\ worker' = [worker EXCEPT !.pc = NextStep(saved), !.base = saved,
                                       !.sc = Answer(saved, worker.sc)]
           /\ Undisturbed
        \/ /\ Fails(Current(worker.base))
           /\ Goto("status", worker.sc)
           /\ UNCHANGED store
     /\ UNCHANGED <<cache, owned, upgradeable, created>>

(* reconcileUninstallAnnotations defaults a missing uninstall mode.  It    *)
(* takes the resourceVersion for its update from a second read of the      *)
(* cache, so the write can replace a version the object in memory was not  *)
(* made from; a failed one leaves that resourceVersion in memory.  The     *)
(* reconcile ends either way.                                              *)
ReconcileUninstallAnnotations ==
  LET k == worker.key
      read == cache[k]
      saved == [read EXCEPT !.finalizer = worker.sc.finalizer,
                            !.valid = worker.sc.valid, !.mode = "graceful"]
  IN /\ At("annotations")
     /\ \/ /\ Current(read)
           /\ store' = [store EXCEPT ![k] = saved]
           /\ worker' = [worker EXCEPT !.pc = "status", !.base = saved,
                                       !.sc = Answer(saved, worker.sc)]
           /\ Undisturbed
        \/ /\ Fails(Current(read))
           /\ worker' = [worker EXCEPT !.pc = "status",
                            !.base = IF read = None THEN worker.base ELSE read]
           /\ UNCHANGED store
     /\ UNCHANGED <<cache, owned, upgradeable, created>>

(* The phase after a resource manager returned without trouble.            *)
RunningPhase(p) == IF p \in {"Ready", "Connecting"} THEN p ELSE "Progressing"

(* What running the resource managers on a cluster in phase p may lead to: *)
(* the phase left in memory and what the OperatorCondition becomes.  clean *)
(* means that no component reported negatively; the operator is then       *)
(* upgradeable unless another cluster is not ready or a connected client   *)
(* is too old.                                                             *)
Leads(outcome, p, phase, condition) ==
  \/ outcome = "error" /\ phase = "Error" /\ condition = upgradeable
  \/ outcome = "skipped" /\ phase = "Progressing" /\ condition = upgradeable
  \/ outcome = "requeue" /\ phase = RunningPhase(p) /\ condition = upgradeable
  \/ /\ outcome = "expanding"
     /\ ~External[worker.key]
     /\ phase = "Expanding" /\ condition = "false"
  \/ /\ outcome = "clean"
     /\ phase = "Ready"
     /\ condition = "true" => worker.othersReady
     /\ condition # "unset"
  \/ /\ outcome = "negative"
     /\ phase \in IF External[worker.key]
                  THEN {"Connecting", "Ready", "Progressing"}
                  ELSE {"Progressing", "NotReady", "Error"}
     /\ condition \in {"false", upgradeable}
     /\ phase = "NotReady" => condition = "false"

(* reconcilePhases runs the ensureCreated of every resource manager in     *)
(* order.  One that fails has perhaps created resources before; setting    *)
(* the OperatorCondition may fail too, and that is an error.               *)
EnsureCreated ==
  LET k == worker.key
      End(phase) == Goto("status", [worker.sc EXCEPT !.phase = phase])
  IN /\ At("ensure")
     /\ \/ \E o \in Outcomes, phase \in Phases, condition \in Conditions :
             /\ Leads(o, worker.sc.phase, phase, condition)
             /\ End(phase)
             /\ upgradeable' = condition
             /\ \/ owned' = [owned EXCEPT ![k] = "present"]
                \/ o = "error" /\ UNCHANGED owned
             /\ Undisturbed
        \/ /\ Disturb
           /\ End("Ready") \/ End("Error")
           /\ owned' = [owned EXCEPT ![k] = "present"]
           /\ UNCHANGED upgradeable
     /\ UNCHANGED <<store, cache, created>>

(* deleteResources asks for the deletion of everything and comes back      *)
(* until it is gone; then the finalizer is removed, which ends the         *)
(* StorageCluster, and the operator may be upgradeable again.              *)
DeleteResources ==
  LET k == worker.key
  IN /\ At("uninstall")
     /\ Goto("status", worker.sc)
     /\ \/ /\ owned[k] # "none"
           /\ \/ owned' = [owned EXCEPT ![k] = "dying"] /\ Undisturbed
              \/ UNCHANGED owned /\ Disturb
           /\ UNCHANGED <<store, upgradeable>>
        \/ /\ owned[k] = "none"
           /\ Current(worker.base)
           /\ store' = [store EXCEPT ![k] = None]
           /\ \/ /\ upgradeable' =
                      IF worker.othersReady THEN "true" ELSE upgradeable
                 /\ Undisturbed
              \/ UNCHANGED upgradeable /\ Disturb
           /\ UNCHANGED owned
        \/ /\ owned[k] = "none"
           /\ Fails(Current(worker.base))
           /\ UNCHANGED <<store, owned, upgradeable>>
     /\ UNCHANGED <<cache, created>>

(* Reconcile ends with the update of the status, a write like the others;  *)
(* it is not reached when the tools deployment fails.                      *)
UpdateStatus ==
  /\ At("status")
  /\ \/ /\ Current(worker.base)
        /\ store' = [store EXCEPT ![worker.key].phase = worker.sc.phase]
        /\ Undisturbed
     \/ /\ Fails(Current(worker.base))
        /\ UNCHANGED store
  /\ worker' = IdleWorker
  /\ UNCHANGED <<cache, owned, upgradeable, created>>

(* The operator dies and starts again with an informer cache that is       *)
(* filled from the API server.                                             *)
Crash ==
  /\ Disturb
  /\ ~At("idle")
  /\ worker' = IdleWorker
  /\ cache' = store
  /\ UNCHANGED <<store, owned, upgradeable, created>>

-----------------------------------------------------------------------------
(* Outside the operator: the watch, the users, Rook and NooBaa             *)

(* The watch brings the cache up to date.                                  *)
Sync ==
  /\ cache # store
  /\ cache' = store
  /\ UNCHANGED <<store, owned, upgradeable, worker, created, disturbances>>

Create(k) ==
  /\ store[k] = None
  /\ created < MaxCreations
  /\ created' = created + 1
  /\ \E m \in CreateModes, v \in IF InvalidSpecs THEN BOOLEAN ELSE {TRUE} :
       store' = [store EXCEPT ![k] =
                   [uid |-> created + 1, deleting |-> FALSE, finalizer |-> FALSE,
                    mode |-> m, valid |-> v, phase |-> ""]]
  /\ UNCHANGED <<cache, owned, upgradeable, worker, disturbances>>

(* A deletion waits for the finalizer if there is one.                     *)
Delete(k) ==
  /\ store[k] # None
  /\ ~store[k].deleting
  /\ store' = [store EXCEPT ![k] =
                 IF store[k].finalizer THEN [store[k] EXCEPT !.deleting = TRUE]
                 ELSE None]
  /\ UNCHANGED <<cache, owned, upgradeable, worker, created, disturbances>>

Edit(k) ==
  /\ store[k] # None
  /\ Disturb
  /\ \/ \E m \in {"graceful", "forced"} \ {store[k].mode} :
          store' = [store EXCEPT ![k].mode = m]
     \/ /\ InvalidSpecs
        /\ store' = [store EXCEPT ![k].valid = ~store[k].valid]
  /\ UNCHANGED <<cache, owned, upgradeable, worker, created>>

(* Rook, NooBaa and the garbage collector finish a deletion.               *)
Reap(k) ==
  /\ owned[k] = "dying"
  /\ owned' = [owned EXCEPT ![k] = "none"]
  /\ UNCHANGED <<store, cache, upgradeable, worker, created, disturbances>>

-----------------------------------------------------------------------------
WorkerStep ==
  \/ ReconcilePhases
  \/ AddFinalizer
  \/ ReconcileUninstallAnnotations
  \/ EnsureCreated
  \/ DeleteResources
  \/ UpdateStatus

Next ==
  \/ \E k \in Clusters : GetStorageCluster(k)
  \/ WorkerStep
  \/ Crash
  \/ Sync
  \/ \E k \in Clusters : Create(k) \/ Delete(k) \/ Edit(k) \/ Reap(k)

Spec == Init /\ [][Next]_vars

(* A reconcile in progress goes on; every cluster comes up in the work     *)
(* queue again (deletions and failed or unfinished reconciles requeue it); *)
(* the watch delivers; what was asked to go goes.                          *)
Fairness ==
  /\ WF_vars(WorkerStep)
  /\ WF_vars(Sync)
  /\ \A k \in Clusters : SF_vars(GetStorageCluster(k)) /\ WF_vars(Reap(k))

FairSpec == Spec /\ Fairness

-----------------------------------------------------------------------------
(* Properties                                                              *)

(* Resources exist only while their StorageCluster exists and holds the    *)
(* finalizer that makes its deletion wait for them: reconcilePhases never  *)
(* creates anything for an object that can vanish or has vanished, however *)
(* old its copy of it is.                                                  *)
NoOrphans ==
  \A k \in Clusters :
    owned[k] # "none" => store[k] # None /\ store[k].finalizer

Active(k) == store[k] # None /\ store[k].phase \notin {"", "Ignored"}

(* isActiveStorageCluster: two clusters with a phase other than Ignored    *)
(* are one internal and one external, under two names in two namespaces.   *)
OneActivePerKind ==
  \A j, k \in Clusters :
    j # k /\ Active(j) /\ Active(k) =>
      /\ External[j] # External[k]
      /\ Name[j] # Name[k]
      /\ Namespace[j] # Namespace[k]

(* reconcilePhases: a cluster once Ignored is Ignored for as long as it    *)
(* exists.                                                                 *)
IgnoredStaysIgnored ==
  [][\A k \in Clusters :
       store[k] # None /\ store[k].phase = "Ignored" /\ store'[k] # None
         /\ store'[k].uid = store[k].uid
       => store'[k].phase = "Ignored"]_vars

Gone(k, u) == store[k] = None \/ store[k].uid # u

Deleting(k, u) == ~Gone(k, u) /\ store[k].deleting

(* deleteResources: the deletion of an active cluster is carried through,  *)
(* whatever failed on the way.                                             *)
UninstallCompletes ==
  \A k \in Clusters, u \in UID : Deleting(k, u) /\ Active(k) ~> Gone(k, u)

-----------------------------------------------------------------------------
(* The inductive invariant behind NoOrphans                                *)

(* Copies are of objects that were created.                                *)
UidsCreated ==
  /\ \A k \in Clusters : store[k] # None => store[k].uid <= created
  /\ \A k \in Clusters : cache[k] # None => cache[k].uid <= created
  /\ worker.pc # "idle" => worker.base.uid <= created

Guarded(o) == o.finalizer /\ ~o.deleting

Held(k, o) == store[k] # None /\ store[k].uid = o.uid /\ store[k].finalizer

SeesDeletion(k, u) ==
  /\ store[k] # None /\ store[k].uid = u => store[k].deleting
  /\ cache[k] # None /\ cache[k].uid = u => cache[k].deleting

(* A cached cluster that has the finalizer and is not being deleted still  *)
(* exists and has it; a deletion, once cached, is not taken back.          *)
CacheTrusted ==
  \A k \in Clusters : cache[k] # None =>
    /\ Guarded(cache[k]) => Held(k, cache[k])
    /\ cache[k].deleting => SeesDeletion(k, cache[k].uid)

(* The same of the copy a reconcile works on, and where it has got to.     *)
WorkerTrusted ==
  worker.pc \notin {"idle", "status"} =>
    /\ worker.sc.uid = worker.base.uid
    /\ worker.sc.finalizer = worker.base.finalizer
    /\ worker.sc.deleting = worker.base.deleting
    /\ Guarded(worker.base) => Held(worker.key, worker.base)
    /\ worker.base.deleting => SeesDeletion(worker.key, worker.base.uid)
    /\ worker.pc \in {"annotations", "ensure"} => Guarded(worker.base)
    /\ worker.pc = "finalizer" => ~worker.base.deleting
    /\ worker.pc = "uninstall" => worker.base.deleting

OrphanInv ==
  /\ UidsCreated
  /\ CacheTrusted
  /\ WorkerTrusted
  /\ NoOrphans

-----------------------------------------------------------------------------
(* The inductive invariant behind OneActivePerKind and IgnoredStaysIgnored *)

(* Every copy of a cluster that a step may use.                            *)
Copies(k) ==
  ({store[k], cache[k]} \ {None})
    \cup {o \in {worker.base, worker.sc} : worker.pc # "idle" /\ worker.key = k}

(* A UID names one cluster, in whatever copy.                              *)
UidsUnique ==
  /\ \A k \in Clusters : \A o \in Copies(k) : o.uid <= created /\ o.valid
  /\ \A j, k \in Clusters : \A o \in Copies(j), p \in Copies(k) :
       o.uid = p.uid => j = k

(* The cache is one snapshot: it shows whatever is older than something it *)
(* shows or has shown and still exists.                                    *)
Cached(k) == cache[k] # None /\ cache[k].uid = store[k].uid

CacheCovers ==
  \A k \in Clusters : store[k] # None =>
    /\ \A j \in Clusters :
         cache[j] # None /\ store[k].uid <= cache[j].uid => Cached(k)
    /\ worker.pc # "idle" /\ store[k].uid <= worker.sc.uid => Cached(k)

(* Nothing conflicts with an active cluster in namespace or kind.          *)
Conflict(j, k) ==
  /\ j # k
  /\ Namespace[j] = Namespace[k] \/ External[j] = External[k]

(* An object that has been through a won election: it has the phase of an  *)
(* active cluster, or the finalizer that is added before it.               *)
Claims(o) == o.phase \notin {"", "Ignored"} \/ (o.phase = "" /\ o.finalizer)

(* Under k there is nothing created before u that is not Ignored.          *)
Yields(k, u) ==
  /\ store[k] # None /\ store[k].uid < u => store[k].phase = "Ignored"
  /\ cache[k] # None /\ cache[k].uid < u => cache[k].phase = "Ignored"

Rightful(k, u) ==
  /\ External[k] \/ Namespace[k] = OperatorNamespace
  /\ \A j \in Clusters : Conflict(j, k) => Yields(j, u)

Live(k, u) == store[k] # None /\ store[k].uid = u

(* Of clusters in conflict the oldest that is not Ignored is the active    *)
(* one.  A reconcile may elect a cluster that is gone, in vain.            *)
Precedence ==
  \A k \in Clusters :
    /\ store[k] # None /\ Claims(store[k]) => Rightful(k, store[k].uid)
    /\ cache[k] # None /\ Claims(cache[k]) => Rightful(k, cache[k].uid)
    /\ \A o \in {worker.base, worker.sc} :
         worker.pc # "idle" /\ worker.key = k /\ Claims(o) /\ Live(k, o.uid)
           => Rightful(k, o.uid)

(* What the cache shows as Ignored is Ignored, and what it shows with its  *)
(* finalizer, neither Ignored nor deleted, has not been Ignored since.     *)
CacheDecided ==
  \A k \in Clusters : cache[k] # None =>
    /\ cache[k].phase = "Ignored" /\ Live(k, cache[k].uid) =>
         store[k].phase = "Ignored"
    /\ Guarded(cache[k]) /\ cache[k].phase # "Ignored" =>
         store[k].phase # "Ignored"

(* What a reconcile knows of the election before it writes the status,     *)
(* and that its status never takes Ignored back.                           *)
WorkerDecided ==
  /\ worker.pc = "phases" => worker.sc = worker.base
  /\ worker.pc \notin {"idle", "status"} /\ Guarded(worker.base)
       /\ worker.base.phase # "Ignored" => store[worker.key].phase # "Ignored"
  /\ worker.pc \in {"finalizer", "annotations", "ensure", "uninstall"} =>
       /\ worker.sc.phase \notin {"", "Ignored"}
       /\ worker.base.phase # "Ignored"
  /\ worker.pc = "status" =>
       /\ worker.sc.phase # ""
       /\ worker.base.uid = worker.sc.uid /\ worker.base.phase = "Ignored" =>
            worker.sc.phase = "Ignored"
       /\ worker.base.uid = worker.sc.uid /\ worker.sc.phase = "Ignored" =>
            \/ worker.base.phase = "Ignored"
            \/ ~worker.base.finalizer
            \/ SeesDeletion(worker.key, worker.base.uid)

ElectionInv ==
  /\ UidsUnique
  /\ CacheCovers
  /\ Precedence
  /\ CacheDecided
  /\ WorkerDecided
=============================================================================
