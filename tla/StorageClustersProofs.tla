----------------------- MODULE StorageClustersProofs -----------------------
(* Proofs about StorageClusters, for every set of clusters, every          *)
(* assignment of names, namespaces and kinds, and all bounds.              *)
EXTENDS StorageClusters, TLAPS

(* While a reconcile is in progress it has a cluster and its copies.       *)
WorkerShaped ==
  worker.pc # "idle" =>
    worker.key \in Clusters /\ worker.base \in Cluster /\ worker.sc \in Cluster

TypeInv == TypeOK /\ WorkerShaped

-----------------------------------------------------------------------------
(* Type correctness                                                        *)

(* A record that differs from a cluster in one field is a cluster.         *)
LEMMA ClusterUpdates ==
  ASSUME NEW c \in Cluster
  PROVE  /\ \A b \in BOOLEAN : [c EXCEPT !.finalizer = b] \in Cluster
         /\ \A b \in BOOLEAN : [c EXCEPT !.deleting = b] \in Cluster
         /\ \A b \in BOOLEAN : [c EXCEPT !.valid = b] \in Cluster
         /\ \A m \in Modes : [c EXCEPT !.mode = m] \in Cluster
         /\ \A p \in Phases : [c EXCEPT !.phase = p] \in Cluster
  BY DEF Cluster

(* The answer to an update is a cluster.                                   *)
LEMMA AnswerType ==
  ASSUME NEW saved \in Cluster, NEW c \in Cluster
  PROVE  Answer(saved, c) \in Cluster
  BY DEF Answer, Cluster

(* The starting phase and the results of ensureCreated are phases.         *)
LEMMA PhaseTypes ==
  ASSUME NEW c \in Cluster
  PROVE  StartPhase(c) \in Phases
  BY DEF StartPhase, KeptPhases, Cluster, Phases

(* The type invariant holds initially.                                     *)
LEMMA TypeInvInit == Init => TypeInv
  BY ConstantsAssumption DEF Init, TypeInv, TypeOK, WorkerShaped, IdleWorker,
     Worker, Pcs, Conditions

(* A disturbance stays within its bound.                                   *)
LEMMA DisturbancesType ==
  ASSUME TypeOK, Disturb \/ Undisturbed
  PROVE  disturbances' \in 0..MaxDisturbances
  BY ConstantsAssumption DEF TypeOK, Disturb, Undisturbed

(* Every step keeps the type invariant.                                    *)
LEMMA TypeInvStep == TypeInv /\ [Next]_vars => TypeInv'
<1>. SUFFICES ASSUME TypeInv, [Next]_vars PROVE TypeInv'
  OBVIOUS
<1>. USE DEF TypeInv
<1>1. ASSUME NEW k \in Clusters, GetStorageCluster(k) PROVE TypeInv'
  <2>1. CASE cache[k] = None
    BY <1>1, <2>1 DEF GetStorageCluster, TypeOK, WorkerShaped
  <2>2. CASE cache[k] # None
    <3>1. cache[k] \in Cluster
      BY <2>2 DEF TypeOK
    <3>2. [cache[k] EXCEPT !.phase = "Error"] \in Cluster
      BY <3>1, ClusterUpdates DEF Phases
    <3>. DEFINE s == IF cache[k].valid THEN cache[k]
                     ELSE [cache[k] EXCEPT !.phase = "Error"]
                p == IF cache[k].valid THEN "phases" ELSE "status"
    <3>3. s \in Cluster /\ p \in Pcs
      BY <3>1, <3>2 DEF Pcs
    <3>4. worker' = [pc |-> p, key |-> k, base |-> cache[k], sc |-> s,
                     othersReady |-> FALSE]
      BY <1>1, <2>2 DEF GetStorageCluster
    <3>. HIDE DEF s, p
    <3>5. worker' \in Worker /\ WorkerShaped'
      BY <3>1, <3>3, <3>4 DEF Worker, WorkerShaped
    <3>. QED
      BY <1>1, <3>5 DEF GetStorageCluster, TypeOK
  <2>. QED BY <2>1, <2>2
<1>2. CASE ReconcilePhases
  <2>1. worker \in Worker /\ worker.key \in Clusters /\ worker.base \in Cluster
        /\ worker.sc \in Cluster /\ worker.pc = "phases"
    BY <1>2 DEF ReconcilePhases, At, TypeOK, WorkerShaped
  <2>2. PICK p \in Phases, q \in Pcs, b \in BOOLEAN :
          worker' = [worker EXCEPT !.othersReady = b, !.pc = q, !.sc.phase = p]
    <3>1. StartPhase(worker.sc) \in Phases
      BY <2>1, PhaseTypes
    <3>2. NextStep(worker.sc) \in Pcs
      BY DEF NextStep, Pcs
    <3>3. AreOtherStorageClustersReady(worker.key) \in BOOLEAN
      BY DEF AreOtherStorageClustersReady
    <3>. QED
      <4>. DEFINE k == worker.key
                  sc == worker.sc
                  b == AreOtherStorageClustersReady(k)
                  q == IF IsIgnored(k, sc) THEN "status"
                       ELSE IF sc.deleting THEN "uninstall" ELSE NextStep(sc)
                  p == IF IsIgnored(k, sc) THEN "Ignored"
                       ELSE IF sc.deleting THEN "Deleting" ELSE StartPhase(sc)
      <4>1. b \in BOOLEAN /\ q \in Pcs /\ p \in Phases
        BY <3>1, <3>2, <3>3 DEF Phases, Pcs
      <4>2. worker' = [worker EXCEPT !.othersReady = b, !.pc = q, !.sc.phase = p]
        BY <1>2 DEF ReconcilePhases
      <4>. HIDE DEF b, q, p
      <4>. QED
        BY <4>1, <4>2
  <2>3. worker' \in Worker /\ WorkerShaped'
    BY <2>1, <2>2 DEF Worker, WorkerShaped, Cluster
  <2>. QED
    BY <1>2, <2>3 DEF ReconcilePhases, TypeOK
<1>3. CASE AddFinalizer
  <2>1. worker \in Worker /\ worker.key \in Clusters /\ worker.base \in Cluster
        /\ worker.sc \in Cluster
    BY <1>3 DEF AddFinalizer, At, TypeOK, WorkerShaped
  <2>2. PICK saved \in Cluster : saved = [worker.base EXCEPT !.finalizer = TRUE]
    BY <2>1, ClusterUpdates
  <2>3. NextStep(saved) \in Pcs /\ "status" \in Pcs
    BY DEF NextStep, Pcs
  <2>4. Answer(saved, worker.sc) \in Cluster
    BY <2>1, AnswerType
  <2>5. store' \in [Clusters -> Cluster \cup {None}]
    BY <1>3, <2>1, <2>2 DEF AddFinalizer, TypeOK
  <2>6. worker' \in Worker /\ WorkerShaped'
    <3>1. \/ worker' = [worker EXCEPT !.pc = NextStep(saved), !.base = saved,
                                      !.sc = Answer(saved, worker.sc)]
          \/ worker' = [worker EXCEPT !.pc = "status", !.sc = worker.sc]
      BY <1>3, <2>2 DEF AddFinalizer, Goto
    <3>. QED
      BY <2>1, <2>3, <2>4, <3>1 DEF Worker, WorkerShaped
  <2>7. disturbances' \in 0..MaxDisturbances
    BY <1>3, DisturbancesType DEF AddFinalizer, Fails
  <2>. QED
    BY <1>3, <2>5, <2>6, <2>7 DEF AddFinalizer, TypeOK
<1>4. CASE ReconcileUninstallAnnotations
  <2>. DEFINE k == worker.key
              saved == [cache[k] EXCEPT !.finalizer = worker.sc.finalizer,
                          !.valid = worker.sc.valid, !.mode = "graceful"]
  <2>1. worker \in Worker /\ k \in Clusters /\ worker.base \in Cluster
        /\ worker.sc \in Cluster /\ cache[k] \in Cluster \cup {None}
    BY <1>4 DEF ReconcileUninstallAnnotations, At, TypeOK, WorkerShaped
  <2>2. disturbances' \in 0..MaxDisturbances
    BY <1>4, DisturbancesType DEF ReconcileUninstallAnnotations, Fails
  <2>3. CASE /\ Current(cache[k])
             /\ store' = [store EXCEPT ![k] = saved]
             /\ worker' = [worker EXCEPT !.pc = "status", !.base = saved,
                                         !.sc = Answer(saved, worker.sc)]
    <3>1. saved \in Cluster
      BY <2>1, <2>3 DEF Current, Cluster, Modes
    <3>2. Answer(saved, worker.sc) \in Cluster
      BY <2>1, <3>1, AnswerType
    <3>. HIDE DEF saved
    <3>3. worker' \in Worker /\ WorkerShaped'
      BY <2>1, <2>3, <3>1, <3>2 DEF Worker, WorkerShaped, Pcs
    <3>4. store' \in [Clusters -> Cluster \cup {None}]
      BY <2>3, <3>1 DEF TypeOK
    <3>. QED
      BY <1>4, <2>2, <3>3, <3>4 DEF ReconcileUninstallAnnotations, TypeOK
  <2>4. CASE /\ worker' = [worker EXCEPT !.pc = "status",
                             !.base = IF cache[k] = None THEN worker.base
                                      ELSE cache[k]]
             /\ UNCHANGED store
    <3>1. worker' \in Worker /\ WorkerShaped'
      BY <2>1, <2>4 DEF Worker, WorkerShaped, Pcs
    <3>. QED
      BY <1>4, <2>2, <2>4, <3>1 DEF ReconcileUninstallAnnotations, TypeOK
  <2>. QED
    BY <1>4, <2>3, <2>4 DEF ReconcileUninstallAnnotations
<1>5. CASE EnsureCreated
  <2>1. worker \in Worker /\ worker.key \in Clusters /\ worker.base \in Cluster
        /\ worker.sc \in Cluster
    BY <1>5 DEF EnsureCreated, At, TypeOK, WorkerShaped
  <2>2. PICK p \in Phases :
          /\ worker' = [worker EXCEPT !.pc = "status",
                                      !.sc = [worker.sc EXCEPT !.phase = p]]
          /\ upgradeable' \in Conditions
    BY <1>5 DEF EnsureCreated, Goto, Phases, TypeOK
  <2>3. [worker.sc EXCEPT !.phase = p] \in Cluster
    BY <2>1, ClusterUpdates
  <2>4. worker' \in Worker /\ WorkerShaped'
    BY <2>1, <2>2, <2>3 DEF Worker, WorkerShaped, Pcs
  <2>5. disturbances' \in 0..MaxDisturbances
    BY <1>5, DisturbancesType DEF EnsureCreated
  <2>6. owned' \in [Clusters -> {"none", "present", "dying"}]
    BY <1>5 DEF EnsureCreated, TypeOK
  <2>. QED
    BY <1>5, <2>2, <2>4, <2>5, <2>6 DEF EnsureCreated, TypeOK
<1>6. CASE DeleteResources
  <2>1. worker \in Worker /\ worker.key \in Clusters /\ worker.base \in Cluster
        /\ worker.sc \in Cluster
    BY <1>6 DEF DeleteResources, At, TypeOK, WorkerShaped
  <2>2. worker' \in Worker /\ WorkerShaped'
    BY <1>6, <2>1 DEF DeleteResources, Goto, Worker, WorkerShaped, Pcs
  <2>3. disturbances' \in 0..MaxDisturbances
    BY <1>6, DisturbancesType DEF DeleteResources, Fails
  <2>4. store' \in [Clusters -> Cluster \cup {None}]
    BY <1>6 DEF DeleteResources, TypeOK
  <2>5. owned' \in [Clusters -> {"none", "present", "dying"}]
    BY <1>6 DEF DeleteResources, TypeOK
  <2>6. upgradeable' \in Conditions
    BY <1>6 DEF DeleteResources, TypeOK, Conditions
  <2>. QED
    BY <1>6, <2>2, <2>3, <2>4, <2>5, <2>6 DEF DeleteResources, TypeOK
<1>7. CASE UpdateStatus
  <2>1. worker.key \in Clusters /\ worker.base \in Cluster /\ worker.sc \in Cluster
    BY <1>7 DEF UpdateStatus, At, WorkerShaped
  <2>2. worker' \in Worker /\ WorkerShaped'
    BY <1>7 DEF UpdateStatus, IdleWorker, Worker, WorkerShaped, Pcs
  <2>3. disturbances' \in 0..MaxDisturbances
    BY <1>7, DisturbancesType DEF UpdateStatus, Fails
  <2>4. store' \in [Clusters -> Cluster \cup {None}]
    <3>1. CASE UNCHANGED store
      BY <3>1 DEF TypeOK
    <3>2. CASE /\ Current(worker.base)
               /\ store' = [store EXCEPT ![worker.key].phase = worker.sc.phase]
      <4>1. worker.sc.phase \in Phases /\ store[worker.key] \in Cluster
        BY <2>1, <3>2 DEF Cluster, Current
      <4>2. [store[worker.key] EXCEPT !.phase = worker.sc.phase] \in Cluster
        BY <4>1, ClusterUpdates
      <4>. QED
        BY <2>1, <3>2, <4>2 DEF TypeOK
    <3>. QED
      BY <1>7, <3>1, <3>2 DEF UpdateStatus
  <2>. QED
    BY <1>7, <2>2, <2>3, <2>4 DEF UpdateStatus, TypeOK
<1>8. CASE Crash
  <2>1. worker' \in Worker /\ WorkerShaped'
    BY <1>8 DEF Crash, IdleWorker, Worker, WorkerShaped, Pcs
  <2>2. disturbances' \in 0..MaxDisturbances
    BY <1>8, DisturbancesType DEF Crash
  <2>. QED
    BY <1>8, <2>1, <2>2 DEF Crash, TypeOK
<1>9. CASE Sync
  BY <1>9 DEF Sync, TypeOK, WorkerShaped
<1>10. ASSUME NEW k \in Clusters, Create(k) PROVE TypeInv'
  <2>1. created + 1 \in UID /\ created' \in 0..MaxCreations
    <3>1. MaxCreations \in Nat
      BY ConstantsAssumption
    <3>2. created \in 0..MaxCreations /\ created < MaxCreations
          /\ created' = created + 1
      BY <1>10 DEF Create, TypeOK
    <3>. QED
      BY <3>1, <3>2 DEF UID
  <2>2. store' \in [Clusters -> Cluster \cup {None}]
    <3>1. PICK m \in CreateModes, v \in IF InvalidSpecs THEN BOOLEAN ELSE {TRUE} :
            store' = [store EXCEPT ![k] =
                        [uid |-> created + 1, deleting |-> FALSE,
                         finalizer |-> FALSE, mode |-> m, valid |-> v,
                         phase |-> ""]]
      BY <1>10 DEF Create
    <3>2. m \in Modes /\ v \in BOOLEAN
      BY ConstantsAssumption
    <3>3. [uid |-> created + 1, deleting |-> FALSE, finalizer |-> FALSE,
           mode |-> m, valid |-> v, phase |-> ""] \in Cluster
      BY <2>1, <3>2 DEF Cluster, Phases
    <3>. QED
      BY <3>1, <3>3 DEF TypeOK
  <2>. QED
    BY <1>10, <2>1, <2>2 DEF Create, TypeOK, WorkerShaped
<1>11. ASSUME NEW k \in Clusters, Delete(k) PROVE TypeInv'
  <2>1. store[k] \in Cluster
    BY <1>11 DEF Delete, TypeOK
  <2>2. [store[k] EXCEPT !.deleting = TRUE] \in Cluster
    BY <2>1, ClusterUpdates
  <2>3. store' \in [Clusters -> Cluster \cup {None}]
    BY <1>11, <2>2 DEF Delete, TypeOK
  <2>. QED
    BY <1>11, <2>3 DEF Delete, TypeOK, WorkerShaped
<1>12. ASSUME NEW k \in Clusters, Edit(k) PROVE TypeInv'
  <2>1. store[k] \in Cluster
    BY <1>12 DEF Edit, TypeOK
  <2>2. PICK c \in Cluster : store' = [store EXCEPT ![k] = c]
    <3>1. \A m \in {"graceful", "forced"} : [store[k] EXCEPT !.mode = m] \in Cluster
      BY <2>1, ClusterUpdates DEF Modes
    <3>2. [store[k] EXCEPT !.valid = ~store[k].valid] \in Cluster
      BY <2>1, ClusterUpdates
    <3>. QED
      BY <1>12, <3>1, <3>2 DEF Edit
  <2>3. disturbances' \in 0..MaxDisturbances
    BY <1>12, DisturbancesType DEF Edit
  <2>. QED
    BY <1>12, <2>2, <2>3 DEF Edit, TypeOK, WorkerShaped
<1>13. ASSUME NEW k \in Clusters, Reap(k) PROVE TypeInv'
  BY <1>13 DEF Reap, TypeOK, WorkerShaped
<1>14. CASE UNCHANGED vars
  BY <1>14 DEF vars, TypeOK, WorkerShaped
<1>. QED
  BY <1>1, <1>2, <1>3, <1>4, <1>5, <1>6, <1>7, <1>8, <1>9, <1>10, <1>11,
     <1>12, <1>13, <1>14 DEF Next, WorkerStep

(* Every state of every behaviour is well typed: the reconciler writes no  *)
(* phase that controllers/util/status.go does not define.                  *)
THEOREM TypeCorrect == Spec => []TypeOK
<1>1. TypeInv => TypeOK
  BY DEF TypeInv
<1>. QED
  BY <1>1, TypeInvInit, TypeInvStep, PTL DEF Spec

-----------------------------------------------------------------------------
(* No resources without a finalizer                                        *)

(* Nothing exists initially.                                               *)
LEMMA OrphanInvInit == Init => OrphanInv
  BY DEF Init, OrphanInv, UidsCreated, CacheTrusted, WorkerTrusted, NoOrphans,
     IdleWorker

(* A step that leaves every object's UID, finalizer and deletion mark as   *)
(* they are, and the cache alone, preserves what is known of the cache.    *)
LEMMA CacheTrustedFrame ==
  ASSUME CacheTrusted, UNCHANGED cache,
         \A k \in Clusters :
           /\ store[k] # None => store'[k] # None
           /\ store[k] # None =>
                /\ store'[k].uid = store[k].uid
                /\ store[k].finalizer => store'[k].finalizer
                /\ store[k].deleting => store'[k].deleting
           /\ store[k] = None => store'[k] = None
  PROVE  CacheTrusted'
  BY DEF CacheTrusted, Guarded, Held, SeesDeletion

(* Reading a cluster from the cache: the copy is as good as the cache.     *)
LEMMA OrphanInvGet ==
  ASSUME TypeInv, OrphanInv, NEW k \in Clusters, GetStorageCluster(k)
  PROVE  OrphanInv'
<1>1. CASE cache[k] = None
  BY <1>1 DEF GetStorageCluster, OrphanInv, UidsCreated, CacheTrusted,
     WorkerTrusted, NoOrphans, Guarded, Held, SeesDeletion
<1>2. CASE cache[k] # None
  <2>1. /\ UNCHANGED <<store, cache, owned, created>>
        /\ worker'.key = k /\ worker'.base = cache[k]
        /\ worker'.pc \in {"phases", "status"}
        /\ worker'.pc = "phases" => worker'.sc = cache[k]
    BY <1>2 DEF GetStorageCluster
  <2>2. UidsCreated'
    BY <1>2, <2>1 DEF OrphanInv, UidsCreated
  <2>3. CacheTrusted'
    BY <2>1 DEF OrphanInv, CacheTrusted, Guarded, Held, SeesDeletion
  <2>4. WorkerTrusted'
    BY <1>2, <2>1 DEF OrphanInv, CacheTrusted, WorkerTrusted, Guarded, Held,
       SeesDeletion
  <2>5. NoOrphans'
    BY <2>1 DEF OrphanInv, NoOrphans
  <2>. QED
    BY <2>2, <2>3, <2>4, <2>5 DEF OrphanInv
<1>. QED BY <1>1, <1>2

(* Deciding what to do changes the phase and the place only.               *)
LEMMA OrphanInvPhases ==
  ASSUME TypeInv, OrphanInv, ReconcilePhases
  PROVE  OrphanInv'
<1>1. /\ UNCHANGED <<store, cache, owned, created>>
      /\ worker.pc = "phases" /\ worker \in Worker /\ worker.sc \in Cluster
      /\ worker.base \in Cluster
  BY DEF ReconcilePhases, At, TypeInv, TypeOK, WorkerShaped
<1>2. /\ worker'.key = worker.key /\ worker'.base = worker.base
      /\ worker'.sc.uid = worker.sc.uid
      /\ worker'.sc.finalizer = worker.sc.finalizer
      /\ worker'.sc.deleting = worker.sc.deleting
  BY <1>1 DEF ReconcilePhases, Worker, Cluster
<1>3. /\ worker'.pc # "idle"
      /\ worker'.pc \in {"annotations", "ensure"} => Guarded(worker.sc)
      /\ worker'.pc = "finalizer" => ~worker.sc.deleting
      /\ worker'.pc = "uninstall" => worker.sc.deleting
  BY <1>1 DEF ReconcilePhases, NextStep, Guarded, Worker, Cluster
<1>4. UidsCreated'
  BY <1>1, <1>2 DEF OrphanInv, UidsCreated
<1>5. CacheTrusted'
  BY <1>1 DEF OrphanInv, CacheTrusted, Guarded, Held, SeesDeletion
<1>6. WorkerTrusted'
  BY <1>1, <1>2, <1>3 DEF OrphanInv, WorkerTrusted, Guarded, Held, SeesDeletion
<1>7. NoOrphans'
  BY <1>1 DEF OrphanInv, NoOrphans
<1>. QED
  BY <1>4, <1>5, <1>6, <1>7 DEF OrphanInv

(* Adding the finalizer: accepted, the object in memory is the stored one; *)
(* refused, the reconcile ends.                                            *)
LEMMA OrphanInvFinalizer ==
  ASSUME TypeInv, OrphanInv, AddFinalizer
  PROVE  OrphanInv'
<1>1. /\ UNCHANGED <<cache, owned, created>>
      /\ worker.pc = "finalizer" /\ worker \in Worker /\ worker.sc \in Cluster
      /\ worker.base \in Cluster /\ worker.key \in Clusters
      /\ store \in [Clusters -> Cluster \cup {None}]
  BY DEF AddFinalizer, At, TypeInv, TypeOK, WorkerShaped
<1>2. CASE UNCHANGED store /\ worker'.pc = "status" /\ worker'.base = worker.base
  BY <1>1, <1>2 DEF OrphanInv, UidsCreated, CacheTrusted, WorkerTrusted,
     NoOrphans, Guarded, Held, SeesDeletion
<1>3. CASE /\ Current(worker.base)
           /\ store' = [store EXCEPT ![worker.key] =
                          [worker.base EXCEPT !.finalizer = TRUE]]
           /\ worker' = [worker EXCEPT
                !.pc = NextStep([worker.base EXCEPT !.finalizer = TRUE]),
                !.base = [worker.base EXCEPT !.finalizer = TRUE],
                !.sc = Answer([worker.base EXCEPT !.finalizer = TRUE], worker.sc)]
  <2>1. PICK saved \in Cluster : saved = [worker.base EXCEPT !.finalizer = TRUE]
    BY <1>1, ClusterUpdates
  <2>2. /\ saved.uid = worker.base.uid /\ saved.finalizer
        /\ saved.deleting = worker.base.deleting
    BY <1>1, <2>1 DEF Cluster
  <2>3. /\ store[worker.key] = worker.base /\ worker.base # None
        /\ store' = [store EXCEPT ![worker.key] = saved]
    BY <1>3, <2>1 DEF Current
  <2>4. /\ worker'.key = worker.key /\ worker'.base = saved
        /\ worker'.sc = Answer(saved, worker.sc)
        /\ worker'.pc = NextStep(saved)
    BY <1>1, <1>3, <2>1 DEF Worker
  <2>5. /\ worker'.sc.uid = saved.uid /\ worker'.sc.finalizer = saved.finalizer
        /\ worker'.sc.deleting = saved.deleting
    BY <2>4 DEF Answer, Cluster
  <2>6. worker'.pc \in {"annotations", "ensure"}
    BY <2>2, <2>4 DEF NextStep
  <2>7. saved # None
    BY ConstantsAssumption
  <2>8. ~worker.base.deleting
    BY <1>1 DEF OrphanInv, WorkerTrusted
  <2>9. UidsCreated'
    BY <1>1, <2>2, <2>3, <2>4, <2>6 DEF OrphanInv, UidsCreated
  <2>10. CacheTrusted'
    BY <1>1, <2>2, <2>3, <2>7, CacheTrustedFrame DEF OrphanInv
  <2>11. WorkerTrusted'
    BY <1>1, <2>2, <2>3, <2>4, <2>5, <2>6, <2>7, <2>8
       DEF WorkerTrusted, Guarded, Held
  <2>12. NoOrphans'
    BY <1>1, <2>2, <2>3, <2>7 DEF OrphanInv, NoOrphans
  <2>. QED
    BY <2>9, <2>10, <2>11, <2>12 DEF OrphanInv
<1>. QED
  <2>1. (UNCHANGED store /\ Goto("status", worker.sc))
          => worker'.pc = "status" /\ worker'.base = worker.base
    BY <1>1 DEF Goto, Worker
  <2>. QED
    BY <1>2, <1>3, <2>1 DEF AddFinalizer

(* Defaulting the annotations: the finalizer of the object in memory is    *)
(* the one the store has, so the write does not lose it.                   *)
LEMMA OrphanInvAnnotations ==
  ASSUME TypeInv, OrphanInv, ReconcileUninstallAnnotations
  PROVE  OrphanInv'
<1>. DEFINE k == worker.key
            new == [cache[k] EXCEPT !.finalizer = worker.sc.finalizer,
                      !.valid = worker.sc.valid, !.mode = "graceful"]
<1>1. /\ UNCHANGED <<cache, owned, created>>
      /\ worker.pc = "annotations" /\ worker \in Worker /\ worker.sc \in Cluster
      /\ worker.base \in Cluster /\ k \in Clusters
      /\ store \in [Clusters -> Cluster \cup {None}]
      /\ cache[k] \in Cluster \cup {None}
  BY DEF ReconcileUninstallAnnotations, At, TypeInv, TypeOK, WorkerShaped
<1>2. CASE /\ UNCHANGED store
           /\ worker' = [worker EXCEPT !.pc = "status",
                !.base = IF cache[k] = None THEN worker.base ELSE cache[k]]
  <2>1. /\ worker'.pc = "status"
        /\ worker'.base = IF cache[k] = None THEN worker.base ELSE cache[k]
    BY <1>1, <1>2 DEF Worker
  <2>2. UidsCreated'
    BY <1>1, <1>2, <2>1 DEF OrphanInv, UidsCreated
  <2>3. CacheTrusted' /\ WorkerTrusted' /\ NoOrphans'
    BY <1>1, <1>2, <2>1 DEF OrphanInv, CacheTrusted, WorkerTrusted, NoOrphans,
       Guarded, Held, SeesDeletion
  <2>. QED
    BY <2>2, <2>3 DEF OrphanInv
<1>3. CASE /\ Current(cache[k])
           /\ store' = [store EXCEPT ![k] = new]
           /\ worker' = [worker EXCEPT !.pc = "status", !.base = new,
                                       !.sc = Answer(new, worker.sc)]
  <2>1. cache[k] \in Cluster /\ store[k] = cache[k]
    BY <1>1, <1>3 DEF Current
  <2>2. worker.sc.finalizer
    BY <1>1 DEF OrphanInv, WorkerTrusted, Guarded
  <2>3. PICK saved \in Cluster : saved = new
    BY <1>1, <2>1 DEF Cluster, Modes
  <2>4. /\ saved.uid = store[k].uid /\ saved.finalizer
        /\ saved.deleting = store[k].deleting
    BY <2>1, <2>2, <2>3 DEF Cluster
  <2>. HIDE DEF new
  <2>5. store' = [store EXCEPT ![k] = saved]
    BY <1>3, <2>3
  <2>6. worker'.pc = "status" /\ worker'.base = saved
    BY <1>1, <1>3, <2>3 DEF Worker
  <2>7. saved # None /\ store[k] # None
    BY <2>1, ConstantsAssumption
  <2>8. UidsCreated'
    BY <1>1, <2>4, <2>5, <2>6, <2>7 DEF OrphanInv, UidsCreated
  <2>9. CacheTrusted'
    BY <1>1, <2>4, <2>5, <2>7, CacheTrustedFrame DEF OrphanInv
  <2>10. WorkerTrusted'
    BY <2>6 DEF WorkerTrusted
  <2>11. NoOrphans'
    BY <1>1, <2>4, <2>5, <2>7 DEF OrphanInv, NoOrphans
  <2>. QED
    BY <2>8, <2>9, <2>10, <2>11 DEF OrphanInv
<1>. QED
  BY <1>2, <1>3 DEF ReconcileUninstallAnnotations

(* Creating resources happens under the finalizer the worker knows of.     *)
LEMMA OrphanInvEnsure ==
  ASSUME TypeInv, OrphanInv, EnsureCreated
  PROVE  OrphanInv'
<1>1. /\ UNCHANGED <<store, cache, created>>
      /\ worker.pc = "ensure" /\ worker \in Worker /\ worker.key \in Clusters
      /\ owned \in [Clusters -> {"none", "present", "dying"}]
  BY DEF EnsureCreated, At, TypeInv, TypeOK, WorkerShaped
<1>2. worker'.pc = "status" /\ worker'.base = worker.base
  BY <1>1 DEF EnsureCreated, Goto, Worker
<1>3. owned' = [owned EXCEPT ![worker.key] = "present"] \/ UNCHANGED owned
  BY DEF EnsureCreated
<1>4. Held(worker.key, worker.base)
  BY <1>1 DEF OrphanInv, WorkerTrusted
<1>5. UidsCreated'
  BY <1>1, <1>2 DEF OrphanInv, UidsCreated
<1>6. CacheTrusted'
  BY <1>1 DEF OrphanInv, CacheTrusted, Guarded, Held, SeesDeletion
<1>7. WorkerTrusted'
  BY <1>2 DEF WorkerTrusted
<1>8. NoOrphans'
  BY <1>1, <1>3, <1>4 DEF OrphanInv, NoOrphans, Held
<1>. QED
  BY <1>5, <1>6, <1>7, <1>8 DEF OrphanInv

(* The finalizer goes only when no resources are left, and when the cache  *)
(* knows of the deletion too, so that no later reconcile trusts it.        *)
LEMMA OrphanInvUninstall ==
  ASSUME TypeInv, OrphanInv, DeleteResources
  PROVE  OrphanInv'
<1>1. /\ UNCHANGED <<cache, created>>
      /\ worker.pc = "uninstall" /\ worker \in Worker /\ worker.key \in Clusters
      /\ owned \in [Clusters -> {"none", "present", "dying"}]
      /\ store \in [Clusters -> Cluster \cup {None}]
  BY DEF DeleteResources, At, TypeInv, TypeOK, WorkerShaped
<1>2. worker'.pc = "status" /\ worker'.base = worker.base
  BY <1>1 DEF DeleteResources, Goto, Worker
<1>3. WorkerTrusted'
  BY <1>2 DEF WorkerTrusted
<1>4. CASE /\ UNCHANGED store
           /\ \/ UNCHANGED owned
              \/ /\ owned[worker.key] # "none"
                 /\ owned' = [owned EXCEPT ![worker.key] = "dying"]
  <2>1. UidsCreated'
    BY <1>1, <1>2, <1>4 DEF OrphanInv, UidsCreated
  <2>2. CacheTrusted'
    BY <1>1, <1>4 DEF OrphanInv, CacheTrusted, Guarded, Held, SeesDeletion
  <2>3. NoOrphans'
    BY <1>1, <1>4 DEF OrphanInv, NoOrphans
  <2>. QED
    BY <1>3, <2>1, <2>2, <2>3 DEF OrphanInv
<1>5. CASE /\ owned[worker.key] = "none" /\ UNCHANGED owned
           /\ Current(worker.base)
           /\ store' = [store EXCEPT ![worker.key] = None]
  <2>1. UidsCreated'
    BY <1>1, <1>2, <1>5 DEF OrphanInv, UidsCreated
  <2>2. cache[worker.key] # None => ~Guarded(cache[worker.key])
    <3>1. store[worker.key] = worker.base /\ worker.base.deleting
      BY <1>1, <1>5 DEF Current, OrphanInv, WorkerTrusted
    <3>2. SeesDeletion(worker.key, worker.base.uid)
      BY <1>1, <3>1 DEF OrphanInv, WorkerTrusted
    <3>. QED
      BY <1>1, <3>1, <3>2 DEF OrphanInv, CacheTrusted, Guarded, Held, SeesDeletion
  <2>3. CacheTrusted'
    BY <1>1, <1>5, <2>2 DEF OrphanInv, CacheTrusted, Guarded, Held, SeesDeletion
  <2>4. NoOrphans'
    BY <1>1, <1>5 DEF OrphanInv, NoOrphans
  <2>. QED
    BY <1>3, <2>1, <2>3, <2>4 DEF OrphanInv
<1>. QED
  BY <1>4, <1>5 DEF DeleteResources

(* A status update touches the phase only.                                 *)
LEMMA OrphanInvStatus ==
  ASSUME TypeInv, OrphanInv, UpdateStatus
  PROVE  OrphanInv'
<1>1. /\ UNCHANGED <<cache, owned, created>>
      /\ worker.key \in Clusters /\ worker.base \in Cluster
      /\ worker.sc \in Cluster
      /\ store \in [Clusters -> Cluster \cup {None}]
  BY DEF UpdateStatus, At, TypeInv, TypeOK, WorkerShaped
<1>2. worker'.pc = "idle"
  BY DEF UpdateStatus, IdleWorker
<1>3. WorkerTrusted'
  BY <1>2 DEF WorkerTrusted
<1>4. CASE UNCHANGED store
  BY <1>1, <1>2, <1>3, <1>4 DEF OrphanInv, UidsCreated, CacheTrusted, NoOrphans,
     Guarded, Held, SeesDeletion
<1>5. CASE /\ Current(worker.base)
           /\ store' = [store EXCEPT ![worker.key].phase = worker.sc.phase]
  <2>1. PICK saved \in Cluster :
          saved = [worker.base EXCEPT !.phase = worker.sc.phase]
    BY <1>1, ClusterUpdates DEF Cluster
  <2>2. /\ saved.uid = worker.base.uid
        /\ saved.finalizer = worker.base.finalizer
        /\ saved.deleting = worker.base.deleting
    BY <1>1, <2>1 DEF Cluster
  <2>3. store[worker.key] = worker.base /\ worker.base # None
    BY <1>5 DEF Current
  <2>4. store' = [store EXCEPT ![worker.key] = saved]
    BY <1>5, <2>1, <2>3
  <2>5. saved # None
    BY ConstantsAssumption
  <2>6. UidsCreated'
    BY <1>1, <1>2, <2>2, <2>3, <2>4 DEF OrphanInv, UidsCreated
  <2>7. CacheTrusted'
    BY <1>1, <2>2, <2>3, <2>4, <2>5, CacheTrustedFrame DEF OrphanInv
  <2>8. NoOrphans'
    BY <1>1, <2>2, <2>3, <2>4, <2>5 DEF OrphanInv, NoOrphans
  <2>. QED
    BY <1>3, <2>6, <2>7, <2>8 DEF OrphanInv
<1>. QED
  BY <1>4, <1>5 DEF UpdateStatus

(* Filling the cache makes it exact.                                       *)
LEMMA OrphanInvSync ==
  ASSUME TypeInv, OrphanInv, Sync \/ Crash
  PROVE  OrphanInv'
<1>1. /\ UNCHANGED <<store, owned, created>>
      /\ cache' = store
      /\ UNCHANGED worker \/ worker'.pc = "idle"
  BY DEF Sync, Crash, IdleWorker
<1>2. UidsCreated'
  BY <1>1 DEF OrphanInv, UidsCreated
<1>3. CacheTrusted'
  BY <1>1 DEF CacheTrusted, Guarded, Held, SeesDeletion
<1>4. WorkerTrusted'
  BY <1>1 DEF OrphanInv, WorkerTrusted, Guarded, Held, SeesDeletion
<1>5. NoOrphans'
  BY <1>1 DEF OrphanInv, NoOrphans
<1>. QED
  BY <1>2, <1>3, <1>4, <1>5 DEF OrphanInv

(* A new object has a UID that no copy mentions.                           *)
LEMMA OrphanInvCreate ==
  ASSUME TypeInv, OrphanInv, NEW k \in Clusters, Create(k)
  PROVE  OrphanInv'
<1>1. PICK c : /\ store' = [store EXCEPT ![k] = c]
               /\ c.uid = created + 1 /\ ~c.finalizer /\ ~c.deleting
  <2>1. PICK m, v : store' = [store EXCEPT ![k] =
                      [uid |-> created + 1, deleting |-> FALSE,
                       finalizer |-> FALSE, mode |-> m, valid |-> v,
                       phase |-> ""]]
    BY DEF Create
  <2>. DEFINE new == [uid |-> created + 1, deleting |-> FALSE,
                      finalizer |-> FALSE, mode |-> m, valid |-> v,
                      phase |-> ""]
  <2>2. new.uid = created + 1 /\ ~new.finalizer /\ ~new.deleting
    OBVIOUS
  <2>3. store' = [store EXCEPT ![k] = new]
    BY <2>1
  <2>. HIDE DEF new
  <2>. QED
    BY <2>2, <2>3
<1>2. /\ UNCHANGED <<cache, owned, worker>>
      /\ store[k] = None /\ created' = created + 1
      /\ store \in [Clusters -> Cluster \cup {None}]
  BY DEF Create, TypeInv, TypeOK
<1>3. created \in Nat
  BY ConstantsAssumption DEF TypeInv, TypeOK
<1>4. /\ \A j \in Clusters : store[j] # None => store[j].uid \in Nat
      /\ \A j \in Clusters : cache[j] # None => cache[j].uid \in Nat
      /\ worker.pc # "idle" => worker.base.uid \in Nat
  <2>1. \A o \in Cluster : o.uid \in Nat
    BY DEF Cluster, UID
  <2>. QED
    BY <2>1 DEF TypeInv, TypeOK, WorkerShaped
<1>5. UidsCreated'
  BY <1>1, <1>2, <1>3, <1>4 DEF OrphanInv, UidsCreated
<1>6. \A j \in Clusters : cache[j] # None => cache[j].uid # created + 1
  BY <1>3, <1>4 DEF OrphanInv, UidsCreated
<1>7. worker.pc # "idle" => worker.base.uid # created + 1
  BY <1>3, <1>4 DEF OrphanInv, UidsCreated
<1>8. CacheTrusted'
  BY <1>1, <1>2, <1>6 DEF OrphanInv, CacheTrusted, Guarded, Held, SeesDeletion
<1>9. WorkerTrusted'
  BY <1>1, <1>2, <1>7 DEF OrphanInv, WorkerTrusted, Guarded, Held, SeesDeletion
<1>10. NoOrphans'
  BY <1>1, <1>2 DEF OrphanInv, NoOrphans
<1>. QED
  BY <1>5, <1>8, <1>9, <1>10 DEF OrphanInv

(* A deletion removes an object without the finalizer, which nobody        *)
(* trusts, or marks it, which nobody is harmed by.                         *)
LEMMA OrphanInvDelete ==
  ASSUME TypeInv, OrphanInv, NEW k \in Clusters, Delete(k)
  PROVE  OrphanInv'
<1>1. /\ UNCHANGED <<cache, owned, worker, created>>
      /\ store[k] # None /\ store[k] \in Cluster
      /\ store \in [Clusters -> Cluster \cup {None}]
  BY DEF Delete, TypeInv, TypeOK
<1>2. CASE store[k].finalizer
  <2>1. PICK c \in Cluster : c = [store[k] EXCEPT !.deleting = TRUE]
    BY <1>1, ClusterUpdates
  <2>2. c.uid = store[k].uid /\ c.finalizer /\ c.deleting /\ c # None
    BY <1>1, <1>2, <2>1, ConstantsAssumption DEF Cluster
  <2>3. store' = [store EXCEPT ![k] = c]
    BY <1>2, <2>1 DEF Delete
  <2>4. UidsCreated'
    BY <1>1, <2>2, <2>3 DEF OrphanInv, UidsCreated
  <2>5. CacheTrusted'
    BY <1>1, <2>2, <2>3, CacheTrustedFrame DEF OrphanInv
  <2>6. WorkerTrusted'
    BY <1>1, <2>2, <2>3
       DEF OrphanInv, WorkerTrusted, Guarded, Held, SeesDeletion
  <2>7. NoOrphans'
    BY <1>1, <2>2, <2>3 DEF OrphanInv, NoOrphans
  <2>. QED
    BY <2>4, <2>5, <2>6, <2>7 DEF OrphanInv
<1>3. CASE ~store[k].finalizer
  <2>1. store' = [store EXCEPT ![k] = None]
    BY <1>3 DEF Delete
  <2>2. UidsCreated'
    BY <1>1, <2>1 DEF OrphanInv, UidsCreated
  <2>3. CacheTrusted'
    BY <1>1, <1>3, <2>1 DEF OrphanInv, CacheTrusted, Guarded, Held, SeesDeletion
  <2>4. WorkerTrusted'
    BY <1>1, <1>3, <2>1 DEF OrphanInv, WorkerTrusted, Guarded, Held, SeesDeletion
  <2>5. NoOrphans'
    BY <1>1, <1>3, <2>1 DEF OrphanInv, NoOrphans
  <2>. QED
    BY <2>2, <2>3, <2>4, <2>5 DEF OrphanInv
<1>. QED BY <1>2, <1>3

(* An edit by a user leaves UID, finalizer and deletion mark alone.        *)
LEMMA OrphanInvEdit ==
  ASSUME TypeInv, OrphanInv, NEW k \in Clusters, Edit(k)
  PROVE  OrphanInv'
<1>1. /\ UNCHANGED <<cache, owned, worker, created>>
      /\ store[k] # None /\ store[k] \in Cluster
      /\ store \in [Clusters -> Cluster \cup {None}]
  BY DEF Edit, TypeInv, TypeOK
<1>2. PICK c \in Cluster :
        /\ store' = [store EXCEPT ![k] = c]
        /\ c.uid = store[k].uid /\ c.finalizer = store[k].finalizer
        /\ c.deleting = store[k].deleting
  <2>1. \A m \in Modes :
          LET c == [store[k] EXCEPT !.mode = m]
          IN /\ c \in Cluster
             /\ c.uid = store[k].uid /\ c.finalizer = store[k].finalizer
             /\ c.deleting = store[k].deleting
    BY <1>1 DEF Cluster
  <2>2. \A v \in BOOLEAN :
          LET c == [store[k] EXCEPT !.valid = v]
          IN /\ c \in Cluster
             /\ c.uid = store[k].uid /\ c.finalizer = store[k].finalizer
             /\ c.deleting = store[k].deleting
    BY <1>1 DEF Cluster
  <2>3. \/ \E m \in Modes : store' = [store EXCEPT ![k] = [store[k] EXCEPT !.mode = m]]
        \/ \E v \in BOOLEAN : store' = [store EXCEPT ![k] = [store[k] EXCEPT !.valid = v]]
    BY <1>1 DEF Edit, Modes
  <2>. QED
    BY <2>1, <2>2, <2>3
<1>3. c # None
  BY ConstantsAssumption
<1>4. UidsCreated'
  BY <1>1, <1>2 DEF OrphanInv, UidsCreated
<1>5. CacheTrusted'
  BY <1>1, <1>2, <1>3, CacheTrustedFrame DEF OrphanInv
<1>6. WorkerTrusted'
  BY <1>1, <1>2, <1>3 DEF OrphanInv, WorkerTrusted, Guarded, Held, SeesDeletion
<1>7. NoOrphans'
  BY <1>1, <1>2, <1>3 DEF OrphanInv, NoOrphans
<1>. QED
  BY <1>4, <1>5, <1>6, <1>7 DEF OrphanInv

(* Every step keeps the invariant.                                         *)
LEMMA OrphanInvStep == TypeInv /\ OrphanInv /\ [Next]_vars => OrphanInv'
<1>. SUFFICES ASSUME TypeInv, OrphanInv, [Next]_vars PROVE OrphanInv'
  OBVIOUS
<1>1. ASSUME NEW k \in Clusters, Reap(k) PROVE OrphanInv'
  <2>1. /\ UNCHANGED <<store, cache, worker, created>>
        /\ \A j \in Clusters : owned'[j] # "none" => owned[j] # "none"
    BY <1>1 DEF Reap, TypeInv, TypeOK
  <2>. QED
    BY <2>1 DEF OrphanInv, UidsCreated, CacheTrusted, WorkerTrusted, NoOrphans,
       Guarded, Held, SeesDeletion
<1>2. CASE UNCHANGED vars
  BY <1>2 DEF vars, OrphanInv, UidsCreated, CacheTrusted, WorkerTrusted,
     NoOrphans, Guarded, Held, SeesDeletion
<1>. QED
  BY <1>1, <1>2, OrphanInvGet, OrphanInvPhases, OrphanInvFinalizer,
     OrphanInvAnnotations, OrphanInvEnsure, OrphanInvUninstall,
     OrphanInvStatus, OrphanInvSync, OrphanInvCreate, OrphanInvDelete,
     OrphanInvEdit DEF Next, WorkerStep

(* Whatever users, faults and a lagging cache do, the resources the        *)
(* operator created are never left without a StorageCluster whose          *)
(* finalizer makes its deletion wait for them.                             *)
THEOREM ResourcesAreGuarded == Spec => []NoOrphans
<1>1. TypeInv /\ OrphanInv => NoOrphans
  BY DEF OrphanInv
<1>2. Init => TypeInv /\ OrphanInv
  BY TypeInvInit, OrphanInvInit
<1>3. TypeInv /\ OrphanInv /\ [Next]_vars => (TypeInv /\ OrphanInv)'
  BY TypeInvStep, OrphanInvStep
<1>. QED
  BY <1>1, <1>2, <1>3, PTL DEF Spec
=============================================================================
