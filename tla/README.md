# TLA+ models of the OCS operator

The OCS operator deploys and manages Ceph (through Rook) and NooBaa on
OpenShift, and can act as a storage *provider* to other clusters. This directory
holds models of its controllers and of its provider server, the TLC runs that
check them on small instances and proofs of their main safety properties.

## 1. Inventory

State marked *API* lives in Kubernetes resources, *memory* in the process.

| Component (source) | State | Operations | Hard behaviour |
|---|---|---|---|
| **Provider server, consumers** (`services/provider/server/{server,consumer}.go`) | API: StorageConsumers; memory: `nameByTicket`, `nameByUID` under one RWMutex | RPCs OnboardConsumer, AcknowledgeOnboarding, GetStorageConfig, OffboardConsumer, ReportStatus; rebuild at start | concurrent handlers release the lock before they call the API server; retries, lost replies, restarts; the controller writes the same status |
| **StorageCluster reconciler** (`controllers/storagecluster/{reconcile,uninstall_reconciler,storagecluster_controller}.go`, `controllers/util/clusters.go`) | API: StorageClusters (finalizer, annotations, phase), OperatorCondition; memory: the object being reconciled, informer cache | Reconcile: validate, elect, add finalizer, default annotations, create resources, uninstall, update status | the cache lags; writes conflict; users create, edit and delete meanwhile; crash between steps; deletion must end |
| **Resource managers** (`controllers/storagecluster/ceph*.go`, `storageclasses.go`, `volumesnapshotterclasses.go`, `noobaa_system_reconciler.go`, `external_resources.go`, `provider_server.go`, `kms_resources.go`, ...) | API: owned resources, status; memory: conditions, phase, mirror logging flag | `ensureCreated`, `ensureDeleted` of each, in a fixed order; status, metrics exporter, tools | partial failure, swallowed errors, requeue half way, what is read twice in one pass, expansion seen before Rook has begun, order of the uninstall |
| **Topology** (`controllers/storagecluster/topology.go`, `api/v1/topologymap.go`) | API: node labels, `status.nodeTopologies`, `status.failureDomain*` | failure domain, duplicate labels, rack assignment | nodes come and go between patches; the caches hide the last patches and the last status; the decision is remembered only at the end |
| **StorageConsumer controller** (`controllers/storageconsumer`) | API: StorageConsumer status, CephClient | phase 1 (CephClient), deletion | races with the server on status; reads `enable` before the deletion timestamp |
| **StorageClassRequest controller and claim RPCs** (`controllers/storageclassrequest`, `services/provider/server/storageclassrequest.go`) | API: StorageClassRequests, pools, subvolume groups, CephClients | Fulfill, Revoke, GetStorageClassClaimConfig; reconcile | capabilities are made before the pool's name is known; a claim made again meets the resources of its predecessor under its own names; one cache per kind |
| **OCSInitialization** (`controllers/ocsinitialization`) | API: singleton with flags, two config maps (one shared with the user), SCCs, monitoring; Rook's pod | reconcile, reconcile of strays | flags written after their effects; a restart of Rook lost in a crash; clusters change in the middle of a pass; reset by deletion |
| **Provider deployment and onboarding keys** (`provider_server.go`, `onboarding-validation-keys-generator`) | API: deployment, service, key secret, job | creation order, removal, key job | waits for an ingress and a replica; a job whose key is gone |
| **Metrics exporter** (`metrics/`) | memory of another process: stores filled by reflectors | collect | stores shared by several goroutines |
| **UX backend, namespace and platform helpers, tools, API types** | none of their own | - | - |

Interactions. Everything meets in the API server: users and administrators
create resources, the controllers reconcile them from informer caches, the
provider server writes StorageConsumers that the StorageConsumer controller
then configures, and Rook, NooBaa and the garbage collector act on what the
controllers create. There is no direct call between the components; the hazards
are therefore stale reads, conflicting writes, retries and crashes between
writes. `PROJECT.json` lists them one by one under `hazards`, each with its
line.

What makes the components correct:

* provider: a ticket onboards one consumer; no live consumer is missing from the
  maps; offboard deletes the consumer it was called for; configuration is handed
  only to acknowledged consumers; a consumer's phases follow each other lawfully, so
  that no heartbeat undoes what the controller wrote;
* reconciler: at most one internal and one external cluster are active; an
  ignored cluster stays ignored; resources never outlive the finalizer that
  guards them; a deletion that began ends;
* resource managers: Ready means that what the spec asks for is there, written
  for this spec and well; the uninstall never takes away what something that is
  still there needs (the keys of Ceph, the storage class of NooBaa), and the
  finalizer goes last; the pipeline settles;
* topology: racks keep to zones, there are enough of them, the failure domain in
  the status stays and pools that moved come back to it, a label in use stays in
  use, the status follows the nodes;
* claims: a request is Ready, and its configuration served, only with resources
  of its own; capabilities that name a pool are not blanked again while the
  namespace they name is there; every live claim is served in the end;
* OCSInitialization: both config maps follow the clusters, the controller leaves
  no tolerations of its own behind, Rook runs with the map as it is, holder pods
  of an upgraded cluster stay. (Tolerations of the user's are not safe from it, see
  section 5.)

## 2. Modules

| Module | Role |
|---|---|
| `ConsumerLifecycle` | abstract: the phases of one consumer, by UID |
| `ConsumerManager` | provider server handlers, maps, restart, environment |
| `StorageClusters` | the StorageCluster reconciler over a lagging cache, several clusters |
| `ClusterResources` | the objects each manager makes for a spec, and the orders of the managers |
| `ResourcePipeline` | one StorageCluster, manager by manager: extends `ClusterResources` |
| `Topology` | failure domain and racks over several reconciles |
| `StorageClassRequests` | one storage class claim: RPCs, controller with its caches, Rook and the garbage collector |
| `OCSInitialization` | the OCSInitialization controller and Rook's pod |
| `ConsumerManagerProofs`, `StorageClustersProofs`, `ResourcePipelineProofs`, `TopologyProofs`, `StorageClassRequestsProofs`, `OCSInitializationProofs` | their theorems |
| `ElectionProofs` | theorems about the election, on top of `StorageClustersProofs` |
| `DeliveryProofs` | theorems about what the pipeline delivers and takes down, on top of `ResourcePipelineProofs` |
| `MCConsumerManager`, `MCStorageClusters`, `MCResourcePipeline`, `MCTopology`, `MCStorageClassRequests`, `MCOCSInitialization` | TLC instances |

How they fit together. `ConsumerManager` implements `ConsumerLifecycle`; of a
StorageConsumer, `StorageClassRequests` keeps only whether it exists, and the
lifecycle says that one that is gone never comes back under its UID, which is
what `ConsumerGone` does. `StorageClusters` and `ResourcePipeline` are
the same reconcile seen at two grains. The first has several clusters, stale
caches, the races around the finalizer, and the managers as one step with the
outcomes they can have (an error, a skipped reconcile, a requeue, an expansion,
all clean, a negative condition); the second has one cluster that is active and
opens that step up: its outcomes are those of `Managed` and
`EvaluateConditions`. `Topology` opens up the one manager (`TopologyMap`) that
`ResourcePipeline` takes to be pure; it hands on a failure domain, which
decides no branch there.

### ConsumerManager

`store` holds the StorageConsumers by name; `nameByTicket` and `nameByUID` are
the manager's maps; `call[t]` is the frame of the handler in thread `t` (program
counter, RPC, name, ticket, UID, the object it read); `minted` are the UIDs in
use so far and `issued` those that clients were told. A handler's step is either
one section under the mutex or one call to the API server:

| Action | Code |
|---|---|
| `OnboardConsumer`, `CheckTicket`, `ApiCreate`, `Record`, `GetByName` | `OnboardConsumer`, `Create`, `GetByName` |
| `UidCall`, `Lookup`, `ApiGet`, `ApiUpdate` | `Get`, `EnableStorageConsumer`, `UpdateConsumerStatus` |
| `GetExternalResources` | the rest of `GetStorageConfig` |
| `ApiDelete`, `Forget` | `Delete`, and the not-found path of `Get` |
| `ApiFailed` | any error return of the API server |
| `Restart` | process end and `newConsumerManager` |
| `ControllerUpdatesState` | status update of the StorageConsumer controller |
| `CollectConsumer`, `AdminDelete` | garbage collector, administrator |

Abstractions. Tickets are those whose signature and expiry were accepted; the
refusals before any state is read are left out. `status.client` and the
heartbeat's time are left out: no guard reads them. The API server's version
check compares the whole record, so a resource that changed and changed back
is accepted, which allows more behaviours than the code. The controller's read
and write of the status are one step, for a stale write is refused.

### StorageClusters

`store` and `cache` are the StorageClusters in the API server and in the
informer cache (the store at an earlier moment), `worker` the reconcile in
progress (`sc` the object in memory, `base` the version its resourceVersion
names), `owned` the resources created for a cluster taken as a whole,
`upgradeable` the OperatorCondition.

| Action | Code |
|---|---|
| `GetStorageCluster` | `Reconcile`: fetch and `validateStorageClusterSpec` |
| `ReconcilePhases` | `GetClusters`, the election (`isActiveStorageCluster`), the branch on the deletion timestamp |
| `AddFinalizer` | the finalizer's update |
| `ReconcileUninstallAnnotations` | the default of the uninstall mode |
| `EnsureCreated` | the loop over the resource managers, phase and OperatorCondition |
| `DeleteResources` | `deleteResources`, removal of the finalizer |
| `UpdateStatus` | the status update at the end of `Reconcile` |
| `Crash`, `Sync`, `Create`, `Delete`, `Edit`, `Reap` | restart, watch, users, Rook and NooBaa |

Abstractions. Names are numbers in string order. The resource managers run in
one step with one of six outcomes (an error, a skipped reconcile, a
requeue, an expansion, all clean, a negative condition); `ResourcePipeline` has
them one by one. Owned resources are read as they are; only the StorageCluster
cache lags. The finalizers of others
are left out. Versions are compared by content, as above. A cluster that is
being deleted without the operator's finalizer does not exist in this model,
for the API server removes it at once. `Update` decodes the server's answer into
the object in memory; since an empty phase is omitted from the answer, it leaves
the phase in memory alone (`Answer`).

### StorageClassRequests

The names of a request and of its resources are hashes of the consumer's UID and
the claim's name. Different claims share nothing, so the module follows one claim:
`request` is the StorageClassRequest under its name, `part[p]` the CephClients
and the space (RADOS namespace or subvolume group) under theirs, `seenRequest`
and `seenPart` the controller's informer caches, `queued` the work queue,
`worker` the reconcile in progress, `config` the request a
GetStorageClassClaimConfig call works for. `dying` are the resources with a
deletion timestamp, which Rook's finalizer keeps; `lost` is history: live requests
whose namespace vanished and that no reconcile has found with another since.

| Action | Code |
|---|---|
| `FulfillStorageClassClaim`, `RevokeStorageClassClaim` | the RPCs with `storageClassRequestManager.Create`, `Delete` |
| `GetStorageClassClaimConfig`, `ReturnConfig` | the RPC up to the test of the phase, and its reads |
| `Reconcile`, `InitPhase`, `UpdateStatus` | `Reconcile`, `initPhase` |
| `CreateOrUpdate(p)` | `reconcilePhases` with `reconcileCephClient*`, `reconcileRadosNamespace`, `reconcileCephFilesystemSubVolumeGroup` |
| `Restart`, `SyncRequest`, `SyncParts(kind)` | start with `WaitForCacheSync`; watches and predicates of `SetupWithManager` |
| `CollectPart` | the garbage collector marks a resource whose owner is not live |
| `RookRemoves` | Rook takes its finalizer away, whoever owns the resource by then |
| `RookReady`, `RookFails`, `CollectRequest`, `AdminDelete`, `ConsumerGone` | Rook, garbage collector, administrator, offboarding |

Abstractions. The phases of a request are told apart only as Ready or not: the
others differ in the error a client gets. A resource is its owner, whether its
capabilities name the pool if they have to, and Rook's phase. A request made
again while resources of its predecessor are left takes them over, those on
their way out included: `SetControllerReference` compares owners by kind and
name, not by UID, and nothing looks at the deletion timestamp. Such a resource
vanishes later under its new owner. The two
CephClients are written one after the other by functions that differ only in the
capabilities they ask for; `CreateOrUpdate` takes them in either order, and the
space last. The
events of StorageClasses and VolumeSnapshotClasses, which queue a request as
well, are left out; no proof depends on what is queued. Versions are compared by
content, as above. Requests without an owner, which the code refuses, are never
made by the server.

### ClusterResources and ResourcePipeline

`ClusterResources` holds the data of the pipeline: for each manager an operator,
named after its `newX` function, that gives the objects it makes for a spec in
the order in which they are made (`NewStorageClassConfigurations`,
`NewCephBlockPoolInstances`, `NewMetricsExporter`, ...), the prerequisites and
strategies of storage classes, and the three orders of steps: `Managers` (by
mode), `Completion` (what follows the loop) and `UninstallOrder`.

`ResourcePipeline` runs them. `script` is the sequence of specs that one
StorageCluster is given in this behaviour, `gen` the generation it is at, `life`
whether it is live, deleting or gone, `status` its status; `written[o]` is the
generation of the spec an object was last written for (0 if it does not exist),
`dying` those with a deletion timestamp and a finalizer, `ready` those that
report to be ready; `ceph` the state of the CephCluster and `seen` the generation
Rook works on; `consumers`, `jobs` and `verbose` whether there are
StorageConsumers, how far the jobs for mirror logging are and what they did;
`logging` the reconciler's `rbdMirrorDebugLoggingEnabled`; `pass` the reconcile
in progress (steps ahead, the spec and status it read, `r.phase` and
`r.conditions`); `queued` whether the cluster is in the work queue. `passedOver`
and `disturbances` are history and bound.

| Action | Code |
|---|---|
| `Reconcile`, `ReconcileGone` | the start of a reconcile, with the spec it has read |
| `Ensure*` | `ensureCreated` of each manager, the restore loops with their strategies |
| `ResourceProfile`, `EvaluateConditions`, `EnableMetricsExporter`, `EnsureRbdMirrorDebugLogging`, `EnsureToolsDeployment`, `UpdateStatus` | `reconcilePhases` after the loop |
| `MarkCephCluster`, `SetNoobaaUninstallMode`, `Delete*`, `RemoveFinalizer` | `deleteResources`, in its order |
| `Crash`, failed calls (`Disturb`) | process end; an error returned by any call, in the middle of a loop too |
| `RookStarts`, `RookFinishes`, `RookUpdates`, `BecomesReady`, `FinalizerRemoved`, `CephFails` | Rook, NooBaa, the client operator, Kubernetes |
| `OnboardingJobDone`, `LoggingJobDone` | the jobs |
| `EditSpec`, `DeleteStorageCluster`, `Onboard`, `Offboard` | administrators, consumers |

Every manager returns through `Managed`: go on, wait, skip or fail, with the
phase `reconcilePhases` gives it. The outcome "skipped" of the storage classes is
that of their sentinel error. An event puts the cluster into the queue exactly
for the kinds `SetupWithManager` watches (`Watched`).

Abstractions. The content of an object is the generation of the spec it was
written for; no branch of a manager depends on more, except on being ready or
marked. Groups of objects that one manager makes in one go and that
no other step tells apart are one object (`NonResilientPools`, the exporter's
roles). One manager is one step, in which any prefix of its writes may have
happened when a call fails. A storage class that is there already is deleted and
made again, and gone if the pass fails in between; whether its Parameters differ,
which the code asks first, depends on content that is left out, so either may be.
The pass reads objects as they are. `ceph` is read
anew in each step, as the code does, so that it may change between two steps of
one pass. The election, and that the finalizer is there before the first
manager runs, are those of `StorageClusters`. Scripts keep the mode, as a
deployed cluster that is turned into another kind is not modelled, and an
encrypted cluster has its keys before its first spec (`ScriptAssumption`).

### Topology

`nodes` are the nodes for storage with their labels (zone, by which of the three
keys, rack), `recent` those whose rack the cache may not show yet, `status` the
topology in the StorageCluster's status, `seen` the copy of it the reconciles saw
last, `pools` the failure domain the CephCluster and pools were made for, `pass`
the reconcile in progress (`read`, the copy it works on, the nodes as listed, racks
given out, nodes still to do). `spoiled` and `foreign` are history:
racks that users or a stale cache mixed, and whether the operator alone labelled
the nodes.

| Action | Code |
|---|---|
| `ReconcileNodeTopologyMap` | listing, `filterDuplicateLabels`, `setFailureDomain` |
| `EnsureNodeRack` | one turn of `ensureNodeRacks`: `determinePlacementRack`, patch |
| `Deploy` | the managers that use the failure domain |
| `WriteStatus` | the status update at the end of `Reconcile`, a conflict if the copy was not the last |
| `Crash` | process end; the copies are filled anew |
| `NodeJoins`, `NodeLeaves`, `NodeReplaced`, `NodeRelabelled`, `NodesRelabelled` | administrators, Kubernetes |

Abstractions. A reconcile reads the status as it is; that a cache has not caught
up, with the status or with patches, costs a disturbance. The copy of the
StorageCluster is then the one read last: as a status update from an older copy
is a conflict, the copy is never more than one version behind. Labels for
regions are treated like those for zones and decide nothing. Go's map order is a
choice (`KeyValues`, the order of nodes). Rack names are numbers in alphabetical
order, those of the form `rack<number>` first; there are `OperatorRacks` of
these, and `EnsureNodeRack` waits when they run out (bound). Node affinity and
device sets are functions of one spec and left out.

### OCSInitialization

`fleet` are the StorageClusters as `GetClusters` lists them, `hcp` the platform,
`ocsinit` the OCSInitialization with the flags of its status, `stray` one of
another name, `objects` what it owns, `csv` the Prometheus operator, `tolerations`
those in `rook-ceph-operator-config`, `config` the `ocs-operator-config`, `rook`
the data Rook's pod was started with, `pass` the reconcile in progress (steps
ahead, the clusters listed at its start, the flags in memory), `queued` the work
queue. `unrestarted` and `unflagged` are history: a lost restart, lost flags.

| Action | Code |
|---|---|
| `Reconcile`, `IgnoreStray` | `Reconcile` for `ocsinit` and for any other name |
| `EnsureSCCs`, `SCCStatus` | `ensureSCCs` and the status update after it |
| `EnsureRookCephOperatorConfigExists` | the shared map: tolerations and flags |
| `EnsureOcsOperatorConfigExists`, `RestartPod` | the controller's map and the restart of Rook |
| `ReconcileObject`, `ReconcilePrometheusOperatorCSV` | UX backend and monitoring objects, CSV |
| `Complete` | the status at the end |
| `Crash`, failed calls | process end; an error of any call |
| `RookPodStarts`, `CollectGarbage`, `InstallCSV`, `EditFleet`, `UserSetsTolerations`, `DeleteInit`, `CreateStray`, `DeleteStray` | Deployment, garbage collector, OLM, users |

Abstractions. Tolerations are members of a small set. What the user has set is
overwritten when clusters have tolerations, and the whole key is deleted when they
have none any more, as in `updateTolerationsConfigFunc`. Of a cluster only what the
maps depend on is kept. Objects are made by one step that differs in the name
only. That a call fails includes that a conflicting write is refused.

## 3. Runs

| Run | Checks | Bounds |
|---|---|---|
| `consumers` | `TypeOK`, `CacheAccountsForStore`, `TicketsAccountedFor`, `ConfigOnlyAfterAcknowledge`, and `ImplementsLifecycle` (refinement of `ConsumerLifecycle`) | two names, two tickets, two UIDs, two handlers, replies delivered |
| `clusters` | `TypeOK`, `NoOrphans`, `OneActivePerKind`, `IgnoredStaysIgnored` | two internal clusters in one namespace, three creations, one disturbance, all outcomes |
| `uninstall` | `UninstallCompletes`, under fairness | one external cluster, two creations, three disturbances |
| `pipeline` | `TypeOK`, `ReadyMeansDelivered`, `ReadyMeansHealthy`, `NooBaaHasItsStorageClass`, `ClassOutlivesNooBaa`, `KMSOutlivesCeph`, `FinalizerWaits` | seven scripts, with or without a dying pool of an earlier cluster, one disturbance in four of them; 1.4 million states |
| `pipeline_settles` | `Converges`, `UninstallCompletes`, under fairness | four scripts, one disturbance in two of them |
| `topology` | `TypeOK`, `RacksKeepZones`, `EnoughRacks`, `DomainKept`, `ZoneKeyKept`, `ValuesSettle` (fairness) | seven starts with up to four nodes, three zones, five racks of the operator's and one of the user's, one edit, one disturbance; 0.4 million states |
| `claims` | `TypeOK`, `ReadyMeansOwned`, `ServedIsCurrent`, `CapsKept` | one claim of type blockpool, two requests for it in turn, one CephClient, one disturbance; 5.4 million states |
| `claim_served` | `ClaimServed`, under fairness | one request of either type, one CephClient, one disturbance; 0.9 million states |
| `initialization` | `TypeOK`, `ConfigFollowsClusters`, `TolerationsFollowClusters`, `RookRunsConfig`, `ReadyMeansComplete`, `HolderPodsKept`, `Settles` (fairness) | a plain internal cluster, or a rich one with an external one; both platforms; two edits, one disturbance; 0.6 million states |

Consumers. Two handlers are enough for every race over one lock and one
resource in this code, as each handler holds at most one name or UID across a
release of the lock. With two names, tickets and UIDs a ticket is used under two
names, and a name is onboarded again while an old handler still holds its
earlier UID; the theorems cover larger instances.

Clusters. Two clusters are enough for a precedence between a new and an existing
one; the third creation recreates a name whose old copy is in the cache or in the
worker. Disturbances (crashes, failed calls, edits) are bounded because each may
strike at any step; one already yields every partial sequence of writes. The
liveness run leaves out the outcome `expanding`, which is not possible for an
external cluster, and allows three disturbances in a row. The names and creation
seconds of the run `clusters` are distinct and its specs valid, which is what the
theorems about the election assume; section 5 says what happens otherwise.

Pipeline. The scripts of `pipeline` are the seven lives of a cluster in which
its branches differ: `Full` (encrypted, NFS, mirroring, quota, non-resilient
pools, backing classes, tools), `NoMoreProvider` (a provider that stops being one),
`NoMoreMirroring` (mirroring switched off, devices added), `Adopted` (strategy
init, then manage), `HandsOff` (strategy ignore), `Outside` (external),
`OnlyNooBaa` (standalone). Each of them may be deleted at any time. One
disturbance is allowed in `Full`, `HandsOff`, `Outside` and `OnlyNooBaa`, so in
each mode, and every manager and every deletion meets one at each of its calls;
the others have two specs and are explored without. The scripts of
`pipeline_settles` are a plain internal cluster, a provider behind a load
balancer, an external and a standalone one, with a fault in the first and the
last.

Topology. The seven starts are three nodes without zones; three in two zones;
three of which one is in the user's rack; three in three zones by the old labels; an
arbiter cluster with two and two; flexible scaling; and a single node. Four
nodes leave one that joins or takes the place of another. Larger fleets are
covered by the theorems.

Claims. Two requests in turn let the second meet resources and cached copies of
the first, and take over some that are on their way out. `claim_served` has one
request, so no takeover: that a namespace lost to one is made again and found is
not checked there. One CephClient stands for both in the runs of claims: each is written
from the same copy of the request and no step reads one to write the other. The
proofs hold for any number of CephClients and requests, and for both types.

Initialization. The edits let a cluster come, go or change to one that differs in
everything the maps depend on, users set tolerations, and ocsinit be deleted; two
of them let a change come back. One disturbance strikes at every step.

Deadlock is checked in the runs of `ConsumerManager` and `StorageClusters`:
requests, restarts and the watch always remain possible. The others may come to
rest when nothing is queued and nobody acts, which is what `Converges`, `Settles`
and `ValuesSettle` ask for, and do not check it.

Runs that exhibit a disagreement between the code and what a comment or a test
says of it (details and quotations in `PROJECT.json`, `findings`):

| Run | Property violated | What happens |
|---|---|---|
| `ticket_race` | `OneConsumerPerTicket` | two handlers pass the ticket check before either records it |
| `external_hash` | `ExternalDelivered` | the secret's hash is recorded, then a resource of the external cluster fails; no later reconcile makes it, and the cluster is Ready |
| `expansion` | `ExpandingUntilUpdating` | a cluster that expands is Ready before Rook has looked at the new device sets |

### Fairness

`StorageClusters!FairSpec` assumes that a reconcile in progress goes on (weak
fairness of `WorkerStep`), that the watch delivers (weak fairness of `Sync`), that
what is asked to go goes (weak fairness of `Reap`), and that every cluster is
taken up again and again (strong fairness of `GetStorageCluster(k)`, as the one
worker is not continuously idle). The last is justified by the work queue: it is
first-in first-out with `MaxConcurrentReconciles` at its default of one; a
deletion is an event, an error requeues with back-off, and an unfinished
uninstall asks to be requeued. Nothing is assumed of users or of the API
server's success: failures are bounded by `MaxDisturbances` only, so a deletion
that ends does so once the faults stop.

`ResourcePipeline!Spec` makes the queue explicit and assumes only that a pass in
progress goes on and what is queued is taken (weak fairness of `Controller`), that
Rook, NooBaa and Kubernetes act (`Operators`), jobs end (`Jobs`) and consumers
leave when the cluster is deleted or stops being a provider (`Offboard`). Whether
an event or a retry puts the cluster into the queue again is part of the
actions, and `Converges` says that they suffice.

`StorageClassRequests!FairSpec` assumes weak fairness of the worker, of each
informer's watch, of Rook (a resource becomes ready, a finalizer is taken away) and
of the garbage collector; again the queue is part of the actions, and `ClaimServed` says
that its events suffice.

`OCSInitialization!Spec` assumes weak fairness of the controller and strong
fairness of `IgnoreStray`, as two names share one first-in first-out queue; and
that Rook's pod starts, garbage is collected and OLM installs the CSV.

`Topology!Spec` assumes weak fairness of `Reconcile`: nodes are not watched, but
the StorageCluster is reconciled for every status change of its CephCluster, which
carries the time of Rook's last check.

## 4. Proofs

Checked by TLAPS for every value of the constants that satisfies the named
assumptions of the module (`ConstantsAssumption`, `PipelineAssumption`,
`ScriptAssumption`, `PlatformAssumption`, `TopologyAssumption`,
`InitializationAssumption`): types of the parameters; absent values are
distinct from real ones; timestamps follow the order of creation; internal
clusters are listed first; a script keeps its mode and has its keys; clusters are
finitely many, and so are the values `replicas` may have.

| Theorem | States | Argument |
|---|---|---|
| `ConsumerManagerProofs!TypeCorrect` | `Spec => []TypeOK` | with `CallsShaped`: what a handler has set by the time it reaches a step |
| `ConfigServedToEnabled` | `Spec => []ConfigOnlyAfterAcknowledge` | `ConsumerInv` |
| `ImplementsConsumerLifecycle` | `Spec => ImplementsLifecycle` | `ConsumerInv`; each step is one step of one consumer or a stutter |
| `MapsAccountForStore`, `TicketsAreAccountedFor` | with `LostReplies = FALSE`, `Spec => []CacheAccountsForStore`, `Spec => []TicketsAccountedFor` | `AccountInv` on top of `ConsumerInv` |
| `StorageClustersProofs!TypeCorrect` | `Spec => []TypeOK` | |
| `ResourcesAreGuarded` | `Spec => []NoOrphans` | `OrphanInv` |
| `ElectionProofs!ElectionIsExclusive` | with `DecidableElection`, `Spec => []OneActivePerKind` | `ElectionInv` on top of `OrphanInv` |
| `IgnoredForGood` | with `DecidableElection`, `Spec => IgnoredStaysIgnored` | the same |
| `PipelineTyped` | `Spec => []TypeOK` | one lemma per manager on what it writes and how its pass goes on |
| `KMSOutlivesCephHolds` | `Spec => []KMSOutlivesCeph` | `KeyInv` |
| `ReadyMeansHealthyHolds` | `Spec => []ReadyMeansHealthy` | `HealthInv` on top of `KeyInv` |
| `DeliveryProofs!ReadyMeansDeliveredHolds` | with `SnapshotsManaged`, `NothingAdopted`, `Spec => []ReadyMeansDelivered` | `DeliveryInv` |
| `NooBaaHasItsStorageClassHolds` | with `NooBaaStaysManaged`, `ClassStaysWanted`, no NooBaa left behind, `Spec => []NooBaaHasItsStorageClass` | `NooBaaInv`, `ClassThere` |
| `ClassOutlivesNooBaaHolds` | with the same, `Spec => ClassOutlivesNooBaa` | the same |
| `FinalizerWaitsHolds` | with `NooBaaStaysManaged`, `TracedWithCeph`, nothing left behind that the uninstall waits for, `Spec => []FinalizerWaits` | `TeardownInv` on top of `NooBaaInv` |
| `TopologyTyped` | `Spec => []TypeOK` | with `Shaped`: the pass in progress |
| `RacksKeepZonesHolds` | `Spec => []RacksKeepZones` | `Inv` of the module |
| `DomainKeptHolds`, `ZoneKeyKeptHolds` | `Spec => DomainKept`, `Spec => ZoneKeyKept` | the same |
| `EnoughRacksHolds` | `Spec => []EnoughRacks` | `RackInv` on top of `Inv` |
| `StorageClassRequestsProofs!TypeCorrect` | `Spec => []TypeOK` | with `WorkerShaped` |
| `ReadyRequestsOwnTheirResources` | `Spec => []ReadyMeansOwned` | `OwnerInv` |
| `NoStaleConfigIsServed` | `Spec => []ServedIsCurrent` | `OwnerInv` |
| `CapabilitiesAreKept` | `Spec => CapsKept` | `CapsInv` on top of `OwnerInv` |
| `InitializationTyped` | `Spec => []TypeOK` | |
| `ConfigFollowsClustersHolds`, `TolerationsFollowClustersHolds`, `RookRunsConfigHolds`, `ReadyMeansCompleteHolds`, `HolderPodsKeptHolds` | the properties of that name | `Inv` of the module |

`ConsumerInv`. That a served consumer is enabled needs that the *state* Ready
implies `enable` in the store, which in turn needs that a handler's stale status
write hits the very version it was read from. The refinement needs that a UID
belongs to one resource (`UidsGivenOnce`) and that the map and the handlers never
hold the wrong name for a UID whose resource exists (`NamesOfUids`).

`AccountInv`. Neither map is correct by itself while a handler is between the
API server and the lock: the invariant says that such a handler holds the UID
and the ticket of the resource it created, and that a handler about to drop a
UID has seen its resource on the way out. A lost reply breaks it (section 5),
hence the assumption.

`OrphanInv`. `NoOrphans` is not inductive, as `EnsureCreated` acts on a copy: the
invariant says which facts of a copy, however old, are still true in the API
server. An object seen with the finalizer and without a deletion timestamp is
still there with the finalizer, since only the uninstall removes it and only
from an object whose deletion was seen; a deletion that was seen is not taken
back. The worker and the cache each hold only such copies.

`ElectionInv`. That of two clusters in conflict one is active is decided from a
cache, and written later. `Precedence` says that a cluster that has been through
a won election has the older ones, in the store as in the cache, Ignored;
`CacheDecided` and `WorkerDecided` that this is not taken back by a copy that is
late. It rests on the cache being a single watch: what is older than something it
shows, it shows as well (`CacheCovers`). `DecidableElection` has three parts, and
TLC finds a counterexample without any one of them: a cluster with an invalid
spec is reported as Error without an election; of two clusters created in one
second the name decides, whichever was seen first; and two clusters of one name,
in different namespaces, exclude each other even after one has won. None of them
is assumed by the program, so section 5 lists them as behaviours of it. That
clusters are finitely many gives the greatest UID in a cache.

`OwnerInv`. UIDs grow with the requests made, and so does everything the
controller knows: its cache is never behind the worker, no resource has an owner
later than either, and no cached resource has one later than the resource itself
(`OwnersKnown`). Hence, when `CreateOrUpdate` skips a write because the cached copy is as
it should be, the resource cannot belong to an earlier request, nor to a later
one; and once a request is Ready the controller does not fall back behind it
(`KnowsReady`), so that nothing is given back to a predecessor.

`CapsInv`. The RADOS namespace of a live request is not collected, and vanishes only
if it was taken over on its way out, which puts the request into `lost`; otherwise
a cache that once shows it always will, restarts included (`SpaceStays`).
Capabilities name the pool only when it was shown (`PoolKnown`), and a worker that
may rewrite them then found it too (`FoundStays`).

`KeyInv`. That keys outlive Ceph is a matter of order within one pass of the
uninstall, of what happens when it is interrupted, and of passes that work on an
old copy. `DeletedInOrder` says that a pass that deletes has the step for the
keys only after that for the CephCluster, is past the latter only if the
CephCluster is gone, and runs only if the cluster is no longer live;
`NoKeysNoCeph` that without keys there is no CephCluster and no pass that would
make one again.

`HealthInv`. A pass reads the state of Ceph in three places, Ceph may fail, the
spec change and NooBaa go between them, and the phase is written last. The
invariant says what an undisturbed pass knows (`PassKnows`): as long as nothing was
queued, so that no event was seen since the pass began, what it has looked at and
not found wanting is well. It needs the order of the steps that are left
(`LiveShape`), and that the states of an external Ceph do not occur otherwise
(`CephStateFits`).

`DeliveryProofs`. All its theorems rest on one summary of the managers: each of
them writes some objects, deletes others and passes over the rest (`Effect`), of
which its step decides what they may be, and everything else leaves objects alone
but for those that are marked (`WorkMove`, `UninstallMove`, `AroundMove`).
`Ordered` keeps the steps ahead of a pass in the order of the code.

`DeliveryInv`. As long as nothing was queued since the pass began, everything that
the steps it is past owe the spec is done, and is not about to vanish unseen
(`Delivered`). Later managers, Rook and the garbage collector then either leave
it alone or queue the cluster again. The phase does not even matter: any pass that
ran to its end without an error has delivered. `SnapshotsManaged` (no managed
snapshot class is listed after one that is only initialised) and `NothingAdopted`
(a strategy "init" is not content with a dying, unwatched object of an earlier
cluster) are needed, for the code does otherwise; see section 5.

`NooBaaInv`, `TeardownInv`. NooBaa exists only while the spec that is in force, or
was when the pass read it, manages it (`NooBaaManaged`), so that no uninstall
passes it over; an uninstall is past a step that waits only when its object is
gone (`AwaitedGone`); where NooBaa is about to be made in this pass, the class is
there (`ClassFirst`), and where NooBaa is, the class is there or a pass that makes
it is to come (`ClassThere`): only a pass that gives up loses the class, and it
goes back into the queue. For the finalizer: what Rook takes down has a
CephCluster beside it (`TracedNeedCeph`, `CephComesFirst`), that one is marked in
an uninstall only (`MarkedLast`), and what is gone in an uninstall does not come
back (`GoneForGood`). The hypotheses say that a script does not switch NooBaa from
managed to ignored (`NooBaaStaysManaged`) or start to ask for the class later
(`ClassStaysWanted`), that a cluster with a CephCluster of somebody else has none of
the pools and mirrors that an uninstall may leave (`TracedWithCeph`), and that
nothing of the kind is left of an earlier cluster. The hypotheses of all these
theorems hold of the scripts and leftovers of the runs `pipeline` and
`pipeline_settles`.

`Topology`. The racks in memory hold at least the nodes that have them, and no rack
gets a node of another zone than it holds, as far as the list in memory is true; a
node whose labels changed since, or whose patch the cache hid, is accounted for by
`spoiled`. Every copy of the status has the failure domain of the status or none
(`CopyFits`), so a pass whose copy has one keeps it, and one whose copy has none is
refused its update if the status has one by then (`PassFits`). `KeepsKey` says how
the key that a pass is to write follows from that of its copy.

`RackInv`. Counting racks by itself is not inductive, as the last of several nodes
might have joined a rack of another. `Spread` says that while there are fewer
racks than needed no two of the nodes done share one: a new node then gets a
rack of its own, or the one with the fewest nodes, which is one without any. So
when every node is done there are as many racks as nodes, or enough of them; and racks
are given out only to enough nodes.

`OCSInitialization`. `Current`: as long as nothing is queued, the clusters have not
changed since the pass listed them, and everything the pass is past is in place;
idle, everything is. With `FlagsFit` (tolerations of the controller's are flagged,
in the status or in memory, or the flag is lost), `RookFits` (Rook runs with the
map, or the pass is about to restart it, or a restart was lost) and `LastComplete`
(the pass ends with the status update).

Only model-checked: the liveness properties (`UninstallCompletes` of both modules,
`Converges`, `ClaimServed`, `Settles`, `ValuesSettle`), which need fairness and
`ENABLED`. Every invariant and every action property that a passing run checks is
proved as well.

## 5. What the models show besides

Behaviours that the models allow and no run is devoted to; the properties above are
stated so that they except exactly these, or the constants rule them out.

* A UID obtained through the retry path can be offboarded before the creating
  handler has entered it in the map, which reports success and deletes nothing
  (`consumer.go:110`). If the reply to Create itself is lost (`LostReplies = TRUE`),
  nothing ever enters it before a restart (`consumer.go:87`).
* `Delete` looks a name up by UID and deletes by name: if the consumer was
  deleted and its name onboarded again in between, the new one goes
  (`consumer.go:128`).
* Two clusters created within one second (`Second <- SameSecond`) can both become
  active when the second is decided from a cache that lags (`reconcile.go:749`).
* An ignored cluster whose spec fails validation (`InvalidSpecs = TRUE`) leaves the
  Ignored phase, and is deployed once mended (`reconcile.go:245`).
* Two StorageClusters of one name in different namespaces, one of them external,
  exclude each other for as long as both exist (`reconcile.go:715`). The older one
  is ignored although it has won before, and wins again after a deletion that the
  cache has not shown yet, over a status that says Ignored.
* A cluster that is deleted when it has the finalizer and no phase yet is ignored
  for ever with the finalizer in place (`reconcile.go:309`). `UninstallCompletes`
  is about clusters that were active.
* An uninstall mode set between the two reads of
  `reconcileUninstallAnnotations` is replaced by the default
  (`uninstall_reconciler.go:262`).
* A cluster that was Ready and falls into Error leaves the OperatorCondition as it
  was (`reconcile.go:464`).
* The loop over the snapshot classes ends at the first one that exists and is only
  initialised (`volumesnapshotterclasses.go:121`), so managed ones after it are
  not brought up to date; the one over the storage classes goes on with the next
  (`storageclasses.go:215`). Hence `SnapshotsManaged`.
* A filesystem that cannot be read is passed over, but its default subvolume group
  is made all the same (`cephfilesystem.go:97`).
* A strategy "init" is content with an object that is marked for deletion. If an
  object store is left of an earlier cluster, the new one becomes Ready and the
  store vanishes later with no event, as it is not watched. Hence `NothingAdopted`.
* NooBaa that was managed and then ignored is left behind by an uninstall. Beside a
  CephCluster with strategy "ignore", which nothing waits for, so are
  non-resilient pools that were switched off before. An uninstall marks a mirror
  without waiting for it, and with a dying CephCluster of an earlier cluster the
  finalizer goes while there are mirrors. Hence the hypotheses of
  `FinalizerWaitsHolds`.
* A storage class whose Parameters changed is deleted and then made again; if that
  fails, or the operator crashes, NooBaa is without it until the next pass
  (`storageclasses.go:225`). Only differences in Parameters count: an annotation
  that changed is never delivered (`storageclasses.go:221`).
* A claim made again takes over resources of its predecessor that are on their way
  out (`storageclassrequest_controller.go:651`). If the capabilities name a namespace
  that then vanishes, the next reconcile blanks them
  (`storageclassrequest_controller.go:470`, `:506`) until the namespace made again is
  found; `CapsKept` excepts exactly this.
* Two clusters that become ready in turn may each be decided from a list that shows
  the other as not ready; nothing reconciles either for it, and the operator stays
  not upgradeable (`reconcile.go:513`). The models have no events between clusters.
* Mirroring switched off and on again in one process leaves mirror logging off: the
  finished job of before counts (`cephrbdmirrors.go:171`).
* With the filesystem's strategy "ignore" a changed resource profile never counts
  as applied (`resourceprofile.go:24`).
* A reconcile that determines the failure domain "zone" while no node has a zone
  label leaves the bare name as the key, and later ones discard the new label
  (`topology.go:319`); `ValuesSettle` excepts it.
* A reconcile whose cached StorageCluster does not show the failure domain yet
  (`reconcile.go:149`), or that follows one whose status update was lost, determines
  it anew from the nodes of the moment (`topology.go:76`) and moves the pools to it
  (`cephblockpools.go:159`). Its status update is then a conflict, and the next
  reconcile moves them back; `DomainKept` allows it to a pass that read no domain
  only, `ValuesSettle` asks for the way back.
* Where nodes have both old labels for the zone, the key in the status goes from one
  to the other with the order of a Go map (`topologymap.go:69`); `ZoneKeyKept`
  names this exception.
* `updateTolerationsConfigFunc` (`ocsinitialization_controller.go:390`) writes the
  clusters' tolerations over those the user has set in `rook-ceph-operator-config`,
  and deletes the key with them later. The comment above its caller says "We don't
  reconcile it if it exists as it can reset any values the user has set" (`:342`),
  and that the map is "semi-reserved for any user overrides" (`:340`).
  `TolerationsFollowClusters` is about the controller's tolerations only.
* A pass of OCSInitialization that fails between the tolerations and its end loses
  their flag, and they stay (`unflagged`); a crash or failed call between the map
  and the restart loses the restart (`unrestarted`).

## 6. Plan

Done: items 1, 3 and 5 of the first plan (the consumer manager, reconciler and
claims; the pipeline of managers with expansion, external mode and NooBaa;
OCSInitialization and topology) with their proofs. What could follow:

1. `StorageConsumers`, the StorageConsumer controller with its CephClient and
   events, composed with `ConsumerManager` (an enabled consumer is eventually Ready).
2. The events between clusters and the OperatorCondition of several of them.
3. An abstract specification of a claim (absent, pending, served, going) that
   `StorageClassRequests` implements.
4. Informer caches per owned kind in `ResourcePipeline`.
5. The stores of the metrics exporter; rotation of onboarding keys.
6. Theorems: a request that is not live loses its resources, and other
   properties of several clusters, once items 1 to 3 are modelled.

## 7. Not modelled

* The StorageConsumer controller's CephClients and deletion: only its status update
  is an action of `ConsumerManager`. They are made the way those of claims are.
* The metrics exporter's own process: stores filled by reflectors and collectors
  that format what they read. Its deployment is part of the pipeline.
* Node affinity, tolerations and device sets (`placement.go`, the content of
  `newCephCluster`): functions without state of one spec; the content of every
  object, likewise.
* Rotation of onboarding keys, the UX backend's handlers (key files, cryptography
  and HTTP without state of their own), the namespace label and the
  platform lookup (one write, one cached read).
* Generated code (`*.pb.go`, deepcopy, clients), vendored code, the deployment and
  bundle tools (`tools/`, `hack/`, `deploy/`, `pkg/deploy-manager`), functional
  tests, templates and Prometheus rules (data).

Three kinds of claim are outside the prover used here and stay with TLC: liveness
under fairness, `ENABLED`, and results of recursion over data.
