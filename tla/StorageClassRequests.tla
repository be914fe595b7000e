------------------------ MODULE StorageClassRequests ------------------------
(***************************************************************************)
(* One storage class claim of a consumer: the provider server that creates *)
(* and deletes the StorageClassRequest for it and serves its configuration *)
(* (services/provider/server), and the controller that creates two         *)
(* CephClients and a RADOS namespace or subvolume group for the request    *)
(* (controllers/storageclassrequest).                                      *)
(*                                                                         *)
(* Every name is a hash of the consumer's UID and the claim's name: claims *)
(* share no resource, and a request that is made again after a deletion    *)
(* meets the resources of its predecessor under the names of its own.      *)
(***************************************************************************)
EXTENDS Naturals

CONSTANTS
  MaxRequests,      \* bound: requests made in a behaviour; numbers the UIDs
  Types,            \* spec.type of the requests that clients ask for
  Clients,          \* the CephClients of a request: provisioner and node
  MaxDisturbances,  \* bound: crashes, failed calls, Rook failures, and
                    \* the offboarding of the consumer
  None              \* no resource

UID == 1..MaxRequests

(* ready: is status.phase Ready?  The other phases (Initializing, Creating, *)
(* Deleting) are told apart by nothing but the error a client gets.        *)
Request == [uid: UID, type: Types, deleting: BOOLEAN, ready: BOOLEAN]

(* A GetStorageClassClaimConfig call goes by the name and type it read.     *)
Call == [uid: UID, type: Types]

Parts == Clients \cup {"namespace", "group"}

(* The kind of space that a type of request gets.                          *)
Space(type) == IF type = "blockpool" THEN "namespace" ELSE "group"
PartsOf(type) == Clients \cup {Space(type)}

(* A CephClient, RADOS namespace or subvolume group.  pool: a CephClient's *)
(* capabilities name the block pool, if they have to; ready: the phase     *)
(* Rook reports.                                                           *)
Part == [owner: UID, pool: BOOLEAN, ready: BOOLEAN]

ASSUME ConstantsAssumption ==
  /\ MaxRequests \in Nat
  /\ Types \subseteq {"blockpool", "sharedfilesystem"}
  /\ Clients \cap {"namespace", "group"} = {}
  /\ MaxDisturbances \in Nat
  /\ None \notin Request
  /\ None \notin Call
  /\ None \notin Part

VARIABLES
  request,       \* the StorageClassRequest
  part,          \* the Ceph resources made for it
  seenRequest,   \* the controller's cache of StorageClassRequests
  seenPart,      \* its caches of CephClients, and of namespaces and groups
  queued,        \* is the request in the work queue?
  worker,        \* the reconcile in progress
  config,        \* a GetStorageClassClaimConfig call in progress
  consumer,      \* does the StorageConsumer exist?
  made,          \* number of requests made
  disturbances,  \* number of disturbances
  dying,         \* the resources with a deletion timestamp, which Rook's
                 \* finalizer keeps until Rook is done with them
  lost           \* history: live requests whose namespace vanished and that
                 \* no reconcile has found with another one since

controller == <<seenRequest, seenPart, queued, worker>>
deletions == <<dying, lost>>
vars == <<request, part, controller, config, consumer, made, disturbances,
          deletions>>

(* req is the request as it was read, ready whether it is to be reported   *)
(* as Ready, found whether the list of the RADOS namespaces it owns held   *)
(* one, todo the resources still to be created or updated.                 *)
Worker == [pc: {"idle", "init", "parts", "status"},
           req: Request \cup {None}, todo: SUBSET Parts,
           found: BOOLEAN, ready: BOOLEAN, failed: BOOLEAN]

IdleWorker == [pc |-> "idle", req |-> None, todo |-> {}, found |-> FALSE,
               ready |-> FALSE, failed |-> FALSE]


TypeOK ==
  /\ request \in Request \cup {None}
  /\ part \in [Parts -> Part \cup {None}]
  /\ seenRequest \in Request \cup {None}
  /\ seenPart \in [Parts -> Part \cup {None}]
  /\ queued \in BOOLEAN
  /\ worker \in Worker
  /\ config \in Call \cup {None}
  /\ consumer \in BOOLEAN
  /\ made \in 0..MaxRequests
  /\ disturbances \in 0..MaxDisturbances
  /\ dying \subseteq Parts
  /\ lost \subseteq UID

Init ==
  /\ request = None
  /\ part = [p \in Parts |-> None]
  /\ seenRequest = None
  /\ seenPart = [p \in Parts |-> None]
  /\ queued = FALSE
  /\ worker = IdleWorker
  /\ config = None
  /\ consumer = TRUE
  /\ made = 0
  /\ disturbances = 0
  /\ dying = {}
  /\ lost = {}

Disturb ==
  /\ disturbances < MaxDisturbances
  /\ disturbances' = disturbances + 1

Undisturbed == UNCHANGED disturbances

(* A call fails for a reason the code meets, or by a fault.                *)
Fails(reason) == \/ reason /\ Undisturbed
                 \/ Disturb

-----------------------------------------------------------------------------
(* The provider server                                                     *)

NewRequest(type) ==
  [uid |-> made + 1, type |-> type, deleting |-> FALSE, ready |-> FALSE]

(* FulfillStorageClassClaim: the consumer was found and may be gone by     *)
(* now.  If the request exists already only the answer depends on whether  *)
(* it is of this type and not on its way out.                              *)
FulfillStorageClassClaim ==
  /\ request = None
  /\ made < MaxRequests
  /\ made' = made + 1
  /\ \E type \in Types : request' = NewRequest(type)
  /\ UNCHANGED <<part, controller, config, consumer, disturbances,
                 deletions>>

(* A deletion in the foreground waits for the resources of the request.    *)
RevokeStorageClassClaim ==
  /\ request # None
  /\ ~request.deleting
  /\ request' = [request EXCEPT !.deleting = TRUE]
  /\ UNCHANGED <<part, controller, config, consumer, made, disturbances,
                 deletions>>

(* GetStorageClassClaimConfig goes on for a request that is Ready.         *)
GetStorageClassClaimConfig ==
  /\ config = None
  /\ request # None
  /\ request.ready
  /\ config' = [uid |-> request.uid, type |-> request.type]
  /\ UNCHANGED <<request, part, controller, consumer, made, disturbances,
                 deletions>>

(* It reads the resources of the request one after the other and answers;  *)
(* one that is missing or has no secret makes it fail.                     *)
ReturnConfig ==
  /\ config # None
  /\ config' = None
  /\ UNCHANGED <<request, part, controller, consumer, made, disturbances,
                 deletions>>

-----------------------------------------------------------------------------
(* The controller                                                          *)

(* Reconcile fetches the request from the cache.  It fails before it       *)
(* writes anything if there is not exactly one StorageCluster.             *)
Reconcile ==
  /\ worker.pc = "idle"
  /\ queued
  /\ \/ /\ queued' = FALSE
        /\ IF seenRequest = None
             THEN UNCHANGED worker
             ELSE worker' = [IdleWorker EXCEPT !.pc = "init",
                                                 !.req = seenRequest]
        /\ Undisturbed
     \/ /\ Disturb
        /\ UNCHANGED <<queued, worker>>
  /\ UNCHANGED <<request, part, seenRequest, seenPart, config, consumer,
                 made, deletions>>

Fail ==
  worker' = [worker EXCEPT !.pc = "status", !.todo = {}, !.ready = FALSE,
                           !.failed = TRUE]

(* Mutant: an existing RADOS namespace gives its name only, as a           *)
(* subvolume group does.                                                   *)
FoundByName == FALSE

(* The list of the RADOS namespaces owned by the request has one.          *)
Found ==
  /\ seenPart["namespace"] # None
  /\ seenPart["namespace"].owner = worker.req.uid

(* History: the namespace that was found is there and is to stay.          *)
Regain ==
  IF Found /\ part["namespace"] # None /\ "namespace" \notin dying
    THEN lost \ {worker.req.uid}
    ELSE lost

(* initPhase finds the consumer by name, perhaps that of a consumer that   *)
(* was onboarded again, and the namespace by its owner; nothing is done    *)
(* for a request on its way out.                                           *)
InitPhase ==
  /\ worker.pc = "init"
  /\ \/ /\ worker.req.deleting
        /\ worker' = [worker EXCEPT !.pc = "status"]
        /\ UNCHANGED <<lost, disturbances>>
     \/ /\ ~worker.req.deleting
        /\ worker' = [worker EXCEPT !.pc = "parts",
                        !.todo = PartsOf(worker.req.type),
                        !.found = Found, !.ready = TRUE]
        /\ lost' = Regain
        /\ Undisturbed
     \/ Fails(~consumer) /\ Fail /\ UNCHANGED lost
  /\ UNCHANGED <<request, part, seenRequest, seenPart, queued, config,
                 consumer, made, dying>>

(* The pool in the capabilities of a CephClient is that of the namespace   *)
(* found, and blank if none was.                                           *)
NamesPool(p) ==
  p \in Clients /\ worker.req.type = "blockpool" => worker.found

(* Mutant: the owner of a resource is not set.                             *)
DesiredUnowned(p, old) ==
  [owner |-> 0, pool |-> NamesPool(p),
   ready |-> IF old = None THEN FALSE ELSE old.ready]

(* Mutant: a resource that exists is left to its owner.                    *)
DesiredOfOwner(p, old) ==
  [owner |-> IF old = None THEN worker.req.uid ELSE old.owner,
   pool |-> NamesPool(p), ready |-> IF old = None THEN FALSE ELSE old.ready]

(* What a resource is to become.  SetControllerReference compares owners   *)
(* by kind and name: the resource of an earlier request of this name is    *)
(* taken over, even one on its way out, which stays on its way.            *)
Desired(p, old) ==
  [owner |-> worker.req.uid, pool |-> NamesPool(p),
   ready |-> IF old = None THEN FALSE ELSE old.ready]

(* CreateOrUpdate reads from the cache and writes to the API server, which *)
(* refuses to create what exists and to update another version: a copy     *)
(* does not show whether it is older than the deletion timestamp.  The     *)
(* CephClients come first, the space last.                                 *)
CreateOrUpdate(p) ==
  LET old == seenPart[p]
      new == Desired(p, old)
      left == worker.todo \ {p}
  IN /\ worker.pc = "parts"
     /\ p \in worker.todo
     /\ p \in Clients \/ left = {}
     /\ \/ /\ old = new \/ old = part[p]
           /\ part' = IF old = new THEN part ELSE [part EXCEPT ![p] = new]
           /\ worker' = [worker EXCEPT
                  !.todo = left,
                  !.pc = IF left = {} THEN "status" ELSE @,
                  !.ready = worker.ready /\ new.ready]
           /\ Undisturbed
        \/ /\ Fails(old # new /\ (old # part[p] \/ p \in dying))
           /\ Fail
           /\ UNCHANGED part
     /\ UNCHANGED <<request, seenRequest, seenPart, queued, config, consumer,
                    made, deletions>>

(* The status is written whether or not the reconcile failed; an error of  *)
(* either puts the request back in the queue.                              *)
UpdateStatus ==
  /\ worker.pc = "status"
  /\ worker' = IdleWorker
  /\ \/ /\ request = worker.req
        /\ request' = [request EXCEPT !.ready = worker.ready]
        /\ queued' = (queued \/ worker.failed)
        /\ Undisturbed
     \/ /\ Fails(request # worker.req)
        /\ queued' = TRUE
        /\ UNCHANGED request
  /\ UNCHANGED <<part, seenRequest, seenPart, config, consumer,
                 made, deletions>>

(* Mutant: reconciles do not wait for the caches after a start.            *)
RestartUnsynced ==
  /\ Disturb
  /\ worker' = IdleWorker
  /\ seenRequest' = request
  /\ seenPart' = [part EXCEPT !["namespace"] = None]
  /\ queued' = TRUE
  /\ UNCHANGED <<request, part, config, consumer,
                 made, deletions>>

(* The operator dies and starts again.  Reconcile waits until the caches   *)
(* are filled, and everything in them is queued.                           *)
Restart ==
  /\ Disturb
  /\ worker' = IdleWorker
  /\ seenRequest' = request
  /\ seenPart' = part
  /\ queued' = TRUE
  /\ UNCHANGED <<request, part, config, consumer,
                 made, deletions>>

(* GenerationChangedPredicate: of the updates of a request only those that *)
(* change its generation are events, and its status is not among them.     *)
SameGeneration(a, b) ==
  a # None /\ b # None /\ a.uid = b.uid /\ a.deleting = b.deleting

SyncRequest ==
  /\ seenRequest # request
  /\ seenRequest' = request
  /\ queued' = (queued \/ ~SameGeneration(seenRequest, request))
  /\ UNCHANGED <<request, part, seenPart, worker, config, consumer, made,
                 disturbances, deletions>>

(* CephClients have one cache and each kind of space has its own; every    *)
(* change of a resource is an event for its owner.                         *)
SyncParts(kind) ==
  /\ \E p \in kind : seenPart[p] # part[p]
  /\ seenPart' = [p \in Parts |-> IF p \in kind THEN part[p] ELSE seenPart[p]]
  /\ queued' = TRUE
  /\ UNCHANGED <<request, part, seenRequest, worker, config, consumer, made,
                 disturbances, deletions>>

-----------------------------------------------------------------------------
(* Rook, the garbage collector and the administrator                       *)

RookReady(p) ==
  /\ part[p] # None
  /\ p \notin dying
  /\ ~part[p].ready
  /\ part' = [part EXCEPT ![p].ready = TRUE]
  /\ UNCHANGED <<request, controller, config, consumer, made, disturbances,
                 deletions>>

RookFails(p) ==
  /\ part[p] # None
  /\ part[p].ready
  /\ Disturb
  /\ part' = [part EXCEPT ![p].ready = FALSE]
  /\ UNCHANGED <<request, controller, config, consumer,
                 made, deletions>>

(* A request that keeps its resources: it exists under their owner's UID   *)
(* and is not on its way out.                                              *)
Live(uid) == request # None /\ request.uid = uid /\ ~request.deleting

(* The garbage collector deletes a resource whose owner is gone or waits   *)
(* for it in the foreground.  (Its delete may come after the resource has  *)
(* been taken over: the copy that is taken over need not show it.)         *)
CollectPart(p) ==
  /\ part[p] # None
  /\ p \notin dying
  /\ ~Live(part[p].owner)
  /\ dying' = dying \cup {p}
  /\ UNCHANGED <<request, part, controller, config, consumer, made,
                 disturbances, lost>>

(* Rook has cleaned up after the resource and takes its finalizer away,    *)
(* whoever owns it by now.                                                 *)
RookRemoves(p) ==
  /\ p \in dying
  /\ part' = [part EXCEPT ![p] = None]
  /\ dying' = dying \ {p}
  /\ lost' = IF p = "namespace" /\ Live(part[p].owner)
               THEN lost \cup {part[p].owner}
               ELSE lost
  /\ UNCHANGED <<request, controller, config, consumer, made, disturbances>>

CollectRequest ==
  /\ request # None
  /\ \/ ~consumer
     \/ /\ request.deleting
        /\ \A p \in Parts : part[p] # None => part[p].owner # request.uid
  /\ request' = None
  /\ UNCHANGED <<part, controller, config, consumer, made, disturbances,
                 deletions>>

(* An administrator deletes the request in the background, that is, before *)
(* its resources.                                                          *)
AdminDelete ==
  /\ request # None
  /\ request' = None
  /\ UNCHANGED <<part, controller, config, consumer, made, disturbances,
                 deletions>>

(* The consumer is offboarded; its UID never comes back.                   *)
ConsumerGone ==
  /\ consumer
  /\ Disturb
  /\ consumer' = FALSE
  /\ UNCHANGED <<request, part, controller, config, made, deletions>>

-----------------------------------------------------------------------------
WorkerStep ==
  \/ Reconcile
  \/ InitPhase
  \/ \E p \in Parts : CreateOrUpdate(p)
  \/ UpdateStatus

SyncClients == SyncParts(Clients)
SyncNamespaces == SyncParts({"namespace"})
SyncGroups == SyncParts({"group"})

Next ==
  \/ FulfillStorageClassClaim
  \/ RevokeStorageClassClaim
  \/ GetStorageClassClaimConfig
  \/ ReturnConfig
  \/ WorkerStep
  \/ Restart
  \/ SyncRequest
  \/ SyncClients
  \/ SyncNamespaces
  \/ SyncGroups
  \/ \E p \in Parts : \/ RookReady(p) \/ RookFails(p)
                      \/ CollectPart(p) \/ RookRemoves(p)
  \/ CollectRequest
  \/ AdminDelete
  \/ ConsumerGone

Spec == Init /\ [][Next]_vars

(* The worker takes what is queued and goes on with it, the watches        *)
(* deliver, Rook and the garbage collector do their part.                  *)
Fairness ==
  /\ WF_vars(WorkerStep)
  /\ WF_vars(SyncRequest)
  /\ WF_vars(SyncClients)
  /\ WF_vars(SyncNamespaces)
  /\ WF_vars(SyncGroups)
  /\ \A p \in Parts : /\ WF_vars(RookReady(p))
                       /\ WF_vars(CollectPart(p))
                       /\ WF_vars(RookRemoves(p))
  /\ WF_vars(CollectRequest)

FairSpec == Spec /\ Fairness

-----------------------------------------------------------------------------
(* Properties                                                              *)

(* reconcilePhases reports Ready only for resources of the request itself, *)
(* whatever its caches still show of an earlier request of that name.      *)
ReadyMeansOwned ==
  request # None /\ request.ready =>
    \A p \in PartsOf(request.type) :
      part[p] # None => part[p].owner = request.uid

(* GetStorageClassClaimConfig hands out no resource that belongs to an     *)
(* earlier request than the one it found Ready, although requests and      *)
(* resources come and go between its reads.                                *)
ServedIsCurrent ==
  config # None =>
    \A p \in PartsOf(config.type) :
      part[p] # None => part[p].owner >= config.uid

(* initPhase and reconcileCephClientRBD*: once the capabilities of a       *)
(* CephClient name the pool, a reconcile blanks them while the request     *)
(* lives only if its namespace, taken over on its way out, has vanished,   *)
(* and only until the one made for it is found.                            *)
CapsKept ==
  [][\A p \in Clients :
       /\ part[p] # None /\ part[p].pool
       /\ part'[p] # None /\ part'[p].owner = part[p].owner
       /\ Live(part[p].owner) /\ part[p].owner \notin lost
       => part'[p].pool]_vars

Served ==
  /\ request.ready
  /\ \A p \in PartsOf(request.type) :
       part[p] # None /\ part[p].pool

(* The events and the retries that SetupWithManager and Reconcile arrange  *)
(* for are enough: a request that is not revoked and whose consumer stays  *)
(* is eventually Ready, with capabilities that name the pool.              *)
ClaimServed ==
  \A u \in UID : Live(u) /\ consumer ~> (Live(u) /\ consumer => Served)

-----------------------------------------------------------------------------
(* Inductive invariants                                                    *)

Same(a, b) == a # None /\ b # None /\ a.uid = b.uid

(* UIDs grow, and copies of one request agree on its type.                 *)
UidsGrow ==
  /\ request # None => request.uid = made
  /\ seenRequest # None => seenRequest.uid <= made
  /\ worker.req # None => worker.req.uid <= made
  /\ worker.req # None /\ seenRequest # None =>
       worker.req.uid <= seenRequest.uid
  /\ \A p \in Parts : part[p] # None => part[p].owner <= made
  /\ Same(seenRequest, request) => seenRequest.type = request.type
  /\ Same(worker.req, request) => worker.req.type = request.type
  /\ Same(worker.req, seenRequest) => worker.req.type = seenRequest.type

(* No resource belongs to a later request than the controller knows, and   *)
(* the caches show no later owner than a resource has.                     *)
OwnersKnown ==
  \A p \in Parts :
    /\ part[p] # None /\ seenRequest # None => part[p].owner <= seenRequest.uid
    /\ part[p] # None /\ worker.req # None => part[p].owner <= worker.req.uid
    /\ part[p] # None /\ seenPart[p] # None =>
         seenPart[p].owner <= part[p].owner
    /\ seenPart[p] # None => seenPart[p].owner <= made

(* What the worker knows at each of its steps.                             *)
WorkerShaped ==
  /\ worker.pc # "idle" => worker.req # None
  /\ worker.pc = "init" => ~worker.ready /\ worker.todo = {}
  /\ worker.pc = "status" => worker.todo = {}
  /\ worker.req # None => worker.todo \subseteq PartsOf(worker.req.type)

(* What the worker is about to report: the resources it has dealt with     *)
(* belong to its request.                                                  *)
WorkerOwns ==
  worker.req # None /\ worker.ready =>
    \A p \in PartsOf(worker.req.type) \ worker.todo :
      part[p] # None => part[p].owner = worker.req.uid

(* The controller does not fall back behind a request that is Ready, nor   *)
(* behind one whose configuration is being served.                         *)
KnowsReady ==
  /\ request # None /\ request.ready =>
       /\ seenRequest # None => seenRequest.uid = request.uid
       /\ worker.req # None => worker.req.uid = request.uid
  /\ config # None =>
       /\ config.uid <= made
       /\ seenRequest # None => seenRequest.uid >= config.uid
       /\ worker.req # None => worker.req.uid >= config.uid

OwnerInv ==
  /\ UidsGrow
  /\ OwnersKnown
  /\ WorkerShaped
  /\ WorkerOwns
  /\ KnowsReady
  /\ ReadyMeansOwned
  /\ ServedIsCurrent

(* The RADOS namespace of a live request stays once the cache shows it,    *)
(* unless it is on its way out; capabilities name the pool only then, and  *)
(* the worker knows.                                                       *)
SpaceOf(uid) ==
  seenPart["namespace"] # None /\ seenPart["namespace"].owner = uid

SpaceStays ==
  \A u \in UID \ lost : Live(u) /\ SpaceOf(u) =>
    part["namespace"] # None /\ part["namespace"].owner = u

FoundStays ==
  /\ worker.pc = "parts" /\ worker.found
  /\ Live(worker.req.uid) /\ worker.req.uid \notin lost
  => SpaceOf(worker.req.uid)

PoolKnown ==
  \A c \in Clients :
    /\ part[c] # None /\ part[c].pool
    /\ Live(part[c].owner) /\ part[c].owner \notin lost
    /\ request.type = "blockpool"
    => /\ SpaceOf(part[c].owner)
       /\ worker.pc = "parts" /\ worker.req.uid = part[c].owner =>
            worker.found

(* Only what is there is on its way out.                                   *)
DyingExist == \A p \in dying : part[p] # None

CapsInv == SpaceStays /\ FoundStays /\ PoolKnown /\ DyingExist
=============================================================================
