--------------------- MODULE StorageClassRequestsProofs ---------------------
(***************************************************************************)
(* Proofs about StorageClassRequests, for any number of requests, types    *)
(* and CephClients: a request is Ready only with resources of its own, no  *)
(* configuration of an earlier request is served, and the capabilities of  *)
(* a live request are not blanked.                                         *)
(***************************************************************************)
EXTENDS StorageClassRequests, TLAPS

-----------------------------------------------------------------------------
(* Types                                                                   *)

TypeInv == TypeOK /\ WorkerShaped

(* What Rook and the garbage collector do to a resource.                   *)
RookActs(p) ==
  RookReady(p) \/ RookFails(p) \/ CollectPart(p) \/ RookRemoves(p)

(* The parts of a request are among those the caches cover.                *)
LEMMA PartsOfRequest ==
  \A type \in Types : PartsOf(type) \subseteq Parts /\ Clients \subseteq PartsOf(type)
BY DEF PartsOf, Parts, Space

(* The model's records have no None among them.                            *)
LEMMA NoneApart ==
  /\ \A r \in Request : r # None /\ r.uid \in UID /\ r.type \in Types
                        /\ r.deleting \in BOOLEAN /\ r.ready \in BOOLEAN
  /\ \A x \in Call : x # None /\ x.uid \in UID /\ x.type \in Types
  /\ \A x \in Part : x # None /\ x.owner \in UID /\ x.pool \in BOOLEAN
                     /\ x.ready \in BOOLEAN
BY ConstantsAssumption DEF Request, Part, Call

(* Initially everything is absent.                                         *)
LEMMA TypeInvInit == Init => TypeInv
<1>. SUFFICES ASSUME Init PROVE TypeInv
  OBVIOUS
<1>1. IdleWorker \in Worker /\ IdleWorker.pc = "idle" /\ IdleWorker.req = None
  BY DEF IdleWorker, Worker
<1>2. made \in 0..MaxRequests /\ disturbances \in 0..MaxDisturbances
  BY ConstantsAssumption DEF Init
<1>4. TypeOK
  BY <1>1, <1>2 DEF Init, TypeOK
<1>3. WorkerShaped
  BY <1>1 DEF Init, WorkerShaped
<1>. QED
  BY <1>4, <1>3 DEF TypeInv

(* A step is disturbed only while disturbances are left.                   *)
LEMMA DisturbancesCounted ==
  ASSUME TypeInv, Disturb \/ Undisturbed
  PROVE  disturbances' \in 0..MaxDisturbances
BY ConstantsAssumption DEF TypeInv, TypeOK, Disturb, Undisturbed

(* A client's call changes the request or the configuration being served.  *)
LEMMA TypeInvProvider ==
  ASSUME TypeInv,
         \/ FulfillStorageClassClaim \/ RevokeStorageClassClaim
         \/ GetStorageClassClaimConfig \/ ReturnConfig
  PROVE  TypeInv'
<1>. USE ConstantsAssumption DEF TypeInv, TypeOK, controller, deletions
<1>1. CASE FulfillStorageClassClaim
  <2>1. PICK type \in Types :
          request' = [uid |-> made + 1, type |-> type, deleting |-> FALSE,
                      ready |-> FALSE]
    BY <1>1 DEF FulfillStorageClassClaim, NewRequest
  <2>2. request' \in Request /\ made' \in 0..MaxRequests
    BY <1>1, <2>1 DEF FulfillStorageClassClaim, Request, UID
  <2>. QED
    BY <1>1, <2>2 DEF FulfillStorageClassClaim, WorkerShaped
<1>2. CASE RevokeStorageClassClaim
  <2>1. request' \in Request
    BY <1>2 DEF RevokeStorageClassClaim, Request
  <2>. QED
    BY <1>2, <2>1 DEF RevokeStorageClassClaim, WorkerShaped
<1>3. CASE GetStorageClassClaimConfig
  <2>1. config' \in Call
    BY <1>3, NoneApart DEF GetStorageClassClaimConfig, Call
  <2>. QED
    BY <1>3, <2>1 DEF GetStorageClassClaimConfig, WorkerShaped
<1>4. CASE ReturnConfig
  BY <1>4 DEF ReturnConfig, WorkerShaped
<1>. QED
  BY <1>1, <1>2, <1>3, <1>4

(* The environment and a restart leave the worker alone or reset it.       *)
LEMMA TypeInvEnvironment ==
  ASSUME TypeInv,
         \/ Restart \/ SyncRequest \/ SyncClients \/ SyncNamespaces
         \/ SyncGroups \/ CollectRequest \/ AdminDelete \/ ConsumerGone
         \/ \E p \in Parts : RookActs(p)
  PROVE  TypeInv'
<1>. USE ConstantsAssumption DEF TypeInv, TypeOK, controller, deletions
<1>1. CASE Restart
  BY <1>1 DEF Restart, Disturb, IdleWorker, Worker, WorkerShaped
<1>2. CASE SyncRequest
  BY <1>2 DEF SyncRequest, WorkerShaped
<1>3. ASSUME NEW kind, SyncParts(kind)
      PROVE  TypeInv'
  <2>1. seenPart' \in [Parts -> Part \cup {None}]
    BY <1>3 DEF SyncParts
  <2>. QED
    BY <1>3, <2>1 DEF SyncParts, WorkerShaped
<1>4. CASE CollectRequest \/ AdminDelete \/ ConsumerGone
  <2>1. /\ disturbances' \in 0..MaxDisturbances
        /\ request' \in Request \cup {None} /\ consumer' \in BOOLEAN
        /\ UNCHANGED <<part, controller, config, made, deletions>>
    BY <1>4, DisturbancesCounted
       DEF CollectRequest, AdminDelete, ConsumerGone, Undisturbed
  <2>. QED
    BY <2>1 DEF WorkerShaped
<1>5. ASSUME NEW p \in Parts, RookActs(p)
      PROVE  TypeInv'
  <2>1. CASE RookReady(p)
    <3>1. [part[p] EXCEPT !.ready = TRUE] \in Part
      BY <2>1 DEF RookReady, Part
    <3>. QED
      BY <2>1, <3>1 DEF RookReady, WorkerShaped
  <2>2. CASE RookFails(p)
    <3>1. [part[p] EXCEPT !.ready = FALSE] \in Part
      BY <2>2 DEF RookFails, Part
    <3>. QED
      BY <2>2, <3>1 DEF RookFails, Disturb, WorkerShaped
  <2>3. CASE CollectPart(p)
    BY <2>3 DEF CollectPart, WorkerShaped
  <2>4. CASE RookRemoves(p)
    <3>1. /\ part' \in [Parts -> Part \cup {None}] /\ dying' \subseteq Parts
          /\ UNCHANGED <<request, controller, config, consumer, made,
                         disturbances>>
      BY <2>4 DEF RookRemoves
    <3>2. Live(part[p].owner) => part[p].owner \in UID
      BY NoneApart DEF Live
    <3>3. lost' \subseteq UID
      BY <2>4, <3>2 DEF RookRemoves
    <3>. QED
      BY <3>1, <3>3 DEF WorkerShaped
  <2>. QED
    BY <1>5, <2>1, <2>2, <2>3, <2>4 DEF RookActs
<1>. QED
  BY <1>1, <1>2, <1>3, <1>4, <1>5 DEF SyncClients, SyncNamespaces, SyncGroups

(* The ways a reconcile goes on.                                           *)
Reports ==
  /\ worker' \in Worker
  /\ worker'.pc = "status" /\ worker'.req = worker.req
  /\ worker'.todo = {} /\ ~worker'.ready

StartsParts ==
  /\ worker' \in Worker
  /\ worker'.pc = "parts" /\ worker'.req = worker.req
  /\ worker'.todo = PartsOf(worker.req.type)
  /\ worker'.found = Found

DealsWith(p) ==
  /\ worker' \in Worker
  /\ worker.pc = "parts" /\ p \in worker.todo
  /\ worker'.pc = IF worker.todo \ {p} = {} THEN "status" ELSE "parts"
  /\ worker'.req = worker.req /\ worker'.found = worker.found
  /\ worker'.todo = worker.todo \ {p}
  /\ worker'.ready => worker.ready

(* An error ends a reconcile with a report that is not Ready.              *)
LEMMA FailReports ==
  ASSUME TypeInv, Fail
  PROVE  Reports
<1>1. worker \in Worker
  BY DEF TypeInv, TypeOK
<1>. QED
  BY <1>1 DEF Fail, Reports, Worker

(* initPhase either ends the reconcile or sets out to create everything.   *)
LEMMA InitPhaseEffect ==
  ASSUME TypeInv, InitPhase
  PROVE  Reports \/ StartsParts
<1>1. /\ worker \in Worker /\ worker.pc = "init" /\ worker.req \in Request
      /\ worker.todo = {} /\ ~worker.ready
  BY DEF TypeInv, TypeOK, WorkerShaped, InitPhase, Worker
<1>2. CASE worker' = [worker EXCEPT !.pc = "status"]
  BY <1>1, <1>2 DEF Reports, Worker
<1>3. CASE worker' = [worker EXCEPT !.pc = "parts",
                        !.todo = PartsOf(worker.req.type),
                        !.found = Found, !.ready = TRUE]
  <2>1. PartsOf(worker.req.type) \in SUBSET Parts
    BY <1>1, PartsOfRequest, NoneApart
  <2>2. Found \in BOOLEAN
    BY DEF Found
  <2>. HIDE DEF Found
  <2>. QED
    BY <1>1, <1>3, <2>1, <2>2 DEF StartsParts, Worker
<1>4. CASE Fail
  BY <1>4, FailReports
<1>. QED
  BY <1>2, <1>3, <1>4 DEF InitPhase

(* What a resource is to become is a resource of the worker's request.     *)
LEMMA DesiredPart ==
  ASSUME TypeInv, worker.req \in Request,
         NEW p \in Parts, NEW old \in Part \cup {None}
  PROVE  /\ Desired(p, old) \in Part
         /\ Desired(p, old).owner = worker.req.uid
         /\ Desired(p, old).pool = NamesPool(p)
<1>1. NamesPool(p) \in BOOLEAN
  BY DEF NamesPool
<1>2. (IF old = None THEN FALSE ELSE old.ready) \in BOOLEAN
  BY NoneApart
<1>3. worker.req.uid \in UID
  BY NoneApart
<1>. HIDE DEF NamesPool
<1>. QED
  BY <1>1, <1>2, <1>3 DEF Desired, Part

(* CreateOrUpdate fails, or leaves the resource as the worker wants it: it *)
(* wrote it, or its cache shows it so already.                             *)
LEMMA CreateOrUpdateEffect ==
  ASSUME TypeInv, NEW p \in Parts, CreateOrUpdate(p)
  PROVE  /\ worker.pc = "parts" /\ worker.req \in Request
         /\ \/ Reports /\ UNCHANGED part
            \/ /\ DealsWith(p)
               /\ \E new \in Part :
                    /\ new.owner = worker.req.uid /\ new.pool = NamesPool(p)
                    /\ \/ seenPart[p] = new /\ UNCHANGED part
                       \/ /\ seenPart[p] = part[p]
                          /\ part' = [part EXCEPT ![p] = new]
<1>. DEFINE new == Desired(p, seenPart[p])
            left == worker.todo \ {p}
<1>1. /\ worker \in Worker /\ worker.pc = "parts" /\ worker.req \in Request
      /\ p \in worker.todo
  BY DEF TypeInv, TypeOK, WorkerShaped, CreateOrUpdate, Worker
<1>2. /\ new \in Part /\ new.owner = worker.req.uid
      /\ new.pool = NamesPool(p)
  BY <1>1, DesiredPart DEF TypeInv, TypeOK
<1>3. CASE Fail /\ UNCHANGED part
  BY <1>1, <1>3, FailReports
<1>4. CASE /\ seenPart[p] = new \/ seenPart[p] = part[p]
           /\ part' = IF seenPart[p] = new THEN part
                      ELSE [part EXCEPT ![p] = new]
           /\ worker' = [worker EXCEPT
                  !.todo = left,
                  !.pc = IF left = {} THEN "status" ELSE @,
                  !.ready = worker.ready /\ new.ready]
  <2>1. left \in SUBSET Parts /\ new.ready \in BOOLEAN
    BY <1>1, <1>2, NoneApart DEF Worker
  <2>. HIDE DEF new
  <2>2. DealsWith(p)
    BY <1>1, <1>4, <2>1 DEF DealsWith, Worker
  <2>. QED
    BY <1>1, <1>2, <1>4, <2>2
<1>. QED
  BY <1>3, <1>4 DEF CreateOrUpdate

(* The worker reads well-typed copies and writes well-typed resources.     *)
LEMMA TypeInvWorker ==
  ASSUME TypeInv, WorkerStep
  PROVE  TypeInv'
<1>. USE ConstantsAssumption DEF TypeInv, TypeOK, deletions
<1>1. CASE Reconcile
  <2>3. /\ UNCHANGED <<request, part, seenRequest, seenPart, config, consumer,
                       made, dying, lost>>
        /\ queued' \in BOOLEAN /\ disturbances' \in 0..MaxDisturbances
    BY <1>1, DisturbancesCounted DEF Reconcile
  <2>1. CASE seenRequest # None /\
             worker' = [IdleWorker EXCEPT !.pc = "init", !.req = seenRequest]
    <3>1. /\ worker' \in Worker /\ worker'.pc = "init"
          /\ worker'.req = seenRequest /\ worker'.todo = {} /\ ~worker'.ready
      BY <2>1 DEF IdleWorker, Worker
    <3>2. worker' \in Worker /\ WorkerShaped'
      BY <2>1, <3>1 DEF WorkerShaped
    <3>. QED
      BY <2>3, <3>2
  <2>2. CASE UNCHANGED worker
    <3>1. worker' \in Worker /\ WorkerShaped'
      BY <2>2 DEF WorkerShaped
    <3>. QED
      BY <2>3, <3>1
  <2>. QED
    BY <1>1, <2>1, <2>2 DEF Reconcile
<1>2. CASE InitPhase
  <2>1. /\ UNCHANGED <<request, part, seenRequest, seenPart, queued, config,
                       consumer, made, dying>>
        /\ disturbances' \in 0..MaxDisturbances /\ lost' \subseteq UID
    BY <1>2, DisturbancesCounted DEF InitPhase, Fails, Regain
  <2>2. worker.req \in Request
    BY <1>2 DEF InitPhase, WorkerShaped, Worker
  <2>3. worker' \in Worker /\ WorkerShaped'
    BY <1>2, <2>2, InitPhaseEffect
       DEF Reports, StartsParts, WorkerShaped
  <2>. QED
    BY <2>1, <2>3
<1>3. ASSUME NEW p \in Parts, CreateOrUpdate(p)
      PROVE  TypeInv'
  <2>1. /\ UNCHANGED <<request, seenRequest, seenPart, queued, config,
                       consumer, made, dying, lost>>
        /\ disturbances' \in 0..MaxDisturbances
    BY <1>3, DisturbancesCounted DEF CreateOrUpdate, Fails
  <2>2. part' \in [Parts -> Part \cup {None}]
    BY <1>3, CreateOrUpdateEffect
  <2>3. worker' \in Worker /\ WorkerShaped'
    BY <1>3, CreateOrUpdateEffect DEF Reports, DealsWith, WorkerShaped
  <2>. QED
    BY <2>1, <2>2, <2>3
<1>4. CASE UpdateStatus
  <2>1. request' \in Request \cup {None}
    <3>1. worker.ready \in BOOLEAN /\ (worker.pc # "idle" => worker.req # None)
      BY DEF Worker, WorkerShaped
    <3>2. request = worker.req /\ worker.req # None =>
            [request EXCEPT !.ready = worker.ready] \in Request
      BY <3>1 DEF Request
    <3>. QED
      BY <1>4, <3>1, <3>2 DEF UpdateStatus
  <2>2. worker' \in Worker /\ WorkerShaped'
    BY <1>4 DEF UpdateStatus, IdleWorker, Worker, WorkerShaped
  <2>. QED
    <3>1. /\ UNCHANGED <<part, seenRequest, seenPart, config, consumer, made,
                         dying, lost>>
          /\ disturbances' \in 0..MaxDisturbances
      BY <1>4, DisturbancesCounted DEF UpdateStatus, Fails
    <3>2. queued' \in BOOLEAN
      BY <1>4 DEF UpdateStatus, Worker
    <3>. QED
      BY <2>1, <2>2, <3>1, <3>2
<1>. QED
  BY <1>1, <1>2, <1>3, <1>4 DEF WorkerStep

(* Every step keeps the types.                                             *)
LEMMA TypeInvStep == TypeInv /\ [Next]_vars => TypeInv'
<1>1. ASSUME TypeInv, UNCHANGED vars
      PROVE  TypeInv'
  BY <1>1 DEF TypeInv, TypeOK, WorkerShaped, vars, controller, deletions
<1>. QED
  BY <1>1, TypeInvProvider, TypeInvWorker, TypeInvEnvironment DEF Next, RookActs

(* The resources, their cached copies and the reconcile in progress are    *)
(* well typed in every reachable state: no handler, reconcile or watch     *)
(* (storageclassrequest_controller.go) builds an ill-formed one.           *)
THEOREM TypeCorrect == Spec => []TypeOK
<1>1. TypeInv => TypeOK
  BY DEF TypeInv
<1>. QED
  BY <1>1, TypeInvInit, TypeInvStep, PTL DEF Spec

-----------------------------------------------------------------------------
(* Owners                                                                  *)

(* UIDs and owners are numbers.                                            *)
LEMMA UidsAreNumbers ==
  ASSUME TypeInv
  PROVE  /\ made \in Nat
         /\ request # None => request \in Request /\ request.uid \in Nat
         /\ seenRequest # None =>
              seenRequest \in Request /\ seenRequest.uid \in Nat
         /\ worker.req # None =>
              worker.req \in Request /\ worker.req.uid \in Nat
         /\ config # None => config.type \in Types /\ config.uid \in Nat
         /\ \A p \in Parts :
              /\ part[p] # None => part[p].owner \in Nat
              /\ seenPart[p] # None => seenPart[p].owner \in Nat
<1>1. UID \subseteq Nat
  BY DEF UID
<1>2. worker.req \in Request \cup {None}
  BY DEF TypeInv, TypeOK, Worker
<1>3. \A r \in Request \cup {None} : r # None => r \in Request /\ r.uid \in Nat
  BY <1>1, NoneApart
<1>4. \A x \in Part \cup {None} : x # None => x.owner \in Nat
  BY <1>1, NoneApart
<1>5. made \in Nat
  BY ConstantsAssumption DEF TypeInv, TypeOK
<1>6. /\ request \in Request \cup {None} /\ seenRequest \in Request \cup {None}
      /\ config # None => config.type \in Types /\ config.uid \in Nat
  BY <1>1, NoneApart DEF TypeInv, TypeOK
<1>7. \A p \in Parts :
        part[p] \in Part \cup {None} /\ seenPart[p] \in Part \cup {None}
  BY DEF TypeInv, TypeOK
<1>. QED
  BY <1>2, <1>3, <1>4, <1>5, <1>6, <1>7

(* Initially there is nothing to own and nobody to own it.                 *)
LEMMA OwnerInvInit == Init => OwnerInv
<1>. SUFFICES ASSUME Init PROVE OwnerInv
  OBVIOUS
<1>1. worker.req = None /\ worker.pc = "idle"
  BY DEF Init, IdleWorker
<1>. QED
  BY <1>1 DEF Init, OwnerInv, UidsGrow, OwnersKnown, WorkerShaped, WorkerOwns,
              KnowsReady, ReadyMeansOwned, ServedIsCurrent, Same

(* A new request gets the next UID.                                        *)
LEMMA FulfillEffect ==
  ASSUME TypeInv, FulfillStorageClassClaim
  PROVE  /\ request = None /\ request' # None
         /\ made' = made + 1 /\ request'.uid = made + 1 /\ ~request'.ready
         /\ UNCHANGED <<part, seenRequest, seenPart, worker, config>>
<1>1. PICK type \in Types :
        request' = [uid |-> made + 1, type |-> type, deleting |-> FALSE,
                    ready |-> FALSE]
  BY DEF FulfillStorageClassClaim, NewRequest
<1>2. made + 1 \in UID
  BY ConstantsAssumption DEF FulfillStorageClassClaim, UID, TypeInv, TypeOK
<1>3. request' \in Request
  BY <1>1, <1>2 DEF Request
<1>4. request' # None
  BY <1>3, NoneApart
<1>. QED
  BY <1>1, <1>4 DEF FulfillStorageClassClaim, controller

(* A new request has a UID that nothing refers to yet; one that is Ready   *)
(* when its configuration is asked for owns its resources.                 *)
LEMMA OwnerInvProvider ==
  ASSUME TypeInv, OwnerInv,
         \/ FulfillStorageClassClaim \/ RevokeStorageClassClaim
         \/ GetStorageClassClaimConfig \/ ReturnConfig
  PROVE  OwnerInv'
<1>. USE UidsAreNumbers
     DEF OwnerInv, UidsGrow, OwnersKnown, WorkerShaped, WorkerOwns,
         KnowsReady, ReadyMeansOwned, ServedIsCurrent, Same, controller
<1>1. CASE FulfillStorageClassClaim
  <2>1. /\ request = None /\ request' # None
        /\ made' = made + 1 /\ request'.uid = made + 1 /\ ~request'.ready
        /\ UNCHANGED <<part, seenRequest, seenPart, worker, config>>
    BY <1>1, FulfillEffect
  <2>. QED
    BY <2>1
<1>2. CASE RevokeStorageClassClaim
  <2>1. /\ request # None /\ request' # None
        /\ request'.uid = request.uid /\ request'.type = request.type
        /\ request'.ready = request.ready
        /\ UNCHANGED <<part, seenRequest, seenPart, worker, config, made>>
    BY <1>2, ConstantsAssumption
       DEF RevokeStorageClassClaim, Request, TypeInv, TypeOK
  <2>. QED
    BY <2>1
<1>3. CASE GetStorageClassClaimConfig
  <2>1. /\ config'.uid = request.uid /\ config'.type = request.type
        /\ request # None /\ request.ready
        /\ UNCHANGED <<request, part, seenRequest, seenPart, worker, made>>
    BY <1>3 DEF GetStorageClassClaimConfig
  <2>2. request.type \in Types
    BY <2>1, NoneApart
  <2>3. ServedIsCurrent'
    BY <2>1, <2>2, PartsOfRequest
  <2>. QED
    BY <2>1, <2>3
<1>4. CASE ReturnConfig
  BY <1>4 DEF ReturnConfig
<1>. QED
  BY <1>1, <1>2, <1>3, <1>4

(* What the environment does to the resources: it changes no owner.        *)
OwnersStay ==
  \A p \in Parts :
    part'[p] # None => part[p] # None /\ part'[p].owner = part[p].owner

(* Rook and the garbage collector change no owner.                         *)
LEMMA EnvironmentKeepsOwners ==
  ASSUME TypeInv, NEW p \in Parts,
         RookActs(p)
  PROVE  /\ OwnersStay
         /\ UNCHANGED <<request, seenRequest, seenPart, worker, config, made>>
<1>. USE DEF TypeInv, TypeOK, controller, deletions
<1>1. CASE RookReady(p)
  <2>1. /\ part[p] \in Part /\ part[p] # None
        /\ part' = [part EXCEPT ![p] = [part[p] EXCEPT !.ready = TRUE]]
    BY <1>1 DEF RookReady
  <2>2. [part[p] EXCEPT !.ready = TRUE].owner = part[p].owner
    BY <2>1 DEF Part
  <2>. QED
    BY <1>1, <2>1, <2>2 DEF RookReady, OwnersStay
<1>2. CASE RookFails(p)
  <2>1. /\ part[p] \in Part /\ part[p] # None
        /\ part' = [part EXCEPT ![p] = [part[p] EXCEPT !.ready = FALSE]]
    BY <1>2 DEF RookFails
  <2>2. [part[p] EXCEPT !.ready = FALSE].owner = part[p].owner
    BY <2>1 DEF Part
  <2>. QED
    BY <1>2, <2>1, <2>2 DEF RookFails, OwnersStay
<1>3. CASE CollectPart(p)
  BY <1>3 DEF CollectPart, OwnersStay
<1>4. CASE RookRemoves(p)
  BY <1>4 DEF RookRemoves, OwnersStay
<1>. QED
  BY <1>1, <1>2, <1>3, <1>4 DEF RookActs

(* The environment takes resources away but gives them to nobody; a cache  *)
(* that is brought up to date shows what there is.                         *)
LEMMA OwnerInvEnvironment ==
  ASSUME TypeInv, OwnerInv,
         \/ Restart \/ SyncRequest \/ SyncClients \/ SyncNamespaces
         \/ SyncGroups \/ CollectRequest \/ AdminDelete \/ ConsumerGone
         \/ \E p \in Parts : RookActs(p)
  PROVE  OwnerInv'
<1>. USE UidsAreNumbers
     DEF OwnerInv, UidsGrow, OwnersKnown, WorkerShaped, WorkerOwns,
         KnowsReady, ReadyMeansOwned, ServedIsCurrent, Same, controller
<1>1. CASE Restart
  <2>1. worker'.pc = "idle" /\ worker'.req = None
    BY <1>1 DEF Restart, IdleWorker
  <2>. QED
    BY <1>1, <2>1 DEF Restart
<1>2. CASE SyncRequest
  BY <1>2 DEF SyncRequest
<1>3. ASSUME NEW kind, SyncParts(kind)
      PROVE  OwnerInv'
  <2>1. \A p \in Parts : seenPart'[p] = part[p] \/ seenPart'[p] = seenPart[p]
    BY <1>3 DEF SyncParts
  <2>2. UNCHANGED <<request, part, seenRequest, worker, config, made>>
    BY <1>3 DEF SyncParts
  <2>. QED
    BY <2>1, <2>2
<1>4. CASE CollectRequest \/ AdminDelete \/ ConsumerGone
  <2>1. /\ request' = None \/ request' = request
        /\ UNCHANGED <<part, seenRequest, seenPart, worker, config, made>>
    BY <1>4 DEF CollectRequest, AdminDelete, ConsumerGone
  <2>. QED
    BY <2>1
<1>5. ASSUME NEW p \in Parts, RookActs(p)
      PROVE  OwnerInv'
  <2>1. /\ OwnersStay
        /\ UNCHANGED <<request, seenRequest, seenPart, worker, config, made>>
    BY <1>5, EnvironmentKeepsOwners
  <2>2. /\ request # None => PartsOf(request.type) \subseteq Parts
        /\ config # None => PartsOf(config.type) \subseteq Parts
        /\ worker.req # None => PartsOf(worker.req.type) \subseteq Parts
    BY PartsOfRequest, NoneApart
  <2>. QED
    BY <2>1, <2>2 DEF OwnersStay
<1>. QED
  BY <1>1, <1>2, <1>3, <1>4, <1>5 DEF SyncClients, SyncNamespaces, SyncGroups

(* A reconcile that reports an error or starts to create resources has     *)
(* nothing to answer for yet.                                              *)
LEMMA OwnerInvPhase ==
  ASSUME OwnerInv, Reports \/ StartsParts, worker.req # None,
         UNCHANGED <<request, part, seenRequest, seenPart, config, made>>
  PROVE  OwnerInv'
<1>1. /\ worker'.req = worker.req /\ worker'.pc \in {"status", "parts"}
      /\ worker.req # None => worker'.todo \subseteq PartsOf(worker.req.type)
      /\ worker'.pc = "status" => worker'.todo = {}
      /\ worker'.ready => worker'.todo = PartsOf(worker.req.type)
  BY DEF Reports, StartsParts
<1>2. WorkerOwns'
  BY <1>1 DEF WorkerOwns
<1>3. WorkerShaped'
  BY <1>1 DEF WorkerShaped
<1>4. UidsGrow' /\ OwnersKnown'
  BY <1>1 DEF OwnerInv, UidsGrow, OwnersKnown, Same
<1>5. KnowsReady' /\ ReadyMeansOwned' /\ ServedIsCurrent'
  BY <1>1 DEF OwnerInv, KnowsReady, ReadyMeansOwned, ServedIsCurrent
<1>. QED
  BY <1>2, <1>3, <1>4, <1>5 DEF OwnerInv

(* A reconcile starts with what the cache shows, creates each resource for *)
(* the request it read, and reports Ready only after the last of them.     *)
LEMMA OwnerInvWorker ==
  ASSUME TypeInv, OwnerInv, WorkerStep
  PROVE  OwnerInv'
<1>. USE UidsAreNumbers
     DEF OwnerInv, UidsGrow, OwnersKnown, WorkerShaped, WorkerOwns,
         KnowsReady, ReadyMeansOwned, ServedIsCurrent, Same
<1>1. CASE Reconcile
  <2>1. UNCHANGED <<request, part, seenRequest, seenPart, config, made>>
    BY <1>1 DEF Reconcile
  <2>2. CASE seenRequest # None /\
             worker' = [IdleWorker EXCEPT !.pc = "init", !.req = seenRequest]
    <3>1. /\ worker'.pc = "init" /\ worker'.req = seenRequest
          /\ worker'.todo = {} /\ ~worker'.ready
      BY <2>2 DEF IdleWorker
    <3>. QED
      BY <2>1, <2>2, <3>1
  <2>3. CASE UNCHANGED worker
    BY <2>1, <2>3
  <2>. QED
    BY <1>1, <2>2, <2>3 DEF Reconcile
<1>2. CASE InitPhase
  <2>1. UNCHANGED <<request, part, seenRequest, seenPart, config, made>>
    BY <1>2 DEF InitPhase
  <2>2. worker.req # None
    BY <1>2 DEF InitPhase
  <2>. QED
    BY <1>2, <2>1, <2>2, InitPhaseEffect, OwnerInvPhase
<1>3. ASSUME NEW p \in Parts, CreateOrUpdate(p)
      PROVE  OwnerInv'
  <2>1. UNCHANGED <<request, seenRequest, seenPart, config, made>>
    BY <1>3 DEF CreateOrUpdate
  <2>2. CASE Reports /\ UNCHANGED part
    <3>1. worker.req # None
      BY <1>3, CreateOrUpdateEffect, NoneApart
    <3>. QED
      BY <2>1, <2>2, <3>1, OwnerInvPhase
  <2>3. CASE /\ DealsWith(p)
             /\ \E new \in Part :
                  /\ new.owner = worker.req.uid /\ new.pool = NamesPool(p)
                  /\ \/ seenPart[p] = new /\ UNCHANGED part
                     \/ /\ seenPart[p] = part[p]
                        /\ part' = [part EXCEPT ![p] = new]
    <3>1. worker.req # None /\ worker.req.uid \in Nat
      BY <1>3, CreateOrUpdateEffect, NoneApart
    <3>2. /\ part'[p] # None => part'[p].owner = worker.req.uid
          /\ seenPart[p] # None => seenPart[p].owner <= worker.req.uid
      BY <2>3, <3>1, NoneApart DEF TypeInv, TypeOK
    <3>3. \A q \in Parts \ {p} : part'[q] = part[q]
      BY <2>3 DEF TypeInv, TypeOK
    <3>4. /\ worker'.req = worker.req /\ worker'.todo = worker.todo \ {p}
          /\ worker'.ready => worker.ready
          /\ worker'.pc = "status" => worker'.todo = {}
          /\ worker'.pc \in {"parts", "status"}
      BY <2>3 DEF DealsWith
    <3>5. UidsGrow' /\ WorkerShaped' /\ KnowsReady'
      BY <2>1, <3>1, <3>2, <3>3, <3>4
    <3>6. OwnersKnown'
      BY <2>1, <3>1, <3>2, <3>3, <3>4
    <3>7. /\ request # None => PartsOf(request.type) \subseteq Parts
          /\ config # None => PartsOf(config.type) \subseteq Parts
          /\ PartsOf(worker.req.type) \subseteq Parts
      BY <3>1, PartsOfRequest, NoneApart
    <3>8. WorkerOwns' /\ ReadyMeansOwned'
      BY <2>1, <3>1, <3>2, <3>3, <3>4, <3>7
    <3>9. ServedIsCurrent'
      BY <2>1, <3>1, <3>2, <3>3, <3>7
    <3>. QED
      BY <3>5, <3>6, <3>8, <3>9
  <2>. QED
    BY <1>3, <2>2, <2>3, CreateOrUpdateEffect
<1>4. CASE UpdateStatus
  <2>1. /\ worker'.pc = "idle" /\ worker'.req = None
        /\ UNCHANGED <<part, seenRequest, seenPart, config, made>>
    BY <1>4 DEF UpdateStatus, IdleWorker
  <2>2. CASE UNCHANGED request
    BY <2>1, <2>2
  <2>3. CASE /\ request = worker.req
             /\ request' = [request EXCEPT !.ready = worker.ready]
    <3>1. request \in Request /\ worker.todo = {} /\ worker.ready \in BOOLEAN
      BY <1>4, <2>3 DEF UpdateStatus, TypeInv, TypeOK, Worker
    <3>2. /\ request' \in Request /\ request' # None
          /\ request'.uid = request.uid /\ request'.type = request.type
          /\ request'.ready = worker.ready
      <4>1. request' \in Request /\ request'.uid = request.uid
            /\ request'.type = request.type /\ request'.ready = worker.ready
        BY <2>3, <3>1 DEF Request
      <4>. QED
        BY <4>1, NoneApart
    <3>3. \A p \in PartsOf(request.type) :
            worker.ready /\ part[p] # None => part[p].owner = request.uid
      BY <2>3, <3>1, NoneApart
    <3>4. ReadyMeansOwned'
      BY <2>1, <3>2, <3>3
    <3>5. request # None /\ (seenRequest # None => seenRequest.uid = request.uid)
      BY <2>3, <3>1, NoneApart
    <3>6. KnowsReady'
      BY <2>1, <3>2, <3>5
    <3>7. UidsGrow'
      BY <2>1, <3>2, <3>5
    <3>8. OwnersKnown' /\ WorkerShaped' /\ WorkerOwns'
      BY <2>1
    <3>9. ServedIsCurrent'
      BY <2>1
    <3>. QED
      BY <3>4, <3>6, <3>7, <3>8, <3>9
  <2>. QED
    BY <1>4, <2>2, <2>3 DEF UpdateStatus
<1>. QED
  BY <1>1, <1>2, <1>3, <1>4 DEF WorkerStep

(* Every step keeps the invariant.                                         *)
LEMMA OwnerInvStep == TypeInv /\ OwnerInv /\ [Next]_vars => OwnerInv'
<1>1. ASSUME OwnerInv, UNCHANGED vars
      PROVE  OwnerInv'
  BY <1>1 DEF OwnerInv, UidsGrow, OwnersKnown, WorkerShaped, WorkerOwns,
              KnowsReady, ReadyMeansOwned, ServedIsCurrent, Same, vars,
              controller, deletions
<1>. QED
  BY <1>1, OwnerInvProvider, OwnerInvWorker, OwnerInvEnvironment
     DEF Next, RookActs

(* The inductive invariant holds in every reachable state.                 *)
LEMMA OwnersInvariant == Spec => [](TypeInv /\ OwnerInv)
BY TypeInvInit, TypeInvStep, OwnerInvInit, OwnerInvStep, PTL DEF Spec

(* reconcilePhases: a request is Ready only with CephClients and a space   *)
(* that belong to it, although names are those of an earlier request, the  *)
(* caches lag behind and the garbage collector is at work.                 *)
THEOREM ReadyRequestsOwnTheirResources == Spec => []ReadyMeansOwned
<1>1. OwnerInv => ReadyMeansOwned
  BY DEF OwnerInv
<1>. QED
  BY <1>1, OwnersInvariant, PTL

(* GetStorageClassClaimConfig: between its reads no resource of an earlier *)
(* request turns up under the names it asks for.                           *)
THEOREM NoStaleConfigIsServed == Spec => []ServedIsCurrent
<1>1. OwnerInv => ServedIsCurrent
  BY DEF OwnerInv
<1>. QED
  BY <1>1, OwnersInvariant, PTL

-----------------------------------------------------------------------------
(* Capabilities                                                            *)

(* The caches and resources of the CephClients are not those of the space. *)
LEMMA SpaceApart ==
  /\ "namespace" \in Parts
  /\ \A c \in Clients : c \in Parts /\ c # "namespace"
BY ConstantsAssumption DEF Parts

(* Initially there is no request.                                          *)
LEMMA CapsInvInit == Init => CapsInv
BY DEF Init, CapsInv, SpaceStays, FoundStays, PoolKnown, DyingExist, Live,
       IdleWorker

(* A new request owns nothing; one on its way out is not looked after.     *)
LEMMA CapsInvProvider ==
  ASSUME TypeInv, OwnerInv, CapsInv,
         \/ FulfillStorageClassClaim \/ RevokeStorageClassClaim
         \/ GetStorageClassClaimConfig \/ ReturnConfig
  PROVE  CapsInv'
<1>. USE DEF CapsInv, SpaceStays, FoundStays, PoolKnown, DyingExist, Live,
             SpaceOf, controller, deletions
<1>1. CASE FulfillStorageClassClaim
  <2>1. /\ request' # None /\ request'.uid = made + 1
        /\ UNCHANGED <<part, seenPart, worker, dying, lost>>
    BY <1>1, FulfillEffect DEF FulfillStorageClassClaim
  <2>2. /\ part["namespace"] # None => part["namespace"].owner <= made
        /\ seenPart["namespace"] # None => seenPart["namespace"].owner <= made
        /\ \A c \in Clients : part[c] # None => part[c].owner <= made
        /\ worker.req # None => worker.req.uid <= made
    BY SpaceApart DEF OwnerInv, UidsGrow, OwnersKnown
  <2>3. worker.pc = "parts" => worker.req # None
    BY DEF OwnerInv, WorkerShaped
  <2>4. \A n \in Nat : n <= made => n # made + 1
    BY UidsAreNumbers
  <2>5. /\ part["namespace"] # None => part["namespace"].owner \in Nat
        /\ seenPart["namespace"] # None => seenPart["namespace"].owner \in Nat
        /\ \A c \in Clients : part[c] # None => part[c].owner \in Nat
        /\ worker.req # None => worker.req.uid \in Nat
    BY SpaceApart, UidsAreNumbers
  <2>. QED
    BY <2>1, <2>2, <2>3, <2>4, <2>5
<1>2. CASE RevokeStorageClassClaim
  <2>1. request'.deleting /\ UNCHANGED <<part, dying>>
    BY <1>2 DEF RevokeStorageClassClaim, TypeInv, TypeOK, Request
  <2>. QED
    BY <2>1
<1>3. CASE GetStorageClassClaimConfig \/ ReturnConfig
  BY <1>3 DEF GetStorageClassClaimConfig, ReturnConfig
<1>. QED
  BY <1>1, <1>2, <1>3

(* The namespace that a live request owns vanishes only if it was on its   *)
(* way out when it was taken over, and then the request has lost it; else  *)
(* a cache brought up to date shows it again.                              *)
LEMMA CapsInvEnvironment ==
  ASSUME TypeInv, OwnerInv, CapsInv,
         \/ Restart \/ SyncRequest \/ SyncClients \/ SyncNamespaces
         \/ SyncGroups \/ CollectRequest \/ AdminDelete \/ ConsumerGone
         \/ \E p \in Parts : RookActs(p)
  PROVE  CapsInv'
<1>. USE SpaceApart
     DEF CapsInv, SpaceStays, FoundStays, PoolKnown, DyingExist, Live, SpaceOf,
         controller, deletions
<1>0. /\ \A c \in Clients : part[c] # None => part[c].owner \in UID
      /\ worker.pc = "parts" => worker.req # None /\ worker.req.uid \in UID
  <2>1. \A c \in Clients : part[c] \in Part \cup {None}
    BY DEF TypeInv, TypeOK
  <2>2. worker.pc = "parts" => worker.req \in Request
    BY DEF TypeInv, TypeOK, Worker, WorkerShaped
  <2>. QED
    BY <2>1, <2>2, NoneApart
<1>1. CASE Restart
  <2>1. /\ worker'.pc = "idle" /\ seenPart' = part
        /\ UNCHANGED <<request, part, dying, lost>>
    BY <1>1 DEF Restart, IdleWorker
  <2>. QED
    BY <1>0, <2>1
<1>2. CASE SyncRequest
  BY <1>2 DEF SyncRequest
<1>3. ASSUME NEW kind, SyncParts(kind)
      PROVE  CapsInv'
  <2>1. seenPart'["namespace"] \in {part["namespace"], seenPart["namespace"]}
    BY <1>3 DEF SyncParts
  <2>2. UNCHANGED <<request, part, worker, dying, lost>>
    BY <1>3 DEF SyncParts
  <2>. QED
    BY <1>0, <2>1, <2>2
<1>4. CASE CollectRequest \/ AdminDelete \/ ConsumerGone
  <2>1. /\ request' = None \/ request' = request
        /\ UNCHANGED <<part, seenPart, worker, dying, lost>>
    BY <1>4 DEF CollectRequest, AdminDelete, ConsumerGone
  <2>. QED
    BY <2>1
<1>5. ASSUME NEW p \in Parts, RookActs(p)
      PROVE  CapsInv'
  <2>1. /\ OwnersStay
        /\ UNCHANGED <<request, seenPart, worker>>
    BY <1>5, EnvironmentKeepsOwners
  <2>0. part[p] # None =>
          /\ [part[p] EXCEPT !.ready = TRUE] \in Part
          /\ [part[p] EXCEPT !.ready = FALSE] \in Part
          /\ [part[p] EXCEPT !.ready = TRUE].pool = part[p].pool
          /\ [part[p] EXCEPT !.ready = FALSE].pool = part[p].pool
    BY DEF TypeInv, TypeOK, Part
  <2>2. \A c \in Clients : part'[c] # None => part'[c].pool = part[c].pool
    BY <1>5, <2>0
       DEF RookActs, RookReady, RookFails, CollectPart, RookRemoves, TypeInv,
           TypeOK
  <2>3. CASE RookReady(p) \/ RookFails(p) \/ CollectPart(p)
    <3>1. /\ \A q \in Parts : part[q] # None => part'[q] # None
          /\ lost' = lost
          /\ \A q \in dying' : part[q] # None
      BY <2>0, <2>3, NoneApart
         DEF RookReady, RookFails, CollectPart, TypeInv, TypeOK
    <3>. QED
      <4>1. \A q \in dying' : q \in Parts
        BY <2>3 DEF RookReady, RookFails, CollectPart, TypeInv, TypeOK
      <4>. QED
        BY <2>1, <2>2, <3>1, <4>1 DEF OwnersStay
  <2>4. CASE RookRemoves(p)
    <3>1. /\ part' = [part EXCEPT ![p] = None] /\ dying' = dying \ {p}
          /\ \A q \in Parts \ {p} : part'[q] = part[q]
          /\ \A q \in dying : q \in Parts
          /\ lost \subseteq lost'
      BY <2>4 DEF RookRemoves, TypeInv, TypeOK
    <3>2. p = "namespace" /\ Live(part[p].owner) => part[p].owner \in lost'
      BY <2>4 DEF RookRemoves
    <3>3. SpaceStays'
      BY <2>1, <3>1, <3>2
    <3>4. FoundStays' /\ DyingExist'
      BY <2>1, <3>1
    <3>5. PoolKnown'
      BY <2>1, <2>2, <3>1 DEF OwnersStay
    <3>. QED
      BY <3>3, <3>4, <3>5
  <2>. QED
    BY <1>5, <2>3, <2>4 DEF RookActs
<1>. QED
  BY <1>1, <1>2, <1>3, <1>4, <1>5 DEF SyncClients, SyncNamespaces, SyncGroups

(* The worker's copy of a live request has its type.                       *)
LEMMA WorkerKnowsType ==
  ASSUME OwnerInv, worker.req # None, Live(worker.req.uid)
  PROVE  worker.req.type = request.type
BY DEF OwnerInv, UidsGrow, Same, Live

(* A reconcile finds the namespace that the cache shows, and names the     *)
(* pool only if it did; it does not take the namespace from its owner.     *)
LEMMA CapsInvWorker ==
  ASSUME TypeInv, OwnerInv, CapsInv, WorkerStep
  PROVE  CapsInv'
<1>. USE SpaceApart
     DEF CapsInv, SpaceStays, FoundStays, PoolKnown, DyingExist, Live, SpaceOf,
         deletions
<1>1. CASE Reconcile
  <2>1. /\ worker' = worker \/ worker'.pc = "init"
        /\ UNCHANGED <<request, part, seenPart, dying, lost>>
    BY <1>1 DEF Reconcile, IdleWorker
  <2>. QED
    BY <2>1
<1>2. CASE InitPhase
  <2>1. UNCHANGED <<request, part, seenPart, dying>>
    BY <1>2 DEF InitPhase
  <2>2. \/ worker'.pc = "status"
        \/ /\ worker'.pc = "parts" /\ worker'.req = worker.req
           /\ worker'.found = SpaceOf(worker.req.uid)
    BY <1>2, InitPhaseEffect DEF Reports, StartsParts, Found
  <2>3. CASE lost' = lost
    BY <2>1, <2>2, <2>3
  <2>4. CASE lost' # lost
    <3>1. /\ lost' = lost \ {worker.req.uid} /\ SpaceOf(worker.req.uid)
          /\ part["namespace"] # None
          /\ worker' = [worker EXCEPT !.pc = "parts",
                          !.todo = PartsOf(worker.req.type),
                          !.found = Found, !.ready = TRUE]
      BY <1>2, <2>4 DEF InitPhase, Regain, Found
    <3>2. worker \in Worker /\ worker.req # None
      BY <1>2 DEF InitPhase, TypeInv, TypeOK, OwnerInv, WorkerShaped
    <3>3. worker'.pc = "parts" /\ worker'.req = worker.req /\ worker'.found
      BY <3>1, <3>2 DEF Worker, Found
    <3>4. Live(worker.req.uid) => part["namespace"].owner = worker.req.uid
      <4>1. /\ part["namespace"].owner \in Nat /\ worker.req.uid \in Nat
            /\ seenPart["namespace"].owner <= part["namespace"].owner
            /\ part["namespace"].owner <= worker.req.uid
        BY <3>1, <3>2, UidsAreNumbers DEF OwnerInv, OwnersKnown
      <4>. QED
        BY <3>1, <4>1
    <3>5. SpaceStays'
      BY <2>1, <3>1, <3>4
    <3>6. FoundStays'
      BY <2>1, <3>1, <3>3
    <3>7. PoolKnown'
      BY <2>1, <3>1, <3>3
    <3>. QED
      BY <2>1, <3>5, <3>6, <3>7
  <2>. QED
    BY <2>3, <2>4
<1>3. ASSUME NEW p \in Parts, CreateOrUpdate(p)
      PROVE  CapsInv'
  <2>1. UNCHANGED <<request, seenPart, dying, lost>>
    BY <1>3 DEF CreateOrUpdate, deletions
  <2>2. CASE Reports /\ UNCHANGED part
    BY <2>1, <2>2 DEF Reports
  <2>3. ASSUME DealsWith(p), UNCHANGED part
        PROVE  CapsInv'
    BY <2>1, <2>3 DEF DealsWith
  <2>4. ASSUME DealsWith(p), NEW new \in Part,
               new.owner = worker.req.uid, new.pool = NamesPool(p),
               seenPart[p] = part[p], part' = [part EXCEPT ![p] = new]
        PROVE  CapsInv'
    <3>1. /\ part'[p] = new /\ new # None
          /\ \A q \in Parts \ {p} : part'[q] = part[q]
      BY <2>4, NoneApart DEF TypeInv, TypeOK
    <3>2. /\ worker'.req = worker.req /\ worker'.found = worker.found
          /\ worker.pc = "parts"
      BY <2>4 DEF DealsWith
    <3>3. worker.req # None /\ worker.req.uid \in UID
      BY <1>3, CreateOrUpdateEffect, NoneApart
    <3>4. SpaceStays'
      <4>1. CASE p = "namespace"
        <5>1. ASSUME NEW u \in UID \ lost, Live(u), SpaceOf(u)
              PROVE  worker.req.uid = u
          <6>1. part[p] # None /\ part[p].owner = u
            BY <4>1, <5>1
          <6>2. u <= worker.req.uid /\ worker.req.uid <= made
            BY <3>3, <6>1 DEF OwnerInv, UidsGrow, OwnersKnown
          <6>3. made = u
            BY <5>1 DEF OwnerInv, UidsGrow
          <6>4. u \in Nat /\ worker.req.uid \in Nat
            BY <3>3 DEF UID
          <6>. QED
            BY <6>2, <6>3, <6>4
        <5>. QED
          BY <2>1, <2>4, <3>1, <4>1, <5>1
      <4>2. CASE p # "namespace"
        BY <2>1, <3>1, <4>2
      <4>. QED
        BY <4>1, <4>2
    <3>5. FoundStays'
      BY <2>1, <3>2
    <3>6. PoolKnown'
      <4>1. ASSUME NEW c \in Clients,
                   part'[c] # None, part'[c].pool, Live(part'[c].owner),
                   part'[c].owner \notin lost, request.type = "blockpool"
            PROVE  /\ SpaceOf(part'[c].owner)
                   /\ worker'.pc = "parts" /\ worker'.req.uid = part'[c].owner
                        => worker'.found
        <5>1. CASE c = p
          <6>1. part'[c].owner = worker.req.uid /\ NamesPool(c)
            BY <2>4, <3>1, <4>1, <5>1
          <6>2. worker.req.type = "blockpool"
            BY <3>3, <4>1, <6>1, WorkerKnowsType
          <6>3. worker.found
            BY <6>1, <6>2 DEF NamesPool
          <6>. QED
            BY <3>2, <4>1, <6>1, <6>3
        <5>2. CASE c # p
          BY <3>1, <3>2, <4>1, <5>2
        <5>. QED
          BY <5>1, <5>2
      <4>. QED
        BY <2>1, <4>1
    <3>7. DyingExist'
      BY <2>1, <3>1 DEF TypeInv, TypeOK
    <3>. QED
      BY <3>4, <3>5, <3>6, <3>7
  <2>. QED
    BY <1>3, <2>2, <2>3, <2>4, CreateOrUpdateEffect
<1>4. CASE UpdateStatus
  <2>1. worker'.pc = "idle" /\ UNCHANGED <<part, seenPart, dying, lost>>
    BY <1>4 DEF UpdateStatus, IdleWorker
  <2>2. \/ UNCHANGED request
        \/ /\ request # None /\ request'.uid = request.uid
           /\ request'.type = request.type
           /\ request'.deleting = request.deleting
    <3>1. worker.req # None
      BY <1>4 DEF UpdateStatus, OwnerInv, WorkerShaped
    <3>. QED
      BY <1>4, <3>1 DEF UpdateStatus, TypeInv, TypeOK, Request
  <2>. QED
    BY <2>1, <2>2
<1>. QED
  BY <1>1, <1>2, <1>3, <1>4 DEF WorkerStep

(* Every step keeps the invariant.                                         *)
LEMMA CapsInvStep == TypeInv /\ OwnerInv /\ CapsInv /\ [Next]_vars => CapsInv'
<1>1. ASSUME CapsInv, UNCHANGED vars
      PROVE  CapsInv'
  BY <1>1 DEF CapsInv, SpaceStays, FoundStays, PoolKnown, DyingExist, Live,
              SpaceOf, vars, controller, deletions
<1>. QED
  BY <1>1, CapsInvProvider, CapsInvWorker, CapsInvEnvironment
     DEF Next, RookActs

(* The inductive invariant holds in every reachable state.                 *)
LEMMA CapsInvariant == Spec => [](TypeInv /\ OwnerInv /\ CapsInv)
BY TypeInvInit, TypeInvStep, OwnerInvInit, OwnerInvStep, CapsInvInit,
   CapsInvStep, PTL DEF Spec

(* Only CreateOrUpdate writes capabilities.                                *)
LEMMA CapsWriter ==
  ASSUME TypeInv, Next, NEW c \in Clients, part[c] # None, part'[c] # None,
         part'[c].pool # part[c].pool
  PROVE  CreateOrUpdate(c)
<1>. USE SpaceApart
<1>1. part'[c] # part[c]
  OBVIOUS
<1>2. ASSUME NEW p \in Parts, RookActs(p)
      PROVE  FALSE
  <2>1. part[p] # None => [part[p] EXCEPT !.ready = TRUE].pool = part[p].pool
                       /\ [part[p] EXCEPT !.ready = FALSE].pool = part[p].pool
    BY DEF TypeInv, TypeOK, Part
  <2>. QED
    BY <1>2, <2>1
       DEF RookActs, RookReady, RookFails, CollectPart, RookRemoves, TypeInv,
           TypeOK
<1>3. ASSUME NEW p \in Parts, CreateOrUpdate(p)
      PROVE  CreateOrUpdate(c)
  <2>1. CASE p = c
    BY <1>3, <2>1
  <2>2. CASE p # c
    <3>1. UNCHANGED part \/ \E new \in Part : part' = [part EXCEPT ![p] = new]
      BY <1>3, CreateOrUpdateEffect
    <3>. QED
      BY <1>1, <2>2, <3>1 DEF TypeInv, TypeOK
  <2>. QED
    BY <2>1, <2>2
<1>4. UNCHANGED part \/ \E p \in Parts :
        RookActs(p) \/ CreateOrUpdate(p)
  BY DEF Next, RookActs, FulfillStorageClassClaim, RevokeStorageClassClaim,
         GetStorageClassClaimConfig, ReturnConfig, WorkerStep, Reconcile,
         InitPhase, UpdateStatus, Restart, SyncRequest, SyncClients,
         SyncNamespaces, SyncGroups, SyncParts, CollectRequest, AdminDelete,
         ConsumerGone
<1>. QED
  BY <1>1, <1>2, <1>3, <1>4

(* reconcileCephClientRBDProvisioner and -Node blank the pool of a live    *)
(* request only after a namespace that it took over on its way out has     *)
(* vanished, and only until the one made again is found: every other       *)
(* namespace stays once the cache shows it.                                *)
THEOREM CapabilitiesAreKept == Spec => CapsKept
<1>1. ASSUME TypeInv, OwnerInv, CapsInv, Next,
             NEW c \in Clients,
             part[c] # None, part[c].pool,
             part'[c] # None, part'[c].owner = part[c].owner,
             Live(part[c].owner), part[c].owner \notin lost
      PROVE  part'[c].pool
  <2>. SUFFICES ASSUME ~part'[c].pool PROVE FALSE
    OBVIOUS
  <2>1. CreateOrUpdate(c)
    BY <1>1, CapsWriter
  <2>2. c \in Parts
    BY SpaceApart
  <2>3. /\ worker.pc = "parts" /\ worker.req \in Request
        /\ part'[c] # part[c] =>
             part'[c].owner = worker.req.uid /\ part'[c].pool = NamesPool(c)
    BY <1>1, <2>1, <2>2, CreateOrUpdateEffect DEF TypeInv, TypeOK
  <2>4. worker.req.uid = part[c].owner /\ ~NamesPool(c)
    BY <1>1, <2>3
  <2>5. worker.req.type = request.type
    BY <1>1, <2>3, <2>4, WorkerKnowsType, NoneApart
  <2>. QED
    BY <1>1, <2>3, <2>4, <2>5 DEF NamesPool, CapsInv, PoolKnown
<1>2. ASSUME TypeInv, OwnerInv, CapsInv, [Next]_vars
      PROVE  [\A p \in Clients :
                /\ part[p] # None /\ part[p].pool
                /\ part'[p] # None /\ part'[p].owner = part[p].owner
                /\ Live(part[p].owner) /\ part[p].owner \notin lost
                => part'[p].pool]_vars
  BY <1>1, <1>2
<1>. QED
  BY <1>2, CapsInvariant, PTL DEF Spec, CapsKept
=============================================================================
