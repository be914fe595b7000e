-------------------------- MODULE ConsumerManager --------------------------
(***************************************************************************)
(* The StorageConsumer half of the provider server                         *)
(* (services/provider/server): concurrent gRPC handlers that read and      *)
(* write StorageConsumer resources through the API server, and the two     *)
(* in-memory maps, nameByTicket and nameByUID, they keep beside it.        *)
(*                                                                         *)
(* A handler runs in a thread.  Every section under the manager's mutex    *)
(* and every call to the API server is one step, so two handlers           *)
(* interleave exactly where the code releases the lock or waits for the    *)
(* API server.                                                             *)
(***************************************************************************)
EXTENDS Naturals

CONSTANTS
  Names,        \* names a client may ask to be onboarded under
  Tickets,      \* onboarding tickets with a valid signature
  UIDs,         \* UIDs the API server can mint; bounds the creations of a run
  Threads,      \* concurrent gRPC handlers
  LostReplies,  \* may the API server apply a Create and its reply be lost?
  None          \* absent map entry, absent resource, unset field

(* The phases of StorageConsumer.status.state that the code writes.        *)
StorageConsumerStates == {"", "Disabled", "Configuring", "Ready", "Deleting"}

(* A StorageConsumer resource, without the versions and the time of the    *)
(* last heartbeat that status.client and status.lastHeartbeat hold.        *)
Consumer == [uid: UIDs, ticket: Tickets, enable: BOOLEAN, deleting: BOOLEAN,
             state: StorageConsumerStates]

(* None is no name, ticket or UID, and no resource; replies are either     *)
(* delivered or may be lost.                                               *)
ASSUME ConstantsAssumption ==
  /\ None \notin Names \cup Tickets \cup UIDs
  /\ None \notin Consumer
  /\ LostReplies \in BOOLEAN

UidOps == {"Acknowledge", "GetConfig", "Offboard", "Report"}

Pcs == {"idle", "ticketCheck", "apiCreate", "record", "getByName", "lookup",
        "apiGet", "serve", "apiUpdate", "apiDelete", "forget"}

Call == [pc: Pcs, op: UidOps \cup {"Onboard", None}, name: Names \cup {None},
         ticket: Tickets \cup {None}, uid: UIDs \cup {None},
         obj: Consumer \cup {None}]

VARIABLES
  store,         \* the StorageConsumer resources, by name
  minted,        \* the UIDs the API server has given out
  nameByTicket,  \* ocsConsumerManager.nameByTicket
  nameByUID,     \* ocsConsumerManager.nameByUID
  call,          \* what each handler is doing
  issued         \* the UIDs clients have been told; they never forget one

vars == <<store, minted, nameByTicket, nameByUID, call, issued>>

TypeOK ==
  /\ store \in [Names -> Consumer \cup {None}]
  /\ minted \in SUBSET UIDs
  /\ nameByTicket \in [Tickets -> Names \cup {None}]
  /\ nameByUID \in [UIDs -> Names \cup {None}]
  /\ call \in [Threads -> Call]
  /\ issued \in SUBSET UIDs

IdleCall == [pc |-> "idle", op |-> None, name |-> None, ticket |-> None,
             uid |-> None, obj |-> None]

Init ==
  /\ store = [n \in Names |-> None]
  /\ minted = {}
  /\ nameByTicket = [k \in Tickets |-> None]
  /\ nameByUID = [u \in UIDs |-> None]
  /\ call = [t \in Threads |-> IdleCall]
  /\ issued = {}

Live(n) == store[n] # None

Resume(t, c) == call' = [call EXCEPT ![t] = c]

(* The handler of t answers its client, with success or with an error.  Of *)
(* the answers only a UID matters to later calls: it is kept in issued.    *)
Return(t) == Resume(t, IdleCall)

-----------------------------------------------------------------------------
(* OnboardConsumer and ocsConsumerManager.Create                           *)

(* A client with a matching version and a valid ticket; any other is       *)
(* refused before the maps or the resources are read.                      *)
OnboardConsumer(t, n, k) ==
  /\ call[t].pc = "idle"
  /\ Resume(t, [IdleCall EXCEPT !.pc = "ticketCheck", !.op = "Onboard",
                                !.name = n, !.ticket = k])
  /\ UNCHANGED <<store, minted, nameByTicket, nameByUID, issued>>

(* The section under RLock: a ticket in the map sends the handler straight *)
(* to the resource of the requested name.                                  *)
CheckTicket(t) ==
  /\ call[t].pc = "ticketCheck"
  /\ LET next == IF nameByTicket[call[t].ticket] # None
                   THEN "getByName"
                   ELSE "apiCreate"
     IN  Resume(t, [call[t] EXCEPT !.pc = next])
  /\ UNCHANGED <<store, minted, nameByTicket, nameByUID, issued>>

(* Mutant: the resource is created without its ticket annotation.          *)
NewConsumerWithoutTicket(u, k) ==
  [uid |-> u, ticket |-> None, enable |-> FALSE, deleting |-> FALSE,
   state |-> ""]

NewConsumer(u, k) ==
  [uid |-> u, ticket |-> k, enable |-> FALSE, deleting |-> FALSE,
   state |-> ""]

(* client.Create: the name is taken, the resource is created, or it is     *)
(* created and only the reply is lost.                                     *)
ApiCreate(t) ==
  /\ call[t].pc = "apiCreate"
  /\ \/ /\ Live(call[t].name)
        /\ Resume(t, [call[t] EXCEPT !.pc = "getByName"])
        /\ UNCHANGED <<store, minted>>
     \/ /\ ~Live(call[t].name)
        /\ \E u \in UIDs \ minted :
             /\ store' = [store EXCEPT
                            ![call[t].name] = NewConsumer(u, call[t].ticket)]
             /\ minted' = minted \cup {u}
             /\ \/ Resume(t, [call[t] EXCEPT !.pc = "record", !.uid = u])
                \/ LostReplies /\ Return(t)
  /\ UNCHANGED <<nameByTicket, nameByUID, issued>>

(* The section under Lock that enters a created consumer in both maps.     *)
Record(t) ==
  /\ call[t].pc = "record"
  /\ nameByUID' = [nameByUID EXCEPT ![call[t].uid] = call[t].name]
  /\ nameByTicket' = [nameByTicket EXCEPT ![call[t].ticket] = call[t].name]
  /\ issued' = issued \cup {call[t].uid}
  /\ Return(t)
  /\ UNCHANGED <<store, minted>>

(* The ticket or the name is taken: a consumer that is not yet enabled is  *)
(* a retry of the same onboarding and its UID is returned again.           *)
GetByName(t) ==
  /\ call[t].pc = "getByName"
  /\ LET cur == store[call[t].name]
     IN  issued' = IF cur # None /\ ~cur.enable
                     THEN issued \cup {cur.uid}
                     ELSE issued
  /\ Return(t)
  /\ UNCHANGED <<store, minted, nameByTicket, nameByUID>>

-----------------------------------------------------------------------------
(* AcknowledgeOnboarding, GetStorageConfig, OffboardConsumer, ReportStatus *)

(* A client calls with a UID it was given once.  ReportStatus refuses a    *)
(* malformed version before the maps are read.                             *)
UidCall(t, op, u) ==
  /\ call[t].pc = "idle"
  /\ Resume(t, [IdleCall EXCEPT !.pc = "lookup", !.op = op, !.uid = u])
  /\ UNCHANGED <<store, minted, nameByTicket, nameByUID, issued>>

(* The section under RLock of Get and Delete.  Offboarding a UID the map   *)
(* does not hold is reported as done.                                      *)
Lookup(t) ==
  /\ call[t].pc = "lookup"
  /\ LET name == nameByUID[call[t].uid]
         next == IF call[t].op = "Offboard" THEN "apiDelete" ELSE "apiGet"
     IN  IF name # None
           THEN Resume(t, [call[t] EXCEPT !.name = name, !.pc = next])
           ELSE Return(t)
  /\ UNCHANGED <<store, minted, nameByTicket, nameByUID, issued>>

(* client.Get by the name found: the resource is gone, or GetStorageConfig *)
(* goes on if its state is Ready, or the handler keeps the copy to update. *)
ApiGet(t) ==
  /\ call[t].pc = "apiGet"
  /\ LET cur == store[call[t].name]
         held == [call[t] EXCEPT !.obj = cur]
     IN  \/ /\ cur = None
            /\ Resume(t, [call[t] EXCEPT !.pc = "forget"])
         \/ /\ cur # None
            /\ call[t].op \in {"Acknowledge", "Report"}
            /\ Resume(t, [held EXCEPT !.pc = "apiUpdate"])
         \/ /\ cur # None
            /\ call[t].op = "GetConfig"
            /\ cur.state = "Ready"
            /\ Resume(t, [held EXCEPT !.pc = "serve"])
         \/ /\ cur # None
            /\ call[t].op = "GetConfig"
            /\ cur.state # "Ready"
            /\ Return(t)
  /\ UNCHANGED <<store, minted, nameByTicket, nameByUID, issued>>

(* getExternalResources reads the mon endpoints and the CephClient of the  *)
(* consumer it holds and hands them out.                                   *)
GetExternalResources(t) ==
  /\ call[t].pc = "serve"
  /\ Return(t)
  /\ UNCHANGED <<store, minted, nameByTicket, nameByUID, issued>>

(* Mutant: a write that is accepted whatever version it was computed from. *)
AnyVersion(obj, cur) == cur # None /\ cur.uid = obj.uid

(* Both updates write back the object that Get returned, with its version: *)
(* the API server accepts it only on that version.  A resource that has    *)
(* changed and changed back is accepted too, which allows more than the    *)
(* API server does.                                                        *)
SameVersion(obj, cur) == cur = obj

(* EnableStorageConsumer updates the spec, UpdateConsumerStatus the whole  *)
(* status: the state it writes back is the one it read.                    *)
Updated(op, obj, cur) ==
  IF op = "Acknowledge"
    THEN [cur EXCEPT !.enable = TRUE]
    ELSE [cur EXCEPT !.state = obj.state]

(* client.Update and client.Status().Update.                               *)
ApiUpdate(t) ==
  /\ call[t].pc = "apiUpdate"
  /\ LET n == call[t].name
     IN  \/ /\ SameVersion(call[t].obj, store[n])
            /\ store' = [store EXCEPT
                           ![n] = Updated(call[t].op, call[t].obj, @)]
         \/ /\ ~SameVersion(call[t].obj, store[n])
            /\ UNCHANGED store
  /\ Return(t)
  /\ UNCHANGED <<minted, nameByTicket, nameByUID, issued>>

(* client.Delete by name, with foreground propagation and no precondition  *)
(* on the UID.                                                             *)
ApiDelete(t) ==
  /\ call[t].pc = "apiDelete"
  /\ LET n == call[t].name
     IN  \/ /\ Live(n)
            /\ store' = [store EXCEPT ![n].deleting = TRUE]
         \/ /\ ~Live(n)
            /\ UNCHANGED store
  /\ Resume(t, [call[t] EXCEPT !.pc = "forget"])
  /\ UNCHANGED <<minted, nameByTicket, nameByUID, issued>>

(* The section under Lock of Delete and of Get's not-found path.           *)
Forget(t) ==
  /\ call[t].pc = "forget"
  /\ nameByUID' = [nameByUID EXCEPT ![call[t].uid] = None]
  /\ Return(t)
  /\ UNCHANGED <<store, minted, nameByTicket, issued>>

(* Mutant: the UID is dropped from the map although the call failed.       *)
ApiFailedForgets(t) ==
  /\ call[t].pc \in {"apiCreate", "getByName", "apiGet", "serve",
                     "apiUpdate", "apiDelete"}
  /\ Return(t)
  /\ nameByUID' = IF call[t].uid = None
                    THEN nameByUID
                    ELSE [nameByUID EXCEPT ![call[t].uid] = None]
  /\ UNCHANGED <<store, minted, nameByTicket, issued>>

(* Any call to the API server may fail without having had an effect.       *)
ApiFailed(t) ==
  /\ call[t].pc \in {"apiCreate", "getByName", "apiGet", "serve",
                     "apiUpdate", "apiDelete"}
  /\ Return(t)
  /\ UNCHANGED <<store, minted, nameByTicket, nameByUID, issued>>

-----------------------------------------------------------------------------
(* Mutant: a restart that does not read the ticket annotations back.       *)
RestartForgetsTickets ==
  /\ nameByUID' = [u \in UIDs |->
       IF \E n \in Names : Live(n) /\ store[n].uid = u
         THEN CHOOSE n \in Names : Live(n) /\ store[n].uid = u
         ELSE None]
  /\ nameByTicket' = [k \in Tickets |-> None]
  /\ call' = [t \in Threads |-> IdleCall]
  /\ UNCHANGED <<store, minted, issued>>

(* The server process ends at any point and a new one starts: handlers in  *)
(* flight are lost, newConsumerManager rebuilds both maps from the         *)
(* resources and their ticket annotations.  Of two consumers that carry    *)
(* one ticket either may end up in nameByTicket, as the list is read in    *)
(* no particular order.                                                    *)
Restart ==
  /\ nameByUID' = [u \in UIDs |->
       IF \E n \in Names : Live(n) /\ store[n].uid = u
         THEN CHOOSE n \in Names : Live(n) /\ store[n].uid = u
         ELSE None]
  /\ nameByTicket' \in [Tickets -> Names \cup {None}]
  /\ \A k \in Tickets :
       LET holders == {n \in Names : Live(n) /\ store[n].ticket = k}
       IN  nameByTicket'[k] \in IF holders = {} THEN {None} ELSE holders
  /\ call' = [t \in Threads |-> IdleCall]
  /\ UNCHANGED <<store, minted, issued>>

-----------------------------------------------------------------------------
(* What others do to StorageConsumer resources                             *)

(* Mutant: the controller configures consumers that are not enabled.       *)
ControllerIgnoresEnable(obj) ==
  IF obj.deleting THEN {"Deleting"} ELSE {"Configuring", "Ready"}

(* The state the StorageConsumer controller may write for what it read: it *)
(* looks at spec.enable first and at the deletion timestamp only then.     *)
ControllerStates(obj) ==
  IF ~obj.enable
    THEN {"Disabled"}
    ELSE IF obj.deleting THEN {"Deleting"} ELSE {"Configuring", "Ready"}

(* The controller's status update, accepted on the version it read.        *)
ControllerUpdatesState(n) ==
  /\ Live(n)
  /\ \E s \in ControllerStates(store[n]) :
       store' = [store EXCEPT ![n].state = s]
  /\ UNCHANGED <<minted, nameByTicket, nameByUID, call, issued>>

(* The garbage collector ends a foreground deletion.                       *)
CollectConsumer(n) ==
  /\ Live(n)
  /\ store[n].deleting
  /\ store' = [store EXCEPT ![n] = None]
  /\ UNCHANGED <<minted, nameByTicket, nameByUID, call, issued>>

(* An administrator deletes the resource.  It carries no finalizer and the *)
(* default propagation is background: it is gone at once.                  *)
AdminDelete(n) ==
  /\ Live(n)
  /\ ~store[n].deleting
  /\ store' = [store EXCEPT ![n] = None]
  /\ UNCHANGED <<minted, nameByTicket, nameByUID, call, issued>>

-----------------------------------------------------------------------------
HandlerStep(t) ==
  \/ CheckTicket(t)
  \/ ApiCreate(t)
  \/ Record(t)
  \/ GetByName(t)
  \/ Lookup(t)
  \/ ApiGet(t)
  \/ GetExternalResources(t)
  \/ ApiUpdate(t)
  \/ ApiDelete(t)
  \/ Forget(t)
  \/ ApiFailed(t)

Request(t) ==
  \/ \E n \in Names, k \in Tickets : OnboardConsumer(t, n, k)
  \/ \E op \in UidOps, u \in issued : UidCall(t, op, u)

Environment ==
  \E n \in Names :
    \/ ControllerUpdatesState(n)
    \/ CollectConsumer(n)
    \/ AdminDelete(n)

Next ==
  \/ \E t \in Threads : HandlerStep(t) \/ Request(t)
  \/ Restart
  \/ Environment

Spec == Init /\ [][Next]_vars

-----------------------------------------------------------------------------
(* Properties                                                              *)

(* A handler has created u and not yet entered it in the maps.             *)
Recording(u) == \E t \in Threads : call[t].pc = "record" /\ call[t].uid = u

(* Every consumer that is not being deleted can be found by its UID, or    *)
(* the handler that created it is about to enter it: Create, Get and       *)
(* Delete (consumer.go) never leave a live consumer out of nameByUID, for  *)
(* such a consumer could be neither acknowledged nor offboarded.           *)
CacheAccountsForStore ==
  \A n \in Names :
    Live(n) /\ ~store[n].deleting =>
      nameByUID[store[n].uid] = n \/ Recording(store[n].uid)

(* The ticket of a consumer that exists is in nameByTicket or about to be: *)
(* also across restarts, Create (consumer.go) knows every ticket that a    *)
(* resource carries.                                                       *)
TicketsAccountedFor ==
  \A n \in Names :
    Live(n) => \/ nameByTicket[store[n].ticket] # None
               \/ Recording(store[n].uid)

(* GetStorageConfig (server.go) hands the connection details only to a     *)
(* consumer whose onboarding has been acknowledged.                        *)
ConfigOnlyAfterAcknowledge ==
  \A t \in Threads : call[t].pc = "serve" => call[t].obj.enable

(* The lifecycle phase of a resource, and of the consumer with UID u.      *)
ConsumerPhase(c) ==
  IF c.deleting THEN "deleting"
  ELSE IF ~c.enable THEN "pending"
  ELSE IF c.state \in {"Configuring", "Ready"} THEN "configured"
  ELSE "enabled"

Holds(n, u) == Live(n) /\ store[n].uid = u

PhaseOf(u) ==
  IF u \notin minted THEN "none"
  ELSE IF \E n \in Names : Holds(n, u)
    THEN ConsumerPhase(store[CHOOSE n \in Names : Holds(n, u)])
    ELSE "gone"

Lifecycle == INSTANCE ConsumerLifecycle
               WITH phase <- [u \in UIDs |-> PhaseOf(u)]

(* Every consumer goes through the lifecycle of ConsumerLifecycle, in that *)
(* order and never back: creation, acknowledgement, configuration and      *)
(* deletion (consumer.go, storageconsumer_controller.go) each apply once.  *)
ImplementsLifecycle == Lifecycle!Spec

(* A ticket onboards one consumer: "Create consumer should fail if ticket  *)
(* is already used" (consumer_test.go).                                    *)
OneConsumerPerTicket ==
  \A m, n \in Names :
    Live(m) /\ Live(n) /\ store[m].ticket = store[n].ticket => m = n

-----------------------------------------------------------------------------
(* Inductive invariants                                                    *)

(* What a handler has set by the time it reaches a step.                   *)
OnboardPcs == {"ticketCheck", "apiCreate", "getByName", "record"}
FoundPcs == {"record", "apiGet", "serve", "apiUpdate", "apiDelete", "forget"}

Shaped(c) ==
  /\ c.pc \in OnboardPcs => c.name \in Names /\ c.ticket \in Tickets
  /\ c.pc \in FoundPcs => c.name \in Names /\ c.uid \in UIDs
  /\ c.pc = "lookup" => c.uid \in UIDs
  /\ c.pc \in {"serve", "apiUpdate"} => c.obj \in Consumer
  /\ c.pc = "apiUpdate" => c.op \in {"Acknowledge", "Report"}

CallsShaped == \A t \in Threads : Shaped(call[t])

(* UIDs are given out once and to one resource, and nothing but the API    *)
(* server invents one.                                                     *)
UidsGivenOnce ==
  /\ \A n \in Names : Live(n) => store[n].uid \in minted
  /\ \A m, n \in Names :
       Live(m) /\ Live(n) /\ store[m].uid = store[n].uid => m = n
  /\ issued \subseteq minted
  /\ \A u \in UIDs : nameByUID[u] # None => u \in minted
  /\ \A t \in Threads : call[t].uid # None => call[t].uid \in minted

(* The map and the handlers may hold a UID whose resource is gone, but     *)
(* never the wrong name for one that exists.                               *)
NamesOfUids ==
  \A n \in Names :
    Live(n) =>
      /\ nameByUID[store[n].uid] \in {n, None}
      /\ \A t \in Threads :
           call[t].pc \in FoundPcs /\ call[t].uid = store[n].uid =>
             call[t].name = n

(* A configured consumer is enabled, also in the copy a handler serves.    *)
EnabledBeforeConfigured ==
  /\ \A n \in Names :
       Live(n) /\ store[n].state \in {"Configuring", "Ready"} =>
         store[n].enable
  /\ ConfigOnlyAfterAcknowledge

ConsumerInv ==
  /\ TypeOK
  /\ CallsShaped
  /\ UidsGivenOnce
  /\ NamesOfUids
  /\ EnabledBeforeConfigured

(* A UID is dropped from the map only once its resource is on its way out, *)
(* and the maps are completed with the ticket the resource carries.        *)
HandlersKeepAccount ==
  \A t \in Threads, n \in Names :
    Live(n) /\ store[n].uid = call[t].uid =>
      /\ call[t].pc = "forget" => store[n].deleting
      /\ call[t].pc = "record" => store[n].ticket = call[t].ticket

AccountInv ==
  /\ HandlersKeepAccount
  /\ CacheAccountsForStore
  /\ TicketsAccountedFor
=============================================================================
