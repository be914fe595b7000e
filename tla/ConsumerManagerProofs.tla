----------------------- MODULE ConsumerManagerProofs -----------------------
(***************************************************************************)
(* Proofs about ConsumerManager, for any number of names, tickets, UIDs    *)
(* and handlers.                                                           *)
(***************************************************************************)
EXTENDS ConsumerManager, TLAPS

-----------------------------------------------------------------------------
(* Types                                                                   *)

TypeInv == TypeOK /\ CallsShaped

(* A handler that has returned is typed.                                   *)
LEMMA IdleCallType == IdleCall \in Call /\ Shaped(IdleCall)
BY DEF IdleCall, Call, Pcs, Shaped, OnboardPcs, FoundPcs

(* A step of one handler keeps all handlers typed when its own new record  *)
(* is.                                                                     *)
LEMMA ResumeType ==
  ASSUME TypeInv, NEW t \in Threads, NEW c \in Call, Shaped(c), Resume(t, c)
  PROVE  call' \in [Threads -> Call] /\ CallsShaped'
BY DEF TypeInv, TypeOK, Resume, CallsShaped

(* Every handler step and every request keeps all variables in their       *)
(* types.                                                                  *)
LEMMA HandlerType ==
  ASSUME TypeInv, NEW t \in Threads, HandlerStep(t) \/ Request(t)
  PROVE  TypeInv'
<1>0. call[t] \in Call /\ Shaped(call[t])
  BY DEF TypeInv, TypeOK, CallsShaped
<1>a. TypeOK /\ CallsShaped
  BY DEF TypeInv
<1> USE DEF Shaped, OnboardPcs, FoundPcs
<1>1. ASSUME NEW n \in Names, NEW k \in Tickets, OnboardConsumer(t, n, k)
      PROVE  TypeInv'
  <2> DEFINE c == [IdleCall EXCEPT !.pc = "ticketCheck", !.op = "Onboard",
                                   !.name = n, !.ticket = k]
  <2>1. c \in Call /\ Shaped(c)
    BY DEF IdleCall, Call, Pcs
  <2>2. Resume(t, c)
    BY <1>1 DEF OnboardConsumer
  <2> QED BY <1>1, <1>a, <2>1, <2>2, ResumeType
          DEF OnboardConsumer, TypeInv, TypeOK
<1>2. CASE CheckTicket(t)
  <2> DEFINE next == IF nameByTicket[call[t].ticket] # None
                       THEN "getByName" ELSE "apiCreate"
             c == [call[t] EXCEPT !.pc = next]
  <2>1. c \in Call /\ Shaped(c)
    BY <1>0, <1>2 DEF Call, Pcs, CheckTicket
  <2>2. Resume(t, c)
    BY <1>2 DEF CheckTicket
  <2> QED BY <1>2, <1>a, <2>1, <2>2, ResumeType
          DEF CheckTicket, TypeInv, TypeOK
<1>3. CASE ApiCreate(t)
  <2>1. CASE Live(call[t].name)
    <3> DEFINE c == [call[t] EXCEPT !.pc = "getByName"]
    <3>1. c \in Call /\ Shaped(c)
      BY <1>0, <1>3 DEF Call, Pcs, ApiCreate
    <3>2. Resume(t, c) /\ UNCHANGED <<store, minted>>
      BY <1>3, <2>1 DEF ApiCreate
    <3> QED BY <1>3, <1>a, <3>1, <3>2, ResumeType
            DEF ApiCreate, TypeInv, TypeOK
  <2>2. CASE ~Live(call[t].name)
    <3>1. PICK u \in UIDs \ minted :
            /\ store' = [store EXCEPT
                           ![call[t].name] = NewConsumer(u, call[t].ticket)]
            /\ minted' = minted \cup {u}
            /\ \/ Resume(t, [call[t] EXCEPT !.pc = "record", !.uid = u])
               \/ LostReplies /\ Return(t)
      BY <1>3, <2>2 DEF ApiCreate
    <3> DEFINE c == [call[t] EXCEPT !.pc = "record", !.uid = u]
    <3>2. c \in Call /\ Shaped(c)
      BY <1>0, <1>3 DEF Call, Pcs, ApiCreate
    <3>3. call' \in [Threads -> Call] /\ CallsShaped'
      BY <3>1, <3>2, ResumeType, IdleCallType DEF Return
    <3>4. NewConsumer(u, call[t].ticket) \in Consumer
      BY <1>0, <1>3
         DEF ApiCreate, NewConsumer, Consumer, StorageConsumerStates
    <3>5. store' \in [Names -> Consumer \cup {None}] /\ minted' \in SUBSET UIDs
      BY <3>1, <3>4, <1>a DEF TypeOK
    <3> QED BY <1>3, <1>a, <3>5, <3>3 DEF ApiCreate, TypeInv, TypeOK
  <2> QED BY <2>1, <2>2
<1>4. CASE Record(t)
  <2>1. call' \in [Threads -> Call] /\ CallsShaped'
    BY <1>4, ResumeType, IdleCallType DEF Record, Return
  <2>2. call[t].name \in Names /\ call[t].uid \in UIDs
    BY <1>4, <1>0 DEF Record
  <2> QED BY <1>4, <1>a, <2>1, <2>2 DEF Record, TypeInv, TypeOK
<1>5. CASE GetByName(t)
  <2>1. call' \in [Threads -> Call] /\ CallsShaped'
    BY <1>5, ResumeType, IdleCallType DEF GetByName, Return
  <2>2. call[t].name \in Names
    BY <1>5, <1>0 DEF GetByName
  <2>3. store[call[t].name] # None => store[call[t].name].uid \in UIDs
    BY <2>2, <1>a DEF TypeOK, Consumer
  <2>4. issued' \in SUBSET UIDs
    BY <1>5, <1>a, <2>3 DEF GetByName, TypeOK
  <2> QED BY <1>5, <1>a, <2>1, <2>4 DEF GetByName, TypeInv, TypeOK
<1>6. ASSUME NEW op \in UidOps, NEW u \in issued, UidCall(t, op, u)
      PROVE  TypeInv'
  <2> DEFINE c == [IdleCall EXCEPT !.pc = "lookup", !.op = op, !.uid = u]
  <2>1. u \in UIDs
    BY <1>6, <1>a DEF TypeOK
  <2>2. c \in Call /\ Shaped(c)
    BY <2>1 DEF IdleCall, Call, Pcs
  <2>3. Resume(t, c)
    BY <1>6 DEF UidCall
  <2> QED BY <1>6, <1>a, <2>2, <2>3, ResumeType DEF UidCall, TypeInv, TypeOK
<1>7. CASE Lookup(t)
  <2> DEFINE next == IF call[t].op = "Offboard" THEN "apiDelete" ELSE "apiGet"
             name == nameByUID[call[t].uid]
             c == [call[t] EXCEPT !.name = name, !.pc = next]
  <2>1. name \in Names \cup {None}
    BY <1>7, <1>a, <1>0 DEF Lookup, TypeOK
  <2>2. name # None => c \in Call /\ Shaped(c)
    BY <1>0, <1>7, <2>1 DEF Call, Pcs, Lookup
  <2>3. name # None => Resume(t, c)
    BY <1>7 DEF Lookup
  <2>4. name = None => Return(t)
    BY <1>7 DEF Lookup
  <2>5. call' \in [Threads -> Call] /\ CallsShaped'
    BY <2>1, <2>2, <2>3, <2>4, ResumeType, IdleCallType DEF Return
  <2> QED BY <1>7, <1>a, <2>5 DEF Lookup, TypeInv, TypeOK
<1>8. CASE ApiGet(t)
  <2> DEFINE cur == store[call[t].name]
             c(p) == [[call[t] EXCEPT !.obj = cur] EXCEPT !.pc = p]
             d == [call[t] EXCEPT !.pc = "forget"]
  <2>1. call[t].name \in Names /\ call[t].uid \in UIDs
    BY <1>8, <1>0 DEF ApiGet
  <2>2. cur \in Consumer \cup {None}
    BY <2>1, <1>a DEF TypeOK
  <2>3. d \in Call /\ Shaped(d)
    BY <1>0, <2>1 DEF Call, Pcs
  <2>4. cur # None => c("serve") \in Call /\ Shaped(c("serve"))
    BY <1>0, <2>1, <2>2 DEF Call, Pcs
  <2>5. cur # None /\ call[t].op \in {"Acknowledge", "Report"} =>
          c("apiUpdate") \in Call /\ Shaped(c("apiUpdate"))
    BY <1>0, <2>1, <2>2 DEF Call, Pcs
  <2>6. \/ Resume(t, d)
        \/ cur # None /\ call[t].op \in {"Acknowledge", "Report"}
           /\ Resume(t, c("apiUpdate"))
        \/ cur # None /\ Resume(t, c("serve"))
        \/ Return(t)
    BY <1>8 DEF ApiGet
  <2> HIDE DEF cur, c, d
  <2>7. call' \in [Threads -> Call] /\ CallsShaped'
    BY <2>3, <2>4, <2>5, <2>6, ResumeType, IdleCallType DEF Return
  <2> QED BY <1>8, <1>a, <2>7 DEF ApiGet, TypeInv, TypeOK
<1>9. CASE ApiUpdate(t)
  <2> DEFINE n == call[t].name
             obj == call[t].obj
  <2>1. call' \in [Threads -> Call] /\ CallsShaped'
    BY <1>9, ResumeType, IdleCallType DEF ApiUpdate, Return
  <2>2. n \in Names /\ obj \in Consumer
    BY <1>9, <1>0 DEF ApiUpdate
  <2>3. obj = store[n] => Updated(call[t].op, obj, store[n]) \in Consumer
    BY <2>2 DEF Updated, Consumer
  <2>4. \/ /\ obj = store[n]
           /\ store' = [store EXCEPT ![n] = Updated(call[t].op, obj, store[n])]
        \/ UNCHANGED store
    BY <1>9 DEF ApiUpdate, SameVersion
  <2>5. store' \in [Names -> Consumer \cup {None}]
    BY <1>a, <2>2, <2>3, <2>4 DEF TypeOK
  <2> QED BY <1>9, <1>a, <2>1, <2>5 DEF ApiUpdate, TypeInv, TypeOK
<1>10. CASE ApiDelete(t)
  <2> DEFINE n == call[t].name
             c == [call[t] EXCEPT !.pc = "forget"]
  <2>1. n \in Names /\ call[t].uid \in UIDs
    BY <1>10, <1>0 DEF ApiDelete
  <2>2. c \in Call /\ Shaped(c)
    BY <1>0, <2>1 DEF Call, Pcs
  <2>3. Resume(t, c)
    BY <1>10 DEF ApiDelete
  <2>4. call' \in [Threads -> Call] /\ CallsShaped'
    BY <2>2, <2>3, ResumeType
  <2>5. \/ Live(n) /\ store' = [store EXCEPT ![n].deleting = TRUE]
        \/ UNCHANGED store
    BY <1>10 DEF ApiDelete
  <2>6. Live(n) => [store[n] EXCEPT !.deleting = TRUE] \in Consumer
    BY <1>a, <2>1 DEF TypeOK, Live, Consumer
  <2>7. store' \in [Names -> Consumer \cup {None}]
    BY <1>a, <2>1, <2>5, <2>6 DEF TypeOK
  <2> QED BY <1>10, <1>a, <2>4, <2>7 DEF ApiDelete, TypeInv, TypeOK
<1>11. CASE Forget(t)
  <2>1. call' \in [Threads -> Call] /\ CallsShaped'
    BY <1>11, ResumeType, IdleCallType DEF Forget, Return
  <2> QED BY <1>11, <1>a, <1>0, <2>1 DEF Forget, TypeInv, TypeOK
<1>12. CASE ApiFailed(t)
  <2>1. call' \in [Threads -> Call] /\ CallsShaped'
    BY <1>12, ResumeType, IdleCallType DEF ApiFailed, Return
  <2> QED BY <1>12, <1>a, <2>1 DEF ApiFailed, TypeInv, TypeOK
<1>13. CASE GetExternalResources(t)
  <2>1. call' \in [Threads -> Call] /\ CallsShaped'
    BY <1>13, ResumeType, IdleCallType DEF GetExternalResources, Return
  <2> QED BY <1>13, <1>a, <2>1 DEF GetExternalResources, TypeInv, TypeOK
<1> QED BY <1>1, <1>2, <1>3, <1>4, <1>5, <1>6, <1>7, <1>8, <1>9, <1>10,
           <1>11, <1>12, <1>13 DEF HandlerStep, Request

(* The controller, the garbage collector and the administrator write       *)
(* resources of the right type.                                            *)
LEMMA EnvironmentType ==
  ASSUME TypeInv, Environment
  PROVE  TypeInv'
<1> USE DEF TypeInv, TypeOK, CallsShaped
<1>1. PICK n \in Names : \/ ControllerUpdatesState(n)
                         \/ CollectConsumer(n)
                         \/ AdminDelete(n)
  BY DEF Environment
<1>2. CASE ControllerUpdatesState(n)
  <2>1. PICK s \in ControllerStates(store[n]) :
          store' = [store EXCEPT ![n].state = s]
    BY <1>2 DEF ControllerUpdatesState
  <2>2. s \in StorageConsumerStates
    BY <2>1 DEF ControllerStates, StorageConsumerStates
  <2>3. [store[n] EXCEPT !.state = s] \in Consumer
    BY <1>2, <2>2 DEF ControllerUpdatesState, Live, Consumer
  <2>4. store' \in [Names -> Consumer \cup {None}]
    BY <2>1, <2>3
  <2> QED BY <1>2, <2>4 DEF ControllerUpdatesState
<1>3. CASE CollectConsumer(n)
  BY <1>3 DEF CollectConsumer
<1>4. CASE AdminDelete(n)
  BY <1>4 DEF AdminDelete
<1> QED BY <1>1, <1>2, <1>3, <1>4

(* A restart rebuilds maps of the right type.                              *)
LEMMA RestartType ==
  ASSUME TypeInv, Restart
  PROVE  TypeInv'
<1>1. call' \in [Threads -> Call] /\ CallsShaped'
  BY IdleCallType DEF Restart, CallsShaped
<1>2. nameByUID' \in [UIDs -> Names \cup {None}]
  BY DEF Restart
<1> QED BY <1>1, <1>2 DEF TypeInv, TypeOK, Restart

(* Every step keeps the variables typed and the handlers shaped.           *)
LEMMA TypeInvStep ==
  ASSUME TypeInv, [Next]_vars
  PROVE  TypeInv'
<1>1. CASE UNCHANGED vars
  BY <1>1 DEF vars, TypeInv, TypeOK, CallsShaped
<1> QED BY <1>1, HandlerType, EnvironmentType, RestartType DEF Next

(* The type invariant holds initially.                                     *)
LEMMA TypeInvInit == Init => TypeInv
<1>1. Init => TypeOK
  BY IdleCallType DEF Init, TypeOK
<1>2. Init => CallsShaped
  BY IdleCallType DEF Init, CallsShaped
<1> QED BY <1>1, <1>2 DEF TypeInv

(* The variables of the consumer manager keep their types in every         *)
(* behaviour of its handlers, the API server and the controller.           *)
THEOREM TypeCorrect == Spec => []TypeOK
<1>1. TypeInv => TypeOK
  BY DEF TypeInv
<1> QED BY <1>1, TypeInvInit, TypeInvStep, PTL DEF Spec

-----------------------------------------------------------------------------
(* UIDs                                                                    *)

(* What ConsumerInv says of one handler's UID.                             *)
CallKnown(c) ==
  /\ c.uid # None => c.uid \in minted
  /\ c.pc \in FoundPcs =>
       \A n \in Names : Live(n) /\ c.uid = store[n].uid => c.name = n

(* No resource is created in the step.                                     *)
NothingCreated ==
  \A n \in Names :
    store'[n] # None => store[n] # None /\ store'[n].uid = store[n].uid

(* The UIDs that handlers carry have been minted.                          *)
LEMMA CallsAreKnown ==
  ASSUME ConsumerInv, NEW t \in Threads
  PROVE  CallKnown(call[t])
BY DEF ConsumerInv, UidsGivenOnce, NamesOfUids, CallKnown

(* A handler that does nothing carries no UID.                             *)
LEMMA IdleCallKnown == CallKnown(IdleCall)
BY DEF CallKnown, IdleCall, FoundPcs

(* A step that creates no resource keeps the UIDs straight when the maps   *)
(* and the handlers it leaves behind are known.                            *)
LEMMA UidsKept ==
  ASSUME ConsumerInv, NothingCreated, minted' = minted, issued' \subseteq minted,
         \A u \in UIDs : nameByUID'[u] # None => u \in minted,
         \A n \in Names : Live(n) => nameByUID'[store[n].uid] \in {n, None},
         \A t \in Threads : CallKnown(call'[t])
  PROVE  UidsGivenOnce' /\ NamesOfUids'
<1> USE DEF ConsumerInv
<1>1. UidsGivenOnce'
  BY DEF UidsGivenOnce, NothingCreated, CallKnown, Live
<1>2. NamesOfUids'
  BY DEF NamesOfUids, NothingCreated, CallKnown, Live
<1> QED BY <1>1, <1>2

(* A handler step that only moves one handler along.                       *)
LEMMA UidsKeptByHandler ==
  ASSUME ConsumerInv, NEW t \in Threads, NEW c, Resume(t, c), CallKnown(c),
         NothingCreated, minted' = minted, issued' \subseteq minted,
         UNCHANGED nameByUID
  PROVE  UidsGivenOnce' /\ NamesOfUids'
<1>1. \A s \in Threads : CallKnown(call'[s])
  BY CallsAreKnown DEF Resume, ConsumerInv, TypeOK
<1>2. \A u \in UIDs : nameByUID'[u] # None => u \in minted
  BY DEF ConsumerInv, UidsGivenOnce
<1>3. \A n \in Names : Live(n) => nameByUID'[store[n].uid] \in {n, None}
  BY DEF ConsumerInv, NamesOfUids
<1> QED BY <1>1, <1>2, <1>3, UidsKept

(* An unchanged resource is not a created one.                             *)
LEMMA UnchangedCreatesNothing ==
  ASSUME UNCHANGED store
  PROVE  NothingCreated
BY DEF NothingCreated

(* A created resource gets a UID nobody has heard of.                      *)
LEMMA UidsAfterCreate ==
  ASSUME ConstantsAssumption, ConsumerInv, TypeInv',
         NEW t \in Threads, ApiCreate(t)
  PROVE  UidsGivenOnce' /\ NamesOfUids'
<1> DEFINE m == call[t].name
<1>1. m \in Names /\ call[t] \in Call
  BY DEF ApiCreate, ConsumerInv, CallsShaped, Shaped, OnboardPcs, TypeOK
<1>2. CASE Live(m)
  <2> DEFINE c == [call[t] EXCEPT !.pc = "getByName"]
  <2>1. CallKnown(c)
    BY <1>1, CallsAreKnown DEF CallKnown, FoundPcs, Call
  <2>2. Resume(t, c) /\ UNCHANGED <<store, minted>>
    BY <1>2 DEF ApiCreate
  <2>3. NothingCreated /\ issued' \subseteq minted /\ UNCHANGED nameByUID
    BY <2>2, UnchangedCreatesNothing
       DEF ApiCreate, ConsumerInv, UidsGivenOnce
  <2> HIDE DEF c
  <2> QED BY <2>1, <2>2, <2>3, UidsKeptByHandler
<1>3. CASE ~Live(m)
  <2>1. PICK u \in UIDs \ minted :
          /\ store' = [store EXCEPT ![m] = NewConsumer(u, call[t].ticket)]
          /\ minted' = minted \cup {u}
          /\ \/ Resume(t, [call[t] EXCEPT !.pc = "record", !.uid = u])
             \/ LostReplies /\ Return(t)
    BY <1>3 DEF ApiCreate
  <2>2. UNCHANGED <<nameByUID, issued>>
    BY DEF ApiCreate
  <2>3. store'[m].uid = u /\ \A n \in Names \ {m} : store'[n] = store[n]
    BY <2>1, <1>1 DEF NewConsumer, ConsumerInv, TypeOK
  <2>4. \A n \in Names : Live(n) => store[n].uid \in minted
    BY DEF ConsumerInv, UidsGivenOnce
  <2>5. \A s \in Threads :
          \/ call'[s] = call[s]
          \/ call'[s].uid = None /\ call'[s].pc = "idle"
          \/ call'[s].uid = u /\ call'[s].name = m
    <3> DEFINE c == [call[t] EXCEPT !.pc = "record", !.uid = u]
    <3>1. c.uid = u /\ c.name = m
      BY <1>1 DEF Call
    <3>2. IdleCall.uid = None /\ IdleCall.pc = "idle"
      BY DEF IdleCall
    <3>3. Resume(t, c) \/ Resume(t, IdleCall)
      BY <2>1 DEF Return
    <3>4. call \in [Threads -> Call]
      BY DEF ConsumerInv, TypeOK
    <3> HIDE DEF c
    <3> QED BY <3>1, <3>2, <3>3, <3>4 DEF Resume
  <2>6. \A s \in Threads : call[s].uid # None => call[s].uid \in minted
    BY DEF ConsumerInv, UidsGivenOnce
  <2>7. nameByUID[u] = None
    BY <2>1 DEF ConsumerInv, UidsGivenOnce
  <2>8. UidsGivenOnce'
    BY <2>1, <2>2, <2>3, <2>4, <2>5, <2>6
       DEF ConsumerInv, UidsGivenOnce, Live
  <2>9. ASSUME NEW n \in Names, store'[n] # None
        PROVE  /\ nameByUID'[store'[n].uid] \in {n, None}
               /\ \A s \in Threads :
                    call'[s].pc \in FoundPcs
                    /\ call'[s].uid = store'[n].uid => call'[s].name = n
    <3>1. CASE n = m
      <4>1. \A s \in Threads : call[s].pc \in FoundPcs => call[s].uid # u
        BY <2>1, <2>6
           DEF ConstantsAssumption, ConsumerInv, CallsShaped, Shaped
      <4> QED BY <3>1, <2>2, <2>3, <2>5, <2>7, <4>1 DEF FoundPcs
    <3>2. CASE n # m
      <4>1. Live(n) /\ store'[n] = store[n] /\ store[n].uid # u
        BY <3>2, <2>9, <2>3, <2>4, <2>1 DEF Live
      <4>2. store[n].uid \in UIDs
        BY <4>1 DEF ConsumerInv, TypeOK, Live, Consumer
      <4> QED BY <4>1, <2>2, <2>5, <4>2
              DEF ConstantsAssumption, ConsumerInv, NamesOfUids, FoundPcs
    <3> QED BY <3>1, <3>2
  <2> QED BY <2>8, <2>9 DEF NamesOfUids, Live
<1> QED BY <1>2, <1>3

(* Handler steps keep UIDs straight.                                       *)
LEMMA UidsAfterHandler ==
  ASSUME ConstantsAssumption, ConsumerInv, TypeInv',
         NEW t \in Threads, HandlerStep(t) \/ Request(t)
  PROVE  UidsGivenOnce' /\ NamesOfUids'
<1>0. call[t] \in Call /\ Shaped(call[t]) /\ CallKnown(call[t])
  BY CallsAreKnown DEF ConsumerInv, TypeOK, CallsShaped
<1>1. issued \subseteq minted
  BY DEF ConsumerInv, UidsGivenOnce
<1>2. ASSUME NEW n \in Names, NEW k \in Tickets, OnboardConsumer(t, n, k)
      PROVE  UidsGivenOnce' /\ NamesOfUids'
  <2> DEFINE c == [IdleCall EXCEPT !.pc = "ticketCheck", !.op = "Onboard",
                                   !.name = n, !.ticket = k]
  <2>1. CallKnown(c)
    BY DEF CallKnown, IdleCall, FoundPcs
  <2> HIDE DEF c
  <2> QED BY <1>1, <1>2, <2>1, UidsKeptByHandler, UnchangedCreatesNothing
          DEF OnboardConsumer, c
<1>3. CASE CheckTicket(t)
  <2> DEFINE next == IF nameByTicket[call[t].ticket] # None
                       THEN "getByName" ELSE "apiCreate"
             c == [call[t] EXCEPT !.pc = next]
  <2>1. CallKnown(c)
    BY <1>0 DEF CallKnown, FoundPcs, Call
  <2>2. Resume(t, c) /\ UNCHANGED <<store, minted, nameByUID, issued>>
    BY <1>3 DEF CheckTicket
  <2> HIDE DEF c
  <2> QED BY <1>1, <2>1, <2>2, UidsKeptByHandler, UnchangedCreatesNothing
<1>4. CASE ApiCreate(t)
  BY <1>4, UidsAfterCreate
<1>5. CASE Record(t)
  <2> DEFINE u == call[t].uid
             m == call[t].name
  <2>1. u \in UIDs /\ u \in minted /\ m \in Names
    BY <1>0, <1>5
       DEF Record, Shaped, FoundPcs, CallKnown, ConstantsAssumption
  <2>2. \A n \in Names : Live(n) /\ u = store[n].uid => m = n
    BY <1>0, <1>5 DEF Record, FoundPcs, CallKnown
  <2>3. \A v \in UIDs : nameByUID'[v] = IF v = u THEN m ELSE nameByUID[v]
    BY <1>5, <2>1 DEF Record, ConsumerInv, TypeOK
  <2>4. \A v \in UIDs : nameByUID'[v] # None => v \in minted
    BY <2>1, <2>3 DEF ConsumerInv, UidsGivenOnce
  <2>5. \A n \in Names : Live(n) => nameByUID'[store[n].uid] \in {n, None}
    BY <2>2, <2>3
       DEF ConsumerInv, NamesOfUids, TypeOK, Live, Consumer
  <2>6. \A s \in Threads : CallKnown(call'[s])
    BY <1>5, CallsAreKnown, IdleCallKnown
       DEF Record, Return, Resume, ConsumerInv, TypeOK
  <2>7. NothingCreated /\ minted' = minted /\ issued' \subseteq minted
    BY <1>1, <1>5, <2>1, UnchangedCreatesNothing DEF Record
  <2> HIDE DEF u, m
  <2> QED BY <2>4, <2>5, <2>6, <2>7, UidsKept
<1>6. CASE GetByName(t)
  <2>1. call[t].name \in Names
    BY <1>0, <1>6 DEF GetByName, Shaped, OnboardPcs
  <2>2. issued' \subseteq minted
    BY <1>1, <1>6, <2>1 DEF GetByName, ConsumerInv, UidsGivenOnce, Live
  <2> QED BY <1>6, <2>2, IdleCallKnown, UidsKeptByHandler,
             UnchangedCreatesNothing DEF GetByName, Return
<1>7. ASSUME NEW op \in UidOps, NEW u \in issued, UidCall(t, op, u)
      PROVE  UidsGivenOnce' /\ NamesOfUids'
  <2> DEFINE c == [IdleCall EXCEPT !.pc = "lookup", !.op = op, !.uid = u]
  <2>1. CallKnown(c)
    BY <1>1, <1>7 DEF CallKnown, IdleCall, FoundPcs
  <2> HIDE DEF c
  <2> QED BY <1>1, <1>7, <2>1, UidsKeptByHandler, UnchangedCreatesNothing
          DEF UidCall, c
<1>8. CASE Lookup(t)
  <2> DEFINE next == IF call[t].op = "Offboard" THEN "apiDelete" ELSE "apiGet"
             name == nameByUID[call[t].uid]
             c == [call[t] EXCEPT !.name = name, !.pc = next]
  <2>1. call[t].uid \in UIDs
    BY <1>0, <1>8 DEF Lookup, Shaped
  <2>2. c.uid = call[t].uid /\ c.name = name
    BY <1>0 DEF Call
  <2>3. \A n \in Names : Live(n) => nameByUID[store[n].uid] \in {n, None}
    BY DEF ConsumerInv, NamesOfUids
  <2>4. name # None => CallKnown(c)
    BY <1>0, <2>2, <2>3 DEF CallKnown
  <2>5. (name # None /\ Resume(t, c)) \/ Resume(t, IdleCall)
    BY <1>8 DEF Lookup, Return
  <2>6. UNCHANGED <<store, minted, nameByUID, issued>>
    BY <1>8 DEF Lookup
  <2> HIDE DEF c, name
  <2> QED BY <1>1, <2>4, <2>5, <2>6, IdleCallKnown, UidsKeptByHandler,
             UnchangedCreatesNothing
<1>9. CASE ApiGet(t)
  <2> DEFINE cur == store[call[t].name]
             c(p) == [[call[t] EXCEPT !.obj = cur] EXCEPT !.pc = p]
             d == [call[t] EXCEPT !.pc = "forget"]
  <2>1. CallKnown(d) /\ CallKnown(c("apiUpdate")) /\ CallKnown(c("serve"))
    BY <1>0, <1>9 DEF ApiGet, CallKnown, FoundPcs, Call
  <2>2. \/ Resume(t, d) \/ Resume(t, c("apiUpdate"))
        \/ Resume(t, c("serve")) \/ Resume(t, IdleCall)
    BY <1>9 DEF ApiGet, Return
  <2>3. UNCHANGED <<store, minted, nameByUID, issued>>
    BY <1>9 DEF ApiGet
  <2> HIDE DEF c, d, cur
  <2> QED BY <1>1, <2>1, <2>2, <2>3, IdleCallKnown, UidsKeptByHandler,
             UnchangedCreatesNothing
<1>10. CASE ApiUpdate(t)
  <2>1. call[t].name \in Names /\ call[t].obj \in Consumer
    BY <1>0, <1>10 DEF ApiUpdate, Shaped, FoundPcs
  <2>2. \A n \in Names :
          \/ store'[n] = store[n]
          \/ store[n] = call[t].obj
             /\ store'[n] = Updated(call[t].op, call[t].obj, store[n])
    BY <1>10, <2>1 DEF ApiUpdate, SameVersion, ConsumerInv, TypeOK
  <2>3. \A n \in Names :
          store[n] = call[t].obj =>
            Updated(call[t].op, call[t].obj, store[n]).uid = store[n].uid
    BY <2>1 DEF Updated, Consumer
  <2>4. NothingCreated
    BY <2>1, <2>2, <2>3 DEF NothingCreated, ConstantsAssumption
  <2> QED BY <1>1, <1>10, <2>4, IdleCallKnown, UidsKeptByHandler
          DEF ApiUpdate, Return
<1>11. CASE ApiDelete(t)
  <2> DEFINE c == [call[t] EXCEPT !.pc = "forget"]
             m == call[t].name
  <2>1. CallKnown(c)
    BY <1>0, <1>11 DEF ApiDelete, CallKnown, FoundPcs, Call
  <2>2. m \in Names
    BY <1>0, <1>11 DEF ApiDelete, Shaped, FoundPcs
  <2>3. Live(m) => [store[m] EXCEPT !.deleting = TRUE].uid = store[m].uid
    BY <2>2 DEF ConsumerInv, TypeOK, Live, Consumer
  <2>4. \/ Live(m) /\ store' = [store EXCEPT
                                 ![m] = [store[m] EXCEPT !.deleting = TRUE]]
        \/ UNCHANGED store
    BY <1>11, <2>2 DEF ApiDelete, ConsumerInv, TypeOK
  <2>5. NothingCreated
    BY <2>2, <2>3, <2>4 DEF NothingCreated, Live, ConsumerInv, TypeOK
  <2>6. Resume(t, c) /\ UNCHANGED <<minted, nameByUID, issued>>
    BY <1>11 DEF ApiDelete
  <2> HIDE DEF c
  <2> QED BY <1>1, <2>1, <2>5, <2>6, UidsKeptByHandler
<1>12. CASE Forget(t)
  <2>1. call[t].uid \in UIDs
    BY <1>0, <1>12 DEF Forget, Shaped, FoundPcs
  <2>2. \A v \in UIDs : nameByUID'[v] \in {nameByUID[v], None}
    BY <1>12, <2>1 DEF Forget, ConsumerInv, TypeOK
  <2>3. \A v \in UIDs : nameByUID'[v] # None => v \in minted
    BY <2>2 DEF ConsumerInv, UidsGivenOnce
  <2>4. \A n \in Names : Live(n) => nameByUID'[store[n].uid] \in {n, None}
    BY <2>2 DEF ConsumerInv, NamesOfUids, TypeOK, Live, Consumer
  <2>5. \A s \in Threads : CallKnown(call'[s])
    BY <1>12, CallsAreKnown, IdleCallKnown
       DEF Forget, Return, Resume, ConsumerInv, TypeOK
  <2> QED BY <1>1, <1>12, <2>3, <2>4, <2>5, UidsKept, UnchangedCreatesNothing
          DEF Forget
<1>13. CASE ApiFailed(t)
  BY <1>1, <1>13, IdleCallKnown, UidsKeptByHandler, UnchangedCreatesNothing
     DEF ApiFailed, Return
<1>14. CASE GetExternalResources(t)
  BY <1>1, <1>14, IdleCallKnown, UidsKeptByHandler, UnchangedCreatesNothing
     DEF GetExternalResources, Return
<1> QED BY <1>2, <1>3, <1>4, <1>5, <1>6, <1>7, <1>8, <1>9, <1>10, <1>11,
           <1>12, <1>13, <1>14 DEF HandlerStep, Request

(* Environment steps change or remove resources, they create none.         *)
LEMMA UidsAfterEnvironment ==
  ASSUME ConstantsAssumption, ConsumerInv, Environment
  PROVE  UidsGivenOnce' /\ NamesOfUids'
<1>1. PICK m \in Names : \/ ControllerUpdatesState(m)
                         \/ CollectConsumer(m)
                         \/ AdminDelete(m)
  BY DEF Environment
<1>2. NothingCreated
  <2>1. CASE ControllerUpdatesState(m)
    <3>1. PICK s \in ControllerStates(store[m]) :
            store' = [store EXCEPT ![m] = [store[m] EXCEPT !.state = s]]
      BY <2>1 DEF ControllerUpdatesState, ConsumerInv, TypeOK
    <3>2. Live(m) /\ [store[m] EXCEPT !.state = s].uid = store[m].uid
      BY <2>1 DEF ControllerUpdatesState, ConsumerInv, TypeOK, Live, Consumer
    <3> QED BY <3>1, <3>2 DEF NothingCreated, Live, ConsumerInv, TypeOK
  <2>2. CASE CollectConsumer(m) \/ AdminDelete(m)
    BY <2>2
       DEF CollectConsumer, AdminDelete, NothingCreated, ConsumerInv, TypeOK
  <2> QED BY <1>1, <2>1, <2>2
<1>3. UNCHANGED <<minted, nameByUID, call, issued>>
  BY <1>1 DEF ControllerUpdatesState, CollectConsumer, AdminDelete
<1>4. \A s \in Threads : CallKnown(call'[s])
  BY <1>3, CallsAreKnown
<1> QED BY <1>2, <1>3, <1>4, UidsKept
        DEF ConsumerInv, UidsGivenOnce, NamesOfUids

(* The rebuilt maps name the resource that holds the UID.                  *)
LEMMA UidsAfterRestart ==
  ASSUME ConsumerInv, Restart
  PROVE  UidsGivenOnce' /\ NamesOfUids'
<1>1. \A u \in UIDs, n \in Names :
        Live(n) /\ store[n].uid = u => nameByUID'[u] = n
  <2> SUFFICES ASSUME NEW u \in UIDs, NEW n \in Names,
                      Live(n), store[n].uid = u
               PROVE  nameByUID'[u] = n
    OBVIOUS
  <2>1. nameByUID'[u] = CHOOSE m \in Names : Live(m) /\ store[m].uid = u
    BY DEF Restart
  <2>2. nameByUID'[u] \in Names
        /\ Live(nameByUID'[u]) /\ store[nameByUID'[u]].uid = u
    BY <2>1
  <2> QED BY <2>2 DEF ConsumerInv, UidsGivenOnce
<1>2. \A u \in UIDs : nameByUID'[u] # None => u \in minted
  <2> SUFFICES ASSUME NEW u \in UIDs, nameByUID'[u] # None
               PROVE  u \in minted
    OBVIOUS
  <2>1. \E n \in Names : Live(n) /\ store[n].uid = u
    BY DEF Restart
  <2> QED BY <2>1 DEF ConsumerInv, UidsGivenOnce
<1>3. \A n \in Names : Live(n) => nameByUID'[store[n].uid] \in {n, None}
  BY <1>1 DEF ConsumerInv, TypeOK, Live, Consumer
<1>4. \A s \in Threads : CallKnown(call'[s])
  BY IdleCallKnown DEF Restart
<1> QED BY <1>2, <1>3, <1>4, UidsKept, UnchangedCreatesNothing
        DEF Restart, ConsumerInv, UidsGivenOnce

-----------------------------------------------------------------------------
(* Enabled before configured                                               *)

Sound(c) == c.state \in {"Configuring", "Ready"} => c.enable

(* The invariant says of every resource that it is configured only when    *)
(* enabled.                                                                *)
LEMMA StoreIsSound ==
  ASSUME ConsumerInv, NEW n \in Names, Live(n)
  PROVE  store[n] \in Consumer /\ Sound(store[n])
BY DEF ConsumerInv, TypeOK, Live, EnabledBeforeConfigured, Sound

(* What a handler step writes to a resource is sound.                      *)
LEMMA HandlerWritesSound ==
  ASSUME ConsumerInv, NEW t \in Threads, HandlerStep(t) \/ Request(t)
  PROVE  \A n \in Names : store'[n] # None => Sound(store'[n])
<1>0. Shaped(call[t])
  BY DEF ConsumerInv, CallsShaped
<1>1. \A n \in Names : store[n] # None => Sound(store[n])
  BY StoreIsSound DEF Live
<1>2. CASE ApiCreate(t)
  <2>1. \A u : Sound(NewConsumer(u, call[t].ticket))
    BY DEF NewConsumer, Sound
  <2>2. \/ UNCHANGED store
        \/ \E u \in UIDs : store' = [store EXCEPT
                         ![call[t].name] = NewConsumer(u, call[t].ticket)]
    BY <1>2 DEF ApiCreate
  <2> QED BY <1>1, <2>1, <2>2 DEF ConsumerInv, TypeOK
<1>3. CASE ApiUpdate(t)
  <2> DEFINE m == call[t].name
             obj == call[t].obj
             new == Updated(call[t].op, obj, store[m])
  <2>1. m \in Names /\ obj \in Consumer
    BY <1>0, <1>3 DEF ApiUpdate, Shaped, FoundPcs
  <2>2. store[m] # None /\ obj = store[m] => Sound(new)
    BY <1>1, <2>1 DEF Updated, Sound, Consumer
  <2>3. \/ UNCHANGED store
        \/ obj = store[m] /\ store' = [store EXCEPT ![m] = new]
    BY <1>3 DEF ApiUpdate, SameVersion
  <2>4. obj = store[m] => store[m] # None
    BY <2>1, ConstantsAssumption DEF ConstantsAssumption
  <2> HIDE DEF m, obj, new
  <2> QED BY <1>1, <2>1, <2>2, <2>3, <2>4 DEF ConsumerInv, TypeOK
<1>4. CASE ApiDelete(t)
  <2> DEFINE m == call[t].name
             new == [store[m] EXCEPT !.deleting = TRUE]
  <2>1. m \in Names
    BY <1>0, <1>4 DEF ApiDelete, Shaped, FoundPcs
  <2>2. Live(m) => Sound(new)
    BY <2>1, StoreIsSound DEF Sound, Consumer
  <2>3. \/ UNCHANGED store
        \/ Live(m) /\ store' = [store EXCEPT ![m] = new]
    BY <1>4, <2>1 DEF ApiDelete, ConsumerInv, TypeOK
  <2> HIDE DEF m, new
  <2> QED BY <1>1, <2>1, <2>2, <2>3 DEF ConsumerInv, TypeOK
<1>5. CASE UNCHANGED store
  BY <1>1, <1>5
<1> QED BY <1>2, <1>3, <1>4, <1>5
        DEF HandlerStep, Request, OnboardConsumer, CheckTicket, Record,
            GetByName, UidCall, Lookup, ApiGet, Forget, ApiFailed,
            GetExternalResources

(* A handler reaches the step that serves the configuration only from a    *)
(* resource in state Ready.                                                *)
LEMMA HandlerServesEnabled ==
  ASSUME ConsumerInv, TypeInv', NEW t \in Threads,
         HandlerStep(t) \/ Request(t)
  PROVE  ConfigOnlyAfterAcknowledge'
<1>1. \A s \in Threads : call[s].pc = "serve" => call[s].obj.enable
  BY DEF ConsumerInv, EnabledBeforeConfigured, ConfigOnlyAfterAcknowledge
<1>2. \A s \in Threads \ {t} : call'[s] = call[s]
  BY DEF HandlerStep, Request, OnboardConsumer, CheckTicket, ApiCreate,
         Record, GetByName, UidCall, Lookup, ApiGet, ApiUpdate, ApiDelete,
         Forget, ApiFailed, GetExternalResources, Return, Resume,
         ConsumerInv, TypeOK
<1>3. call[t] \in Call /\ call \in [Threads -> Call] /\ Shaped(call[t])
  BY DEF ConsumerInv, TypeOK, CallsShaped
<1>4. CASE ApiGet(t)
  <2> DEFINE cur == store[call[t].name]
             held == [call[t] EXCEPT !.obj = cur]
             u == [held EXCEPT !.pc = "apiUpdate"]
             v == [held EXCEPT !.pc = "serve"]
             d == [call[t] EXCEPT !.pc = "forget"]
  <2>1. call[t].name \in Names
    BY <1>3, <1>4 DEF ApiGet, Shaped, FoundPcs
  <2>2. cur # None /\ cur.state = "Ready" => cur.enable
    BY <2>1, StoreIsSound DEF Live, Sound
  <2>3. u.pc = "apiUpdate" /\ d.pc = "forget" /\ IdleCall.pc = "idle"
        /\ v.obj = cur
    BY <1>3 DEF Call, IdleCall
  <2>4. \/ call'[t] = d
        \/ call'[t] = u
        \/ cur # None /\ cur.state = "Ready" /\ call'[t] = v
        \/ call'[t] = IdleCall
    BY <1>3, <1>4 DEF ApiGet, Return, Resume
  <2> HIDE DEF cur, held, u, v, d
  <2>5. call'[t].pc = "serve" => call'[t].obj.enable
    BY <2>2, <2>3, <2>4
  <2> QED BY <1>1, <1>2, <2>5 DEF ConfigOnlyAfterAcknowledge
<1>5. CASE ~ApiGet(t)
  <2>1. call'[t].pc # "serve"
    <3> USE <1>3 DEF Resume, Call
    <3>1. CASE Request(t)
      BY <3>1 DEF Request, OnboardConsumer, UidCall, IdleCall
    <3>2. CASE Return(t)
      BY <3>2 DEF Return, IdleCall
    <3>3. CASE CheckTicket(t)
      BY <3>3 DEF CheckTicket
    <3>4. CASE ApiCreate(t)
      <4>1. \/ Return(t)
            \/ Resume(t, [call[t] EXCEPT !.pc = "getByName"])
            \/ \E u \in UIDs :
                 Resume(t, [call[t] EXCEPT !.pc = "record", !.uid = u])
        BY <3>4 DEF ApiCreate
      <4>2. CASE Resume(t, [call[t] EXCEPT !.pc = "getByName"])
        BY <4>2
      <4>3. ASSUME NEW u \in UIDs,
                   Resume(t, [call[t] EXCEPT !.pc = "record", !.uid = u])
            PROVE  call'[t].pc # "serve"
        BY <4>3
      <4>. QED
        BY <3>2, <4>1, <4>2, <4>3
    <3>5. CASE Lookup(t)
      BY <3>2, <3>5 DEF Lookup
    <3>6. CASE ApiDelete(t)
      BY <3>6 DEF ApiDelete
    <3> QED BY <1>5, <3>1, <3>2, <3>3, <3>4, <3>5, <3>6
            DEF HandlerStep, Record, GetByName, ApiUpdate, Forget, ApiFailed,
                GetExternalResources
  <2> QED BY <1>1, <1>2, <2>1 DEF ConfigOnlyAfterAcknowledge
<1> QED BY <1>4, <1>5

(* Every step keeps ConsumerInv: types, UIDs, names and enablement         *)
(* together.                                                               *)
LEMMA ConsumerInvStep ==
  ASSUME ConsumerInv, [Next]_vars
  PROVE  ConsumerInv'
<1> USE ConstantsAssumption
<1>1. TypeInv /\ TypeInv'
  <2>1. TypeInv
    BY DEF ConsumerInv, TypeInv
  <2> QED BY <2>1, TypeInvStep
<1>2. CASE UNCHANGED vars
  BY <1>2 DEF vars, ConsumerInv, TypeOK, CallsShaped, UidsGivenOnce,
              NamesOfUids, EnabledBeforeConfigured,
              ConfigOnlyAfterAcknowledge, Live
<1>3. ASSUME NEW t \in Threads, HandlerStep(t) \/ Request(t)
      PROVE  ConsumerInv'
  <2>1. EnabledBeforeConfigured'
    BY <1>1, <1>3, HandlerWritesSound, HandlerServesEnabled
       DEF EnabledBeforeConfigured, Sound, Live
  <2> QED BY <1>1, <1>3, <2>1, UidsAfterHandler DEF ConsumerInv, TypeInv
<1>4. CASE Environment
  <2>1. PICK m \in Names : \/ ControllerUpdatesState(m)
                           \/ CollectConsumer(m)
                           \/ AdminDelete(m)
    BY <1>4 DEF Environment
  <2>2. UNCHANGED call
    BY <2>1 DEF ControllerUpdatesState, CollectConsumer, AdminDelete
  <2>3. ASSUME NEW n \in Names, store'[n] # None
        PROVE  Sound(store'[n])
    <3>1. CASE ControllerUpdatesState(m)
      <4>1. PICK s \in ControllerStates(store[m]) :
              store' = [store EXCEPT ![m] = [store[m] EXCEPT !.state = s]]
        BY <3>1 DEF ControllerUpdatesState, ConsumerInv, TypeOK
      <4>2. Sound([store[m] EXCEPT !.state = s])
        BY <3>1, <4>1, StoreIsSound
           DEF ControllerUpdatesState, ControllerStates, Sound, Consumer
      <4> QED BY <2>3, <4>1, <4>2, StoreIsSound DEF Live, ConsumerInv, TypeOK
    <3>2. CASE CollectConsumer(m) \/ AdminDelete(m)
      BY <2>3, <3>2, StoreIsSound
         DEF CollectConsumer, AdminDelete, Live, ConsumerInv, TypeOK
    <3> QED BY <2>1, <3>1, <3>2
  <2>4. EnabledBeforeConfigured'
    BY <2>2, <2>3 DEF EnabledBeforeConfigured, Sound, Live, ConsumerInv,
                      ConfigOnlyAfterAcknowledge
  <2> QED BY <1>1, <1>4, <2>4, UidsAfterEnvironment DEF ConsumerInv, TypeInv
<1>5. CASE Restart
  <2>1. EnabledBeforeConfigured'
    BY <1>5 DEF Restart, ConsumerInv, EnabledBeforeConfigured, Live, IdleCall,
                ConfigOnlyAfterAcknowledge
  <2> QED BY <1>1, <1>5, <2>1, UidsAfterRestart DEF ConsumerInv, TypeInv
<1> QED BY <1>2, <1>3, <1>4, <1>5 DEF Next

(* ConsumerInv holds initially.                                            *)
LEMMA ConsumerInvInit == Init => ConsumerInv
<1> SUFFICES ASSUME Init PROVE ConsumerInv
  OBVIOUS
<1>1. TypeOK /\ CallsShaped
  BY TypeInvInit DEF TypeInv
<1>2. UidsGivenOnce
  BY DEF Init, UidsGivenOnce, Live, IdleCall
<1>3. NamesOfUids /\ EnabledBeforeConfigured
  BY DEF Init, NamesOfUids, EnabledBeforeConfigured, Live, IdleCall,
         ConfigOnlyAfterAcknowledge
<1> QED BY <1>1, <1>2, <1>3 DEF ConsumerInv

(* UIDs, the maps' entries and the copies handlers hold stay consistent.   *)
THEOREM ConsumerInvariant == Spec => []ConsumerInv
BY ConsumerInvInit, ConsumerInvStep, PTL DEF Spec

(* GetStorageConfig serves only consumers whose onboarding was             *)
(* acknowledged, for any number of concurrent handlers and restarts.       *)
THEOREM ConfigServedToEnabled == Spec => []ConfigOnlyAfterAcknowledge
<1>1. ConsumerInv => ConfigOnlyAfterAcknowledge
  BY DEF ConsumerInv, EnabledBeforeConfigured
<1> QED BY <1>1, ConsumerInvariant, PTL

-----------------------------------------------------------------------------
(* The maps account for the resources, provided that no reply to a Create  *)
(* is lost.                                                                *)

(* Resources are created in no step but ApiCreate, keep their UID and      *)
(* ticket, and a deletion is never taken back.                             *)
Aging ==
  \A n \in Names :
    store'[n] # None =>
      /\ store[n] # None
      /\ store'[n].uid = store[n].uid
      /\ store'[n].ticket = store[n].ticket
      /\ store[n].deleting => store'[n].deleting

(* A step that changes no resource ages none.                              *)
LEMMA UnchangedAges ==
  ASSUME UNCHANGED store
  PROVE  Aging
BY DEF Aging

(* A handler step that is not part of the bookkeeping.                     *)
LEMMA AccountKept ==
  ASSUME ConsumerInv, AccountInv, NEW t \in Threads, NEW c, Resume(t, c),
         call[t].pc # "record", c.pc # "record",
         c.pc = "forget" =>
           \A n \in Names :
             store'[n] # None /\ store'[n].uid = c.uid => store'[n].deleting,
         Aging, UNCHANGED <<nameByTicket, nameByUID>>
  PROVE  AccountInv'
<1>1. call \in [Threads -> Call]
  BY DEF ConsumerInv, TypeOK
<1>2. call'[t] = c /\ \A s \in Threads \ {t} : call'[s] = call[s]
  BY <1>1 DEF Resume
<1>3. \A u : Recording(u) => Recording(u)'
  BY <1>2 DEF Recording
<1>4. HandlersKeepAccount'
  BY <1>2 DEF AccountInv, HandlersKeepAccount, Aging, Live
<1>5. CacheAccountsForStore'
  BY <1>3 DEF AccountInv, CacheAccountsForStore, Aging, Live
<1>6. TicketsAccountedFor'
  BY <1>3 DEF AccountInv, TicketsAccountedFor, Aging, Live
<1> QED BY <1>4, <1>5, <1>6 DEF AccountInv

(* The handler that creates a resource is about to record it.              *)
LEMMA AccountAfterCreate ==
  ASSUME ConsumerInv, AccountInv, LostReplies = FALSE,
         NEW t \in Threads, ApiCreate(t)
  PROVE  AccountInv'
<1> DEFINE m == call[t].name
<1>1. m \in Names /\ call[t] \in Call /\ call \in [Threads -> Call]
      /\ call[t].pc = "apiCreate"
  BY DEF ApiCreate, ConsumerInv, CallsShaped, Shaped, OnboardPcs, TypeOK
<1>2. CASE Live(m)
  <2> DEFINE c == [call[t] EXCEPT !.pc = "getByName"]
  <2>1. c.pc = "getByName" /\ Resume(t, c) /\ UNCHANGED store
        /\ UNCHANGED <<nameByTicket, nameByUID>>
    BY <1>1, <1>2 DEF ApiCreate, Call
  <2> HIDE DEF c
  <2> QED BY <1>1, <2>1, AccountKept, UnchangedAges
<1>3. CASE ~Live(m)
  <2>1. PICK u \in UIDs \ minted :
          /\ store' = [store EXCEPT ![m] = NewConsumer(u, call[t].ticket)]
          /\ Resume(t, [call[t] EXCEPT !.pc = "record", !.uid = u])
    BY <1>3 DEF ApiCreate
  <2> DEFINE c == [call[t] EXCEPT !.pc = "record", !.uid = u]
  <2>2. c.pc = "record" /\ c.uid = u /\ c.ticket = call[t].ticket
    BY <1>1 DEF Call
  <2>3. call'[t] = c /\ \A s \in Threads \ {t} : call'[s] = call[s]
    BY <1>1, <2>1 DEF Resume
  <2>4. /\ store'[m].uid = u
        /\ store'[m].ticket = call[t].ticket
        /\ \A n \in Names \ {m} : store'[n] = store[n]
    BY <1>1, <2>1 DEF NewConsumer, ConsumerInv, TypeOK
  <2>5. \A n \in Names : Live(n) => store[n].uid # u
    BY <2>1 DEF ConsumerInv, UidsGivenOnce
  <2>6. \A s \in Threads :
          call[s].pc \in {"record", "forget"} => call[s].uid # u
    BY <2>1, ConstantsAssumption
       DEF ConsumerInv, UidsGivenOnce, CallsShaped, Shaped, FoundPcs,
           ConstantsAssumption
  <2>7. \A v : Recording(v) => Recording(v)'
    BY <1>1, <2>3 DEF Recording
  <2>8. Recording(u)'
    BY <2>2, <2>3 DEF Recording
  <2>9. UNCHANGED <<nameByTicket, nameByUID>>
    BY DEF ApiCreate
  <2> HIDE DEF c
  <2>10. HandlersKeepAccount'
    BY <2>2, <2>3, <2>4, <2>5, <2>6
       DEF AccountInv, HandlersKeepAccount, Live
  <2>11. CacheAccountsForStore'
    BY <2>4, <2>7, <2>8, <2>9 DEF AccountInv, CacheAccountsForStore, Live
  <2>12. TicketsAccountedFor'
    BY <2>4, <2>7, <2>8, <2>9 DEF AccountInv, TicketsAccountedFor, Live
  <2> QED BY <2>10, <2>11, <2>12 DEF AccountInv
<1> QED BY <1>2, <1>3

(* Recording a resource completes both maps.                               *)
LEMMA AccountAfterRecord ==
  ASSUME ConsumerInv, AccountInv, NEW t \in Threads, Record(t)
  PROVE  AccountInv'
<1> DEFINE u == call[t].uid
           k == call[t].ticket
           m == call[t].name
<1>1. /\ m \in Names /\ u \in UIDs /\ k \in Tickets
      /\ call[t].pc = "record" /\ call \in [Threads -> Call]
  BY DEF Record, ConsumerInv, CallsShaped, Shaped, OnboardPcs, FoundPcs,
         TypeOK
<1>2. IdleCall.pc = "idle"
  BY DEF IdleCall
<1>3. call'[t] = IdleCall /\ \A s \in Threads \ {t} : call'[s] = call[s]
  BY <1>1 DEF Record, Return, Resume
<1>4. \A v \in UIDs : nameByUID'[v] = IF v = u THEN m ELSE nameByUID[v]
  BY <1>1 DEF Record, ConsumerInv, TypeOK
<1>5. \A j \in Tickets : nameByTicket'[j] = IF j = k THEN m ELSE nameByTicket[j]
  BY <1>1 DEF Record, ConsumerInv, TypeOK
<1>6. UNCHANGED store
  BY DEF Record
<1>7. \A v : Recording(v) => v = u \/ Recording(v)'
  BY <1>3 DEF Recording
<1>8. \A n \in Names :
        Live(n) => store[n].uid \in UIDs /\ store[n].ticket \in Tickets
  BY DEF ConsumerInv, TypeOK, Live, Consumer
<1>9. \A n \in Names :
        Live(n) /\ store[n].uid = u => n = m /\ store[n].ticket = k
  BY <1>1
     DEF ConsumerInv, NamesOfUids, FoundPcs, AccountInv, HandlersKeepAccount
<1>10. m # None
  BY <1>1, ConstantsAssumption DEF ConstantsAssumption
<1> HIDE DEF u, k, m
<1>11. HandlersKeepAccount'
  BY <1>2, <1>3, <1>6 DEF AccountInv, HandlersKeepAccount, Live
<1>12. CacheAccountsForStore'
  BY <1>4, <1>6, <1>7, <1>8, <1>9
     DEF AccountInv, CacheAccountsForStore, Live
<1>13. TicketsAccountedFor'
  BY <1>5, <1>6, <1>7, <1>8, <1>9, <1>10
     DEF AccountInv, TicketsAccountedFor, Live
<1> QED BY <1>11, <1>12, <1>13 DEF AccountInv

(* A UID is forgotten only when its resource is on its way out.            *)
LEMMA AccountAfterForget ==
  ASSUME ConsumerInv, AccountInv, NEW t \in Threads, Forget(t)
  PROVE  AccountInv'
<1> DEFINE u == call[t].uid
<1>1. u \in UIDs /\ call[t].pc = "forget" /\ call \in [Threads -> Call]
  BY DEF Forget, ConsumerInv, CallsShaped, Shaped, FoundPcs, TypeOK
<1>2. IdleCall.pc = "idle"
  BY DEF IdleCall
<1>3. call'[t] = IdleCall /\ \A s \in Threads \ {t} : call'[s] = call[s]
  BY <1>1 DEF Forget, Return, Resume
<1>4. \A v \in UIDs \ {u} : nameByUID'[v] = nameByUID[v]
  BY <1>1 DEF Forget, ConsumerInv, TypeOK
<1>5. UNCHANGED <<store, nameByTicket>>
  BY DEF Forget
<1>6. \A v : Recording(v) => Recording(v)'
  BY <1>1, <1>3 DEF Recording
<1>7. \A n \in Names : Live(n) => store[n].uid \in UIDs
  BY DEF ConsumerInv, TypeOK, Live, Consumer
<1>8. \A n \in Names : Live(n) /\ store[n].uid = u => store[n].deleting
  BY <1>1 DEF AccountInv, HandlersKeepAccount
<1> HIDE DEF u
<1>9. HandlersKeepAccount'
  BY <1>2, <1>3, <1>5 DEF AccountInv, HandlersKeepAccount, Live
<1>10. CacheAccountsForStore'
  BY <1>4, <1>5, <1>6, <1>7, <1>8
     DEF AccountInv, CacheAccountsForStore, Live
<1>11. TicketsAccountedFor'
  BY <1>5, <1>6 DEF AccountInv, TicketsAccountedFor, Live
<1> QED BY <1>9, <1>10, <1>11 DEF AccountInv

(* The steps of one handler.                                               *)
LEMMA AccountAfterHandler ==
  ASSUME ConsumerInv, AccountInv, LostReplies = FALSE,
         NEW t \in Threads, HandlerStep(t) \/ Request(t)
  PROVE  AccountInv'
<1>0. call[t] \in Call /\ Shaped(call[t])
  BY DEF ConsumerInv, TypeOK, CallsShaped
<1>i. IdleCall.pc = "idle"
  BY DEF IdleCall
<1>1. CASE Request(t)
  <2>1. call[t].pc = "idle" /\ UNCHANGED <<store, nameByTicket, nameByUID>>
    BY <1>1 DEF Request, OnboardConsumer, UidCall
  <2>2. PICK c : Resume(t, c) /\ c.pc \in {"ticketCheck", "lookup"}
    <3>1. ASSUME NEW n \in Names, NEW k \in Tickets, OnboardConsumer(t, n, k)
          PROVE  \E c : Resume(t, c) /\ c.pc \in {"ticketCheck", "lookup"}
      <4> DEFINE d == [IdleCall EXCEPT !.pc = "ticketCheck", !.op = "Onboard",
                                       !.name = n, !.ticket = k]
      <4>1. Resume(t, d) /\ d.pc = "ticketCheck"
        BY <3>1 DEF OnboardConsumer, IdleCall
      <4> HIDE DEF d
      <4> QED BY <4>1
    <3>2. ASSUME NEW op \in UidOps, NEW u \in issued, UidCall(t, op, u)
          PROVE  \E c : Resume(t, c) /\ c.pc \in {"ticketCheck", "lookup"}
      <4> DEFINE d == [IdleCall EXCEPT !.pc = "lookup", !.op = op, !.uid = u]
      <4>1. Resume(t, d) /\ d.pc = "lookup"
        BY <3>2 DEF UidCall, IdleCall
      <4> HIDE DEF d
      <4> QED BY <4>1
    <3> QED BY <1>1, <3>1, <3>2 DEF Request
  <2> QED BY <2>1, <2>2, AccountKept, UnchangedAges
<1>2. CASE CheckTicket(t)
  <2>1. /\ call[t].pc = "ticketCheck"
        /\ UNCHANGED <<store, nameByTicket, nameByUID>>
    BY <1>2 DEF CheckTicket
  <2>2. PICK c : Resume(t, c) /\ c.pc \in {"getByName", "apiCreate"}
    BY <1>0, <1>2 DEF CheckTicket, Call
  <2> QED BY <2>1, <2>2, AccountKept, UnchangedAges
<1>3. CASE ApiCreate(t)
  BY <1>3, AccountAfterCreate
<1>4. CASE Record(t)
  BY <1>4, AccountAfterRecord
<1>5. CASE GetByName(t) \/ ApiFailed(t) \/ GetExternalResources(t)
  BY <1>5, <1>i, AccountKept, UnchangedAges
     DEF GetByName, ApiFailed, GetExternalResources, Return
<1>6. CASE Lookup(t)
  <2>1. call[t].pc = "lookup" /\ UNCHANGED <<store, nameByTicket, nameByUID>>
    BY <1>6 DEF Lookup
  <2>2. PICK c : Resume(t, c) /\ c.pc \in {"apiDelete", "apiGet", "idle"}
    <3> DEFINE next == IF call[t].op = "Offboard"
                         THEN "apiDelete" ELSE "apiGet"
               d == [call[t] EXCEPT !.name = nameByUID[call[t].uid],
                                    !.pc = next]
    <3>1. d.pc \in {"apiDelete", "apiGet"}
      BY <1>0 DEF Call
    <3>2. Resume(t, d) \/ Resume(t, IdleCall)
      BY <1>6 DEF Lookup, Return
    <3> HIDE DEF d
    <3> QED BY <1>i, <3>1, <3>2
  <2> QED BY <2>1, <2>2, AccountKept, UnchangedAges
<1>7. CASE ApiGet(t)
  <2> DEFINE cur == store[call[t].name]
             held == [call[t] EXCEPT !.obj = cur]
             u == [held EXCEPT !.pc = "apiUpdate"]
             v == [held EXCEPT !.pc = "serve"]
             d == [call[t] EXCEPT !.pc = "forget"]
  <2>1. call[t].pc = "apiGet" /\ UNCHANGED <<store, nameByTicket, nameByUID>>
    BY <1>7 DEF ApiGet
  <2>2. u.pc = "apiUpdate" /\ v.pc = "serve" /\ d.pc = "forget"
        /\ d.uid = call[t].uid
    BY <1>0 DEF Call
  <2>3. \/ cur = None /\ Resume(t, d)
        \/ Resume(t, u) \/ Resume(t, v) \/ Resume(t, IdleCall)
    BY <1>7 DEF ApiGet, Return
  <2>4. \A n \in Names :
          Live(n) /\ store[n].uid = call[t].uid => n = call[t].name
    BY <2>1 DEF ConsumerInv, NamesOfUids, FoundPcs
  <2> HIDE DEF cur, held, u, v, d
  <2>5. CASE cur = None /\ Resume(t, d)
    <3>1. \A n \in Names : store'[n] # None => store'[n].uid # d.uid
      BY <2>1, <2>2, <2>4, <2>5 DEF Live, cur
    <3> QED BY <2>1, <2>2, <2>5, <3>1, AccountKept, UnchangedAges
  <2> QED BY <1>i, <2>1, <2>2, <2>3, <2>5, AccountKept, UnchangedAges
<1>8. CASE ApiUpdate(t)
  <2> DEFINE m == call[t].name
             obj == call[t].obj
             new == Updated(call[t].op, obj, store[m])
  <2>1. m \in Names /\ obj \in Consumer
    BY <1>0, <1>8 DEF ApiUpdate, Shaped, FoundPcs
  <2>2. obj = store[m] =>
          /\ new.uid = store[m].uid
          /\ new.ticket = store[m].ticket
          /\ new.deleting = store[m].deleting
    BY <2>1 DEF Updated, Consumer
  <2>3. \/ UNCHANGED store
        \/ obj = store[m] /\ store' = [store EXCEPT ![m] = new]
    BY <1>8 DEF ApiUpdate, SameVersion
  <2>4. obj # None
    BY <2>1, ConstantsAssumption DEF ConstantsAssumption
  <2>5. /\ call[t].pc = "apiUpdate" /\ Resume(t, IdleCall)
        /\ UNCHANGED <<nameByTicket, nameByUID>>
    BY <1>8 DEF ApiUpdate, Return
  <2> HIDE DEF m, obj, new
  <2>6. Aging
    BY <2>1, <2>2, <2>3, <2>4 DEF Aging, ConsumerInv, TypeOK
  <2> QED BY <1>i, <2>5, <2>6, AccountKept
<1>9. CASE ApiDelete(t)
  <2> DEFINE m == call[t].name
             new == [store[m] EXCEPT !.deleting = TRUE]
             c == [call[t] EXCEPT !.pc = "forget"]
  <2>1. m \in Names /\ call[t].pc = "apiDelete"
    BY <1>0, <1>9 DEF ApiDelete, Shaped, FoundPcs
  <2>2. c.pc = "forget" /\ c.uid = call[t].uid
    BY <1>0 DEF Call
  <2>3. Resume(t, c) /\ UNCHANGED <<nameByTicket, nameByUID>>
    BY <1>9 DEF ApiDelete
  <2>4. Live(m) => new.uid = store[m].uid /\ new.ticket = store[m].ticket
                   /\ new.deleting
    BY <2>1 DEF ConsumerInv, TypeOK, Live, Consumer
  <2>5. \/ ~Live(m) /\ UNCHANGED store
        \/ Live(m) /\ store' = [store EXCEPT ![m] = new]
    BY <1>9, <2>1 DEF ApiDelete, ConsumerInv, TypeOK
  <2>6. \A n \in Names : Live(n) /\ store[n].uid = call[t].uid => n = m
    BY <2>1 DEF ConsumerInv, NamesOfUids, FoundPcs
  <2> HIDE DEF m, new, c
  <2>7. Aging
    BY <2>1, <2>4, <2>5 DEF Aging, ConsumerInv, TypeOK, Live
  <2>8. \A n \in Names :
          store'[n] # None /\ store'[n].uid = c.uid => store'[n].deleting
    BY <2>1, <2>2, <2>4, <2>5, <2>6, <2>7
       DEF Aging, Live, ConsumerInv, TypeOK
  <2> QED BY <2>1, <2>2, <2>3, <2>7, <2>8, AccountKept
<1>10. CASE Forget(t)
  BY <1>10, AccountAfterForget
<1> QED BY <1>1, <1>2, <1>3, <1>4, <1>5, <1>6, <1>7, <1>8, <1>9, <1>10
        DEF HandlerStep

(* Every step keeps the account of live consumers, when no reply is lost.  *)
LEMMA AccountInvStep ==
  ASSUME LostReplies = FALSE, ConsumerInv, AccountInv, [Next]_vars
  PROVE  AccountInv'
<1>1. CASE UNCHANGED vars
  BY <1>1 DEF vars, AccountInv, HandlersKeepAccount, CacheAccountsForStore,
              TicketsAccountedFor, Recording, Live
<1>2. CASE Environment
  <2>1. PICK m \in Names : \/ ControllerUpdatesState(m)
                           \/ CollectConsumer(m)
                           \/ AdminDelete(m)
    BY <1>2 DEF Environment
  <2>2. UNCHANGED <<nameByTicket, nameByUID, call>>
    BY <2>1 DEF ControllerUpdatesState, CollectConsumer, AdminDelete
  <2>3. Aging
    <3>1. CASE ControllerUpdatesState(m)
      <4>1. PICK s \in ControllerStates(store[m]) :
              store' = [store EXCEPT ![m] = [store[m] EXCEPT !.state = s]]
        BY <3>1 DEF ControllerUpdatesState, ConsumerInv, TypeOK
      <4> DEFINE new == [store[m] EXCEPT !.state = s]
      <4>2. /\ Live(m) /\ new.uid = store[m].uid
            /\ new.ticket = store[m].ticket
            /\ new.deleting = store[m].deleting
        BY <3>1 DEF ControllerUpdatesState, ConsumerInv, TypeOK, Live,
                    Consumer
      <4> HIDE DEF new
      <4> QED BY <4>1, <4>2 DEF Aging, Live, ConsumerInv, TypeOK, new
    <3>2. CASE CollectConsumer(m) \/ AdminDelete(m)
      BY <3>2 DEF CollectConsumer, AdminDelete, Aging, ConsumerInv, TypeOK
    <3> QED BY <2>1, <3>1, <3>2
  <2> QED BY <2>2, <2>3
          DEF AccountInv, HandlersKeepAccount, CacheAccountsForStore,
              TicketsAccountedFor, Recording, Aging, Live
<1>3. CASE Restart
  <2>1. UNCHANGED store /\ \A t \in Threads : call'[t].pc = "idle"
    BY <1>3 DEF Restart, IdleCall
  <2>2. ASSUME NEW n \in Names, Live(n)
        PROVE  /\ nameByUID'[store[n].uid] = n
               /\ nameByTicket'[store[n].ticket] # None
    <3>1. store[n].uid \in UIDs /\ store[n].ticket \in Tickets
      BY <2>2 DEF ConsumerInv, TypeOK, Live, Consumer
    <3> DEFINE u == store[n].uid
    <3>2. nameByUID'[u] = CHOOSE m \in Names : Live(m) /\ store[m].uid = u
      BY <1>3, <2>2, <3>1 DEF Restart
    <3>3. /\ nameByUID'[u] \in Names
          /\ Live(nameByUID'[u])
          /\ store[nameByUID'[u]].uid = u
      BY <2>2, <3>2
    <3>4. nameByUID'[u] = n
      BY <2>2, <3>3 DEF ConsumerInv, UidsGivenOnce
    <3> DEFINE holders ==
                 {m \in Names : Live(m) /\ store[m].ticket = store[n].ticket}
    <3>5. n \in holders
      BY <2>2
    <3>6. nameByTicket'[store[n].ticket] \in holders
      BY <1>3, <3>1, <3>5 DEF Restart
    <3>7. None \notin Names
      BY ConstantsAssumption DEF ConstantsAssumption
    <3> QED BY <3>4, <3>6, <3>7
  <2> QED BY <2>1, <2>2
          DEF AccountInv, HandlersKeepAccount, CacheAccountsForStore,
              TicketsAccountedFor, Live
<1> QED BY <1>1, <1>2, <1>3, AccountAfterHandler DEF Next

(* The account holds of the empty store.                                   *)
LEMMA AccountInvInit == Init => AccountInv
BY DEF Init, AccountInv, HandlersKeepAccount, CacheAccountsForStore,
       TicketsAccountedFor, Live

(* The account holds as long as the API server's replies to Create arrive. *)
LEMMA AccountInvAlways ==
  ASSUME LostReplies = FALSE
  PROVE  Spec => []AccountInv
<1>1. Init => ConsumerInv /\ AccountInv
  BY ConsumerInvInit, AccountInvInit
<1>2. (ConsumerInv /\ AccountInv) /\ [Next]_vars => (ConsumerInv /\ AccountInv)'
  BY ConsumerInvStep, AccountInvStep
<1> QED BY <1>1, <1>2, PTL DEF Spec

(* No restart, failed call or interleaving of handlers leaves a live       *)
(* consumer out of nameByUID, as long as the replies arrive.               *)
THEOREM MapsAccountForStore ==
  ASSUME LostReplies = FALSE
  PROVE  Spec => []CacheAccountsForStore
<1>1. AccountInv => CacheAccountsForStore
  BY DEF AccountInv
<1> QED BY <1>1, AccountInvAlways, PTL

(* ... nor the ticket it was onboarded with out of nameByTicket, so that   *)
(* the ticket is refused for another consumer.                             *)
THEOREM TicketsAreAccountedFor ==
  ASSUME LostReplies = FALSE
  PROVE  Spec => []TicketsAccountedFor
<1>1. AccountInv => TicketsAccountedFor
  BY DEF AccountInv
<1> QED BY <1>1, AccountInvAlways, PTL

-----------------------------------------------------------------------------
(* Heartbeats and the lifecycle                                            *)

(* What a step does to one resource: nothing, removal, creation under a    *)
(* fresh UID, or one of the four writes the code makes.                    *)
Written(n) ==
  \/ store'[n] = store[n]
  \/ store[n] # None /\ store'[n] = None
  \/ /\ store[n] = None
     /\ \E u \in UIDs \ minted, k \in Tickets :
          store'[n] = NewConsumer(u, k) /\ minted' = minted \cup {u}
  \/ store[n] # None /\ store'[n] = [store[n] EXCEPT !.enable = TRUE]
  \/ store[n] # None /\ store'[n] = [store[n] EXCEPT !.deleting = TRUE]
  \/ /\ store[n] # None
     /\ \E s \in ControllerStates(store[n]) :
          store'[n] = [store[n] EXCEPT !.state = s]

(* Every step writes at most one resource, in one of these ways; it mints  *)
(* a UID only to create one.                                               *)
LEMMA StepWritesOne ==
  ASSUME ConsumerInv, [Next]_vars
  PROVE  \/ UNCHANGED <<store, minted>>
         \/ \E m \in Names :
              /\ Written(m)
              /\ \A n \in Names \ {m} : store'[n] = store[n]
              /\ minted' = minted \/ (store[m] = None /\ store'[m] # None)
<1>0. store \in [Names -> Consumer \cup {None}]
  BY DEF ConsumerInv, TypeOK
<1>1. ASSUME NEW t \in Threads, ApiCreate(t), ~UNCHANGED <<store, minted>>
      PROVE  \E m \in Names :
               /\ Written(m)
               /\ \A n \in Names \ {m} : store'[n] = store[n]
               /\ store[m] = None /\ store'[m] # None
  <2> DEFINE m == call[t].name
  <2>1. m \in Names /\ call[t].ticket \in Tickets
    BY <1>1 DEF ApiCreate, ConsumerInv, CallsShaped, Shaped, OnboardPcs
  <2>2. PICK u \in UIDs \ minted :
          /\ ~Live(m)
          /\ store' = [store EXCEPT ![m] = NewConsumer(u, call[t].ticket)]
          /\ minted' = minted \cup {u}
    BY <1>1 DEF ApiCreate
  <2>3. NewConsumer(u, call[t].ticket) # None
    <3>1. NewConsumer(u, call[t].ticket) \in Consumer
      BY <2>1 DEF NewConsumer, Consumer, StorageConsumerStates
    <3> QED BY <3>1, ConstantsAssumption DEF ConstantsAssumption
  <2> HIDE DEF m
  <2> QED BY <1>0, <2>1, <2>2, <2>3 DEF Written, Live
<1>2. ASSUME NEW t \in Threads, ApiUpdate(t), ~UNCHANGED store
      PROVE  \E m \in Names :
               /\ Written(m)
               /\ \A n \in Names \ {m} : store'[n] = store[n]
               /\ minted' = minted
  <2> DEFINE m == call[t].name
             obj == call[t].obj
  <2>1. m \in Names /\ obj \in Consumer
    BY <1>2 DEF ApiUpdate, ConsumerInv, CallsShaped, Shaped, FoundPcs
  <2>2. /\ obj = store[m] /\ minted' = minted
        /\ store' = [store EXCEPT ![m] = Updated(call[t].op, obj, store[m])]
    BY <1>2 DEF ApiUpdate, SameVersion
  <2>3. obj # None
    BY <2>1, ConstantsAssumption DEF ConstantsAssumption
  <2>4. \/ Updated(call[t].op, obj, store[m]) = [store[m] EXCEPT !.enable = TRUE]
        \/ Updated(call[t].op, obj, store[m]) = store[m]
    BY <2>1, <2>2 DEF Updated, Consumer
  <2> HIDE DEF m, obj
  <2>5. Written(m) /\ \A n \in Names \ {m} : store'[n] = store[n]
    BY <1>0, <2>1, <2>2, <2>3, <2>4 DEF Written
  <2> QED BY <2>1, <2>2, <2>5
<1>3. ASSUME NEW t \in Threads, ApiDelete(t), ~UNCHANGED store
      PROVE  \E m \in Names :
               /\ Written(m)
               /\ \A n \in Names \ {m} : store'[n] = store[n]
               /\ minted' = minted
  <2> DEFINE m == call[t].name
  <2>1. m \in Names
    BY <1>3 DEF ApiDelete, ConsumerInv, CallsShaped, Shaped, FoundPcs
  <2>2. /\ Live(m) /\ minted' = minted
        /\ store' = [store EXCEPT ![m] = [store[m] EXCEPT !.deleting = TRUE]]
    BY <1>0, <1>3, <2>1 DEF ApiDelete
  <2> HIDE DEF m
  <2>3. Written(m) /\ \A n \in Names \ {m} : store'[n] = store[n]
    BY <1>0, <2>1, <2>2 DEF Written, Live
  <2> QED BY <2>1, <2>2, <2>3
<1>4. ASSUME NEW t \in Threads, HandlerStep(t) \/ Request(t),
             ~ApiCreate(t), ~ApiUpdate(t), ~ApiDelete(t)
      PROVE  UNCHANGED <<store, minted>>
  BY <1>4 DEF HandlerStep, Request, OnboardConsumer, CheckTicket, Record,
              GetByName, UidCall, Lookup, ApiGet, Forget, ApiFailed,
              GetExternalResources
<1>5. ASSUME NEW t \in Threads, ApiUpdate(t) \/ ApiDelete(t)
      PROVE  minted' = minted
  BY <1>5 DEF ApiUpdate, ApiDelete
<1>6. ASSUME NEW m \in Names,
             \/ ControllerUpdatesState(m)
             \/ CollectConsumer(m)
             \/ AdminDelete(m)
      PROVE  /\ Written(m)
             /\ \A n \in Names \ {m} : store'[n] = store[n]
             /\ minted' = minted
  <2>1. CASE ControllerUpdatesState(m)
    <3>1. PICK s \in ControllerStates(store[m]) :
            store' = [store EXCEPT ![m] = [store[m] EXCEPT !.state = s]]
      BY <1>0, <2>1 DEF ControllerUpdatesState
    <3>2. Live(m) /\ minted' = minted
      BY <2>1 DEF ControllerUpdatesState
    <3> QED BY <1>0, <3>1, <3>2 DEF Written, Live
  <2>2. CASE CollectConsumer(m) \/ AdminDelete(m)
    BY <1>0, <2>2 DEF CollectConsumer, AdminDelete, Written, Live
  <2> QED BY <1>6, <2>1, <2>2
<1>7. CASE Restart \/ UNCHANGED vars
  BY <1>7 DEF Restart, vars
<1> QED BY <1>1, <1>2, <1>3, <1>4, <1>5, <1>6, <1>7 DEF Next, Environment

(* The phase of a UID that a resource holds is the resource's.             *)
HeldPhases ==
  \A n \in Names : Live(n) => PhaseOf(store[n].uid) = ConsumerPhase(store[n])

(* The lifecycle phase of a UID is the one of the resource that holds it.  *)
LEMMA PhaseOfHeld == ConsumerInv => HeldPhases
<1> SUFFICES ASSUME ConsumerInv, NEW n \in Names, Live(n)
             PROVE  PhaseOf(store[n].uid) = ConsumerPhase(store[n])
  BY DEF HeldPhases
<1> DEFINE u == store[n].uid
           h == CHOOSE m \in Names : Holds(m, u)
<1>1. h \in Names /\ Holds(h, u)
  BY DEF Holds
<1>2. h = n
  BY <1>1 DEF Holds, ConsumerInv, UidsGivenOnce
<1>3. u \in minted
  BY DEF ConsumerInv, UidsGivenOnce
<1> QED BY <1>1, <1>2, <1>3 DEF PhaseOf

(* The same in the next state.                                             *)
LEMMA PhaseOfHeldAfter == ConsumerInv' => HeldPhases'
BY PhaseOfHeld, PTL

(* A minted UID that no resource holds is gone.                            *)
LEMMA PhaseOfOthers ==
  ASSUME NEW u, \A n \in Names : ~Holds(n, u)
  PROVE  PhaseOf(u) = IF u \in minted THEN "gone" ELSE "none"
BY DEF PhaseOf

(* The write of a resource that stays there advances its phase or leaves   *)
(* it.                                                                     *)
LEMMA WriteAdvances ==
  ASSUME ConsumerInv, NEW n \in Names, Written(n), Live(n), store'[n] # None
  PROVE  /\ store'[n].uid = store[n].uid
         /\ \/ ConsumerPhase(store'[n]) = ConsumerPhase(store[n])
            \/ ConsumerPhase(store'[n])
                 \in Lifecycle!Successors(ConsumerPhase(store[n]))
<1>1. store[n] \in Consumer /\ store[n] # None /\ Sound(store[n])
  BY StoreIsSound DEF Live
<1>2. CASE store'[n] = store[n]
  BY <1>2
<1>3. CASE store'[n] = [store[n] EXCEPT !.enable = TRUE]
  BY <1>1, <1>3 DEF Consumer, Sound, ConsumerPhase, Lifecycle!Successors
<1>4. CASE store'[n] = [store[n] EXCEPT !.deleting = TRUE]
  BY <1>1, <1>4 DEF Consumer, ConsumerPhase, Lifecycle!Successors
<1>5. ASSUME NEW s \in ControllerStates(store[n]),
             store'[n] = [store[n] EXCEPT !.state = s]
      PROVE  /\ store'[n].uid = store[n].uid
             /\ \/ ConsumerPhase(store'[n]) = ConsumerPhase(store[n])
                \/ ConsumerPhase(store'[n])
                     \in Lifecycle!Successors(ConsumerPhase(store[n]))
  BY <1>1, <1>5
     DEF Consumer, ConsumerPhase, Lifecycle!Successors, ControllerStates
<1> QED BY <1>1, <1>2, <1>3, <1>4, <1>5 DEF Written, Live

(* In a step that writes only the resource m, UIDs that m holds neither    *)
(* before nor after keep their phase.                                      *)
LEMMA OtherPhasesKept ==
  ASSUME ConsumerInv, ConsumerInv', NEW m \in Names,
         \A n \in Names \ {m} : store'[n] = store[n],
         NEW u \in UIDs, ~Holds(m, u), ~Holds(m, u)',
         u \in minted' <=> u \in minted
  PROVE  PhaseOf(u)' = PhaseOf(u)
<1>1. CASE \E n \in Names : Holds(n, u)
  <2>1. PICK n \in Names : Holds(n, u)
    BY <1>1
  <2>2. n # m
    BY <2>1
  <2>3. store'[n] = store[n] /\ Holds(n, u)'
    BY <2>1, <2>2 DEF Holds, Live
  <2>4. PhaseOf(u) = ConsumerPhase(store[n])
    BY <2>1, PhaseOfHeld DEF Holds, HeldPhases
  <2>5. PhaseOf(u)' = ConsumerPhase(store'[n])
    BY <2>3, PhaseOfHeldAfter DEF Holds, HeldPhases
  <2> QED BY <2>3, <2>4, <2>5
<1>2. CASE \A n \in Names : ~Holds(n, u)
  <2>1. \A n \in Names : ~Holds(n, u)'
    BY <1>2 DEF Holds, Live
  <2>2. PhaseOf(u) = IF u \in minted THEN "gone" ELSE "none"
    BY <1>2, PhaseOfOthers
  <2>3. PhaseOf(u)' = IF u \in minted' THEN "gone" ELSE "none"
    BY <2>1 DEF PhaseOf
  <2> QED BY <2>2, <2>3
<1> QED BY <1>1, <1>2

(* Every step advances the phase of one consumer along the lifecycle, or   *)
(* changes no phase.                                                       *)
LEMMA LifecycleStep ==
  ASSUME ConsumerInv, ConsumerInv', [Next]_vars
  PROVE  [Lifecycle!Next]_([u \in UIDs |-> PhaseOf(u)])
<1> DEFINE phase == [u \in UIDs |-> PhaseOf(u)]
<1>1. ASSUME NEW v \in UIDs,
             \A u \in UIDs \ {v} : PhaseOf(u)' = PhaseOf(u),
             \/ PhaseOf(v)' = PhaseOf(v)
             \/ PhaseOf(v)' \in Lifecycle!Successors(PhaseOf(v))
      PROVE  [Lifecycle!Next]_([u \in UIDs |-> PhaseOf(u)])
  <2>1. phase' = [phase EXCEPT ![v] = PhaseOf(v)']
    BY <1>1
  <2>2. CASE PhaseOf(v)' = PhaseOf(v)
    <3>1. \A u \in UIDs : PhaseOf(u)' = PhaseOf(u)
      BY <1>1, <2>2
    <3> QED BY <3>1
  <2>3. CASE PhaseOf(v)' \in Lifecycle!Successors(PhaseOf(v))
    <3>1. phase[v] = PhaseOf(v)
      OBVIOUS
    <3>2. Lifecycle!Advance(v)
      BY <2>1, <2>3, <3>1 DEF Lifecycle!Advance
    <3> QED BY <3>2 DEF Lifecycle!Next
  <2> QED BY <1>1, <2>2, <2>3
<1>2. CASE UNCHANGED <<store, minted>>
  <2>1. \A u \in UIDs : PhaseOf(u)' = PhaseOf(u)
    BY <1>2 DEF PhaseOf, Holds, Live
  <2> QED BY <2>1
<1>3. ASSUME NEW m \in Names, Written(m),
             \A n \in Names \ {m} : store'[n] = store[n],
             minted' = minted \/ (store[m] = None /\ store'[m] # None)
      PROVE  [Lifecycle!Next]_([u \in UIDs |-> PhaseOf(u)])
  <2>1. CASE store[m] # None /\ store'[m] # None
    <3> DEFINE v == store[m].uid
    <3>1. v \in UIDs /\ store'[m].uid = v /\ minted' = minted
      BY <1>3, <2>1, WriteAdvances DEF Live, ConsumerInv, TypeOK, Consumer
    <3>2. PhaseOf(v) = ConsumerPhase(store[m])
      BY <2>1, PhaseOfHeld DEF HeldPhases, Live
    <3>3. PhaseOf(v)' = ConsumerPhase(store'[m])
      BY <2>1, <3>1, PhaseOfHeldAfter DEF HeldPhases, Live
    <3>4. ASSUME NEW u \in UIDs \ {v}
          PROVE  PhaseOf(u)' = PhaseOf(u)
      <4>1. ~Holds(m, u) /\ ~Holds(m, u)'
        BY <3>1 DEF Holds
      <4> QED BY <1>3, <3>1, <4>1, OtherPhasesKept
    <3>5. \/ PhaseOf(v)' = PhaseOf(v)
          \/ PhaseOf(v)' \in Lifecycle!Successors(PhaseOf(v))
      BY <1>3, <2>1, <3>2, <3>3, WriteAdvances DEF Live
    <3> QED BY <1>1, <3>1, <3>4, <3>5
  <2>2. CASE store[m] # None /\ store'[m] = None
    <3>1. PICK v \in UIDs : v = store[m].uid
      BY <2>2 DEF ConsumerInv, TypeOK, Consumer
    <3>a. v \in minted /\ minted' = minted
      BY <1>3, <2>2, <3>1 DEF Live, ConsumerInv, UidsGivenOnce
    <3>2. PhaseOf(v) = ConsumerPhase(store[m])
      BY <2>2, <3>1, PhaseOfHeld DEF HeldPhases, Live
    <3>b. \A n \in Names \ {m} : ~Holds(n, v)
      BY <2>2, <3>1 DEF Holds, Live, ConsumerInv, UidsGivenOnce
    <3>3. \A n \in Names : ~Holds(n, v)'
      BY <1>3, <2>2, <3>b DEF Holds, Live
    <3>4. PhaseOf(v)' = "gone"
      BY <3>a, <3>3 DEF PhaseOf
    <3>5. ASSUME NEW u \in UIDs \ {v}
          PROVE  PhaseOf(u)' = PhaseOf(u)
      <4>1. ~Holds(m, u) /\ ~Holds(m, u)'
        BY <2>2, <3>1 DEF Holds, Live
      <4> QED BY <1>3, <3>a, <4>1, OtherPhasesKept
    <3>6. PhaseOf(v)' \in Lifecycle!Successors(PhaseOf(v))
      BY <3>2, <3>4 DEF ConsumerPhase, Lifecycle!Successors
    <3> QED BY <1>1, <3>5, <3>6
  <2>3. CASE store[m] = None /\ store'[m] # None
    <3>1. PICK v \in UIDs \ minted, k \in Tickets :
            store'[m] = NewConsumer(v, k) /\ minted' = minted \cup {v}
      BY <1>3, <2>3 DEF Written
    <3>2. store'[m].uid = v /\ ConsumerPhase(store'[m]) = "pending"
      <4>1. /\ NewConsumer(v, k).uid = v
            /\ NewConsumer(v, k).deleting = FALSE
            /\ NewConsumer(v, k).enable = FALSE
        BY DEF NewConsumer
      <4> QED BY <3>1, <4>1 DEF ConsumerPhase
    <3>3. PhaseOf(v)' = "pending"
      BY <2>3, <3>2, PhaseOfHeldAfter DEF HeldPhases, Live
    <3>4. PhaseOf(v) = "none"
      BY <3>1 DEF PhaseOf
    <3>5. ASSUME NEW u \in UIDs \ {v}
          PROVE  PhaseOf(u)' = PhaseOf(u)
      <4>1. ~Holds(m, u) /\ ~Holds(m, u)' /\ (u \in minted' <=> u \in minted)
        BY <2>3, <3>1, <3>2 DEF Holds, Live
      <4> QED BY <1>3, <4>1, OtherPhasesKept
    <3>6. PhaseOf(v)' \in Lifecycle!Successors(PhaseOf(v))
      BY <3>3, <3>4 DEF Lifecycle!Successors
    <3> QED BY <1>1, <3>5, <3>6
  <2>4. CASE store[m] = None /\ store'[m] = None
    <3>1. store' = store
      BY <1>3, <2>4 DEF ConsumerInv, TypeOK
    <3> QED BY <1>2, <1>3, <2>4, <3>1
  <2> QED BY <2>1, <2>2, <2>3, <2>4
<1> QED BY <1>2, <1>3, StepWritesOne

(* The provider's consumers go through the promised lifecycle, whatever    *)
(* the handlers, the controller and the administrator do, and also when    *)
(* replies are lost.                                                       *)
THEOREM ImplementsConsumerLifecycle == Spec => ImplementsLifecycle
<1>1. Init => Lifecycle!Init
  BY DEF Init, Lifecycle!Init, PhaseOf
<1>2. ConsumerInv /\ ConsumerInv' /\ [Next]_vars
        => [Lifecycle!Next]_([u \in UIDs |-> PhaseOf(u)])
  BY LifecycleStep
<1> QED BY <1>1, <1>2, ConsumerInvariant, PTL
        DEF Spec, ImplementsLifecycle, Lifecycle!Spec
=============================================================================
