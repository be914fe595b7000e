--------------------------- MODULE ElectionProofs ---------------------------
(* The election of StorageClusters, for every set of clusters and all      *)
(* bounds: of clusters that conflict in namespace or kind at most one is   *)
(* active, and an ignored one stays ignored.                               *)
EXTENDS StorageClustersProofs, FiniteSetTheorems

(* What the election rests on.  An invalid cluster is reported as Error    *)
(* without an election; two clusters of one name exclude each other for as *)
(* long as both exist, even after one of them has won; and between two     *)
(* clusters of one second the name decides, whichever came first.          *)
DecidableElection ==
  /\ ~InvalidSpecs
  /\ \A j, k \in Clusters : Name[j] = Name[k] => j = k
  /\ \A u, v \in UID : u < v => Second[u] < Second[v]

-----------------------------------------------------------------------------
(* What any step does                                                      *)

(* To the stored clusters: an object keeps its UID and a deletion mark, is *)
(* not taken back from Ignored, and is Ignored only at the end of a        *)
(* reconcile and when the cache does not show it as a candidate.  It gets  *)
(* the standing of an elected one from a reconcile that has elected it.    *)
Kept(k) ==
  /\ store[k] # None
  /\ store'[k].uid = store[k].uid
  /\ store[k].deleting => store'[k].deleting
  /\ store[k].phase = "Ignored" => store'[k].phase = "Ignored"
  /\ store'[k].phase = "Ignored" /\ store[k].phase # "Ignored" =>
       /\ worker'.pc = "idle"
       /\ cache[k] # None /\ Guarded(cache[k]) => cache[k].phase = "Ignored"
  /\ Claims(store'[k]) =>
       \/ Claims(store[k])
       \/ /\ worker.pc # "idle" /\ worker.key = k
          /\ Claims(worker.sc) /\ worker.sc.uid = store[k].uid

New(k) ==
  /\ store[k] = None /\ store'[k] # None
  /\ store'[k].uid = created + 1
  /\ created' = created + 1
  /\ ~Claims(store'[k])
  /\ store'[k].phase # "Ignored"
  /\ \A j \in Clusters \ {k} : store'[j] = store[j]

StoreStep ==
  /\ created' \in {created, created + 1}
  /\ \A k \in Clusters : store'[k] # None =>
       store'[k].valid /\ (Kept(k) \/ New(k))

(* To the cache: nothing, or it becomes exact.                             *)
CacheStep == UNCHANGED cache \/ (cache' = store /\ UNCHANGED store)

(* To a reconcile: it starts from the cache, goes on with the same object, *)
(* or ends.  An object in memory becomes elected by winning the election.  *)
Starts ==
  /\ UNCHANGED <<store, cache>>
  /\ worker'.key \in Clusters
  /\ cache[worker'.key] # None
  /\ worker'.base = cache[worker'.key]
  /\ worker'.sc = cache[worker'.key]

GoesOn ==
  /\ UNCHANGED cache
  /\ worker.pc # "idle"
  /\ worker'.key = worker.key
  /\ worker'.sc.uid = worker.sc.uid
  /\ worker'.sc.valid /\ worker'.base.valid
  /\ \/ worker'.base = cache[worker.key] /\ cache[worker.key] # None
     \/ /\ worker'.base.uid = worker.base.uid
        /\ Claims(worker'.base) =>
             \/ Claims(worker.base)
             \/ Claims(worker.sc) /\ worker.sc.uid = worker.base.uid
  /\ Claims(worker'.sc) =>
       \/ Claims(worker.sc)
       \/ Live(worker.key, worker.sc.uid) => Rightful(worker.key, worker.sc.uid)

ReconcileStep ==
  worker'.pc = "idle" \/ UNCHANGED worker \/ Starts \/ GoesOn

Effect == StoreStep /\ CacheStep /\ ReconcileStep

-----------------------------------------------------------------------------
(* Copies                                                                  *)

(* What the type invariant says of the copies.                             *)
LEMMA CopyTypes ==
  ASSUME TypeInv
  PROVE  /\ created \in Nat
         /\ \A o \in Cluster : o.uid \in Nat /\ o.uid \in UID /\ o # None
         /\ \A k \in Clusters : store[k] # None => store[k] \in Cluster
         /\ \A k \in Clusters : cache[k] # None => cache[k] \in Cluster
         /\ worker.pc # "idle" =>
              /\ worker.key \in Clusters
              /\ worker.base \in Cluster
              /\ worker.sc \in Cluster
<1>1. \A o \in Cluster : o.uid \in Nat /\ o.uid \in UID /\ o # None
  BY ConstantsAssumption DEF Cluster, UID
<1>. QED
  BY <1>1, ConstantsAssumption DEF TypeInv, TypeOK, WorkerShaped

(* What the uniqueness of UIDs says of the copies, one by one.             *)
LEMMA CopyFacts ==
  ASSUME TypeInv, UidsUnique, NEW k \in Clusters
  PROVE  /\ store[k] # None => store[k].uid <= created /\ store[k].valid
         /\ cache[k] # None => cache[k].uid <= created /\ cache[k].valid
         /\ worker.pc # "idle" =>
              /\ worker.base.uid <= created /\ worker.base.valid
              /\ worker.sc.uid <= created /\ worker.sc.valid
         /\ \A j \in Clusters \ {k} :
              /\ store[j] # None /\ store[k] # None =>
                   store[j].uid # store[k].uid
              /\ cache[j] # None /\ worker.pc # "idle" /\ worker.key = k =>
                   cache[j].uid # worker.sc.uid
<1>1. /\ store[k] # None => store[k] \in Copies(k)
      /\ cache[k] # None => cache[k] \in Copies(k)
  BY DEF Copies
<1>2. worker.pc # "idle" =>
        /\ worker.key \in Clusters
        /\ worker.base \in Copies(worker.key)
        /\ worker.sc \in Copies(worker.key)
  BY CopyTypes DEF Copies
<1>3. ASSUME NEW j \in Clusters \ {k}
      PROVE  /\ store[j] # None => store[j] \in Copies(j)
             /\ cache[j] # None => cache[j] \in Copies(j)
  BY DEF Copies
<1>. QED
  BY <1>1, <1>2, <1>3 DEF UidsUnique

(* Every copy after a step descends from one before it, or is new.         *)
LEMMA CopiesDescend ==
  ASSUME TypeInv, UidsUnique, Effect, NEW k \in Clusters, NEW o \in Copies(k)'
  PROVE  /\ o.valid
         /\ \/ \E p \in Copies(k) : p.uid = o.uid
            \/ New(k) /\ o.uid = created + 1
<1>1. CASE o = store'[k] /\ store'[k] # None
  <2>1. o.valid /\ (Kept(k) \/ New(k))
    BY <1>1 DEF Effect, StoreStep
  <2>2. Kept(k) => store[k] \in Copies(k) /\ store[k].uid = o.uid
    BY <1>1 DEF Kept, Copies
  <2>. QED
    BY <1>1, <2>1, <2>2 DEF New
<1>2. CASE o = cache'[k] /\ cache'[k] # None
  <2>1. o \in Copies(k)
    BY <1>2 DEF Effect, CacheStep, Copies
  <2>. QED
    BY <2>1 DEF UidsUnique
<1>3. CASE o \in {worker'.base, worker'.sc} /\ worker'.pc # "idle"
           /\ worker'.key = k
  <2>1. CASE UNCHANGED worker
    <3>1. o \in Copies(k)
      BY <1>3, <2>1 DEF Copies
    <3>. QED
      BY <3>1 DEF UidsUnique
  <2>2. CASE Starts
    <3>1. o \in Copies(k)
      BY <1>3, <2>2 DEF Starts, Copies
    <3>. QED
      BY <3>1 DEF UidsUnique
  <2>3. CASE GoesOn
    <3>1. /\ worker.base \in Copies(k) /\ worker.sc \in Copies(k)
          /\ cache[k] # None => cache[k] \in Copies(k)
          /\ o.valid
      BY <1>3, <2>3 DEF GoesOn, Copies
    <3>2. \E p \in Copies(k) : p.uid = o.uid
      BY <1>3, <2>3, <3>1 DEF GoesOn
    <3>. QED
      BY <3>1, <3>2
  <2>. QED
    BY <1>3, <2>1, <2>2, <2>3 DEF Effect, ReconcileStep
<1>. QED
  BY <1>1, <1>2, <1>3 DEF Copies

(* UIDs stay unique.                                                       *)
LEMMA UidsUniqueStep ==
  ASSUME TypeInv, UidsUnique, Effect
  PROVE  UidsUnique'
<1>1. created \in Nat /\ created' \in {created, created + 1}
  BY CopyTypes DEF Effect, StoreStep
<1>2. \A k \in Clusters : \A p \in Copies(k) : p.uid \in Nat /\ p.uid <= created
  BY CopyTypes DEF Copies, UidsUnique
<1>3. ASSUME NEW k \in Clusters, NEW o \in Copies(k)'
      PROVE  o.uid <= created' /\ o.valid
  BY <1>1, <1>2, <1>3, CopiesDescend DEF New
<1>4. ASSUME NEW j \in Clusters, NEW k \in Clusters,
             NEW o \in Copies(j)', NEW p \in Copies(k)', o.uid = p.uid
      PROVE  j = k
  <2>1. \/ \E q \in Copies(j) : q.uid = o.uid
        \/ New(j) /\ o.uid = created + 1
    BY <1>4, CopiesDescend
  <2>2. \/ \E q \in Copies(k) : q.uid = p.uid
        \/ New(k) /\ p.uid = created + 1
    BY <1>4, CopiesDescend
  <2>3. ~(created + 1 <= created)
    BY <1>1
  <2>4. New(j) /\ New(k) => j = k
    <3>. SUFFICES ASSUME New(j), New(k), j # k PROVE FALSE
      OBVIOUS
    <3>. QED
      BY <1>1, <2>3 DEF New
  <2>. QED
    BY <1>2, <1>4, <2>1, <2>2, <2>3, <2>4 DEF UidsUnique
<1>. QED
  BY <1>3, <1>4 DEF UidsUnique

-----------------------------------------------------------------------------
(* What the effect of a step preserves                                     *)

(* An object that exists after the step and was created before it existed  *)
(* before it.                                                              *)
LEMMA OldIsKept ==
  ASSUME TypeInv, Effect, NEW k \in Clusters, store'[k] # None,
         store'[k].uid <= created
  PROVE  Kept(k)
BY CopyTypes DEF Effect, StoreStep, New

(* Whoever yields to an object that was created goes on to.                *)
LEMMA YieldsStable ==
  ASSUME TypeInv, Effect, NEW k \in Clusters, NEW u \in Nat, u <= created,
         Yields(k, u)
  PROVE  Yields(k, u)'
<1>1. ASSUME store'[k] # None, store'[k].uid < u
      PROVE  store'[k].phase = "Ignored"
  <2>1. Kept(k) \/ store'[k].uid = created + 1
    BY <1>1 DEF Effect, StoreStep, New
  <2>2. Kept(k)
    BY <1>1, <2>1, CopyTypes
  <2>. QED
    BY <1>1, <2>2 DEF Kept, Yields
<1>2. ASSUME cache'[k] # None, cache'[k].uid < u
      PROVE  cache'[k].phase = "Ignored"
  BY <1>2 DEF Effect, CacheStep, Yields
<1>. QED
  BY <1>1, <1>2 DEF Yields

(* A won election stays won.                                               *)
LEMMA RightfulStable ==
  ASSUME TypeInv, Effect, NEW k \in Clusters, NEW u \in Nat, u <= created,
         Rightful(k, u)
  PROVE  Rightful(k, u)'
BY YieldsStable DEF Rightful

(* The cache stays a snapshot.                                             *)
LEMMA CacheCoversStep ==
  ASSUME TypeInv, UidsUnique, CacheCovers, Effect
  PROVE  CacheCovers'
<1>1. CASE cache' = store /\ UNCHANGED store
  BY <1>1 DEF CacheCovers, Cached
<1>2. CASE UNCHANGED cache
  <2>. SUFFICES ASSUME NEW k \in Clusters, store'[k] # None
                PROVE  /\ \A j \in Clusters :
                            cache[j] # None /\ store'[k].uid <= cache[j].uid
                              => Cached(k)'
                       /\ worker'.pc # "idle" /\ store'[k].uid <= worker'.sc.uid
                            => Cached(k)'
    BY <1>2 DEF CacheCovers
  <2>1. \A j \in Clusters : cache[j] # None =>
          cache[j].uid \in Nat /\ cache[j].uid <= created
    BY CopyTypes, CopyFacts
  <2>2. worker.pc # "idle" =>
          worker.sc.uid \in Nat /\ worker.sc.uid <= created
    BY CopyTypes, CopyFacts
  <2>3. worker'.pc # "idle" =>
          \/ worker.pc # "idle" /\ worker'.sc.uid = worker.sc.uid
          \/ \E j \in Clusters : cache[j] # None /\ worker'.sc.uid = cache[j].uid
    BY DEF Effect, ReconcileStep, Starts, GoesOn
  <2>4. created \in Nat
    BY CopyTypes
  <2>5. CASE New(k)
    BY <2>1, <2>2, <2>3, <2>4, <2>5 DEF New
  <2>6. CASE Kept(k)
    <3>1. store[k] # None /\ store'[k].uid = store[k].uid
      BY <2>6 DEF Kept
    <3>2. Cached(k) => Cached(k)'
      BY <1>2, <3>1 DEF Cached
    <3>3. /\ \A j \in Clusters :
               cache[j] # None /\ store[k].uid <= cache[j].uid => Cached(k)
          /\ worker.pc # "idle" /\ store[k].uid <= worker.sc.uid => Cached(k)
      BY <3>1 DEF CacheCovers
    <3>. QED
      BY <2>3, <3>1, <3>2, <3>3
  <2>. QED
    BY <2>5, <2>6 DEF Effect, StoreStep
<1>. QED
  BY <1>1, <1>2 DEF Effect, CacheStep

(* Precedence is kept.                                                     *)
LEMMA PrecedenceStep ==
  ASSUME TypeInv, UidsUnique, Precedence, Effect
  PROVE  Precedence'
<1>1. \A o \in Cluster : o.uid \in Nat
  BY CopyTypes
<1>2. ASSUME NEW k \in Clusters, store'[k] # None, Claims(store'[k])
      PROVE  Rightful(k, store[k].uid)'
  <2>1. Kept(k)
    BY <1>2 DEF Effect, StoreStep, New
  <2>2. Rightful(k, store[k].uid)
    BY <1>2, <2>1 DEF Kept, Precedence, Live
  <2>3. store[k].uid \in Nat /\ store[k].uid <= created
    BY <2>1, CopyTypes, CopyFacts DEF Kept
  <2>. QED
    BY <2>1, <2>2, <2>3, RightfulStable DEF Kept
<1>3. ASSUME NEW k \in Clusters, cache'[k] # None, Claims(cache'[k])
      PROVE  Rightful(k, cache[k].uid)'
  <2>1. Rightful(k, cache'[k].uid)
    BY <1>3 DEF Effect, CacheStep, Precedence
  <2>2. cache'[k].uid \in Nat /\ cache'[k].uid <= created
    BY <1>3, CopyTypes, CopyFacts DEF Effect, CacheStep
  <2>. QED
    BY <2>1, <2>2, RightfulStable
<1>4. ASSUME NEW k \in Clusters, NEW o \in {worker'.base, worker'.sc},
             worker'.pc # "idle", worker'.key = k, Claims(o), Live(k, o.uid)'
      PROVE  Rightful(k, o.uid)'
  <2>1. CASE UNCHANGED worker
    <3>1. /\ worker.key = k /\ o \in {worker.base, worker.sc}
          /\ o.uid \in Nat /\ o.uid <= created
      BY <1>4, <2>1, CopyTypes, CopyFacts
    <3>2. Live(k, o.uid)
      BY <1>4, <3>1, OldIsKept DEF Live, Kept
    <3>3. Rightful(k, o.uid)
      BY <1>4, <2>1, <3>1, <3>2 DEF Precedence
    <3>. QED
      BY <3>1, <3>3, RightfulStable
  <2>2. CASE Starts
    <3>1. o = cache[k] /\ cache[k] # None
      BY <1>4, <2>2 DEF Starts
    <3>2. Rightful(k, o.uid) /\ o.uid \in Nat /\ o.uid <= created
      BY <1>4, <3>1, CopyTypes, CopyFacts DEF Precedence
    <3>. QED
      BY <3>2, RightfulStable
  <2>3. CASE GoesOn
    <3>1. /\ worker.pc # "idle" /\ worker.key = k
          /\ worker'.sc.uid = worker.sc.uid
      BY <1>4, <2>3 DEF GoesOn
    <3>2. /\ worker.base.uid \in Nat /\ worker.base.uid <= created
          /\ worker.sc.uid \in Nat /\ worker.sc.uid <= created
      BY <3>1, CopyTypes, CopyFacts
    <3>3. CASE o = worker'.sc
      <4>1. Live(k, worker.sc.uid)
        BY <1>4, <3>1, <3>2, <3>3, OldIsKept DEF Live, Kept
      <4>2. Rightful(k, worker.sc.uid)
        BY <1>4, <2>3, <3>1, <3>3, <4>1 DEF GoesOn, Precedence
      <4>. QED
        BY <3>1, <3>2, <3>3, <4>2, RightfulStable
    <3>4. CASE o = worker'.base /\ worker'.base = cache[k] /\ cache[k] # None
      <4>1. Rightful(k, o.uid) /\ o.uid \in Nat /\ o.uid <= created
        BY <1>4, <3>4, CopyTypes, CopyFacts DEF Precedence
      <4>. QED
        BY <4>1, RightfulStable
    <3>5. CASE /\ o = worker'.base
               /\ worker'.base.uid = worker.base.uid
               /\ \/ Claims(worker.base)
                  \/ Claims(worker.sc) /\ worker.sc.uid = worker.base.uid
      <4>1. Live(k, worker.base.uid)
        BY <1>4, <3>2, <3>5, OldIsKept DEF Live, Kept
      <4>2. Rightful(k, worker.base.uid)
        BY <3>1, <3>5, <4>1 DEF Precedence
      <4>. QED
        BY <3>2, <3>5, <4>2, RightfulStable
    <3>. QED
      BY <1>4, <2>3, <3>1, <3>3, <3>4, <3>5 DEF GoesOn
  <2>. QED
    BY <1>4, <2>1, <2>2, <2>3 DEF Effect, ReconcileStep
<1>. QED
  BY <1>2, <1>3, <1>4 DEF Precedence

(* The cache stays truthful about Ignored.                                 *)
LEMMA CacheDecidedStep ==
  ASSUME TypeInv, OrphanInv, OrphanInv', UidsUnique, CacheDecided, Effect
  PROVE  CacheDecided'
<1>. SUFFICES ASSUME NEW k \in Clusters, cache'[k] # None
              PROVE  /\ cache'[k].phase = "Ignored" /\ Live(k, cache[k].uid)'
                          => store'[k].phase = "Ignored"
                     /\ Guarded(cache'[k]) /\ cache'[k].phase # "Ignored"
                          => store'[k].phase # "Ignored"
  BY DEF CacheDecided, Guarded
<1>1. CASE cache' = store /\ UNCHANGED store
  BY <1>1
<1>2. CASE UNCHANGED cache
  <2>1. cache[k].uid \in Nat /\ cache[k].uid <= created
    BY <1>2, CopyTypes, CopyFacts
  <2>2. ASSUME cache[k].phase = "Ignored", Live(k, cache[k].uid)'
        PROVE  store'[k].phase = "Ignored"
    <3>1. Kept(k) /\ Live(k, cache[k].uid)
      BY <1>2, <2>1, <2>2, OldIsKept DEF Live, Kept
    <3>. QED
      BY <1>2, <2>2, <3>1 DEF Kept, CacheDecided
  <2>3. ASSUME Guarded(cache[k]), cache[k].phase # "Ignored"
        PROVE  store'[k].phase # "Ignored"
    <3>1. store'[k] # None /\ store'[k].uid = cache[k].uid
      BY <1>2, <2>3 DEF OrphanInv, CacheTrusted, Held, Guarded
    <3>2. Kept(k)
      BY <2>1, <3>1, OldIsKept
    <3>. QED
      BY <1>2, <2>3, <3>2 DEF Kept, CacheDecided
  <2>. QED
    BY <1>2, <2>2, <2>3
<1>. QED
  BY <1>1, <1>2 DEF Effect, CacheStep

-----------------------------------------------------------------------------
(* The election                                                            *)

(* Whoever has two members has more than one.                              *)
LEMMA TwoMembers ==
  ASSUME NEW S, IsFiniteSet(S), NEW x \in S, NEW y \in S, x # y
  PROVE  Cardinality(S) \in Nat /\ Cardinality(S) > 1
<1>1. IsFiniteSet({x, y}) /\ Cardinality({x, y}) = 2
  <2>1. IsFiniteSet({x}) /\ Cardinality({x}) = 1
    BY FS_Singleton
  <2>2. {x} \cup {y} = {x, y} /\ y \notin {x}
    OBVIOUS
  <2>. QED
    BY <2>1, <2>2, FS_AddElement
<1>2. Cardinality(S) \in Nat /\ Cardinality({x, y}) <= Cardinality(S)
  BY FS_Subset, FS_CardinalityType
<1>. QED
  BY <1>1, <1>2

(* The order of the naturals, where records hide it from the provers.      *)
LEMMA NaturalsOrdered ==
  ASSUME NEW m \in Nat, NEW n \in Nat
  PROVE  /\ ~(m < n) /\ m # n => n < m
         /\ m < n => n >= m /\ n # m
OBVIOUS

(* Later creations have later timestamps.                                  *)
LEMMA SecondsOrdered ==
  ASSUME DecidableElection, NEW u \in UID, NEW v \in UID
  PROVE  /\ Second[u] \in Nat /\ Second[v] \in Nat
         /\ u \in Nat /\ v \in Nat
         /\ u < v <=> Second[u] < Second[v]
         /\ u = v <=> Second[u] = Second[v]
<1>1. /\ Second[u] \in Nat /\ Second[v] \in Nat /\ u \in Nat /\ v \in Nat
      /\ u < v => Second[u] < Second[v]
      /\ v < u => Second[v] < Second[u]
  BY ConstantsAssumption DEF DecidableElection, UID
<1>2. u = v => Second[u] = Second[v]
  OBVIOUS
<1>. QED
  BY <1>1, <1>2

(* Whoever wins the election, unless it is gone, has precedence over every *)
(* cluster it conflicts with: its list shows whatever is older.            *)
LEMMA NewlyElected ==
  ASSUME DecidableElection, TypeInv, UidsUnique, CacheCovers, CacheDecided,
         worker.pc = "phases", IsActiveStorageCluster(worker.key, worker.sc),
         Live(worker.key, worker.sc.uid)
  PROVE  Rightful(worker.key, worker.sc.uid)
<1>. DEFINE k == worker.key
            u == worker.sc.uid
<1>1. k \in Clusters /\ worker.sc \in Cluster /\ u \in UID /\ u \in Nat
  BY CopyTypes
<1>2. External[k] \/ Namespace[k] = OperatorNamespace
  BY DEF IsActiveStorageCluster
<1>3. cache[k] # None
  BY <1>1 DEF CacheCovers, Cached, Live
<1>. SUFFICES ASSUME NEW j \in Clusters, Conflict(j, k)
              PROVE  Yields(j, u)
  BY <1>2 DEF Rightful
<1>4. ASSUME cache[j] # None, cache[j].uid < u, cache[j].phase # "Ignored"
      PROVE  FALSE
  <2>1. PICK S : /\ S \in {SameNamespace(k), SameKind(k)}
                 /\ j \in S /\ k \in S
    BY <1>1, <1>3, <1>4 DEF Conflict, SameNamespace, SameKind, Listed
  <2>2. IsFiniteSet(S)
    <3>1. S \in SUBSET Clusters /\ IsFiniteSet(Clusters)
      BY <2>1, ConstantsAssumption DEF SameNamespace, SameKind, Listed
    <3>. QED
      BY <3>1, FS_Subset
  <2>3. ~(Cardinality(S) <= 1) /\ Cardinality(S) # 1
    BY <2>1, <2>2, TwoMembers DEF Conflict
  <2>4. IsStorageClusterNotIgnored(k, worker.sc, S)
    BY <2>1, <2>3 DEF IsActiveStorageCluster
  <2>5. Name[j] # Name[k]
    BY <1>1 DEF DecidableElection, Conflict
  <2>6. Second[cache[j].uid] >= Second[u]
    BY <1>4, <2>1, <2>4, <2>5 DEF IsStorageClusterNotIgnored
  <2>7. cache[j].uid \in UID
    BY <1>4, CopyTypes
  <2>. QED
    BY <1>1, <1>4, <2>6, <2>7, SecondsOrdered
<1>5. ASSUME store[j] # None, store[j].uid < u
      PROVE  store[j].phase = "Ignored"
  <2>1. store[j].uid \in Nat
    BY <1>5, CopyTypes
  <2>2. Cached(j)
    BY <1>1, <1>5, <2>1 DEF CacheCovers
  <2>3. cache[j].phase = "Ignored"
    BY <1>4, <1>5, <2>2 DEF Cached
  <2>. QED
    BY <1>5, <2>2, <2>3 DEF CacheDecided, Cached, Live
<1>. QED
  BY <1>4, <1>5 DEF Yields

(* Whoever was elected and has its finalizer but no phase yet wins again.  *)
LEMMA ElectedAgain ==
  ASSUME DecidableElection, TypeInv, OrphanInv, UidsUnique, Precedence,
         WorkerDecided, worker.pc = "phases",
         Guarded(worker.sc), worker.sc.phase = ""
  PROVE  IsActiveStorageCluster(worker.key, worker.sc)
<1>. DEFINE k == worker.key
            u == worker.sc.uid
<1>1. k \in Clusters /\ worker.sc \in Cluster /\ u \in UID /\ u \in Nat
  BY CopyTypes
<1>2. worker.sc = worker.base
  BY DEF WorkerDecided
<1>3. Live(k, u) /\ store[k].phase # "Ignored"
  BY <1>2 DEF OrphanInv, WorkerTrusted, Held, Live, WorkerDecided
<1>4. Rightful(k, u)
  BY <1>1, <1>3 DEF Precedence, Claims, Guarded
<1>5. \A S : S \in SUBSET SameNamespace(k) \/ S \in SUBSET SameKind(k)
        => IsStorageClusterNotIgnored(k, worker.sc, S)
  <2>. SUFFICES ASSUME NEW j \in SameNamespace(k) \cup SameKind(k),
                       cache[j].phase # "Ignored", Name[j] # Name[k]
                PROVE  /\ cache[j].phase = ""
                       /\ Second[cache[j].uid] >= Second[u]
                       /\ Second[cache[j].uid] # Second[u]
    BY DEF IsStorageClusterNotIgnored
  <2>1. j \in Clusters /\ cache[j] # None /\ Conflict(j, k)
    BY DEF SameNamespace, SameKind, Listed, Conflict
  <2>2. cache[j].uid \in UID /\ cache[j].uid \in Nat
    BY <2>1, CopyTypes
  <2>3. ~(cache[j].uid < u)
    BY <1>4, <2>1 DEF Rightful, Yields
  <2>4. cache[j].uid # u
    BY <1>1, <2>1, CopyFacts DEF Conflict
  <2>5. u < cache[j].uid
    BY <1>1, <2>2, <2>3, <2>4, NaturalsOrdered
  <2>6. Second[u] < Second[cache[j].uid] /\ Second[u] \in Nat
        /\ Second[cache[j].uid] \in Nat
    BY <1>1, <2>2, <2>5, SecondsOrdered
  <2>7. cache[j].phase = ""
    <3>. SUFFICES ASSUME cache[j].phase # "" PROVE FALSE
      OBVIOUS
    <3>1. Rightful(j, cache[j].uid)
      BY <2>1 DEF Precedence, Claims
    <3>2. Yields(k, cache[j].uid)
      BY <1>1, <2>1, <3>1 DEF Rightful, Conflict
    <3>. QED
      BY <1>3, <2>5, <3>2 DEF Yields, Live
  <2>. QED
    BY <2>6, <2>7, NaturalsOrdered
<1>6. Cardinality(SameName(k)) <= 1
  <2>1. SameName(k) \in SUBSET {k}
    BY <1>1 DEF SameName, Listed, DecidableElection
  <2>2. IsFiniteSet({k}) /\ Cardinality({k}) = 1
    BY FS_Singleton
  <2>. QED
    BY <2>1, <2>2, FS_Subset
<1>. QED
  BY <1>4, <1>5, <1>6 DEF IsActiveStorageCluster, Guarded, Rightful

-----------------------------------------------------------------------------
(* Each action has this effect, and a reconcile knows what it needs        *)

(* Nothing happens to the store.                                           *)
LEMMA StoreUntouched ==
  ASSUME TypeInv, UidsUnique, UNCHANGED <<store, created>>
  PROVE  StoreStep
BY CopyFacts DEF StoreStep, Kept

(* One object changes, without a change of its phase, or goes.             *)
LEMMA StoreTouched ==
  ASSUME TypeInv, UidsUnique, NEW k \in Clusters, NEW c,
         store' = [store EXCEPT ![k] = c], created' = created,
         c # None =>
           /\ store[k] # None
           /\ c.valid /\ c.uid = store[k].uid /\ c.phase = store[k].phase
           /\ store[k].deleting => c.deleting
           /\ c.finalizer =>
                \/ store[k].finalizer
                \/ /\ worker.pc # "idle" /\ worker.key = k
                   /\ Claims(worker.sc) /\ worker.sc.uid = store[k].uid
  PROVE  StoreStep
<1>1. store'[k] = c /\ \A j \in Clusters \ {k} : store'[j] = store[j]
  BY DEF TypeInv, TypeOK
<1>2. ASSUME NEW j \in Clusters \ {k}, store'[j] # None
      PROVE  store'[j].valid /\ Kept(j)
  BY <1>1, <1>2, CopyFacts DEF Kept
<1>3. c # None => c.valid /\ Kept(k)
  BY <1>1 DEF Kept, Claims
<1>. QED
  BY <1>1, <1>2, <1>3 DEF StoreStep

(* While others act, what a reconcile knows stays true.                    *)
LEMMA WorkerDecidedFrame ==
  ASSUME TypeInv, OrphanInv, OrphanInv', UidsUnique, WorkerDecided, Effect,
         UNCHANGED worker
  PROVE  WorkerDecided'
<1>. DEFINE k == worker.key
            u == worker.base.uid
<1>1. worker.pc # "idle" =>
        k \in Clusters /\ u \in Nat /\ u <= created /\ worker.base \in Cluster
  BY CopyTypes, CopyFacts
<1>2. ASSUME worker.pc \notin {"idle", "status"}, Guarded(worker.base),
             worker.base.phase # "Ignored"
      PROVE  store'[k].phase # "Ignored"
  <2>1. store'[k] # None /\ store'[k].uid = u
    BY <1>2 DEF OrphanInv, WorkerTrusted, Held, Guarded
  <2>2. Kept(k)
    BY <1>1, <1>2, <2>1, OldIsKept
  <2>. QED
    BY <1>2, <2>2 DEF Kept, WorkerDecided
<1>3. ASSUME worker.pc # "idle", SeesDeletion(k, u)
      PROVE  SeesDeletion(k, u)'
  <2>1. store'[k] # None /\ store'[k].uid = u => store'[k].deleting
    BY <1>1, <1>3, OldIsKept DEF Kept, SeesDeletion
  <2>2. cache'[k] # None /\ cache'[k].uid = u => cache'[k].deleting
    BY <1>3 DEF Effect, CacheStep, SeesDeletion
  <2>. QED
    BY <2>1, <2>2 DEF SeesDeletion
<1>. QED
  BY <1>2, <1>3 DEF WorkerDecided, Guarded

(* A reconcile starts.                                                     *)
LEMMA EffectGet ==
  ASSUME TypeInv, OrphanInv, ElectionInv,
         NEW k \in Clusters, GetStorageCluster(k)
  PROVE  Effect /\ (worker' = worker \/ WorkerDecided')
<1>. USE DEF ElectionInv
<1>1. StoreStep /\ CacheStep /\ UNCHANGED <<store, cache>>
  BY StoreUntouched DEF GetStorageCluster, CacheStep
<1>2. CASE cache[k] = None
  BY <1>1, <1>2 DEF GetStorageCluster, Effect, ReconcileStep
<1>3. CASE cache[k] # None
  <2>1. cache[k].valid
    BY <1>3, CopyFacts
  <2>2. /\ worker'.pc = "phases" /\ worker'.key = k
        /\ worker'.base = cache[k] /\ worker'.sc = cache[k]
    BY <1>3, <2>1 DEF GetStorageCluster
  <2>3. Starts
    BY <1>1, <1>3, <2>2 DEF Starts
  <2>4. WorkerDecided'
    BY <1>1, <1>3, <2>2 DEF WorkerDecided, CacheDecided, Guarded
  <2>. QED
    BY <1>1, <2>3, <2>4 DEF Effect, ReconcileStep
<1>. QED BY <1>2, <1>3

(* The election.                                                           *)
LEMMA EffectPhases ==
  ASSUME DecidableElection, TypeInv, OrphanInv, ElectionInv, ReconcilePhases
  PROVE  Effect /\ WorkerDecided'
<1>. USE DEF ElectionInv
<1>. DEFINE k == worker.key
            sc == worker.sc
<1>1. /\ StoreStep /\ CacheStep /\ UNCHANGED <<store, cache>>
      /\ worker.pc = "phases" /\ worker \in Worker /\ worker.sc \in Cluster
      /\ worker.base = worker.sc /\ worker.sc.valid
  <2>1. worker.pc = "phases" /\ UNCHANGED <<store, cache, created>>
    BY DEF ReconcilePhases, At
  <2>2. worker.sc \in Cluster /\ k \in Clusters
    BY <2>1, CopyTypes
  <2>. QED
    BY <2>1, <2>2, StoreUntouched, CopyFacts
       DEF CacheStep, WorkerDecided, TypeInv, TypeOK
<1>2. /\ worker'.key = k /\ worker'.base = sc
      /\ worker'.sc.uid = sc.uid /\ worker'.sc.valid
      /\ worker'.sc.phase = IF IsIgnored(k, sc) THEN "Ignored"
                            ELSE IF sc.deleting THEN "Deleting" ELSE StartPhase(sc)
      /\ worker'.pc = IF IsIgnored(k, sc) THEN "status"
                      ELSE IF sc.deleting THEN "uninstall" ELSE NextStep(sc)
  BY <1>1 DEF ReconcilePhases, Worker, Cluster
<1>3. /\ StartPhase(sc) \notin {"", "Ignored"}
      /\ NextStep(sc) \in {"finalizer", "annotations", "ensure"}
  BY DEF StartPhase, KeptPhases, NextStep
<1>4. CASE IsIgnored(k, sc)
  <2>1. GoesOn
    BY <1>1, <1>2, <1>4 DEF GoesOn, Claims
  <2>2. \/ sc.phase = "Ignored"
        \/ ~sc.finalizer
        \/ SeesDeletion(k, sc.uid)
    <3>. SUFFICES ASSUME sc.phase # "Ignored", sc.finalizer
                  PROVE  SeesDeletion(k, sc.uid)
      OBVIOUS
    <3>1. sc.phase = "" /\ ~IsActiveStorageCluster(k, sc)
      BY <1>4 DEF IsIgnored
    <3>2. sc.deleting
      BY <1>1, <3>1, ElectedAgain DEF Guarded
    <3>. QED
      BY <1>1, <3>2 DEF OrphanInv, WorkerTrusted
  <2>3. WorkerDecided'
    BY <1>1, <1>2, <1>4, <2>2 DEF WorkerDecided, SeesDeletion
  <2>. QED
    BY <1>1, <2>1, <2>3 DEF Effect, ReconcileStep
<1>5. CASE ~IsIgnored(k, sc)
  <2>1. sc.phase # "Ignored"
    BY <1>5 DEF IsIgnored
  <2>2. Claims(sc) \/ (Live(k, sc.uid) => Rightful(k, sc.uid))
    <3>1. sc.phase = "" => IsActiveStorageCluster(k, sc)
      BY <1>5 DEF IsIgnored
    <3>. QED
      BY <1>1, <2>1, <3>1, NewlyElected DEF Claims
  <2>3. GoesOn
    BY <1>1, <1>2, <2>2 DEF GoesOn
  <2>4. WorkerDecided'
    BY <1>1, <1>2, <1>3, <1>5, <2>1 DEF WorkerDecided, Guarded
  <2>. QED
    BY <1>1, <2>3, <2>4 DEF Effect, ReconcileStep
<1>. QED BY <1>4, <1>5

(* The finalizer is added to an object that has been elected.              *)
LEMMA EffectFinalizer ==
  ASSUME TypeInv, OrphanInv, ElectionInv, AddFinalizer
  PROVE  Effect /\ WorkerDecided'
<1>. USE DEF ElectionInv
<1>. DEFINE k == worker.key
<1>1. /\ UNCHANGED <<cache, created>>
      /\ worker.pc = "finalizer" /\ worker \in Worker /\ k \in Clusters
      /\ worker.sc \in Cluster /\ worker.base \in Cluster
      /\ store \in [Clusters -> Cluster \cup {None}]
  BY CopyTypes DEF AddFinalizer, At, TypeInv, TypeOK
<1>2. /\ worker.sc.phase \notin {"", "Ignored"}
      /\ worker.base.phase # "Ignored"
      /\ worker.sc.uid = worker.base.uid
      /\ worker.sc.valid /\ worker.base.valid
      /\ Claims(worker.sc)
  BY <1>1, CopyFacts DEF WorkerDecided, OrphanInv, WorkerTrusted, Claims
<1>3. CASE UNCHANGED store /\ worker' = [worker EXCEPT !.pc = "status"]
  <2>1. GoesOn
    BY <1>1, <1>2, <1>3 DEF GoesOn, Worker
  <2>2. WorkerDecided'
    BY <1>1, <1>2, <1>3 DEF WorkerDecided, Worker
  <2>. QED
    BY <1>1, <1>3, <2>1, <2>2, StoreUntouched
       DEF Effect, CacheStep, ReconcileStep
<1>4. CASE /\ Current(worker.base)
           /\ store' = [store EXCEPT ![k] =
                          [worker.base EXCEPT !.finalizer = TRUE]]
           /\ worker' = [worker EXCEPT
                !.pc = NextStep([worker.base EXCEPT !.finalizer = TRUE]),
                !.base = [worker.base EXCEPT !.finalizer = TRUE],
                !.sc = Answer([worker.base EXCEPT !.finalizer = TRUE], worker.sc)]
  <2>1. PICK saved \in Cluster : saved = [worker.base EXCEPT !.finalizer = TRUE]
    BY <1>1, ClusterUpdates
  <2>2. /\ saved.uid = worker.base.uid /\ saved.phase = worker.base.phase
        /\ saved.deleting = worker.base.deleting
        /\ saved.valid = worker.base.valid
    BY <1>1, <2>1 DEF Cluster
  <2>3. /\ store[k] = worker.base /\ worker.base # None
        /\ store' = [store EXCEPT ![k] = saved]
    BY <1>4, <2>1 DEF Current
  <2>4. /\ worker'.key = k /\ worker'.base = saved
        /\ worker'.sc = Answer(saved, worker.sc)
        /\ worker'.pc \in {"annotations", "ensure"}
    BY <1>1, <1>4, <2>1 DEF Worker, NextStep, Cluster
  <2>5. /\ worker'.sc.uid = saved.uid /\ worker'.sc.valid = saved.valid
        /\ worker'.sc.phase = IF saved.phase = "" THEN worker.sc.phase
                              ELSE saved.phase
    BY <2>4 DEF Answer, Cluster
  <2>6. StoreStep
    BY <1>1, <1>2, <2>2, <2>3, StoreTouched
  <2>7. GoesOn
    BY <1>1, <1>2, <2>2, <2>4, <2>5 DEF GoesOn
  <2>8. WorkerDecided'
    BY <1>1, <1>2, <2>2, <2>3, <2>4, <2>5 DEF WorkerDecided
  <2>. QED
    BY <1>1, <2>6, <2>7, <2>8 DEF Effect, CacheStep, ReconcileStep
<1>. QED
  <2>1. Goto("status", worker.sc) => worker' = [worker EXCEPT !.pc = "status"]
    BY <1>1 DEF Goto, Worker
  <2>. QED
    BY <1>3, <1>4, <2>1 DEF AddFinalizer

(* The second read of the cache in between does not bring an Ignored       *)
(* version to a reconcile that believes its cluster active.                *)
LEMMA EffectAnnotations ==
  ASSUME TypeInv, OrphanInv, ElectionInv, ReconcileUninstallAnnotations
  PROVE  Effect /\ WorkerDecided'
<1>. USE DEF ElectionInv
<1>. DEFINE k == worker.key
            new == [cache[k] EXCEPT !.finalizer = worker.sc.finalizer,
                      !.valid = worker.sc.valid, !.mode = "graceful"]
<1>1. /\ UNCHANGED <<cache, created>>
      /\ worker.pc = "annotations" /\ worker \in Worker /\ k \in Clusters
      /\ worker.sc \in Cluster /\ worker.base \in Cluster
      /\ store \in [Clusters -> Cluster \cup {None}]
      /\ cache[k] \in Cluster \cup {None}
  BY CopyTypes DEF ReconcileUninstallAnnotations, At, TypeInv, TypeOK
<1>2. /\ worker.sc.phase \notin {"", "Ignored"}
      /\ worker.base.phase # "Ignored"
      /\ worker.sc.uid = worker.base.uid
      /\ worker.sc.valid /\ worker.base.valid
      /\ cache[k] # None => cache[k].valid
      /\ Claims(worker.sc)
      /\ Held(k, worker.base) /\ worker.sc.finalizer
      /\ store[k].phase # "Ignored"
  BY <1>1, CopyFacts
     DEF WorkerDecided, OrphanInv, WorkerTrusted, Claims, Guarded
<1>3. cache[k] # None /\ cache[k].uid = worker.sc.uid =>
        cache[k].phase # "Ignored"
  BY <1>1, <1>2 DEF CacheDecided, Live, Held
<1>4. CASE /\ UNCHANGED store
           /\ worker' = [worker EXCEPT !.pc = "status",
                !.base = IF cache[k] = None THEN worker.base ELSE cache[k]]
  <2>1. /\ worker'.pc = "status" /\ worker'.key = k
        /\ worker'.sc = worker.sc
        /\ worker'.base = IF cache[k] = None THEN worker.base ELSE cache[k]
    BY <1>1, <1>4 DEF Worker
  <2>2. GoesOn
    BY <1>1, <1>2, <2>1 DEF GoesOn
  <2>3. WorkerDecided'
    BY <1>2, <1>3, <2>1 DEF WorkerDecided
  <2>. QED
    BY <1>1, <1>4, <2>2, <2>3, StoreUntouched
       DEF Effect, CacheStep, ReconcileStep
<1>5. CASE /\ Current(cache[k])
           /\ store' = [store EXCEPT ![k] = new]
           /\ worker' = [worker EXCEPT !.pc = "status", !.base = new,
                                       !.sc = Answer(new, worker.sc)]
  <2>1. /\ cache[k] \in Cluster /\ store[k] = cache[k] /\ cache[k] # None
        /\ cache[k].uid = worker.sc.uid
    BY <1>1, <1>5 DEF Current
  <2>2. PICK saved \in Cluster : saved = new
    BY <1>1, <2>1 DEF Cluster, Modes
  <2>3. /\ saved.uid = worker.sc.uid /\ saved.phase = store[k].phase
        /\ saved.deleting = store[k].deleting /\ saved.valid
        /\ saved.uid = store[k].uid
    BY <1>1, <1>2, <2>1, <2>2 DEF Cluster
  <2>. HIDE DEF new
  <2>4. /\ worker'.pc = "status" /\ worker'.key = k /\ worker'.base = saved
        /\ worker'.sc = Answer(saved, worker.sc)
        /\ store' = [store EXCEPT ![k] = saved]
    BY <1>1, <1>5, <2>2 DEF Worker
  <2>5. /\ worker'.sc.uid = saved.uid /\ worker'.sc.valid = saved.valid
        /\ worker'.sc.phase = IF saved.phase = "" THEN worker.sc.phase
                              ELSE saved.phase
    BY <2>4 DEF Answer, Cluster
  <2>6. StoreStep
    BY <1>1, <1>2, <2>1, <2>3, <2>4, StoreTouched
  <2>7. GoesOn
    BY <1>1, <1>2, <2>3, <2>4, <2>5 DEF GoesOn
  <2>8. WorkerDecided'
    BY <1>2, <2>3, <2>4, <2>5 DEF WorkerDecided
  <2>. QED
    BY <1>1, <2>6, <2>7, <2>8 DEF Effect, CacheStep, ReconcileStep
<1>. QED
  BY <1>4, <1>5 DEF ReconcileUninstallAnnotations

(* Running the resource managers leaves an active phase in memory.         *)
LEMMA EffectEnsure ==
  ASSUME TypeInv, OrphanInv, ElectionInv, EnsureCreated
  PROVE  Effect /\ WorkerDecided'
<1>. USE DEF ElectionInv
<1>1. /\ UNCHANGED <<store, cache, created>>
      /\ worker.pc = "ensure" /\ worker \in Worker
      /\ worker.sc \in Cluster /\ worker.base \in Cluster
      /\ worker.key \in Clusters
  BY CopyTypes DEF EnsureCreated, At, TypeInv, TypeOK
<1>2. PICK p \in Phases \ {"", "Ignored"} :
        worker' = [worker EXCEPT !.pc = "status",
                                 !.sc = [worker.sc EXCEPT !.phase = p]]
  BY DEF EnsureCreated, Goto, Leads, RunningPhase, Phases
<1>3. /\ worker'.pc = "status" /\ worker'.key = worker.key
      /\ worker'.base = worker.base
      /\ worker'.sc.uid = worker.sc.uid /\ worker'.sc.valid = worker.sc.valid
      /\ worker'.sc.phase = p
  BY <1>1, <1>2 DEF Worker, Cluster
<1>4. /\ worker.base.phase # "Ignored" /\ Claims(worker.sc)
      /\ worker.sc.valid /\ worker.base.valid
  BY <1>1, CopyFacts DEF WorkerDecided, Claims
<1>5. GoesOn
  BY <1>1, <1>3, <1>4 DEF GoesOn
<1>6. WorkerDecided'
  BY <1>3, <1>4 DEF WorkerDecided
<1>. QED
  BY <1>1, <1>5, <1>6, StoreUntouched DEF Effect, CacheStep, ReconcileStep

(* The uninstall may remove the object.                                    *)
LEMMA EffectUninstall ==
  ASSUME TypeInv, OrphanInv, ElectionInv, DeleteResources
  PROVE  Effect /\ WorkerDecided'
<1>. USE DEF ElectionInv
<1>1. /\ UNCHANGED <<cache, created>>
      /\ worker.pc = "uninstall" /\ worker \in Worker
      /\ worker.key \in Clusters
      /\ \/ UNCHANGED store
         \/ store' = [store EXCEPT ![worker.key] = None]
  BY CopyTypes DEF DeleteResources, At, TypeInv, TypeOK
<1>2. /\ worker'.pc = "status" /\ worker'.key = worker.key
      /\ worker'.base = worker.base /\ worker'.sc = worker.sc
  BY <1>1 DEF DeleteResources, Goto, Worker
<1>3. /\ worker.base.phase # "Ignored" /\ Claims(worker.sc)
      /\ worker.sc.phase \notin {"", "Ignored"}
      /\ worker.sc.valid /\ worker.base.valid
  BY <1>1, CopyFacts DEF WorkerDecided, Claims
<1>4. GoesOn
  BY <1>1, <1>2, <1>3 DEF GoesOn
<1>5. WorkerDecided'
  BY <1>2, <1>3 DEF WorkerDecided
<1>6. StoreStep
  BY <1>1, StoreUntouched, StoreTouched
<1>. QED
  BY <1>1, <1>4, <1>5, <1>6 DEF Effect, CacheStep, ReconcileStep

(* The status update: an Ignored version is only replaced by an Ignored    *)
(* one, and a cluster that the cache shows as a candidate is not Ignored.  *)
LEMMA EffectStatus ==
  ASSUME TypeInv, OrphanInv, ElectionInv, UpdateStatus
  PROVE  Effect /\ WorkerDecided'
<1>. USE DEF ElectionInv
<1>. DEFINE k == worker.key
<1>1. /\ UNCHANGED <<cache, created>>
      /\ worker.pc = "status" /\ k \in Clusters
      /\ worker.sc \in Cluster /\ worker.base \in Cluster
      /\ store \in [Clusters -> Cluster \cup {None}]
  BY CopyTypes DEF UpdateStatus, At, TypeInv, TypeOK
<1>2. worker'.pc = "idle" /\ WorkerDecided'
  BY DEF UpdateStatus, IdleWorker, WorkerDecided
<1>3. CASE UNCHANGED store
  BY <1>1, <1>2, <1>3, StoreUntouched DEF Effect, CacheStep, ReconcileStep
<1>4. CASE /\ Current(worker.base)
           /\ store' = [store EXCEPT ![k].phase = worker.sc.phase]
  <2>1. /\ store[k] = worker.base /\ worker.base # None
        /\ worker.base.uid = worker.sc.uid
    BY <1>4 DEF Current
  <2>2. PICK saved \in Cluster :
          /\ saved = [worker.base EXCEPT !.phase = worker.sc.phase]
          /\ store' = [store EXCEPT ![k] = saved]
    BY <1>1, <1>4, <2>1, ClusterUpdates DEF Cluster
  <2>3. /\ saved.uid = worker.base.uid
        /\ saved.finalizer = worker.base.finalizer
        /\ saved.deleting = worker.base.deleting
        /\ saved.valid = worker.base.valid
        /\ saved.phase = worker.sc.phase
    BY <1>1, <2>2 DEF Cluster
  <2>4. store'[k] = saved /\ \A j \in Clusters \ {k} : store'[j] = store[j]
    BY <1>1, <2>2
  <2>5. ASSUME saved.phase = "Ignored", worker.base.phase # "Ignored",
               cache[k] # None, Guarded(cache[k])
        PROVE  cache[k].phase = "Ignored"
    <3>1. ~worker.base.finalizer \/ SeesDeletion(k, worker.base.uid)
      BY <1>1, <2>1, <2>3, <2>5 DEF WorkerDecided
    <3>2. Held(k, cache[k])
      BY <1>1, <2>5 DEF OrphanInv, CacheTrusted
    <3>. QED
      BY <2>1, <2>5, <3>1, <3>2 DEF Held, SeesDeletion, Guarded
  <2>6. Kept(k)
    <3>1. Claims(saved) => Claims(worker.sc)
      BY <1>1, <2>3 DEF Claims, WorkerDecided
    <3>2. worker.base.phase = "Ignored" => saved.phase = "Ignored"
      BY <1>1, <2>1, <2>3 DEF WorkerDecided
    <3>. QED
      BY <1>1, <1>2, <2>1, <2>3, <2>4, <2>5, <3>1, <3>2 DEF Kept
  <2>7. ASSUME NEW j \in Clusters \ {k}, store'[j] # None
        PROVE  store'[j].valid /\ Kept(j)
    BY <2>4, <2>7, CopyFacts DEF Kept
  <2>8. worker.base.valid
    BY <1>1, CopyFacts
  <2>9. StoreStep
    BY <1>1, <2>3, <2>4, <2>6, <2>7, <2>8 DEF StoreStep
  <2>. QED
    BY <1>1, <1>2, <2>9 DEF Effect, CacheStep, ReconcileStep
<1>. QED
  BY <1>3, <1>4 DEF UpdateStatus

(* The cache is brought up to date.                                        *)
LEMMA EffectSync ==
  ASSUME TypeInv, OrphanInv, ElectionInv, Sync \/ Crash
  PROVE  Effect /\ (worker' = worker \/ WorkerDecided')
<1>1. /\ UNCHANGED <<store, created>> /\ cache' = store
      /\ UNCHANGED worker \/ worker'.pc = "idle"
  BY DEF Sync, Crash, IdleWorker
<1>2. worker'.pc = "idle" => WorkerDecided'
  BY DEF WorkerDecided
<1>. QED
  BY <1>1, <1>2, StoreUntouched
     DEF ElectionInv, Effect, CacheStep, ReconcileStep

(* A user creates a cluster.                                               *)
LEMMA EffectCreate ==
  ASSUME DecidableElection, TypeInv, ElectionInv, NEW k \in Clusters, Create(k)
  PROVE  Effect /\ UNCHANGED worker
<1>1. PICK c : /\ store' = [store EXCEPT ![k] = c]
               /\ c.uid = created + 1 /\ ~c.finalizer
               /\ c.phase = "" /\ c.valid
  <2>1. PICK m : store' = [store EXCEPT ![k] =
                      [uid |-> created + 1, deleting |-> FALSE,
                       finalizer |-> FALSE, mode |-> m, valid |-> TRUE,
                       phase |-> ""]]
    BY DEF Create, DecidableElection
  <2>. DEFINE new == [uid |-> created + 1, deleting |-> FALSE,
                      finalizer |-> FALSE, mode |-> m, valid |-> TRUE,
                      phase |-> ""]
  <2>2. new.uid = created + 1 /\ ~new.finalizer /\ new.phase = "" /\ new.valid
    OBVIOUS
  <2>3. store' = [store EXCEPT ![k] = new]
    BY <2>1
  <2>. HIDE DEF new
  <2>. QED
    BY <2>2, <2>3
<1>2. /\ UNCHANGED <<cache, worker>>
      /\ store[k] = None /\ created' = created + 1
      /\ store'[k] = c
      /\ \A j \in Clusters \ {k} : store'[j] = store[j]
  BY <1>1 DEF Create, TypeInv, TypeOK
<1>3. store'[k] # None => c.valid /\ New(k)
  BY <1>1, <1>2 DEF New, Claims
<1>4. ASSUME NEW j \in Clusters \ {k}, store'[j] # None
      PROVE  store'[j].valid /\ Kept(j)
  BY <1>2, <1>4, CopyFacts DEF ElectionInv, Kept
<1>. QED
  BY <1>1, <1>2, <1>3, <1>4
     DEF Effect, StoreStep, CacheStep, ReconcileStep

(* A user deletes or edits a cluster.                                      *)
LEMMA EffectUser ==
  ASSUME DecidableElection, TypeInv, ElectionInv,
         NEW k \in Clusters, Delete(k) \/ Edit(k)
  PROVE  Effect /\ UNCHANGED worker
<1>1. /\ UNCHANGED <<cache, worker, created>>
      /\ store[k] # None /\ store[k] \in Cluster /\ store[k].valid
  BY CopyTypes, CopyFacts DEF Delete, Edit, ElectionInv
<1>2. PICK c :
        /\ store' = [store EXCEPT ![k] = c]
        /\ c # None =>
             /\ c.valid /\ c.uid = store[k].uid /\ c.phase = store[k].phase
             /\ store[k].deleting => c.deleting
             /\ c.finalizer => store[k].finalizer
  <2>1. CASE store' = [store EXCEPT ![k] = None]
    BY <2>1
  <2>2. CASE store' = [store EXCEPT ![k] = [store[k] EXCEPT !.deleting = TRUE]]
    <3>1. LET c == [store[k] EXCEPT !.deleting = TRUE]
          IN /\ c.valid /\ c.uid = store[k].uid /\ c.phase = store[k].phase
             /\ c.deleting
             /\ c.finalizer => store[k].finalizer
      BY <1>1 DEF Cluster
    <3>. QED
      BY <2>2, <3>1
  <2>3. ASSUME NEW m, store' = [store EXCEPT ![k] = [store[k] EXCEPT !.mode = m]]
        PROVE  \E c :
                 /\ store' = [store EXCEPT ![k] = c]
                 /\ c # None =>
                      /\ c.valid /\ c.uid = store[k].uid
                      /\ c.phase = store[k].phase
                      /\ store[k].deleting => c.deleting
                      /\ c.finalizer => store[k].finalizer
    <3>1. LET c == [store[k] EXCEPT !.mode = m]
          IN /\ c.valid /\ c.uid = store[k].uid /\ c.phase = store[k].phase
             /\ store[k].deleting => c.deleting
             /\ c.finalizer => store[k].finalizer
      BY <1>1 DEF Cluster
    <3>. QED
      BY <2>3, <3>1
  <2>4. \/ store' = [store EXCEPT ![k] = None]
        \/ store' = [store EXCEPT ![k] = [store[k] EXCEPT !.deleting = TRUE]]
        \/ \E m : store' = [store EXCEPT ![k] = [store[k] EXCEPT !.mode = m]]
    BY <1>1 DEF Delete, Edit, DecidableElection
  <2>. QED
    BY <2>1, <2>2, <2>3, <2>4
<1>3. StoreStep
  BY <1>1, <1>2, StoreTouched DEF ElectionInv
<1>. QED
  BY <1>1, <1>3 DEF Effect, CacheStep, ReconcileStep

-----------------------------------------------------------------------------
(* The invariant                                                           *)

(* There is nothing to decide initially.                                   *)
LEMMA ElectionInvInit == Init => ElectionInv
<1>. SUFFICES ASSUME Init PROVE ElectionInv
  OBVIOUS
<1>1. /\ \A k \in Clusters : store[k] = None /\ cache[k] = None
      /\ worker.pc = "idle"
  BY DEF Init, IdleWorker
<1>2. \A k \in Clusters : Copies(k) = {}
  BY <1>1 DEF Copies
<1>. QED
  BY <1>1, <1>2 DEF ElectionInv, UidsUnique, CacheCovers, Precedence,
     CacheDecided, WorkerDecided

(* Every step has the effect above.                                        *)
LEMMA StepEffect ==
  ASSUME DecidableElection, TypeInv, OrphanInv, ElectionInv, [Next]_vars
  PROVE  Effect /\ (UNCHANGED worker \/ WorkerDecided')
<1>1. ASSUME UNCHANGED <<store, cache, worker, created>>
      PROVE  Effect /\ UNCHANGED worker
  BY <1>1, StoreUntouched DEF ElectionInv, Effect, CacheStep, ReconcileStep
<1>2. \A k \in Clusters : Reap(k) => UNCHANGED <<store, cache, worker, created>>
  BY DEF Reap
<1>3. UNCHANGED vars => UNCHANGED <<store, cache, worker, created>>
  BY DEF vars
<1>. QED
  BY <1>1, <1>2, <1>3, EffectGet, EffectPhases, EffectFinalizer,
     EffectAnnotations, EffectEnsure, EffectUninstall, EffectStatus,
     EffectSync, EffectCreate, EffectUser DEF Next, WorkerStep

(* Every step keeps the invariant.                                         *)
LEMMA ElectionInvStep ==
  ASSUME DecidableElection, TypeInv, OrphanInv, ElectionInv, [Next]_vars
  PROVE  ElectionInv'
<1>1. Effect /\ (UNCHANGED worker \/ WorkerDecided')
  BY StepEffect
<1>2. OrphanInv'
  BY OrphanInvStep
<1>3. WorkerDecided'
  BY <1>1, <1>2, WorkerDecidedFrame DEF ElectionInv
<1>. QED
  BY <1>1, <1>2, <1>3, UidsUniqueStep, CacheCoversStep, PrecedenceStep,
     CacheDecidedStep DEF ElectionInv

(* Of two conflicting active clusters the older one would have to yield.   *)
LEMMA PrecedenceDecides ==
  ASSUME DecidableElection, TypeInv, ElectionInv
  PROVE  OneActivePerKind
<1>. SUFFICES ASSUME NEW j \in Clusters, NEW k \in Clusters, j # k,
                     Active(j), Active(k)
              PROVE  ~Conflict(j, k) /\ Name[j] # Name[k]
  BY DEF OneActivePerKind, Conflict
<1>1. Name[j] # Name[k]
  BY DEF DecidableElection
<1>2. ASSUME Conflict(j, k) PROVE FALSE
  <2>1. /\ Conflict(k, j)
        /\ Rightful(j, store[j].uid) /\ Rightful(k, store[k].uid)
    BY <1>2 DEF Conflict, ElectionInv, Precedence, Active, Claims
  <2>2. Yields(k, store[j].uid) /\ Yields(j, store[k].uid)
    BY <1>2, <2>1 DEF Rightful
  <2>3. /\ store[j].uid \in Nat /\ store[k].uid \in Nat
        /\ store[j].uid # store[k].uid
    BY CopyTypes, CopyFacts DEF ElectionInv, Active
  <2>4. store[k].uid < store[j].uid \/ store[j].uid < store[k].uid
    BY <2>3, NaturalsOrdered
  <2>. QED
    BY <2>2, <2>4 DEF Yields, Active
<1>. QED BY <1>1, <1>2

(* However late the cache is and whatever users create and delete          *)
(* meanwhile, no two clusters of one kind or of one namespace are active:  *)
(* isActiveStorageCluster decides rightly from the list it has.            *)
THEOREM ElectionIsExclusive ==
  ASSUME DecidableElection
  PROVE  Spec => []OneActivePerKind
<1>1. Init => TypeInv /\ OrphanInv /\ ElectionInv
  BY TypeInvInit, OrphanInvInit, ElectionInvInit
<1>2. TypeInv /\ OrphanInv /\ ElectionInv /\ [Next]_vars
        => (TypeInv /\ OrphanInv /\ ElectionInv)'
  BY TypeInvStep, OrphanInvStep, ElectionInvStep
<1>3. TypeInv /\ OrphanInv /\ ElectionInv => OneActivePerKind
  BY PrecedenceDecides
<1>. QED
  BY <1>1, <1>2, <1>3, PTL DEF Spec

(* No write takes Ignored back: each is based on the version it replaces,  *)
(* and no reconcile that believes its cluster active holds an Ignored one. *)
THEOREM IgnoredForGood ==
  ASSUME DecidableElection
  PROVE  Spec => IgnoredStaysIgnored
<1>. DEFINE Ok == \A k \in Clusters :
              store[k] # None /\ store[k].phase = "Ignored" /\ store'[k] # None
                /\ store'[k].uid = store[k].uid
              => store'[k].phase = "Ignored"
<1>1. Init => TypeInv /\ OrphanInv /\ ElectionInv
  BY TypeInvInit, OrphanInvInit, ElectionInvInit
<1>2. TypeInv /\ OrphanInv /\ ElectionInv /\ [Next]_vars
        => (TypeInv /\ OrphanInv /\ ElectionInv)'
  BY TypeInvStep, OrphanInvStep, ElectionInvStep
<1>3. TypeInv /\ OrphanInv /\ ElectionInv /\ [Next]_vars => [Ok]_vars
  <2>. SUFFICES ASSUME TypeInv, OrphanInv, ElectionInv, [Next]_vars,
                       NEW k \in Clusters,
                       store[k] # None, store[k].phase = "Ignored",
                       store'[k] # None, store'[k].uid = store[k].uid
                PROVE  store'[k].phase = "Ignored"
    OBVIOUS
  <2>1. Effect
    BY StepEffect
  <2>2. store[k].uid <= created
    BY CopyFacts DEF ElectionInv
  <2>. QED
    BY <2>1, <2>2, OldIsKept DEF Kept
<1>. QED
  BY <1>1, <1>2, <1>3, PTL DEF Spec, IgnoredStaysIgnored
=============================================================================
