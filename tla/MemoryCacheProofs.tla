------------------------- MODULE MemoryCacheProofs -------------------------
(***************************************************************************)
(* Proofs about MemoryCache for any keys, values, ttls and size limit.     *)
(***************************************************************************)
EXTENDS MemoryCache, FiniteSetTheorems, TLAPS

Entries == [value : Values, created : Nat, ttl : TTLs]

LEMMA NewEntry ==
  ASSUME TypeOK, NEW v \in Values, NEW ttl \in TTLs
  PROVE  [value |-> v, created |-> now, ttl |-> ttl] \in Entries
BY TimeAssumption DEF TypeOK, Entries

LEMMA OnlyType == ASSUME TypeOK, NEW S PROVE Only(S) \in [Keys -> Entries \cup {Nothing}]
BY DEF TypeOK, Only, Entries

LEMMA TypeStep == TypeOK /\ [Next]_vars => TypeOK'
<1>. SUFFICES ASSUME TypeOK, [Next]_vars PROVE TypeOK'
  OBVIOUS
<1>1. ASSUME NEW k \in Keys, Get(k) PROVE TypeOK'
  <2>1. cache' \in [Keys -> Entries \cup {Nothing}]
    BY <1>1, OnlyType DEF Get, Found, Absent, TypeOK, Entries
  <2>2. reply' \in Keys \X (Values \cup {Nothing})
    BY <1>1 DEF Get, Found, Live, Held, TypeOK
  <2>. QED
    BY <1>1, <2>1, <2>2 DEF Get, TypeOK, Entries
<1>2. ASSUME NEW k \in Keys, Exists(k) \/ Delete(k) PROVE TypeOK'
  <2>1. cache' \in [Keys -> Entries \cup {Nothing}] /\ UNCHANGED <<now, reply>>
    BY <1>2, OnlyType DEF Exists, Delete, Found, Absent, TypeOK, Entries
  <2>. QED
    BY <2>1 DEF TypeOK, Entries
<1>3. ASSUME NEW k \in Keys, NEW v \in Values, NEW ttl \in TTLs, Set(k, v, ttl) PROVE TypeOK'
  <2>1. PICK rest : cache' = [Only(rest) EXCEPT ![k] = [value |-> v, created |-> now, ttl |-> ttl]]
    BY <1>3 DEF Set
  <2>2. cache' \in [Keys -> Entries \cup {Nothing}]
    BY <2>1, OnlyType, NewEntry
  <2>. QED
    BY <1>3, <2>2 DEF Set, TypeOK, Entries
<1>4. CASE Clear
  <2>1. cache' \in [Keys -> Entries \cup {Nothing}] /\ UNCHANGED <<now, reply>>
    BY <1>4, OnlyType DEF Clear
  <2>. QED
    BY <2>1 DEF TypeOK, Entries
<1>5. CASE Tick
  BY <1>5, TimeAssumption DEF Tick, TypeOK
<1>6. CASE UNCHANGED vars
  BY <1>6 DEF vars, TypeOK
<1>. QED
  BY <1>1, <1>2, <1>3, <1>4, <1>5, <1>6 DEF Next

\* The cache maps keys to entries or to nothing, whatever is done to it.
THEOREM TypeCorrect == Spec => []TypeOK
<1>1. Init => TypeOK
  BY TimeAssumption DEF Init, TypeOK
<1>. QED
  BY <1>1, TypeStep, PTL DEF Spec

-----------------------------------------------------------------------------
(***************************************************************************)
(* The size limit.  It is inductive once the set of held keys is known to  *)
(* be finite: only then does a set with one key more have one element more.*)
(***************************************************************************)
SizeInv == IsFiniteSet(Held) /\ SizeWithinLimit

LEMMA Shrinks == ASSUME SizeInv, Held' \subseteq Held PROVE SizeInv'
<1>1. IsFiniteSet(Held') /\ Cardinality(Held') <= Cardinality(Held)
  BY FS_Subset DEF SizeInv
<1>2. Cardinality(Held') \in Nat /\ Cardinality(Held) \in Nat
  BY <1>1, FS_CardinalityType DEF SizeInv
<1>. QED
  BY <1>1, <1>2, SizeAssumption DEF SizeInv, SizeWithinLimit

LEMMA SizeStep == TypeOK /\ SizeInv /\ [Next]_vars => SizeInv'
<1>. SUFFICES ASSUME TypeOK, SizeInv, [Next]_vars PROVE SizeInv'
  OBVIOUS
<1>1. ASSUME NEW k \in Keys, NEW v \in Values, NEW ttl \in TTLs, Set(k, v, ttl) PROVE SizeInv'
  <2>1. PICK rest \in SUBSET Held :
          /\ IF Cardinality(Held) >= MaxSize THEN Evict(rest) ELSE rest = Held
          /\ cache' = [Only(rest) EXCEPT ![k] = [value |-> v, created |-> now, ttl |-> ttl]]
    BY <1>1 DEF Set
  <2>2. Held' \subseteq rest \cup {k}
    BY <2>1 DEF Held, Only, TypeOK
  <2>3. /\ IsFiniteSet(rest) /\ IsFiniteSet(Live)
        /\ Cardinality(rest) \in Nat /\ Cardinality(Live) \in Nat /\ Cardinality(Held) \in Nat
    <3>1. IsFiniteSet(Held) /\ Live \in SUBSET Held
      BY DEF SizeInv, Live
    <3>2. IsFiniteSet(rest) /\ IsFiniteSet(Live)
      BY <3>1, FS_Subset
    <3>. QED
      BY <3>1, <3>2, FS_CardinalityType
  <2>4. MaxSize > 0 => Cardinality(rest) <= MaxSize - 1
    <3>1. CASE ~(Cardinality(Held) >= MaxSize)
      BY <2>1, <2>3, <3>1, SizeAssumption
    <3>2. CASE Cardinality(Held) >= MaxSize
      <4>1. Evict(rest)
        BY <2>1, <3>2
      <4>2. CASE Cardinality(Live) < MaxSize
        BY <2>3, <4>1, <4>2, SizeAssumption DEF Evict
      <4>3. CASE ~(Cardinality(Live) < MaxSize)
        BY <2>3, <4>1, <4>3, SizeAssumption DEF Evict
      <4>. QED
        BY <4>2, <4>3
    <3>. QED
      BY <3>1, <3>2
  <2>5. /\ IsFiniteSet(rest \cup {k})
        /\ Cardinality(rest \cup {k}) <= Cardinality(rest) + 1
    <3>1. /\ IsFiniteSet(rest \cup {k})
          /\ Cardinality(rest \cup {k}) =
               IF k \in rest THEN Cardinality(rest) ELSE Cardinality(rest) + 1
      BY <2>3, FS_AddElement, Zenon
    <3>2. Cardinality(rest) \in Nat
      BY <2>3
    <3>. QED
      BY <3>1, <3>2
  <2>6. /\ IsFiniteSet(Held') /\ Cardinality(Held') <= Cardinality(rest \cup {k})
        /\ Cardinality(Held') \in Nat /\ Cardinality(rest \cup {k}) \in Nat
    BY <2>2, <2>5, FS_Subset, FS_CardinalityType
  <2>. QED
    BY <2>3, <2>4, <2>5, <2>6, SizeAssumption DEF SizeInv, SizeWithinLimit
<1>2. ASSUME NEW k \in Keys, Get(k) \/ Exists(k) \/ Delete(k) PROVE Held' \subseteq Held
  BY <1>2 DEF Get, Exists, Delete, Found, Absent, Only, Held
<1>3. Clear \/ Tick \/ UNCHANGED vars => Held' \subseteq Held
  BY DEF Clear, Tick, vars, Only, Held
<1>. QED
  BY <1>1, <1>2, <1>3, Shrinks DEF Next

LEMMA SizeInit == Init => SizeInv
<1>1. Init => Held = {}
  BY DEF Init, Held
<1>. QED
  BY <1>1, FS_EmptySet, SizeAssumption DEF SizeInv, SizeWithinLimit

\* However it is used, a cache with a positive max_size never exceeds it.
THEOREM SizeCorrect == Spec => []SizeWithinLimit
<1>1. SizeInv => SizeWithinLimit
  BY DEF SizeInv
<1>. QED
  BY <1>1, SizeInit, SizeStep, TypeCorrect, PTL DEF Spec

-----------------------------------------------------------------------------
(***************************************************************************)
(* Refinement: each method is a BaseCache step.                            *)
(***************************************************************************)
LEMMA BaseStep == TypeOK /\ [Next]_vars => [Base!Next]_(Base!vars)
<1>. SUFFICES ASSUME TypeOK, [Next]_vars PROVE [Base!Next]_(Base!vars)
  OBVIOUS
<1>0. \A S : Only(Held \ S) = Base!Lost(S)
  BY DEF Only, Held, Base!Lost, TypeOK
<1>1. ASSUME NEW k \in Keys, Get(k) PROVE Base!Get(k) \/ Base!Lose({k})
  <2>1. CASE Found(k) /\ reply' = <<k, cache[k].value>>
    BY <1>1, <2>1 DEF Get, Found, Live, Held, Expired, Base!Get, Base!Stale
  <2>2. CASE Absent(k) /\ reply' = <<k, Nothing>>
    BY <1>0, <1>1, <2>2 DEF Get, Absent, Base!Get
  <2>. QED
    BY <1>1, <2>1, <2>2 DEF Get
<1>2. ASSUME NEW k \in Keys, Exists(k) \/ Delete(k) PROVE UNCHANGED Base!vars \/ Base!Lose({k})
  BY <1>0, <1>2 DEF Exists, Delete, Found, Absent, Base!Lose, Base!vars
<1>3. ASSUME NEW k \in Keys, NEW v \in Values, NEW ttl \in TTLs, Set(k, v, ttl)
      PROVE  \E S \in SUBSET Keys : Base!Put(k, v, ttl, S)
  <2>1. PICK rest \in SUBSET Held :
          cache' = [Only(rest) EXCEPT ![k] = [value |-> v, created |-> now, ttl |-> ttl]]
    BY <1>3 DEF Set
  <2>2. Only(rest) = Base!Lost(Keys \ rest)
    BY DEF Only, Base!Lost
  <2>3. Base!Put(k, v, ttl, Keys \ rest)
    BY <1>3, <2>1, <2>2 DEF Set, Base!Put, Base!Entry
  <2>. QED
    BY <2>3
<1>4. Clear => Base!Lose(Keys)
  BY DEF Clear, Only, Base!Lose, Base!Lost
<1>5. Tick => Base!Tick
  BY TimeAssumption DEF Tick, Base!Tick, TypeOK
<1>6. UNCHANGED vars => UNCHANGED Base!vars
  BY DEF vars, Base!vars
<1>. QED
  BY <1>1, <1>2, <1>3, <1>4, <1>5, <1>6 DEF Next, Base!Next

\* A user of MemoryCache sees a BaseCache: it gets the last value set, no
\* older than its ttl, or nothing.
THEOREM CacheImplementsBase == Spec => ImplementsBaseCache
<1>1. Init => Base!Init
  BY DEF Init, Base!Init
<1>. QED
  BY <1>1, BaseStep, TypeCorrect, PTL DEF Spec, ImplementsBaseCache, Base!Spec

-----------------------------------------------------------------------------
(***************************************************************************)
(* What a set gives up.  The entries it drops are those Evict does not      *)
(* leave: some only if the live ones fill the cache, and the oldest first.  *)
(***************************************************************************)
LEMMA SetDrops ==
  ASSUME TypeOK, SizeInv, NEW k \in Keys, NEW v \in Values, NEW ttl \in TTLs, Set(k, v, ttl),
         NEW j \in Live \ {k}, j \notin Held'
  PROVE  /\ Cardinality(Live) >= MaxSize
         /\ \A i \in Held' \ {k} : cache[j].created <= cache[i].created
<1>. DEFINE new == [value |-> v, created |-> now, ttl |-> ttl]
<1>1. PICK rest \in SUBSET Held :
        /\ IF Cardinality(Held) >= MaxSize THEN Evict(rest) ELSE rest = Held
        /\ cache' = [Only(rest) EXCEPT ![k] = new]
  BY DEF Set
<1>2. j \in Held /\ j # k /\ j \in Keys
  BY DEF Live, Held
<1>3. \A i \in Keys \ {k} : cache'[i] = IF i \in rest THEN cache[i] ELSE Nothing
  BY <1>1 DEF Only
<1>4. Held' \ {k} = rest \ {k}
  BY <1>3 DEF Held
<1>5. j \notin rest
  BY <1>2, <1>4
<1>6. Evict(rest) /\ rest # Live
  BY <1>1, <1>2, <1>5
<1>7. /\ ~(Cardinality(Live) < MaxSize)
      /\ \A i \in rest : cache[j].created <= cache[i].created
  BY <1>5, <1>6 DEF Evict
<1>8. Cardinality(Live) >= MaxSize
  <2>1. Live \in SUBSET Held /\ IsFiniteSet(Held)
    BY DEF Live, SizeInv
  <2>2. Cardinality(Live) \in Nat
    BY <2>1, FS_Subset, FS_CardinalityType
  <2>. QED
    BY <1>7, <2>2, SizeAssumption
<1>. QED
  BY <1>4, <1>7, <1>8

\* A set gives up an entry that could still be served only when such entries
\* alone fill the cache, and never keeps one that was set before the one it drops
\* (memory.py 86-91).  Only set counts: an entry that was just read leaves like any
\* other, so this is not the "LRU eviction" that nl2sql/cache.py names in line 5.
THEOREM EvictionCorrect == Spec => OldestLeaveFirst
<1>1. TypeOK /\ SizeInv => \A k \in Keys, v \in Values, ttl \in TTLs : Set(k, v, ttl) =>
        \A j \in Live \ {k} : j \notin Held' =>
          /\ Cardinality(Live) >= MaxSize
          /\ \A i \in Held' \ {k} : cache[j].created <= cache[i].created
  BY SetDrops
<1>. QED
  BY <1>1, SizeInit, SizeStep, TypeCorrect, PTL DEF Spec, OldestLeaveFirst
=============================================================================
