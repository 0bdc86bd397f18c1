---------------------------- MODULE MemoryCache ----------------------------
(***************************************************************************)
(* agent_data/cache/memory.py: the bounded in-memory cache with TTLs.      *)
(* Each method runs under an asyncio lock and never suspends while it      *)
(* holds it, so one method call is one action.  Time is the clock the      *)
(* entries are stamped with.                                               *)
(***************************************************************************)
EXTENDS Integers, FiniteSets

CONSTANTS
  Keys, Values,
  TTLs,       \* the ttl arguments given to set
  MaxSize,    \* max_size
  MaxTime,    \* bound on the clock
  Nothing, NoTTL

ASSUME SizeAssumption == MaxSize \in Nat
ASSUME TimeAssumption == MaxTime \in Nat
ASSUME TTLAssumption == TTLs \subseteq Nat \cup {NoTTL}
ASSUME NothingAssumption ==
  Nothing \notin [value : Values, created : Nat, ttl : TTLs]

VARIABLES cache,   \* _cache: each key's CacheEntry, or Nothing
          now,
          reply    \* what the last get returned, for which key

vars == <<cache, now, reply>>

Held == {k \in Keys : cache[k] # Nothing}

\* CacheEntry.is_expired: strictly older than its ttl.
Expired(k) == cache[k].ttl # NoTTL /\ now - cache[k].created > cache[k].ttl
Live == {k \in Held : ~Expired(k)}

TypeOK ==
  /\ cache \in [Keys -> [value : Values, created : Nat, ttl : TTLs] \cup {Nothing}]
  /\ now \in 0..MaxTime
  /\ reply \in (Keys \X (Values \cup {Nothing})) \cup {Nothing}

Init == /\ cache = [k \in Keys |-> Nothing] /\ now = 0
        /\ reply = Nothing

Only(S) == [k \in Keys |-> IF k \in S THEN cache[k] ELSE Nothing]

\* Fault: the age of an entry is not looked at.
FoundStale(k) == k \in Held /\ UNCHANGED cache

\* get and exists look a key up the same way: an expired entry is deleted.
Found(k) == k \in Live /\ UNCHANGED cache
Absent(k) == k \notin Live /\ cache' = Only(Held \ {k})

Get(k) ==
  /\ \/ Found(k) /\ reply' = <<k, cache[k].value>>
     \/ Absent(k) /\ reply' = <<k, Nothing>>
  /\ UNCHANGED now

Exists(k) == (Found(k) \/ Absent(k)) /\ UNCHANGED <<now, reply>>

\* Fault: off by one, no place is made for the new entry.
EvictTooFew(rest) ==
  IF Cardinality(Live) <= MaxSize
    THEN rest = Live
    ELSE /\ rest \subseteq Live
         /\ Cardinality(rest) = MaxSize
         /\ \A k \in rest, j \in Live \ rest : cache[j].created <= cache[k].created

\* Fault: the newest entries leave.
EvictNewest(rest) ==
  IF Cardinality(Live) < MaxSize
    THEN rest = Live
    ELSE /\ rest \subseteq Live
         /\ Cardinality(rest) = IF MaxSize = 0 THEN 0 ELSE MaxSize - 1
         /\ \A k \in rest, j \in Live \ rest : cache[j].created >= cache[k].created

\* _evict: the expired entries go; if the others still fill the cache, the
\* oldest of them go until one place is free.  Entries of the same age leave
\* in the order of the dictionary, which is left open.
Evict(rest) ==
  IF Cardinality(Live) < MaxSize
    THEN rest = Live
    ELSE /\ rest \subseteq Live
         /\ Cardinality(rest) = IF MaxSize = 0 THEN 0 ELSE MaxSize - 1
         /\ \A k \in rest, j \in Live \ rest : cache[j].created <= cache[k].created

\* set makes room whenever the cache is full, even for a key it already holds.
Set(k, v, ttl) ==
  /\ \E rest \in SUBSET Held :
       /\ IF Cardinality(Held) >= MaxSize THEN Evict(rest) ELSE rest = Held
       /\ cache' = [Only(rest) EXCEPT ![k] = [value |-> v, created |-> now, ttl |-> ttl]]
  /\ UNCHANGED <<now, reply>>

Delete(k) == cache' = Only(Held \ {k}) /\ UNCHANGED <<now, reply>>

Clear == cache' = Only({}) /\ UNCHANGED <<now, reply>>

Tick == now < MaxTime /\ now' = now + 1 /\ UNCHANGED <<cache, reply>>

Next ==
  \/ \E k \in Keys :
       \/ Get(k) \/ Exists(k) \/ Delete(k)
       \/ \E v \in Values, ttl \in TTLs : Set(k, v, ttl)
  \/ Clear
  \/ Tick

Spec == Init /\ [][Next]_vars

-----------------------------------------------------------------------------
(* Properties.                                                             *)

\* The cache never holds more than max_size entries, once that is positive:
\* eviction frees at least one place before every insertion into a full one.
SizeWithinLimit == MaxSize > 0 => Cardinality(Held) <= MaxSize

\* A set gives up an entry that could still be served only when such entries
\* alone fill the cache, and never keeps one that was set before the one it drops
\* (memory.py 86-91).  Only set counts: an entry that was just read leaves like any
\* other, so this is not the "LRU eviction" that nl2sql/cache.py names in line 5.
OldestLeaveFirst ==
  [][\A k \in Keys, v \in Values, ttl \in TTLs : Set(k, v, ttl) =>
       \A j \in Live \ {k} : j \notin Held' =>
         /\ Cardinality(Live) >= MaxSize
         /\ \A i \in Held' \ {k} : cache[j].created <= cache[i].created]_vars

\* A user of the cache sees a BaseCache.
Base == INSTANCE LossyStore WITH store <- cache
ImplementsBaseCache == Base!Spec
=============================================================================
