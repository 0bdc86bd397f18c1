----------------------------- MODULE LossyStore -----------------------------
(***************************************************************************)
(* What BaseCache (agent_data/cache/base.py) promises its users: a key     *)
(* answers with the value last set for it, while that is no older than its *)
(* ttl, or with nothing.  Entries may vanish at any time; none comes back, *)
(* and none changes but by a set of its own key.                           *)
(***************************************************************************)
EXTENDS Integers

CONSTANTS Keys, Values, TTLs,
          Nothing,   \* no entry, no value
          NoTTL      \* an entry that never expires

VARIABLES store,     \* what each key would answer
          now,       \* the clock
          reply      \* the key and the value of the last get

vars == <<store, now, reply>>

Entry(v, ttl) == [value |-> v, created |-> now, ttl |-> ttl]

\* CacheEntry.is_expired
Stale(e) == e.ttl # NoTTL /\ now - e.created > e.ttl

Lost(S) == [k \in Keys |-> IF k \in S THEN Nothing ELSE store[k]]

Init == /\ store = [k \in Keys |-> Nothing] /\ now = 0
        /\ reply = Nothing

Get(k) == \/ /\ store[k] # Nothing /\ ~Stale(store[k])
             /\ reply' = <<k, store[k].value>>
             /\ UNCHANGED <<store, now>>
          \/ /\ reply' = <<k, Nothing>> /\ store' = Lost({k})
             /\ UNCHANGED now

Put(k, v, ttl, S) == /\ store' = [Lost(S) EXCEPT ![k] = Entry(v, ttl)]
                     /\ UNCHANGED <<now, reply>>

Lose(S) == store' = Lost(S) /\ UNCHANGED <<now, reply>>

Tick == now' > now /\ now' \in Nat /\ UNCHANGED <<store, reply>>

Next == \/ \E k \in Keys :
             \/ Get(k)
             \/ \E v \in Values, ttl \in TTLs, S \in SUBSET Keys : Put(k, v, ttl, S)
        \/ \E S \in SUBSET Keys : Lose(S)
        \/ Tick

Spec == Init /\ [][Next]_vars
=============================================================================
