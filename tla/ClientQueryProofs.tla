------------------------- MODULE ClientQueryProofs -------------------------
(***************************************************************************)
(* Proofs about ClientQuery for any requests, keys and bounds.             *)
(***************************************************************************)
EXTENDS ClientQuery, TLAPS

Slots == [Keys -> [value : Results, created : 0..MaxTime, ttl : {Ttl}] \cup {Nothing}]

LEMMA LostType == ASSUME TypeOK, NEW S PROVE Cache!Lost(S) \in Slots
BY DEF TypeOK, Cache!Lost, Slots

LEMMA GetType ==
  ASSUME TypeOK, NEW k \in Keys, Cache!Get(k)
  PROVE  /\ store' \in Slots /\ now' = now
         /\ reply'[1] = k
         /\ reply' # <<k, Nothing>> =>
              /\ reply'[2] \in Results /\ store' = store /\ store[k] # Nothing
              /\ reply'[2] = store[k].value /\ ~Cache!Stale(store[k])
         /\ \A j \in Keys : store'[j] \in {store[j], Nothing}
<1>1. CASE store[k] # Nothing /\ ~Cache!Stale(store[k]) /\ reply' = <<k, store[k].value>>
           /\ UNCHANGED <<store, now>>
  <2>1. store[k] \in [value : Results, created : 0..MaxTime, ttl : {Ttl}]
    BY <1>1 DEF TypeOK
  <2>. QED
    BY <1>1, <2>1 DEF TypeOK, Slots
<1>2. CASE reply' = <<k, Nothing>> /\ store' = Cache!Lost({k}) /\ UNCHANGED now
  <2>1. \A j \in Keys : store'[j] \in {store[j], Nothing}
    BY <1>2 DEF Cache!Lost
  <2>. QED
    BY <1>2, <2>1, LostType
<1>. QED
  BY <1>1, <1>2 DEF Cache!Get

LEMMA PutType ==
  ASSUME TypeOK, NEW k \in Keys, NEW v \in Results, NEW S, Cache!Put(k, v, Ttl, S)
  PROVE  /\ store' \in Slots /\ now' = now
         /\ store'[k] = [value |-> v, created |-> now, ttl |-> Ttl]
         /\ \A j \in Keys \ {k} : store'[j] \in {store[j], Nothing}
<1>1. [value |-> v, created |-> now, ttl |-> Ttl] \in [value : Results, created : 0..MaxTime, ttl : {Ttl}]
  BY DEF TypeOK
<1>2. store' = [Cache!Lost(S) EXCEPT ![k] = [value |-> v, created |-> now, ttl |-> Ttl]]
  BY DEF Cache!Put, Cache!Entry
<1>3. Cache!Lost(S) \in Slots /\ \A j \in Keys : Cache!Lost(S)[j] \in {store[j], Nothing}
  BY LostType DEF Cache!Lost
<1>4. store' \in Slots
  BY <1>1, <1>2, <1>3 DEF Slots
<1>. QED
  BY <1>2, <1>3, <1>4 DEF Cache!Put, Slots

\* What a lookup does to the cache, whether it finds an entry or not.
LEMMA LookupType ==
  ASSUME TypeOK, NEW r \in Requests, Lookup(r)
  PROVE  /\ store' \in Slots /\ now' = now /\ pc[r] \in {"new", "connecting"}
         /\ \A j \in Keys : store'[j] \in {store[j], Nothing}
BY KeyAssumption, GetType DEF Lookup, cache, TypeOK, Slots

-----------------------------------------------------------------------------
(* Each kind of step, as the proofs below use it.                          *)

LEMMA AnswerType ==
  ASSUME TypeOK, NEW r \in Requests, NEW a \in Results \cup {Error}, Answer(r, a)
  PROVE  /\ pc' \in [Requests -> {"new", "connecting", "executing"} \cup Ended]
         /\ answer' \in [Requests -> Results \cup {Error, Nothing}]
         /\ at' \in [Requests -> 0..MaxTime]
BY DEF Answer, TypeOK, Ended

LEMMA ResultType ==
  ASSUME TypeOK, NEW r \in Requests
  PROVE  /\ [of |-> r, saw |-> table \cup open] \in Results
         /\ [of |-> r, saw |-> {}] \in Results
BY DEF TypeOK, Results

\* What the worker threads' steps make, and that rows never leave the table.
LEMMA WorkType ==
  ASSUME TypeOK, NEW r \in Requests, Work(r)
  PROVE  /\ job' \in [Requests -> {"none", "queued", "written", "done", "dropped"}]
         /\ made' \in [Requests -> Results \cup {Error, Nothing}]
         /\ open' \in SUBSET Writes /\ table' \in SUBSET Writes /\ table \subseteq table'
<1>1. CASE Select(r)
  BY <1>1, ResultType DEF Select, Done, TypeOK
<1>2. CASE Insert(r)
  BY <1>2 DEF Insert, TypeOK
<1>3. CASE Commit(r)
  BY <1>3, ResultType DEF Commit, Done, TypeOK
<1>4. CASE Fail(r)
  BY <1>4 DEF Fail, Done, TypeOK
<1>. QED
  BY <1>1, <1>2, <1>3, <1>4 DEF Work

LEMMA AbandonType ==
  ASSUME TypeOK, NEW r \in Requests, Abandon(r)
  PROVE  /\ job' \in [Requests -> {"none", "queued", "written", "done", "dropped"}]
         /\ \A q \in Requests : job'[q] = "done" <=> job[q] = "done"
BY DEF Abandon, TypeOK

-----------------------------------------------------------------------------
(***************************************************************************)
(* Statements.  A finished one has a result or an error, which is its own, *)
(* and the result of an INSERT comes with its row in the table: a row that *)
(* is written stays in the open transaction until some commit, perhaps of  *)
(* another thread, takes it to the table.                                  *)
(***************************************************************************)
MadeInv ==
  \A r \in Requests :
    /\ pc[r] \in {"new", "connecting"} => job[r] = "none"
    /\ job[r] = "written" => r \in table \cup open
    /\ job[r] = "done" <=> made[r] # Nothing
    /\ made[r] \in Results => made[r].of = r /\ (r \in Writes => r \in table)

LEMMA WorkMakes == ASSUME TypeOK, MadeInv, NEW r \in Requests, Work(r) PROVE MadeInv'
<1>0. UNCHANGED pc /\ job[r] # "none" /\ pc[r] \notin {"new", "connecting"}
  BY DEF Work, Select, Insert, Commit, Fail, MadeInv
<1>1. CASE Select(r)
  <2>1. [of |-> r, saw |-> table \cup open] # Nothing
    BY <1>1, ResultType, ResultsAssumption
  <2>. QED
    BY <1>0, <1>1, <2>1 DEF Select, Done, TypeOK, MadeInv
<1>2. CASE Insert(r)
  BY <1>0, <1>2 DEF Insert, TypeOK, MadeInv
<1>3. CASE Commit(r)
  <2>1. [of |-> r, saw |-> {}] # Nothing
    BY ResultType, ResultsAssumption
  <2>2. /\ job' = [job EXCEPT ![r] = "done"] /\ made' = [made EXCEPT ![r] = [of |-> r, saw |-> {}]]
        /\ job[r] = "written" /\ table' = table \cup open
    BY <1>3 DEF Commit, Done
  <2>3. r \in table'
    BY <2>2 DEF MadeInv
  <2>. QED
    BY <1>0, <2>1, <2>2, <2>3 DEF TypeOK, MadeInv
<1>4. CASE Fail(r)
  BY <1>0, <1>4, ResultsAssumption DEF Fail, Done, TypeOK, MadeInv
<1>. QED
  BY <1>1, <1>2, <1>3, <1>4 DEF Work

LEMMA MadeStep == TypeOK /\ MadeInv /\ [Next]_vars => MadeInv'
<1>. SUFFICES ASSUME TypeOK, MadeInv, [Next]_vars PROVE MadeInv'
  OBVIOUS
<1>1. ASSUME NEW r \in Requests, Hit(r) \/ NoConnector(r) \/ Return(r) PROVE MadeInv'
  BY <1>1 DEF Hit, NoConnector, Return, Answer, database, TypeOK, MadeInv
<1>2. ASSUME NEW r \in Requests, Connecting(r) \/ Submit(r) PROVE MadeInv'
  <2>1. pc[r] \in {"new", "connecting"}
    BY <1>2 DEF Connecting, Submit, Lookup
  <2>. QED
    BY <1>2, <2>1 DEF Connecting, Submit, database, TypeOK, MadeInv
<1>3. ASSUME NEW r \in Requests, Timeout(r) \/ Cancel(r) PROVE MadeInv'
  BY <1>3 DEF Timeout, Cancel, Abandon, Answer, database, TypeOK, MadeInv
<1>4. CASE Tick \/ UNCHANGED vars
  BY <1>4 DEF Tick, vars, database, MadeInv
<1>. QED
  BY <1>1, <1>2, <1>3, <1>4, WorkMakes DEF Next, Connects

\* What a request returns is its own result, and the only value it caches.
LEMMA ReturnType ==
  ASSUME TypeOK, MadeInv, NEW r \in Requests, Return(r)
  PROVE  /\ made[r] \in Results \cup {Error} /\ now' = now
         /\ store' \in Slots
         /\ made[r] = Error => store' = store
         /\ made[r] \in Results =>
              /\ made[r].of = r /\ (r \in Writes => r \in table)
              /\ store'[Key[r]] = [value |-> made[r], created |-> now, ttl |-> Ttl]
              /\ \A j \in Keys \ {Key[r]} : store'[j] \in {store[j], Nothing}
<1>1. made[r] \in Results \cup {Error}
  BY DEF Return, TypeOK, MadeInv
<1>2. CASE made[r] = Error
  BY <1>2, ResultsAssumption DEF Return, cache, TypeOK, Slots
<1>3. CASE made[r] \in Results
  <2>1. PICK S \in SUBSET Keys : Cache!Put(Key[r], made[r], Ttl, S)
    BY <1>3, ResultsAssumption DEF Return
  <2>2. Key[r] \in Keys
    BY KeyAssumption
  <2>. QED
    BY <1>3, <2>1, <2>2, PutType, ResultsAssumption DEF MadeInv
<1>. QED
  BY <1>1, <1>2, <1>3

-----------------------------------------------------------------------------
LEMMA TypeStep == TypeOK /\ MadeInv /\ [Next]_vars => TypeOK'
<1>. SUFFICES ASSUME TypeOK, MadeInv, [Next]_vars PROVE TypeOK'
  OBVIOUS
<1>1. ASSUME NEW r \in Requests, Hit(r) PROVE TypeOK'
  <2>1. /\ store' \in Slots /\ now' = now /\ reply'[2] \in Results
    <3>1. Key[r] \in Keys /\ Cache!Get(Key[r]) /\ reply' # <<Key[r], Nothing>>
      BY <1>1, KeyAssumption DEF Hit
    <3>. QED
      BY <3>1, GetType
  <2>2. Answer(r, reply'[2])
    BY <1>1 DEF Hit
  <2>. QED
    BY <1>1, <2>1, <2>2, AnswerType DEF Hit, database, Slots, TypeOK
<1>2. ASSUME NEW r \in Requests, Connecting(r) PROVE TypeOK'
  BY <1>2, LookupType DEF Connecting, database, Slots, TypeOK
<1>3. ASSUME NEW r \in Requests, NoConnector(r) PROVE TypeOK'
  BY <1>3, LookupType, AnswerType DEF NoConnector, database, Slots, TypeOK
<1>4. ASSUME NEW r \in Requests, Submit(r) PROVE TypeOK'
  BY <1>4, LookupType DEF Submit, database, Slots, TypeOK
<1>5. ASSUME NEW r \in Requests, Return(r) PROVE TypeOK'
  BY <1>5, ReturnType, AnswerType DEF Return, database, Slots, TypeOK
<1>6. ASSUME NEW r \in Requests, Timeout(r) PROVE TypeOK'
  BY <1>6, AbandonType, AnswerType DEF Timeout, cache, database, TypeOK
<1>7. ASSUME NEW r \in Requests, Cancel(r) PROVE TypeOK'
  BY <1>7, AbandonType DEF Cancel, cache, database, TypeOK, Ended
<1>8. ASSUME NEW r \in Requests, Work(r) PROVE TypeOK'
  BY <1>8, WorkType DEF Work, cache, TypeOK
<1>9. CASE Tick \/ UNCHANGED vars
  BY <1>9, TimeAssumption DEF Tick, vars, database, TypeOK
<1>. QED
  BY <1>1, <1>2, <1>3, <1>4, <1>5, <1>6, <1>7, <1>8, <1>9 DEF Next, Connects

\* Requests, statements, the cache and the table keep their types.
THEOREM TypeCorrect == Safety => []TypeOK
<1>1. Init => TypeOK /\ MadeInv
  BY TimeAssumption, ResultsAssumption DEF Init, Cache!Init, TypeOK, MadeInv
<1>. QED
  BY <1>1, TypeStep, MadeStep, PTL DEF Safety

-----------------------------------------------------------------------------
(***************************************************************************)
(* Answers.  Every step is of one of three kinds: a request takes its      *)
(* answer from the cache, it returns what its statement made, or the cache *)
(* at most loses entries and the table at most gains rows, while requests  *)
(* that have no answer yet may get an error.                               *)
(***************************************************************************)
Taken(r) ==
  LET e == store[Key[r]] IN
    /\ e # Nothing /\ ~Cache!Stale(e)
    /\ Answer(r, e.value)
    /\ UNCHANGED <<store, now, table>>

Returned(r) == Answer(r, made[r]) /\ Return(r)

Quiet ==
  /\ \A k \in Keys : store'[k] \in {store[k], Nothing}
  /\ \A r \in Requests : \/ answer'[r] = answer[r] /\ at'[r] = at[r]
                         \/ answer[r] = Nothing /\ answer'[r] = Error /\ at'[r] = now
  /\ now' \in now..MaxTime
  /\ table \subseteq table'

AnsweredInv ==
  \A r \in Requests : (pc[r] # "answered" => answer[r] = Nothing) /\ at[r] <= now

LEMMA HitTakes == ASSUME TypeOK, NEW r \in Requests, Hit(r) PROVE Taken(r)
<1>1. Key[r] \in Keys /\ Cache!Get(Key[r]) /\ reply' # <<Key[r], Nothing>>
  BY KeyAssumption DEF Hit
<1>2. /\ store' = store /\ now' = now /\ store[Key[r]] # Nothing
      /\ reply'[2] = store[Key[r]].value /\ ~Cache!Stale(store[Key[r]])
  BY <1>1, GetType
<1>. QED
  BY <1>2 DEF Hit, Taken, database

LEMMA Kinds ==
  ASSUME TypeOK, MadeInv, AnsweredInv, [Next]_vars
  PROVE  (\E r \in Requests : pc[r] # "answered" /\ (Taken(r) \/ Returned(r))) \/ Quiet
<1>1. ASSUME NEW r \in Requests, Hit(r) PROVE pc[r] # "answered" /\ Taken(r)
  BY <1>1, HitTakes DEF Hit
<1>2. ASSUME NEW r \in Requests, Return(r) PROVE pc[r] # "answered" /\ Returned(r)
  BY <1>2 DEF Return, Returned
<1>3. now \in now..MaxTime
  BY TimeAssumption DEF TypeOK
<1>4. ASSUME NEW r \in Requests, Connecting(r) \/ Submit(r) PROVE Quiet
  BY <1>3, <1>4, LookupType DEF Connecting, Submit, database, Quiet
<1>5. ASSUME NEW r \in Requests, NoConnector(r) PROVE Quiet
  <2>1. Answer(r, Error) /\ UNCHANGED table /\ answer[r] = Nothing
    BY <1>5, LookupType DEF NoConnector, database, AnsweredInv
  <2>2. /\ \A k \in Keys : store'[k] \in {store[k], Nothing}
        /\ now' = now
    BY <1>5, LookupType DEF NoConnector
  <2>. QED
    BY <1>3, <2>1, <2>2 DEF Answer, TypeOK, Quiet
<1>6. ASSUME NEW r \in Requests, Timeout(r) PROVE Quiet
  BY <1>3, <1>6 DEF Timeout, Answer, cache, database, AnsweredInv, TypeOK, Quiet
<1>7. ASSUME NEW r \in Requests, Cancel(r) PROVE Quiet
  BY <1>3, <1>7 DEF Cancel, cache, database, Quiet
<1>8. ASSUME NEW r \in Requests, Work(r) PROVE Quiet
  BY <1>3, <1>8, WorkType DEF Work, cache, Quiet
<1>9. CASE Tick \/ UNCHANGED vars
  BY <1>3, <1>9, TimeAssumption DEF Tick, vars, database, TypeOK, Quiet
<1>. QED
  BY <1>1, <1>2, <1>4, <1>5, <1>6, <1>7, <1>8, <1>9 DEF Next, Connects

LEMMA AnsweredStep == TypeOK /\ MadeInv /\ AnsweredInv /\ [Next]_vars => AnsweredInv'
<1>. SUFFICES ASSUME TypeOK, MadeInv, AnsweredInv, [Next]_vars PROVE AnsweredInv'
  OBVIOUS
<1>1. ASSUME NEW q \in Requests, pc'[q] # "answered" PROVE answer'[q] = Nothing
  <2>1. ASSUME NEW r \in Requests, Hit(r) \/ NoConnector(r) \/ Return(r) \/ Timeout(r)
        PROVE  answer'[q] = Nothing
    BY <1>1, <2>1 DEF Hit, NoConnector, Return, Timeout, Answer, AnsweredInv, TypeOK
  <2>2. ASSUME NEW r \in Requests, Connecting(r) \/ Submit(r) \/ Cancel(r)
        PROVE  answer'[q] = Nothing
    BY <1>1, <2>2 DEF Connecting, Submit, Cancel, Lookup, AnsweredInv, TypeOK
  <2>3. ASSUME NEW r \in Requests, Work(r) PROVE answer'[q] = Nothing
    BY <1>1, <2>3 DEF Work, AnsweredInv
  <2>4. CASE Tick \/ UNCHANGED vars
    BY <1>1, <2>4 DEF Tick, vars, AnsweredInv
  <2>. QED
    BY <2>1, <2>2, <2>3, <2>4 DEF Next, Connects
<1>2. ASSUME NEW q \in Requests PROVE at'[q] <= now'
  <2>1. ASSUME NEW r \in Requests, Taken(r) \/ Returned(r) PROVE at'[q] <= now'
    <3>1. now' = now /\ at' = [at EXCEPT ![r] = now]
      BY <2>1, ReturnType DEF Taken, Returned, Answer
    <3>. QED
      BY <3>1 DEF TypeOK, AnsweredInv
  <2>2. CASE Quiet
    BY <2>2, TimeAssumption DEF Quiet, TypeOK, AnsweredInv
  <2>. QED
    BY <2>1, <2>2, Kinds
<1>. QED
  BY <1>1, <1>2 DEF AnsweredInv

\* The entry of k is the answer of the request it comes from, as old as that.
Faithful(k) ==
  LET v == store[k].value IN
    v \in Results /\ Key[v.of] = k /\ answer[v.of] = v /\ store[k].created = at[v.of]

CacheInv == \A k \in Keys : store[k] # Nothing => Faithful(k)

\* An answered request keeps its answer.
Keeps == \A q \in Requests : answer[q] \in Results => answer'[q] = answer[q] /\ at'[q] = at[q]

LEMMA AnswersKept == ASSUME TypeOK, MadeInv, AnsweredInv, [Next]_vars PROVE Keeps
<1>1. ASSUME NEW r \in Requests, pc[r] # "answered", Taken(r) \/ Returned(r) PROVE Keeps
  <2>1. answer[r] = Nothing
    BY <1>1 DEF AnsweredInv
  <2>2. \A q \in Requests \ {r} : answer'[q] = answer[q] /\ at'[q] = at[q]
    BY <1>1 DEF Taken, Returned, Answer, TypeOK
  <2>. QED
    BY <2>1, <2>2, ResultsAssumption DEF Keeps
<1>2. Quiet => Keeps
  BY ResultsAssumption DEF Quiet, Keeps
<1>. QED
  BY <1>1, <1>2, Kinds

LEMMA CacheStep == TypeOK /\ MadeInv /\ AnsweredInv /\ CacheInv /\ [Next]_vars => CacheInv'
<1>. SUFFICES ASSUME TypeOK, MadeInv, AnsweredInv, CacheInv, [Next]_vars,
                     NEW k \in Keys, store'[k] # Nothing
              PROVE  Faithful(k)'
  BY DEF CacheInv
<1>1. Keeps
  BY AnswersKept
<1>2. ASSUME store'[k] = store[k] PROVE Faithful(k)'
  <2>1. Faithful(k)
    BY <1>2 DEF CacheInv
  <2>2. store[k].value.of \in Requests
    BY <2>1 DEF Faithful, Results
  <2>. QED
    BY <1>1, <1>2, <2>1, <2>2 DEF Faithful, Keeps
<1>3. ASSUME NEW r \in Requests, Returned(r) PROVE Faithful(k)'
  <2>1. CASE made[r] = Error
    BY <1>2, <1>3, <2>1, ReturnType DEF Returned
  <2>2. CASE made[r] \in Results /\ k # Key[r]
    <3>1. store'[k] = store[k]
      BY <1>3, <2>2, ReturnType DEF Returned
    <3>. QED
      BY <1>2, <3>1
  <2>3. CASE made[r] \in Results /\ k = Key[r]
    <3>1. /\ made[r].of = r
          /\ store'[k] = [value |-> made[r], created |-> now, ttl |-> Ttl]
      BY <1>3, <2>3, ReturnType DEF Returned
    <3>2. answer'[r] = made[r] /\ at'[r] = now
      BY <1>3 DEF Returned, Answer, TypeOK
    <3>. QED
      BY <2>3, <3>1, <3>2 DEF Faithful
  <2>4. made[r] \in Results \cup {Error}
    BY <1>3, ReturnType DEF Returned
  <2>. QED
    BY <2>1, <2>2, <2>3, <2>4
<1>4. ASSUME NEW r \in Requests, Taken(r) PROVE Faithful(k)'
  BY <1>2, <1>4 DEF Taken
<1>5. CASE Quiet
  BY <1>2, <1>5 DEF Quiet
<1>. QED
  BY <1>3, <1>4, <1>5, Kinds

LEMMA RecentStep ==
  TypeOK /\ MadeInv /\ AnsweredInv /\ CacheInv /\ CachedAnswersAreRecent /\ [Next]_vars
    => CachedAnswersAreRecent'
<1>. SUFFICES ASSUME TypeOK, MadeInv, AnsweredInv, CacheInv, CachedAnswersAreRecent, [Next]_vars,
                     NEW q \in Requests, answer'[q] \in Results, answer'[q].of # q
              PROVE  LET o == answer'[q].of IN
                       answer'[o] = answer'[q] /\ at'[o] <= at'[q] /\ at'[q] - at'[o] <= Ttl
  BY DEF CachedAnswersAreRecent
<1> DEFINE o == answer'[q].of
<1>0. Keeps /\ o \in Requests
  BY AnswersKept DEF Results
<1>1. ASSUME answer'[q] = answer[q], at'[q] = at[q]
      PROVE  answer'[o] = answer'[q] /\ at'[o] <= at'[q] /\ at'[q] - at'[o] <= Ttl
  <2>1. answer[o] = answer[q] /\ at[o] <= at[q] /\ at[q] - at[o] <= Ttl
    BY <1>1 DEF CachedAnswersAreRecent
  <2>2. answer'[o] = answer[o] /\ at'[o] = at[o]
    BY <1>0, <1>1, <2>1 DEF Keeps
  <2>. QED
    BY <1>1, <2>1, <2>2
<1>2. ASSUME NEW r \in Requests, Returned(r)
      PROVE  answer'[q] = answer[q] /\ at'[q] = at[q]
  <2>1. q # r
    BY <1>2, ReturnType, ResultsAssumption DEF Returned, Answer, TypeOK
  <2>. QED
    BY <1>2, <2>1 DEF Returned, Answer, TypeOK
<1>3. ASSUME NEW r \in Requests, Taken(r), q # r
      PROVE  answer'[q] = answer[q] /\ at'[q] = at[q]
  BY <1>3 DEF Taken, Answer, TypeOK
<1>4. ASSUME Taken(q)
      PROVE  answer'[o] = answer'[q] /\ at'[o] <= at'[q] /\ at'[q] - at'[o] <= Ttl
  <2>1. Key[q] \in Keys /\ store[Key[q]] # Nothing /\ ~Cache!Stale(store[Key[q]])
    BY <1>4, KeyAssumption DEF Taken
  <2>2. answer'[q] = store[Key[q]].value /\ at'[q] = now
    BY <1>4 DEF Taken, Answer, TypeOK
  <2>3. /\ answer[o] = answer'[q] /\ store[Key[q]].created = at[o]
    BY <2>1, <2>2 DEF CacheInv, Faithful
  <2>4. answer'[o] = answer[o] /\ at'[o] = at[o]
    BY <1>0, <2>3 DEF Keeps
  <2>5. store[Key[q]].ttl = Ttl
    BY <2>1 DEF TypeOK
  <2>6. now - at[o] <= Ttl /\ at[o] <= now
    <3>1. at[o] <= now /\ at[o] \in Nat /\ now \in Nat
      BY <1>0, TimeAssumption DEF AnsweredInv, TypeOK
    <3>2. Ttl # NoTTL => now - at[o] <= Ttl
      BY <2>1, <2>3, <2>5, <3>1, TimeAssumption DEF Cache!Stale
    <3>. QED
      BY <3>1, <3>2, TtlAssumption, TimeAssumption
  <2>. QED
    BY <2>2, <2>3, <2>4, <2>6
<1>5. Quiet => answer'[q] = answer[q] /\ at'[q] = at[q]
  BY ResultsAssumption DEF Quiet
<1>. QED
  BY <1>1, <1>2, <1>3, <1>4, <1>5, Kinds

LEMMA SuccessStep ==
  TypeOK /\ MadeInv /\ AnsweredInv /\ CacheInv /\ SuccessIsCommitted /\ [Next]_vars
    => SuccessIsCommitted'
<1>. SUFFICES ASSUME TypeOK, MadeInv, AnsweredInv, CacheInv, SuccessIsCommitted, [Next]_vars,
                     NEW q \in Requests, answer'[q] \in Results, answer'[q].of \in Writes
              PROVE  answer'[q].of \in table'
  BY DEF SuccessIsCommitted
<1>1. ASSUME answer'[q] = answer[q], table \subseteq table' PROVE answer'[q].of \in table'
  BY <1>1 DEF SuccessIsCommitted
<1>2. ASSUME NEW r \in Requests, Taken(r) PROVE answer'[q].of \in table'
  <2>1. CASE q = r
    <3>1. answer'[q] = store[Key[q]].value /\ table' = table
      BY <1>2, <2>1 DEF Taken, Answer, TypeOK
    <3>2. Faithful(Key[q])
      BY <1>2, <2>1, KeyAssumption DEF Taken, CacheInv
    <3>3. answer'[q].of \in Requests /\ answer[answer'[q].of] = answer'[q]
      BY <3>1, <3>2 DEF Faithful, Results
    <3>. QED
      BY <3>1, <3>3 DEF SuccessIsCommitted
  <2>2. CASE q # r
    BY <1>1, <1>2, <2>2 DEF Taken, Answer, TypeOK
  <2>. QED
    BY <2>1, <2>2
<1>3. ASSUME NEW r \in Requests, Returned(r) PROVE answer'[q].of \in table'
  <2>1. table' = table
    BY <1>3 DEF Returned, Return, database
  <2>2. CASE q = r
    BY <1>3, <2>1, <2>2, ReturnType DEF Returned, Answer, TypeOK
  <2>3. CASE q # r
    BY <1>1, <1>3, <2>1, <2>3 DEF Returned, Answer, TypeOK
  <2>. QED
    BY <2>2, <2>3
<1>4. CASE Quiet
  BY <1>1, <1>4, ResultsAssumption DEF Quiet
<1>. QED
  BY <1>2, <1>3, <1>4, Kinds

IInv == TypeOK /\ MadeInv /\ AnsweredInv /\ CacheInv /\ CachedAnswersAreRecent /\ SuccessIsCommitted

LEMMA Invariance == Safety => []IInv
<1>1. Init => IInv
  BY TimeAssumption, ResultsAssumption
     DEF Init, Cache!Init, IInv, TypeOK, MadeInv, AnsweredInv, CacheInv,
         CachedAnswersAreRecent, SuccessIsCommitted
<1>2. IInv /\ [Next]_vars => IInv'
  BY TypeStep, MadeStep, AnsweredStep, CacheStep, RecentStep, SuccessStep DEF IInv
<1>. QED
  BY <1>1, <1>2, PTL DEF Safety

\* No error, and no late result of a request that timed out or was cancelled,
\* ever reaches the cache.
THEOREM CacheCorrect == Safety => []CacheHoldsAnswers
<1>1. IInv => CacheHoldsAnswers
  BY DEF IInv, CacheInv, Faithful, CacheHoldsAnswers
<1>. QED
  BY <1>1, Invariance, PTL

\* A cached answer was given to its own request no longer than the ttl before.
THEOREM RecentCorrect == Safety => []CachedAnswersAreRecent
<1>1. IInv => CachedAnswersAreRecent
  BY DEF IInv
<1>. QED
  BY <1>1, Invariance, PTL

\* An INSERT whose success is reported, to whomever, is committed.
THEOREM SuccessCorrect == Safety => []SuccessIsCommitted
<1>1. IInv => SuccessIsCommitted
  BY DEF IInv
<1>. QED
  BY <1>1, Invariance, PTL
=============================================================================
