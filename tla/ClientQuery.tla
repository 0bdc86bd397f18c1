---------------------------- MODULE ClientQuery ----------------------------
(***************************************************************************)
(* AgentDataClient.query (agent_data/core/client.py) over the cache it     *)
(* uses and the SQL connector (agent_data/connectors/sql.py).              *)
(*                                                                         *)
(* A request is one query() call in a task of its own.  The event loop     *)
(* switches tasks only in connect() and in the connector's worker thread,  *)
(* whose steps interleave with everything.  The cache is any BaseCache     *)
(* (LossyStore); the connector table is ConnectorPool's subject, here it   *)
(* answers at once, late, with an error, or never.                         *)
(***************************************************************************)
EXTENDS Naturals

CONSTANTS
  Requests,
  Writes,     \* the INSERTs among them; the others are SELECTs
  Timed,      \* the requests with a timeout
  Keys, Key,  \* Key[r]: the cache key of r, _generate_cache_key
  Ttl,        \* cache_ttl
  MaxTime,    \* bound on the clock
  Error,      \* a QueryResult with its error set
  Nothing, NoTTL

ASSUME RequestsAssumption == Writes \subseteq Requests /\ Timed \subseteq Requests
ASSUME KeyAssumption == Key \in [Requests -> Keys]
ASSUME TtlAssumption == NoTTL \notin Nat
ASSUME TimeAssumption == Ttl \in Nat /\ MaxTime \in Nat

\* What a statement returns.  of tells results apart (an INSERT returns its
\* rowid); saw is the rows a SELECT found, named by the INSERTs they come from.
Results == [of : Requests, saw : SUBSET Writes]

ASSUME ResultsAssumption ==
  Error \notin Results /\ Nothing \notin Results /\ Error # Nothing

VARIABLES
  store, now, reply,  \* the cache, see LossyStore
  pc,       \* where each request stands
  job,      \* what the worker thread does for it
  made,     \* what its statement gave
  open,     \* the rows written in the transaction open on the connection
  table,    \* the rows committed
  answer,   \* what the caller got
  at        \* when: history, read by the properties only

Cache == INSTANCE LossyStore WITH Values <- Results, TTLs <- {Ttl}

vars == <<store, now, reply, pc, job, made, open, table, answer, at>>
cache == <<store, now, reply>>
database == <<made, open, table>>

Ended == {"answered", "cancelled"}

TypeOK ==
  /\ store \in [Keys -> [value : Results, created : 0..MaxTime, ttl : {Ttl}] \cup {Nothing}]
  /\ now \in 0..MaxTime
  /\ pc \in [Requests -> {"new", "connecting", "executing"} \cup Ended]
  /\ job \in [Requests -> {"none", "queued", "written", "done", "dropped"}]
  /\ made \in [Requests -> Results \cup {Error, Nothing}]
  /\ open \in SUBSET Writes /\ table \in SUBSET Writes
  /\ answer \in [Requests -> Results \cup {Error, Nothing}]
  /\ at \in [Requests -> 0..MaxTime]

Init ==
  /\ Cache!Init
  /\ pc = [r \in Requests |-> "new"]
  /\ job = [r \in Requests |-> "none"]
  /\ made = [r \in Requests |-> Nothing]
  /\ open = {} /\ table = {}
  /\ answer = [r \in Requests |-> Nothing]
  /\ at = [r \in Requests |-> 0]

-----------------------------------------------------------------------------
(* query().                                                                *)

Answer(r, a) == /\ pc' = [pc EXCEPT ![r] = "answered"]
                /\ answer' = [answer EXCEPT ![r] = a]
                /\ at' = [at EXCEPT ![r] = now]

\* Lines 234-246: the cache answers.
Hit(r) ==
  /\ pc[r] = "new"
  /\ Cache!Get(Key[r]) /\ reply' # <<Key[r], Nothing>>
  /\ Answer(r, reply'[2])
  /\ UNCHANGED <<job, database>>

\* ... or does not, and _get_connector (line 249) has yet to return.
Lookup(r) ==
  \/ /\ pc[r] = "new"
     /\ Cache!Get(Key[r]) /\ reply' = <<Key[r], Nothing>>
  \/ pc[r] = "connecting" /\ UNCHANGED cache

\* _get_connector suspends: in connect(), or queued for the source's lock.
Connecting(r) ==
  /\ pc[r] = "new" /\ Lookup(r)
  /\ pc' = [pc EXCEPT ![r] = "connecting"]
  /\ UNCHANGED <<job, database, answer, at>>

\* _get_connector raises, or execute() does at once: lines 287-295.
NoConnector(r) ==
  /\ Lookup(r)
  /\ Answer(r, Error)
  /\ UNCHANGED <<job, database>>

\* Lines 252-255: execute() hands its statement to a worker thread.
Submit(r) ==
  /\ Lookup(r)
  /\ pc' = [pc EXCEPT ![r] = "executing"]
  /\ job' = [job EXCEPT ![r] = "queued"]
  /\ UNCHANGED <<database, answer, at>>

\* Fault: a callback caches what a thread makes after the caller gave up.
ReturnLate(r) ==
  /\ pc[r] \in {"executing", "answered"} /\ job[r] = "done"
  /\ IF pc[r] = "executing" THEN Answer(r, made[r]) ELSE UNCHANGED <<pc, answer, at>>
  /\ IF made[r] = Error
       THEN UNCHANGED cache
       ELSE \E S \in SUBSET Keys : Cache!Put(Key[r], made[r], Ttl, S)
  /\ UNCHANGED <<job, database>>

\* Fault: results are cached without a ttl.
ReturnForever(r) ==
  /\ pc[r] = "executing" /\ job[r] = "done"
  /\ Answer(r, made[r])
  /\ IF made[r] = Error
       THEN UNCHANGED cache
       ELSE \E S \in SUBSET Keys : Cache!Put(Key[r], made[r], NoTTL, S)
  /\ UNCHANGED <<job, database>>

\* Lines 258-276: execute() returned; a result without error is cached.  The
\* cache may drop other entries to make room.
Return(r) ==
  /\ pc[r] = "executing" /\ job[r] = "done"
  /\ Answer(r, made[r])
  /\ IF made[r] = Error
       THEN UNCHANGED cache
       ELSE \E S \in SUBSET Keys : Cache!Put(Key[r], made[r], Ttl, S)
  /\ UNCHANGED <<job, database>>

\* Giving up on the thread: a statement no thread has begun is dropped, a
\* begun one runs to its end.
Abandon(r) ==
  \/ UNCHANGED job
  \/ job[r] = "queued" /\ job' = [job EXCEPT ![r] = "dropped"]

\* Fault: the timeout waits for the thread it gives up on.
TimeoutJoins(r) ==
  /\ pc[r] = "executing" /\ r \in Timed /\ job[r] = "done"
  /\ Abandon(r)
  /\ Answer(r, Error)
  /\ UNCHANGED <<cache, database>>

\* Lines 253 and 278-286: the timeout strikes before execute() returns.
Timeout(r) ==
  /\ pc[r] = "executing" /\ r \in Timed
  /\ Abandon(r)
  /\ Answer(r, Error)
  /\ UNCHANGED <<cache, database>>

\* The caller's task is cancelled: no handler catches CancelledError.
Cancel(r) ==
  /\ pc[r] \in {"connecting", "executing"}
  /\ Abandon(r)
  /\ pc' = [pc EXCEPT ![r] = "cancelled"]
  /\ UNCHANGED <<cache, database, answer, at>>

-----------------------------------------------------------------------------
(* The worker threads, all on the connector's one connection.              *)

Done(r, result) == /\ job' = [job EXCEPT ![r] = "done"]
                   /\ made' = [made EXCEPT ![r] = result]

\* A SELECT sees the rows of the open transaction too: it is its own.
Select(r) ==
  /\ job[r] = "queued" /\ r \notin Writes
  /\ Done(r, [of |-> r, saw |-> table \cup open])
  /\ UNCHANGED <<open, table>>

\* An INSERT opens a transaction, or joins the one that is open.
Insert(r) ==
  /\ job[r] = "queued" /\ r \in Writes
  /\ job' = [job EXCEPT ![r] = "written"]
  /\ open' = open \cup {r}
  /\ UNCHANGED <<made, table>>

\* commit() is the connection's: it commits whatever any thread has written.
Commit(r) ==
  /\ job[r] = "written"
  /\ table' = table \cup open /\ open' = {}
  /\ Done(r, [of |-> r, saw |-> {}])

\* Fault: an error is taken for a result.
FailSwallowed(r) ==
  /\ job[r] \in {"queued", "written"}
  /\ Done(r, [of |-> r, saw |-> {}])
  /\ UNCHANGED <<open, table>>

\* Fault: the error of a thread gets lost.
FailLost(r) ==
  /\ job[r] \in {"queued", "written"}
  /\ job' = [job EXCEPT ![r] = "dropped"]
  /\ UNCHANGED <<made, open, table>>

\* The statement or the commit raises.  Nothing rolls the transaction back.
Fail(r) ==
  /\ job[r] \in {"queued", "written"}
  /\ Done(r, Error)
  /\ UNCHANGED <<open, table>>

Work(r) == /\ Select(r) \/ Insert(r) \/ Commit(r) \/ Fail(r)
           /\ UNCHANGED <<cache, pc, answer, at>>

-----------------------------------------------------------------------------

Tick == /\ now < MaxTime /\ now' = now + 1
        /\ UNCHANGED <<store, reply, pc, job, database, answer, at>>

Connects(r) == Submit(r) \/ NoConnector(r)

Next ==
  \/ \E r \in Requests :
       \/ Hit(r) \/ Connecting(r) \/ Connects(r)
       \/ Return(r) \/ Timeout(r) \/ Cancel(r)
       \/ Work(r)
  \/ Tick

Safety == Init /\ [][Next]_vars

\* The event loop resumes a task whose thread is done and runs its timers;
\* the database may hang.
Spec == Safety /\ \A r \in Requests : WF_vars(Return(r)) /\ WF_vars(Timeout(r))

\* The database, too, answers in the end: connections and statements.
Responsive == \A r \in Requests : /\ WF_vars(Work(r))
                                  /\ WF_vars(pc[r] = "connecting" /\ Connects(r))

-----------------------------------------------------------------------------
(* Properties.                                                             *)

\* The cache holds only what a request with the same key was itself answered:
\* no error, and no late result of a request that timed out or was cancelled.
CacheHoldsAnswers ==
  \A k \in Keys : store[k] # Nothing =>
    LET v == store[k].value IN
      v \in Results /\ Key[v.of] = k /\ answer[v.of] = v

\* An answer taken from the cache was given, within the ttl before, to the
\* request that executed it.
CachedAnswersAreRecent ==
  \A r \in Requests : answer[r] \in Results /\ answer[r].of # r =>
    LET o == answer[r].of IN
      answer[o] = answer[r] /\ at[o] <= at[r] /\ at[r] - at[o] <= Ttl

\* Whoever is told of an INSERT's success is told of one that is committed.
SuccessIsCommitted ==
  \A r \in Requests : answer[r] \in Results /\ answer[r].of \in Writes
    => answer[r].of \in table

\* Every execution under a timeout ends, even when the database hangs.
TimedExecutionsEnd == \A r \in Timed : pc[r] = "executing" ~> pc[r] \in Ended

\* When the database answers, every request does.
RequestsEnd ==
  Responsive => \A r \in Requests : pc[r] \in {"connecting", "executing"} ~> pc[r] \in Ended

(* What the documentation says, and the code does not do.                  *)

\* "Execute a query against a data source": an INSERT that is answered without
\* an error has inserted its row.
InsertsHappen == \A r \in Writes : answer[r] \in Results => r \in table
=============================================================================
