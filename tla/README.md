# Formal model of agent-data

TLA+ modules, TLC runs and TLAPS proofs for `agent_data`, a Python library that
answers queries of LLM agents from many data sources. The library is asyncio
code around blocking drivers: most of what can go wrong in it goes wrong
between two `await`s, between a task and the worker thread it waits for, or
when a task is cancelled. That is what is modelled.

- [Inventory](#inventory): the parts of the system
- [Modules](#modules): what models what
- [Runs](#runs): what TLC checks, on which instances
- [Proofs](#proofs): what TLAPS proves, and how
- [Findings](#findings): where code and documentation disagree
- [Known differences](#known-differences): behaviour the models show that no document speaks of
- [Not modelled](#not-modelled): what is left out, and why
- [Plan](#plan): what could come next

`PROJECT.json` holds the same in machine-readable form, with the source lines of
every definition and the hazards each property is for.

## Inventory

| component | state | operations | interacts with |
|---|---|---|---|
| client, connector table (`core/client.py`) | `_data_sources`, `_connectors`, one lock per source | `_get_connector`, `add_data_source`, `remove_data_source`, `close`, `health_check` | connectors (connect, disconnect) |
| client, query path (`core/client.py`) | none of its own | `query`, `batch_query` | table, cache, connectors, tracer |
| cache (`cache/`) | entries with value, creation time, ttl | `get`, `set`, `delete`, `exists`, `clear` | client, NL2SQL cache |
| SQL connector (`connectors/sql.py`) | one `sqlite3` connection, shared by worker threads | `connect`, `execute`, `disconnect` | `asyncio.to_thread` |
| other connectors (`connectors/`) | client handles, vectors, files | same interface | external services |
| planning (`planning/`) | task statuses, retry counts, dependencies | `execute`, `execute_sequential`, `replan`, status methods of `Task` | functions supplied by the user |
| workflow (`workflow/`) | steps, shared state dictionary | `execute`, `execute_parallel` | step functions |
| agent loop (`loop/`) | iteration, loop state, deadline | `run` | step and completion functions |
| orchestrator (`multi_agent/`) | registered agents, message logs | `register`, `unregister`, `send_message`, `broadcast`, `execute_task`, `execute_workflow` | agents |
| MCP server (`mcp/`) | tools, tokens | `handle_request` | client, tools |
| tracing (`tracing/`) | open and finished spans | `start_span`, `finish_span` | client, OpenTelemetry |
| NL2SQL engine (`nl2sql/engine.py`) | counters, active sessions | `ask` and its pipeline | LLM, cache, memory, history, validator, audit log |
| NL2SQL cache, memory, history (`nl2sql/`) | entries in a `MemoryCache`; turns per session (dictionary or SQLite); JSON file | get/put, add turn/context/expiry, load/save/add | engine, web |
| web API (`web/`) | app state, keys | routes | NL2SQL engine |
| LLM client (`llm/`) | HTTP client | `complete` with retries | HTTP API |
| validator, formatter, charts, export, errors, redaction, LangChain | none | pure text work or thin adapters | engine |

What makes the main components correct, and what makes that hard:

- **Connector table.** One connector per source however many first calls race;
  a lock that is always given back, on success, error and cancellation; no
  connector in the table whose `connect()` did not succeed; `close()` ends, and what
  it finds it disconnects. Hard: the table is read, awaited over and written, and
  `close()` iterates over it while other tasks change it.
- **Cache.** The limit holds; an expired entry is never served; entries that
  are alive go only when there is no other way to make room, the earliest set first.
- **Query path.** A cached answer is one that was really given to the same
  question, within the ttl; a timed-out or cancelled query leaves nothing in the
  cache; success means committed; with a timeout the execution ends, though connecting may not. Hard: the
  worker thread outlives the task that gave up on it, and all threads write
  through one connection whose `commit()` is not theirs alone.
- **Planning.** No task starts before its dependencies have completed; a call
  ends; what stays pending has a reason. Hard: several calls may work on one
  plan, tasks are cancelled and retried meanwhile, and calls are cancelled.
- **Workflow, loop, tracing.** No step follows a failed one; a loop counts its
  iterations once; a timeout takes what is nested with it; every span is finished
  and belongs to the trace of the query around it. Hard: all of these call each
  other, and a timeout or a cancellation cuts them at any depth.
- **NL2SQL engine.** A conversation holds only questions whose answer was worded and
  never colours the cache; what ran is audited until its file is taken; a question
  ends. Hard: a question awaits an LLM three times and a database once, and all
  requests share the engine's schema, cache, memory and token counts.
- **Conversation memory.** The SQLite store is a drop-in replacement of the
  dictionary although one expires sessions and the other turns, and one counts
  turns and the other orders time stamps.
- **Query history.** The JSON file survives other processes and crashes with no
  item doubled, and those of one process newest first. Hard: it is read, changed and written in place.
- **Connectors.** The comparisons all eight share hold of everything a query is
  answered with and everything a DELETE by filters takes, whatever a connector makes of
  the other operators. Hard: eight translations, each with its own
  treatment of unknown operators, missing fields, empty filters and missing limits.

## Modules

```
ConnectorRegistry <--implements-- ConnectorPool       ConversationMemory
LossyStore        <--implements-- MemoryCache         QueryHistory
     ^--uses-- ClientQuery                            Connectors
PlanExecutor      ClientRuns      NL2SQLEngine
```

Beside each component's module `M` stand `MCM`, which instantiates it for TLC
with its `.cfg` files, and `MProofs` with its theorems; those about
`ConversationMemory` and `QueryHistory`, what the server keeps of a session, share
`SessionProofs`.

Definitions whose comment begins with `Fault:` stand right before the
definition they distort. No specification uses them: each shows, when put in the
place of the definition, that one property would notice that bug.

### ConnectorRegistry, ConnectorPool

`ConnectorPool` is `_get_connector` and everything that touches the same tables.
A call is an asyncio task; the connector it may build bears its name. `sources`,
`pool`, `holder`/`waiters` are `_data_sources`, `_connectors` and
`_connector_locks`; `pc` says where a call is suspended; `conn` is the life of
the connector it built.

One action is the code between two suspensions. `_init_lock` protects a block
without an `await`, so no task ever waits for it and it is folded into the
actions around it; the lock of the source is an `asyncio.Lock`, with its FIFO
queue and its hand-over to the first waiter. `connect()` and `disconnect()` may
suspend, succeed, fail or be cancelled; a `CancelledError` is no `Exception`, so
the clean-up does not run for it (`CancelCritical`). `close()` suspends at each
`disconnect()`; its iterator counts the entries (`size`, `visited`) and raises
`RuntimeError` as CPython's does when the table has another size than at the
start or yields one entry more (`CloseRaises`). It goes by position: `place` is the
position of each entry, `at` the one the iterator has got to. A removed entry leaves a
gap; an insertion that finds no room closes the gaps (`Insert`), and when that moves an
entry behind `at` the iterator never sees it, ends normally if the size is what it was,
and `close()` clears the table with that connector open (`rebuilt`, `passed`). When
there is room is CPython's business, so any insertion into a table with gaps may rebuild
it. `close()` may be called again.

`ConnectorRegistry` is the promise: a source's slot goes from empty to a
connector only by way of the one maker at work on it, a maker may give up, a
pinned connector may be dropped, and no connector is used twice.

### LossyStore, MemoryCache

`LossyStore` says what a user of `BaseCache` may rely on: a hit is the value that
was last put under the key and has not outlived its ttl; anything may be lost at
any time. `MemoryCache` is the code: lazy expiry in `get` and `exists`, eviction in
`set` of expired entries first, then of the oldest by creation time: a `get` does not move
an entry. Entries
created at the same instant leave in the order of the dictionary; the model
leaves that order open. Time is a bounded counter that only goes forward.

### ClientQuery

`query()` over the cache, the connector table and the SQL connector. The cache is
any `LossyStore` (so whatever is shown here holds over `MemoryCache`, which
implements it); the table answers at once, later, with an error, or never.
`job` is the worker thread: queued, between `execute` and `commit`, done, or
dropped before it began. A timeout or a cancellation leaves a running thread
alone (`Abandon`). `open` is the transaction on the connector's only
connection: every `commit()` commits all of it, and nothing rolls it back when a
statement or a commit fails. `at` records when an answer was given; only
properties read it.

### PlanExecutor

`execute()` and `execute_sequential()` of several calls on one `TaskPlan`, through
one `PlanExecutor` and its semaphore. `status` and `retries` are the task's fields,
`stage` is what a call does with the tasks of its current batch (queued for the
semaphore or its turn, running), `results` the dictionary it will return.
`CancelTask`, `Unblock` and `Retry` are the calls of other tasks meanwhile. Waiting
0.1 s and looking again is stuttering. The order in which a semaphore lets its
waiters in is left open.

### ClientRuns

`execute_workflow()` with `WorkflowEngine.execute`, `agent_loop()` with
`LoopRunner.run`, `execute_task()` and `query()`, each an operation that code of
the user, called by another one, may start in it. `Parent` is that nesting, `Around[o]`
what `o` is nested in at any depth (the least set with `o` that `Parent` does not
leave); the operations without a parent are the asyncio tasks. That every
operation is nested in one of these (`NestingAssumption`) is how a call stack looks. `state`, `done` and
`index` are what an operation reports (status, history, step or iteration),
`executing` are the queries in `connector.execute()`, which is all that the timeout of a
query is put around (before, a query may hang in `connect()`),
`span` is its span, `context` and `token` the context variable of the tracer and
what `query()` resets it to. A timeout of a loop or a query and a cancellation of
a task end everything nested in them in one step (`CancelBelow`): asyncio throws
the `CancelledError` in at the innermost `await`, and nothing on its way out
awaits. `SkipRaises`, `LoopCheckFails` and the like are the exceptions from user
code at each place it is called from; `workflow` and `loop` finish their spans as
"ok" also when they failed, as the code does.

### NL2SQLEngine

`query()` of the engine by concurrent requests of the web API, cut at its awaits:
`resolving` (the LLM resolves a follow-up), `generating` and `retrying` (SQL is
asked for, and once more), `executing` (the connector under `wait_for`),
`answering` (the LLM words the result). The turn is stored before the result is built of it and
cached, so that a request may end with an error then and be remembered all the same
(`AnswerLost`). `key` is the cache key, which is built
before the first await of generation and used after the last one; `usage` are the
tokens a request takes from the engine's shared attributes (`last`). `schema`, `turns`, `cache`
and `audit` are `SchemaManager`, `ConversationMemory`, `QueryCache` and the files of
`SQLAuditor`, which are named by the second and the first eight characters of the session
id (`Name`), so that requests of one session or of two replace each other's. Clearing a
session and loading the schema are actions too; direct SQL changes none of this state, and
nothing in the application calls `refresh()`. What a statement contains is the constant `Features`;
what the LLM answers, and whether the connector answers, is left open. The query
cache may lose any entry, which `MemoryCache` is shown to be allowed.

### ConversationMemory

Both memories are given the same calls: `deques` is the dictionary of bounded
deques, `rows` the `conversations` table. `RowNumber` is the
window function by which the table is trimmed, `InOrder` the sorting of a SELECT.
The reading methods are operators (`History`, `TableHistoryOf`, `Context`, `Listed`,
...) that the properties compare.
The clock may step back; `steady` records that it never has.

### QueryHistory

The history file of one session and the processes that load it (`copy`), change
it and write it in place (`Opens` empties the file, `Writes` fills it). A handler
has no `await`, so one process handles one request at a time; two processes, or a
crash, come in between. Saving a query makes the item with its time stamp (`MakeItem`)
before it loads the items to put it in front of (`SaveQuery`). Two writers may mix their texts; a file removed under its
writer is lost. `promised` is what the operations amount to when done one by one, `apart` says
that none has overlapped and no process crashed since the history was last cleared.
`Page` and `Search` show the items at some places of the file, in its order (`At`).

### Connectors

What each of the eight connectors makes of a `Query`: which documents its
translation of the filters keeps (`WhereKeeps`, `VectorKeeps`, `QdrantKeeps`, ...),
which operators it refuses or drops, and what INSERT, UPDATE and DELETE do to
the documents it holds. An answer is any set that the limit lets through: the one asked
for, or without one that of a similarity search (10) or a listing (100) in the vector
stores, here `SearchLimit` and `ListLimit`. A behaviour is that of one connector of any kind. The servers
behind them are modelled by the documented meaning of the conditions they are sent.

## Runs

| run | shows | instance |
|---|---|---|
| `connector_pool` | `SingleFlight`, `LocksReleased`, `NoHalfBuilt`, `ClosesThePinned` (but for entries passed over), refinement of the registry; `CallsReturn`, `CloseEnds` | 2 calls for one source, 1 for another |
| `memory_cache` | `SizeWithinLimit`, `OldestLeaveFirst`, refinement of `LossyStore` | 3 keys, 2 places, 2 values, ttl none/0/1, time to 3 |
| `client_query` | `CacheHoldsAnswers`, `CachedAnswersAreRecent`, `SuccessIsCommitted`; `TimedExecutionsEnd`, `RequestsEnd` | 2 INSERTs of one key, 1 SELECT; one of each with a timeout; ttl 1, time to 2 |
| `plan_executor` | `DependenciesFirst`, `InProgressIsRun` | a chain and a free task, one task unregistered, one retry; both kinds of call at once |
| `plan_executor_alone` | `StartedOnce`; `PendingOnlyBehindFailures`, `RunsEnd` | a diamond, one retry; one call, of either kind |
| `client_runs` | `TypeOK`, `TracesAreNested`, `SpansFinish`, `NothingOutlives`, `StopsAtFailure`, `IterationsCounted`; `TimedOpsEnd` | a workflow of 2 steps with 2 queries, one of which nests a third; a loop of 2 iterations around a task that queries; both tracers |
| `nl2sql_engine` | `CacheIsContextFree`, `RemembersAnswers`, `AuditedUnlessReplaced`, `ChargedOnce`; `QueriesEnd` | 3 requests, 2 of them in one session; 2 questions, 1 turn remembered, `readonly` off, session ids that begin alike |
| `conversation_memory` | `MemoryTypeOK`, `DropInReplacement`, `NewestIsKept` | 2 sessions, 2 turns each, ttl 1, 4 turns added, time to 3 |
| `query_history` | `StoredAsPromised`, `NewestFirst`, `ReadsAgree` | 2 processes, 2 items kept of 3 added |
| `connectors` | `SharedFiltersHold`, `DeletesWhatIsNamed` | 8 kinds, 2 documents of 2 fields, each 0, 1 or missing; no filter, one of every operator, and pairs; limits none, 1 and 2, and 1 as that of the stores |
| `client_query_inserts`, `nl2sql_cached` | the [findings](#findings) | the smallest instances that show them |

The types of `client_runs` and `conversation_memory` are checked as well as proved: they
hold the bounds on iterations and on turns. The other types are left to the proofs.

**Bounds.** Two calls for one source are a holder and a waiter that is handed the
lock, finds a connector or a failure, or is cancelled on the way; a second source
makes the iteration of `close()` have a next entry, and lets the table grow and
shrink under it. Longer queues are covered by the proofs. Connectors are not
reused, so a call is made once. In the cache, three keys in two places make
every insertion able to evict, and a ttl of 1 in a clock of 3 has entries fresh,
at their ttl and past it. Two INSERTs suffice for one transaction to be
committed by another statement and for one key to be answered with another
row's result; the SELECT reads what either left behind. In the chain a task is
listed before the one it depends on, so list order and dependency order differ;
the diamond has a join and, with two permits, a batch as large as the limit.
In `client_runs` a query nested in a query shows that the innermost and the
outermost trace id are told apart, and a timed query and a timed loop each have
something nested to cut. Two requests of one session make a follow-up, a
replaced audit file and a trimmed turn; the third, with a question of its own,
shares the cache with the first. In the memories, four turns in sessions of two overflow a
session beside another one, and a ttl of 1 in a clock of 3 puts turns on both sides of
each cutoff. Two items of three overflow a history, and two processes are
enough for a lost update and a mixed text. Two documents with missing fields
tell every treatment of a filter apart, a pair of filters a range from its bounds and a
condition that is kept from one that is dropped beside it, and a limit of 1 is reached
by two documents.

**Deadlock.** Instances with finitely many calls, requests or turns come to a
stop once these are used up: `CHECK_DEADLOCK FALSE` there. That nothing is
stuck before is what the liveness properties say.

**Fairness.** Every assumption is weak fairness of what the event loop resumes by
itself. In `ConnectorPool`: a task that was handed a lock goes on; `connect()` and
`disconnect()` end (the code sets no timeout, the drivers do); `close()` goes on. In
`ClientQuery`: a task whose thread is done is resumed, and timers fire; that the
database answers is not assumed but stated as the hypothesis `Responsive` of
`RequestsEnd`. In `PlanExecutor`: a call that can go on does, and the functions of
tasks return (under `asyncio.wait_for` for tasks with a timeout, by themselves
otherwise). In `ClientRuns`: timeouts fire (that of a query once the connector executes
it), and a loop that has used its iterations returns; the code of users need not return
at all, nor a `connect()`. In `NL2SQLEngine`: the LLM answers
or raises (its client limits every call), and `wait_for` fires; the connector need
do neither. Callers are never assumed to ask, cancel, retry or unblock.

## Proofs

For every value of the constants under the modules' named assumptions (types of
the parameters, finitely many sources, a finite plan, operations nested in
asyncio tasks, and model values distinct from data):

- **`ConnectorPoolProofs`**: `TypeCorrect`, `SingleFlightCorrect`, `LocksCorrect`,
  `NoHalfBuiltCorrect`, `NeverReplacedCorrect`, `PoolImplementsRegistry`,
  `ClosesThePinnedCorrect`. The properties are not inductive one by one. That a
  second task never builds rests
  on a building task holding the lock of its source, that on locks being handed
  only to the head of the queue, and that on queues holding only waiting calls,
  each once (`LocksReleased`). The inductive invariant joins these with the life
  of connectors: a building task holds the lock of a source without connector
  (`CriticalInv`), a connector is unbuilt until its call builds it (`UnbuiltInv`),
  and one in the table is the work of a call that left the critical section
  (`SharedInv`, `PinnedInv`). `close()` has one `disconnect()` under way, and what it
  visited before is closed (`VisitedInv`); what is pinned and not visited is in front of
  the iterator, unless the table was rebuilt and put it behind.
- **`MemoryCacheProofs`**: `TypeCorrect`, `SizeCorrect`, `CacheImplementsBase`,
  `EvictionCorrect`. Eviction is a statement about cardinalities: expired entries go,
  then as many of the oldest as make room for one; the lemma on what `Evict` leaves
  carries the size bound and the refinement (an eviction is a loss). A live entry
  goes only in the second round, which begins only when live entries alone fill the
  cache (`SetDrops`).
- **`ClientQueryProofs`**: `TypeCorrect`, `CacheCorrect`, `RecentCorrect`,
  `SuccessCorrect`. The invariant adds what each thread has made (`MadeInv`: its own
  result, committed if it is an INSERT's), that only the
  answered have an answer, given in the past (`AnsweredInv`), and that an entry was
  created when the answer it holds was given (`CacheInv`).
- **`PlanExecutorProofs`**: `TypeCorrect`, `DependenciesCorrect`, `InProgressCorrect`, and
  for a lone call (`MaxCalls = 1`) `StartedOnceCorrect` and `PendingCorrect`.
  A task in a batch may be started long after it was found ready, when its
  dependencies may have been cancelled or sent back to pending: `OrderInv`
  says that the dependencies of a queued task have at some time completed, which
  nothing undoes, and that a completed task is among those that have.
  With one call (`Lone`), whatever is cancelled, retried or unblocked beside it, a task
  that has completed is never taken up again, and one that waits to be started has had
  a retry for every start so far (`OnceInv`). With several calls this fails: two
  batches may share a task. That what stays pending is behind a failure is an
  argument about graphs: of the pending tasks behind a task take one with a least
  `Behind` (`FirstOf`); it depends on none of them, so if nothing it depends
  on failed it is ready, and the call does not end. Well-foundedness comes from the strict
  order of finite sets, not from an induction.
- **`NL2SQLEngineProofs`**: `TypeCorrect`, `CacheIsContextFreeCorrect`, `ChargedOnceCorrect`, `RemembersAnswersCorrect`,
  `AuditedCorrect`. A cached
  result is right only if the key a request carries through its awaits is still
  about its own question or has a conversation in it (`Keyed`). Tokens are charged
  once because the last LLM answer always belongs to a request that has begun, and
  to its wording only when it is past it (`Spent`). A conversation holds each
  turn once because a request that may still add one has added none. A statement
  is on file before its answer is worded, because a request with an entry on file has
  run its statement and is being answered or has ended (`Filed`), and stays there until
  a request whose session id begins alike writes its own.
- **`ConnectorsProofs`**: `TypeCorrect`, `SharedFiltersCorrect`, `DeletesCorrect`,
  `UpdatesCorrect`, for filter lists of any length and any limits. What a connector keeps
  (`Reading`) satisfies the shared filters, for none of the eight translations drops one,
  but for the bound that Pinecone's dictionary by field replaces
  (`ReadingKeepsShared`); with shared filters alone it is all that satisfies them
  (`ReadingIsSatisfying`). An answer is that or as much of it as a limit lets through
  (`Answered`), and a DELETE by filters removes that and nothing else (`DeleteRemoves`).
- **`SessionProofs`**, about `QueryHistory`: `TypeCorrect`, `NewestFirstCorrect`,
  `StoredCorrect`, `ReadsAgreeCorrect`. `HistoryInv` carries the order and the limit
  through the file, every process's copy and the promised history, with ids no greater
  than the number of items made: an item is put in front of items of its own process that
  were all made before it, whatever the other one has put there meanwhile. `Alone` says that, until operations overlap or one is cut short, at most one
  is under way and about to write what was promised. For the reading methods it must
  be known what `At` chooses: a rising enumeration of a set of places exists, each
  place going where as many places are not above it (`RisingExists`), and has them all
  (`AtPlaces`); the ids of `HistoryInv` then tell one item from another.
- **`SessionProofs`**, about `ConversationMemory`: `MemoryTypeCorrect`, `DropInCorrect`,
  `NewestIsKeptCorrect`. Turns are totally ordered by time and id, so a turn's
  `RowNumber` is its place in that order and only `max_turns` turns have
  a number up to `max_turns` (`NumberedAreFew`): the limit of the table. That the table
  stands in for the dictionary needs `SteadyInv`: with a steady clock each deque
  is in the order of ids and of times at once, and the rows of a session are an
  end of it, the last turn included (`Ends`). In an end of a deque, a turn's number is its
  place counted from the end (`NumberInDeque`), so trimming cuts where the deque drops
  (`TrimEnds`); expiry takes the early turns of the table, and the last one only when the
  dictionary drops the session (`CleanupEnds`). What the readers show is then a
  suffix of the deque (`TableIsEnd`).
- **`ClientRunsProofs`**: `TypeCorrect`, `NothingOutlivesCorrect`,
  `TracesAreNestedCorrect`, `SpansFinishCorrect`, `StopsAtFailureCorrect`,
  `IterationsCountedCorrect`. Every step either lets one running operation end,
  cancelling those below it, or lets it go on, or calls a new one. `Nested` adds to
  `NothingOutlives` that the operations running in one task are nested in one another,
  which is what makes "the innermost query" of a task unique. `TracesInv` says that
  the active trace of a task is that of its innermost running query, and what a query will
  reset it to that of the query around it: a timeout that ends several queries at
  once thus resets the trace to what was active before the outermost of them.
  `SpansInv` adds that what runs or has not begun has an open span, `StopsInv`
  that a workflow at its step has no failure behind it, `CountsInv` that a
  loop still running has only completed iterations in its history.

Proved and not model-checked, since the proof says more: the `TypeOK`s of all but
`ClientRuns` and `ConversationMemory`, `NeverReplaced`, `UpdatesWhatIsNamed`.

Checked by TLC only: the liveness properties (`CallsReturn`, `CloseEnds`,
`TimedExecutionsEnd`, `RequestsEnd`, `RunsEnd`, `TimedOpsEnd`, `QueriesEnd`), which are
out of the prover's reach. Every safety property and action property of the runs, and both
refinements, are theorems.

## Findings

1. `client_query_inserts`: the cache key leaves out the row of an INSERT and its
   result is cached, so a second INSERT within the ttl is never executed
   (`client.py:165`).
2. `nl2sql_cached`: a hit in the NL2SQL query cache is returned through a
   constructor that is given `session_id` twice; it raises, and the question is
   answered with an error until the entry expires (`nl2sql/engine.py:152`).

## Known differences

What the models and the reading of the code show beside the findings. Where a document
or a comment says otherwise it is quoted; most of the time none speaks of it. Properties
are stated so as to be true of the code; these are what they leave out.

- **Connector table.** A `close()` whose iteration is disturbed raises
  `RuntimeError` and leaves connectors it has disconnected in the table
  (`client.py:381`). `remove_data_source` drops a connector without
  disconnecting it, so that no `close()` finds it (`client.py:101`). When one is removed and
  another pinned while `close()` awaits a `disconnect()`, the table may be rebuilt under the
  iterator, which then passes an entry over: `close()` ("Close all connections.",
  `client.py:380`) returns normally and drops that connector open. A source that is removed
  while its connector connects is pinned afterwards, and served (`client.py:154`).
- **Query path.** The row of an INSERT reported as failed at its commit is
  committed by the next statement on the connection (`sql.py:182`). "Query timeout in
  seconds" (`client.py:200`) is that of `connector.execute()`: the connector is looked for,
  and connected, outside of it (`client.py:249`), so a `connect()` that hangs keeps a query
  with a timeout for ever.
- **Cache.** With `max_size` 0 it holds one entry (`cache/memory.py:89`). The query cache of
  NL2SQL is said to have "LRU eviction" (`nl2sql/cache.py:5`); the `MemoryCache` in it gives
  up the entry that was set first, also when it has just been read.
- **Planning.** A cancelled `execute()` leaves its tasks in progress, and a later
  `execute()` of the plan polls for ever (`executor.py:120`). With `max_concurrent` 0
  it never yields to the event loop (`executor.py:127`). A task cancelled between the making of
  a batch and its start runs all the same.
- **Tracing.** `docs/SUPPORTED_FEATURES.md:33` says of OpenTelemetry that the trace id is
  passed on by contextvars. `OpenTelemetryTracer.start_span` does not look at the active
  trace (`opentelemetry.py:91-94`): every span has a trace of its own. `TracesAreNested`
  states both. The OpenTelemetry span of a failed query is never ended, for the
  error is put on the `TraceSpan` past the tracer (`client.py:281`); `finish_span`
  sets the status of workflows and loops that failed to "ok".
- **NL2SQL.** Audit files are named by the second and `session_id[:8]` (`audit.py:33`): two
  statements within a second, of one session or of two whose ids begin alike, leave one
  entry. A turn is remembered before the result is built (`engine.py:197`); if that fails the
  caller gets an error for a question that later ones are put in the context of. The generated statement is put into a `Query` from which
  `SQLConnector` and `PostgreSQLConnector` build `SELECT * FROM nl2sql`: it is never
  run there, and the error result is audited as a success (`nl2sql/engine.py:468`).
  Concurrent requests may be charged with each other's generation tokens (`engine.py:186`).
- **Conversation memory.** The table expires turns one by one, the dictionary
  whole sessions; when the clock steps back the table may trim the newest turn.
- **Query history.** `/history/{session_id}` is registered before the routes of
  saved queries and takes some of their paths (`routes.py:190`). The `total` of a
  listing is the length of the page. A file cut off within a JSON text is read as
  an empty history and overwritten; one cut off within a character raises at every
  operation. Two processes lose each other's updates, and their items may stand in
  another order than their time stamps, which are given before the file is loaded
  (`history.py:86-92`).
- **Connectors.** Of the operators that `models.py:71` lists, `ne`, `like` and `contains`
  depend on the connector. Qdrant puts `ne` among the conditions that must hold,
  under the comment "use must_not" (`qdrant.py:252-259`), so that a DELETE with it takes what
  it should spare; `like` and `contains` are dropped by Qdrant and Pinecone, refused by
  Chroma, and `contains` lets everything that has the field pass in memory and in files,
  and nothing from REST. Pinecone keeps one bound of a range (`pinecone.py:216`) and cannot
  upsert a single vector (`pinecone.py:144`). Without a limit the in-memory store and
  Pinecone answer with 10 documents (`vector.py:98`, `pinecone.py:83`), Chroma and Qdrant with
  100 (`chroma.py:200`, `qdrant.py:206`), the others with all. A SELECT is an error in the
  in-memory store, and the SEARCH of SQL ignores filters (`sql.py:130`): which query is put to
  a kind is part of the model. The SQL and PostgreSQL connectors ignore `metadata["ids"]`,
  so that a DELETE with ids and no filter empties the table.
- **REST.** `RESTAPIConnector` takes the body of an error status for data.

## Not modelled

- `health_check()`, whose iteration over the sources may raise as that of
  `close()` may, and the cancellation of `close()` itself.
- The hash of the cache keys is taken to be injective; what it leaves out is
  modelled by requests sharing a key.
- In `ClientQuery` every request uses one SQL source; UPDATE and DELETE, which
  commit as INSERT does, and disconnecting under a running statement are left
  out, as are natural-language queries.
- `sqlite3` is modelled from its use: a transaction per connection, opened by the
  first write. Errors are possible at any statement and commit; that SQLite rolls the
  whole transaction back at some of them (a full disk, an I/O error) is left out.
- `PlanExecutor` keeps the set of tasks fixed; `remove_task` during an execution
  is left out.
- `execute_parallel` of workflows and the dictionary that steps hand on: what
  they do is the code of users. The same goes for the orchestrator, which keeps a
  dictionary of agents and promises nothing about broadcasts during registrations.
- Wall clocks only go forward, but in `ConversationMemory`.
- In `Connectors`, text search, similarity and order (which documents a limit lets through
  is left open), offsets, and the errors of the services.
- The MCP server, the authentication and dispatch of the web API and the retries
  of the LLM client: they keep no state that steps of several actors share.
- Text work (SQL building and validation, prompts, formatting, charts, export,
  redaction), HTTP and drivers; `PROJECT.json` lists every component with its status.

## Plan

What would add most to the above, in this order:

1. `ConnectorPool` with `health_check()` and a `close()` that is cancelled.
2. `PlanExecutor` with `remove_task` and `add_task` under way.
3. The composition of `NL2SQLEngine` with `ConversationMemory` in place of its own
   `turns`, and with `MemoryCache` in place of the lossy cache.
4. `Orchestrator` and `execute_parallel`, once the repository says what they promise.
