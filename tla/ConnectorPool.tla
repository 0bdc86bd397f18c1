--------------------------- MODULE ConnectorPool ---------------------------
(***************************************************************************)
(* The lazily filled connector table of AgentDataClient                    *)
(* (agent_data/core/client.py): concurrent _get_connector calls, source    *)
(* registration and removal, task cancellation and close().                *)
(*                                                                         *)
(* A call is one asyncio task that asks for the connector of Target[c] and *)
(* then runs its query on it.  The connector that call c may build is      *)
(* named c.  The event loop switches tasks only where the code really      *)
(* suspends, so one action is the code between two suspensions:  the       *)
(* body of the "async with self._init_lock" block has no await, hence that *)
(* lock is never contended and the block is part of the action around it.  *)
(***************************************************************************)
EXTENDS Naturals, Sequences, FiniteSets
LOCAL INSTANCE SequencesExt

CONSTANTS
  Calls,     \* the tasks that call _get_connector
  Sources,   \* the data source names
  Target,    \* Target[c]: the source call c asks for
  NoConn     \* no call, no connector

ASSUME TargetAssumption == Target \in [Calls -> Sources]
ASSUME NoConnAssumption == NoConn \notin Calls
ASSUME SourcesAssumption == IsFiniteSet(Sources)

VARIABLES
  sources,   \* _data_sources: "absent", "typed", or a type nobody registered
  pool,      \* _connectors: the connector pinned for a source
  holder,    \* _connector_locks[s]: the task that holds it ...
  waiters,   \* ... and the tasks queued on it, in FIFO order
  pc,        \* where each call stands
  conn,      \* the life of the connector built by each call
  served,    \* the connector a call got back
  place,     \* where a source stands among the entries of the table, 0: nowhere; ...
  used,      \* ... the table has used this many, the gaps of removed ones included
  closing,   \* close(): "idle", "running", "returned" or "raised"
  visited,   \* the connectors close() has gone through, ...
  size,      \* ... how many the table had when its iteration began, ...
  at,        \* ... the place it has got to, ...
  rebuilt,   \* ... whether the entries have moved since, ...
  passed     \* ... and the sources put behind that place (two histories)

vars == <<sources, pool, holder, waiters, pc, conn, served, place, used,
          closing, visited, size, at, rebuilt, passed>>
locks == <<holder, waiters>>
entries == <<place, used>>
closer == <<closing, visited, size, at, rebuilt, passed>>

Suspended == {"waiting", "connecting", "cleaning"}
Critical(c) == pc[c] \in {"connecting", "cleaning"}
Entries == {s \in Sources : pool[s] # NoConn}
Pooled == {pool[s] : s \in Entries}

TypeOK ==
  /\ sources \in [Sources -> {"absent", "typed", "untyped"}]
  /\ pool \in [Sources -> Calls \cup {NoConn}]
  /\ holder \in [Sources -> Calls \cup {NoConn}]
  /\ waiters \in [Sources -> Seq(Calls)]
  /\ pc \in [Calls -> Suspended \cup {"start", "using", "done", "failed"}]
  /\ conn \in [Calls -> {"unbuilt", "connecting", "open", "closing", "closed", "lost"}]
  /\ served \in [Calls -> Calls \cup {NoConn}]
  /\ place \in [Sources -> Nat]
  /\ used \in Nat
  /\ closing \in {"idle", "running", "returned", "raised"}
  /\ visited \in SUBSET Calls
  /\ size \in Nat
  /\ at \in Nat
  /\ rebuilt \in BOOLEAN
  /\ passed \in SUBSET Sources

Init ==
  /\ sources \in [Sources -> {"absent", "typed", "untyped"}]
  /\ pool = [s \in Sources |-> NoConn]
  /\ holder = [s \in Sources |-> NoConn]
  /\ waiters = [s \in Sources |-> <<>>]
  /\ pc = [c \in Calls |-> "start"]
  /\ conn = [c \in Calls |-> "unbuilt"]
  /\ served = [c \in Calls |-> NoConn]
  /\ place = [s \in Sources |-> 0]
  /\ used = 0
  /\ closing = "idle"
  /\ visited = {}
  /\ size = 0
  /\ at = 0
  /\ rebuilt = FALSE
  /\ passed = {}

-----------------------------------------------------------------------------
(* _get_connector.                                                         *)

(***************************************************************************)
(* A new entry of the dict _connectors goes behind the last one used.  The *)
(* insertion that finds no room rebuilds the dict first, which closes the  *)
(* gaps that removed entries have left.  When there is room is CPython's   *)
(* business, so any insertion into a dict with gaps may rebuild it.        *)
(***************************************************************************)
UpTo(s) == {t \in Entries : place[t] <= place[s]}

Insert(c) ==
  /\ pool' = [pool EXCEPT ![Target[c]] = c]
  /\ \/ /\ place' = [place EXCEPT ![Target[c]] = used + 1]
        /\ used' = used + 1
        /\ UNCHANGED rebuilt
     \/ /\ used > Cardinality(Entries)
        /\ place' = [s \in Sources |->
             IF s = Target[c] THEN Cardinality(Entries) + 1
             ELSE IF s \in Entries THEN Cardinality(UpTo(s))
             ELSE 0]
        /\ used' = Cardinality(Entries) + 1
        /\ rebuilt' = (closing = "running" \/ rebuilt)
  /\ passed' = {s \in Entries' : place'[s] <= at /\ pool'[s] \notin visited}

Serve(c) == /\ pc' = [pc EXCEPT ![c] = "using"]
            /\ served' = [served EXCEPT ![c] = pool[Target[c]]]

\* Lines 114-119: the table already has a connector.
Hit(c) ==
  /\ pc[c] = "start" /\ pool[Target[c]] # NoConn
  /\ Serve(c)
  /\ UNCHANGED <<sources, pool, locks, conn, entries, closer>>

\* Lines 120-121: nobody registered the source.
NotFound(c) ==
  /\ pc[c] = "start" /\ pool[Target[c]] = NoConn
  /\ sources[Target[c]] = "absent"
  /\ pc' = [pc EXCEPT ![c] = "failed"]
  /\ UNCHANGED <<sources, pool, locks, conn, served, entries, closer>>

Missing(c) == /\ pc[c] = "start" /\ pool[Target[c]] = NoConn
              /\ sources[Target[c]] # "absent"

\* Line 126, contended: asyncio.Lock queues its waiters in FIFO order.
Wait(c) ==
  /\ Missing(c) /\ holder[Target[c]] # NoConn
  /\ waiters' = [waiters EXCEPT ![Target[c]] = Append(@, c)]
  /\ pc' = [pc EXCEPT ![c] = "waiting"]
  /\ UNCHANGED <<sources, pool, holder, conn, served, entries, closer>>

\* Fault: every call makes a lock of its own.
LockedAlone(c) == Missing(c) \/ (pc[c] = "waiting" /\ holder[Target[c]] = c)

\* Line 126 returns: the lock was free, or was handed to the waiter c.
Locked(c) == \/ Missing(c) /\ holder[Target[c]] = NoConn
             \/ pc[c] = "waiting" /\ holder[Target[c]] = c

\* Leaving the "async with source_lock" block, on whatever path.  A released
\* lock with waiters can only be taken by the first of them.
Release(s) ==
  IF waiters[s] = <<>>
    THEN holder' = [holder EXCEPT ![s] = NoConn] /\ UNCHANGED waiters
    ELSE /\ holder' = [holder EXCEPT ![s] = Head(waiters[s])]
         /\ waiters' = [waiters EXCEPT ![s] = Tail(@)]

\* Lines 127-129: another task connected while c waited.
LockedHit(c) ==
  /\ Locked(c) /\ pool[Target[c]] # NoConn
  /\ Serve(c)
  /\ Release(Target[c])
  /\ UNCHANGED <<sources, pool, conn, entries, closer>>

\* Lines 131-141: the source has gone, or no connector class has its type.
LockedMiss(c) ==
  /\ Locked(c) /\ pool[Target[c]] = NoConn
  /\ sources[Target[c]] # "typed"
  /\ pc' = [pc EXCEPT ![c] = "failed"]
  /\ Release(Target[c])
  /\ UNCHANGED <<sources, pool, conn, served, entries, closer>>

\* Fault: the connector enters the table before it is connected.
BuildPinned(c) ==
  /\ Locked(c) /\ pool[Target[c]] = NoConn
  /\ sources[Target[c]] = "typed"
  /\ Insert(c)
  /\ holder' = [holder EXCEPT ![Target[c]] = c]
  /\ conn' = [conn EXCEPT ![c] = "connecting"]
  /\ pc' = [pc EXCEPT ![c] = "connecting"]
  /\ UNCHANGED <<sources, waiters, served, closing, visited, size, at>>

\* Lines 143-145: build the connector and suspend in its connect().
Build(c) ==
  /\ Locked(c) /\ pool[Target[c]] = NoConn
  /\ sources[Target[c]] = "typed"
  /\ holder' = [holder EXCEPT ![Target[c]] = c]
  /\ conn' = [conn EXCEPT ![c] = "connecting"]
  /\ pc' = [pc EXCEPT ![c] = "connecting"]
  /\ UNCHANGED <<sources, pool, waiters, served, entries, closer>>

\* Lines 154-155: connect() succeeded.
Connected(c) ==
  /\ pc[c] = "connecting"
  /\ conn' = [conn EXCEPT ![c] = "open"]
  /\ Insert(c)
  /\ pc' = [pc EXCEPT ![c] = "using"]
  /\ served' = [served EXCEPT ![c] = c]
  /\ Release(Target[c])
  /\ UNCHANGED <<sources, closing, visited, size, at>>

\* Fault: a failed connector enters the table all the same.
ConnectFailsPinned(c) ==
  /\ pc[c] = "connecting"
  /\ conn' = [conn EXCEPT ![c] = "closing"]
  /\ Insert(c)
  /\ pc' = [pc EXCEPT ![c] = "cleaning"]
  /\ UNCHANGED <<sources, locks, served, closing, visited, size, at>>

\* Lines 146-150: connect() raised; suspend in disconnect().
ConnectFails(c) ==
  /\ pc[c] = "connecting"
  /\ conn' = [conn EXCEPT ![c] = "closing"]
  /\ pc' = [pc EXCEPT ![c] = "cleaning"]
  /\ UNCHANGED <<sources, pool, locks, served, entries, closer>>

\* Fault: the error path forgets the lock.
CleanedHolding(c) ==
  /\ pc[c] = "cleaning"
  /\ conn' = [conn EXCEPT ![c] = "closed"]
  /\ pc' = [pc EXCEPT ![c] = "failed"]
  /\ UNCHANGED <<sources, pool, locks, served, entries, closer>>

\* Lines 151-153: the clean-up ended, well or not; the error goes to the caller.
Cleaned(c) ==
  /\ pc[c] = "cleaning"
  /\ conn' = [conn EXCEPT ![c] = "closed"]
  /\ pc' = [pc EXCEPT ![c] = "failed"]
  /\ Release(Target[c])
  /\ UNCHANGED <<sources, pool, served, entries, closer>>

\* The task is cancelled while it waits for the lock: it leaves the queue, or
\* passes on the lock it was about to take.
CancelWaiting(c) ==
  /\ pc[c] = "waiting"
  /\ pc' = [pc EXCEPT ![c] = "failed"]
  /\ IF holder[Target[c]] = c
       THEN Release(Target[c])
       ELSE \E i \in 1..Len(waiters[Target[c]]) :
              /\ waiters[Target[c]][i] = c
              /\ waiters' = [waiters EXCEPT ![Target[c]] = RemoveAt(@, i)]
              /\ UNCHANGED holder
  /\ UNCHANGED <<sources, pool, conn, served, entries, closer>>

\* Fault: a cancellation forgets the lock.
CancelHolding(c) ==
  /\ Critical(c)
  /\ conn' = [conn EXCEPT ![c] = "lost"]
  /\ pc' = [pc EXCEPT ![c] = "failed"]
  /\ UNCHANGED <<sources, pool, locks, served, entries, closer>>

\* The task is cancelled in connect() or disconnect(): CancelledError is not
\* an Exception, so neither handler runs and the connector is dropped as it is.
CancelCritical(c) ==
  /\ Critical(c)
  /\ conn' = [conn EXCEPT ![c] = "lost"]
  /\ pc' = [pc EXCEPT ![c] = "failed"]
  /\ Release(Target[c])
  /\ UNCHANGED <<sources, pool, served, entries, closer>>

\* The query that used the connector ends (or is cancelled).
Finish(c) ==
  /\ pc[c] = "using"
  /\ pc' = [pc EXCEPT ![c] = "done"]
  /\ UNCHANGED <<sources, pool, locks, conn, served, entries, closer>>

-----------------------------------------------------------------------------
(* add_data_source, remove_data_source and close.                          *)

AddDataSource(s, type) ==
  /\ sources' = [sources EXCEPT ![s] = type]
  /\ UNCHANGED <<pool, locks, pc, conn, served, entries, closer>>

\* Lines 98-101: the connector is dropped, not disconnected.
RemoveDataSource(s) ==
  /\ sources' = [sources EXCEPT ![s] = "absent"]
  /\ pool' = [pool EXCEPT ![s] = NoConn]
  /\ place' = [place EXCEPT ![s] = 0]
  /\ UNCHANGED <<used, locks, pc, conn, served, closer>>

\* The entries the iterator of close() has not come to.
Ahead == {s \in Entries : place[s] > at}

\* Fault: the first connector of the table is taken each time, and stays there.
VisitFirst(k, after) ==
  /\ k \in Pooled /\ k = CHOOSE j \in Pooled : TRUE
  /\ conn' = [after EXCEPT ![k] = "closing"]
  /\ visited' = visited \cup {k}
  /\ closing' = "running"
  /\ UNCHANGED <<pool, entries, at, rebuilt, passed>>

\* Line 381 asks the iterator for its next entry, which is the first one behind
\* its place, wherever the others have moved; line 383 suspends in that
\* connector's disconnect().  after is the table of states before the visit.
Visit(k, after) ==
  /\ \E s \in Ahead : /\ k = pool[s] /\ at' = place[s]
                     /\ \A t \in Ahead : place[s] <= place[t]
  /\ conn' = [after EXCEPT ![k] = "closing"]
  /\ visited' = visited \cup {k}
  /\ closing' = "running"
  /\ UNCHANGED <<pool, entries, rebuilt, passed>>

Leave(outcome) ==
  /\ closing' = outcome /\ visited' = {} /\ size' = 0
  /\ at' = 0 /\ rebuilt' = FALSE /\ passed' = {}

\* Line 386, when the iteration is over.
Clear ==
  /\ pool' = [s \in Sources |-> NoConn]
  /\ place' = [s \in Sources |-> 0] /\ used' = 0
  /\ Leave("returned")

CloseEmpty ==
  /\ closing # "running" /\ Pooled = {}
  /\ Clear
  /\ UNCHANGED <<sources, locks, pc, conn, served>>

CloseBegins ==
  /\ closing # "running"
  /\ \E k \in Calls : Visit(k, conn)
  /\ size' = Cardinality(Entries)
  /\ UNCHANGED <<sources, locks, pc, served>>

\* The disconnect() of k, the connector close() is at, ends, well or not.
Disconnecting(k) == closing = "running" /\ k \in visited /\ conn[k] = "closing"
Shut(k) == [conn EXCEPT ![k] = "closed"]

CloseContinues(k) ==
  /\ Disconnecting(k) /\ Cardinality(Entries) = size /\ Cardinality(visited) < size
  /\ \E j \in Calls : Visit(j, Shut(k))
  /\ UNCHANGED <<sources, locks, pc, served, size>>

\* Fault: the connectors are counted, not gone through to the end.
CloseReturnsCounted(k) ==
  /\ Disconnecting(k) /\ Cardinality(visited) = size
  /\ conn' = Shut(k)
  /\ Clear
  /\ UNCHANGED <<sources, locks, pc, served>>

\* The iterator has come to the end of the entries.  It goes by place: a rebuild
\* may have moved an entry it had not come to behind its place.
CloseReturns(k) ==
  /\ Disconnecting(k) /\ Cardinality(Entries) = size /\ Ahead = {}
  /\ conn' = Shut(k)
  /\ Clear
  /\ UNCHANGED <<sources, locks, pc, served>>

\* The iterator of line 381 raises RuntimeError when the number of entries has
\* changed since it was made, or when it finds one more than there were then;
\* line 386 is never reached.
CloseRaises(k) ==
  /\ Disconnecting(k)
  /\ \/ Cardinality(Entries) # size
     \/ Cardinality(visited) = size /\ Ahead # {}
  /\ conn' = Shut(k)
  /\ Leave("raised")
  /\ UNCHANGED <<sources, pool, entries, locks, pc, served>>

-----------------------------------------------------------------------------

LeavesLock(c) == LockedHit(c) \/ LockedMiss(c) \/ Build(c)
CloseResumes == \E k \in Calls : CloseContinues(k) \/ CloseReturns(k) \/ CloseRaises(k)

Next ==
  \/ \E c \in Calls :
       \/ Hit(c) \/ NotFound(c) \/ Wait(c)
       \/ LeavesLock(c)
       \/ Connected(c) \/ ConnectFails(c) \/ Cleaned(c)
       \/ CancelWaiting(c) \/ CancelCritical(c)
       \/ Finish(c)
  \/ \E s \in Sources :
       \/ \E type \in {"typed", "untyped"} : AddDataSource(s, type)
       \/ RemoveDataSource(s)
  \/ CloseEmpty \/ CloseBegins \/ CloseResumes

Safety == Init /\ [][Next]_vars

\* The event loop runs every task that can go on, and connect() and
\* disconnect() end (drivers time out); callers may stop asking.
Fairness ==
  /\ \A c \in Calls : /\ WF_vars(pc[c] = "waiting" /\ LeavesLock(c))
                      /\ WF_vars(Connected(c) \/ ConnectFails(c))
                      /\ WF_vars(Cleaned(c))
  /\ WF_vars(CloseResumes)

Spec == Safety /\ Fairness

-----------------------------------------------------------------------------
(* Properties.                                                             *)

\* At most one task at a time builds the connector of a source, and none
\* builds one while the source has a connector.
SingleFlight ==
  \A c, d \in Calls :
    Critical(c) => /\ pool[Target[c]] = NoConn
                   /\ Critical(d) /\ Target[d] = Target[c] => c = d

\* A source lock is held, and queued for, only by tasks that are suspended
\* inside _get_connector for that source: no path out of it keeps the lock,
\* a task is queued once, and a free lock has nobody waiting for it.
LocksReleased ==
  \A s \in Sources :
    /\ holder[s] # NoConn => pc[holder[s]] \in Suspended /\ Target[holder[s]] = s
    /\ holder[s] = NoConn => waiters[s] = <<>>
    /\ \A i \in 1..Len(waiters[s]) :
         /\ pc[waiters[s][i]] = "waiting" /\ Target[waiters[s][i]] = s
         /\ waiters[s][i] # holder[s]
         /\ \A j \in 1..Len(waiters[s]) : waiters[s][j] = waiters[s][i] => j = i

\* No connector whose connect() did not succeed is ever pinned or handed out,
\* and a pinned one that close() has shut is seen only around a close().
NoHalfBuilt ==
  /\ \A k \in Pooled : conn[k] = "open" \/ closing \in {"running", "raised"}
  /\ \A k \in (Pooled \cup {served[c] : c \in Calls}) \ {NoConn} :
       conn[k] \in {"open", "closing", "closed"}

\* A pinned connector is dropped, never replaced by another: the assignment
\* after connect() cannot overwrite what another task stored meanwhile.
NeverReplaced ==
  [][\A s \in Sources : pool[s] # NoConn => pool'[s] \in {pool[s], NoConn}]_vars

\* Every task queued for a source lock, or building, gets out of it.
CallsReturn == \A c \in Calls : pc[c] \in Suspended ~> pc[c] \notin Suspended

\* close() ends, with its table cleared or with an exception.
CloseEnds == closing = "running" ~> closing # "running"

\* close() that returns has disconnected every connector pinned at that moment,
\* whatever was pinned and removed while it went through them.  The exception:
\* when a call made CPython rebuild the table after a removal, the iterator,
\* which goes by place, does not see what was put behind its place, and line 386
\* drops that connector open.
ClosesThePinned ==
  [][closing = "running" /\ closing' = "returned"
       => \A s \in Entries : conn'[pool[s]] = "closed" \/ (rebuilt /\ s \in passed)]_vars

\* What an AgentDataClient promises about its connectors (ConnectorRegistry).
Registry == INSTANCE ConnectorRegistry WITH
  Conns <- Calls,
  slot  <- pool,
  maker <- [s \in Sources |->
              IF holder[s] \in Calls /\ Critical(holder[s]) THEN holder[s] ELSE NoConn],
  spent <- {c \in Calls : conn[c] # "unbuilt"}

ImplementsRegistry == Registry!Spec

=============================================================================
