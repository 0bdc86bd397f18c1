------------------------- MODULE ConversationMemory -------------------------
(***************************************************************************)
(* The two conversation memories of agent_data/nl2sql/memory.py given the  *)
(* same calls: ConversationMemory, a dictionary of deques, and             *)
(* SQLiteConversationMemory, its "drop-in replacement".  A turn carries    *)
(* the wall clock of its making, which may step back.                      *)
(***************************************************************************)
EXTENDS Integers, SequencesExt

CONSTANTS
  Sessions,
  MaxTurns,     \* max_turns
  TTL,          \* ttl_seconds
  Recent,       \* recent_turns of get_context_string
  MaxTime,      \* bound on the clock
  MaxIds        \* bound on the turns ever added

ASSUME MemoryAssumption ==
  MaxTurns \in Nat \ {0} /\ TTL \in Nat /\ Recent \in Nat \ {0} /\ MaxTime \in Nat /\ MaxIds \in Nat

VARIABLES
  deques,    \* _sessions: the turns of each session, oldest first
  rows,      \* the conversations table, as <<session, turn>>
  last_id,   \* the AUTOINCREMENT id: how many turns were added
  now,       \* time.time()
  steady     \* history: the clock has never stepped back

memory == <<deques, rows, last_id, now, steady>>

\* The turns that rows hold of a session.
TurnsOf(s, all) == {row[2] : row \in {x \in all : x[1] = s}}
OfSession(s) == TurnsOf(s, rows)

Turns == [id : 1..MaxIds, time : 0..MaxTime]

MemoryTypeOK ==
  /\ deques \in [Sessions -> Seq(Turns)] /\ \A s \in Sessions : Len(deques[s]) <= MaxTurns
  /\ rows \subseteq Sessions \X Turns /\ \A s \in Sessions : Cardinality(OfSession(s)) <= MaxTurns
  /\ last_id \in 0..MaxIds
  /\ now \in 0..MaxTime
  /\ steady \in BOOLEAN

MemoryInit ==
  /\ deques = [s \in Sessions |-> <<>>]
  /\ rows = {}
  /\ last_id = 0
  /\ now = 0
  /\ steady = TRUE

-----------------------------------------------------------------------------
(* Adding, clearing and cleaning up.                                       *)

\* Fault: among equal time stamps the first row is taken for the newest.
NewerFirst(t, u) == t.time > u.time \/ (t.time = u.time /\ t.id < u.id)

\* ORDER BY timestamp DESC over the index (session_id, timestamp, id).
Newer(t, u) == t.time > u.time \/ (t.time = u.time /\ t.id > u.id)

\* ROW_NUMBER() OVER (ORDER BY timestamp DESC)
RowNumber(t, turns) == Cardinality({u \in turns : Newer(u, t)}) + 1

\* Fault: one turn too many is kept.
TrimmedOneMore(s, all) ==
  {row \in all : row[1] = s => RowNumber(row[2], TurnsOf(s, all)) <= MaxTurns + 1}

\* Fault: the rows are numbered from the oldest.
TrimmedNewest(s, all) ==
  {row \in all : row[1] = s => Cardinality({u \in TurnsOf(s, all) : Newer(row[2], u)}) < MaxTurns}

\* The DELETE of add_turn: rows of the session with a number above max_turns.
Trimmed(s, all) ==
  {row \in all : row[1] = s => RowNumber(row[2], TurnsOf(s, all)) <= MaxTurns}

\* deque(maxlen=max_turns).append
Appended(s, turn) ==
  LET all == Append(deques[s], turn)
  IN SubSeq(all, IF Len(all) > MaxTurns THEN 2 ELSE 1, Len(all))

AddTurn(s) ==
  LET turn == [id |-> last_id + 1, time |-> now]
  IN /\ last_id < MaxIds
     /\ last_id' = last_id + 1
     /\ deques' = [deques EXCEPT ![s] = Appended(s, turn)]
     /\ rows' = Trimmed(s, rows \cup {<<s, turn>>})
     /\ UNCHANGED <<now, steady>>

ClearSession(s) ==
  /\ deques' = [deques EXCEPT ![s] = <<>>]
  /\ rows' = {row \in rows : row[1] # s}
  /\ UNCHANGED <<last_id, now, steady>>

\* The dictionary drops a whole session, once its last turn is too old ...
Expired(s) == deques[s] # <<>> /\ now - Last(deques[s]).time > TTL

\* ... and the table drops the turns that are too old, one by one.
UnexpiredRows == {row \in rows : row[2].time >= now - TTL}

CleanupExpired ==
  /\ deques' = [s \in Sessions |-> IF Expired(s) THEN <<>> ELSE deques[s]]
  /\ rows' = UnexpiredRows
  /\ UNCHANGED <<last_id, now, steady>>

Tick ==
  /\ now < MaxTime
  /\ now' = now + 1
  /\ UNCHANGED <<deques, rows, last_id, steady>>

ClockStepsBack ==
  /\ now > 0
  /\ now' = now - 1
  /\ steady' = FALSE
  /\ UNCHANGED <<deques, rows, last_id>>

MemoryNext ==
  \/ \E s \in Sessions : AddTurn(s) \/ ClearSession(s)
  \/ CleanupExpired \/ Tick \/ ClockStepsBack

MemorySpec == MemoryInit /\ [][MemoryNext]_memory

-----------------------------------------------------------------------------
(* Reading: the same questions put to both.                                *)

Newest(h, n) == SubSeq(h, IF Len(h) > n THEN Len(h) - n + 1 ELSE 1, Len(h))

\* get_history(session) of the dictionary, and with n: history[-n:], where
\* -0 takes all of it.
History(s) == deques[s]
HistoryOf(s, n) == IF n = 0 THEN History(s) ELSE Newest(History(s), n)

\* Turns from the oldest to the newest.
InOrder(turns) ==
  LET n == Cardinality(turns)
  IN CHOOSE h \in [1..n -> turns] : \A i, j \in 1..n : i < j => Newer(h[j], h[i])

\* get_history of the table: LIMIT n or max_turns, read backwards.
TableHistoryOf(s, n) == Newest(InOrder(OfSession(s)), IF n = 0 THEN MaxTurns ELSE n)
TableHistory(s) == TableHistoryOf(s, 0)

\* get_context_string: the recent turns in full, of older ones their number.
Context(h) == [full |-> Newest(h, Recent), older |-> Len(h) - Len(Newest(h, Recent))]

\* list_sessions: each session with its last question and its turn count, the
\* table's last question being that of the highest id.
Listed == {<<s, Last(deques[s]).id, Len(deques[s])>> : s \in {x \in Sessions : deques[x] # <<>>}}
TableListed ==
  {<<s, CHOOSE i \in {t.id : t \in OfSession(s)} : \A t \in OfSession(s) : t.id <= i,
     Cardinality(OfSession(s))>> : s \in {row[1] : row \in rows}}

SessionCount == Cardinality({s \in Sessions : deques[s] # <<>>})
TableSessionCount == Cardinality({row[1] : row \in rows})

-----------------------------------------------------------------------------
(* Properties.                                                             *)

\* What the table remembers of a session is the end of what the dictionary
\* remembers, however many turns are asked for.
TableIsTail(s) == \A n \in 0..MaxTurns : IsSuffix(TableHistoryOf(s, n), HistoryOf(s, n))

\* Both show the LLM the same turns in full unless the table has lost some.
SameContext(s) ==
  Len(TableHistory(s)) >= Recent => Context(TableHistory(s)).full = Context(History(s)).full

\* Both list the same sessions, each with the same last question.
SameSessions ==
  /\ SessionCount = TableSessionCount
  /\ {<<x[1], x[2]>> : x \in Listed} = {<<x[1], x[2]>> : x \in TableListed}

\* As long as the clock is steady the table stands in for the dictionary,
\* whatever was cleaned up, trimmed or cleared in between (memory.py 135-136,
\* 227-234, 363-364).
DropInReplacement ==
  steady => SameSessions /\ \A s \in Sessions : TableIsTail(s) /\ SameContext(s)

\* With a steady clock the turn just added is the last one both remember: the
\* trimming never takes it (memory.py 225-237).
NewestIsKept ==
  [][\A s \in Sessions : AddTurn(s) /\ steady =>
       Last(TableHistory(s)').id = last_id' /\ Last(History(s)').id = last_id']_memory
=============================================================================
