---------------------------- MODULE NL2SQLEngine ----------------------------
(***************************************************************************)
(* Questions answered through SQL (agent_data/nl2sql/engine.py), asked by  *)
(* concurrent requests of the web API (agent_data/web/routes.py) of the    *)
(* one engine the application holds.  Requests share the conversation      *)
(* memory, the query cache, the schema text, the audit files and the two   *)
(* attributes that hold the token counts of the latest LLM answer.         *)
(*                                                                         *)
(* An LLM answer, the outcome of a statement and a timeout are steps of    *)
(* the environment.  The cache may lose an entry at any time, as the       *)
(* MemoryCache behind it may.                                              *)
(***************************************************************************)
EXTENDS Naturals, Sequences, FiniteSets
LOCAL INSTANCE SequencesExt

CONSTANTS
  Requests, Questions, Sessions,
  Question,      \* Question[r]: the question request r asks
  Given,         \* Given[r]: the session_id in request r, or NoSession
  NoSession,
  Name,          \* Name[s]: the first eight characters of session id s
  Statements,    \* what the LLM may answer, as SQL,
  Features,      \* ... Features[x]: what the validator looks for in x
  Readonly,      \* NL2SQLConfig.readonly
  MaxTurns,      \* NL2SQLConfig.max_turns
  Versions,      \* texts of the database schema
  NotLoaded      \* the text of a schema that was never loaded

ASSUME QuestionAssumption == Question \in [Requests -> Questions]
ASSUME GivenAssumption == Given \in [Requests -> Sessions \cup {NoSession}]
ASSUME ConfigAssumption ==
  /\ MaxTurns \in Nat \ {0}
  /\ Readonly \in BOOLEAN
  /\ NotLoaded \notin Versions
  /\ NoSession \notin Sessions /\ Requests \cap Sessions = {}

\* A request without a session_id gets a fresh uuid.
SessionOf(r) == IF Given[r] = NoSession THEN r ELSE Given[r]
AllSessions == Sessions \cup Requests

ASSUME NameAssumption == AllSessions \subseteq DOMAIN Name
Names == {Name[s] : s \in AllSessions}
NameOf(r) == Name[SessionOf(r)]

\* What the validator refuses: words such as INSERT or SET anywhere in the
\* text, several statements, UNION, comments, system tables; and, read only,
\* every statement that is not a SELECT.
Refused ==
  {"keyword", "several", "union", "comment", "batch", "system"}
    \cup (IF Readonly THEN {"notselect"} ELSE {})
Valid(x) == Features[x] \cap Refused = {}

VARIABLES
  pc,       \* where each request stands
  key,      \* its cache key: resolved question, schema text, conversation
  usage,    \* the LLM answer whose tokens it took for those of its generation
  schema,   \* the text of the schema the engine holds
  turns,    \* the conversation of each session: requests, oldest first
  cache,    \* for each key the request whose result is held and, history,
            \* ... the conversation it was made with
  last,     \* the LLM answer that _last_input_tokens belongs to
  audit     \* the audit files of each name, in order of their second

vars == <<pc, key, usage, schema, turns, cache, last, audit>>
locals == <<pc, key, usage>>
shared == <<schema, turns, cache, last, audit>>

Keys == [question : Questions, schema : Versions \cup {NotLoaded}, context : Seq(Requests)]
Waiting == {"resolving", "generating", "retrying", "executing", "answering"}
Outcomes == {"answered", "refused", "failed", "lost", "cancelled"}
NoAnswer == <<>>
Answers == {NoAnswer} \cup (Requests \X {"generate", "answer"})

TypeOK ==
  /\ pc \in [Requests -> {"idle"} \cup Waiting \cup Outcomes]
  /\ key \in [Requests -> Keys]
  /\ usage \in [Requests -> Answers]
  /\ schema \in Versions \cup {NotLoaded}
  /\ turns \in [AllSessions -> Seq(Requests)] /\ \A s \in AllSessions : Len(turns[s]) <= MaxTurns
  /\ cache \in [DOMAIN cache -> Requests \X Seq(Requests)] /\ DOMAIN cache \subseteq Keys
  /\ last \in Answers
  /\ audit \in [Names -> Seq([by : Requests, success : BOOLEAN])]

NoKey(r) == [question |-> Question[r], schema |-> NotLoaded, context |-> <<>>]

Init ==
  /\ pc = [r \in Requests |-> "idle"]
  /\ key = [r \in Requests |-> NoKey(r)]
  /\ usage = [r \in Requests |-> NoAnswer]
  /\ schema = NotLoaded
  /\ turns = [s \in AllSessions |-> <<>>]
  /\ cache = <<>>
  /\ last = NoAnswer
  /\ audit = [n \in Names |-> <<>>]

Goto(r, place) == pc' = [pc EXCEPT ![r] = place]

\* query() returns or raises, and its local variables are gone.
Leave(r, outcome) ==
  /\ Goto(r, outcome)
  /\ key' = [key EXCEPT ![r] = NoKey(r)]
  /\ usage' = [usage EXCEPT ![r] = NoAnswer]

-----------------------------------------------------------------------------
(* query()                                                                 *)

\* The cache lookup: a hit ends in an error, for the held result already has
\* the session_id that NL2SQLResult(...) is given once more.
Lookup(r, k) ==
  IF k \in DOMAIN cache THEN Leave(r, "failed")
  ELSE Goto(r, "generating") /\ key' = [key EXCEPT ![r] = k] /\ UNCHANGED usage

KeyNow(r) == [question |-> Question[r], schema |-> schema, context |-> turns[SessionOf(r)]]

\* The schema text and the conversation are read; with a conversation, the
\* LLM is asked first what the question refers to.
Ask(r) ==
  /\ pc[r] = "idle"
  /\ IF turns[SessionOf(r)] = <<>> THEN Lookup(r, KeyNow(r))
     ELSE Goto(r, "resolving") /\ key' = [key EXCEPT ![r] = KeyNow(r)] /\ UNCHANGED usage
  /\ UNCHANGED shared

\* _resolve_followup: any question, the original one after every failure.
Resolve(r) ==
  /\ pc[r] = "resolving"
  /\ \E q \in Questions : Lookup(r, [key[r] EXCEPT !.question = q])
  /\ UNCHANGED shared

\* _generate_sql: an answer without SQL is asked for once more, then fails.
Unparseable(r) ==
  /\ \/ pc[r] = "generating" /\ Goto(r, "retrying") /\ UNCHANGED <<key, usage>>
     \/ pc[r] = "retrying" /\ Leave(r, "failed")
  /\ last' = <<r, "generate">>
  /\ UNCHANGED <<schema, turns, cache, audit>>

\* An answer with SQL is validated; a valid statement is given to the database.
Generate(r) ==
  /\ pc[r] \in {"generating", "retrying"}
  /\ last' = <<r, "generate">>
  /\ \E x \in Statements :
       IF Valid(x)
       THEN Goto(r, "executing") /\ UNCHANGED <<key, usage>>
       ELSE Leave(r, "refused")
  /\ UNCHANGED <<schema, turns, cache, audit>>

\* Fault: a file that is there is left as it is.
LogOnce(r, success) ==
  LET n == NameOf(r)
      entry == [by |-> r, success |-> success]
  IN audit' = [audit EXCEPT ![n] = Append(@, entry)] \/ (audit[n] # <<>> /\ UNCHANGED audit)

\* SQLAuditor.log: the file is named for the second and for eight characters of
\* the session id, and the later of two entries of one second and one name
\* replaces the earlier.
Log(r, success) ==
  LET n == NameOf(r)
      entry == [by |-> r, success |-> success]
  IN \/ audit' = [audit EXCEPT ![n] = Append(@, entry)]
     \/ audit[n] # <<>> /\ audit' = [audit EXCEPT ![n] = Append(Front(@), entry)]

\* Fault: the tokens of generating are taken after those of answering came in.
ExecuteUncounted(r) ==
  /\ pc[r] = "executing"
  /\ Log(r, TRUE)
  /\ usage' = [usage EXCEPT ![r] = <<r, "answer">>]
  /\ Goto(r, "answering")
  /\ UNCHANGED <<key, schema, turns, cache, last>>

\* The connector answered, with rows or with an error in the QueryResult: both
\* are audited as a success.  The tokens on the engine are taken for its own.
Execute(r) ==
  /\ pc[r] = "executing"
  /\ Log(r, TRUE)
  /\ usage' = [usage EXCEPT ![r] = last]
  /\ Goto(r, "answering")
  /\ UNCHANGED <<key, schema, turns, cache, last>>

\* Fault: a statement that returns no rows is never given up.
TimeoutNever(r) == pc[r] = "executing" /\ UNCHANGED vars

\* wait_for ran out.
Timeout(r) ==
  /\ pc[r] = "executing"
  /\ Log(r, FALSE)
  /\ Leave(r, "failed")
  /\ UNCHANGED <<schema, turns, cache, last>>

\* add_turn: the newest max_turns turns of the session stay.
Remembered(r) ==
  LET all == Append(turns[SessionOf(r)], r)
  IN [turns EXCEPT ![SessionOf(r)] = SubSeq(all, IF Len(all) > MaxTurns THEN 2 ELSE 1, Len(all))]

\* Fault: the result of a follow-up question is cached under the question alone.
HeldAlways(r) ==
  LET asked == [key[r] EXCEPT !.context = <<>>]
  IN [k \in DOMAIN cache \cup {asked} |-> IF k = asked THEN <<r, key[r].context>> ELSE cache[k]]

\* The result is cached if there was no conversation.
Held(r) ==
  IF key[r].context # <<>> THEN cache
  ELSE [k \in DOMAIN cache \cup {key[r]} |-> IF k = key[r] THEN <<r, key[r].context>> ELSE cache[k]]

\* The answer is worded; the turn is remembered and the result cached.
Answer(r) ==
  /\ pc[r] = "answering"
  /\ last' = <<r, "answer">>
  /\ turns' = Remembered(r)
  /\ cache' = Held(r)
  /\ Leave(r, "answered")
  /\ UNCHANGED <<schema, audit>>

\* The answer is worded and the turn remembered, but the result cannot be built
\* of it (what the LLM said of tables_used is no list of names): the caller gets
\* an error, and nothing is cached.
AnswerLost(r) ==
  /\ pc[r] = "answering"
  /\ last' = <<r, "answer">>
  /\ turns' = Remembered(r)
  /\ Leave(r, "lost")
  /\ UNCHANGED <<schema, cache, audit>>

\* Fault: the turn is remembered before its answer is worded.
FailRemembered(r) ==
  /\ pc[r] = "answering" /\ Leave(r, "failed")
  /\ turns' = Remembered(r)
  /\ UNCHANGED <<schema, cache, last, audit>>

\* The LLM, the connector or the memory raises: query() returns an error.
Fail(r) ==
  /\ pc[r] \in Waiting \ {"resolving"}
  /\ Leave(r, "failed")
  /\ last' \in IF pc[r] = "answering" THEN {last, <<r, "answer">>} ELSE {last}
  /\ UNCHANGED <<schema, turns, cache, audit>>

\* The caller gives up while query() awaits something.
Cancel(r) ==
  /\ pc[r] \in Waiting
  /\ Leave(r, "cancelled")
  /\ UNCHANGED shared

-----------------------------------------------------------------------------
(* The other routes and the cache.                                         *)

\* DELETE /api/v1/history/{session_id}
ClearSession(s) ==
  /\ turns[s] # <<>>
  /\ turns' = [turns EXCEPT ![s] = <<>>]
  /\ UNCHANGED <<locals, schema, cache, last, audit>>

\* GET /api/v1/schema/{data_source}: loads once; a failure leaves nothing.  What
\* is loaded stays: nothing in the program calls refresh().
GetSchema ==
  /\ schema = NotLoaded
  /\ schema' \in Versions
  /\ UNCHANGED <<locals, turns, cache, last, audit>>

\* The time-to-live or the size limit of the query cache.
Lose(k) ==
  /\ cache' = [j \in DOMAIN cache \ {k} |-> cache[j]]
  /\ UNCHANGED <<locals, schema, turns, last, audit>>

Step(r) ==
  \/ Ask(r) \/ Resolve(r) \/ Unparseable(r) \/ Generate(r) \/ Execute(r)
  \/ Timeout(r) \/ Answer(r) \/ AnswerLost(r) \/ Fail(r) \/ Cancel(r)

Next ==
  \/ \E r \in Requests : Step(r)
  \/ \E s \in AllSessions : ClearSession(s)
  \/ GetSchema
  \/ \E k \in DOMAIN cache : Lose(k)

\* The LLM answers or raises, for its client limits every call, and wait_for
\* ends a statement; the connector itself need not answer.
Proceed(r) ==
  \/ Resolve(r) \/ Timeout(r)
  \/ pc[r] # "executing" /\ (Generate(r) \/ Unparseable(r) \/ Answer(r) \/ AnswerLost(r) \/ Fail(r))
Fairness == \A r \in Requests : WF_vars(Proceed(r))

Safety == Init /\ [][Next]_vars
Spec == Safety /\ Fairness

-----------------------------------------------------------------------------
(* Properties.                                                             *)

\* A held result was made without any conversation, by a request for the
\* question of its key: what one session talked about never colours what
\* another one is told (engine.py 145-148 and 215-217).
CacheIsContextFree ==
  \A k \in DOMAIN cache :
    k.context = <<>> /\ cache[k][2] = <<>> /\ k.question = Question[cache[k][1]]

\* A conversation holds each turn once, turns of its own session only, and only
\* of questions whose answer was worded: one that failed before leaves no turn.
\* The turn is there before the result is built of it, so a question may be in
\* the conversation whose caller was told of an error (engine.py 188-213, 238).
RemembersAnswers ==
  \A s \in AllSessions :
    /\ \A i, j \in DOMAIN turns[s] : turns[s][i] = turns[s][j] => i = j
    /\ \A i \in DOMAIN turns[s] :
         pc[turns[s][i]] \in {"answered", "lost"} /\ SessionOf(turns[s][i]) = s

OnFile(r) == \E i \in DOMAIN audit[NameOf(r)] : audit[NameOf(r)][i] = [by |-> r, success |-> TRUE]

\* A statement that ran is on file when its answer is worded, and its entry goes
\* only in the step in which another request writes one: a request of a session,
\* the same or another, whose id begins with the same eight characters
\* (audit.py 33).
AuditedUnlessReplaced ==
  [][\A r \in Requests :
       /\ pc[r] = "executing" /\ pc'[r] = "answering" => OnFile(r)'
       /\ OnFile(r) /\ ~OnFile(r)' =>
            \E q \in Requests \ {r} :
              /\ NameOf(q) = NameOf(r)
              /\ pc[q] = "executing" /\ pc'[q] \in {"answering", "failed"}]_vars

\* However requests interleave, an answer is never charged twice for the LLM
\* answer that worded it, and what it is charged for generating has been
\* spent by some request (engine.py 185-188, 211-212).
ChargedOnce ==
  \A r \in Requests : pc[r] = "answering" =>
    usage[r] \notin {NoAnswer, <<r, "answer">>} /\ pc[usage[r][1]] # "idle"

\* A question whose result is held is answered from the cache (cache.py 18-19).
CacheAnswers ==
  [][\A r \in Requests :
       pc[r] = "idle" /\ pc'[r] # "idle" /\ KeyNow(r) \in DOMAIN cache => pc'[r] = "answered"]_vars

\* Every question asked is answered, refused, failed or given up, even if the
\* database never answers and the LLM never says anything that can be parsed
\* (engine.py 278-301, 477-480).
QueriesEnd == \A r \in Requests : pc[r] \in Waiting ~> pc[r] \in Outcomes
=============================================================================
