------------------------- MODULE NL2SQLEngineProofs -------------------------
(***************************************************************************)
(* Proofs about NL2SQLEngine for any requests, sessions, questions,        *)
(* statements and schemas.                                                 *)
(***************************************************************************)
EXTENDS NL2SQLEngine, SequenceTheorems, TLAPS
LOCAL INSTANCE SequencesExt

Entries == [by : Requests, success : BOOLEAN]

LEMMA SessionType == \A r \in Requests : SessionOf(r) \in AllSessions
BY GivenAssumption DEF SessionOf, AllSessions

LEMMA NameType == \A r \in Requests : NameOf(r) \in Names
BY SessionType DEF NameOf, Names

LEMMA NoTurns == <<>> \in Seq(Requests) /\ Len(<<>>) = 0 /\ <<>> \in Seq(Entries) /\ DOMAIN <<>> = {}
OBVIOUS

LEMMA QuestionType ==
  ASSUME NEW k \in Keys, NEW q \in Questions
  PROVE  /\ [k EXCEPT !.question = q] \in Keys
         /\ [k EXCEPT !.question = q].question = q
         /\ [k EXCEPT !.question = q].context = k.context
BY DEF Keys

LEMMA NoKeyType == \A r \in Requests : NoKey(r) \in Keys
BY QuestionAssumption, EmptySeq DEF NoKey, Keys

-----------------------------------------------------------------------------
(* Each kind of step, as the proofs below use it.                          *)

LEMMA LeaveType ==
  ASSUME TypeOK, NEW r \in Requests, NEW outcome \in Outcomes, Leave(r, outcome)
  PROVE  /\ pc' = [pc EXCEPT ![r] = outcome]
         /\ pc' \in [Requests -> {"idle"} \cup Waiting \cup Outcomes]
         /\ key' \in [Requests -> Keys] /\ usage' \in [Requests -> Answers]
BY NoKeyType DEF Leave, Goto, TypeOK, Answers

LEMMA LookupType ==
  ASSUME TypeOK, NEW r \in Requests, NEW k \in Keys, Lookup(r, k)
  PROVE  /\ pc' \in [Requests -> {"idle"} \cup Waiting \cup Outcomes]
         /\ key' \in [Requests -> Keys] /\ usage' \in [Requests -> Answers]
<1>1. CASE k \in DOMAIN cache
  BY <1>1, LeaveType DEF Lookup, Outcomes
<1>2. CASE k \notin DOMAIN cache
  BY <1>2 DEF Lookup, Goto, TypeOK, Waiting
<1>. QED
  BY <1>1, <1>2

LEMMA KeyNowType == ASSUME TypeOK, NEW r \in Requests PROVE KeyNow(r) \in Keys
BY QuestionAssumption, SessionType DEF KeyNow, Keys, TypeOK

LEMMA LogType ==
  ASSUME TypeOK, NEW r \in Requests, NEW success \in BOOLEAN, Log(r, success)
  PROVE  audit' \in [Names -> Seq(Entries)]
<1>. DEFINE n == NameOf(r)
            entry == [by |-> r, success |-> success]
<1>1. n \in Names /\ entry \in Entries /\ audit[n] \in Seq(Entries)
  BY NameType DEF TypeOK, Entries
<1>2. Append(audit[n], entry) \in Seq(Entries)
  BY <1>1
<1>3. audit[n] # <<>> => Append(Front(audit[n]), entry) \in Seq(Entries)
  <2>1. audit[n] # <<>> => Front(audit[n]) \in Seq(Entries)
    BY <1>1 DEF Front
  <2>. QED
    BY <1>1, <2>1
<1>. QED
  BY <1>1, <1>2, <1>3 DEF Log, TypeOK, Entries

LEMMA RememberedType ==
  ASSUME TypeOK, NEW r \in Requests
  PROVE  /\ Remembered(r) \in [AllSessions -> Seq(Requests)]
         /\ \A s \in AllSessions : Len(Remembered(r)[s]) <= MaxTurns
<1>. DEFINE s == SessionOf(r)
            all == Append(turns[s], r)
            kept == SubSeq(all, IF Len(all) > MaxTurns THEN 2 ELSE 1, Len(all))
<1>1. s \in AllSessions /\ turns[s] \in Seq(Requests) /\ Len(turns[s]) <= MaxTurns
  BY SessionType DEF TypeOK
<1>2. all \in Seq(Requests) /\ Len(all) = Len(turns[s]) + 1
  BY <1>1
<1>3. kept \in Seq(Requests) /\ Len(kept) <= MaxTurns
  BY <1>1, <1>2, ConfigAssumption
<1>4. Remembered(r) = [turns EXCEPT ![s] = kept]
  BY DEF Remembered
<1>. QED
  BY <1>1, <1>3, <1>4 DEF TypeOK

LEMMA HeldType ==
  ASSUME TypeOK, NEW r \in Requests
  PROVE  Held(r) \in [DOMAIN Held(r) -> Requests \X Seq(Requests)] /\ DOMAIN Held(r) \subseteq Keys
<1>1. key[r] \in Keys /\ key[r].context \in Seq(Requests)
  BY DEF TypeOK, Keys
<1>. QED
  BY <1>1 DEF Held, TypeOK

LEMMA LoseType ==
  ASSUME TypeOK, NEW k, Lose(k)
  PROVE  /\ cache' \in [DOMAIN cache' -> Requests \X Seq(Requests)] /\ DOMAIN cache' \subseteq Keys
         /\ \A j \in DOMAIN cache' : j \in DOMAIN cache /\ cache'[j] = cache[j]
<1>1. cache' = [j \in DOMAIN cache \ {k} |-> cache[j]]
  BY DEF Lose
<1>. QED
  BY <1>1 DEF TypeOK

LEMMA TypeStep == TypeOK /\ [Next]_vars => TypeOK'
<1>. SUFFICES ASSUME TypeOK, [Next]_vars PROVE TypeOK'
  OBVIOUS
<1>1. ASSUME NEW r \in Requests, Ask(r) PROVE TypeOK'
  <2>1. KeyNow(r) \in Keys
    BY KeyNowType
  <2>2. CASE Lookup(r, KeyNow(r))
    BY <1>1, <2>1, <2>2, LookupType DEF Ask, shared, TypeOK
  <2>3. CASE Goto(r, "resolving") /\ key' = [key EXCEPT ![r] = KeyNow(r)] /\ UNCHANGED usage
    BY <1>1, <2>1, <2>3 DEF Ask, Goto, shared, TypeOK, Waiting
  <2>. QED
    BY <1>1, <2>2, <2>3 DEF Ask
<1>2. ASSUME NEW r \in Requests, Resolve(r) PROVE TypeOK'
  <2>1. PICK q \in Questions : Lookup(r, [key[r] EXCEPT !.question = q])
    BY <1>2 DEF Resolve
  <2>2. [key[r] EXCEPT !.question = q] \in Keys
    BY QuestionType DEF TypeOK
  <2>. QED
    BY <1>2, <2>1, <2>2, LookupType DEF Resolve, shared, TypeOK
<1>3. ASSUME NEW r \in Requests, Unparseable(r) PROVE TypeOK'
  <2>1. last' \in Answers
    BY <1>3 DEF Unparseable, Answers
  <2>2. CASE Leave(r, "failed")
    BY <1>3, <2>1, <2>2, LeaveType DEF Unparseable, TypeOK, Outcomes
  <2>3. CASE Goto(r, "retrying") /\ UNCHANGED <<key, usage>>
    BY <1>3, <2>1, <2>3 DEF Unparseable, Goto, TypeOK, Waiting
  <2>. QED
    BY <1>3, <2>2, <2>3 DEF Unparseable
<1>4. ASSUME NEW r \in Requests, Generate(r) PROVE TypeOK'
  <2>1. last' \in Answers
    BY <1>4 DEF Generate, Answers
  <2>2. CASE Leave(r, "refused")
    BY <1>4, <2>1, <2>2, LeaveType DEF Generate, TypeOK, Outcomes
  <2>3. CASE Goto(r, "executing") /\ UNCHANGED <<key, usage>>
    BY <1>4, <2>1, <2>3 DEF Generate, Goto, TypeOK, Waiting
  <2>. QED
    BY <1>4, <2>2, <2>3 DEF Generate
<1>5. ASSUME NEW r \in Requests, Execute(r) PROVE TypeOK'
  <2>1. audit' \in [Names -> Seq(Entries)]
    BY <1>5, LogType DEF Execute
  <2>. QED
    BY <1>5, <2>1 DEF Execute, Goto, TypeOK, Waiting, Entries
<1>6. ASSUME NEW r \in Requests, Timeout(r) PROVE TypeOK'
  <2>1. audit' \in [Names -> Seq(Entries)]
    BY <1>6, LogType DEF Timeout
  <2>. QED
    BY <1>6, <2>1, LeaveType DEF Timeout, TypeOK, Outcomes, Entries
<1>7. ASSUME NEW r \in Requests, Answer(r) PROVE TypeOK'
  <2>1. last' \in Answers
    BY <1>7 DEF Answer, Answers
  <2>. QED
    BY <1>7, <2>1, LeaveType, RememberedType, HeldType DEF Answer, TypeOK, Outcomes
<1>8. ASSUME NEW r \in Requests, Fail(r) PROVE TypeOK'
  <2>1. last' \in Answers
    BY <1>8 DEF Fail, Answers, TypeOK
  <2>. QED
    BY <1>8, <2>1, LeaveType DEF Fail, TypeOK, Outcomes
<1>9. ASSUME NEW r \in Requests, Cancel(r) PROVE TypeOK'
  BY <1>9, LeaveType DEF Cancel, shared, TypeOK, Outcomes
<1>10. ASSUME NEW s \in AllSessions, ClearSession(s) PROVE TypeOK'
  <2>1. turns' \in [AllSessions -> Seq(Requests)]
    BY <1>10, NoTurns DEF ClearSession, TypeOK
  <2>2. \A t \in AllSessions : Len(turns'[t]) <= MaxTurns
    BY <1>10, NoTurns, ConfigAssumption DEF ClearSession, TypeOK
  <2>. QED
    BY <1>10, <2>1, <2>2 DEF ClearSession, locals, TypeOK
<1>11. CASE GetSchema
  BY <1>11 DEF GetSchema, locals, TypeOK
<1>12. ASSUME NEW r \in Requests, AnswerLost(r) PROVE TypeOK'
  <2>1. last' \in Answers
    BY <1>12 DEF AnswerLost, Answers
  <2>. QED
    BY <1>12, <2>1, LeaveType, RememberedType DEF AnswerLost, TypeOK, Outcomes
<1>13. ASSUME NEW k \in DOMAIN cache, Lose(k) PROVE TypeOK'
  BY <1>13, LoseType DEF Lose, locals, TypeOK
<1>14. CASE UNCHANGED vars
  BY <1>14 DEF vars, TypeOK
<1>. QED
  BY <1>1, <1>2, <1>3, <1>4, <1>5, <1>6, <1>7, <1>8, <1>9, <1>10, <1>11, <1>12, <1>13, <1>14
  DEF Next, Step

LEMMA TypeInit == Init => TypeOK
<1>. SUFFICES ASSUME Init PROVE TypeOK
  OBVIOUS
<1>1. turns \in [AllSessions -> Seq(Requests)] /\ \A s \in AllSessions : Len(turns[s]) <= MaxTurns
  BY NoTurns, ConfigAssumption DEF Init
<1>2. cache \in [DOMAIN cache -> Requests \X Seq(Requests)] /\ DOMAIN cache \subseteq Keys
  BY NoTurns DEF Init
<1>3. audit \in [Names -> Seq(Entries)]
  BY NoTurns DEF Init
<1>. QED
  BY <1>1, <1>2, <1>3, NoKeyType DEF Init, TypeOK, Answers, Entries

\* What the requests share, and what each is about, keeps its type.
THEOREM TypeCorrect == Safety => []TypeOK
BY TypeInit, TypeStep, PTL DEF Safety

-----------------------------------------------------------------------------
(* The cache.                                                              *)

\* A request without a conversation asks its own question still; one whose
\* question is being resolved has a conversation.
Keyed ==
  \A r \in Requests :
    /\ pc[r] \in Waiting /\ key[r].context = <<>> => key[r].question = Question[r]
    /\ pc[r] = "resolving" => key[r].context # <<>>

CacheInv == TypeOK /\ Keyed /\ CacheIsContextFree

LEMMA LookupKeyed ==
  ASSUME TypeOK, Keyed, NEW r \in Requests, NEW k \in Keys, Lookup(r, k),
         k.context = <<>> => k.question = Question[r]
  PROVE  Keyed'
<1>1. CASE k \in DOMAIN cache
  BY <1>1 DEF Lookup, Leave, Goto, Keyed, TypeOK, Waiting
<1>2. CASE k \notin DOMAIN cache
  BY <1>2 DEF Lookup, Goto, Keyed, TypeOK, Waiting
<1>. QED
  BY <1>1, <1>2

LEMMA KeyedStep == TypeOK /\ Keyed /\ [Next]_vars => Keyed'
<1>. SUFFICES ASSUME TypeOK, Keyed, [Next]_vars PROVE Keyed'
  OBVIOUS
<1>1. ASSUME NEW r \in Requests, NEW outcome \in Outcomes, Leave(r, outcome) PROVE Keyed'
  BY <1>1 DEF Leave, Goto, Keyed, TypeOK, Waiting, Outcomes
<1>2. ASSUME NEW r \in Requests, pc[r] \in Waiting \ {"resolving"},
             NEW place \in Waiting \ {"resolving"}, Goto(r, place), UNCHANGED key
      PROVE  Keyed'
  BY <1>2 DEF Goto, Keyed, TypeOK, Waiting
<1>3. ASSUME NEW r \in Requests, Ask(r) PROVE Keyed'
  <2>1. KeyNow(r) \in Keys /\ KeyNow(r).question = Question[r] /\ KeyNow(r).context = turns[SessionOf(r)]
    BY KeyNowType DEF KeyNow
  <2>2. CASE turns[SessionOf(r)] = <<>>
    BY <1>3, <2>1, <2>2, LookupKeyed DEF Ask
  <2>3. CASE turns[SessionOf(r)] # <<>>
    BY <1>3, <2>1, <2>3 DEF Ask, Goto, Keyed, TypeOK, Waiting
  <2>. QED
    BY <2>2, <2>3
<1>4. ASSUME NEW r \in Requests, Resolve(r) PROVE Keyed'
  <2>1. PICK q \in Questions : Lookup(r, [key[r] EXCEPT !.question = q])
    BY <1>4 DEF Resolve
  <2>2. /\ [key[r] EXCEPT !.question = q] \in Keys
        /\ [key[r] EXCEPT !.question = q].context # <<>>
    BY <1>4, QuestionType DEF Resolve, Keyed, TypeOK
  <2>. QED
    BY <2>1, <2>2, LookupKeyed
<1>5. ASSUME NEW r \in Requests, Unparseable(r) \/ Generate(r) \/ Execute(r) PROVE Keyed'
  BY <1>1, <1>2, <1>5 DEF Unparseable, Generate, Execute, Waiting, Outcomes
<1>6. ASSUME NEW r \in Requests, Timeout(r) \/ Answer(r) \/ AnswerLost(r) \/ Fail(r) \/ Cancel(r) PROVE Keyed'
  BY <1>1, <1>6 DEF Timeout, Answer, AnswerLost, Fail, Cancel, Outcomes
<1>7. ASSUME UNCHANGED <<pc, key>> PROVE Keyed'
  BY <1>7 DEF Keyed
<1>8. CASE \/ GetSchema \/ UNCHANGED vars
           \/ \E s \in AllSessions : ClearSession(s)
           \/ \E k \in DOMAIN cache : Lose(k)
  BY <1>7, <1>8 DEF GetSchema, vars, ClearSession, Lose, locals
<1>. QED
  BY <1>3, <1>4, <1>5, <1>6, <1>8 DEF Next, Step

LEMMA CacheStep == TypeOK /\ Keyed /\ CacheIsContextFree /\ [Next]_vars => CacheIsContextFree'
<1>. SUFFICES ASSUME TypeOK, Keyed, CacheIsContextFree, [Next]_vars PROVE CacheIsContextFree'
  OBVIOUS
<1>1. ASSUME NEW r \in Requests, Answer(r) PROVE CacheIsContextFree'
  <2>1. CASE key[r].context # <<>>
    BY <1>1, <2>1 DEF Answer, Held, CacheIsContextFree
  <2>2. CASE key[r].context = <<>>
    <3>1. key[r].question = Question[r]
      BY <1>1, <2>2 DEF Answer, Keyed, Waiting
    <3>2. cache' = [k \in DOMAIN cache \cup {key[r]} |->
                      IF k = key[r] THEN <<r, key[r].context>> ELSE cache[k]]
      BY <1>1, <2>2 DEF Answer, Held
    <3>. QED
      BY <2>2, <3>1, <3>2 DEF CacheIsContextFree
  <2>. QED
    BY <2>1, <2>2
<1>2. ASSUME NEW k \in DOMAIN cache, Lose(k) PROVE CacheIsContextFree'
  BY <1>2, LoseType DEF CacheIsContextFree
<1>3. ASSUME UNCHANGED cache PROVE CacheIsContextFree'
  BY <1>3 DEF CacheIsContextFree
<1>4. ASSUME NEW r \in Requests, Step(r), ~Answer(r) PROVE UNCHANGED cache
  BY <1>4 DEF Step, Ask, Resolve, Unparseable, Generate, Execute, Timeout, AnswerLost, Fail, Cancel, shared
<1>5. CASE \/ GetSchema \/ UNCHANGED vars
           \/ \E s \in AllSessions : ClearSession(s)
  BY <1>3, <1>5 DEF GetSchema, vars, ClearSession
<1>. QED
  BY <1>1, <1>2, <1>3, <1>4, <1>5 DEF Next

\* What one session talked about never colours what another one is told from
\* the query cache (engine.py 145-148 and 215-217).
THEOREM CacheIsContextFreeCorrect == Safety => []CacheIsContextFree
<1>1. Init => CacheInv
  BY TypeInit DEF Init, CacheInv, Keyed, CacheIsContextFree, Waiting
<1>2. CacheInv /\ [Next]_vars => CacheInv'
  BY TypeStep, KeyedStep, CacheStep DEF CacheInv
<1>3. CacheInv => CacheIsContextFree
  BY DEF CacheInv
<1>. QED
  BY <1>1, <1>2, <1>3, PTL DEF Safety

-----------------------------------------------------------------------------
(* The tokens of LLM answers.                                              *)

\* The tokens on the engine are those of an answer to a request under way or,
\* if they worded an answer, of one that is over; and there are some once any
\* request has had SQL from the LLM.
Spent ==
  /\ last # NoAnswer => /\ last[1] \in Requests /\ pc[last[1]] # "idle"
                        /\ last[2] = "answer" => pc[last[1]] \in Outcomes
  /\ \A r \in Requests : pc[r] = "executing" => last # NoAnswer

ChargedInv == TypeOK /\ Spent /\ ChargedOnce

LEMMA SpentKept ==
  ASSUME TypeOK, Spent, ChargedOnce, NEW r \in Requests, pc[r] \in {"idle"} \cup Waiting,
         NEW place \in Waiting \cup Outcomes, Goto(r, place),
         \A q \in Requests \ {r} : usage'[q] = usage[q],
         place = "executing" => last' # NoAnswer,
         place # "answering",
         last' = last \/ last' = <<r, "generate">> \/ (last' = <<r, "answer">> /\ place \in Outcomes)
  PROVE  Spent' /\ ChargedOnce'
<1>1. pc' \in [Requests -> {"idle"} \cup Waiting \cup Outcomes] /\ pc'[r] = place
      /\ \A q \in Requests \ {r} : pc'[q] = pc[q]
  BY DEF Goto, TypeOK
<1>2. \A q \in Requests : pc[q] # "idle" => pc'[q] # "idle"
  BY <1>1 DEF Waiting, Outcomes
<1>3. \A q \in Requests : pc[q] \in Outcomes => pc'[q] \in Outcomes
  BY <1>1 DEF Waiting, Outcomes
<1>4. ASSUME last' = last PROVE Spent'
  BY <1>1, <1>2, <1>3, <1>4 DEF Spent
<1>5. ASSUME last' = <<r, "generate">> \/ (last' = <<r, "answer">> /\ place \in Outcomes) PROVE Spent'
  BY <1>1, <1>5 DEF Spent, NoAnswer, Waiting, Outcomes
<1>6. ASSUME NEW q \in Requests, pc'[q] = "answering"
      PROVE  usage'[q] \notin {NoAnswer, <<q, "answer">>} /\ pc'[usage'[q][1]] # "idle"
  <2>1. q # r /\ pc[q] = "answering" /\ usage'[q] = usage[q]
    BY <1>1, <1>6
  <2>2. usage[q] \notin {NoAnswer, <<q, "answer">>} /\ pc[usage[q][1]] # "idle"
    BY <2>1 DEF ChargedOnce
  <2>3. usage[q][1] \in Requests
    BY <2>2 DEF TypeOK, Answers
  <2>. QED
    BY <1>2, <2>1, <2>2, <2>3
<1>. QED
  BY <1>4, <1>5, <1>6 DEF ChargedOnce

LEMMA ChargedStep == TypeOK /\ Spent /\ ChargedOnce /\ [Next]_vars => Spent' /\ ChargedOnce'
<1>. SUFFICES ASSUME TypeOK, Spent, ChargedOnce, [Next]_vars PROVE Spent' /\ ChargedOnce'
  OBVIOUS
<1>1. ASSUME NEW r \in Requests, pc[r] \in {"idle"} \cup Waiting, NEW outcome \in Outcomes, Leave(r, outcome),
             last' \in {last, <<r, "generate">>, <<r, "answer">>}
      PROVE  Spent' /\ ChargedOnce'
  BY <1>1, SpentKept DEF Leave, TypeOK, Waiting, Outcomes
<1>2. ASSUME NEW r \in Requests, NEW k \in Keys, pc[r] \in {"idle", "resolving"}, Lookup(r, k), last' = last
      PROVE  Spent' /\ ChargedOnce'
  <2>1. CASE k \in DOMAIN cache
    BY <1>1, <1>2, <2>1 DEF Lookup, Waiting, Outcomes
  <2>2. CASE k \notin DOMAIN cache
    BY <1>2, <2>2, SpentKept DEF Lookup, Waiting
  <2>. QED
    BY <2>1, <2>2
<1>3. ASSUME NEW r \in Requests, Ask(r) PROVE Spent' /\ ChargedOnce'
  <2>1. CASE Lookup(r, KeyNow(r))
    BY <1>2, <1>3, <2>1, KeyNowType DEF Ask, shared
  <2>2. CASE Goto(r, "resolving") /\ UNCHANGED usage
    BY <1>3, <2>2, SpentKept DEF Ask, shared, Waiting
  <2>. QED
    BY <1>3, <2>1, <2>2 DEF Ask
<1>4. ASSUME NEW r \in Requests, Resolve(r) PROVE Spent' /\ ChargedOnce'
  <2>1. PICK q \in Questions : Lookup(r, [key[r] EXCEPT !.question = q])
    BY <1>4 DEF Resolve
  <2>. QED
    BY <1>2, <1>4, <2>1, QuestionType DEF Resolve, shared, TypeOK
<1>5. ASSUME NEW r \in Requests, Unparseable(r) PROVE Spent' /\ ChargedOnce'
  <2>1. CASE Leave(r, "failed")
    BY <1>1, <1>5, <2>1 DEF Unparseable, Waiting, Outcomes
  <2>2. CASE Goto(r, "retrying") /\ UNCHANGED usage
    BY <1>5, <2>2, SpentKept DEF Unparseable, Waiting
  <2>. QED
    BY <1>5, <2>1, <2>2 DEF Unparseable
<1>6. ASSUME NEW r \in Requests, Generate(r) PROVE Spent' /\ ChargedOnce'
  <2>1. CASE Leave(r, "refused")
    BY <1>1, <1>6, <2>1 DEF Generate, Waiting, Outcomes
  <2>2. CASE Goto(r, "executing") /\ UNCHANGED usage
    BY <1>6, <2>2, SpentKept DEF Generate, Waiting, NoAnswer
  <2>. QED
    BY <1>6, <2>1, <2>2 DEF Generate
<1>7. ASSUME NEW r \in Requests, Execute(r) PROVE Spent' /\ ChargedOnce'
  <2>1. /\ pc[r] = "executing" /\ pc' = [pc EXCEPT ![r] = "answering"]
        /\ usage' = [usage EXCEPT ![r] = last] /\ last' = last /\ last # NoAnswer
    BY <1>7 DEF Execute, Goto, Spent
  <2>2. last[1] \in Requests /\ pc[last[1]] # "idle" /\ last # <<r, "answer">>
    BY <2>1 DEF Spent, Outcomes
  <2>3. Spent'
    BY <2>1 DEF Spent, TypeOK, Outcomes
  <2>4. ASSUME NEW q \in Requests, pc'[q] = "answering"
        PROVE  usage'[q] \notin {NoAnswer, <<q, "answer">>} /\ pc'[usage'[q][1]] # "idle"
    <3>1. CASE q = r
      BY <2>1, <2>2, <3>1 DEF TypeOK
    <3>2. CASE q # r
      <4>1. usage'[q] = usage[q] /\ pc[q] = "answering"
        BY <2>1, <2>4, <3>2 DEF TypeOK
      <4>2. usage[q] \notin {NoAnswer, <<q, "answer">>} /\ pc[usage[q][1]] # "idle"
        BY <4>1 DEF ChargedOnce
      <4>3. usage[q][1] \in Requests
        BY <4>2 DEF TypeOK, Answers
      <4>. QED
        BY <2>1, <4>1, <4>2, <4>3 DEF TypeOK
    <3>. QED
      BY <3>1, <3>2
  <2>. QED
    BY <2>3, <2>4 DEF ChargedOnce
<1>8. ASSUME NEW r \in Requests, Timeout(r) \/ Answer(r) \/ AnswerLost(r) \/ Fail(r) \/ Cancel(r) PROVE Spent' /\ ChargedOnce'
  BY <1>1, <1>8 DEF Timeout, Answer, AnswerLost, Fail, Cancel, shared, Waiting, Outcomes
<1>9. ASSUME UNCHANGED <<pc, usage, last>> PROVE Spent' /\ ChargedOnce'
  BY <1>9 DEF Spent, ChargedOnce
<1>10. CASE \/ GetSchema \/ UNCHANGED vars
            \/ \E s \in AllSessions : ClearSession(s)
            \/ \E k \in DOMAIN cache : Lose(k)
  BY <1>9, <1>10 DEF GetSchema, vars, ClearSession, Lose, locals
<1>. QED
  BY <1>3, <1>4, <1>5, <1>6, <1>7, <1>8, <1>10 DEF Next, Step

\* However requests interleave, an answer is never charged twice for the LLM
\* answer that worded it, and what it is charged for generating has been
\* spent by some request (engine.py 185-188, 211-212).
THEOREM ChargedOnceCorrect == Safety => []ChargedOnce
<1>1. Init => ChargedInv
  BY TypeInit DEF Init, ChargedInv, Spent, ChargedOnce
<1>2. ChargedInv /\ [Next]_vars => ChargedInv'
  BY TypeStep, ChargedStep DEF ChargedInv
<1>3. ChargedInv => ChargedOnce
  BY DEF ChargedInv
<1>. QED
  BY <1>1, <1>2, <1>3, PTL DEF Safety

-----------------------------------------------------------------------------
(* The conversation memory.                                                *)

\* The outcomes of a question that leaves a turn.
Worded == {"answered", "lost"}

MemoryInv == TypeOK /\ RemembersAnswers

\* What a turn is added to keeps each turn once: the turn is new to it.
LEMMA RememberedOnce ==
  ASSUME TypeOK, RemembersAnswers, NEW r \in Requests, pc[r] \notin Worded
  PROVE  \A s \in AllSessions :
           /\ \A i, j \in DOMAIN Remembered(r)[s] : Remembered(r)[s][i] = Remembered(r)[s][j] => i = j
           /\ \A i \in DOMAIN Remembered(r)[s] :
                LET q == Remembered(r)[s][i]
                IN (pc[q] \in Worded \/ q = r) /\ q \in Requests /\ SessionOf(q) = s
<1>. DEFINE own == SessionOf(r)
            old == turns[own]
            all == Append(old, r)
            from == IF Len(all) > MaxTurns THEN 2 ELSE 1
            kept == SubSeq(all, from, Len(all))
<1>1. own \in AllSessions /\ old \in Seq(Requests) /\ all \in Seq(Requests) /\ Len(all) = Len(old) + 1
  BY SessionType DEF TypeOK
<1>2. \A i \in 1..Len(all) : all[i] = IF i <= Len(old) THEN old[i] ELSE r
  BY <1>1
<1>3. \A i, j \in 1..Len(old) : old[i] = old[j] => i = j
  BY <1>1 DEF RemembersAnswers, Worded
<1>4. \A i \in 1..Len(old) : pc[old[i]] \in Worded /\ SessionOf(old[i]) = own /\ old[i] \in Requests
  BY <1>1 DEF RemembersAnswers, Worded
<1>5. \A i, j \in 1..Len(all) : all[i] = all[j] => i = j
  BY <1>1, <1>2, <1>3, <1>4
<1>6. /\ kept \in Seq(Requests) /\ Len(kept) = Len(all) - from + 1
      /\ \A i \in 1..Len(kept) : kept[i] = all[from + i - 1] /\ from + i - 1 \in 1..Len(all)
  <2>. HIDE DEF all
  <2>1. from \in {1, 2} /\ Len(all) \in Nat \ {0}
    BY <1>1
  <2>. HIDE DEF from
  <2>. QED
    BY <1>1, <2>1
<1>7. \A i, j \in 1..Len(kept) : kept[i] = kept[j] => i = j
  <2>. HIDE DEF from, kept, all
  <2>1. from \in {1, 2}
    BY DEF from
  <2>. QED
    BY <1>5, <1>6, <2>1
<1>8. \A i \in 1..Len(kept) : (pc[kept[i]] \in Worded \/ kept[i] = r) /\ SessionOf(kept[i]) = own
  <2>1. \A j \in 1..Len(all) : (pc[all[j]] \in Worded \/ all[j] = r) /\ SessionOf(all[j]) = own
    BY <1>1, <1>2, <1>4
  <2>2. ASSUME NEW i \in 1..Len(kept)
        PROVE  (pc[kept[i]] \in Worded \/ kept[i] = r) /\ SessionOf(kept[i]) = own
    <3>1. PICK j \in 1..Len(all) : kept[i] = all[j]
      BY <1>6
    <3>. HIDE DEF kept, all, own
    <3>. QED
      BY <2>1, <3>1
  <2>. QED
    BY <2>2
<1>9. Remembered(r) = [turns EXCEPT ![own] = kept]
  BY DEF Remembered
<1>. HIDE DEF kept
<1>10. Remembered(r)[own] = kept /\ DOMAIN kept = 1..Len(kept)
       /\ \A s \in AllSessions \ {own} : Remembered(r)[s] = turns[s] /\ turns[s] \in Seq(Requests)
  BY <1>1, <1>6, <1>9 DEF TypeOK
<1>. TAKE s \in AllSessions
<1>11. CASE s = own
  BY <1>6, <1>7, <1>8, <1>10, <1>11
<1>12. CASE s # own
  BY <1>10, <1>12 DEF RemembersAnswers, Worded
<1>. QED
  BY <1>11, <1>12

LEMMA MemoryStep == TypeOK /\ RemembersAnswers /\ [Next]_vars => RemembersAnswers'
<1>. SUFFICES ASSUME TypeOK, RemembersAnswers, [Next]_vars PROVE RemembersAnswers'
  OBVIOUS
<1>1. \A s \in AllSessions : turns[s] \in Seq(Requests)
  BY DEF TypeOK
<1>2. ASSUME turns' = turns, \A r \in Requests : pc[r] \in Worded => pc'[r] \in Worded
      PROVE  RemembersAnswers'
  BY <1>1, <1>2 DEF RemembersAnswers, Worded
<1>3. ASSUME NEW r \in Requests, NEW place, pc[r] \notin Worded, Goto(r, place), turns' = turns
      PROVE  RemembersAnswers'
  BY <1>2, <1>3 DEF Goto, TypeOK
<1>4. ASSUME NEW r \in Requests, Answer(r) \/ AnswerLost(r) PROVE RemembersAnswers'
  <2>1. /\ pc[r] = "answering" /\ turns' = Remembered(r)
        /\ \A q \in Requests : (pc[q] \in Worded \/ q = r) => pc'[q] \in Worded
    BY <1>4 DEF Answer, AnswerLost, Leave, Goto, TypeOK, Worded
  <2>. QED
    BY <2>1, RememberedOnce DEF RemembersAnswers, Worded
<1>5. ASSUME NEW r \in Requests, Ask(r) \/ Resolve(r) PROVE RemembersAnswers'
  BY <1>3, <1>5 DEF Worded, Ask, Resolve, Lookup, Leave, shared
<1>6. ASSUME NEW r \in Requests, Unparseable(r) \/ Generate(r) \/ Execute(r) \/ Timeout(r)
      PROVE  RemembersAnswers'
  BY <1>3, <1>6 DEF Worded, Unparseable, Generate, Execute, Timeout, Leave
<1>7. ASSUME NEW r \in Requests, Fail(r) \/ Cancel(r) PROVE RemembersAnswers'
  BY <1>3, <1>7 DEF Worded, Fail, Cancel, Leave, Waiting, shared
<1>8. ASSUME NEW s \in AllSessions, ClearSession(s) PROVE RemembersAnswers'
  <2>1. pc' = pc /\ turns' = [turns EXCEPT ![s] = <<>>]
    BY <1>8 DEF ClearSession, locals
  <2>2. DOMAIN <<>> = {}
    BY NoTurns
  <2>3. ASSUME NEW t \in AllSessions
        PROVE  /\ \A i, j \in DOMAIN turns'[t] : turns'[t][i] = turns'[t][j] => i = j
               /\ \A i \in DOMAIN turns'[t] : pc'[turns'[t][i]] \in Worded /\ SessionOf(turns'[t][i]) = t
    <3>1. CASE t = s
      BY <2>1, <2>2, <3>1 DEF TypeOK
    <3>2. CASE t # s
      BY <2>1, <3>2 DEF TypeOK, RemembersAnswers, Worded
    <3>. QED
      BY <3>1, <3>2
  <2>. QED
    BY <2>3 DEF RemembersAnswers, Worded
<1>9. CASE \/ GetSchema \/ UNCHANGED vars
           \/ \E k \in DOMAIN cache : Lose(k)
  BY <1>2, <1>9 DEF GetSchema, vars, Lose, locals
<1>. QED
  BY <1>4, <1>5, <1>6, <1>7, <1>8, <1>9 DEF Next, Step

\* A conversation holds each turn once, turns of its own session only, and only
\* of questions whose answer was worded, whether or not the result could then be
\* built of it (engine.py 188-213, 238).
THEOREM RemembersAnswersCorrect == Safety => []RemembersAnswers
<1>1. Init => MemoryInv
  <2>. SUFFICES ASSUME Init PROVE MemoryInv
    OBVIOUS
  <2>1. DOMAIN <<>> = {}
    BY NoTurns
  <2>2. \A s \in AllSessions : turns[s] = <<>>
    BY DEF Init
  <2>. QED
    BY <2>1, <2>2, TypeInit DEF MemoryInv, RemembersAnswers, Worded
<1>2. MemoryInv /\ [Next]_vars => MemoryInv'
  BY TypeStep, MemoryStep DEF MemoryInv
<1>3. MemoryInv => RemembersAnswers
  BY DEF MemoryInv
<1>. QED
  BY <1>1, <1>2, <1>3, PTL DEF Safety

-----------------------------------------------------------------------------
(* The audit.                                                              *)

\* A new entry is the last one, and takes at most the place of the one before.
LEMMA LogAdds ==
  ASSUME TypeOK, NEW q \in Requests, NEW success \in BOOLEAN, Log(q, success)
  PROVE  LET s == NameOf(q)
             n == Len(audit'[s])
         IN /\ \A t \in Names \ {s} : audit'[t] = audit[t]
            /\ n \in Nat \ {0} /\ DOMAIN audit'[s] = 1..n
            /\ audit'[s][n] = [by |-> q, success |-> success]
            /\ \A i \in DOMAIN audit[s] : i \in 1..n /\ (i = n \/ audit'[s][i] = audit[s][i])
            /\ \A i \in 1..n - 1 : i \in DOMAIN audit[s]
<1>. DEFINE s == NameOf(q)
            entry == [by |-> q, success |-> success]
            old == audit[s]
<1>1. s \in Names /\ entry \in Entries /\ old \in Seq(Entries) /\ Len(old) \in Nat /\ DOMAIN old = 1..Len(old)
  <2>1. s \in Names /\ entry \in Entries /\ old \in Seq(Entries)
    BY NameType DEF TypeOK, Entries
  <2>. HIDE DEF old
  <2>2. Len(old) \in Nat /\ DOMAIN old = 1..Len(old)
    BY <2>1
  <2>. QED
    BY <2>1, <2>2
<1>2. CASE audit' = [audit EXCEPT ![s] = Append(@, entry)]
  <2>1. audit'[s] = Append(old, entry) /\ \A t \in Names \ {s} : audit'[t] = audit[t]
    BY <1>1, <1>2 DEF TypeOK
  <2>. HIDE DEF s, entry
  <2>2. /\ Append(old, entry) \in Seq(Entries) /\ Len(Append(old, entry)) = Len(old) + 1
        /\ \A i \in 1..Len(old) : Append(old, entry)[i] = old[i]
        /\ Append(old, entry)[Len(old) + 1] = entry
    BY <1>1
  <2>. QED
    BY <1>1, <2>1, <2>2 DEF s, entry
<1>3. CASE old # <<>> /\ audit' = [audit EXCEPT ![s] = Append(Front(@), entry)]
  <2>1. audit'[s] = Append(Front(old), entry) /\ \A t \in Names \ {s} : audit'[t] = audit[t]
    BY <1>1, <1>3 DEF TypeOK
  <2>. HIDE DEF s, entry
  <2>2. Len(old) > 0
    BY <1>1, <1>3
  <2>3. /\ Front(old) \in Seq(Entries) /\ Len(Front(old)) = Len(old) - 1
        /\ \A i \in 1..Len(old) - 1 : Front(old)[i] = old[i]
    BY <1>1, <2>2 DEF Front
  <2>4. /\ Append(Front(old), entry) \in Seq(Entries) /\ Len(Append(Front(old), entry)) = Len(old)
        /\ \A i \in 1..Len(old) - 1 : Append(Front(old), entry)[i] = old[i]
        /\ Append(Front(old), entry)[Len(old)] = entry
    BY <1>1, <2>2, <2>3
  <2>. QED
    BY <1>1, <2>1, <2>2, <2>4 DEF s, entry
<1>. QED
  BY <1>2, <1>3 DEF Log

\* A request that logs a success is on file, and what another one had on file
\* goes only if both are filed under one name.
LEMMA LogKeeps ==
  ASSUME TypeOK, NEW q \in Requests, NEW success \in BOOLEAN, Log(q, success)
  PROVE  /\ success => OnFile(q)'
         /\ \A r \in Requests \ {q} : OnFile(r) /\ ~OnFile(r)' => NameOf(q) = NameOf(r)
         /\ \A r \in Requests \ {q} : OnFile(r)' => OnFile(r)
<1>. DEFINE s == NameOf(q)
            n == Len(audit'[s])
<1>1. /\ \A t \in Names \ {s} : audit'[t] = audit[t]
      /\ n \in Nat \ {0} /\ DOMAIN audit'[s] = 1..n
      /\ audit'[s][n] = [by |-> q, success |-> success]
      /\ \A i \in DOMAIN audit[s] : i \in 1..n /\ (i = n \/ audit'[s][i] = audit[s][i])
      /\ \A i \in 1..n - 1 : i \in DOMAIN audit[s]
  BY LogAdds
<1>. HIDE DEF n
<1>2. success => OnFile(q)'
  BY <1>1 DEF OnFile, NameOf, SessionOf
<1>3. ASSUME NEW r \in Requests, NameOf(r) # s PROVE OnFile(r) => OnFile(r)'
  BY <1>1, <1>3, NameType DEF OnFile, NameOf, SessionOf
<1>4. ASSUME NEW r \in Requests \ {q}, OnFile(r)' PROVE OnFile(r)
  <2>1. CASE NameOf(r) = s
    <3>1. PICK i \in 1..n : audit'[s][i] = [by |-> r, success |-> TRUE]
      BY <1>1, <1>4, <2>1 DEF OnFile, NameOf, SessionOf
    <3>2. i # n
      BY <1>1, <1>4, <3>1
    <3>3. i \in DOMAIN audit[s] /\ audit[s][i] = [by |-> r, success |-> TRUE]
      BY <1>1, <3>1, <3>2
    <3>. QED
      BY <2>1, <3>3 DEF OnFile
  <2>2. CASE NameOf(r) # s
    BY <1>1, <1>4, <2>2, NameType DEF OnFile, NameOf, SessionOf
  <2>. QED
    BY <2>1, <2>2
<1>. QED
  BY <1>2, <1>3, <1>4

\* Nothing is on file as a success before its statement ran.
Filed == \A r \in Requests : OnFile(r) => pc[r] \in {"answering"} \cup Outcomes

LEMMA FiledStep == TypeOK /\ Filed /\ [Next]_vars => Filed'
<1>. SUFFICES ASSUME TypeOK, Filed, [Next]_vars PROVE Filed'
  OBVIOUS
<1>1. ASSUME audit' = audit,
             \A r \in Requests : pc[r] \in {"answering"} \cup Outcomes => pc'[r] \in {"answering"} \cup Outcomes
      PROVE  Filed'
  BY <1>1 DEF Filed, OnFile, NameOf, SessionOf
<1>2. ASSUME NEW r \in Requests, NEW place, pc[r] \notin {"answering"} \cup Outcomes, Goto(r, place), audit' = audit
      PROVE  Filed'
  BY <1>1, <1>2 DEF Goto, TypeOK
<1>3. ASSUME NEW r \in Requests, NEW outcome \in Outcomes, Leave(r, outcome), audit' = audit PROVE Filed'
  BY <1>1, <1>3 DEF Leave, Goto, TypeOK
<1>4. ASSUME NEW r \in Requests, Ask(r) \/ Resolve(r) \/ Unparseable(r) \/ Generate(r) PROVE Filed'
  BY <1>2, <1>4 DEF Ask, Resolve, Unparseable, Generate, Lookup, Leave, shared, Outcomes
<1>5. ASSUME NEW r \in Requests, Answer(r) \/ AnswerLost(r) \/ Fail(r) \/ Cancel(r) PROVE Filed'
  BY <1>3, <1>5 DEF Answer, AnswerLost, Fail, Cancel, shared, Outcomes
<1>6. ASSUME NEW q \in Requests, Execute(q) \/ Timeout(q) PROVE Filed'
  <2>1. \A r \in Requests \ {q} : OnFile(r)' => OnFile(r)
    BY <1>6, LogKeeps DEF Execute, Timeout
  <2>2. pc'[q] \in {"answering"} \cup Outcomes /\ \A r \in Requests \ {q} : pc'[r] = pc[r]
    BY <1>6 DEF Execute, Timeout, Leave, Goto, TypeOK, Outcomes
  <2>. QED
    BY <2>1, <2>2 DEF Filed
<1>7. CASE \/ GetSchema \/ UNCHANGED vars
           \/ \E s \in AllSessions : ClearSession(s)
           \/ \E k \in DOMAIN cache : Lose(k)
  BY <1>1, <1>7 DEF GetSchema, ClearSession, vars, Lose, locals
<1>. QED
  BY <1>4, <1>5, <1>6, <1>7 DEF Next, Step

AuditedStep ==
  \A r \in Requests :
    /\ pc[r] = "executing" /\ pc'[r] = "answering" => OnFile(r)'
    /\ OnFile(r) /\ ~OnFile(r)' =>
         \E q \in Requests \ {r} :
           /\ NameOf(q) = NameOf(r)
           /\ pc[q] = "executing" /\ pc'[q] \in {"answering", "failed"}

LEMMA AuditStep == TypeOK /\ Filed /\ [Next]_vars => AuditedStep
<1>. SUFFICES ASSUME TypeOK, Filed, [Next]_vars PROVE AuditedStep
  OBVIOUS
<1>1. ASSUME audit' = audit,
             \A r \in Requests : pc[r] = "executing" => pc'[r] # "answering"
      PROVE  AuditedStep
  BY <1>1 DEF AuditedStep, OnFile, NameOf, SessionOf
<1>2. ASSUME NEW r \in Requests, NEW place, place # "answering", Goto(r, place), audit' = audit
      PROVE  AuditedStep
  BY <1>1, <1>2 DEF Goto, TypeOK
<1>3. ASSUME NEW r \in Requests, Ask(r) \/ Resolve(r) \/ Unparseable(r) \/ Generate(r) PROVE AuditedStep
  BY <1>2, <1>3 DEF Ask, Resolve, Unparseable, Generate, Lookup, Leave, shared
<1>4. ASSUME NEW r \in Requests, Answer(r) \/ AnswerLost(r) \/ Fail(r) \/ Cancel(r) PROVE AuditedStep
  BY <1>2, <1>4 DEF Answer, AnswerLost, Fail, Cancel, Leave, shared
<1>5. ASSUME NEW q \in Requests, Execute(q) PROVE AuditedStep
  <2>1. /\ OnFile(q)'
        /\ \A r \in Requests \ {q} : OnFile(r) /\ ~OnFile(r)' => NameOf(q) = NameOf(r)
    BY <1>5, LogKeeps DEF Execute
  <2>2. pc[q] = "executing" /\ pc'[q] = "answering" /\ \A r \in Requests \ {q} : pc'[r] = pc[r]
    BY <1>5 DEF Execute, Goto, TypeOK
  <2>. QED
    BY <2>1, <2>2 DEF AuditedStep
<1>6. ASSUME NEW q \in Requests, Timeout(q) PROVE AuditedStep
  <2>1. Log(q, FALSE) /\ pc[q] = "executing" /\ pc'[q] = "failed" /\ \A r \in Requests \ {q} : pc'[r] = pc[r]
    BY <1>6 DEF Timeout, Leave, Goto, TypeOK
  <2>2. \A r \in Requests \ {q} : OnFile(r) /\ ~OnFile(r)' => NameOf(q) = NameOf(r)
    BY <2>1, LogKeeps
  <2>3. ~OnFile(q)
    BY <2>1 DEF Filed, Outcomes
  <2>. QED
    BY <2>1, <2>2, <2>3 DEF AuditedStep
<1>7. CASE \/ GetSchema \/ UNCHANGED vars
           \/ \E s \in AllSessions : ClearSession(s)
           \/ \E k \in DOMAIN cache : Lose(k)
  BY <1>1, <1>7 DEF GetSchema, ClearSession, vars, Lose, locals
<1>. QED
  BY <1>3, <1>4, <1>5, <1>6, <1>7 DEF Next, Step

\* A statement that ran is on file when its answer is worded, and its entry goes
\* only in the step in which another request whose session id begins with the
\* same eight characters writes one (audit.py 33).
THEOREM AuditedCorrect == Safety => AuditedUnlessReplaced
<1>1. Init => Filed
  <2>. SUFFICES ASSUME Init, NEW r \in Requests PROVE ~OnFile(r)
    BY DEF Filed
  <2>. QED
    BY NameType, NoTurns DEF Init, OnFile
<1>2. TypeOK /\ Filed /\ [Next]_vars => [AuditedStep]_vars
  BY AuditStep
<1>. QED
  BY <1>1, <1>2, TypeCorrect, FiledStep, PTL DEF Safety, AuditedUnlessReplaced, AuditedStep
=============================================================================
