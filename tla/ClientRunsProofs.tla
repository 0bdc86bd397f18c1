--------------------------- MODULE ClientRunsProofs ---------------------------
(***************************************************************************)
(* Proofs about ClientRuns for any operations, however they are nested,    *)
(* any number of steps and of iterations.                                  *)
(***************************************************************************)
EXTENDS ClientRuns, FiniteSetTheorems, TLAPS

-----------------------------------------------------------------------------
(* What is nested in what.                                                 *)

\* Around[o] is the least set with o that is closed upward.
LEMMA AroundLeast ==
  ASSUME NEW o \in Ops
  PROVE  /\ o \in Around[o] /\ Around[o] \subseteq Ops /\ Upward(Around[o])
         /\ \A S \in SUBSET Ops : o \in S /\ Upward(S) => Around[o] \subseteq S
<1>1. Around[o] = {a \in Ops : \A S \in SUBSET Ops : o \in S /\ Upward(S) => a \in S}
  BY DEF Around
<1>2. \A x \in Ops : Parent[x] # NoOp => Parent[x] \in Ops
  BY ParentAssumption
<1>. QED
  BY <1>1, <1>2 DEF Upward

LEMMA AroundOf ==
  ASSUME NEW o \in Ops
  PROVE  /\ \A a \in Around[o] : Around[a] \subseteq Around[o]
         /\ Parent[o] = NoOp => Around[o] = {o}
         /\ Parent[o] # NoOp => Parent[o] \in Ops /\ Around[o] = {o} \cup Around[Parent[o]]
<1>1. \A a \in Around[o] : Around[a] \subseteq Around[o]
  BY AroundLeast
<1>2. ASSUME Parent[o] = NoOp PROVE Around[o] = {o}
  <2>1. Upward({o})
    BY <1>2 DEF Upward
  <2>. QED
    BY <2>1, AroundLeast
<1>3. ASSUME Parent[o] # NoOp PROVE Parent[o] \in Ops /\ Around[o] = {o} \cup Around[Parent[o]]
  <2>. DEFINE p == Parent[o]
  <2>1. p \in Ops /\ p \in Around[o]
    BY <1>3, AroundLeast, ParentAssumption DEF Upward
  <2>2. o \in {o} \cup Around[p] /\ {o} \cup Around[p] \in SUBSET Ops
    BY <2>1, AroundLeast
  <2>3. Upward({o} \cup Around[p])
    BY <2>1, AroundLeast DEF Upward
  <2>4. Around[o] \subseteq {o} \cup Around[p]
    BY <2>2, <2>3, AroundLeast
  <2>. QED
    BY <1>1, <2>1, <2>4, AroundLeast
<1>. QED
  BY <1>1, <1>2, <1>3

\* Nothing is nested in itself.
LEMMA Acyclic ==
  ASSUME NEW o \in Ops, Parent[o] # NoOp
  PROVE  o \notin Around[Parent[o]]
<1>. SUFFICES ASSUME o \in Around[Parent[o]] PROVE FALSE
  OBVIOUS
<1>. DEFINE S == {x \in Ops : o \in Around[x]}
<1>1. o \in S /\ Upward(S)
  <2>1. ASSUME NEW x \in S, Parent[x] # NoOp PROVE Parent[x] \in S
    BY <2>1, AroundOf
  <2>. QED
    BY <2>1, AroundLeast DEF Upward
<1>2. PICK r \in Around[o] : r \in Roots
  BY NestingAssumption
<1>3. r \in S
  BY <1>1, <1>2, AroundLeast
<1>4. Around[r] = {r}
  BY <1>2, AroundOf DEF Roots
<1>. QED
  BY <1>2, <1>3, <1>4 DEF Roots

LEMMA AroundAntisymmetric ==
  ASSUME NEW a \in Ops, NEW b \in Around[a], a \in Around[b]
  PROVE  a = b
<1>1. b \in Ops
  BY AroundLeast
<1>2. CASE Parent[a] = NoOp
  BY <1>2, AroundOf
<1>3. ASSUME Parent[a] # NoOp, a # b PROVE FALSE
  <2>1. b \in Around[Parent[a]] /\ Parent[a] \in Ops
    BY <1>3, AroundOf
  <2>2. a \in Around[Parent[a]]
    BY <1>1, <2>1, AroundOf
  <2>. QED
    BY <1>3, <2>2, Acyclic
<1>. QED
  BY <1>2, <1>3

\* What o is nested in is nested in one another.
Related(a, b) == a \in Around[b] \/ b \in Around[a]

LEMMA AroundChain ==
  ASSUME NEW o \in Ops, NEW a \in Around[o], NEW b \in Around[o]
  PROVE  Related(a, b)
<1>. DEFINE S == {x \in Around[o] : \A y \in Around[o] : Related(x, y)}
<1>1. o \in S
  BY AroundLeast DEF Related
<1>2. ASSUME NEW x \in S, Parent[x] # NoOp PROVE Parent[x] \in S
  <2>. DEFINE p == Parent[x]
  <2>1. x \in Ops /\ p \in Around[o] /\ p \in Around[x] /\ Around[x] = {x} \cup Around[p]
    BY <1>2, AroundLeast, AroundOf DEF Upward
  <2>2. ASSUME NEW y \in Around[o] PROVE Related(p, y)
    <3>1. CASE x \in Around[y]
      BY <2>1, <3>1, AroundLeast, AroundOf DEF Related
    <3>2. CASE y \in Around[x]
      BY <2>1, <3>2 DEF Related
    <3>. QED
      BY <3>1, <3>2 DEF Related
  <2>. QED
    BY <2>1, <2>2
<1>3. Around[o] \subseteq S
  <2>1. S \in SUBSET Ops /\ Upward(S)
    BY <1>2, AroundLeast DEF Upward
  <2>. QED
    BY <1>1, <2>1, AroundLeast
<1>. QED
  BY <1>3

\* The outermost operation around o is one called from outside, and the same
\* for all that o is nested in.
LEMMA RootOf ==
  ASSUME NEW o \in Ops
  PROVE  /\ Root(o) \in Roots /\ Root(o) \in Around[o]
         /\ \A r \in Roots : r \in Around[o] => r = Root(o)
         /\ \A a \in Around[o] : Root(a) = Root(o)
<1>1. Root(o) \in Roots /\ Root(o) \in Around[o]
  BY NestingAssumption DEF Root
<1>2. \A p \in Ops : \A r \in Roots : \A s \in Roots : r \in Around[p] /\ s \in Around[p] => r = s
  BY AroundChain, AroundOf DEF Related, Roots
<1>3. \A a \in Around[o] : a \in Ops /\ Root(a) \in Roots /\ Root(a) \in Around[o]
  BY NestingAssumption, AroundOf, AroundLeast DEF Root
<1>. QED
  BY <1>1, <1>2, <1>3

\* Of operations around o some one is the innermost, and some one the outermost.
LEMMA Innermost ==
  ASSUME NEW o \in Ops, NEW Q \in SUBSET Around[o], Q # {}
  PROVE  \E q \in Q : Q \subseteq Around[q]
<1>. SUFFICES ASSUME \A q \in Q : ~(Q \subseteq Around[q]) PROVE FALSE
  OBVIOUS
<1>. DEFINE S == {x \in Ops : Q \subseteq Around[x]}
<1>1. o \in S
  OBVIOUS
<1>2. ASSUME NEW x \in S, Parent[x] # NoOp PROVE Parent[x] \in S
  <2>1. x \notin Q /\ Around[x] = {x} \cup Around[Parent[x]] /\ Parent[x] \in Ops
    BY <1>2, AroundOf
  <2>. QED
    BY <2>1
<1>3. PICK r \in Around[o] : r \in Roots
  BY NestingAssumption
<1>4. r \in S
  <2>1. S \in SUBSET Ops /\ Upward(S)
    BY <1>2 DEF Upward
  <2>. QED
    BY <1>1, <1>3, <2>1, AroundLeast
<1>5. Around[r] = {r}
  BY <1>3, AroundOf DEF Roots
<1>. QED
  BY <1>4, <1>5

LEMMA Outermost ==
  ASSUME NEW o \in Ops, NEW Q \in SUBSET Around[o], Q # {}
  PROVE  \E q \in Q : \A c \in Q : q \in Around[c]
<1>. SUFFICES ASSUME \A q \in Q : \E c \in Q : q \notin Around[c] PROVE FALSE
  OBVIOUS
<1>. DEFINE S == {x \in Around[o] : \E y \in Q : y \in Around[x]}
<1>1. o \in S
  BY AroundLeast
<1>2. ASSUME NEW x \in S, Parent[x] # NoOp PROVE Parent[x] \in S
  <2>. DEFINE p == Parent[x]
  <2>1. x \in Ops /\ p \in Around[o] /\ Around[x] = {x} \cup Around[p]
    BY <1>2, AroundLeast, AroundOf DEF Upward
  <2>2. CASE x \in Q
    <3>1. PICK c \in Q : x \notin Around[c]
      BY <2>2
    <3>2. c \in Around[x] /\ c # x
      BY <2>1, <3>1, AroundChain, AroundLeast DEF Related
    <3>. QED
      BY <2>1, <3>2
  <2>3. CASE x \notin Q
    BY <2>1, <2>3
  <2>. QED
    BY <2>2, <2>3
<1>3. PICK r \in Around[o] : r \in Roots
  BY NestingAssumption
<1>4. r \in S
  <2>1. S \in SUBSET Ops /\ Upward(S)
    BY <1>2, AroundLeast DEF Upward
  <2>. QED
    BY <1>1, <1>3, <2>1, AroundLeast
<1>5. r \in Q
  BY <1>3, <1>4, AroundOf DEF Roots
<1>6. \A c \in Q : r \in Around[c]
  BY <1>3, <1>5, RootOf, AroundLeast, AroundOf
<1>. QED
  BY <1>5, <1>6
-----------------------------------------------------------------------------
(* The kinds of steps, as the nesting and the traces see them.             *)

RunningQueries(r) == {q \in Ops : Kind[q] = "query" /\ Running(q) /\ Root(q) = r}

\* The trace active when a query was called: that of the query around it.
TraceAround(o) == IF QueryAround(o) = NoOp THEN NoOp ELSE span[QueryAround(o)].trace

SameTraces == \A c \in Ops : span'[c].trace = span[c].trace

\* Outermost of the queries that end with o.
QueriesIn(o) == {c \in Ops : Kind[c] = "query" /\ Running(c) /\ o \in Around[c]}
Resets(o) ==
  IF QueriesIn(o) = {} THEN context' = context
  ELSE \E q \in QueriesIn(o) :
         /\ \A c \in QueriesIn(o) : q \in Around[c]
         /\ context' = [context EXCEPT ![Root(o)] = token[q]]

\* o ends, and with it what is nested in it.
Closing(o) ==
  /\ Running(o)
  /\ state' \in [Ops -> {"idle", "running"} \cup Ends]
  /\ \A c \in Ops : Running(c)' <=> Running(c) /\ o \notin Around[c]
  /\ \A c \in Ops : state'[c] = "idle" <=> state[c] = "idle"
  /\ span' \in [Ops -> [trace : Ops \cup {NoOp}, finished : {"no", "ok", "error"}]]
  /\ SameTraces
  /\ Resets(o)

\* Nothing nested outlives what it is nested in, was called before it, and
\* what runs in one task is nested in one another.
Nested ==
  /\ NothingOutlives
  /\ \A o \in Ops : state[o] # "idle" => \A a \in Around[o] : state[a] # "idle"
  /\ \A a \in Ops : \A b \in Ops : Running(a) /\ Running(b) /\ Root(a) = Root(b) => Related(a, b)

LEMMA RunningBelow ==
  ASSUME Nested, NEW o \in Ops, NEW c \in Ops, Running(c), Running(o), Root(c) = Root(o)
  PROVE  o \in Around[c] \/ c \in Around[o]
BY DEF Nested, Related

\* The queries that end with o have an outermost one.
LEMMA OutermostQuery ==
  ASSUME Nested, NEW o \in Ops, Running(o), QueriesIn(o) # {}
  PROVE  \E q \in QueriesIn(o) : \A c \in QueriesIn(o) : q \in Around[c]
<1>1. PICK p \in QueriesIn(o) : TRUE
  OBVIOUS
<1>. DEFINE Q == QueriesIn(o) \cap Around[p]
<1>2. p \in Ops /\ p \in Q
  BY <1>1, AroundLeast DEF QueriesIn
<1>3. PICK q \in Q : \A c \in Q : q \in Around[c]
  BY <1>2, Outermost
<1>4. ASSUME NEW c \in QueriesIn(o) PROVE q \in Around[c]
  <2>1. c \in Ops /\ Running(c) /\ Running(p) /\ Root(c) = Root(o) /\ Root(p) = Root(o)
    BY <1>1, RootOf DEF QueriesIn
  <2>2. CASE c \in Around[p]
    BY <1>3, <2>2
  <2>3. CASE p \in Around[c]
    BY <1>3, <2>1, <2>3, AroundOf
  <2>. QED
    BY <1>2, <2>1, <2>2, <2>3 DEF Nested, Related
<1>. QED
  BY <1>3, <1>4

LEMMA Spans ==
  ASSUME TypeOK, NEW o \in Ops
  PROVE  \A s \in {Finished(o), Marked(o), span} :
           /\ s \in [Ops -> [trace : Ops \cup {NoOp}, finished : {"no", "ok", "error"}]]
           /\ \A c \in Ops : s[c].trace = span[c].trace
<1>. DEFINE Span == [trace : Ops \cup {NoOp}, finished : {"no", "ok", "error"}]
<1>1. span \in [Ops -> Span]
  BY DEF TypeOK
<1>2. \A r \in Span : \A v \in {"ok", "error"} : [r EXCEPT !.finished = v] \in Span /\ [r EXCEPT !.finished = v].trace = r.trace
  OBVIOUS
<1>. HIDE DEF Span
<1>3. ASSUME NEW v \in {"ok", "error"}, NEW s, s = [span EXCEPT ![o].finished = v]
      PROVE  s \in [Ops -> Span] /\ \A c \in Ops : s[c].trace = span[c].trace
  BY <1>1, <1>2, <1>3
<1>4. /\ Finished(o) \in [Ops -> Span] /\ \A c \in Ops : Finished(o)[c].trace = span[c].trace
      /\ Marked(o) \in [Ops -> Span] /\ \A c \in Ops : Marked(o)[c].trace = span[c].trace
  BY <1>3 DEF Finished, Marked
<1>. QED
  BY <1>1, <1>4 DEF Span

LEMMA LeavesCloses ==
  ASSUME TypeOK, Nested, NEW o \in Ops, Turn(o), NEW end \in Ends,
         NEW s \in {Finished(o), Marked(o), span}, Leaves(o, end, s)
  PROVE  Closing(o)
<1>1. \A c \in Ops : Running(c) /\ o \in Around[c] => c = o
  BY DEF Turn, Below
<1>2. QueriesIn(o) = IF Kind[o] = "query" THEN {o} ELSE {}
  BY <1>1, AroundLeast DEF QueriesIn, Turn
<1>3. Resets(o)
  BY <1>2, AroundLeast DEF Leaves, Resets
<1>4. \A c \in Ops : state'[c] = IF c = o THEN end ELSE state[c]
  BY DEF Leaves, TypeOK
<1>5. state' \in [Ops -> {"idle", "running"} \cup Ends]
  BY DEF Leaves, TypeOK
<1>6. \A c \in Ops : Running(c)' <=> Running(c) /\ o \notin Around[c]
  BY <1>1, <1>4, AroundLeast DEF Running, Ends
<1>7. \A c \in Ops : state'[c] = "idle" <=> state[c] = "idle"
  BY <1>4 DEF Turn, Running, Ends
<1>. QED
  BY <1>3, <1>5, <1>6, <1>7, Spans DEF Closing, Turn, Leaves, SameTraces

LEMMA CancelCloses ==
  ASSUME TypeOK, Nested, NEW o \in Ops, Running(o), NEW end \in Ends,
         NEW s \in {Finished(o), Marked(o), span}, CancelBelow(o, end, s)
  PROVE  Closing(o)
<1>. DEFINE cancelled == {c \in Below(o) : Running(c)}
<1>1. \A c \in Ops : c \in cancelled <=> c # o /\ Running(c) /\ o \in Around[c]
  BY DEF Below
<1>2. QueriesIn(o) = {c \in cancelled \cup {o} : Kind[c] = "query"}
  BY <1>1, AroundLeast DEF QueriesIn, Below
<1>3. Resets(o)
  <2>1. CASE QueriesIn(o) = {}
    BY <1>2, <2>1 DEF CancelBelow, Resets
  <2>2. CASE QueriesIn(o) # {}
    <3>. DEFINE q == CHOOSE p \in QueriesIn(o) : \A c \in QueriesIn(o) : p \in Around[c]
    <3>1. q \in QueriesIn(o) /\ \A c \in QueriesIn(o) : q \in Around[c]
      BY <2>2, OutermostQuery
    <3>2. context' = [context EXCEPT ![Root(o)] = token[q]]
      BY <1>2, <2>2 DEF CancelBelow
    <3>. QED
      BY <2>2, <3>1, <3>2 DEF Resets
  <2>. QED
    BY <2>1, <2>2
<1>4. /\ \A c \in Ops : state'[c] = IF c = o THEN end ELSE IF c \in cancelled THEN "cancelled" ELSE state[c]
      /\ state' \in [Ops -> {"idle", "running"} \cup Ends]
  BY DEF CancelBelow, TypeOK, Ends
<1>5. \A c \in Ops : Running(c)' <=> Running(c) /\ o \notin Around[c]
  BY <1>1, <1>4, AroundLeast DEF Running, Ends
<1>6. \A c \in Ops : state'[c] = "idle" <=> state[c] = "idle"
  BY <1>1, <1>4 DEF Running, Ends
<1>. QED
  BY <1>3, <1>4, <1>5, <1>6, Spans DEF Closing, CancelBelow, SameTraces

\* A step but for a call ends an operation, or touches none of this.
LEMMA StepCloses ==
  ASSUME TypeOK, Nested, NEW o \in Ops, Query(o) \/ TaskEnds(o) \/ Workflow(o) \/ Loop(o) \/ Cancel(o)
  PROVE  /\ token' = token /\ tracer' = tracer
         /\ Closing(o) \/ UNCHANGED <<state, span, context>>
<1>. {"completed", "failed", "timeout", "max_iterations", "raised", "cancelled"} \subseteq Ends
  BY DEF Ends
<1>1. CASE Query(o)
  BY <1>1, LeavesCloses, CancelCloses DEF Query, QueryExecutes, QueryReturns, QueryFails, QueryTimesOut, Same
<1>2. CASE TaskEnds(o)
  BY <1>2, LeavesCloses DEF TaskEnds, Same
<1>3. CASE Workflow(o)
  <2>1. CASE StepSkipped(o) \/ StepEnds(o)
    BY <2>1 DEF StepSkipped, StepEnds, Stays
  <2>2. CASE SkipRaises(o) \/ WorkflowReturns(o)
    BY <2>2, LeavesCloses DEF SkipRaises, WorkflowReturns, Same
  <2>3. CASE StepFails(o)
    BY <2>3, CancelCloses DEF StepFails, AtStep
  <2>. QED
    BY <1>3, <2>1, <2>2, <2>3 DEF Workflow
<1>4. CASE Loop(o)
  <2>1. CASE Iterate(o)
    BY <2>1 DEF Iterate, Stays
  <2>2. CASE LoopCompletes(o) \/ LoopStepFails(o) \/ LoopCheckFails(o) \/ LoopExhausted(o)
    BY <2>2, LeavesCloses DEF LoopCompletes, LoopStepFails, LoopCheckFails, LoopExhausted, Same
  <2>3. CASE LoopTimesOut(o)
    BY <2>3, CancelCloses DEF LoopTimesOut, AtIteration, Same
  <2>. QED
    BY <1>4, <2>1, <2>2, <2>3 DEF Loop
<1>5. CASE Cancel(o)
  BY <1>5, CancelCloses DEF Cancel, Same
<1>. QED
  BY <1>1, <1>2, <1>3, <1>4, <1>5

-----------------------------------------------------------------------------
(* Nothing nested outlives what it is nested in.                           *)

LEMMA ClosingNested ==
  ASSUME Nested, NEW o \in Ops, Closing(o)
  PROVE  Nested'
<1>1. NothingOutlives'
  <2>. SUFFICES ASSUME NEW c \in Ops, Running(c)', NEW a \in Around[c] PROVE Running(a)'
    BY DEF NothingOutlives
  <2>1. Running(c) /\ o \notin Around[c] /\ a \in Ops
    BY AroundLeast DEF Closing
  <2>2. Running(a) /\ o \notin Around[a]
    BY <2>1, AroundOf DEF Nested, NothingOutlives
  <2>. QED
    BY <2>1, <2>2 DEF Closing
<1>2. \A c \in Ops : state'[c] # "idle" => \A a \in Around[c] : state'[a] # "idle"
  BY AroundLeast DEF Nested, Closing
<1>3. \A a \in Ops : \A b \in Ops : Running(a)' /\ Running(b)' /\ Root(a) = Root(b) => Related(a, b)
  BY DEF Nested, Closing
<1>. QED
  BY <1>1, <1>2, <1>3 DEF Nested, Root, Related

\* What runs in the task of an operation that is called is around it.
LEMMA CalledInside ==
  ASSUME Nested, NEW o \in Ops, Call(o), NEW c \in Ops, Running(c), Root(c) = Root(o)
  PROVE  c \in Around[o] \ {o}
<1>1. c # o
  BY DEF Call, Running
<1>2. CASE Parent[o] = NoOp
  <2>1. o \in Around[c]
    BY <1>2, AroundOf, RootOf
  <2>. QED
    BY <2>1 DEF Nested, NothingOutlives, Call, Running
<1>3. CASE Parent[o] # NoOp
  <2>. DEFINE p == Parent[o]
  <2>1. p \in Ops /\ Around[o] = {o} \cup Around[p] /\ Turn(p)
    BY <1>3, AroundOf DEF Call
  <2>2. Running(p) /\ Root(p) = Root(o)
    BY <2>1, AroundLeast, RootOf DEF Turn
  <2>3. p \in Around[c] => c = p
    BY <2>1 DEF Turn, Below
  <2>4. c \in Around[p]
    BY <2>1, <2>2, <2>3, RunningBelow, AroundLeast
  <2>. QED
    BY <1>1, <2>1, <2>4
<1>. QED
  BY <1>2, <1>3

LEMMA AroundCalled ==
  ASSUME Nested, NEW o \in Ops, Call(o), NEW a \in Around[o] \ {o}
  PROVE  Running(a) /\ Root(a) = Root(o)
<1>1. Parent[o] # NoOp /\ Parent[o] \in Ops /\ a \in Around[Parent[o]]
  BY AroundOf
<1>2. Running(Parent[o])
  BY <1>1 DEF Call, Turn
<1>. QED
  BY <1>1, <1>2, RootOf DEF Nested, NothingOutlives

LEMMA CallNested ==
  ASSUME TypeOK, Nested, NEW o \in Ops, Call(o)
  PROVE  Nested'
<1>1. \A c \in Ops : state'[c] = IF c = o THEN "running" ELSE state[c]
  BY DEF Call, TypeOK
<1>2. \A c \in Ops : Running(c)' <=> Running(c) \/ c = o
  BY <1>1 DEF Running
<1>3. NothingOutlives'
  <2>. SUFFICES ASSUME NEW c \in Ops, Running(c)', NEW a \in Around[c] PROVE Running(a)'
    BY DEF NothingOutlives
  <2>1. a \in Ops
    BY AroundLeast
  <2>2. CASE c = o
    BY <1>2, <2>1, <2>2, AroundCalled
  <2>3. CASE c # o
    BY <1>2, <2>1, <2>3 DEF Nested, NothingOutlives
  <2>. QED
    BY <2>2, <2>3
<1>4. \A c \in Ops : state'[c] # "idle" => \A a \in Around[c] : state'[a] # "idle"
  <2>. SUFFICES ASSUME NEW c \in Ops, state'[c] # "idle", NEW a \in Around[c] PROVE state'[a] # "idle"
    OBVIOUS
  <2>1. a \in Ops
    BY AroundLeast
  <2>2. CASE c = o
    BY <1>1, <2>1, <2>2, AroundCalled DEF Running
  <2>3. CASE c # o
    BY <1>1, <2>1, <2>3 DEF Nested
  <2>. QED
    BY <2>2, <2>3
<1>5. \A a \in Ops : \A b \in Ops : Running(a)' /\ Running(b)' /\ Root(a) = Root(b) => Related(a, b)
  BY <1>2, CalledInside, AroundLeast DEF Nested, Related
<1>. QED
  BY <1>3, <1>4, <1>5 DEF Nested, Root, Related

LEMMA NestedStep == TypeOK /\ Nested /\ [Next]_vars => Nested'
<1>. SUFFICES ASSUME TypeOK, Nested, [Next]_vars PROVE Nested'
  OBVIOUS
<1>1. CASE UNCHANGED state
  BY <1>1 DEF Nested, NothingOutlives, Running, Related, Root
<1>2. ASSUME NEW o \in Ops, Call(o) PROVE Nested'
  BY <1>2, CallNested
<1>3. ASSUME NEW o \in Ops, Query(o) \/ TaskEnds(o) \/ Workflow(o) \/ Loop(o) \/ Cancel(o) PROVE Nested'
  BY <1>1, <1>3, StepCloses, ClosingNested
<1>4. CASE UNCHANGED vars
  BY <1>1, <1>4 DEF vars
<1>. QED
  BY <1>2, <1>3, <1>4 DEF Next

-----------------------------------------------------------------------------
(* Types.                                                                  *)

HistoryType ==
  /\ done \in [Ops -> Seq({"completed", "skipped", "failed"})]
  /\ \A o \in Ops : index[o] \in 0..(IF Kind[o] = "loop" THEN MaxIterations ELSE Steps)

LEMMA HistoryStep ==
  ASSUME HistoryType, index = [o \in Ops |-> index[o]], NEW o \in Ops,
         Query(o) \/ TaskEnds(o) \/ Workflow(o) \/ Loop(o) \/ Cancel(o)
  PROVE  HistoryType' /\ index' = [p \in Ops |-> index'[p]]
<1>1. \A d \in {"completed", "skipped", "failed"} :
        Note(o, d) => done' \in [Ops -> Seq({"completed", "skipped", "failed"})]
  BY DEF HistoryType, Note
<1>2. ASSUME Advance(o),
             \/ Kind[o] = "loop" /\ index[o] < MaxIterations
             \/ Kind[o] = "workflow" /\ index[o] < Steps
      PROVE  /\ \A p \in Ops : index'[p] \in 0..(IF Kind[p] = "loop" THEN MaxIterations ELSE Steps)
             /\ index' = [p \in Ops |-> index'[p]]
  <2>1. index'[o] = index[o] + 1 /\ \A p \in Ops \ {o} : index'[p] = index[p]
    BY <1>2 DEF Advance
  <2>2. index[o] \in 0..(IF Kind[o] = "loop" THEN MaxIterations ELSE Steps)
    BY DEF HistoryType
  <2>3. index'[o] \in 0..(IF Kind[o] = "loop" THEN MaxIterations ELSE Steps)
    BY <1>2, <2>1, <2>2, BoundsAssumption
  <2>. QED
    BY <1>2, <2>1, <2>3 DEF HistoryType, Advance
<1>3. CASE Query(o) \/ TaskEnds(o) \/ Cancel(o)
  BY <1>3 DEF Query, QueryExecutes, QueryReturns, QueryFails, QueryTimesOut, TaskEnds, Cancel, Same, HistoryType
<1>4. CASE Workflow(o)
  <2>1. CASE StepSkipped(o)
    BY <1>2, <2>1 DEF StepSkipped, AtStep, Steppable, HistoryType
  <2>2. CASE SkipRaises(o) \/ WorkflowReturns(o)
    BY <2>2 DEF SkipRaises, WorkflowReturns, Same, HistoryType
  <2>3. CASE StepEnds(o)
    BY <1>1, <1>2, <2>3 DEF StepEnds, AtStep, Steppable, HistoryType
  <2>4. CASE StepFails(o)
    BY <1>1, <2>4 DEF StepFails, HistoryType
  <2>. QED
    BY <1>4, <2>1, <2>2, <2>3, <2>4 DEF Workflow
<1>5. CASE Loop(o)
  <2>1. CASE Iterate(o) \/ LoopCompletes(o)
    BY <1>1, <1>2, <2>1 DEF Iterate, LoopCompletes, AtIteration, Steppable, HistoryType
  <2>2. CASE LoopStepFails(o) \/ LoopTimesOut(o) \/ LoopExhausted(o)
    BY <2>2 DEF LoopStepFails, LoopTimesOut, LoopExhausted, Same, HistoryType
  <2>3. CASE LoopCheckFails(o)
    BY <1>1, <2>3 DEF LoopCheckFails, HistoryType
  <2>. QED
    BY <1>5, <2>1, <2>2, <2>3 DEF Loop
<1>. QED
  BY <1>3, <1>4, <1>5

TypeInv == TypeOK /\ index = [o \in Ops |-> index[o]]

LEMMA CallStarts ==
  ASSUME TypeOK, NEW o \in Ops
  PROVE  /\ Started(o) \in [trace : Ops, finished : {"no"}]
         /\ context[Root(o)] \in Ops \cup {NoOp}
         /\ Started(o).trace = IF tracer = "memory" /\ context[Root(o)] # NoOp THEN context[Root(o)] ELSE o
<1>1. context[Root(o)] \in Ops \cup {NoOp}
  BY RootOf DEF TypeOK
<1>. QED
  BY <1>1 DEF Started, NoSpan

\* A step but for a call takes up one query at most that is executed.
LEMMA ExecutingStep ==
  ASSUME NEW o \in Ops, Query(o) \/ TaskEnds(o) \/ Workflow(o) \/ Loop(o) \/ Cancel(o)
  PROVE  executing' \subseteq executing \cup {o}
<1>1. \A end, s : Leaves(o, end, s) \/ CancelBelow(o, end, s) => executing' \subseteq executing
  BY DEF Leaves, CancelBelow
<1>2. CASE Query(o) \/ TaskEnds(o) \/ Cancel(o)
  BY <1>1, <1>2 DEF Query, QueryExecutes, QueryReturns, QueryFails, QueryTimesOut, TaskEnds, Cancel
<1>3. CASE Workflow(o)
  BY <1>1, <1>3 DEF Workflow, StepSkipped, SkipRaises, StepEnds, StepFails, WorkflowReturns, Stays
<1>4. CASE Loop(o)
  BY <1>1, <1>4 DEF Loop, Iterate, LoopCompletes, LoopStepFails, LoopCheckFails, LoopTimesOut, LoopExhausted, Stays
<1>. QED
  BY <1>2, <1>3, <1>4

LEMMA TypeStep == TypeInv /\ Nested /\ [Next]_vars => TypeInv'
<1>. SUFFICES ASSUME TypeInv, Nested, [Next]_vars PROVE TypeInv'
  OBVIOUS
<1>1. TypeOK /\ HistoryType
  BY DEF TypeInv, TypeOK, HistoryType
<1>2. ASSUME NEW o \in Ops, Call(o) PROVE TypeInv'
  <2>1. span' = [span EXCEPT ![o] = Started(o)] /\ state' = [state EXCEPT ![o] = "running"]
    BY <1>2 DEF Call
  <2>2. span' \in [Ops -> [trace : Ops \cup {NoOp}, finished : {"no", "ok", "error"}]]
    BY <1>1, <2>1, CallStarts DEF TypeOK
  <2>3. token' \in [Ops -> Ops \cup {NoOp}] /\ context' \in [Roots -> Ops \cup {NoOp}]
    BY <1>1, <1>2, CallStarts DEF Call, TypeOK
  <2>. QED
    BY <1>2, <2>1, <2>2, <2>3 DEF Call, TypeInv, TypeOK
<1>3. ASSUME NEW o \in Ops, Query(o) \/ TaskEnds(o) \/ Workflow(o) \/ Loop(o) \/ Cancel(o) PROVE TypeInv'
  <2>1. HistoryType' /\ index' = [p \in Ops |-> index'[p]]
    BY <1>1, <1>3, HistoryStep DEF TypeInv
  <2>2. token' = token /\ tracer' = tracer /\ (Closing(o) \/ UNCHANGED <<state, span, context>>)
    BY <1>1, <1>3, StepCloses
  <2>3. ASSUME Closing(o) PROVE context' \in [Roots -> Ops \cup {NoOp}]
    <3>1. \A q \in QueriesIn(o) : token[q] \in Ops \cup {NoOp}
      BY <1>1 DEF TypeOK, QueriesIn
    <3>. QED
      BY <1>1, <2>3, <3>1 DEF Closing, Resets, TypeOK
  <2>4. executing' \subseteq Ops
    BY <1>1, <1>3, ExecutingStep DEF TypeOK
  <2>. QED
    BY <1>1, <2>1, <2>2, <2>3, <2>4 DEF TypeInv, TypeOK, HistoryType, Closing
<1>4. CASE UNCHANGED vars
  BY <1>4 DEF vars, TypeInv, TypeOK
<1>. QED
  BY <1>2, <1>3, <1>4 DEF Next

LEMMA TypeInit == Init => TypeInv /\ Nested
<1>. SUFFICES ASSUME Init PROVE TypeInv /\ Nested
  OBVIOUS
<1>1. TypeInv
  BY BoundsAssumption DEF Init, TypeInv, TypeOK, NoSpan
<1>2. Nested
  BY AroundLeast DEF Init, Nested, NothingOutlives, Running
<1>. QED
  BY <1>1, <1>2

\* States, spans, trace ids and histories are what they should be, whatever
\* is nested in what.
THEOREM TypeCorrect == Spec => []TypeOK
<1>1. TypeInv /\ Nested /\ [Next]_vars => TypeInv' /\ Nested'
  BY TypeStep, NestedStep DEF TypeInv
<1>2. TypeInv => TypeOK
  BY DEF TypeInv
<1>. QED
  BY <1>1, <1>2, TypeInit, PTL DEF Spec

\* Nothing nested outlives the operation it is nested in, timeouts and
\* cancellations included.
THEOREM NothingOutlivesCorrect == Spec => []NothingOutlives
<1>1. TypeInv /\ Nested /\ [Next]_vars => TypeInv' /\ Nested'
  BY TypeStep, NestedStep DEF TypeInv
<1>2. Nested => NothingOutlives
  BY DEF Nested
<1>. QED
  BY <1>1, <1>2, TypeInit, PTL DEF Spec

-----------------------------------------------------------------------------
(* The spans of one trace are nested.                                      *)

\* The active trace of a task is that of its innermost running query; what a
\* running query resets it to is that of the query around.
TracesInv ==
  /\ TracesAreNested
  /\ \A o \in Ops : state[o] # "idle" => span[o].trace \in Ops
  /\ \A q \in Ops : Kind[q] = "query" /\ Running(q) => token[q] = TraceAround(q)
  /\ \A r \in Roots :
       /\ RunningQueries(r) = {} => context[r] = NoOp
       /\ \A q \in RunningQueries(r) : RunningQueries(r) \subseteq Around[q] => context[r] = span[q].trace

QueriesAround(o) == {q \in Around[o] \ {o} : Kind[q] = "query"}

LEMMA NearestQuery ==
  ASSUME NEW o \in Ops
  PROVE  /\ QueriesAround(o) = {} => QueryAround(o) = NoOp
         /\ QueriesAround(o) # {} => /\ QueryAround(o) \in QueriesAround(o) /\ QueryAround(o) # NoOp
                                     /\ QueriesAround(o) \subseteq Around[QueryAround(o)]
         /\ \A q \in QueriesAround(o) : QueriesAround(o) \subseteq Around[q] => QueryAround(o) = q
<1>1. QueryAround(o) = IF QueriesAround(o) = {} THEN NoOp
                       ELSE CHOOSE q \in QueriesAround(o) : QueriesAround(o) \subseteq Around[q]
  BY DEF QueryAround, QueriesAround
<1>2. QueriesAround(o) \subseteq Around[o] /\ QueriesAround(o) \subseteq Ops
  BY AroundLeast DEF QueriesAround
<1>3. QueriesAround(o) # {} => \E q \in QueriesAround(o) : QueriesAround(o) \subseteq Around[q]
  BY <1>2, Innermost
<1>. HIDE DEF QueriesAround
<1>4. QueriesAround(o) # {} => /\ QueryAround(o) \in QueriesAround(o)
                               /\ QueriesAround(o) \subseteq Around[QueryAround(o)]
  BY <1>1, <1>3
<1>5. \A q \in QueriesAround(o) : QueriesAround(o) \subseteq Around[q] => QueryAround(o) = q
  BY <1>2, <1>4, AroundAntisymmetric
<1>. QED
  BY <1>1, <1>2, <1>4, <1>5, ParentAssumption

LEMMA TraceAroundStays ==
  ASSUME NEW o \in Ops, \A q \in QueriesAround(o) : span'[q].trace = span[q].trace
  PROVE  TraceAround(o)' = TraceAround(o)
BY NearestQuery DEF TraceAround, QueryAround

LEMMA ClosingTraces ==
  ASSUME TypeOK, Nested, TracesInv, NEW o \in Ops, Closing(o), token' = token, tracer' = tracer
  PROVE  TracesInv'
<1>1. \A c \in Ops : TraceAround(c)' = TraceAround(c)
  BY TraceAroundStays, AroundLeast DEF Closing, SameTraces, QueriesAround
<1>2. \A c \in Ops : Running(c)' <=> Running(c) /\ o \notin Around[c]
  BY DEF Closing
<1>3. \A c \in Ops : (state'[c] = "idle" <=> state[c] = "idle") /\ span'[c].trace = span[c].trace
  BY DEF Closing, SameTraces
<1>4. TracesAreNested'
  <2>. SUFFICES ASSUME NEW c \in Ops, state'[c] # "idle"
       PROVE  span'[c].trace = IF tracer' = "memory" /\ QueryAround(c) # NoOp THEN span'[QueryAround(c)].trace ELSE c
    BY DEF TracesAreNested, QueryAround
  <2>1. QueryAround(c) = NoOp \/ QueryAround(c) \in Ops
    BY NearestQuery, AroundLeast DEF QueriesAround
  <2>. QED
    BY <1>3, <2>1 DEF TracesInv, TracesAreNested
<1>5. ASSUME NEW r \in Roots, RunningQueries(r)' # RunningQueries(r) \/ context'[r] # context[r]
      PROVE  r = Root(o) /\ QueriesIn(o) # {}
  <2>1. CASE context'[r] # context[r]
    BY <2>1 DEF Closing, Resets, TypeOK
  <2>2. CASE RunningQueries(r)' # RunningQueries(r)
    <3>1. PICK c \in Ops : Kind[c] = "query" /\ Running(c) /\ o \in Around[c] /\ Root(c) = r
      BY <1>2, <2>2 DEF RunningQueries, Root
    <3>. QED
      BY <3>1, RootOf DEF QueriesIn
  <2>. QED
    BY <1>5, <2>1, <2>2
<1>6. ASSUME QueriesIn(o) # {}
      PROVE  \E q \in Ops : /\ RunningQueries(Root(o))' = QueriesAround(q)
                            /\ context'[Root(o)] = TraceAround(q)
  <2>1. PICK q \in QueriesIn(o) :
          /\ \A c \in QueriesIn(o) : q \in Around[c]
          /\ context' = [context EXCEPT ![Root(o)] = token[q]]
    BY <1>6 DEF Closing, Resets
  <2>2. q \in Ops /\ Kind[q] = "query" /\ Running(q) /\ o \in Around[q] /\ Root(q) = Root(o) /\ Running(o)
    BY <2>1, RootOf DEF QueriesIn, Closing
  <2>3. context'[Root(o)] = TraceAround(q)
    BY <2>1, <2>2, RootOf DEF TracesInv, TypeOK
  <2>4. ASSUME NEW c \in QueriesAround(q)
        PROVE  c \in RunningQueries(Root(o))'
    <3>1. c \in Ops /\ c \in Around[q] /\ c # q /\ Kind[c] = "query" /\ Running(c) /\ Root(c) = Root(o)
      BY <2>2, AroundLeast, RootOf DEF QueriesAround, Nested, NothingOutlives
    <3>2. o \notin Around[c]
      BY <2>1, <2>2, <3>1, AroundAntisymmetric DEF QueriesIn
    <3>. QED
      BY <1>2, <3>1, <3>2 DEF RunningQueries, Root
  <2>5. ASSUME NEW c \in RunningQueries(Root(o))'
        PROVE  c \in QueriesAround(q)
    <3>1. c \in Ops /\ Kind[c] = "query" /\ Running(c) /\ o \notin Around[c] /\ Root(c) = Root(o)
      BY <1>2 DEF RunningQueries, Root
    <3>2. c \in Around[o]
      BY <2>2, <3>1, RunningBelow
    <3>. QED
      BY <2>2, <3>1, <3>2, AroundOf DEF QueriesAround
  <2>6. RunningQueries(Root(o))' = QueriesAround(q)
    BY <2>4, <2>5
  <2>. QED
    BY <2>2, <2>3, <2>6
<1>7. ASSUME NEW r \in Roots
      PROVE  /\ RunningQueries(r)' = {} => context'[r] = NoOp
             /\ \A q \in RunningQueries(r)' : RunningQueries(r)' \subseteq Around[q] => context'[r] = span'[q].trace
  <2>1. CASE RunningQueries(r)' = RunningQueries(r) /\ context'[r] = context[r]
    BY <1>3, <2>1 DEF TracesInv, RunningQueries
  <2>2. CASE r = Root(o) /\ QueriesIn(o) # {}
    <3>1. PICK q \in Ops : /\ RunningQueries(r)' = QueriesAround(q)
                           /\ context'[r] = TraceAround(q)
      BY <1>6, <2>2
    <3>2. QueriesAround(q) = {} => TraceAround(q) = NoOp
      BY NearestQuery DEF TraceAround
    <3>3. \A p \in QueriesAround(q) : QueriesAround(q) \subseteq Around[p] => TraceAround(q) = span'[p].trace
      BY <1>3, NearestQuery, AroundLeast DEF TraceAround, QueriesAround
    <3>. QED
      BY <3>1, <3>2, <3>3
  <2>. QED
    BY <1>5, <2>1, <2>2
<1>8. /\ \A c \in Ops : state'[c] # "idle" => span'[c].trace \in Ops
      /\ \A q \in Ops : Kind[q] = "query" /\ Running(q)' => token'[q] = TraceAround(q)'
  BY <1>1, <1>2, <1>3 DEF TracesInv
<1>. QED
  BY <1>4, <1>7, <1>8 DEF TracesInv

LEMMA CallTraces ==
  ASSUME TypeOK, Nested, TracesInv, NEW o \in Ops, Call(o)
  PROVE  TracesInv'
<1>. DEFINE r == Root(o)
<1>1. r \in Roots /\ state[o] = "idle"
  BY RootOf DEF Call
<1>2. \A c \in Ops : state'[c] = IF c = o THEN "running" ELSE state[c]
  BY DEF Call, TypeOK
<1>3. \A c \in Ops : span'[c] = IF c = o THEN Started(o) ELSE span[c]
  BY DEF Call, TypeOK
<1>4. \A c \in Ops : Running(c)' <=> Running(c) \/ c = o
  BY <1>2 DEF Running
<1>5. RunningQueries(r) = QueriesAround(o)
  BY CalledInside, AroundCalled, AroundLeast DEF RunningQueries, QueriesAround
<1>6. context[r] = TraceAround(o)
  BY <1>1, <1>5, NearestQuery DEF TracesInv, TraceAround
<1>7. QueryAround(o) # NoOp => QueryAround(o) \in Ops /\ Running(QueryAround(o))
  BY NearestQuery, AroundCalled, AroundLeast DEF QueriesAround
<1>8. \A c \in Ops : state[c] # "idle" => o \notin QueriesAround(c)
  BY <1>1 DEF Nested, QueriesAround
<1>9. \A c \in Ops : state[c] # "idle" => TraceAround(c)' = TraceAround(c)
  BY <1>3, <1>8, TraceAroundStays, AroundLeast DEF QueriesAround
<1>10. TraceAround(o)' = TraceAround(o)
  BY <1>3, TraceAroundStays, AroundLeast DEF QueriesAround
<1>11. Started(o).trace = (IF tracer = "memory" /\ QueryAround(o) # NoOp THEN span[QueryAround(o)].trace ELSE o)
  <2>1. QueryAround(o) # NoOp => context[r] \in Ops /\ context[r] = span[QueryAround(o)].trace
    BY <1>6, <1>7 DEF TraceAround, TracesInv, Running
  <2>2. QueryAround(o) = NoOp => context[r] = NoOp
    BY <1>6 DEF TraceAround
  <2>. QED
    BY <2>1, <2>2, CallStarts, ParentAssumption
<1>12. TracesAreNested'
  <2>. SUFFICES ASSUME NEW c \in Ops, state'[c] # "idle"
       PROVE  span'[c].trace = IF tracer' = "memory" /\ QueryAround(c) # NoOp THEN span'[QueryAround(c)].trace ELSE c
    BY DEF TracesAreNested, QueryAround
  <2>1. tracer' = tracer
    BY DEF Call
  <2>2. CASE c = o
    <3>1. QueryAround(o) # NoOp => span'[QueryAround(o)] = span[QueryAround(o)]
      BY <1>1, <1>3, <1>7 DEF Running
    <3>. QED
      BY <1>3, <1>11, <2>1, <2>2, <3>1
  <2>3. CASE c # o
    <3>1. state[c] # "idle" /\ span'[c] = span[c]
      BY <1>2, <1>3, <2>3
    <3>2. QueryAround(c) # NoOp => QueryAround(c) \in Ops /\ QueryAround(c) # o
      BY <1>8, <3>1, NearestQuery, AroundLeast DEF QueriesAround
    <3>. QED
      BY <1>3, <2>1, <3>1, <3>2 DEF TracesInv, TracesAreNested
  <2>. QED
    BY <2>2, <2>3
<1>13. \A c \in Ops : state'[c] # "idle" => span'[c].trace \in Ops
  BY <1>2, <1>3, CallStarts DEF TracesInv
<1>14. ASSUME NEW q \in Ops, Kind[q] = "query", Running(q)'
       PROVE  token'[q] = TraceAround(q)'
  <2>1. CASE q = o
    BY <1>6, <1>10, <1>14, <2>1 DEF Call, TypeOK
  <2>2. CASE q # o
    <3>1. Running(q) /\ token'[q] = token[q]
      BY <1>4, <1>14, <2>2 DEF Call, TypeOK
    <3>. QED
      BY <1>9, <1>14, <3>1 DEF TracesInv, Running
  <2>. QED
    BY <2>1, <2>2
<1>15. ASSUME NEW s \in Roots
       PROVE  /\ RunningQueries(s)' = {} => context'[s] = NoOp
              /\ \A q \in RunningQueries(s)' : RunningQueries(s)' \subseteq Around[q] => context'[s] = span'[q].trace
  <2>1. CASE s = r /\ Kind[o] = "query"
    <3>1. RunningQueries(s)' = QueriesAround(o) \cup {o}
      BY <1>4, <1>5, <2>1 DEF RunningQueries, Root
    <3>2. context'[s] = Started(o).trace
      BY <1>1, <2>1 DEF Call, TypeOK
    <3>3. \A q \in QueriesAround(o) : o \notin Around[q]
      BY AroundAntisymmetric DEF QueriesAround
    <3>. QED
      BY <1>3, <3>1, <3>2, <3>3
  <2>2. CASE ~(s = r /\ Kind[o] = "query")
    <3>1. RunningQueries(s)' = RunningQueries(s)
      BY <1>1, <1>4, <2>2 DEF RunningQueries, Root, Running
    <3>2. context'[s] = context[s]
      BY <2>2 DEF Call, TypeOK
    <3>3. \A q \in RunningQueries(s) : span'[q] = span[q]
      BY <1>1, <1>3 DEF RunningQueries, Running
    <3>. QED
      BY <3>1, <3>2, <3>3 DEF TracesInv
  <2>. QED
    BY <2>1, <2>2
<1>. QED
  BY <1>12, <1>13, <1>14, <1>15 DEF TracesInv

LEMMA TracesStep == TypeOK /\ Nested /\ TracesInv /\ [Next]_vars => TracesInv'
<1>. SUFFICES ASSUME TypeOK, Nested, TracesInv, [Next]_vars PROVE TracesInv'
  OBVIOUS
<1>1. CASE UNCHANGED <<tracer, state, span, context, token>>
  <2>1. TracesAreNested'
    BY <1>1 DEF TracesInv, TracesAreNested, QueryAround
  <2>2. \A o \in Ops : TraceAround(o)' = TraceAround(o)
    BY <1>1, TraceAroundStays
  <2>3. \A r \in Roots : RunningQueries(r)' = RunningQueries(r)
    BY <1>1 DEF RunningQueries, Running, Root
  <2>. QED
    BY <1>1, <2>1, <2>2, <2>3 DEF TracesInv, Running
<1>2. ASSUME NEW o \in Ops, Call(o) PROVE TracesInv'
  BY <1>2, CallTraces
<1>3. ASSUME NEW o \in Ops, Query(o) \/ TaskEnds(o) \/ Workflow(o) \/ Loop(o) \/ Cancel(o) PROVE TracesInv'
  BY <1>1, <1>3, StepCloses, ClosingTraces
<1>4. CASE UNCHANGED vars
  BY <1>1, <1>4 DEF vars
<1>. QED
  BY <1>2, <1>3, <1>4 DEF Next

\* With MemoryTracer the spans of one trace are those of a query and of what is
\* nested in it: no trace id leaks into a later operation of the task, however the
\* query before it ended.  With OpenTelemetryTracer no span joins another's trace.
THEOREM TracesAreNestedCorrect == Spec => []TracesAreNested
<1>1. Init => TracesInv
  BY RootOf DEF Init, TracesInv, TracesAreNested, RunningQueries, Running
<1>2. TypeInv /\ Nested /\ TracesInv /\ [Next]_vars => TypeInv' /\ Nested' /\ TracesInv'
  BY TypeStep, NestedStep, TracesStep DEF TypeInv
<1>3. TracesInv => TracesAreNested
  BY DEF TracesInv
<1>. QED
  BY <1>1, <1>2, <1>3, TypeInit, PTL DEF Spec

-----------------------------------------------------------------------------
(* Histories and the ends of spans, for which the nesting does not matter. *)

States == {"idle", "running"} \cup Ends
Statuses == {"completed", "skipped", "failed"}

\* As much of the types as the proofs need: of what the trace ids are they say
\* nothing.
RunsType ==
  /\ state \in [Ops -> States]
  /\ done \in [Ops -> Seq(Statuses)]
  /\ index \in [Ops -> Nat]
  /\ span = [o \in Ops |-> span[o]]
  /\ \A o \in Ops : DOMAIN span[o] = {"trace", "finished"} /\ span[o] = [f \in {"trace", "finished"} |-> span[o][f]]

-----------------------------------------------------------------------------
(* How a step changes the states and the spans.                            *)

\* An operation ends, those nested in it and running are cancelled, the
\* others stay as they are.
EndsAs(o, end) ==
  /\ state'[o] = end
  /\ \A c \in Ops \ {o} : state'[c] = state[c] \/ (state[c] = "running" /\ state'[c] = "cancelled")
  /\ state' \in [Ops -> States]

LEMMA EndsAsLeaves ==
  ASSUME RunsType, NEW o \in Ops, NEW end \in Ends, NEW s, Leaves(o, end, s) \/ CancelBelow(o, end, s)
  PROVE  EndsAs(o, end) /\ span' = s
<1>1. CASE Leaves(o, end, s)
  BY <1>1 DEF Leaves, EndsAs, RunsType, States
<1>2. CASE CancelBelow(o, end, s)
  <2>1. PICK cancelled \in SUBSET Ops :
          /\ \A c \in cancelled : state[c] = "running"
          /\ state' = [c \in Ops |-> IF c = o THEN end ELSE IF c \in cancelled THEN "cancelled" ELSE state[c]]
    BY <1>2 DEF CancelBelow, Below, Running
  <2>2. span' = s
    BY <1>2 DEF CancelBelow
  <2>. QED
    BY <2>1, <2>2 DEF EndsAs, RunsType, States, Ends
<1>. QED
  BY <1>1, <1>2

\* The span of o is finished in one way or left as it is.
FinishedAs(o, s, finished) ==
  /\ s[o].finished = finished
  /\ \A c \in Ops \ {o} : s[c] = span[c]
  /\ s = [c \in Ops |-> s[c]]
  /\ \A c \in Ops : DOMAIN s[c] = {"trace", "finished"} /\ s[c] = [f \in {"trace", "finished"} |-> s[c][f]]

LEMMA FinishedAsOk ==
  ASSUME RunsType, NEW o \in Ops
  PROVE  /\ FinishedAs(o, Finished(o), "ok") /\ FinishedAs(o, Marked(o), "error")
         /\ FinishedAs(o, span, span[o].finished)
<1>1. \A r : DOMAIN r = {"trace", "finished"} /\ r = [f \in {"trace", "finished"} |-> r[f]] =>
        \A v : LET t == [r EXCEPT !.finished = v]
               IN t.finished = v /\ DOMAIN t = {"trace", "finished"} /\ t = [f \in {"trace", "finished"} |-> t[f]]
  OBVIOUS
<1>. QED
  BY <1>1 DEF FinishedAs, Finished, Marked, RunsType

-----------------------------------------------------------------------------
(* The kinds of steps, as the histories and the spans see them.            *)

\* An operation ends, having noted the statuses ds and got to index i.
Ending(o, end, ds, i) ==
  /\ state[o] = "running" /\ EndsAs(o, end)
  /\ FinishedAs(o, span', IF end = "cancelled" THEN span[o].finished ELSE StatusOf(o, end))
  /\ done' = [done EXCEPT ![o] = ds]
  /\ index' = [index EXCEPT ![o] = i]

\* A workflow or a loop goes on to index i.
Going(o, ds, i) ==
  /\ state[o] = "running"
  /\ done' = [done EXCEPT ![o] = ds]
  /\ index' = [index EXCEPT ![o] = i]
  /\ UNCHANGED <<state, span>>

LEMMA Endings ==
  ASSUME RunsType, NEW o \in Ops, NEW end \in Ends, NEW s, state[o] = "running",
         Leaves(o, end, s) \/ CancelBelow(o, end, s),
         \/ end = "cancelled" /\ s = span
         \/ end # "cancelled" /\ StatusOf(o, end) = "ok" /\ s = Finished(o)
         \/ end # "cancelled" /\ StatusOf(o, end) = "error" /\ s = Marked(o)
  PROVE  /\ EndsAs(o, end)
         /\ FinishedAs(o, span', IF end = "cancelled" THEN span[o].finished ELSE StatusOf(o, end))
BY EndsAsLeaves, FinishedAsOk

LEMMA Unmoved == RunsType => \A o \in Ops : done = [done EXCEPT ![o] = done[o]] /\ index = [index EXCEPT ![o] = index[o]]
BY DEF RunsType

\* What a query, a task, a loop or the end of a task from outside does.
LEMMA PlainSteps ==
  ASSUME RunsType, NEW o \in Ops, Query(o) \/ TaskEnds(o) \/ Cancel(o)
  PROVE  \/ Kind[o] = "query" /\ Going(o, done[o], index[o])
         \/ \E end \in Ends :
              Ending(o, end, done[o], index[o]) /\ (Kind[o] \in {"workflow", "loop"} => end = "cancelled")
<1>1. done = [done EXCEPT ![o] = done[o]] /\ index = [index EXCEPT ![o] = index[o]]
  BY Unmoved
<1>2. CASE QueryReturns(o)
  BY <1>1, <1>2, Endings DEF QueryReturns, Turn, Running, Same, Ending, StatusOf, Ends
<1>3. CASE QueryFails(o)
  BY <1>1, <1>3, Endings DEF QueryFails, Turn, Running, Same, Ending, StatusOf, Ends
<1>4. CASE QueryTimesOut(o)
  BY <1>1, <1>4, Endings DEF QueryTimesOut, Running, Same, Ending, StatusOf, Ends
<1>5. CASE TaskEnds(o)
  BY <1>1, <1>5, Endings DEF TaskEnds, Turn, Running, Same, Ending, StatusOf, Ends
<1>6. CASE Cancel(o)
  BY <1>1, <1>6, Endings DEF Cancel, Running, Same, Ending, StatusOf, Ends
<1>7. CASE QueryExecutes(o)
  BY <1>1, <1>7 DEF QueryExecutes, Turn, Running, Going
<1>. QED
  BY <1>2, <1>3, <1>4, <1>5, <1>6, <1>7 DEF Query

\* A loop goes on or completes with one more step, or ends with none, or with
\* a failed one that is not counted.
LEMMA LoopSteps ==
  ASSUME RunsType, NEW o \in Ops, Loop(o)
  PROVE  /\ Kind[o] = "loop"
         /\ \/ Going(o, Append(done[o], "completed"), index[o] + 1)
            \/ Ending(o, "completed", Append(done[o], "completed"), index[o] + 1)
            \/ \E end \in {"failed", "timeout"} :
                 Ending(o, end, done[o], index[o]) \/ Ending(o, end, Append(done[o], "failed"), index[o])
            \/ Ending(o, "max_iterations", done[o], index[o]) /\ index[o] = MaxIterations
<1>1. done = [done EXCEPT ![o] = done[o]] /\ index = [index EXCEPT ![o] = index[o]]
  BY Unmoved
<1>2. CASE Iterate(o)
  BY <1>1, <1>2 DEF Iterate, AtIteration, Note, Advance, Stays, Going, Running
<1>3. CASE LoopCompletes(o)
  BY <1>1, <1>3, Endings DEF LoopCompletes, AtIteration, Turn, Running, Note, Advance, Ending, StatusOf, Ends
<1>4. CASE LoopStepFails(o)
  BY <1>1, <1>4, Endings DEF LoopStepFails, AtIteration, Turn, Running, Same, Ending, StatusOf, Ends
<1>5. CASE LoopCheckFails(o)
  <2>1. PICK end \in {"failed", "timeout"} : Leaves(o, end, Finished(o))
    BY <1>5 DEF LoopCheckFails
  <2>2. Kind[o] = "loop" /\ state[o] = "running" /\ end \in Ends /\ StatusOf(o, end) = "ok"
    BY <1>5, <2>1 DEF LoopCheckFails, AtIteration, Running, Ends, StatusOf
  <2>3. Ending(o, end, Append(done[o], "failed"), index[o])
    BY <1>1, <1>5, <2>1, <2>2, Endings DEF LoopCheckFails, Note, Ending
  <2>. QED
    BY <2>2, <2>3
<1>6. CASE LoopTimesOut(o)
  BY <1>1, <1>6, Endings DEF LoopTimesOut, AtIteration, Running, Same, Ending, StatusOf, Ends
<1>7. CASE LoopExhausted(o)
  BY <1>1, <1>7, Endings DEF LoopExhausted, Turn, Running, Same, Ending, StatusOf, Ends
<1>. QED
  BY <1>2, <1>3, <1>4, <1>5, <1>6, <1>7 DEF Loop, Iterate, LoopCompletes, LoopStepFails, LoopCheckFails,
     LoopTimesOut, LoopExhausted, AtIteration

\* In short: it goes on or ends.
LEMMA LoopGoesOrEnds ==
  ASSUME RunsType, NEW o \in Ops, Loop(o)
  PROVE  /\ Kind[o] = "loop"
         /\ \E ds \in Seq(Statuses), i \in Nat :
              Going(o, ds, i) \/ \E end \in Ends : Ending(o, end, ds, i)
<1>1. /\ done[o] \in Seq(Statuses) /\ index[o] \in Nat /\ index[o] + 1 \in Nat
      /\ Append(done[o], "completed") \in Seq(Statuses) /\ Append(done[o], "failed") \in Seq(Statuses)
  BY DEF RunsType, Statuses
<1>. QED
  BY <1>1, LoopSteps DEF Ends

\* What a workflow does to its history: a failed step ends it, and is the last.
LEMMA WorkflowSteps ==
  ASSUME RunsType, NEW o \in Ops, Workflow(o)
  PROVE  /\ Kind[o] = "workflow"
         /\ \/ Going(o, done[o], index[o] + 1)
            \/ Going(o, Append(done[o], "completed"), index[o] + 1)
            \/ Going(o, Append(done[o], "skipped"), index[o] + 1)
            \/ Ending(o, "raised", done[o], index[o])
            \/ Ending(o, "completed", Append(done[o], "failed"), index[o])
            \/ Ending(o, "completed", done[o], index[o]) /\ index[o] = Steps
<1>1. done = [done EXCEPT ![o] = done[o]] /\ index = [index EXCEPT ![o] = index[o]]
  BY Unmoved
<1>2. CASE StepSkipped(o)
  BY <1>1, <1>2 DEF StepSkipped, AtStep, Advance, Stays, Going, Running
<1>3. CASE StepEnds(o)
  BY <1>1, <1>3 DEF StepEnds, AtStep, Note, Advance, Stays, Going, Running
<1>4. CASE SkipRaises(o)
  BY <1>1, <1>4, Endings DEF SkipRaises, AtStep, Running, Same, Ending, StatusOf, Ends
<1>5. CASE StepFails(o)
  BY <1>1, <1>5, Endings DEF StepFails, AtStep, Running, Note, Ending, StatusOf, Ends
<1>6. CASE WorkflowReturns(o)
  BY <1>1, <1>6, Endings DEF WorkflowReturns, Turn, Running, Same, Ending, StatusOf, Ends
<1>. QED
  BY <1>2, <1>3, <1>4, <1>5, <1>6 DEF Workflow, StepSkipped, StepEnds, SkipRaises, StepFails,
     WorkflowReturns, AtStep

-----------------------------------------------------------------------------
(* The invariants, kept by each kind of step.                              *)

FailedAt(h) == {i \in DOMAIN h : h[i] = "failed"}

\* A workflow that runs, or never ran, has no failed step.
StopsInv ==
  /\ RunsType
  /\ StopsAtFailure
  /\ \A o \in Ops : state[o] = "idle" => done[o] = <<>>

\* What runs, or never ran, has an open span.
SpansInv ==
  /\ RunsType
  /\ SpansFinish
  /\ \A o \in Ops : state[o] \in {"idle", "running"} => span[o].finished = "no"

\* StopsAtFailure says this of every workflow.
Stops(o) ==
  /\ FailedAt(done[o]) \subseteq {Len(done[o])}
  /\ FailedAt(done[o]) # {} => state[o] # "running"
  /\ state[o] = "completed" /\ FailedAt(done[o]) = {} => index[o] = Steps

LEMMA StopsEach == StopsAtFailure <=> \A o \in Ops : Kind[o] = "workflow" => Stops(o)
BY DEF StopsAtFailure, Stops, FailedAt, Running

LEMMA EndingType ==
  ASSUME RunsType, NEW o \in Ops, NEW end \in Ends, NEW ds \in Seq(Statuses), NEW i \in Nat, Ending(o, end, ds, i)
  PROVE  RunsType'
BY DEF RunsType, Ending, EndsAs, FinishedAs

LEMMA GoingType ==
  ASSUME RunsType, NEW o \in Ops, NEW ds \in Seq(Statuses), NEW i \in Nat, Going(o, ds, i)
  PROVE  RunsType'
BY DEF RunsType, Going

LEMMA CallKeeps ==
  ASSUME NEW o \in Ops, Call(o)
  PROVE  /\ RunsType => RunsType'
         /\ StopsInv => StopsInv'
         /\ SpansInv => SpansInv'
<1>. DEFINE s == Started(o)
<1>1. /\ state[o] = "idle" /\ state' = [state EXCEPT ![o] = "running"]
      /\ span' = [span EXCEPT ![o] = s] /\ UNCHANGED <<done, index>>
  BY DEF Call
<1>2. s.finished = "no" /\ DOMAIN s = {"trace", "finished"} /\ s = [f \in {"trace", "finished"} |-> s[f]]
  BY DEF Started, NoSpan
<1>. HIDE DEF s
<1>3. RunsType => RunsType'
  BY <1>1, <1>2 DEF RunsType, States
<1>4. ASSUME StopsInv PROVE StopsInv'
  <2>1. DOMAIN <<>> = {}
    OBVIOUS
  <2>2. FailedAt(done[o]) = {}
    BY <1>1, <1>4, <2>1 DEF StopsInv, FailedAt
  <2>3. \A p \in Ops : Kind[p] = "workflow" => Stops(p)'
    BY <1>1, <1>4, <2>2, StopsEach DEF StopsInv, Stops, FailedAt, RunsType
  <2>. QED
    BY <1>1, <1>3, <1>4, <2>3 DEF StopsInv, RunsType, StopsAtFailure, Stops, FailedAt, Running
<1>5. ASSUME SpansInv PROVE SpansInv'
  BY <1>1, <1>2, <1>3, <1>5 DEF SpansInv, SpansFinish, RunsType, Ends
<1>. QED
  BY <1>3, <1>4, <1>5

LEMMA EndingSpans ==
  ASSUME SpansInv, NEW o \in Ops, NEW end \in Ends, NEW ds \in Seq(Statuses), NEW i \in Nat,
         Ending(o, end, ds, i)
  PROVE  SpansInv'
<1>1. span'[o].finished = StatusOf(o, end) /\ state'[o] = end
  BY DEF SpansInv, Ending, EndsAs, FinishedAs, StatusOf
<1>2. \A c \in Ops \ {o} :
        /\ span'[c] = span[c]
        /\ state'[c] = state[c] \/ (state[c] = "running" /\ state'[c] = "cancelled")
  BY DEF Ending, EndsAs, FinishedAs
<1>3. SpansFinish'
  <2>. SUFFICES ASSUME NEW c \in Ops, state'[c] \in Ends PROVE span'[c].finished = StatusOf(c, state'[c])
    BY DEF SpansFinish, StatusOf
  <2>1. CASE c = o
    BY <1>1, <2>1
  <2>2. CASE c # o /\ state'[c] = state[c]
    BY <1>2, <2>2 DEF SpansInv, SpansFinish, StatusOf
  <2>3. CASE c # o /\ state[c] = "running" /\ state'[c] = "cancelled"
    BY <1>2, <2>3 DEF SpansInv, StatusOf
  <2>. QED
    BY <1>2, <2>1, <2>2, <2>3
<1>4. \A c \in Ops : state'[c] \in {"idle", "running"} => span'[c].finished = "no"
  BY <1>1, <1>2 DEF SpansInv, Ends
<1>. QED
  BY <1>3, <1>4, EndingType DEF SpansInv

LEMMA SpansStep == SpansInv /\ [Next]_vars => SpansInv'
<1>. SUFFICES ASSUME SpansInv, [Next]_vars PROVE SpansInv'
  OBVIOUS
<1>1. \A o \in Ops : /\ done[o] \in Seq(Statuses) /\ index[o] \in Nat /\ index[o] + 1 \in Nat
                     /\ \A d \in Statuses : Append(done[o], d) \in Seq(Statuses)
  BY DEF SpansInv, RunsType
<1>2. ASSUME NEW o \in Ops, NEW ds \in Seq(Statuses), NEW i \in Nat, Going(o, ds, i) PROVE SpansInv'
  BY <1>2, GoingType DEF SpansInv, Going, SpansFinish
<1>3. ASSUME NEW o \in Ops, Query(o) \/ TaskEnds(o) \/ Cancel(o) PROVE SpansInv'
  BY <1>1, <1>2, <1>3, PlainSteps, EndingSpans DEF SpansInv
<1>4. ASSUME NEW o \in Ops, Loop(o) PROVE SpansInv'
  BY <1>2, <1>4, LoopGoesOrEnds, EndingSpans DEF SpansInv
<1>5. ASSUME NEW o \in Ops, Workflow(o) PROVE SpansInv'
  <2>1. {"completed", "raised"} \subseteq Ends /\ Statuses = {"completed", "skipped", "failed"}
    BY DEF Ends, Statuses
  <2>. QED
    BY <1>1, <1>2, <1>5, <2>1, WorkflowSteps, EndingSpans DEF SpansInv
<1>6. CASE UNCHANGED vars
  BY <1>6 DEF vars, SpansInv, SpansFinish, RunsType
<1>. QED
  BY <1>3, <1>4, <1>5, <1>6, CallKeeps DEF Next

\* Every operation that returns has finished its span, as an error if it is a
\* query that raised; only the cancelled ones are left open.
THEOREM SpansFinishCorrect == Spec => []SpansFinish
<1>1. Init => SpansInv
  BY DEF Init, SpansInv, SpansFinish, RunsType, States, Ends, NoSpan
<1>2. SpansInv => SpansFinish
  BY DEF SpansInv
<1>. QED
  BY <1>1, <1>2, SpansStep, PTL DEF Spec

-----------------------------------------------------------------------------
(* Workflows stop at a failure.                                            *)

LEMMA Appended ==
  ASSUME NEW h \in Seq(Statuses), NEW d \in Statuses, FailedAt(h) = {}
  PROVE  /\ d # "failed" => FailedAt(Append(h, d)) = {}
         /\ d = "failed" => FailedAt(Append(h, d)) = {Len(Append(h, d))}
<1>1. /\ Append(h, d) \in Seq(Statuses) /\ Len(Append(h, d)) = Len(h) + 1 /\ Len(h) \in Nat
      /\ \A i \in 1..Len(h) : Append(h, d)[i] = h[i]
      /\ Append(h, d)[Len(h) + 1] = d
  OBVIOUS
<1>2. \A i \in 1..Len(h) : h[i] # "failed"
  BY DEF FailedAt
<1>. QED
  BY <1>1, <1>2 DEF FailedAt

\* The other operations: they are as they were, or were running and cancelled.
LEMMA EndingStopsOthers ==
  ASSUME StopsInv, NEW o \in Ops, NEW end \in Ends, NEW ds, NEW i, Ending(o, end, ds, i),
         NEW c \in Ops \ {o}
  PROVE  /\ Kind[c] = "workflow" => Stops(c)'
         /\ state'[c] = "idle" => done'[c] = <<>>
<1>1. /\ done'[c] = done[c] /\ index'[c] = index[c]
      /\ state'[c] = state[c] \/ (state[c] = "running" /\ state'[c] = "cancelled")
  BY DEF Ending, EndsAs, StopsInv, RunsType
<1>2. Kind[c] = "workflow" => Stops(c)
  BY StopsEach DEF StopsInv
<1>. QED
  BY <1>1, <1>2 DEF Stops, StopsInv

LEMMA EndingStops ==
  ASSUME StopsInv, NEW o \in Ops, NEW end \in Ends, NEW ds \in Seq(Statuses), NEW i \in Nat,
         Ending(o, end, ds, i),
         Kind[o] = "workflow" =>
           /\ FailedAt(ds) \subseteq {Len(ds)}
           /\ end = "completed" /\ FailedAt(ds) = {} => i = Steps
  PROVE  StopsInv'
<1>1. state'[o] = end /\ done'[o] = ds /\ index'[o] = i
  BY DEF Ending, EndsAs, StopsInv, RunsType
<1>2. \A c \in Ops : Kind[c] = "workflow" => Stops(c)'
  <2>. SUFFICES ASSUME NEW c \in Ops, Kind[c] = "workflow" PROVE Stops(c)'
    OBVIOUS
  <2>1. CASE c = o
    BY <1>1, <2>1 DEF Stops, Ends
  <2>2. CASE c # o
    BY <2>2, EndingStopsOthers
  <2>. QED
    BY <2>1, <2>2
<1>3. \A c \in Ops : state'[c] = "idle" => done'[c] = <<>>
  BY <1>1, EndingStopsOthers DEF Ends
<1>4. StopsAtFailure'
  BY <1>2 DEF StopsAtFailure, Stops, FailedAt, Running
<1>. QED
  BY <1>3, <1>4, EndingType DEF StopsInv

LEMMA GoingStops ==
  ASSUME StopsInv, NEW o \in Ops, NEW ds \in Seq(Statuses), NEW i \in Nat, Going(o, ds, i),
         Kind[o] = "workflow" => FailedAt(ds) = {}
  PROVE  StopsInv'
<1>1. state'[o] = "running" /\ done'[o] = ds /\ index'[o] = i
  BY DEF Going, StopsInv, RunsType
<1>2. \A c \in Ops \ {o} : done'[c] = done[c] /\ index'[c] = index[c] /\ state'[c] = state[c]
  BY DEF Going, StopsInv, RunsType
<1>3. \A c \in Ops : Kind[c] = "workflow" => Stops(c)'
  <2>. SUFFICES ASSUME NEW c \in Ops, Kind[c] = "workflow" PROVE Stops(c)'
    OBVIOUS
  <2>1. CASE c = o
    BY <1>1, <2>1 DEF Stops
  <2>2. CASE c # o
    BY <1>2, <2>2, StopsEach DEF Stops, StopsInv
  <2>. QED
    BY <2>1, <2>2
<1>4. \A c \in Ops : state'[c] = "idle" => done'[c] = <<>>
  BY <1>1, <1>2 DEF StopsInv
<1>5. StopsAtFailure'
  BY <1>3 DEF StopsAtFailure, Stops, FailedAt, Running
<1>. QED
  BY <1>4, <1>5, GoingType DEF StopsInv

LEMMA StopsStep == StopsInv /\ [Next]_vars => StopsInv'
<1>. SUFFICES ASSUME StopsInv, [Next]_vars PROVE StopsInv'
  OBVIOUS
<1>1. \A o \in Ops : /\ done[o] \in Seq(Statuses) /\ index[o] \in Nat /\ index[o] + 1 \in Nat
                     /\ \A d \in Statuses : Append(done[o], d) \in Seq(Statuses)
  BY DEF StopsInv, RunsType
<1>2. \A o \in Ops : Kind[o] = "workflow" /\ state[o] = "running" => FailedAt(done[o]) = {}
  BY StopsEach DEF StopsInv, Stops
<1>3. ASSUME NEW o \in Ops, Query(o) \/ TaskEnds(o) \/ Cancel(o) PROVE StopsInv'
  <2>1. CASE Kind[o] = "query" /\ Going(o, done[o], index[o])
    BY <1>1, <2>1, GoingStops
  <2>2. ASSUME NEW end \in Ends, Ending(o, end, done[o], index[o]), Kind[o] = "workflow" => end = "cancelled"
        PROVE  StopsInv'
    <3>1. Kind[o] = "workflow" => FailedAt(done[o]) = {}
      BY <1>2, <2>2 DEF Ending
    <3>. QED
      BY <1>1, <2>2, <3>1, EndingStops
  <2>. QED
    BY <1>3, <2>1, <2>2, PlainSteps DEF StopsInv
<1>4. ASSUME NEW o \in Ops, Loop(o) PROVE StopsInv'
  BY <1>4, LoopGoesOrEnds, EndingStops, GoingStops DEF StopsInv
<1>5. ASSUME NEW o \in Ops, Workflow(o) PROVE StopsInv'
  <2>1. Kind[o] = "workflow" /\ state[o] = "running"
    BY <1>5, WorkflowSteps DEF StopsInv, Going, Ending
  <2>2. FailedAt(done[o]) = {}
    BY <1>2, <2>1
  <2>3. ASSUME NEW d \in {"completed", "skipped"}, Going(o, Append(done[o], d), index[o] + 1) PROVE StopsInv'
    <3>1. d \in Statuses /\ d # "failed"
      BY DEF Statuses
    <3>. QED
      BY <1>1, <2>2, <2>3, <3>1, Appended, GoingStops
  <2>4. CASE Going(o, done[o], index[o] + 1)
    BY <1>1, <2>2, <2>4, GoingStops
  <2>5. CASE Ending(o, "raised", done[o], index[o])
    BY <1>1, <2>2, <2>5, EndingStops DEF Ends
  <2>6. CASE Ending(o, "completed", Append(done[o], "failed"), index[o])
    <3>1. /\ Append(done[o], "failed") \in Seq(Statuses)
          /\ FailedAt(Append(done[o], "failed")) = {Len(Append(done[o], "failed"))}
      BY <1>1, <2>2, Appended DEF Statuses
    <3>. QED
      BY <1>1, <2>6, <3>1, EndingStops DEF Ends
  <2>7. CASE Ending(o, "completed", done[o], index[o]) /\ index[o] = Steps
    BY <1>1, <2>2, <2>7, EndingStops DEF Ends
  <2>. QED
    BY <1>5, <2>3, <2>4, <2>5, <2>6, <2>7, WorkflowSteps DEF StopsInv
<1>6. CASE UNCHANGED vars
  BY <1>6 DEF vars, StopsInv, StopsAtFailure, RunsType, Running
<1>. QED
  BY <1>3, <1>4, <1>5, <1>6, CallKeeps DEF Next

\* No step of a workflow follows one that failed, and one that returns with no
\* failed step has passed all of its steps (workflow/engine.py 41-73).
THEOREM StopsAtFailureCorrect == Spec => []StopsAtFailure
<1>1. Init => StopsInv
  <2>. SUFFICES ASSUME Init PROVE StopsInv
    OBVIOUS
  <2>1. DOMAIN <<>> = {} /\ <<>> \in Seq(Statuses)
    OBVIOUS
  <2>2. RunsType
    BY <2>1 DEF Init, RunsType, States, NoSpan
  <2>3. StopsAtFailure
    BY <2>1 DEF Init, StopsAtFailure, Running
  <2>. QED
    BY <2>2, <2>3 DEF Init, StopsInv
<1>2. StopsInv => StopsAtFailure
  BY DEF StopsInv
<1>. QED
  BY <1>1, <1>2, StopsStep, PTL DEF Spec

-----------------------------------------------------------------------------
(* Iterations are counted.                                                 *)

CompletedAt(h) == {i \in DOMAIN h : h[i] = "completed"}

\* IterationsCounted says this of every loop.
Counted(o) ==
  /\ index[o] = Cardinality(CompletedAt(done[o]))
  /\ state[o] = "max_iterations" => Len(done[o]) = MaxIterations
  /\ state[o] = "completed" => index[o] > 0

\* A loop that runs, or never ran, has only completed steps.
CountsInv ==
  /\ RunsType
  /\ \A o \in Ops : Kind[o] = "loop" =>
       /\ Counted(o)
       /\ state[o] \in {"idle", "running"} => CompletedAt(done[o]) = 1..Len(done[o])

LEMMA CountsEach == CountsInv => IterationsCounted
BY DEF CountsInv, IterationsCounted, Counted, CompletedAt

LEMMA CompletedAppended ==
  ASSUME NEW h \in Seq(Statuses), CompletedAt(h) = 1..Len(h)
  PROVE  /\ Cardinality(CompletedAt(h)) = Len(h)
         /\ CompletedAt(Append(h, "completed")) = 1..Len(Append(h, "completed"))
         /\ Cardinality(CompletedAt(Append(h, "completed"))) = Len(h) + 1
         /\ CompletedAt(Append(h, "failed")) = CompletedAt(h)
<1>1. \A n \in Nat : Cardinality(1..n) = n
  BY FS_Interval
<1>2. ASSUME NEW d \in Statuses
      PROVE  /\ DOMAIN Append(h, d) = 1..(Len(h) + 1) /\ Len(Append(h, d)) = Len(h) + 1
             /\ \A i \in 1..Len(h) : Append(h, d)[i] = h[i]
             /\ Append(h, d)[Len(h) + 1] = d
  OBVIOUS
<1>3. \A i \in 1..Len(h) : h[i] = "completed"
  BY DEF CompletedAt
<1>4. CompletedAt(Append(h, "completed")) = 1..(Len(h) + 1)
  BY <1>2, <1>3 DEF CompletedAt, Statuses
<1>5. CompletedAt(Append(h, "failed")) = 1..Len(h)
  BY <1>2, <1>3 DEF CompletedAt, Statuses
<1>. QED
  BY <1>1, <1>2, <1>4, <1>5 DEF Statuses

LEMMA EndingCounts ==
  ASSUME CountsInv, NEW o \in Ops, NEW end \in Ends, NEW ds \in Seq(Statuses), NEW i \in Nat,
         Ending(o, end, ds, i),
         Kind[o] = "loop" =>
           /\ i = Cardinality(CompletedAt(ds))
           /\ end = "max_iterations" => Len(ds) = MaxIterations
           /\ end = "completed" => i > 0
  PROVE  CountsInv'
<1>1. state'[o] = end /\ done'[o] = ds /\ index'[o] = i
  BY DEF Ending, EndsAs, CountsInv, RunsType
<1>2. \A c \in Ops \ {o} :
        /\ done'[c] = done[c] /\ index'[c] = index[c]
        /\ state'[c] = state[c] \/ (state[c] = "running" /\ state'[c] = "cancelled")
  BY DEF Ending, EndsAs, CountsInv, RunsType
<1>3. ASSUME NEW c \in Ops, Kind[c] = "loop"
      PROVE  Counted(c)' /\ (state'[c] \in {"idle", "running"} => CompletedAt(done'[c]) = 1..Len(done'[c]))
  <2>1. CASE c = o
    BY <1>1, <1>3, <2>1 DEF Counted, Ends
  <2>2. CASE c # o
    BY <1>2, <1>3, <2>2 DEF CountsInv, Counted
  <2>. QED
    BY <2>1, <2>2
<1>. QED
  BY <1>3, EndingType DEF CountsInv, CompletedAt

LEMMA GoingCounts ==
  ASSUME CountsInv, NEW o \in Ops, NEW ds \in Seq(Statuses), NEW i \in Nat, Going(o, ds, i),
         Kind[o] = "loop" => i = Cardinality(CompletedAt(ds)) /\ CompletedAt(ds) = 1..Len(ds)
  PROVE  CountsInv'
<1>1. state'[o] = "running" /\ done'[o] = ds /\ index'[o] = i
  BY DEF Going, CountsInv, RunsType
<1>2. \A c \in Ops \ {o} : done'[c] = done[c] /\ index'[c] = index[c] /\ state'[c] = state[c]
  BY DEF Going, CountsInv, RunsType
<1>3. ASSUME NEW c \in Ops, Kind[c] = "loop"
      PROVE  Counted(c)' /\ (state'[c] \in {"idle", "running"} => CompletedAt(done'[c]) = 1..Len(done'[c]))
  <2>1. CASE c = o
    BY <1>1, <1>3, <2>1 DEF Counted
  <2>2. CASE c # o
    BY <1>2, <1>3, <2>2 DEF CountsInv, Counted
  <2>. QED
    BY <2>1, <2>2
<1>. QED
  BY <1>3, GoingType DEF CountsInv, CompletedAt

LEMMA LoopCounts ==
  ASSUME CountsInv, NEW o \in Ops, Loop(o)
  PROVE  CountsInv'
<1>. DEFINE h == done[o]
            more == Append(h, "completed")
            failed == Append(h, "failed")
<1>1. Kind[o] = "loop" /\ state[o] = "running"
  BY LoopSteps DEF CountsInv, Going, Ending
<1>2. /\ h \in Seq(Statuses) /\ more \in Seq(Statuses) /\ failed \in Seq(Statuses)
      /\ index[o] \in Nat /\ index[o] + 1 \in Nat /\ index[o] + 1 > 0
  BY DEF CountsInv, RunsType, Statuses
<1>3. CompletedAt(h) = 1..Len(h) /\ index[o] = Cardinality(CompletedAt(h))
  BY <1>1 DEF CountsInv, Counted
<1>4. /\ index[o] = Len(h) /\ index[o] = Cardinality(CompletedAt(failed))
      /\ index[o] + 1 = Cardinality(CompletedAt(more)) /\ CompletedAt(more) = 1..Len(more)
  BY <1>2, <1>3, CompletedAppended
<1>. HIDE DEF h, more, failed
<1>5. CASE Going(o, more, index[o] + 1)
  BY <1>2, <1>4, <1>5, GoingCounts
<1>6. CASE Ending(o, "completed", more, index[o] + 1)
  BY <1>2, <1>4, <1>6, EndingCounts DEF Ends
<1>7. ASSUME NEW end \in {"failed", "timeout"}, Ending(o, end, h, index[o]) \/ Ending(o, end, failed, index[o])
      PROVE  CountsInv'
  BY <1>2, <1>3, <1>4, <1>7, EndingCounts DEF Ends
<1>8. CASE Ending(o, "max_iterations", h, index[o]) /\ index[o] = MaxIterations
  BY <1>2, <1>3, <1>4, <1>8, EndingCounts DEF Ends
<1>. QED
  BY <1>5, <1>6, <1>7, <1>8, LoopSteps DEF CountsInv, h, more, failed

LEMMA CountsStep == CountsInv /\ [Next]_vars => CountsInv'
<1>. SUFFICES ASSUME CountsInv, [Next]_vars PROVE CountsInv'
  OBVIOUS
<1>1. \A o \in Ops : /\ done[o] \in Seq(Statuses) /\ index[o] \in Nat /\ index[o] + 1 \in Nat
                     /\ \A d \in Statuses : Append(done[o], d) \in Seq(Statuses)
  BY DEF CountsInv, RunsType
<1>2. ASSUME NEW o \in Ops, Call(o) PROVE CountsInv'
  <2>1. RunsType' /\ state' = [state EXCEPT ![o] = "running"] /\ state[o] = "idle" /\ UNCHANGED <<done, index>>
    BY <1>2, CallKeeps DEF CountsInv, Call
  <2>2. \A c \in Ops : state'[c] = IF c = o THEN "running" ELSE state[c]
    BY <2>1 DEF CountsInv, RunsType
  <2>3. ASSUME NEW c \in Ops, Kind[c] = "loop"
        PROVE  Counted(c)' /\ (state'[c] \in {"idle", "running"} => CompletedAt(done[c]) = 1..Len(done[c]))
    BY <2>1, <2>2, <2>3 DEF CountsInv, Counted
  <2>. QED
    BY <2>1, <2>3 DEF CountsInv
<1>3. ASSUME NEW o \in Ops, Query(o) \/ TaskEnds(o) \/ Cancel(o) PROVE CountsInv'
  <2>1. Kind[o] = "loop" => index[o] = Cardinality(CompletedAt(done[o]))
    BY DEF CountsInv, Counted
  <2>2. CASE Kind[o] = "query" /\ Going(o, done[o], index[o])
    BY <1>1, <2>2, GoingCounts
  <2>3. ASSUME NEW end \in Ends, Ending(o, end, done[o], index[o]), Kind[o] = "loop" => end = "cancelled"
        PROVE  CountsInv'
    BY <1>1, <2>1, <2>3, EndingCounts
  <2>. QED
    BY <1>3, <2>2, <2>3, PlainSteps DEF CountsInv
<1>4. ASSUME NEW o \in Ops, Loop(o) PROVE CountsInv'
  BY <1>4, LoopCounts
<1>5. ASSUME NEW o \in Ops, Workflow(o) PROVE CountsInv'
  <2>1. {"completed", "raised"} \subseteq Ends /\ Statuses = {"completed", "skipped", "failed"}
    BY DEF Ends, Statuses
  <2>. QED
    BY <1>1, <1>5, <2>1, WorkflowSteps, EndingCounts, GoingCounts DEF CountsInv
<1>6. CASE UNCHANGED vars
  BY <1>6 DEF vars, CountsInv, Counted, CompletedAt, RunsType
<1>. QED
  BY <1>2, <1>3, <1>4, <1>5, <1>6 DEF Next

\* A loop reports as many iterations as its history has steps, one fewer if
\* the completion check raised; it gives up only after max_iterations of them,
\* and completes after one at least (loop/agent_loop.py 140-222).
THEOREM IterationsCountedCorrect == Spec => []IterationsCounted
<1>1. Init => CountsInv
  <2>. SUFFICES ASSUME Init PROVE CountsInv
    OBVIOUS
  <2>1. DOMAIN <<>> = {} /\ <<>> \in Seq(Statuses) /\ Len(<<>>) = 0 /\ 1..0 = {}
    OBVIOUS
  <2>2. RunsType
    BY <2>1 DEF Init, RunsType, States, NoSpan
  <2>3. CompletedAt(<<>>) = {} /\ Cardinality({}) = 0
    BY <2>1, FS_EmptySet DEF CompletedAt
  <2>4. \A o \in Ops : state[o] = "idle" /\ done[o] = <<>> /\ index[o] = 0
    BY DEF Init
  <2>. QED
    BY <2>1, <2>2, <2>3, <2>4 DEF CountsInv, Counted
<1>. QED
  BY <1>1, CountsEach, CountsStep, PTL DEF Spec
=============================================================================
