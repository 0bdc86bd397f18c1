----------------------------- MODULE ClientRuns -----------------------------
(***************************************************************************)
(* What an AgentDataClient runs besides plans, and the spans it traces it  *)
(* with: query(), execute_task(), execute_workflow() with its engine       *)
(* (agent_data/workflow) and agent_loop() with its runner                  *)
(* (agent_data/loop).  An executor, a step or a connector may call the     *)
(* client again: such an operation is nested, and runs in the asyncio task *)
(* of the outermost one.  These tasks share the tracer; the id of the      *)
(* active trace belongs to the context of one task.                        *)
(***************************************************************************)
EXTENDS Naturals, Sequences, FiniteSets

CONSTANTS
  Ops,
  Kind,           \* Kind[o]: "query", "task", "workflow" or "loop"
  Parent,         \* Parent[o]: the operation o is nested in, or NoOp
  Timed,          \* the loops with a timeout_seconds, the queries with a timeout
  NoOp,
  Steps,          \* the number of steps of a workflow
  MaxIterations   \* max_iterations

ASSUME KindAssumption == Kind \in [Ops -> {"query", "task", "workflow", "loop"}]
ASSUME ParentAssumption == Parent \in [Ops -> Ops \cup {NoOp}] /\ NoOp \notin Ops
ASSUME BoundsAssumption == Timed \subseteq Ops /\ Steps \in Nat /\ MaxIterations \in Nat

\* With each operation in S, the one it is nested in.
Upward(S) == \A x \in S : Parent[x] # NoOp => Parent[x] \in S

\* o and the operations it is nested in, at any depth; what is nested in o.
Around == [o \in Ops |-> {a \in Ops : \A S \in SUBSET Ops : o \in S /\ Upward(S) => a \in S}]
Below(o) == {c \in Ops : c # o /\ o \in Around[c]}

Roots == {o \in Ops : Parent[o] = NoOp}
Root(o) == CHOOSE r \in Around[o] : r \in Roots

\* In the end every operation is nested in one called from outside.
ASSUME NestingAssumption == \A o \in Ops : \E r \in Around[o] : r \in Roots

VARIABLES
  tracer,   \* "memory" or "otel"
  state,    \* of each operation: "idle", "running" or how it ended
  span,     \* its span: the trace_id, and how it was finished
  context,  \* the active trace id in each task
  token,    \* what the id was before the query set it
  done,     \* the statuses of the steps so far, in the order of the history
  index,    \* the step or iteration it is at
  executing \* the queries in connector.execute(): before that they look into the cache
            \* and for a connector, which they may have to connect

vars == <<tracer, state, span, context, token, done, index, executing>>

Ends == {"completed", "failed", "timeout", "max_iterations", "raised", "cancelled"}
NoSpan == [trace |-> NoOp, finished |-> "no"]

TypeOK ==
  /\ tracer \in {"memory", "otel"}
  /\ state \in [Ops -> {"idle", "running"} \cup Ends]
  /\ span \in [Ops -> [trace : Ops \cup {NoOp}, finished : {"no", "ok", "error"}]]
  /\ context \in [Roots -> Ops \cup {NoOp}]
  /\ token \in [Ops -> Ops \cup {NoOp}]
  /\ done \in [Ops -> Seq({"completed", "skipped", "failed"})]
  /\ \A o \in Ops : index[o] \in 0..(IF Kind[o] = "loop" THEN MaxIterations ELSE Steps)
  /\ executing \subseteq Ops

Init ==
  /\ tracer \in {"memory", "otel"}
  /\ state = [o \in Ops |-> "idle"]
  /\ span = [o \in Ops |-> NoSpan]
  /\ context = [r \in Roots |-> NoOp]
  /\ token = [o \in Ops |-> NoOp]
  /\ done = [o \in Ops |-> <<>>]
  /\ index = [o \in Ops |-> 0]
  /\ executing = {}

Running(o) == state[o] = "running"

\* The operation's own code has the turn: nothing nested in it is running (code
\* that calls the client several times at once is not modelled).
Turn(o) == Running(o) /\ \A c \in Below(o) : ~Running(c)

\* A runner calls what is nested in it only from a step.
Steppable(o) ==
  CASE Kind[o] = "workflow" -> index[o] < Steps
    [] Kind[o] = "loop" -> index[o] < MaxIterations
    [] OTHER -> TRUE

-----------------------------------------------------------------------------
(* Spans.                                                                  *)

\* start_span: MemoryTracer's belongs to the active trace, if there is one.
Started(o) ==
  [NoSpan EXCEPT !.trace =
     IF tracer = "memory" /\ context[Root(o)] # NoOp THEN context[Root(o)] ELSE o]

\* finish_span: ends the span as "ok", whatever came of the operation.
Finished(o) == [span EXCEPT ![o].finished = "ok"]

\* span.finish(status="error"), past the tracer: OpenTelemetry's is never ended.
Marked(o) == [span EXCEPT ![o].finished = "error"]

\* Fault: the active trace id is reset only when the query returns normally.
LeavesQuietly(o, end, s) ==
  /\ state' = [state EXCEPT ![o] = end]
  /\ span' = s
  /\ context' = IF Kind[o] = "query" /\ s[o].finished = "ok"
                THEN [context EXCEPT ![Root(o)] = token[o]] ELSE context
  /\ executing' = executing \ {o}

\* The operation ends; query() resets the active trace id.
Leaves(o, end, s) ==
  /\ state' = [state EXCEPT ![o] = end]
  /\ span' = s
  /\ context' = IF Kind[o] = "query" THEN [context EXCEPT ![Root(o)] = token[o]] ELSE context
  /\ executing' = executing \ {o}

\* Fault: what is nested goes on.
CancelBelowNothing(o, end, s) == Leaves(o, end, s)

\* o ends with what is nested in it cancelled: CancelledError passes by every
\* except, so these spans stay open, but the active trace id is reset.
CancelBelow(o, end, s) ==
  LET cancelled == {c \in Below(o) : Running(c)}
      queries == {c \in cancelled \cup {o} : Kind[c] = "query"}
      outermost == CHOOSE q \in queries : \A c \in queries : q \in Around[c]
  IN /\ state' = [c \in Ops |-> IF c = o THEN end ELSE IF c \in cancelled THEN "cancelled" ELSE state[c]]
     /\ span' = s
     /\ context' = IF queries = {} THEN context ELSE [context EXCEPT ![Root(o)] = token[outermost]]
     /\ executing' = executing \ ({o} \cup cancelled)

-----------------------------------------------------------------------------
(* The operations.                                                         *)

\* An operation is called: a span is started, and query() makes its trace the
\* active one.
Call(o) ==
  /\ state[o] = "idle"
  /\ Parent[o] # NoOp => Turn(Parent[o]) /\ Steppable(Parent[o])
  /\ state' = [state EXCEPT ![o] = "running"]
  /\ span' = [span EXCEPT ![o] = Started(o)]
  /\ IF Kind[o] = "query"
     THEN /\ token' = [token EXCEPT ![o] = context[Root(o)]]
          /\ context' = [context EXCEPT ![Root(o)] = Started(o).trace]
     ELSE UNCHANGED <<token, context>>
  /\ UNCHANGED <<tracer, done, index, executing>>

Same == UNCHANGED <<tracer, token, done, index>>
Stays == UNCHANGED <<tracer, state, span, context, token, executing>>

Advance(o) == index' = [index EXCEPT ![o] = @ + 1]
Note(o, status) == done' = [done EXCEPT ![o] = Append(@, status)]

\* query(): a connector is there, and executes the query.
QueryExecutes(o) ==
  /\ Kind[o] = "query" /\ Turn(o) /\ o \notin executing
  /\ executing' = executing \cup {o}
  /\ UNCHANGED <<tracer, state, span, context, token, done, index>>

\* A result, from the cache or from the connector, also one with an error in it;
\* or an exception.
QueryReturns(o) ==
  /\ Kind[o] = "query" /\ Turn(o)
  /\ Leaves(o, "completed", Finished(o))
  /\ Same
QueryFails(o) ==
  /\ Kind[o] = "query" /\ Turn(o)
  /\ Leaves(o, "failed", Marked(o))
  /\ Same

\* ... or wait_for cancels connector.execute(), which is all it is put around.
QueryTimesOut(o) ==
  /\ Kind[o] = "query" /\ o \in Timed /\ Running(o) /\ o \in executing
  /\ CancelBelow(o, "timeout", Marked(o))
  /\ Same

\* Fault: only a task that completes finishes its span.
TaskEndsOpen(o) ==
  /\ Kind[o] = "task" /\ Turn(o)
  /\ \/ Leaves(o, "completed", Finished(o))
     \/ Leaves(o, "failed", span)
  /\ Same

\* execute_task(): the executor returns or raises.
TaskEnds(o) ==
  /\ Kind[o] = "task" /\ Turn(o)
  /\ Leaves(o, "completed", Finished(o)) \/ Leaves(o, "failed", Finished(o))
  /\ Same

AtStep(o) == Kind[o] = "workflow" /\ Running(o) /\ Steppable(o)

\* Fault: a skipped step is passed both here and at the end of the body.
StepSkippedTwice(o) ==
  AtStep(o) /\ Turn(o) /\ index' = [index EXCEPT ![o] = @ + 2] /\ UNCHANGED done /\ Stays

\* should_skip(): the step leaves no trace in the history; or it raises, and
\* execute_workflow() does.
StepSkipped(o) == AtStep(o) /\ Turn(o) /\ Advance(o) /\ UNCHANGED done /\ Stays
SkipRaises(o) == AtStep(o) /\ Turn(o) /\ Leaves(o, "raised", Finished(o)) /\ Same

\* A step completes, or a ConditionalStep has nothing to do.
StepEnds(o) ==
  /\ AtStep(o) /\ Turn(o)
  /\ Note(o, "completed") \/ Note(o, "skipped")
  /\ Advance(o) /\ Stays

\* Fault: the workflow goes on after a failed step.
StepFailsOn(o) == AtStep(o) /\ Turn(o) /\ Note(o, "failed") /\ Advance(o) /\ Stays

\* A step raises, or times out in the middle of what it calls: it is the last
\* one, and execute_workflow() returns as if all were well.
StepFails(o) ==
  /\ AtStep(o)
  /\ Note(o, "failed")
  /\ CancelBelow(o, "completed", Finished(o))
  /\ UNCHANGED <<tracer, token, index>>

WorkflowReturns(o) ==
  /\ Kind[o] = "workflow" /\ Turn(o) /\ index[o] = Steps
  /\ Leaves(o, "completed", Finished(o))
  /\ Same

AtIteration(o) == Kind[o] = "loop" /\ Running(o) /\ Steppable(o)

\* A step of the loop returns and is_complete() does not hold yet.
Iterate(o) ==
  /\ AtIteration(o) /\ Turn(o)
  /\ Note(o, "completed") /\ Advance(o) /\ Stays

\* Fault: an iteration is counted when the next one begins.
LoopCompletesUncounted(o) ==
  /\ AtIteration(o) /\ Turn(o)
  /\ Note(o, "completed")
  /\ Leaves(o, "completed", Finished(o))
  /\ UNCHANGED <<tracer, token, index>>

\* ... or does hold: the iteration counts.
LoopCompletes(o) ==
  /\ AtIteration(o) /\ Turn(o)
  /\ Note(o, "completed") /\ Advance(o)
  /\ Leaves(o, "completed", Finished(o))
  /\ UNCHANGED <<tracer, token>>

\* The step raises; a TimeoutError of its own is taken for the loop's timeout.
LoopStepFails(o) ==
  /\ AtIteration(o) /\ Turn(o)
  /\ \E end \in {"failed", "timeout"} : Leaves(o, end, Finished(o))
  /\ Same

\* is_complete() raises: the step is in the history, the iteration not counted.
LoopCheckFails(o) ==
  /\ AtIteration(o) /\ Turn(o)
  /\ Note(o, "failed")
  /\ \E end \in {"failed", "timeout"} : Leaves(o, end, Finished(o))
  /\ UNCHANGED <<tracer, token, index>>

\* Fault: the time is looked at only between two steps.
LoopTimesOutBetween(o) ==
  /\ AtIteration(o) /\ o \in Timed /\ Turn(o)
  /\ Leaves(o, "timeout", Finished(o))
  /\ Same

\* The time is up: before a step, or in it.
LoopTimesOut(o) ==
  /\ AtIteration(o) /\ o \in Timed
  /\ CancelBelow(o, "timeout", Finished(o))
  /\ Same

LoopExhausted(o) ==
  /\ Kind[o] = "loop" /\ Turn(o) /\ index[o] = MaxIterations
  /\ Leaves(o, "max_iterations", Finished(o))
  /\ Same

\* The task is cancelled from outside: no span is finished.
Cancel(o) ==
  /\ o \in Roots /\ Running(o)
  /\ CancelBelow(o, "cancelled", span)
  /\ Same

Workflow(o) == StepSkipped(o) \/ SkipRaises(o) \/ StepEnds(o) \/ StepFails(o) \/ WorkflowReturns(o)
Loop(o) ==
  \/ Iterate(o) \/ LoopCompletes(o) \/ LoopStepFails(o) \/ LoopCheckFails(o)
  \/ LoopTimesOut(o) \/ LoopExhausted(o)
Query(o) == QueryExecutes(o) \/ QueryReturns(o) \/ QueryFails(o) \/ QueryTimesOut(o)

Next ==
  \E o \in Ops : Call(o) \/ Query(o) \/ TaskEnds(o) \/ Workflow(o) \/ Loop(o) \/ Cancel(o)

\* A timeout is kept, and a runner goes on; connectors, executors and steps of
\* users need not return, nor a connect() come to an end.
Fairness ==
  \A o \in Ops : WF_vars(QueryTimesOut(o)) /\ WF_vars(LoopTimesOut(o)) /\ WF_vars(LoopExhausted(o))

Spec == Init /\ [][Next]_vars /\ Fairness

-----------------------------------------------------------------------------
(* Properties.                                                             *)

\* The query nearest around o, or NoOp.
QueryAround(o) ==
  LET queries == {q \in Around[o] \ {o} : Kind[q] = "query"}
  IN IF queries = {} THEN NoOp ELSE CHOOSE q \in queries : queries \subseteq Around[q]

\* With MemoryTracer the spans of one trace are those of a query and of what is
\* nested in it: no trace id leaks into a later operation of the task, however the
\* query before it ended (client.py 297-301; tracing/memory.py 43-45).  With
\* OpenTelemetryTracer no span joins another's trace: start_span passes the active
\* trace id by (opentelemetry.py 91-94), unlike what docs/SUPPORTED_FEATURES.md
\* says in line 33 ("trace_id" is passed on by contextvars).
TracesAreNested ==
  \A o \in Ops : state[o] # "idle" =>
    span[o].trace = IF tracer = "memory" /\ QueryAround(o) # NoOp
                    THEN span[QueryAround(o)].trace ELSE o

\* The status a span has to have once its operation has ended.
StatusOf(o, end) ==
  IF end = "cancelled" THEN "no" ELSE IF Kind[o] = "query" /\ end # "completed" THEN "error" ELSE "ok"

\* Every operation that returns has finished its span, as an error if it is a
\* query that raised; only the cancelled ones are left open.
SpansFinish == \A o \in Ops : state[o] \in Ends => span[o].finished = StatusOf(o, state[o])

\* Nothing nested outlives the operation it is nested in, timeouts and
\* cancellations included.
NothingOutlives ==
  \A o \in Ops : Running(o) => \A a \in Around[o] : Running(a)

\* No step of a workflow follows one that failed, and one that returns with no
\* failed step has passed all of its steps (workflow/engine.py 41-73).
StopsAtFailure ==
  \A o \in Ops : Kind[o] = "workflow" =>
    LET failed == {i \in DOMAIN done[o] : done[o][i] = "failed"}
    IN /\ failed \subseteq {Len(done[o])}
       /\ failed # {} => ~Running(o)
       /\ state[o] = "completed" /\ failed = {} => index[o] = Steps

\* A loop reports as many iterations as its history has steps, one fewer if
\* the completion check raised; it gives up only after max_iterations of them,
\* and completes after one at least (loop/agent_loop.py 140-222).
IterationsCounted ==
  \A o \in Ops : Kind[o] = "loop" =>
    /\ index[o] = Cardinality({i \in DOMAIN done[o] : done[o][i] = "completed"})
    /\ state[o] = "max_iterations" => Len(done[o]) = MaxIterations
    /\ state[o] = "completed" => index[o] > 0

\* A loop with a timeout ends whatever its steps call, a query that hangs in
\* connect() included; a query with one ends once its connector executes it, and
\* is not bounded before (client.py 249 is outside of the wait_for of 253).
Bounded(o) == Running(o) /\ (Kind[o] = "query" => o \in executing)
TimedOpsEnd == \A o \in Timed : Bounded(o) ~> ~Running(o)
=============================================================================
