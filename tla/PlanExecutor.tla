---------------------------- MODULE PlanExecutor ----------------------------
(***************************************************************************)
(* Execution of a TaskPlan (agent_data/planning/executor.py, task.py) by   *)
(* concurrent calls of execute() and execute_sequential() on one plan and  *)
(* one PlanExecutor, while callers cancel, retry and unblock tasks and     *)
(* give up on calls.                                                       *)
(*                                                                         *)
(* A call that finds nothing ready but something in progress looks again   *)
(* after 0.1 s: polling is stuttering here.                                *)
(***************************************************************************)
EXTENDS Naturals, Sequences, FiniteSets

CONSTANTS
  Order,          \* the tasks, in the order of plan.tasks
  Dependencies,   \* Dependencies[t]: the tasks t depends on
  Registered,     \* the tasks FunctionTaskExecutor has a function for
  MaxRetries,     \* max_retries of the tasks
  Runs, Sequential,  \* the calls; those of execute_sequential
  MaxConcurrent,  \* max_concurrent
  MaxCalls        \* bound on the calls made

Tasks == {Order[i] : i \in DOMAIN Order}

ASSUME OrderAssumption == Order \in Seq(Tasks)
ASSUME DependenciesAssumption == Dependencies \in [Tasks -> SUBSET Tasks]
ASSUME SequentialAssumption == Sequential \subseteq Runs
ASSUME LimitsAssumption == MaxConcurrent \in Nat /\ MaxRetries \in Nat /\ MaxCalls \in Nat

VARIABLES
  status,     \* the TaskStatus of each task
  retries,    \* retry_count
  loop,       \* where each call stands
  stage,      \* what each call does with each task of its current batch
  results,    \* the statuses in the dictionary each call is building
  starts,     \* history: how often each task was started,
  completed   \* ... and which tasks have ever completed

vars == <<status, retries, loop, stage, results, starts, completed>>
history == <<starts, completed>>

Statuses == {"pending", "in_progress", "completed", "failed", "blocked", "cancelled"}

TypeOK ==
  /\ status \in [Tasks -> Statuses]
  /\ retries \in [Tasks -> 0..MaxRetries]
  /\ loop \in [Runs -> {"idle", "deciding", "gathering", "ended", "aborted"}]
  /\ stage \in [Runs -> [Tasks -> {"none", "queued", "running"}]]
  /\ results \in [Runs -> [Tasks -> {"none", "completed", "failed"}]]
  /\ starts \in [Tasks -> Nat]
  /\ completed \in SUBSET Tasks

None == [t \in Tasks |-> "none"]

Init ==
  /\ status = [t \in Tasks |-> "pending"]
  /\ retries = [t \in Tasks |-> 0]
  /\ loop = [e \in Runs |-> "idle"]
  /\ stage = [e \in Runs |-> None]
  /\ results = [e \in Runs |-> None]
  /\ starts = [t \in Tasks |-> 0]
  /\ completed = {}

-----------------------------------------------------------------------------
(* The loop of execute() and execute_sequential().                         *)

\* Fault: a dependency that failed counts as met.
ReadyAfterAny(t) == status[t] = "pending" /\ \A d \in Dependencies[t] : status[d] \in {"completed", "failed"}

\* Fault: Task.is_ready is asked, which wants no dependencies at all.
ReadyAlone(t) == status[t] = "pending" /\ Dependencies[t] = {}

\* get_ready_tasks
Ready(t) == status[t] = "pending" /\ \A d \in Dependencies[t] : status[d] = "completed"
ReadyTasks == {t \in Tasks : Ready(t)}

With(s) == {t \in Tasks : status[t] = s}
Complete == With("pending") \cup With("in_progress") = {}

Begin(e) ==
  /\ loop[e] = "idle"
  /\ Cardinality({f \in Runs : loop[f] # "idle"}) < MaxCalls
  /\ loop' = [loop EXCEPT ![e] = "deciding"]
  /\ UNCHANGED <<status, retries, stage, results, history>>

\* Fault: no way out but a complete plan.
EndComplete(e) ==
  /\ loop[e] = "deciding" /\ Complete
  /\ loop' = [loop EXCEPT ![e] = "ended"]
  /\ UNCHANGED <<status, retries, stage, results, history>>

\* execute() waits for tasks in progress, execute_sequential() does not.
End(e) ==
  /\ loop[e] = "deciding"
  /\ ReadyTasks = {}
  /\ Complete \/ e \in Sequential \/ With("in_progress") = {}
  /\ loop' = [loop EXCEPT ![e] = "ended"]
  /\ UNCHANGED <<status, retries, stage, results, history>>

\* The tasks that plan.tasks lists before t.
Before(t) == {Order[i] : i \in {i \in DOMAIN Order : \E j \in DOMAIN Order : i < j /\ Order[j] = t}}

\* ready_tasks[: max_concurrent], or all of them, one by one.
Batch(e) == {t \in ReadyTasks :
               e \in Sequential \/ Cardinality(Before(t) \cap ReadyTasks) < MaxConcurrent}

Gather(e) ==
  /\ loop[e] = "deciding" /\ Batch(e) # {}
  /\ loop' = [loop EXCEPT ![e] = "gathering"]
  /\ stage' = [stage EXCEPT ![e] = [t \in Tasks |-> IF t \in Batch(e) THEN "queued" ELSE "none"]]
  /\ UNCHANGED <<status, retries, results, history>>

Gathered(e) ==
  /\ loop[e] = "gathering" /\ stage[e] = None
  /\ loop' = [loop EXCEPT ![e] = "deciding"]
  /\ UNCHANGED <<status, retries, stage, results, history>>

\* The task that awaits the call is cancelled, and with it what it gathers:
\* CancelledError is no Exception, so the tasks keep the status they have.
Abort(e) ==
  /\ loop[e] \in {"deciding", "gathering"}
  /\ loop' = [loop EXCEPT ![e] = "aborted"]
  /\ stage' = [stage EXCEPT ![e] = None]
  /\ UNCHANGED <<status, retries, results, history>>

-----------------------------------------------------------------------------
(* FunctionTaskExecutor.execute, behind the semaphore or in sequence.      *)

Holders == {h \in (Runs \ Sequential) \X Tasks : stage[h[1]][h[2]] = "running"}

\* A call of execute() enters with a permit; execute_sequential() takes the
\* tasks of its batch one after the other.
MayEnter(e, t) ==
  /\ stage[e][t] = "queued"
  /\ IF e \in Sequential
       THEN \A u \in Tasks : /\ stage[e][u] # "running"
                             /\ stage[e][u] = "queued" => u \notin Before(t)
       ELSE Cardinality(Holders) < MaxConcurrent

Start(e, t) ==
  /\ MayEnter(e, t) /\ t \in Registered
  /\ status' = [status EXCEPT ![t] = "in_progress"]
  /\ starts' = [starts EXCEPT ![t] = @ + 1]
  /\ stage' = [stage EXCEPT ![e][t] = "running"]
  /\ UNCHANGED <<retries, loop, results, completed>>

\* The dependents of a task that failed for good are blocked, in sequence only.
Blocked(e, t) == {u \in Tasks : e \in Sequential /\ retries[t] >= MaxRetries /\ t \in Dependencies[u]}

Over(e, t, outcome) ==
  /\ stage' = [stage EXCEPT ![e][t] = "none"]
  /\ results' = [results EXCEPT ![e][t] = outcome]
  /\ UNCHANGED <<retries, loop, starts>>

\* The function returned: whatever the status was meanwhile, it is overwritten.
Completes(e, t) ==
  /\ stage[e][t] = "running"
  /\ status' = [status EXCEPT ![t] = "completed"]
  /\ completed' = completed \cup {t}
  /\ Over(e, t, "completed")

\* Fault: a failed task keeps its status.
FailsSilently(e, t) ==
  /\ stage[e][t] = "running"
  /\ Over(e, t, "failed")
  /\ UNCHANGED <<status, completed>>

\* Fault: a failed task is queued anew, without counting.
FailsRequeued(e, t) ==
  /\ stage[e][t] = "running" \/ (MayEnter(e, t) /\ t \notin Registered)
  /\ status' = [status EXCEPT ![t] = "pending"]
  /\ Over(e, t, "failed")
  /\ UNCHANGED completed

\* It raised or timed out, or there is no function for the task.
Fails(e, t) ==
  /\ stage[e][t] = "running" \/ (MayEnter(e, t) /\ t \notin Registered)
  /\ status' = [u \in Tasks |-> IF u \in Blocked(e, t) THEN "blocked"
                                ELSE IF u = t THEN "failed" ELSE status[u]]
  /\ Over(e, t, "failed")
  /\ UNCHANGED completed

-----------------------------------------------------------------------------
(* What callers do to a task meanwhile.                                    *)

Becomes(t, s) == status' = [status EXCEPT ![t] = s] /\ UNCHANGED <<loop, stage, results, history>>

CancelTask(t) == Becomes(t, "cancelled") /\ UNCHANGED retries

Unblock(t) == status[t] = "blocked" /\ Becomes(t, "pending") /\ UNCHANGED retries

\* SimpleTaskPlanner.replan, given the failed result a call has for the task.
Retry(t) ==
  /\ \E e \in Runs : results[e][t] = "failed"
  /\ retries[t] < MaxRetries
  /\ retries' = [retries EXCEPT ![t] = @ + 1]
  /\ Becomes(t, "pending")

-----------------------------------------------------------------------------

Runtime(e) == End(e) \/ Gather(e) \/ Gathered(e)
Execution(e) == \E t \in Tasks : Start(e, t) \/ Completes(e, t) \/ Fails(e, t)

Next ==
  \/ \E e \in Runs : Begin(e) \/ Runtime(e) \/ Abort(e) \/ Execution(e)
  \/ \E t \in Tasks : CancelTask(t) \/ Unblock(t) \/ Retry(t)

Safety == Init /\ [][Next]_vars

\* The event loop runs what can go on, and the tasks' functions return.
Spec == Safety /\ \A e \in Runs : WF_vars(Runtime(e)) /\ WF_vars(Execution(e))

-----------------------------------------------------------------------------
(* Properties.                                                             *)

\* No task starts before each task it depends on has completed, whoever runs
\* the plan and whatever is cancelled, retried or unblocked on the way.
DependenciesFirst == \A t \in Tasks : starts[t] > 0 => Dependencies[t] \subseteq completed

\* A lone call runs a task again only after a retry asked for it, whatever is
\* cancelled or unblocked on the way.
StartedOnce == \A t \in Tasks : starts[t] <= 1 + retries[t]

\* The task counts as in progress, with nobody at it.
Orphaned(t) == status[t] = "in_progress" /\ \A e \in Runs : stage[e][t] # "running"

\* A task is left in progress with nobody at it only by the cancellation of the
\* very call that runs it, never by a call that goes on, fails it, forms its next
\* batch or ends, nor by the cancellation of another call.
InProgressIsRun ==
  [][\A t \in Tasks : Orphaned(t)' /\ ~Orphaned(t) =>
       \E e \in Runs : Abort(e) /\ stage[e][t] = "running"]_vars

\* S has, with each task in it, what the task depends on.
Closed(S) == \A t \in S : Dependencies[t] \subseteq S

\* Behind[t]: what t depends on, directly or not.
Behind == [t \in Tasks |->
             {d \in Tasks : \A S \in SUBSET Tasks : Dependencies[t] \subseteq S /\ Closed(S) => d \in S}]

\* A lone call leaves a task pending only behind one that failed, was cancelled
\* or is blocked, unless the dependencies form a cycle.
PendingOnlyBehindFailures ==
  [][\A e \in Runs : End(e) /\ (\A t \in Tasks : t \notin Behind[t]) =>
       \A t \in With("pending") : \E d \in Behind[t] : status[d] \in {"failed", "cancelled", "blocked"}]_vars

\* Every call ends.
RunsEnd == \A e \in Runs : loop[e] \in {"deciding", "gathering"} ~> loop[e] \in {"ended", "aborted"}
=============================================================================
