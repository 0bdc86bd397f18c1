------------------------- MODULE PlanExecutorProofs -------------------------
(***************************************************************************)
(* Proofs about PlanExecutor for any plan, any number of calls on it, and   *)
(* any limits.                                                             *)
(***************************************************************************)
EXTENDS PlanExecutor, FiniteSetTheorems, SequenceTheorems, TLAPS

LEMMA NoneType == None \in [Tasks -> {"none", "queued", "running"}]
BY DEF None

LEMMA TypeStep == TypeOK /\ [Next]_vars => TypeOK'
<1>. SUFFICES ASSUME TypeOK, [Next]_vars PROVE TypeOK'
  OBVIOUS
<1>1. ASSUME NEW e \in Runs, Begin(e) \/ End(e) \/ Gathered(e) PROVE TypeOK'
  BY <1>1 DEF Begin, End, Gathered, history, TypeOK
<1>2. ASSUME NEW e \in Runs, Gather(e) PROVE TypeOK'
  <2>1. loop' \in [Runs -> {"idle", "deciding", "gathering", "ended", "aborted"}]
    BY <1>2 DEF Gather, TypeOK
  <2>2. stage' \in [Runs -> [Tasks -> {"none", "queued", "running"}]]
    BY <1>2 DEF Gather, TypeOK
  <2>. QED
    BY <1>2, <2>1, <2>2 DEF Gather, history, TypeOK
<1>3. ASSUME NEW e \in Runs, Abort(e) PROVE TypeOK'
  BY <1>3, NoneType DEF Abort, history, TypeOK
<1>4. ASSUME NEW e \in Runs, NEW t \in Tasks, Start(e, t) PROVE TypeOK'
  <2>1. stage' \in [Runs -> [Tasks -> {"none", "queued", "running"}]]
    BY <1>4 DEF Start, TypeOK
  <2>2. status' \in [Tasks -> Statuses] /\ starts' \in [Tasks -> Nat]
    BY <1>4 DEF Start, TypeOK, Statuses
  <2>. QED
    BY <1>4, <2>1, <2>2 DEF Start, TypeOK
<1>5. ASSUME NEW e \in Runs, NEW t \in Tasks, Completes(e, t) \/ Fails(e, t) PROVE TypeOK'
  <2>1. PICK outcome \in {"completed", "failed"} : Over(e, t, outcome)
    BY <1>5 DEF Completes, Fails
  <2>2. stage' \in [Runs -> [Tasks -> {"none", "queued", "running"}]]
    BY <2>1 DEF Over, TypeOK
  <2>3. results' \in [Runs -> [Tasks -> {"none", "completed", "failed"}]]
    BY <2>1 DEF Over, TypeOK
  <2>4. status' \in [Tasks -> Statuses] /\ completed' \in SUBSET Tasks
    BY <1>5 DEF Completes, Fails, TypeOK, Statuses
  <2>. QED
    BY <2>1, <2>2, <2>3, <2>4 DEF Over, TypeOK
<1>6. ASSUME NEW t \in Tasks, CancelTask(t) \/ Unblock(t) PROVE TypeOK'
  BY <1>6 DEF CancelTask, Unblock, Becomes, history, TypeOK, Statuses
<1>7. ASSUME NEW t \in Tasks, Retry(t) PROVE TypeOK'
  <2>1. retries' \in [Tasks -> 0..MaxRetries]
    BY <1>7, LimitsAssumption DEF Retry, TypeOK
  <2>. QED
    BY <1>7, <2>1 DEF Retry, Becomes, history, TypeOK, Statuses
<1>8. CASE UNCHANGED vars
  BY <1>8 DEF vars, TypeOK
<1>. QED
  BY <1>1, <1>2, <1>3, <1>4, <1>5, <1>6, <1>7, <1>8 DEF Next, Runtime, Execution

\* The state of the calls and of the tasks keeps its type.
THEOREM TypeCorrect == Safety => []TypeOK
<1>1. Init => TypeOK
  BY LimitsAssumption, NoneType DEF Init, TypeOK, Statuses, None
<1>. QED
  BY <1>1, TypeStep, PTL DEF Safety

-----------------------------------------------------------------------------
(***************************************************************************)
(* Dependencies.  A task that starts was ready when its batch was formed,  *)
(* not when it starts: the invariant carries that fact over the wait, in    *)
(* terms of the tasks that have ever completed, which only grow.           *)
(***************************************************************************)
OrderInv ==
  /\ With("completed") \subseteq completed
  /\ \A e \in Runs, t \in Tasks : stage[e][t] # "none" => Dependencies[t] \subseteq completed
  /\ DependenciesFirst

LEMMA OrderStep == TypeOK /\ OrderInv /\ [Next]_vars => OrderInv'
<1>. SUFFICES ASSUME TypeOK, OrderInv, [Next]_vars PROVE OrderInv'
  OBVIOUS
<1>1. ASSUME NEW e \in Runs, Begin(e) \/ End(e) \/ Gathered(e) PROVE OrderInv'
  BY <1>1 DEF Begin, End, Gathered, history, OrderInv, DependenciesFirst, With
<1>2. ASSUME NEW e \in Runs, Gather(e) PROVE OrderInv'
  <2>1. \A t \in Batch(e) : Dependencies[t] \subseteq completed
    BY DependenciesAssumption DEF Batch, ReadyTasks, Ready, With, OrderInv
  <2>2. ASSUME NEW f \in Runs, NEW t \in Tasks, stage'[f][t] # "none"
        PROVE  Dependencies[t] \subseteq completed
    <3>1. CASE f = e
      BY <1>2, <2>1, <2>2, <3>1 DEF Gather, TypeOK
    <3>2. CASE f # e
      BY <1>2, <2>2, <3>2 DEF Gather, TypeOK, OrderInv
    <3>. QED
      BY <3>1, <3>2
  <2>. QED
    BY <1>2, <2>2 DEF Gather, history, OrderInv, DependenciesFirst, With
<1>3. ASSUME NEW e \in Runs, Abort(e) PROVE OrderInv'
  <2>1. \A f \in Runs, t \in Tasks : stage'[f][t] # "none" => stage[f][t] # "none"
    BY <1>3 DEF Abort, None, TypeOK
  <2>. QED
    BY <1>3, <2>1 DEF Abort, history, OrderInv, DependenciesFirst, With
<1>4. ASSUME NEW e \in Runs, NEW t \in Tasks, Start(e, t) PROVE OrderInv'
  <2>1. stage[e][t] # "none"
    BY <1>4 DEF Start, MayEnter
  <2>2. \A f \in Runs, u \in Tasks : stage'[f][u] # "none" => stage[f][u] # "none"
    BY <1>4, <2>1 DEF Start, TypeOK
  <2>3. DependenciesFirst'
    BY <1>4, <2>1 DEF Start, TypeOK, OrderInv, DependenciesFirst
  <2>4. With("completed")' \subseteq completed'
    BY <1>4 DEF Start, TypeOK, OrderInv, With
  <2>. QED
    BY <1>4, <2>2, <2>3, <2>4 DEF Start, OrderInv
<1>5. ASSUME NEW e \in Runs, NEW t \in Tasks, Completes(e, t) \/ Fails(e, t) PROVE OrderInv'
  <2>1. PICK outcome \in {"completed", "failed"} : Over(e, t, outcome)
    BY <1>5 DEF Completes, Fails
  <2>2. \A f \in Runs, u \in Tasks : stage'[f][u] # "none" => stage[f][u] # "none"
    BY <2>1 DEF Over, TypeOK
  <2>3. completed \subseteq completed' /\ UNCHANGED starts
    BY <1>5, <2>1 DEF Completes, Fails, Over
  <2>4. With("completed")' \subseteq completed'
    BY <1>5 DEF Completes, Fails, TypeOK, OrderInv, With
  <2>. QED
    BY <2>2, <2>3, <2>4 DEF OrderInv, DependenciesFirst
<1>6. ASSUME NEW t \in Tasks, CancelTask(t) \/ Unblock(t) \/ Retry(t) PROVE OrderInv'
  BY <1>6 DEF CancelTask, Unblock, Retry, Becomes, history, TypeOK, OrderInv, DependenciesFirst, With
<1>7. CASE UNCHANGED vars
  BY <1>7 DEF vars, OrderInv, DependenciesFirst, With
<1>. QED
  BY <1>1, <1>2, <1>3, <1>4, <1>5, <1>6, <1>7 DEF Next, Runtime, Execution

\* No call, however interleaved with others, starts a task before all it
\* depends on has completed.
THEOREM DependenciesCorrect == Safety => []DependenciesFirst
<1>1. Init => OrderInv
  BY DEF Init, None, OrderInv, DependenciesFirst, With
<1>2. OrderInv => DependenciesFirst
  BY DEF OrderInv
<1>. QED
  BY <1>1, <1>2, OrderStep, TypeCorrect, PTL DEF Safety

-----------------------------------------------------------------------------
(***************************************************************************)
(* Tasks in progress.  Only a call that gathers has tasks in its hands, so  *)
(* forming a batch forgets none, and a task that loses the call at it is    *)
(* completed or failed, unless the call is cancelled.                      *)
(***************************************************************************)
HandsInv == \A e \in Runs : loop[e] # "gathering" => stage[e] = None

LEMMA HandsStep == TypeOK /\ HandsInv /\ [Next]_vars => HandsInv'
<1>. SUFFICES ASSUME TypeOK, HandsInv, [Next]_vars PROVE HandsInv'
  OBVIOUS
<1>1. ASSUME NEW e \in Runs, Begin(e) \/ End(e) \/ Gather(e) \/ Gathered(e) \/ Abort(e)
      PROVE  HandsInv'
  BY <1>1 DEF Begin, End, Gather, Gathered, Abort, None, TypeOK, HandsInv
<1>2. ASSUME NEW e \in Runs, NEW t \in Tasks, Start(e, t) \/ Completes(e, t) \/ Fails(e, t)
      PROVE  HandsInv'
  <2>1. stage[e][t] # "none"
    BY <1>2 DEF Start, Completes, Fails, MayEnter
  <2>2. loop[e] = "gathering"
    BY <2>1 DEF HandsInv, None
  <2>3. UNCHANGED loop /\ \A f \in Runs \ {e} : stage'[f] = stage[f]
    BY <1>2 DEF Start, Completes, Fails, Over, TypeOK
  <2>. QED
    BY <2>2, <2>3 DEF HandsInv, None
<1>3. ASSUME NEW t \in Tasks, CancelTask(t) \/ Unblock(t) \/ Retry(t) PROVE HandsInv'
  BY <1>3 DEF CancelTask, Unblock, Retry, Becomes, HandsInv, None
<1>4. CASE UNCHANGED vars
  BY <1>4 DEF vars, HandsInv, None
<1>. QED
  BY <1>1, <1>2, <1>3, <1>4 DEF Next, Runtime, Execution

\* What a lone call needs to know: no call aborted, no task left in progress.
RunOrAborted ==
  \A t \in With("in_progress") :
    \E e \in Runs : stage[e][t] = "running" \/ loop[e] = "aborted"

LEMMA ProgressStep == TypeOK /\ HandsInv /\ RunOrAborted /\ [Next]_vars => RunOrAborted'
<1>. SUFFICES ASSUME TypeOK, HandsInv, RunOrAborted, [Next]_vars,
                     NEW u \in Tasks, status'[u] = "in_progress"
              PROVE  \E f \in Runs : stage'[f][u] = "running" \/ loop'[f] = "aborted"
  BY DEF RunOrAborted, With
<1>0. ASSUME status[u] = "in_progress",
             \A f \in Runs : /\ stage[f][u] = "running" => stage'[f][u] = "running" \/ loop'[f] = "aborted"
                             /\ loop[f] = "aborted" => loop'[f] = "aborted"
      PROVE  \E f \in Runs : stage'[f][u] = "running" \/ loop'[f] = "aborted"
  BY <1>0 DEF RunOrAborted, With
<1>1. ASSUME NEW e \in Runs, Begin(e) \/ End(e) \/ Gathered(e)
      PROVE  \E f \in Runs : stage'[f][u] = "running" \/ loop'[f] = "aborted"
  BY <1>0, <1>1 DEF Begin, End, Gathered, TypeOK
<1>2. ASSUME NEW e \in Runs, Gather(e) \/ Abort(e)
      PROVE  \E f \in Runs : stage'[f][u] = "running" \/ loop'[f] = "aborted"
  <2>1. Gather(e) => stage[e][u] = "none"
    BY DEF Gather, HandsInv, None
  <2>. QED
    BY <1>0, <1>2, <2>1 DEF Gather, Abort, TypeOK
<1>3. ASSUME NEW e \in Runs, NEW t \in Tasks, Start(e, t)
      PROVE  \E f \in Runs : stage'[f][u] = "running" \/ loop'[f] = "aborted"
  <2>1. CASE t = u
    BY <1>3, <2>1 DEF Start, TypeOK
  <2>2. CASE t # u
    BY <1>0, <1>3, <2>2 DEF Start, TypeOK
  <2>. QED
    BY <2>1, <2>2
<1>4. ASSUME NEW e \in Runs, NEW t \in Tasks, Completes(e, t) \/ Fails(e, t)
      PROVE  \E f \in Runs : stage'[f][u] = "running" \/ loop'[f] = "aborted"
  <2>1. t # u /\ status[u] = "in_progress"
    BY <1>4 DEF Completes, Fails, TypeOK
  <2>. QED
    BY <1>0, <1>4, <2>1 DEF Completes, Fails, Over, TypeOK
<1>5. ASSUME NEW t \in Tasks, CancelTask(t) \/ Unblock(t) \/ Retry(t)
      PROVE  \E f \in Runs : stage'[f][u] = "running" \/ loop'[f] = "aborted"
  BY <1>0, <1>5 DEF CancelTask, Unblock, Retry, Becomes, TypeOK
<1>6. CASE UNCHANGED vars
  BY <1>0, <1>6 DEF vars
<1>. QED
  BY <1>1, <1>2, <1>3, <1>4, <1>5, <1>6 DEF Next, Runtime, Execution

LEMMA OrphanStep ==
  ASSUME TypeOK, HandsInv, [Next]_vars, NEW u \in Tasks, Orphaned(u)', ~Orphaned(u)
  PROVE  \E e \in Runs : Abort(e) /\ stage[e][u] = "running"
<1>. SUFFICES ASSUME \A e \in Runs : Abort(e) => stage[e][u] # "running" PROVE FALSE
  OBVIOUS
<1>0. ASSUME \A f \in Runs : stage[f][u] = "running" => stage'[f][u] = "running",
             status[u] = "in_progress"
      PROVE  FALSE
  BY <1>0 DEF Orphaned
<1>1. ASSUME NEW e \in Runs, Begin(e) \/ End(e) \/ Gathered(e) PROVE FALSE
  BY <1>0, <1>1 DEF Begin, End, Gathered, Orphaned
<1>2. ASSUME NEW e \in Runs, Gather(e) \/ Abort(e) PROVE FALSE
  <2>1. stage[e][u] # "running"
    BY <1>2 DEF Gather, HandsInv, None
  <2>2. UNCHANGED status /\ \A f \in Runs \ {e} : stage'[f] = stage[f]
    BY <1>2 DEF Gather, Abort, TypeOK
  <2>. QED
    BY <1>0, <2>1, <2>2 DEF Orphaned
<1>3. ASSUME NEW e \in Runs, NEW t \in Tasks, Start(e, t) PROVE FALSE
  <2>1. /\ stage'[e][t] = "running"
        /\ \A f \in Runs, v \in Tasks : stage[f][v] = "running" => stage'[f][v] = "running"
        /\ \A v \in Tasks \ {t} : status'[v] = status[v]
    BY <1>3 DEF Start, TypeOK
  <2>. QED
    BY <1>0, <2>1 DEF Orphaned
<1>4. ASSUME NEW e \in Runs, NEW t \in Tasks, Completes(e, t) \/ Fails(e, t) PROVE FALSE
  <2>1. t # u /\ status[u] = "in_progress"
    BY <1>4 DEF Completes, Fails, Orphaned, TypeOK
  <2>2. \A f \in Runs : stage'[f][u] = stage[f][u]
    BY <1>4, <2>1 DEF Completes, Fails, Over, TypeOK
  <2>. QED
    BY <1>0, <2>1, <2>2
<1>5. ASSUME NEW t \in Tasks, CancelTask(t) \/ Unblock(t) \/ Retry(t) PROVE FALSE
  BY <1>0, <1>5 DEF CancelTask, Unblock, Retry, Becomes, Orphaned, TypeOK
<1>6. CASE UNCHANGED vars
  BY <1>0, <1>6 DEF vars, Orphaned
<1>. QED
  BY <1>1, <1>2, <1>3, <1>4, <1>5, <1>6 DEF Next, Runtime, Execution

\* A task is left in progress with nobody at it only by the cancellation of the
\* call that runs it.
THEOREM InProgressCorrect == Safety => InProgressIsRun
<1>1. Init => HandsInv
  BY DEF Init, HandsInv
<1>2. TypeOK /\ HandsInv /\ [Next]_vars =>
        \A t \in Tasks : Orphaned(t)' /\ ~Orphaned(t) =>
          \E e \in Runs : Abort(e) /\ stage[e][t] = "running"
  BY OrphanStep
<1>. QED
  BY <1>1, <1>2, HandsStep, TypeCorrect, PTL DEF Safety, InProgressIsRun

-----------------------------------------------------------------------------
(***************************************************************************)
(* A lone call.  A task that completed is never touched again: what it      *)
(* depends on completed before it, so nothing can fail that would block it. *)
(* A task that waits to be started has not been started since its last     *)
(* retry.                                                                  *)
(***************************************************************************)
Lone ==
  /\ \A e \in Runs : \A f \in Runs : loop[e] # "idle" /\ loop[f] # "idle" => e = f
  /\ \A e \in Runs : loop[e] = "idle" => stage[e] = None /\ results[e] = None

OnceInv ==
  /\ StartedOnce
  /\ \A t \in Tasks : status[t] \in {"pending", "blocked"} => starts[t] <= retries[t]
  /\ \A e \in Runs, t \in Tasks : stage[e][t] = "queued" => starts[t] <= retries[t]
  /\ \A t \in completed : /\ status[t] \in {"completed", "cancelled"}
                          /\ Dependencies[t] \subseteq completed
                          /\ \A e \in Runs : stage[e][t] = "none" /\ results[e][t] # "failed"

LEMMA NoneBegan ==
  ASSUME MaxCalls = 1, Lone, NEW e \in Runs, Begin(e), NEW f \in Runs
  PROVE  loop[f] = "idle"
<1>. DEFINE began == {g \in Runs : loop[g] # "idle"}
<1>1. began \subseteq {f} \/ loop[f] = "idle"
  BY DEF Lone
<1>2. CASE began \subseteq {f}
  <2>1. IsFiniteSet({f})
    BY FS_Singleton
  <2>2. IsFiniteSet(began)
    BY <1>2, <2>1, FS_Subset
  <2>3. Cardinality(began) < 1 /\ Cardinality(began) \in Nat
    BY <2>2, FS_CardinalityType DEF Begin
  <2>4. began = {}
    BY <2>2, <2>3, FS_EmptySet
  <2>. QED
    BY <2>4
<1>. QED
  BY <1>1, <1>2

LEMMA LoneStep == MaxCalls = 1 /\ TypeOK /\ Lone /\ [Next]_vars => Lone'
<1>. SUFFICES ASSUME MaxCalls = 1, TypeOK, Lone, [Next]_vars PROVE Lone'
  OBVIOUS
<1>1. ASSUME NEW e \in Runs, Begin(e) PROVE Lone'
  BY <1>1, NoneBegan DEF Begin, Lone, None, TypeOK
<1>2. ASSUME NEW e \in Runs, End(e) \/ Gather(e) \/ Gathered(e) \/ Abort(e) PROVE Lone'
  <2>1. /\ loop[e] # "idle" /\ loop'[e] # "idle" /\ results' = results
        /\ \A f \in Runs \ {e} : loop'[f] = loop[f] /\ stage'[f] = stage[f]
    BY <1>2 DEF End, Gather, Gathered, Abort, TypeOK
  <2>. QED
    BY <2>1 DEF Lone, None
<1>3. ASSUME NEW e \in Runs, NEW t \in Tasks, Start(e, t) \/ Completes(e, t) \/ Fails(e, t) PROVE Lone'
  <2>1. loop[e] # "idle"
    BY <1>3 DEF Start, Completes, Fails, MayEnter, Lone, None
  <2>2. UNCHANGED loop /\ \A f \in Runs \ {e} : stage'[f] = stage[f] /\ results'[f] = results[f]
    BY <1>3 DEF Start, Completes, Fails, Over, TypeOK
  <2>. QED
    BY <2>1, <2>2 DEF Lone, None
<1>4. ASSUME NEW t \in Tasks, CancelTask(t) \/ Unblock(t) \/ Retry(t) PROVE Lone'
  BY <1>4 DEF CancelTask, Unblock, Retry, Becomes, Lone, None
<1>5. CASE UNCHANGED vars
  BY <1>5 DEF vars, Lone, None
<1>. QED
  BY <1>1, <1>2, <1>3, <1>4, <1>5 DEF Next, Runtime, Execution

LEMMA OnceStep == TypeOK /\ Lone /\ OrderInv /\ OnceInv /\ [Next]_vars => OnceInv'
<1>. SUFFICES ASSUME TypeOK, Lone, OrderInv, OnceInv, [Next]_vars PROVE OnceInv'
  OBVIOUS
<1>0. \A t \in Tasks : starts[t] \in Nat /\ retries[t] \in Nat
  BY LimitsAssumption DEF TypeOK
<1>1. ASSUME NEW e \in Runs, Begin(e) \/ End(e) \/ Gathered(e) PROVE OnceInv'
  BY <1>1 DEF Begin, End, Gathered, history, OnceInv, StartedOnce
<1>2. ASSUME NEW e \in Runs, Gather(e) PROVE OnceInv'
  <2>1. UNCHANGED <<status, retries, results, starts, completed>>
    BY <1>2 DEF Gather, history
  <2>2. \A f \in Runs, t \in Tasks : stage'[f][t] # stage[f][t] =>
          stage'[f][t] = "none" \/ status[t] = "pending"
    BY <1>2 DEF Gather, TypeOK, Batch, ReadyTasks, Ready
  <2>3. completed \subseteq Tasks
    BY DEF TypeOK
  <2>. QED
    BY <2>1, <2>2, <2>3 DEF OnceInv, StartedOnce
<1>3. ASSUME NEW e \in Runs, Abort(e) PROVE OnceInv'
  <2>1. \A f \in Runs, t \in Tasks : stage'[f][t] \in {stage[f][t], "none"}
    BY <1>3 DEF Abort, None, TypeOK
  <2>2. completed \subseteq Tasks
    BY DEF TypeOK
  <2>. QED
    BY <1>3, <2>1, <2>2 DEF Abort, history, OnceInv, StartedOnce
<1>4. ASSUME NEW e \in Runs, NEW t \in Tasks, stage[e][t] # "none"
      PROVE  /\ t \notin completed /\ Dependencies[t] \subseteq completed
             /\ \A f \in Runs \ {e} : stage[f] = None /\ results[f] = None
  BY <1>4 DEF OnceInv, OrderInv, Lone, None
<1>5. ASSUME NEW e \in Runs, NEW t \in Tasks, Start(e, t) PROVE OnceInv'
  <2>1. stage[e][t] = "queued"
    BY <1>5 DEF Start, MayEnter
  <2>2. /\ \A u \in Tasks : status'[u] = IF u = t THEN "in_progress" ELSE status[u]
        /\ \A u \in Tasks : starts'[u] = IF u = t THEN starts[t] + 1 ELSE starts[u]
        /\ \A f \in Runs, u \in Tasks : stage'[f][u] = IF f = e /\ u = t THEN "running" ELSE stage[f][u]
        /\ UNCHANGED <<retries, results, completed>>
    BY <1>5 DEF Start, TypeOK
  <2>3. t \notin completed /\ completed \subseteq Tasks
    BY <1>4, <2>1 DEF TypeOK
  <2>4. starts[t] <= retries[t]
    BY <2>1 DEF OnceInv
  <2>5. \A f \in Runs \ {e} : stage[f][t] # "queued"
    BY <1>4, <2>1 DEF None
  <2>6. StartedOnce'
    BY <1>0, <2>2, <2>4 DEF OnceInv, StartedOnce
  <2>7. \A f \in Runs, u \in Tasks : stage'[f][u] = "queued" => starts'[u] <= retries'[u]
    BY <2>2, <2>5 DEF OnceInv
  <2>8. \A u \in Tasks : status'[u] \in {"pending", "blocked"} => starts'[u] <= retries'[u]
    BY <2>2 DEF OnceInv
  <2>9. \A u \in completed' : /\ status'[u] \in {"completed", "cancelled"}
                             /\ Dependencies[u] \subseteq completed'
                             /\ \A f \in Runs : stage'[f][u] = "none" /\ results'[f][u] # "failed"
    BY <2>2, <2>3 DEF OnceInv
  <2>. QED
    BY <2>6, <2>7, <2>8, <2>9 DEF OnceInv
<1>6. ASSUME NEW e \in Runs, NEW t \in Tasks, Completes(e, t) PROVE OnceInv'
  <2>1. stage[e][t] # "none"
    BY <1>6 DEF Completes
  <2>2. /\ \A u \in Tasks : status'[u] = IF u = t THEN "completed" ELSE status[u]
        /\ \A f \in Runs, u \in Tasks : stage'[f][u] = IF f = e /\ u = t THEN "none" ELSE stage[f][u]
        /\ \A f \in Runs, u \in Tasks : results'[f][u] = IF f = e /\ u = t THEN "completed" ELSE results[f][u]
        /\ UNCHANGED <<retries, starts>> /\ completed' = completed \cup {t}
    BY <1>6 DEF Completes, Over, TypeOK
  <2>3. completed \subseteq Tasks
    BY DEF TypeOK
  <2>4. /\ Dependencies[t] \subseteq completed
        /\ \A f \in Runs \ {e} : stage[f][t] = "none" /\ results[f][t] = "none"
    BY <1>4, <2>1 DEF None
  <2>. QED
    BY <2>2, <2>3, <2>4 DEF OnceInv, StartedOnce
<1>7. ASSUME NEW e \in Runs, NEW t \in Tasks, Fails(e, t) PROVE OnceInv'
  <2>1. stage[e][t] # "none"
    BY <1>7 DEF Fails, MayEnter
  <2>2. t \notin completed /\ completed \subseteq Tasks
    BY <1>4, <2>1 DEF TypeOK
  <2>3. /\ \A u \in Tasks : status'[u] = IF u \in Blocked(e, t) THEN "blocked" ELSE IF u = t THEN "failed" ELSE status[u]
        /\ \A f \in Runs, u \in Tasks : stage'[f][u] = IF f = e /\ u = t THEN "none" ELSE stage[f][u]
        /\ \A f \in Runs, u \in Tasks : results'[f][u] = IF f = e /\ u = t THEN "failed" ELSE results[f][u]
        /\ UNCHANGED <<retries, starts, completed>>
    BY <1>7 DEF Fails, Over, TypeOK
  <2>4. \A u \in Blocked(e, t) : u \in Tasks /\ u \notin completed /\ starts[u] = 0
    BY <1>0, <2>2 DEF Blocked, OnceInv, OrderInv, DependenciesFirst
  <2>5. \A u \in Tasks : status'[u] \in {"pending", "blocked"} => starts'[u] <= retries'[u]
    BY <1>0, <2>3, <2>4 DEF OnceInv
  <2>6. \A u \in completed' : /\ status'[u] \in {"completed", "cancelled"}
                             /\ Dependencies[u] \subseteq completed'
                             /\ \A f \in Runs : stage'[f][u] = "none" /\ results'[f][u] # "failed"
    BY <2>2, <2>3, <2>4 DEF OnceInv
  <2>. QED
    BY <2>3, <2>5, <2>6 DEF OnceInv, StartedOnce
<1>8. ASSUME NEW t \in Tasks, CancelTask(t) \/ Unblock(t) PROVE OnceInv'
  BY <1>8 DEF CancelTask, Unblock, Becomes, history, TypeOK, OnceInv, StartedOnce
<1>9. ASSUME NEW t \in Tasks, Retry(t) PROVE OnceInv'
  <2>1. /\ \A u \in Tasks : status'[u] = IF u = t THEN "pending" ELSE status[u]
        /\ \A u \in Tasks : retries'[u] = IF u = t THEN retries[t] + 1 ELSE retries[u]
        /\ stage' = stage /\ results' = results /\ starts' = starts /\ completed' = completed
    BY <1>9 DEF Retry, Becomes, history, TypeOK
  <2>2. t \notin completed /\ completed \subseteq Tasks
    BY <1>9 DEF Retry, OnceInv, TypeOK
  <2>3. \A u \in Tasks : retries'[u] \in Nat /\ retries[u] <= retries'[u]
    BY <1>0, <2>1
  <2>4. starts[t] <= retries'[t]
    BY <1>0, <2>1 DEF OnceInv, StartedOnce
  <2>5. ASSUME NEW u \in Tasks PROVE starts'[u] <= 1 + retries'[u]
    <3>1. starts[u] <= 1 + retries[u] /\ starts'[u] = starts[u]
      BY <2>1 DEF OnceInv, StartedOnce
    <3>. QED
      BY <1>0, <2>3, <3>1
  <2>6. ASSUME NEW u \in Tasks, status'[u] \in {"pending", "blocked"} PROVE starts'[u] <= retries'[u]
    <3>1. u # t => starts[u] <= retries[u]
      BY <2>1, <2>6 DEF OnceInv
    <3>. QED
      BY <1>0, <2>1, <2>3, <2>4, <3>1
  <2>7. ASSUME NEW f \in Runs, NEW u \in Tasks, stage'[f][u] = "queued" PROVE starts'[u] <= retries'[u]
    <3>1. starts[u] <= retries[u]
      BY <2>1, <2>7 DEF OnceInv
    <3>. QED
      BY <1>0, <2>1, <2>3, <3>1
  <2>8. \A u \in completed : /\ status'[u] \in {"completed", "cancelled"}
                            /\ Dependencies[u] \subseteq completed
                            /\ \A f \in Runs : stage[f][u] = "none" /\ results[f][u] # "failed"
    BY <2>1, <2>2 DEF OnceInv
  <2>. QED
    BY <2>1, <2>5, <2>6, <2>7, <2>8 DEF OnceInv, StartedOnce
<1>10. CASE UNCHANGED vars
  BY <1>10 DEF vars, OnceInv, StartedOnce
<1>. QED
  BY <1>1, <1>2, <1>3, <1>5, <1>6, <1>7, <1>8, <1>9, <1>10 DEF Next, Runtime, Execution

LEMMA LoneInit == Init => Lone /\ OnceInv
BY LimitsAssumption DEF Init, Lone, OnceInv, StartedOnce, None

\* A lone call runs a task again only after a retry asked for it, whatever is
\* cancelled or unblocked on the way (executor.py 97-176).
THEOREM StartedOnceCorrect == MaxCalls = 1 => (Safety => []StartedOnce)
<1>. SUFFICES ASSUME MaxCalls = 1 PROVE Safety => []StartedOnce
  OBVIOUS
<1>1. Init => OrderInv
  BY DEF Init, None, OrderInv, DependenciesFirst, With
<1>2. TypeOK /\ Lone /\ OrderInv /\ OnceInv /\ [Next]_vars => Lone' /\ OrderInv' /\ OnceInv'
  BY LoneStep, OrderStep, OnceStep
<1>3. OnceInv => StartedOnce
  BY DEF OnceInv
<1>. QED
  BY <1>1, <1>2, <1>3, LoneInit, TypeCorrect, PTL DEF Safety

-----------------------------------------------------------------------------
(***************************************************************************)
(* Where a lone call stops.  A pending task that is not ready has a pending *)
(* dependency, or one that failed, was cancelled or is blocked: of finitely *)
(* many tasks without a cycle, not all can be of the first kind.           *)
(***************************************************************************)
LEMMA BehindOf ==
  ASSUME NEW t \in Tasks
  PROVE  /\ Behind[t] \subseteq Tasks /\ Dependencies[t] \subseteq Behind[t]
         /\ \A d \in Behind[t] : Behind[d] \subseteq Behind[t]
<1>1. \A u \in Tasks : Behind[u] = {d \in Tasks : \A S \in SUBSET Tasks :
                                      Dependencies[u] \subseteq S /\ Closed(S) => d \in S}
  BY DEF Behind
<1>2. \A u \in Tasks : Dependencies[u] \subseteq Tasks
  BY DependenciesAssumption
<1>3. ASSUME NEW d \in Behind[t] PROVE Behind[d] \subseteq Behind[t]
  <2>1. \A S \in SUBSET Tasks : Dependencies[t] \subseteq S /\ Closed(S) => Dependencies[d] \subseteq S
    BY <1>1, <1>3 DEF Closed
  <2>2. d \in Tasks
    BY <1>1, <1>3
  <2>. QED
    BY <1>1, <2>1, <2>2
<1>. QED
  BY <1>1, <1>2, <1>3

LEMMA TasksFinite == IsFiniteSet(Tasks)
<1>1. Order \in [1..Len(Order) -> Tasks] /\ Len(Order) \in Nat
  BY OrderAssumption
<1>2. DOMAIN Order = 1..Len(Order)
  BY <1>1
<1>3. Order \in Surjection(1..Len(Order), Tasks)
  BY <1>1, <1>2 DEF Surjection, Tasks
<1>4. IsFiniteSet(1..Len(Order))
  BY <1>1, FS_Interval
<1>. QED
  BY <1>3, <1>4, FS_Surjection

\* Without a cycle some task of a set depends on none of the set.
LEMMA FirstOf ==
  ASSUME \A t \in Tasks : t \notin Behind[t], NEW P \in SUBSET Tasks, P # {}
  PROVE  \E t \in P : Dependencies[t] \cap P = {}
<1>. DEFINE all == {Behind[t] : t \in P}
            Less == StrictSubsetOrdering(Tasks)
<1>1. all \subseteq FiniteSubsetsOf(Tasks) /\ all # {}
  <2>1. \A t \in P : Behind[t] \in SUBSET Tasks /\ IsFiniteSet(Behind[t])
    BY BehindOf, TasksFinite, FS_Subset
  <2>. QED
    BY <2>1 DEF FiniteSubsetsOf
<1>2. PICK least \in all : \A other \in all : <<other, least>> \notin Less
  BY <1>1, FS_StrictSubsetOrderingWellFounded, WFMin
<1>3. PICK t \in P : least = Behind[t]
  BY <1>2
<1>4. ASSUME NEW d \in Dependencies[t] \cap P PROVE FALSE
  <2>1. d \in Behind[t] /\ d \notin Behind[d] /\ Behind[d] \subseteq Behind[t]
    BY <1>3, <1>4, BehindOf
  <2>2. <<Behind[d], Behind[t]>> \in Less
    BY <1>3, <1>4, <2>1, BehindOf DEF StrictSubsetOrdering
  <2>. QED
    BY <1>2, <1>3, <1>4, <2>2
<1>. QED
  BY <1>4

LEMMA PendingBehind ==
  ASSUME TypeOK, Lone, HandsInv, RunOrAborted, NEW e \in Runs, End(e),
         \A t \in Tasks : t \notin Behind[t], NEW t \in With("pending")
  PROVE  \E d \in Behind[t] : status[d] \in {"failed", "cancelled", "blocked"}
<1>. SUFFICES ASSUME \A d \in Behind[t] : status[d] \notin {"failed", "cancelled", "blocked"} PROVE FALSE
  OBVIOUS
<1>1. With("in_progress") = {}
  <2>1. loop[e] = "deciding"
    BY DEF End
  <2>2. \A f \in Runs : loop[f] # "aborted" /\ stage[f] = None
    BY <2>1 DEF Lone, HandsInv
  <2>. QED
    BY <2>2 DEF RunOrAborted, None, With
<1>. DEFINE P == {u \in Behind[t] \cup {t} : status[u] = "pending"}
<1>2. t \in Tasks /\ t \in P /\ P \in SUBSET Tasks
  BY BehindOf DEF With
<1>3. PICK u \in P : Dependencies[u] \cap P = {}
  BY <1>2, FirstOf
<1>4. u \in Tasks /\ status[u] = "pending" /\ Dependencies[u] \subseteq Behind[t] /\ Behind[t] \subseteq Tasks
  BY <1>2, <1>3, BehindOf
<1>5. \A d \in Dependencies[u] : status[d] = "completed"
  BY <1>1, <1>3, <1>4 DEF TypeOK, Statuses, With
<1>6. u \in ReadyTasks
  BY <1>4, <1>5 DEF ReadyTasks, Ready
<1>. QED
  BY <1>6 DEF End

\* A lone call leaves a task pending only behind one that failed, was cancelled
\* or is blocked, unless the dependencies form a cycle.
THEOREM PendingCorrect == MaxCalls = 1 => (Safety => PendingOnlyBehindFailures)
<1>. SUFFICES ASSUME MaxCalls = 1 PROVE Safety => PendingOnlyBehindFailures
  OBVIOUS
<1>1. TypeOK /\ Lone /\ HandsInv /\ RunOrAborted =>
        \A e \in Runs : End(e) /\ (\A t \in Tasks : t \notin Behind[t]) =>
          \A t \in With("pending") : \E d \in Behind[t] : status[d] \in {"failed", "cancelled", "blocked"}
  BY PendingBehind
<1>2. Init => HandsInv /\ RunOrAborted
  BY DEF Init, HandsInv, RunOrAborted, With
<1>3. TypeOK /\ Lone /\ [Next]_vars => Lone'
  BY LoneStep
<1>. QED
  BY <1>1, <1>2, <1>3, LoneInit, HandsStep, ProgressStep, TypeCorrect, PTL DEF Safety, PendingOnlyBehindFailures
=============================================================================
