CONSTANTS
  w = w
  q1 = q1
  q2 = q2
  q3 = q3
  l = l
  t = t
  q4 = q4
  NoOp = NoOp
  Ops = {w, q1, q2, q3, l, t, q4}
  Kind <- MCKind
  Parent <- MCParent
  Timed = {q2, l}
  Steps = 2
  MaxIterations = 2
SPECIFICATION Spec
INVARIANTS TypeOK TracesAreNested SpansFinish NothingOutlives StopsAtFailure IterationsCounted
PROPERTIES TimedOpsEnd
CHECK_DEADLOCK FALSE
