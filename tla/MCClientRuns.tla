--------------------------- MODULE MCClientRuns ---------------------------
(* A workflow whose steps query twice, the second time a connector that    *)
(* queries itself, and a loop whose step runs a task that queries.         *)
EXTENDS ClientRuns, TLC

CONSTANTS w, q1, q2, q3, l, t, q4

MCKind == w :> "workflow" @@ l :> "loop" @@ t :> "task"
          @@ [o \in {q1, q2, q3, q4} |-> "query"]
MCParent == [o \in {w, l} |-> NoOp] @@ [o \in {q1, q2} |-> w] @@ q3 :> q2 @@ t :> l @@ q4 :> t
=============================================================================
