------------------------- MODULE ConnectorRegistry -------------------------
(***************************************************************************)
(* What AgentDataClient promises about the connectors it keeps: one slot   *)
(* per source, filled by at most one builder at a time, with a connector   *)
(* that was never in the table before; a full slot is only ever emptied.   *)
(***************************************************************************)
CONSTANTS Sources, Conns, NoConn

VARIABLES slot,    \* the connector kept for each source
          maker,   \* the connector being built for each source
          spent    \* the connectors built so far

vars == <<slot, maker, spent>>

Init == /\ slot = [s \in Sources |-> NoConn]
        /\ maker = [s \in Sources |-> NoConn]
        /\ spent = {}

\* A build starts for an empty slot nobody is building for.
Begin(s, k) == /\ slot[s] = NoConn /\ maker[s] = NoConn /\ k \notin spent
               /\ maker' = [maker EXCEPT ![s] = k]
               /\ spent' = spent \cup {k}
               /\ UNCHANGED slot

\* The build succeeds: the slot, still empty, gets the connector.
Publish(s) == /\ slot[s] = NoConn /\ maker[s] # NoConn
              /\ slot' = [slot EXCEPT ![s] = maker[s]]
              /\ maker' = [maker EXCEPT ![s] = NoConn]
              /\ UNCHANGED spent

\* The build fails or is cancelled.
Abandon(s) == /\ maker[s] # NoConn
              /\ maker' = [maker EXCEPT ![s] = NoConn]
              /\ UNCHANGED <<slot, spent>>

\* Some slots are emptied; builds go on.
Drop(S) == /\ slot' = [s \in Sources |-> IF s \in S THEN NoConn ELSE slot[s]]
           /\ UNCHANGED <<maker, spent>>

Next == \/ \E s \in Sources : (\E k \in Conns : Begin(s, k)) \/ Publish(s) \/ Abandon(s)
        \/ \E S \in SUBSET Sources : Drop(S)

Spec == Init /\ [][Next]_vars
=============================================================================
