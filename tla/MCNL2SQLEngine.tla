-------------------------- MODULE MCNL2SQLEngine --------------------------
(* Two requests of one session and one of another, whose ids begin alike.  *)
EXTENDS NL2SQLEngine, TLC

CONSTANTS r1, r2, r3, session1, session2, session, sales, staff, select, insert, v1

MCQuestion == r1 :> sales @@ r2 :> staff @@ r3 :> sales
MCGiven == r1 :> session1 @@ r2 :> session1 @@ r3 :> session2
MCName == [s \in AllSessions |-> IF s \in Sessions THEN session ELSE s]
MCFeatures == select :> {} @@ insert :> {"notselect", "keyword"}
=============================================================================
