--------------------------- MODULE MCPlanExecutor ---------------------------
(* Plans to execute: a diamond, and a chain listed in the wrong order beside *)
(* a task of its own.                                                        *)
EXTENDS PlanExecutor, TLC

CONSTANTS a, b, c, d, e1, e2

MCDiamond == <<a, b, c, d>>
MCDiamondDependencies == a :> {} @@ b :> {a} @@ c :> {a} @@ d :> {b, c}

MCChain == <<b, a, c>>
MCChainDependencies == a :> {} @@ b :> {a} @@ c :> {}
=============================================================================
