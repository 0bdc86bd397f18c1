-------------------------- MODULE MCConnectorPool --------------------------
(* Two calls that compete for one source, and one call for another.        *)
EXTENDS ConnectorPool, TLC

CONSTANTS c1, c2, c3, users, orders

MCTarget == c1 :> users @@ c2 :> users @@ c3 :> orders
=============================================================================
