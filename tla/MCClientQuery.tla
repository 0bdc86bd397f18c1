--------------------------- MODULE MCClientQuery ---------------------------
(* INSERTs that share a cache key, SELECTs that share another.             *)
EXTENDS ClientQuery

CONSTANTS w1, w2, r1, inserts, selects

MCKey == [r \in Requests |-> IF r \in Writes THEN inserts ELSE selects]
=============================================================================
