------------------------- MODULE MCExpirationChecker -------------------------
(* Model-checking instance of ExpirationChecker: two tables of two series  *)
(* (four chunks), two delete requests with a batch of one, so that a      *)
(* request waits a cycle, and three cycles, so that a table that failed   *)
(* or timed out is retried.  Tables, series and requests are treated      *)
(* uniformly, so symmetry over each is sound.                              *)
EXTENDS ExpirationChecker, TLC

CONSTANTS t1, t2, s1, s2, r1, r2

MCTables == {t1, t2}
MCSeries == {s1, s2}
MCRequests == {r1, r2}

MCSymmetry == Permutations(MCTables) \cup Permutations(MCSeries)
                  \cup Permutations(MCRequests)
=============================================================================
