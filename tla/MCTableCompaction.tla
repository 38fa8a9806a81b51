------------------------- MODULE MCTableCompaction -------------------------
(* Model-checking instance of TableCompaction: two overlapping runs, two   *)
(* chunks and room for four index objects: two fragments and two uploads,  *)
(* enough for both runs to overlap on the same originals and for a run to *)
(* re-merge the object of another run, or a stale one it left behind.     *)
EXTENDS TableCompaction, TLC

CONSTANTS w1, w2, u1, u2

MCWorkers == {w1, w2}
MCUnits == {u1, u2}
MCMaxObjects == 4

MCSymmetry == Permutations(MCWorkers) \cup Permutations(MCUnits)
=============================================================================
