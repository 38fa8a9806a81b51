---------------------------- MODULE MCDrainChunks ----------------------------
(* Model-checking instance of DrainChunks: samples every 2 ms, chunks of   *)
(* 5 ms, lines at 0..8 ms, so a chunk holds up to three samples, lines can *)
(* be late, equal or start a new chunk, and a merged chunk can span more   *)
(* than the chunk age; prune at 1 ms with the clock up to 8 ms, so a prune *)
(* can remove adjacent chunks, a later one or none; five calls of Add or   *)
(* merge.  Queries over 0..9 with steps 2, 3 and 4 cover the plain, the    *)
(* coarser and the misaligned re-scaling, and ends past the last sample.   *)
EXTENDS DrainChunks, TLC

MCQueryTimes == 0..9
MCQuerySteps == {2, 3, 4}

(* The refinement run explores behaviours only while the chunks are in    *)
(* order and none is empty: past either, the two defects the runs         *)
(* drain_merged_span and drain_empty_merge show break the abstraction too *)
(* (a stale bucket kept in part by an overlapping chunk, a line lost to a *)
(* panic).                                                                *)
MCChunksWellFormed == SamplesOrdered /\ NoEmptyChunk
=============================================================================
