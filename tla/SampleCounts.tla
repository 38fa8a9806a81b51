------------------------------ MODULE SampleCounts ------------------------------
(***************************************************************************)
(* What the sample chunks of a drain pattern promise (the abstraction      *)
(* DrainChunks implements): a count of log lines per time bucket.          *)
(*                                                                         *)
(* A bucket is a timestamp aligned to the sample interval.  Add counts a   *)
(* line in the bucket of its timestamp; it may instead lose the line only  *)
(* when a newer bucket already holds lines (a late line).  Merge adds      *)
(* another pattern's counts: no count goes down.  Prune forgets buckets,   *)
(* each wholly and only when it is older than olderThan.  Time passes.     *)
(***************************************************************************)
EXTENDS Naturals

CONSTANTS SampleInterval, OlderThan, MaxTs, MaxNow, MaxOps

VARIABLES
    counts,  \* counts[b]: the lines counted in bucket b
    now,     \* the wall clock
    ops      \* number of Add and merge calls so far

vars == <<counts, now, ops>>

Buckets == {t \in 0..MaxTs : t % SampleInterval = 0}

Bucket(ts) == ts - (ts % SampleInterval)

Init ==
    /\ counts = [b \in Buckets |-> 0]
    /\ now = 0
    /\ ops = 0

(* A line at ts: counted in its bucket, or lost behind a newer bucket. *)
AddLine(ts) ==
    /\ ops < MaxOps
    /\ ops' = ops + 1
    /\ \/ counts' = [counts EXCEPT ![Bucket(ts)] = @ + 1]
       \/ /\ \E b \in Buckets : b > ts /\ counts[b] > 0
          /\ UNCHANGED counts
    /\ UNCHANGED now

(* Another pattern's counts are added. *)
MergeIn ==
    /\ ops < MaxOps
    /\ ops' = ops + 1
    /\ counts' \in [Buckets -> Nat]
    /\ \A b \in Buckets : counts'[b] >= counts[b]
    /\ UNCHANGED now

(* Stale buckets are forgotten, each one wholly. *)
Forget ==
    /\ counts' \in [Buckets -> Nat]
    /\ \A b \in Buckets :
          counts'[b] # counts[b] => counts'[b] = 0 /\ now - b > OlderThan
    /\ UNCHANGED <<now, ops>>

Tick ==
    /\ now < MaxNow
    /\ now' = now + 1
    /\ UNCHANGED <<counts, ops>>

Next ==
    \/ \E ts \in 0..MaxTs : AddLine(ts)
    \/ MergeIn
    \/ Forget
    \/ Tick

Spec == Init /\ [][Next]_vars
=============================================================================
