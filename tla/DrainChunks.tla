------------------------------ MODULE DrainChunks ------------------------------
(***************************************************************************)
(* The sample chunks of one drain pattern (src/pkg/pattern/drain/chunk.go). *)
(*                                                                         *)
(* A pattern keeps Chunks, a list of chunks, each a list of samples        *)
(* (timestamp, count).  Add counts one log line at its timestamp truncated *)
(* to the sample interval; prune drops the chunks whose last sample is too *)
(* old; merge folds the samples of another pattern into a single chunk;    *)
(* ForRange reads the samples of a chunk in a time range, re-bucketed by a *)
(* query step.  All times are in milliseconds, as model.Time is; durations *)
(* are taken in the same unit.  The wall clock of time.Since is now.       *)
(***************************************************************************)
EXTENDS Naturals, Sequences, SequencesExt, FiniteSetsExt

CONSTANTS
    SampleInterval,  \* sampleInterval, in ms
    MaxChunkAge,     \* maxChunkAge, in ms
    OlderThan,       \* the olderThan argument of prune, in ms
    MaxTs,           \* timestamps of added lines are in 0..MaxTs
    MaxNow,          \* bound on the wall clock
    MaxOps           \* bound on the number of Add and merge calls

ASSUME DrainAssumption ==
    /\ SampleInterval \in Nat \ {0}
    /\ {MaxChunkAge, OlderThan, MaxTs, MaxNow, MaxOps} \subseteq Nat

VARIABLES
    chunks,    \* the Chunks value: a sequence of chunks, a chunk a sequence of samples
    now,       \* the wall clock read by time.Since
    ops,       \* number of Add and merge calls so far
    panicked   \* a call indexed the last sample of a chunk without samples

vars == <<chunks, now, ops, panicked>>

Sample(t, v) == [ts |-> t, value |-> v]

(* TruncateTimestamp: ts - ts % step. *)
TruncateTimestamp(ts, step) == ts - (ts % step)

(* newChunk: one sample of count 1 (the capacity is not modelled). *)
NewChunk(t) == <<Sample(t, 1)>>

(* Chunk.spaceFor: an empty chunk, or t within maxChunkAge of its first. *)
SpaceFor(c, t) == Len(c) = 0 \/ t - c[1].ts < MaxChunkAge

(* Chunks.samples: all samples of all chunks, in order. *)
AllSamples(cs) == FlattenSeq(cs)

Init ==
    /\ chunks = <<>>
    /\ now = 0
    /\ ops = 0
    /\ panicked = FALSE

(* ts.Before(last sample): the line is older than the last sample. *)
OutOfOrder(ts, lastTs) == ts < lastTs

(* Add on a last chunk with samples: increment the current sample when it *)
(* has the same truncated timestamp, start a new chunk when the last one  *)
(* has no space, drop a line older than the last sample, else append a   *)
(* new sample.                                                             *)
AddToLast(cs, ts, t) ==
    LET n      == Len(cs)
        last   == cs[n]
        lastTs == last[Len(last)].ts
    IN  IF lastTs = t THEN [cs EXCEPT ![n][Len(last)].value = @ + 1]
        ELSE IF ~SpaceFor(last, t) THEN Append(cs, NewChunk(t))
        ELSE IF OutOfOrder(ts, lastTs) THEN cs
        ELSE [cs EXCEPT ![n] = Append(@, Sample(t, 1))]

(* Chunks.Add: count a line at ts, truncated to the sample interval.  The *)
(* first line starts the first chunk; indexing the last sample of a chunk *)
(* without samples panics.                                                 *)
Add(ts) ==
    LET t    == TruncateTimestamp(ts, SampleInterval)
        n    == Len(chunks)
        last == chunks[n]
    IN  /\ ~panicked
        /\ ops < MaxOps
        /\ ops' = ops + 1
        /\ \/ /\ n = 0
              /\ chunks' = <<NewChunk(t)>>
              /\ UNCHANGED panicked
           \/ /\ n > 0 /\ last = <<>>
              /\ panicked' = TRUE
              /\ UNCHANGED chunks
           \/ /\ n > 0 /\ last # <<>>
              /\ chunks' = AddToLast(chunks, ts, t)
              /\ UNCHANGED panicked
        /\ UNCHANGED now

-----------------------------------------------------------------------------
(* Mutant: equal timestamps keep only the value of the pattern's own sample. *)
RECURSIVE MergeSamplesNoSum(_, _)
MergeSamplesNoSum(a, b) ==
    IF a = <<>> THEN b
    ELSE IF b = <<>> THEN a
    ELSE IF a[1].ts < b[1].ts THEN <<a[1]>> \o MergeSamplesNoSum(Tail(a), b)
    ELSE IF a[1].ts > b[1].ts THEN <<b[1]>> \o MergeSamplesNoSum(a, Tail(b))
    ELSE <<a[1]>> \o MergeSamplesNoSum(Tail(a), Tail(b))

(* The two-pointer loop of Chunks.merge: the smaller timestamp goes first, *)
(* equal timestamps are summed, then the rest of either side is appended.  *)
RECURSIVE MergeSamples(_, _)
MergeSamples(a, b) ==
    IF a = <<>> THEN b
    ELSE IF b = <<>> THEN a
    ELSE IF a[1].ts < b[1].ts THEN <<a[1]>> \o MergeSamples(Tail(a), b)
    ELSE IF a[1].ts > b[1].ts THEN <<b[1]>> \o MergeSamples(a, Tail(b))
    ELSE <<Sample(a[1].ts, a[1].value + b[1].value)>> \o MergeSamples(Tail(a), Tail(b))

(* The samples handed to merge: those of another pattern's Chunks, which  *)
(* are aligned to the sample interval and strictly increasing; at most two. *)
Aligned == {t \in 0..MaxTs : t % SampleInterval = 0}

MergeInputs ==
    {<<>>} \cup {<<Sample(t, 1)>> : t \in Aligned}
           \cup {<<Sample(p[1], 1), Sample(p[2], 1)>> :
                    p \in {q \in Aligned \X Aligned : q[1] < q[2]}}

(* Chunks.merge: the merged samples replace all chunks by a single chunk. *)
Merge(s) ==
    /\ ~panicked
    /\ ops < MaxOps
    /\ ops' = ops + 1
    /\ chunks' = <<MergeSamples(AllSamples(chunks), s)>>
    /\ UNCHANGED <<now, panicked>>

(* Mutant: the loop index also advances after a removal, so the chunk   *)
(* that moved into the removed one's place is never looked at.          *)
RECURSIVE PruneLoopSkipping(_, _)
PruneLoopSkipping(cs, i) ==
    IF i > Len(cs) THEN cs
    ELSE IF now - cs[i][Len(cs[i])].ts > OlderThan
         THEN PruneLoopSkipping(RemoveAt(cs, i), i + 1)
         ELSE PruneLoopSkipping(cs, i + 1)

(* Mutant: a chunk exactly olderThan old counts as stale (>= for >). *)
RECURSIVE PruneLoopAtAge(_, _)
PruneLoopAtAge(cs, i) ==
    IF i > Len(cs) THEN cs
    ELSE IF now - cs[i][Len(cs[i])].ts >= OlderThan
         THEN PruneLoopAtAge(RemoveAt(cs, i), i)
         ELSE PruneLoopAtAge(cs, i + 1)

(* The loop of Chunks.prune: a chunk whose last sample is older than     *)
(* olderThan is cut out of the slice and the index steps back (i--).     *)
RECURSIVE PruneLoop(_, _)
PruneLoop(cs, i) ==
    IF i > Len(cs) THEN cs
    ELSE IF now - cs[i][Len(cs[i])].ts > OlderThan
         THEN PruneLoop(RemoveAt(cs, i), i)
         ELSE PruneLoop(cs, i + 1)

(* Chunks.prune, called with the wall clock at now.  Every chunk is       *)
(* visited, so a chunk without samples makes the index panic.            *)
Prune ==
    /\ ~panicked
    /\ chunks # <<>>
    /\ \/ /\ \A i \in 1..Len(chunks) : chunks[i] # <<>>
          /\ chunks' = PruneLoop(chunks, 1)
          /\ UNCHANGED panicked
       \/ /\ \E i \in 1..Len(chunks) : chunks[i] = <<>>
          /\ panicked' = TRUE
          /\ UNCHANGED chunks
    /\ UNCHANGED <<now, ops>>

(* Time passes. *)
Tick ==
    /\ now < MaxNow
    /\ now' = now + 1
    /\ UNCHANGED <<chunks, ops, panicked>>

Next ==
    \/ \E ts \in 0..MaxTs : Add(ts)
    \/ \E s \in MergeInputs : Merge(s)
    \/ Prune
    \/ Tick

Spec == Init /\ [][Next]_vars

-----------------------------------------------------------------------------
(***************************************************************************)
(* Chunk.ForRange(start, end, step, sampleInterval), a read.               *)
(***************************************************************************)

(* sort.Search over the samples for the first timestamp >= x, as a       *)
(* 1-based index; Len(c) + 1 when there is none.                         *)
SearchGeq(c, x) ==
    IF \E i \in 1..Len(c) : c[i].ts >= x
    THEN CHOOSE i \in 1..Len(c) : c[i].ts >= x /\ \A j \in 1..(i - 1) : c[j].ts < x
    ELSE Len(c) + 1

(* The samples c.Samples[lo:hi] that ForRange selects for [start, end),  *)
(* and <<>> on each of its early nil returns.                            *)
Selected(c, start, end) ==
    IF Len(c) = 0 THEN <<>>
    ELSE LET first == c[1].ts
             last  == c[Len(c)].ts
         IN  IF start >= end \/ first >= end \/ last < start THEN <<>>
             ELSE LET lo == IF start > first THEN SearchGeq(c, start) ELSE 1
                      hi == IF end < last THEN SearchGeq(c, end) - 1 ELSE Len(c)
                  IN  IF c[lo].ts > c[hi].ts THEN <<>> ELSE SubSeq(c, lo, hi)

(* Mutant: the zero buckets stop one step short of the sample's bucket. *)
FillStepsShort(cur, sfs, step) ==
    [k \in 1..((sfs - cur) \div step - 1) |-> Sample(cur + k * step, 0)]

(* The inner loop: the empty buckets cur+step, ..., stepForSample. *)
FillSteps(cur, sfs, step) ==
    [k \in 1..((sfs - cur) \div step) |-> Sample(cur + k * step, 0)]

(* The re-scaling loop: each sample's value is added to the last bucket, *)
(* after the buckets up to the sample's own have been appended.          *)
RECURSIVE Rescale(_, _, _, _)
Rescale(s, step, cur, agg) ==
    IF s = <<>> THEN agg
    ELSE LET x    == Head(s)
             move == x.ts >= cur + step
             sfs  == TruncateTimestamp(x.ts, step)
             agg2 == IF move THEN agg \o FillSteps(cur, sfs, step) ELSE agg
         IN  Rescale(Tail(s), step, IF move THEN sfs ELSE cur,
                     [agg2 EXCEPT ![Len(agg2)].value = @ + x.value])

ForRange(c, start, end, step) ==
    LET sel == Selected(c, start, end)
        cur == TruncateTimestamp(sel[1].ts, step)
    IN  IF sel = <<>> THEN <<>>
        ELSE IF step = SampleInterval THEN sel
        ELSE Rescale(sel, step, cur, <<Sample(cur, 0)>>)

-----------------------------------------------------------------------------
(***************************************************************************)
(* Properties.                                                             *)
(***************************************************************************)

TypeOK ==
    /\ chunks \in Seq(Seq([ts: Nat, value: Nat]))
    /\ now \in 0..MaxNow
    /\ ops \in 0..MaxOps
    /\ panicked \in BOOLEAN

(* The timestamps of a sequence of samples are strictly increasing. *)
Increasing(s) == IsSorted([i \in 1..Len(s) |-> s[i].ts], <)

(* The samples of all chunks are in strictly increasing time order, after *)
(* any mix of in-order and late lines, new chunks, prunes and merges: the *)
(* merge loop, ForRange's binary searches and Iterator, which hands the   *)
(* chunks to a non-overlapping iterator, rely on it.                      *)
SamplesOrdered == Increasing(AllSamples(chunks))

(* The value a sequence of samples holds at timestamp t. *)
ValueAt(s, t) == MapThenSumSet(LAMBDA i : s[i].value, {i \in 1..Len(s) : s[i].ts = t})

(* The merge loop agrees with its reference on every reachable Chunks    *)
(* whose samples are in order (the loop's precondition), and every input: *)
(* one sample per timestamp of either side, in increasing order, holding  *)
(* the sum of both values.                                                 *)
MergeMatchesReference ==
    SamplesOrdered =>
    \A s \in MergeInputs :
        LET a   == AllSamples(chunks)
            tss == {a[i].ts : i \in 1..Len(a)} \cup {s[i].ts : i \in 1..Len(s)}
            ref == [k \in 1..Cardinality(tss) |->
                      LET t == CHOOSE t \in tss :
                                 Cardinality({u \in tss : u < t}) = k - 1
                      IN  Sample(t, ValueAt(a, t) + ValueAt(s, t))]
        IN  MergeSamples(a, s) = ref

(* Pruning at any wall-clock time keeps exactly the chunks whose last     *)
(* sample is at most olderThan old, in their order, whichever of them are *)
(* adjacent: the in-place removal loop skips none.                        *)
PruneMatchesFilter ==
    (\A i \in 1..Len(chunks) : chunks[i] # <<>>) =>
        PruneLoop(chunks, 1) =
            SelectSeq(chunks, LAMBDA c : ~(now - c[Len(c)].ts > OlderThan))

(* The buckets a re-scaled read must return for the selected samples: one *)
(* per step from the first sample's bucket to the last one's, each the sum *)
(* of the samples whose timestamp truncates to it, zero for a gap.         *)
RefBuckets(sel, step) ==
    LET b0 == TruncateTimestamp(sel[1].ts, step)
        bn == TruncateTimestamp(sel[Len(sel)].ts, step)
        sumIn(b) == MapThenSumSet(LAMBDA i : sel[i].value,
                        {i \in 1..Len(sel) : TruncateTimestamp(sel[i].ts, step) = b})
    IN  [k \in 1..((bn - b0) \div step + 1) |->
            Sample(b0 + (k - 1) * step, sumIn(b0 + (k - 1) * step))]

(* Queries are over start, end in QueryTimes and step in QuerySteps. *)
CONSTANTS QueryTimes, QuerySteps

(* A read with a step other than the sample interval returns, for every  *)
(* chunk in order that Add, prune and merge can produce and every query,  *)
(* exactly the reference buckets of the samples it selects: no bucket is  *)
(* skipped, doubled or shifted.                                           *)
ForRangeRescales ==
    \A n \in 1..Len(chunks), start, end \in QueryTimes, step \in QuerySteps :
        LET sel == Selected(chunks[n], start, end)
        IN  (Increasing(chunks[n]) /\ step # SampleInterval /\ sel # <<>>) =>
                ForRange(chunks[n], start, end, step) = RefBuckets(sel, step)

(* ForRange's contract (its doc comment, chunk.go 43-44): the samples it  *)
(* reads are those with start <= timestamp < end.                         *)
ForRangeHalfOpen ==
    \A n \in 1..Len(chunks), start, end \in QueryTimes :
        Selected(chunks[n], start, end) =
            SelectSeq(chunks[n], LAMBDA x : start <= x.ts /\ x.ts < end)

(* Add (line 112) and prune (line 196) index the last sample of a chunk   *)
(* without checking that it has one: every chunk holds a sample.          *)
NoEmptyChunk ==
    \A n \in 1..Len(chunks) : chunks[n] # <<>>

-----------------------------------------------------------------------------
(***************************************************************************)
(* Refinement: Chunks implements the per-bucket line counts of             *)
(* SampleCounts, each bucket's count being the values of its samples.      *)
(***************************************************************************)
Abstract == INSTANCE SampleCounts WITH
    counts <- [b \in Aligned |-> ValueAt(AllSamples(chunks), b)]

(* Every behaviour of Add, merge, prune and the clock is one of            *)
(* SampleCounts: each line is counted in its bucket unless a newer sample  *)
(* exists, merge lowers no count, and prune forgets only buckets older     *)
(* than olderThan, wholly.                                                 *)
ImplementsSampleCounts == Abstract!Spec
=============================================================================
