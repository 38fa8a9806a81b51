------------------------------- MODULE TableMerge -------------------------------
(***************************************************************************)
(* Incremental k-way merge of the sorted tables of a logs section          *)
(* (src/pkg/dataobj/sections/logs/table_merge.go).                         *)
(*                                                                         *)
(* mergeTablesIncremental merges the tables in rounds: each round merges   *)
(* consecutive sets of at most maxMergeSize tables with mergeTables and    *)
(* the merged tables are the next round's input, until one is left.        *)
(* mergeTables drains a loser tree over one sequence per table, ordered by *)
(* rowResultLess: read errors first, then rows by timestamp, newest first, *)
(* then by stream ID.  A row is abstracted to its stream ID and timestamp, *)
(* the two columns the order reads; the other columns travel with it.  A   *)
(* table's reader may fail: Err, at the end of a table, is the error its   *)
(* sequence yields.  The loser tree may pick any of the least heads, since *)
(* ties are broken inside the tree (pkg/util/loser, not modelled).         *)
(***************************************************************************)
EXTENDS Integers, Sequences, SequencesExt, FiniteSetsExt

CONSTANTS
    Streams,        \* stream IDs
    Times,          \* timestamps
    Inputs,         \* the table lists handed to mergeTablesIncremental
    MergeSizes,     \* the values of maxMergeSize
    Err             \* the error a failed read yields

Rows == [stream: Streams, ts: Times]

(* compareRows: timestamp descending, then stream ID ascending. *)
CompareRows(a, b) ==
    IF b.ts < a.ts THEN -1 ELSE IF b.ts > a.ts THEN 1
    ELSE IF a.stream < b.stream THEN -1 ELSE IF a.stream > b.stream THEN 1 ELSE 0

(* The rows of a table, its read error aside, are sorted by compareRows. *)
SortedRows(s) ==
    \A a, b \in 1..Len(s) :
        (a < b /\ s[a] # Err /\ s[b] # Err) => CompareRows(s[a], s[b]) <= 0

(* The tables handed to mergeTablesIncremental are sorted ("merges the    *)
(* provided sorted tables"), each possibly ending in a read error.        *)
ASSUME MergeAssumption ==
    /\ Streams \subseteq Nat /\ Times \subseteq Nat
    /\ MergeSizes \subseteq Nat
    /\ Err \notin Rows
    /\ Inputs \subseteq Seq(Seq(Rows \cup {Err}))
    /\ \A tb \in Inputs : \A t \in 1..Len(tb) : SortedRows(tb[t])

VARIABLES
    tables,    \* the tables argument
    k,         \* maxMergeSize
    in,        \* the current round's tables
    out,       \* the tables merged so far in this round
    i,         \* the index of the next set of the round
    first,     \* the first round is running
    heads,     \* the sequences of the set being merged, <<>> when none
    acc,       \* the rows mergeTables has appended so far
    merging,   \* a mergeTables call is in progress
    result     \* "running", "ok", "error" or "panic"

vars == <<tables, k, in, out, i, first, heads, acc, merging, result>>

(* Mutant: rowResultLess orders rows by timestamp only. *)
RowResultLessTsOnly(a, b) ==
    IF a = Err THEN TRUE ELSE IF b = Err THEN FALSE ELSE b.ts < a.ts

(* rowResultLess: an error is less than everything. *)
RowResultLess(a, b) ==
    IF a = Err THEN TRUE ELSE IF b = Err THEN FALSE ELSE CompareRows(a, b) < 0

Init ==
    /\ tables \in Inputs
    /\ k \in MergeSizes
    /\ in = tables
    /\ out = <<>>
    /\ i = 1
    /\ first = TRUE
    /\ heads = <<>>
    /\ acc = <<>>
    /\ merging = FALSE
    /\ result = "running"

(* Mutant: the guard on maxMergeSize is missing. *)
MergeSizeOKUnchecked == TRUE

(* maxMergeSize is at least 2; mergeTablesIncremental panics otherwise. *)
MergeSizeOK == k >= 2

PanicOnSmallMergeSize ==
    /\ result = "running"
    /\ ~MergeSizeOK
    /\ result' = "panic"
    /\ UNCHANGED <<tables, k, in, out, i, first, heads, acc, merging>>

(* Mutant: the set ends one table early. *)
SetEndShort(j) == Min({j + k - 2, Len(in)})

(* The last index of the set in[i:min(i+maxMergeSize, len(in))]. *)
SetEnd(j) == Min({j + k - 1, Len(in)})

(* The loop goes on while more than one table is left; a single table is *)
(* still passed once through mergeTables to recompress it.               *)
RoundPending == Len(in) > 1 \/ (first /\ Len(in) = 1)

(* The next set of the round is handed to mergeTables. *)
StartSet ==
    /\ result = "running" /\ MergeSizeOK
    /\ ~merging
    /\ RoundPending
    /\ i <= Len(in)
    /\ heads' = SubSeq(in, i, SetEnd(i))
    /\ acc' = <<>>
    /\ merging' = TRUE
    /\ UNCHANGED <<tables, k, in, out, i, first, result>>

(* The loser tree's winner: a sequence whose head no other head is less  *)
(* than.  rowResultLess(err, x) holds for every x, so a sequence that     *)
(* yields an error wins against any other, another error included.        *)
Live == {j \in 1..Len(heads) : heads[j] # <<>>}

Winners ==
    IF \E j \in Live : heads[j][1] = Err
    THEN {j \in Live : heads[j][1] = Err}
    ELSE {j \in Live : \A l \in Live \ {j} : ~RowResultLess(heads[l][1], heads[j][1])}

(* Mutant: a read error ends its sequence instead of the merge. *)
MergeStepSkippingErrors ==
    /\ result = "running"
    /\ merging
    /\ \E j \in Winners :
          IF heads[j][1] = Err
          THEN /\ heads' = [heads EXCEPT ![j] = <<>>]
               /\ UNCHANGED <<acc, merging, result>>
          ELSE /\ acc' = Append(acc, heads[j][1])
               /\ heads' = [heads EXCEPT ![j] = Tail(@)]
               /\ UNCHANGED <<merging, result>>
    /\ UNCHANGED <<tables, k, in, out, i, first>>

(* tree.Next, Winner: the winner's value is appended to the merged table, *)
(* or, when it is a read error, mergeTables returns it and               *)
(* mergeTablesIncremental returns it too.                                 *)
MergeStep ==
    /\ result = "running"
    /\ merging
    /\ \E j \in Winners :
          IF heads[j][1] = Err
          THEN /\ result' = "error"
               /\ UNCHANGED <<heads, acc, merging>>
          ELSE /\ acc' = Append(acc, heads[j][1])
               /\ heads' = [heads EXCEPT ![j] = Tail(@)]
               /\ UNCHANGED <<merging, result>>
    /\ UNCHANGED <<tables, k, in, out, i, first>>

(* Every sequence is exhausted: buf.Flush() yields the merged table, which *)
(* is appended to out, and the loop moves maxMergeSize tables on.          *)
FinishSet ==
    /\ result = "running"
    /\ merging
    /\ \A j \in 1..Len(heads) : heads[j] = <<>>
    /\ out' = Append(out, acc)
    /\ i' = i + k
    /\ merging' = FALSE
    /\ heads' = <<>>
    /\ UNCHANGED <<tables, k, in, first, acc, result>>

(* The round is over: in = out. *)
EndRound ==
    /\ result = "running"
    /\ ~merging
    /\ RoundPending
    /\ i > Len(in)
    /\ in' = out
    /\ out' = <<>>
    /\ i' = 1
    /\ first' = FALSE
    /\ UNCHANGED <<tables, k, heads, acc, merging, result>>

(* No table was given: the loop never runs and indexing in[0] panics. *)
PanicOnNoTables ==
    /\ result = "running" /\ MergeSizeOK
    /\ ~merging
    /\ ~RoundPending
    /\ Len(in) = 0
    /\ result' = "panic"
    /\ UNCHANGED <<tables, k, in, out, i, first, heads, acc, merging>>

(* One table is left: in[0] is returned. *)
Return ==
    /\ result = "running" /\ MergeSizeOK
    /\ ~merging
    /\ ~RoundPending
    /\ Len(in) = 1
    /\ result' = "ok"
    /\ UNCHANGED <<tables, k, in, out, i, first, heads, acc, merging>>

Next ==
    \/ PanicOnSmallMergeSize
    \/ StartSet \/ MergeStep \/ FinishSet \/ EndRound
    \/ PanicOnNoTables \/ Return

(* mergeTablesIncremental runs on one goroutine: it keeps taking steps. *)
Spec == Init /\ [][Next]_vars /\ WF_vars(Next)

-----------------------------------------------------------------------------
(* The rows of the input tables, without the read errors. *)
InputRows == SelectSeq(FlattenSeq(tables), LAMBDA r : r # Err)

(* A merge that returns a table returns one sorted by compareRows,       *)
(* whatever the number of tables, maxMergeSize and the tree's tie-breaking *)
(* among equal rows: the loser tree's winner is always a least head.       *)
MergedSorted ==
    result = "ok" => SortedRows(in[1])

(* A merge that returns a table returns every input row exactly as often  *)
(* as the inputs hold it: no set of a round is skipped, merged twice or   *)
(* cut short.                                                             *)
MergedPermutation ==
    result = "ok" => ToBag(in[1]) = ToBag(InputRows)

(* A read error of any table, in any round, is returned: the merge ends  *)
(* with an error exactly when some input table fails.                    *)
ErrorsReturned ==
    result \in {"ok", "error"} =>
        (result = "error" <=> \E t \in 1..Len(tables) : Err \in ToSet(tables[t]))

(* mergeTablesIncremental returns, or panics, on every input. *)
Terminates == <>(result # "running")
=============================================================================
