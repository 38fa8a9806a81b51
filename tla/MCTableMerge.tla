----------------------------- MODULE MCTableMerge -----------------------------
(* Model-checking instance of TableMerge: rows over two streams and two   *)
(* timestamps, so that both columns of compareRows decide and equal rows  *)
(* occur; none or up to three sorted tables of up to two entries, a read *)
(* error possibly ending one; maxMergeSize 1 (the panic), 2 (two rounds *)
(* for three tables, the last set a single table) and 3 (one round).    *)
EXTENDS TableMerge, TLC

CONSTANT e

MCStreams == {1, 2}
MCTimes == {1, 2}
MCMergeSizes == {1, 2, 3}

(* The sorted tables of at most two rows, and those followed by an error. *)
SortedTables ==
    {<<>>} \cup {<<r>> : r \in Rows}
           \cup {t \in {<<r1, r2>> : r1, r2 \in Rows} : CompareRows(t[1], t[2]) <= 0}

TableInputs ==
    SortedTables \cup {<<e>>} \cup {<<r, e>> : r \in Rows}

MCInputs ==
    UNION {[1..n -> TableInputs] : n \in 0..3}
=============================================================================
