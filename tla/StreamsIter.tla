------------------------------ MODULE StreamsIter ------------------------------
(***************************************************************************)
(* Iteration over the streams sections of a data object                   *)
(* (src/pkg/dataobj/sections/streams/iter.go: Iter, IterSection,          *)
(* decodeRow).                                                             *)
(*                                                                         *)
(* Iter walks the streams sections in order; IterSection opens a section, *)
(* reads its metadata and columns and then reads one row at a time, each   *)
(* decoded into a fresh Stream and yielded.  Both are wrapped by           *)
(* result.Iter, which hands the function's values to the caller as         *)
(* results and, when the function returns an error, one error result      *)
(* after them.  The consumer may stop after any result; yielding to it     *)
(* after it stopped is a breach of the range-over-func contract (the Go    *)
(* runtime panics).                                                        *)
(*                                                                         *)
(* A section is its outcome: it fails to open, fails to give its metadata *)
(* or columns, or yields a sequence of reads, each a row or a read error.  *)
(* A row maps each column to a value: Nil, or a typed value whose v = 0    *)
(* is the zero value.  Label names are abstracted to the column index and  *)
(* stream IDs, timestamps and label values to small naturals; time.Unix(0, *)
(* v) is v and the zero time.Time is ZeroTime.                             *)
(***************************************************************************)
EXTENDS Naturals, Sequences, SequencesExt

CONSTANTS
    Columns,   \* the column types of the streams sections, in order
    Objects,   \* the data objects: sequences of streams sections
    Nil,       \* a nil column value
    ReadErr,   \* a failed Read
    Err,       \* an error result
    ZeroTime   \* time.Time{}

Known == {"streamID", "minTs", "label"}

(* A column value: nil, or a typed value (dataset.Value). *)
Cells == {Nil} \cup [ty : {"int64", "bytes"}, v : Nat]

(* A row of the columns dataset: one value per column. *)
Rows == [1..Len(Columns) -> Cells]

(* What opening a section gives: an error, or a sequence of Read results. *)
Sections == [kind : {"openErr", "metaErr", "ok"}, reads : Seq(Rows \cup {ReadErr})]

(* A decoded Stream. *)
StreamValues == [id : Nat, minTs : Nat \cup {ZeroTime}, labels : SUBSET (Nat \X Nat)]

ASSUME StreamsAssumption ==
    /\ Columns \in Seq(Known \cup {"other"})
    /\ Err # ReadErr
    /\ Objects \subseteq Seq(Sections)
    /\ Nil \notin [ty : {"int64", "bytes"}, v : Nat]
    /\ ReadErr \notin Rows
    /\ Err \notin StreamValues

VARIABLES
    obj,      \* the object being iterated
    sec,      \* the index of the current section
    rd,       \* the index of the next read of the section
    pc,       \* "open", "meta", "read", "body", "resume" or "done"
    stream,   \* the Stream variable of IterSection's loop
    out,      \* the results handed to the consumer
    stopped,  \* the consumer returned false
    broke     \* Iter's loop body returned: IterSection's yield gave false

vars == <<obj, sec, rd, pc, stream, out, stopped, broke>>

ZeroStream == [id |-> 0, minTs |-> ZeroTime, labels |-> {}]

(* IsNil() || IsZero(): the column is skipped. *)
Absent(val) == val = Nil \/ val.v = 0

Init ==
    /\ obj \in Objects
    /\ sec = 1
    /\ rd = 1
    /\ pc = "open"
    /\ stream = ZeroStream
    /\ out = <<>>
    /\ stopped = FALSE
    /\ broke = FALSE

-----------------------------------------------------------------------------
(***************************************************************************)
(* decodeRow (iter.go 100-163).                                            *)
(***************************************************************************)

(* The value type each known column must have. *)
ColumnValueType(t) == IF t = "label" THEN "bytes" ELSE "int64"

(* One iteration of the loop over the columns, on column i of the row,   *)
(* into stream st: an absent value or an unknown column is skipped, a     *)
(* value of the wrong type is an error.                                   *)
DecodeColumn(row, i, st) ==
    IF Absent(row[i]) \/ Columns[i] = "other" THEN st
    ELSE IF row[i].ty # ColumnValueType(Columns[i]) THEN Err
    ELSE CASE Columns[i] = "streamID" -> [st EXCEPT !.id = row[i].v]
           [] Columns[i] = "minTs"    -> [st EXCEPT !.minTs = row[i].v]
           [] Columns[i] = "label"    -> [st EXCEPT !.labels = @ \cup {<<i, row[i].v>>}]

(* The loop over the columns in order, dec[n] the stream after the first  *)
(* n columns; the first error returns.  The label builder is taken fresh  *)
(* from the pool for each row and its labels, sorted, replace the         *)
(* stream's.                                                              *)
DecodeRow(row, st) ==
    LET dec[n \in 0..Len(Columns)] ==
          IF n = 0 THEN [st EXCEPT !.labels = {}]
          ELSE IF dec[n - 1] = Err THEN Err
          ELSE DecodeColumn(row, n, dec[n - 1])
    IN  dec[Len(Columns)]

-----------------------------------------------------------------------------
(***************************************************************************)
(* Iter and IterSection (iter.go 22-92).  IterSection's yield(stream) is  *)
(* a call into Iter's loop body: ReadRow makes the call, IterBody runs    *)
(* the body, Resume is IterSection going on with the body's answer.       *)
(***************************************************************************)

(* A result reaches the consumer; it answers whether to go on. *)
Deliver(res) == out' = Append(out, res)

(* An error ends both functions; result.Iter yields it to the consumer.  *)
Fail ==
    /\ Deliver(Err)
    /\ pc' = "done"
    /\ UNCHANGED <<obj, sec, rd, stream, stopped, broke>>

(* The next section is opened, or the iteration ends after the last one. *)
OpenSection ==
    /\ pc = "open"
    /\ IF sec > Len(obj)
       THEN /\ pc' = "done"
            /\ UNCHANGED <<obj, sec, rd, stream, out, stopped, broke>>
       ELSE IF obj[sec].kind = "openErr"
       THEN Fail
       ELSE /\ pc' = "meta"
            /\ UNCHANGED <<obj, sec, rd, stream, out, stopped, broke>>

(* dec.Metadata, newColumnsDataset and ListColumns; any of them may fail. *)
ReadMetadata ==
    /\ pc = "meta"
    /\ IF obj[sec].kind = "metaErr"
       THEN Fail
       ELSE /\ pc' = "read"
            /\ rd' = 1
            /\ UNCHANGED <<obj, sec, stream, out, stopped, broke>>

(* Mutant: the Stream variable is declared once, outside the read loop. *)
FreshStreamHoisted(prev) == prev

(* var stream Stream, declared inside the read loop: zero for every Read. *)
FreshStream(prev) == ZeroStream

(* Iter's loop body (lines 31-33): a stream is handed to the consumer;   *)
(* !yield(...) returns from the body, and the range loop's yield then    *)
(* gives IterSection false.                                               *)
GoOn(cont) == cont

(* One r.Read into a one-row buffer: EOF moves to the next section, an    *)
(* error or a row that does not decode fails, a decoded row is yielded   *)
(* to Iter's loop body.                                                   *)
ReadRow ==
    /\ pc = "read"
    /\ LET reads == obj[sec].reads IN
       IF rd > Len(reads)
       THEN /\ sec' = sec + 1
            /\ pc' = "open"
            /\ UNCHANGED <<obj, rd, stream, out, stopped, broke>>
       ELSE IF reads[rd] = ReadErr
       THEN Fail
       ELSE LET st == DecodeRow(reads[rd], FreshStream(stream)) IN
            IF st = Err
            THEN Fail
            ELSE /\ stream' = st
                 /\ pc' = "body"
                 /\ UNCHANGED <<obj, sec, rd, out, stopped, broke>>

(* Iter's loop body on a stream (lines 30-34). *)
IterBody ==
    /\ pc = "body"
    /\ Deliver(stream)
    /\ \E cont \in BOOLEAN :
          /\ stopped' = (stopped \/ ~cont)
          /\ broke' = ~GoOn(cont)
    /\ pc' = "resume"
    /\ UNCHANGED <<obj, sec, rd, stream>>

(* Mutant: IterSection drops the check of yield's answer. *)
YieldStopsIgnored(gaveFalse) == FALSE

(* if !yield(stream) { return nil } (line 86). *)
YieldStops(gaveFalse) == gaveFalse

(* IterSection after its yield returned (lines 86-89): it returns when    *)
(* the answer was false, which ends Iter too; else it reads the next row. *)
Resume ==
    /\ pc = "resume"
    /\ IF YieldStops(broke)
       THEN /\ pc' = "done"
            /\ UNCHANGED rd
       ELSE /\ pc' = "read"
            /\ rd' = rd + 1
    /\ UNCHANGED <<obj, sec, stream, out, stopped, broke>>

Next == OpenSection \/ ReadMetadata \/ ReadRow \/ IterBody \/ Resume

Spec == Init /\ [][Next]_vars

-----------------------------------------------------------------------------
(***************************************************************************)
(* The reference: what iterating the object should give.                  *)
(***************************************************************************)

Present(row, i) == ~Absent(row[i])

(* A row decoded declaratively: an error when a present value of a known  *)
(* column has the wrong type, else the stream of its present values.      *)
RefDecode(row) ==
    LET idx(t) == {i \in 1..Len(Columns) : Columns[i] = t /\ Present(row, i)}
    IN  IF \E i \in 1..Len(Columns) :
              Present(row, i) /\ Columns[i] \in Known
              /\ row[i].ty # ColumnValueType(Columns[i])
        THEN Err
        ELSE [id     |-> IF idx("streamID") = {} THEN 0
                         ELSE row[Max(idx("streamID"))].v,
              minTs  |-> IF idx("minTs") = {} THEN ZeroTime
                         ELSE row[Max(idx("minTs"))].v,
              labels |-> {<<i, row[i].v>> : i \in idx("label")}]

SectionResults(s) ==
    IF s.kind # "ok" THEN <<Err>>
    ELSE [i \in 1..Len(s.reads) |->
            IF s.reads[i] = ReadErr THEN Err ELSE RefDecode(s.reads[i])]

AllResults == FlattenSeq([k \in 1..Len(obj) |-> SectionResults(obj[k])])

(* Everything up to and including the first error. *)
RefResults ==
    LET errs == {i \in 1..Len(AllResults) : AllResults[i] = Err}
    IN  IF errs = {} THEN AllResults ELSE SubSeq(AllResults, 1, Min(errs))

-----------------------------------------------------------------------------
(* The consumer receives, in order, the streams of every row of every     *)
(* section, each decoded on its own, up to and including the first error, *)
(* all of them unless it stops early: no row is lost, repeated or mixed   *)
(* with an earlier row's values.                                          *)
StreamsMatchReference ==
    /\ IsPrefix(out, RefResults)
    /\ (pc = "done" /\ ~stopped) => out = RefResults

(* The range-over-func contract of the nested iterators (iter.go 31, 86): *)
(* once the consumer returned false nothing more, an error included, is   *)
(* handed to it, and once Iter's loop body returned, so that IterSection's *)
(* yield gave false, IterSection never calls yield again (the Go runtime  *)
(* panics on such a call).                                                *)
NoYieldAfterStop ==
    [][/\ stopped => out' = out
       /\ broke => pc' # "body"]_vars
=============================================================================
