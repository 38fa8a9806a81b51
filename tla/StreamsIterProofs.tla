-------------------------- MODULE StreamsIterProofs --------------------------
(***************************************************************************)
(* Proofs about the iteration over streams sections (StreamsIter): for    *)
(* every data object, the nested iterators of Iter and IterSection stop   *)
(* yielding once the consumer returned false.                             *)
(***************************************************************************)
EXTENDS StreamsIter, WellFoundedInduction, SequenceTheorems, TLAPS

TypeOK ==
    /\ pc \in {"open", "meta", "read", "body", "resume", "done"}
    /\ stopped \in BOOLEAN
    /\ broke \in BOOLEAN

(* Iter's loop body returns exactly when the consumer stopped, and a     *)
(* consumer that stopped has ended Iter's body: IterSection is at most   *)
(* about to see yield's false answer.                                    *)
StopInv ==
    /\ broke = stopped
    /\ stopped = TRUE => pc \in {"resume", "done"}

IInv == TypeOK /\ StopInv

LEMMA InitIInv == Init => IInv
<1> SUFFICES ASSUME Init PROVE IInv
  OBVIOUS
<1>1. pc = "open" /\ stopped = FALSE /\ broke = FALSE
  BY DEF Init
<1> QED
  BY <1>1, Zenon DEF IInv, TypeOK, StopInv

(* An error ends both functions with nothing more yielded. *)
LEMMA FailIInv == IInv /\ Fail => IInv'
BY DEF IInv, TypeOK, StopInv, Fail

LEMMA OpenSectionIInv == IInv /\ OpenSection => IInv'
<1> SUFFICES ASSUME IInv, OpenSection PROVE IInv'
  OBVIOUS
<1>1. stopped = FALSE /\ broke = FALSE
  BY DEF IInv, TypeOK, StopInv, OpenSection
<1>2. CASE sec > Len(obj)
  BY <1>1, <1>2 DEF OpenSection, IInv, TypeOK, StopInv
<1>3. CASE ~(sec > Len(obj)) /\ obj[sec].kind = "openErr"
  BY <1>3, FailIInv DEF OpenSection
<1>4. CASE ~(sec > Len(obj)) /\ obj[sec].kind # "openErr"
  BY <1>1, <1>4 DEF OpenSection, IInv, TypeOK, StopInv
<1> QED
  BY <1>2, <1>3, <1>4

LEMMA ReadMetadataIInv == IInv /\ ReadMetadata => IInv'
<1> SUFFICES ASSUME IInv, ReadMetadata PROVE IInv'
  OBVIOUS
<1>1. stopped = FALSE /\ broke = FALSE
  BY DEF IInv, TypeOK, StopInv, ReadMetadata
<1>2. CASE obj[sec].kind = "metaErr"
  BY <1>2, FailIInv DEF ReadMetadata
<1>3. CASE obj[sec].kind # "metaErr"
  BY <1>1, <1>3 DEF ReadMetadata, IInv, TypeOK, StopInv
<1> QED
  BY <1>2, <1>3

LEMMA ReadRowIInv == IInv /\ ReadRow => IInv'
<1> SUFFICES ASSUME IInv, ReadRow PROVE IInv'
  OBVIOUS
<1> DEFINE reads == obj[sec].reads
           st == DecodeRow(reads[rd], FreshStream(stream))
<1>1. stopped = FALSE /\ broke = FALSE /\ pc = "read"
  BY DEF IInv, TypeOK, StopInv, ReadRow
<1>2. CASE rd > Len(reads)
  BY <1>1, <1>2 DEF ReadRow, IInv, TypeOK, StopInv
<1>3. CASE ~(rd > Len(reads)) /\ (reads[rd] = ReadErr \/ st = Err)
  BY <1>3, FailIInv DEF ReadRow
<1>4. CASE ~(rd > Len(reads)) /\ reads[rd] # ReadErr /\ st # Err
  BY <1>1, <1>4 DEF ReadRow, IInv, TypeOK, StopInv
<1> QED
  BY <1>2, <1>3, <1>4

(* The consumer's answer: false stops it and makes Iter's body return. *)
LEMMA IterBodyIInv == IInv /\ IterBody => IInv'
<1> SUFFICES ASSUME IInv, IterBody PROVE IInv'
  OBVIOUS
<1>1. stopped = FALSE /\ pc' = "resume"
  BY DEF IInv, TypeOK, StopInv, IterBody
<1>2. PICK cont \in BOOLEAN : stopped' = (stopped \/ ~cont) /\ broke' = ~GoOn(cont)
  BY DEF IterBody
<1> QED
  BY <1>1, <1>2 DEF GoOn, IInv, TypeOK, StopInv

(* IterSection returns on a false answer, and reads on after a true one. *)
LEMMA ResumeIInv == IInv /\ Resume => IInv'
<1> SUFFICES ASSUME IInv, Resume PROVE IInv'
  OBVIOUS
<1>1. CASE broke = TRUE
  BY <1>1 DEF Resume, YieldStops, IInv, TypeOK, StopInv
<1>2. CASE broke = FALSE
  BY <1>2 DEF Resume, YieldStops, IInv, TypeOK, StopInv
<1> QED
  BY Zenon, <1>1, <1>2 DEF IInv, TypeOK

LEMMA NextIInv == IInv /\ [Next]_vars => IInv'
<1> SUFFICES ASSUME IInv, [Next]_vars PROVE IInv'
  OBVIOUS
<1>1. CASE UNCHANGED vars
  BY <1>1 DEF vars, IInv, TypeOK, StopInv
<1> QED
  BY <1>1, OpenSectionIInv, ReadMetadataIInv, ReadRowIInv, IterBodyIInv, ResumeIInv
  DEF Next

(* The range-over-func contract of the nested iterators (iter.go 31, 86), *)
(* for every data object: once the consumer's yield returned false, Iter  *)
(* hands it no other result, an error included, and once Iter's loop body *)
(* returned, IterSection never calls its yield again.                      *)
THEOREM NoYieldAfterStopTheorem == Spec => NoYieldAfterStop
<1>1. IInv /\ [Next]_vars =>
        [/\ stopped => out' = out
         /\ broke => pc' # "body"]_vars
  <2> SUFFICES ASSUME IInv, [Next]_vars, stopped \/ broke
               PROVE  out' = out /\ pc' # "body"
    BY Zenon DEF IInv, TypeOK, StopInv
  <2>1. pc \in {"resume", "done"} /\ broke = TRUE
    BY DEF IInv, TypeOK, StopInv
  <2>2. ~OpenSection /\ ~ReadMetadata /\ ~ReadRow /\ ~IterBody
    BY Zenon, <2>1 DEF OpenSection, ReadMetadata, ReadRow, IterBody
  <2>3. CASE Resume
    BY <2>1, <2>3 DEF Resume, YieldStops
  <2>4. CASE UNCHANGED vars
    BY <2>1, <2>4 DEF vars
  <2> QED
    BY <2>2, <2>3, <2>4 DEF Next
<1> QED
  BY <1>1, InitIInv, NextIInv, PTL DEF Spec, NoYieldAfterStop

-----------------------------------------------------------------------------
(***************************************************************************)
(* decodeRow against the reference, one column at a time.                 *)
(***************************************************************************)

(* The columns among the first n of type t that the row has a value in. *)
Idx(row, n, t) == {c \in 1..n : Columns[c] = t /\ Present(row, c)}

(* Some value among the first n columns has the wrong type. *)
BadCol(row, n) ==
    \E c \in 1..n : Present(row, c) /\ Columns[c] \in Known
                    /\ row[c].ty # ColumnValueType(Columns[c])

(* RefDecode over the first n columns. *)
RefUpTo(row, n) ==
    IF BadCol(row, n) THEN Err
    ELSE [id     |-> IF Idx(row, n, "streamID") = {} THEN 0
                     ELSE row[Max(Idx(row, n, "streamID"))].v,
          minTs  |-> IF Idx(row, n, "minTs") = {} THEN ZeroTime
                     ELSE row[Max(Idx(row, n, "minTs"))].v,
          labels |-> {<<c, row[c].v>> : c \in Idx(row, n, "label")}]

LEMMA ColumnsType == Columns \in Seq(Known \cup {"other"}) /\ Len(Columns) \in Nat
BY StreamsAssumption

LEMMA RefDecodeUpTo ==
    ASSUME NEW row
    PROVE  RefDecode(row) = RefUpTo(row, Len(Columns))
BY DEF RefDecode, RefUpTo, Idx, BadCol

(* The largest of a set and a number above all of it is that number. *)
LEMMA MaxAdd ==
    ASSUME NEW S \in SUBSET Nat, NEW n \in Nat, \A x \in S : x < n
    PROVE  Max(S \cup {n}) = n
<1>1. n \in S \cup {n} /\ \A y \in S \cup {n} : n >= y
  OBVIOUS
<1>2. \A x \in S \cup {n} : (\A y \in S \cup {n} : x >= y) => x = n
  OBVIOUS
<1> QED
  BY <1>1, <1>2 DEF Max

(* A non-empty set of column indexes has its largest element in it. *)
LEMMA MaxIn ==
    ASSUME NEW n \in Nat, NEW S \in SUBSET (1..n), S # {}
    PROVE  Max(S) \in S /\ \A y \in S : Max(S) >= y
<1> DEFINE T == {n - x : x \in S}
<1>1. T \subseteq Nat /\ T # {}
  <2>1. \A x \in S : x \in 1..n
    OBVIOUS
  <2>2. \A x \in S : n - x \in Nat
    BY <2>1
  <2>3. PICK x0 \in S : TRUE
    OBVIOUS
  <2> QED
    BY <2>2, <2>3
<1>2. PICK d \in T : \A y \in T : ~(<<y, d>> \in OpToRel(<, Nat))
  BY <1>1, WFMin, NatLessThanWellFounded
<1>3. PICK x \in S : d = n - x
  OBVIOUS
<1>4. \A y \in S : x >= y
  <2> SUFFICES ASSUME NEW y \in S, y > x PROVE FALSE
    OBVIOUS
  <2>1. n - y \in T /\ n - y \in Nat /\ d \in Nat /\ n - y < d
    BY <1>3
  <2>2. <<n - y, d>> \in OpToRel(<, Nat)
    BY <2>1 DEF OpToRel
  <2> QED
    BY <1>2, <2>1, <2>2
<1>5. \A z \in S : (\A y \in S : z >= y) => z = x
  BY <1>4
<1> QED
  BY <1>4, <1>5 DEF Max

(* Without a wrongly typed value, the reference is a Stream. *)
LEMMA RefUpToType ==
    ASSUME NEW row \in Rows, NEW n \in 0..Len(Columns), ~BadCol(row, n)
    PROVE  RefUpTo(row, n) \in StreamValues /\ RefUpTo(row, n) # Err
<1>0. Len(Columns) \in Nat /\ n \in Nat
  BY ColumnsType
<1>1. \A c \in 1..n : Present(row, c) => row[c] \in [ty : {"int64", "bytes"}, v : Nat]
  BY <1>0 DEF Rows, Cells, Present, Absent
<1>2. \A t : Idx(row, n, t) # {} =>
          row[Max(Idx(row, n, t))] \in [ty : {"int64", "bytes"}, v : Nat]
  <2> SUFFICES ASSUME NEW t, Idx(row, n, t) # {}
               PROVE  row[Max(Idx(row, n, t))] \in [ty : {"int64", "bytes"}, v : Nat]
    OBVIOUS
  <2>1. Max(Idx(row, n, t)) \in Idx(row, n, t)
    BY <1>0, MaxIn DEF Idx
  <2> QED
    BY <1>1, <2>1 DEF Idx
<1>3. RefUpTo(row, n) = [id     |-> RefUpTo(row, n).id,
                         minTs  |-> RefUpTo(row, n).minTs,
                         labels |-> RefUpTo(row, n).labels]
  BY DEF RefUpTo
<1>4. RefUpTo(row, n).id \in Nat
  BY <1>2 DEF RefUpTo
<1>5. RefUpTo(row, n).minTs \in Nat \cup {ZeroTime}
  BY <1>2 DEF RefUpTo
<1>6. RefUpTo(row, n).labels \in SUBSET (Nat \X Nat)
  <2>1. \A c \in Idx(row, n, "label") : c \in Nat /\ row[c].v \in Nat
    BY <1>1 DEF Idx
  <2> QED
    BY <2>1 DEF RefUpTo
<1>7. RefUpTo(row, n) \in StreamValues
  BY <1>3, <1>4, <1>5, <1>6 DEF StreamValues
<1> QED
  BY <1>7, StreamsAssumption
(* decodeRow's loop as a recursive function over the columns. *)
LEMMA DecodeRowDef ==
    ASSUME NEW row, NEW st
    PROVE  \E f : /\ f = [n \in 0..Len(Columns) |->
                           IF n = 0 THEN [st EXCEPT !.labels = {}]
                           ELSE IF f[n - 1] = Err THEN Err
                           ELSE DecodeColumn(row, n, f[n - 1])]
                  /\ DecodeRow(row, st) = f[Len(Columns)]
<1> DEFINE Def(v, n) == IF v = Err THEN Err ELSE DecodeColumn(row, n, v)
           F == CHOOSE g : g = [n \in 0..Len(Columns) |->
                                  IF n = 0 THEN [st EXCEPT !.labels = {}]
                                  ELSE Def(g[n - 1], n)]
<1>0. Len(Columns) \in Nat /\ 0 \in Nat
  BY ColumnsType
<1>1. FiniteNatInductiveDefHypothesis(F, [st EXCEPT !.labels = {}], Def, 0, Len(Columns))
  BY DEF FiniteNatInductiveDefHypothesis
<1>2. FiniteNatInductiveDefConclusion(F, [st EXCEPT !.labels = {}], Def, 0, Len(Columns))
  BY Zenon, <1>0, <1>1, FiniteNatInductiveDef
<1>3. DecodeRow(row, st) = F[Len(Columns)]
  BY DEF DecodeRow
<1> QED
  BY <1>2, <1>3 DEF FiniteNatInductiveDefConclusion


(* A wrong type among the first columns stays an error. *)
LEMMA RefUpToErr ==
    ASSUME NEW row \in Rows, NEW n \in 1..Len(Columns), RefUpTo(row, n - 1) = Err
    PROVE  RefUpTo(row, n) = Err
<1>1. BadCol(row, n - 1)
  BY ColumnsType, RefUpToType
<1>2. BadCol(row, n)
  BY <1>1 DEF BadCol
<1> QED
  BY <1>2 DEF RefUpTo

(* One more column: the reference over n columns is what DecodeColumn     *)
(* makes of the reference over n - 1 columns.                             *)
LEMMA DecodeColumnStep ==
    ASSUME NEW row \in Rows, NEW n \in 1..Len(Columns), RefUpTo(row, n - 1) # Err
    PROVE  RefUpTo(row, n) = DecodeColumn(row, n, RefUpTo(row, n - 1))
<1> DEFINE R == RefUpTo(row, n - 1)
<1>0. /\ Len(Columns) \in Nat /\ n \in Nat /\ n - 1 \in Nat
      /\ Columns[n] \in Known \cup {"other"}
      /\ row[n] \in Cells
  BY ColumnsType DEF Rows
<1>1. ~BadCol(row, n - 1)
  BY DEF RefUpTo
<1>2. R = [id     |-> IF Idx(row, n - 1, "streamID") = {} THEN 0
                      ELSE row[Max(Idx(row, n - 1, "streamID"))].v,
           minTs  |-> IF Idx(row, n - 1, "minTs") = {} THEN ZeroTime
                      ELSE row[Max(Idx(row, n - 1, "minTs"))].v,
           labels |-> {<<c, row[c].v>> : c \in Idx(row, n - 1, "label")}]
  BY <1>1 DEF RefUpTo
<1>3. \A t : Idx(row, n - 1, t) \subseteq Nat /\ \A x \in Idx(row, n - 1, t) : x < n
  BY <1>0 DEF Idx
<1>4. CASE Absent(row[n]) \/ Columns[n] = "other"
  <2>1. \A t \in Known : Idx(row, n, t) = Idx(row, n - 1, t)
    BY <1>0, <1>4 DEF Idx, Present, Known
  <2>2. ~BadCol(row, n)
    BY <1>0, <1>1, <1>4 DEF BadCol, Present, Known
  <2>3. RefUpTo(row, n) = R
    BY <1>2, <2>1, <2>2 DEF RefUpTo, Known
  <2> QED
    BY <2>3, <1>4 DEF DecodeColumn
<1>5. CASE ~Absent(row[n]) /\ Columns[n] # "other"
           /\ row[n].ty # ColumnValueType(Columns[n])
  <2>1. BadCol(row, n)
    BY <1>0, <1>5 DEF BadCol, Present
  <2> QED
    BY <1>5, <2>1 DEF RefUpTo, DecodeColumn
<1>6. CASE ~Absent(row[n]) /\ Columns[n] # "other"
           /\ row[n].ty = ColumnValueType(Columns[n])
  <2>1. ~BadCol(row, n)
    BY <1>0, <1>1, <1>6 DEF BadCol, Present
  <2>2. \A t \in Known : Idx(row, n, t) = IF Columns[n] = t THEN Idx(row, n - 1, t) \cup {n}
                                          ELSE Idx(row, n - 1, t)
    BY <1>0, <1>6 DEF Idx, Present
  <2>3. \A t \in Known : Columns[n] = t => Max(Idx(row, n, t)) = n
    BY <1>0, <1>3, <2>2, MaxAdd
  <2>4. DecodeColumn(row, n, R) =
          CASE Columns[n] = "streamID" -> [R EXCEPT !.id = row[n].v]
            [] Columns[n] = "minTs"    -> [R EXCEPT !.minTs = row[n].v]
            [] Columns[n] = "label"    -> [R EXCEPT !.labels = @ \cup {<<n, row[n].v>>}]
    BY <1>6 DEF DecodeColumn
  <2>5. CASE Columns[n] = "streamID"
    BY <1>2, <2>1, <2>2, <2>3, <2>4, <2>5 DEF RefUpTo, Known
  <2>6. CASE Columns[n] = "minTs"
    BY <1>2, <2>1, <2>2, <2>3, <2>4, <2>6 DEF RefUpTo, Known
  <2>7. CASE Columns[n] = "label"
    <3>1. Idx(row, n, "label") = Idx(row, n - 1, "label") \cup {n}
      BY <2>2, <2>7 DEF Known
    <3>2. {<<c, row[c].v>> : c \in Idx(row, n, "label")}
            = {<<c, row[c].v>> : c \in Idx(row, n - 1, "label")} \cup {<<n, row[n].v>>}
      BY <3>1
    <3>3. Idx(row, n, "streamID") = Idx(row, n - 1, "streamID")
          /\ Idx(row, n, "minTs") = Idx(row, n - 1, "minTs")
      BY <2>2, <2>7 DEF Known
    <3>4. RefUpTo(row, n) = [id     |-> R.id, minTs  |-> R.minTs,
                             labels |-> R.labels \cup {<<n, row[n].v>>}]
      BY <1>2, <2>1, <3>2, <3>3 DEF RefUpTo
    <3> QED
      BY <1>2, <2>4, <2>7, <3>4
  <2> QED
    BY <1>0, <1>6, <2>5, <2>6, <2>7 DEF Known
<1> QED
  BY <1>4, <1>5, <1>6


(* decodeRow, given the zero Stream that is declared for every Read, is   *)
(* the reference decoding of the row: by induction over the columns.     *)
LEMMA DecodeRowMatchesRef ==
    ASSUME NEW row \in Rows
    PROVE  DecodeRow(row, ZeroStream) = RefDecode(row)
<1> DEFINE L == Len(Columns)
<1>0. L \in Nat
  BY ColumnsType
<1>1. PICK f : /\ f = [n \in 0..L |->
                        IF n = 0 THEN [ZeroStream EXCEPT !.labels = {}]
                        ELSE IF f[n - 1] = Err THEN Err
                        ELSE DecodeColumn(row, n, f[n - 1])]
               /\ DecodeRow(row, ZeroStream) = f[L]
  BY DecodeRowDef
<1>a. \A n \in 0..L : f[n] = IF n = 0 THEN [ZeroStream EXCEPT !.labels = {}]
                             ELSE IF f[n - 1] = Err THEN Err
                             ELSE DecodeColumn(row, n, f[n - 1])
  BY <1>1
<1> DEFINE Bad == {n \in 0..L : f[n] # RefUpTo(row, n)}
<1>2. Bad = {}
  <2> SUFFICES ASSUME Bad # {} PROVE FALSE
    OBVIOUS
  <2>0. Bad \subseteq Nat
    BY <1>0
  <2>1. PICK m \in Bad : \A y \in Bad : ~(<<y, m>> \in OpToRel(<, Nat))
    BY <2>0, WFMin, NatLessThanWellFounded
  <2>2. m # 0
    <3>a. 0 \in 0..L
      BY <1>0
    <3>0. f[0] = [ZeroStream EXCEPT !.labels = {}]
      BY Zenon, <3>a, <1>a
    <3>1. f[0] = [id |-> 0, minTs |-> ZeroTime, labels |-> {}]
      BY <3>0 DEF ZeroStream
    <3>2. ~BadCol(row, 0) /\ \A t : Idx(row, 0, t) = {}
      BY DEF BadCol, Idx
    <3>3. RefUpTo(row, 0) = [id |-> 0, minTs |-> ZeroTime, labels |-> {}]
      BY <3>2 DEF RefUpTo
    <3> QED
      BY <3>1, <3>3
  <2>3. m \in 1..L /\ m - 1 \in 0..L
    BY <1>0, <2>2
  <2>4. f[m - 1] = RefUpTo(row, m - 1)
    <3>1. <<m - 1, m>> \in OpToRel(<, Nat)
      BY <2>3 DEF OpToRel
    <3> QED
      BY <2>1, <2>3, <3>1
  <2>5. f[m] = IF f[m - 1] = Err THEN Err ELSE DecodeColumn(row, m, f[m - 1])
    BY <1>a, <2>3
  <2>6. CASE RefUpTo(row, m - 1) = Err
    BY <2>3, <2>4, <2>5, <2>6, RefUpToErr
  <2>7. CASE RefUpTo(row, m - 1) # Err
    BY <2>3, <2>4, <2>5, <2>7, DecodeColumnStep
  <2> QED
    BY <2>6, <2>7
<1>3. f[L] = RefUpTo(row, L)
  BY <1>0, <1>2
<1> QED
  BY <1>1, <1>3, RefDecodeUpTo


-----------------------------------------------------------------------------
(***************************************************************************)
(* The results of the first k sections, one after the other.              *)
(***************************************************************************)

FlatUpTo(x) == LET g[k \in 0..Len(x)] == IF k = 0 THEN <<>> ELSE g[k - 1] \o x[k]
               IN  g

LEMMA FlatUpToDef ==
    ASSUME NEW x
    PROVE  FlatUpTo(x) = [k \in 0..Len(x) |->
                             IF k = 0 THEN <<>> ELSE FlatUpTo(x)[k - 1] \o x[k]]
<1> DEFINE Def(v, k) == v \o x[k]
           F == CHOOSE g : g = [k \in 0..Len(x) |->
                                  IF k = 0 THEN <<>> ELSE Def(g[k - 1], k)]
<1>0. Len(x) \in Nat /\ 0 \in Nat
  OBVIOUS
<1>1. FiniteNatInductiveDefHypothesis(F, <<>>, Def, 0, Len(x))
  BY DEF FiniteNatInductiveDefHypothesis
<1>2. FiniteNatInductiveDefConclusion(F, <<>>, Def, 0, Len(x))
  BY Zenon, <1>0, <1>1, FiniteNatInductiveDef
<1>3. FlatUpTo(x) = F
  BY DEF FlatUpTo
<1> QED
  BY <1>2, <1>3 DEF FiniteNatInductiveDefConclusion

LEMMA FlatUpToStep ==
    ASSUME NEW x
    PROVE  /\ FlatUpTo(x)[0] = <<>>
           /\ \A k \in 1..Len(x) : FlatUpTo(x)[k] = FlatUpTo(x)[k - 1] \o x[k]
<1>1. 0 \in 0..Len(x) /\ \A k \in 1..Len(x) : k \in 0..Len(x) /\ k # 0
  OBVIOUS
<1> QED
  BY Zenon, <1>1, FlatUpToDef


LEMMA FlatUpToType ==
    ASSUME NEW S, NEW x \in Seq(Seq(S))
    PROVE  \A k \in 0..Len(x) : FlatUpTo(x)[k] \in Seq(S)
<1> DEFINE G == FlatUpTo(x)
           Bad == {k \in 0..Len(x) : G[k] \notin Seq(S)}
<1> SUFFICES Bad = {}
  OBVIOUS
<1> SUFFICES ASSUME Bad # {} PROVE FALSE
  OBVIOUS
<1>0. Len(x) \in Nat /\ Bad \subseteq Nat
  OBVIOUS
<1>1. PICK m \in Bad : \A y \in Bad : ~(<<y, m>> \in OpToRel(<, Nat))
  BY <1>0, WFMin, NatLessThanWellFounded
<1>s. /\ G[0] = <<>>
      /\ \A k \in 1..Len(x) : G[k] = G[k - 1] \o x[k]
  BY FlatUpToStep
<1>m. m \in 0..Len(x) /\ G[m] \notin Seq(S)
  OBVIOUS
<1>e. <<>> \in Seq(S)
  OBVIOUS
<1>2. m # 0
  BY <1>s, <1>m, <1>e
<1>3. m \in 1..Len(x) /\ m - 1 \in 0..Len(x)
  BY <1>0, <1>2
<1>4. G[m - 1] \in Seq(S)
  <2>1. <<m - 1, m>> \in OpToRel(<, Nat)
    BY <1>3 DEF OpToRel
  <2> QED
    BY <1>1, <1>3, <2>1
<1>5. G[m] = G[m - 1] \o x[m]
  BY <1>3, FlatUpToStep
<1>6. x[m] \in Seq(S)
  BY <1>3
<1> QED
  BY <1>m, <1>4, <1>5, <1>6

(* In a chain of concatenations G[k] = G[k-1] \o x[k], G[j] is a prefix *)
(* of G[k] for every j <= k.                                              *)
(* The head of a concatenation is its first part. *)
LEMMA ConcatPrefix ==
    ASSUME NEW S, NEW a \in Seq(S), NEW b \in Seq(S)
    PROVE  /\ Len(a \o b) = Len(a) + Len(b)
           /\ \A p \in 1..Len(a) : (a \o b)[p] = a[p]
<1>1. Len(a) \in Nat /\ Len(b) \in Nat
  OBVIOUS
<1>2. /\ Len(a \o b) = Len(a) + Len(b)
      /\ \A i \in 1 .. Len(a) + Len(b) :
            (a \o b)[i] = IF i <= Len(a) THEN a[i] ELSE b[i - Len(a)]
  BY ConcatProperties
<1> QED
  BY <1>1, <1>2

(* G[j] is a prefix of G[k]. *)
PrefixAt(G, j, k) ==
    /\ Len(G[j]) <= Len(G[k])
    /\ \A p \in 1..Len(G[j]) : G[k][p] = G[j][p]

(* A prefix of b is a prefix of b \o c. *)
LEMMA PrefixExtend ==
    ASSUME NEW S, NEW a \in Seq(S), NEW b \in Seq(S), NEW c \in Seq(S),
           Len(a) <= Len(b), \A p \in 1..Len(a) : b[p] = a[p]
    PROVE  /\ Len(a) <= Len(b \o c)
           /\ \A p \in 1..Len(a) : (b \o c)[p] = a[p]
<1>1. /\ Len(b \o c) = Len(b) + Len(c)
      /\ \A p \in 1..Len(b) : (b \o c)[p] = b[p]
  BY ConcatPrefix
<1> QED
  BY <1>1

ConcatChain(G, x, S) ==
    /\ \A k \in 0..Len(x) : G[k] \in Seq(S)
    /\ \A k \in 1..Len(x) : G[k] = G[k - 1] \o x[k]

LEMMA ConcatChainPrefix ==
    ASSUME NEW S, NEW x \in Seq(Seq(S)), NEW G,
           NEW j \in 0..Len(x), ConcatChain(G, x, S)
    PROVE  \A k \in j..Len(x) : PrefixAt(G, j, k)
<1>T. \A k \in 0..Len(x) : G[k] \in Seq(S)
  BY DEF ConcatChain
<1>S. \A k \in 1..Len(x) : G[k] = G[k - 1] \o x[k]
  BY DEF ConcatChain
<1> DEFINE P(k) == PrefixAt(G, j, k)
           Bad == {k \in j..Len(x) : ~P(k)}
<1> SUFFICES Bad = {}
  OBVIOUS
<1> SUFFICES ASSUME Bad # {} PROVE FALSE
  OBVIOUS
<1>0. Len(x) \in Nat /\ Bad \subseteq Nat /\ j \in Nat
  OBVIOUS
<1>1. PICK m \in Bad : \A y \in Bad : ~(<<y, m>> \in OpToRel(<, Nat))
  BY <1>0, WFMin, NatLessThanWellFounded
<1>m. m \in j..Len(x) /\ ~P(m)
  OBVIOUS
<1>j. G[j] \in Seq(S)
  BY Zenon, <1>T
<1>2. m # j
  BY <1>m, <1>j DEF PrefixAt
<1>3. m \in 1..Len(x) /\ m - 1 \in j..Len(x)
  BY <1>0, <1>m, <1>2
<1>4. P(m - 1)
  <2>1. <<m - 1, m>> \in OpToRel(<, Nat)
    BY <1>3 DEF OpToRel
  <2> QED
    BY <1>1, <1>3, <2>1
<1>5. G[m] = G[m - 1] \o x[m]
  BY <1>3, <1>S
<1>6. G[m - 1] \in Seq(S) /\ x[m] \in Seq(S)
  BY <1>0, <1>3, <1>T
<1>a. /\ Len(G[j]) <= Len(G[m - 1])
      /\ \A p \in 1..Len(G[j]) : G[m - 1][p] = G[j][p]
  BY <1>4 DEF PrefixAt
<1>b. /\ Len(G[j]) <= Len(G[m - 1] \o x[m])
      /\ \A p \in 1..Len(G[j]) : (G[m - 1] \o x[m])[p] = G[j][p]
  <2>1. \A a, b, c \in Seq(S) :
           (Len(a) <= Len(b) /\ \A p \in 1..Len(a) : b[p] = a[p]) =>
              (/\ Len(a) <= Len(b \o c)
               /\ \A p \in 1..Len(a) : (b \o c)[p] = a[p])
    BY PrefixExtend
  <2> QED
    BY <1>6, <1>j, <1>a, <2>1
<1>7. P(m)
  BY Zenon, <1>5, <1>b DEF PrefixAt
<1> QED
  BY <1>m, <1>7

(* The results of the first j sections are a prefix of those of the      *)
(* first k, for j <= k.                                                   *)
LEMMA FlatUpToPrefix ==
    ASSUME NEW S, NEW x \in Seq(Seq(S)), NEW j \in 0..Len(x)
    PROVE  \A k \in j..Len(x) :
              /\ Len(FlatUpTo(x)[j]) <= Len(FlatUpTo(x)[k])
              /\ \A p \in 1..Len(FlatUpTo(x)[j]) : FlatUpTo(x)[k][p] = FlatUpTo(x)[j][p]
<1>1. \A k \in 0..Len(x) : FlatUpTo(x)[k] \in Seq(S)
  BY FlatUpToType
<1>2. \A k \in 1..Len(x) : FlatUpTo(x)[k] = FlatUpTo(x)[k - 1] \o x[k]
  BY FlatUpToStep
<1>3. ConcatChain(FlatUpTo(x), x, S)
  BY <1>1, <1>2 DEF ConcatChain
<1>4. \A k \in j..Len(x) : PrefixAt(FlatUpTo(x), j, k)
  BY Zenon, <1>3, ConcatChainPrefix
<1> QED
  BY <1>4 DEF PrefixAt

(* FlattenSeq computes the last link of a chain of concatenations. *)
LEMMA ChainIsFlatten ==
    ASSUME NEW S, NEW x \in Seq(Seq(S)), NEW G,
           G[0] = <<>>, ConcatChain(G, x, S)
    PROVE  FlattenSeq(x) = G[Len(x)]
<1>s. G[0] = <<>> /\ \A k \in 1..Len(x) : G[k] = G[k - 1] \o x[k]
  BY DEF ConcatChain
<1>1. CASE Len(x) = 0
  <2>1. x = <<>>
    BY <1>1
  <2> QED
    BY <1>1, <1>s, <2>1 DEF FlattenSeq
<1>2. CASE Len(x) # 0
  <2> DEFINE Def(v, i) == v \o x[i]
             F == CHOOSE g : g = [i \in 1..Len(x) |->
                                    IF i = 1 THEN x[i] ELSE Def(g[i - 1], i)]
  <2>0. Len(x) \in Nat /\ 1 \in Nat
    OBVIOUS
  <2>1. FiniteNatInductiveDefHypothesis(F, x[1], Def, 1, Len(x))
    BY DEF FiniteNatInductiveDefHypothesis
  <2>2. FiniteNatInductiveDefConclusion(F, x[1], Def, 1, Len(x))
    BY Zenon, <2>0, <2>1, FiniteNatInductiveDef
  <2>3. FlattenSeq(x) = F[Len(x)]
    BY <1>2 DEF FlattenSeq
  <2>4. \A i \in 1..Len(x) : F[i] = IF i = 1 THEN x[1] ELSE F[i - 1] \o x[i]
    BY <2>2 DEF FiniteNatInductiveDefConclusion
  <2> HIDE DEF F
  <2> DEFINE Bad == {i \in 1..Len(x) : F[i] # G[i]}
  <2>5. Bad = {}
    <3> SUFFICES ASSUME Bad # {} PROVE FALSE
      OBVIOUS
    <3>0. Bad \subseteq Nat
      OBVIOUS
    <3>1. PICK m \in Bad : \A y \in Bad : ~(<<y, m>> \in OpToRel(<, Nat))
      BY <3>0, WFMin, NatLessThanWellFounded
    <3>m. m \in 1..Len(x) /\ F[m] # G[m]
      OBVIOUS
    <3>2. m # 1
      <4>0. 1 \in 1..Len(x)
        BY <2>0, <1>2
      <4>1. F[1] = x[1]
        BY <4>0, <2>4
      <4>2. G[1] = G[1 - 1] \o x[1] /\ G[0] = <<>>
        BY Zenon, <4>0, <1>s
      <4>5. 1 - 1 = 0
        OBVIOUS
      <4>3. x[1] \in Seq(S)
        BY <4>0
      <4>6. G[1] = <<>> \o x[1]
        BY Zenon, <4>2, <4>5
      <4>7. G[1] = x[1]
        BY <4>3, <4>6, ConcatEmptySeq
      <4> QED
        BY Zenon, <3>m, <4>1, <4>7
    <3>3. m \in 2..Len(x) /\ m - 1 \in 1..Len(x)
      BY <3>2
    <3>4. F[m - 1] = G[m - 1]
      <4>1. <<m - 1, m>> \in OpToRel(<, Nat)
        BY <3>3 DEF OpToRel
      <4> QED
        BY <3>1, <3>3, <4>1
    <3>5. F[m] = F[m - 1] \o x[m]
      <4>1. m \in 1..Len(x) /\ m # 1
        BY <3>2, <3>3
      <4> QED
        BY Zenon, <4>1, <2>4
    <3>6. G[m] = G[m - 1] \o x[m]
      BY <3>3, <1>s
    <3> QED
      BY <3>m, <3>4, <3>5, <3>6
  <2>6. Len(x) \in 1..Len(x)
    BY <2>0, <1>2
  <2> QED
    BY <2>3, <2>5, <2>6
<1> QED
  BY <1>1, <1>2

(* FlattenSeq is the results of all the sections. *)
LEMMA FlattenIsFlatUpTo ==
    ASSUME NEW S, NEW x \in Seq(Seq(S))
    PROVE  FlattenSeq(x) = FlatUpTo(x)[Len(x)]
<1>1. FlatUpTo(x)[0] = <<>>
  BY FlatUpToStep
<1>2. ConcatChain(FlatUpTo(x), x, S)
  BY FlatUpToType, FlatUpToStep DEF ConcatChain
<1>3. \A g : g[0] = <<>> /\ ConcatChain(g, x, S) => FlattenSeq(x) = g[Len(x)]
  BY ChainIsFlatten
<1> QED
  BY <1>1, <1>2, <1>3

=============================================================================
