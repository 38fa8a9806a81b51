--------------------------- MODULE TableMergeProofs ---------------------------
(***************************************************************************)
(* Proofs about mergeTablesIncremental (TableMerge): for every list of     *)
(* tables and every maxMergeSize, the merge returns an error exactly when  *)
(* some input table fails, and a table it returns is sorted when the      *)
(* input tables are.                                                      *)
(***************************************************************************)
EXTENDS TableMerge, SequenceTheorems, TLAPS

Entries == Rows \cup {Err}

(* Table t of the input fails on some read. *)
Fails(s) == Err \in ToSet(s)

HasErr == \E t \in 1..Len(tables) : Fails(tables[t])

TypeOK ==
    /\ tables \in Seq(Seq(Entries))
    /\ k \in Nat
    /\ in \in Seq(Seq(Entries))
    /\ out \in Seq(Seq(Rows))
    /\ i \in Nat \ {0}
    /\ first \in BOOLEAN
    /\ heads \in Seq(Seq(Entries))
    /\ acc \in Seq(Rows)
    /\ merging \in BOOLEAN
    /\ result \in {"running", "ok", "error", "panic"}

(* The first round reads the input tables; later rounds read merged       *)
(* tables, which hold no error, and start only after a first round that   *)
(* met none.                                                              *)
RoundsInv ==
    /\ first => in = tables
    /\ ~first => in \in Seq(Seq(Rows)) /\ ~HasErr

(* The tables before index i were merged without meeting an error. *)
DoneInv ==
    \A t \in 1..Len(in) : t < i => ~Fails(in[t])

(* During a mergeTables call, sequence j is what is left of table          *)
(* i + j - 1, and it still fails exactly when that table fails: only rows  *)
(* were taken from it.                                                     *)
MergingInv ==
    merging =>
        /\ MergeSizeOK
        /\ i <= Len(in)
        /\ Len(heads) = SetEnd(i) - i + 1
        /\ \A j \in 1..Len(heads) : Fails(heads[j]) <=> Fails(in[i + j - 1])

(* How the merge ended. *)
ResultInv ==
    /\ result = "error" => HasErr
    /\ result = "ok" => ~HasErr

IInv == TypeOK /\ RoundsInv /\ DoneInv /\ MergingInv /\ ResultInv

(* Every table of the round, and every table merged in it, is sorted;    *)
(* during a mergeTables call the rows appended so far are sorted and none *)
(* comes after a row still in a sequence.                                 *)
SortInv ==
    /\ \A t \in 1..Len(in) : SortedRows(in[t])
    /\ \A t \in 1..Len(out) : SortedRows(out[t])
    /\ merging =>
          /\ SortedRows(acc)
          /\ \A j \in 1..Len(heads) : SortedRows(heads[j])
          /\ \A j \in 1..Len(heads) : \A a \in 1..Len(acc) :
                \A b \in 1..Len(heads[j]) :
                   heads[j][b] # Err => CompareRows(acc[a], heads[j][b]) <= 0

-----------------------------------------------------------------------------
(* Min of two naturals is the smaller one. *)
LEMMA MinOfTwo ==
    ASSUME NEW a \in Nat, NEW b \in Nat
    PROVE  Min({a, b}) = IF a <= b THEN a ELSE b
<1> DEFINE m == IF a <= b THEN a ELSE b
<1>1. m \in {a, b} /\ \A y \in {a, b} : m =< y
  OBVIOUS
<1>2. \A x \in {a, b} : (\A y \in {a, b} : x =< y) => x = m
  OBVIOUS
<1> QED
  BY <1>1, <1>2 DEF Min

(* The set in[i..SetEnd(i)] of a round: it starts at i, holds at most    *)
(* maxMergeSize tables and ends inside in.                                *)
LEMMA SetEndBounds ==
    ASSUME TypeOK, MergeSizeOK, i <= Len(in)
    PROVE  /\ SetEnd(i) \in i..Len(in)
           /\ SetEnd(i) <= i + k - 1
           /\ SetEnd(i) < Len(in) => SetEnd(i) = i + k - 1
<1>1. i + k - 1 \in Nat /\ Len(in) \in Nat
  BY DEF TypeOK, MergeSizeOK
<1>2. SetEnd(i) = IF i + k - 1 <= Len(in) THEN i + k - 1 ELSE Len(in)
  BY <1>1, MinOfTwo DEF SetEnd
<1> QED
  BY <1>2 DEF TypeOK, MergeSizeOK

(* Taking a row off the front of a sequence does not change whether an    *)
(* error is still to come.                                                *)
LEMMA FailsTail ==
    ASSUME NEW s \in Seq(Entries), s # <<>>, s[1] # Err
    PROVE  Fails(Tail(s)) <=> Fails(s)
<1>1. Fails(s) <=> \E n \in 1..Len(s) : s[n] = Err
  BY DEF Fails, ToSet
<1>2. Fails(Tail(s)) <=> \E n \in 1..Len(Tail(s)) : Tail(s)[n] = Err
  <2>1. Tail(s) \in Seq(Entries) /\ DOMAIN Tail(s) = 1..Len(Tail(s))
    OBVIOUS
  <2> QED
    BY <2>1 DEF Fails, ToSet
<1>3. /\ Len(Tail(s)) = Len(s) - 1
      /\ \A n \in 1..Len(s) - 1 : Tail(s)[n] = s[n + 1]
  OBVIOUS
<1>4. (\E n \in 1..Len(s) : s[n] = Err) <=> \E n \in 1..Len(s) - 1 : s[n + 1] = Err
  <2>1. ASSUME NEW n \in 1..Len(s), s[n] = Err
         PROVE  \E m \in 1..Len(s) - 1 : s[m + 1] = Err
    <3>1. n # 1
      BY <2>1
    <3>2. n - 1 \in 1..Len(s) - 1 /\ s[(n - 1) + 1] = Err
      BY <2>1, <3>1
    <3> QED
      BY <3>2
  <2>2. ASSUME NEW m \in 1..Len(s) - 1, s[m + 1] = Err
         PROVE  \E n \in 1..Len(s) : s[n] = Err
    BY <2>2
  <2> QED
    BY <2>1, <2>2
<1> QED
  BY <1>1, <1>2, <1>3, <1>4

LEMMA FailsEmpty == ~Fails(<<>>)
BY DEF Fails, ToSet

(* compareRows is a total order on rows: reflexive, total and transitive. *)
LEMMA CompareRowsOrder ==
    ASSUME NEW a \in Rows, NEW b \in Rows, NEW c \in Rows
    PROVE  /\ CompareRows(a, a) = 0
           /\ ~(CompareRows(b, a) < 0) => CompareRows(a, b) <= 0
           /\ (CompareRows(a, b) <= 0 /\ CompareRows(b, c) <= 0)
                 => CompareRows(a, c) <= 0
<1>1. \A x \in Rows : x.ts \in Nat /\ x.stream \in Nat
  BY MergeAssumption DEF Rows
<1>2. CompareRows(a, a) = 0
  BY <1>1 DEF CompareRows
<1>3. ~(CompareRows(b, a) < 0) => CompareRows(a, b) <= 0
  BY <1>1 DEF CompareRows
<1>4. (CompareRows(a, b) <= 0 /\ CompareRows(b, c) <= 0) => CompareRows(a, c) <= 0
  BY <1>1 DEF CompareRows
<1> QED
  BY <1>2, <1>3, <1>4

(* A sorted table stays sorted when its first row is read. *)
LEMMA SortedTail ==
    ASSUME NEW s \in Seq(Entries), s # <<>>, SortedRows(s)
    PROVE  SortedRows(Tail(s))
<1>1. /\ Len(Tail(s)) = Len(s) - 1
      /\ \A n \in 1..Len(s) - 1 : Tail(s)[n] = s[n + 1]
  OBVIOUS
<1> QED
  BY <1>1 DEF SortedRows

(* A row that no row of a sorted table comes after extends it sorted. *)
LEMMA SortedAppend ==
    ASSUME NEW s \in Seq(Rows), NEW x \in Rows, SortedRows(s),
           \A a \in 1..Len(s) : CompareRows(s[a], x) <= 0
    PROVE  SortedRows(Append(s, x))
<1>1. /\ Len(Append(s, x)) = Len(s) + 1
      /\ \A n \in 1..Len(s) : Append(s, x)[n] = s[n]
      /\ Append(s, x)[Len(s) + 1] = x
  OBVIOUS
<1> QED
  BY <1>1 DEF SortedRows

-----------------------------------------------------------------------------
LEMMA InitIInv == Init => IInv
<1> SUFFICES ASSUME Init PROVE IInv
  OBVIOUS
<1>1. /\ in = tables /\ out = <<>> /\ i = 1 /\ first = TRUE /\ heads = <<>>
      /\ acc = <<>> /\ merging = FALSE /\ result = "running"
  BY Zenon DEF Init
<1>2. tables \in Seq(Seq(Entries)) /\ k \in Nat
  BY MergeAssumption DEF Init, Entries
<1>3. TypeOK
  <2>1. <<>> \in Seq(Seq(Rows)) /\ <<>> \in Seq(Seq(Entries)) /\ <<>> \in Seq(Rows)
    OBVIOUS
  <2>2. /\ i \in Nat \ {0} /\ result \in {"running", "ok", "error", "panic"}
    BY <1>1
  <2>3. merging \in BOOLEAN /\ first \in BOOLEAN
    BY Zenon, <1>1
  <2>4. /\ in \in Seq(Seq(Entries)) /\ out \in Seq(Seq(Rows))
        /\ heads \in Seq(Seq(Entries)) /\ acc \in Seq(Rows)
    BY <1>1, <1>2, <2>1
  <2> QED
    BY Zenon, <1>2, <2>2, <2>3, <2>4 DEF TypeOK
<1>4. RoundsInv /\ DoneInv /\ MergingInv /\ ResultInv
  BY <1>1 DEF RoundsInv, DoneInv, MergingInv, ResultInv
<1> QED
  BY <1>3, <1>4 DEF IInv

(* A panic changes only the result. *)
LEMMA PanicIInv == IInv /\ (PanicOnSmallMergeSize \/ PanicOnNoTables) => IInv'
<1> SUFFICES ASSUME IInv, PanicOnSmallMergeSize \/ PanicOnNoTables PROVE IInv'
  OBVIOUS
<1>1. /\ result' = "panic"
      /\ UNCHANGED <<tables, k, in, out, i, first, heads, acc, merging>>
  BY DEF PanicOnSmallMergeSize, PanicOnNoTables
<1>2. TypeOK'
  BY <1>1 DEF IInv, TypeOK
<1>3. (RoundsInv /\ DoneInv /\ MergingInv)'
  BY <1>1 DEF IInv, RoundsInv, DoneInv, MergingInv, HasErr, MergeSizeOK, SetEnd
<1>4. ResultInv'
  BY <1>1 DEF ResultInv
<1> QED
  BY <1>2, <1>3, <1>4 DEF IInv

LEMMA StartSetIInv == IInv /\ StartSet => IInv'
<1> SUFFICES ASSUME IInv, StartSet PROVE IInv'
  OBVIOUS
<1>1. TypeOK /\ MergeSizeOK /\ i <= Len(in)
  BY DEF IInv, StartSet
<1>2. SetEnd(i) \in i..Len(in)
  BY <1>1, SetEndBounds
<1>3. /\ heads' \in Seq(Seq(Entries))
      /\ Len(heads') = SetEnd(i) - i + 1
      /\ \A j \in 1..Len(heads') : heads'[j] = in[i + j - 1]
  <2>1. \A t \in i..SetEnd(i) : in[t] \in Seq(Entries)
    BY <1>1, <1>2 DEF TypeOK
  <2>2. i \in Int /\ SetEnd(i) \in Int
    BY <1>1, <1>2 DEF TypeOK
  <2> QED
    BY <1>2, <2>1, <2>2, SubSeqProperties DEF StartSet
<1>4. TypeOK'
  BY <1>1, <1>3 DEF StartSet, TypeOK
<1>5. MergingInv'
  BY <1>1, <1>3 DEF StartSet, MergingInv, MergeSizeOK, SetEnd
<1>6. (RoundsInv /\ DoneInv /\ ResultInv)'
  BY DEF IInv, StartSet, RoundsInv, DoneInv, ResultInv, HasErr
<1> QED
  BY <1>4, <1>5, <1>6 DEF IInv

LEMMA FinishSetIInv == IInv /\ FinishSet => IInv'
<1> SUFFICES ASSUME IInv, FinishSet PROVE IInv'
  OBVIOUS
<1>1. /\ TypeOK /\ MergeSizeOK /\ i <= Len(in)
      /\ Len(heads) = SetEnd(i) - i + 1
      /\ \A j \in 1..Len(heads) : Fails(heads[j]) <=> Fails(in[i + j - 1])
  BY DEF IInv, FinishSet, MergingInv
<1>2. /\ SetEnd(i) \in i..Len(in)
      /\ SetEnd(i) < Len(in) => SetEnd(i) = i + k - 1
  BY <1>1, SetEndBounds
<1>3. TypeOK'
  <2>1. out' \in Seq(Seq(Rows))
    BY <1>1 DEF FinishSet, TypeOK
  <2>2. i' \in Nat \ {0}
    BY <1>1 DEF FinishSet, TypeOK, MergeSizeOK
  <2>3. heads' \in Seq(Seq(Entries))
    BY DEF FinishSet
  <2>4. merging' \in BOOLEAN
    BY Zenon DEF FinishSet
  <2> QED
    BY <1>1, <2>1, <2>2, <2>3, <2>4 DEF FinishSet, TypeOK
<1>4. DoneInv'
  <2> SUFFICES ASSUME NEW t \in 1..Len(in), t < i + k
               PROVE  ~Fails(in[t])
    BY DEF FinishSet, DoneInv
  <2>1. CASE t < i
    BY <2>1 DEF IInv, DoneInv
  <2>2. CASE t >= i
    <3>0. /\ i \in Nat /\ k \in Nat /\ t \in Nat /\ Len(in) \in Nat
          /\ SetEnd(i) \in Nat /\ Len(heads) \in Nat
      BY <1>1, <1>2 DEF TypeOK
    <3>1. t <= SetEnd(i)
      BY <3>0, <1>2
    <3> HIDE DEF SetEnd
    <3>2. t - i + 1 \in 1..Len(heads) /\ i + (t - i + 1) - 1 = t
      BY <3>0, <3>1, <1>1, <2>2
    <3>3. heads[t - i + 1] = <<>>
      BY <3>2 DEF FinishSet
    <3>4. Fails(heads[t - i + 1]) <=> Fails(in[t])
      BY <1>1, <3>2
    <3> QED
      BY <3>3, <3>4, FailsEmpty
  <2> QED
    BY <1>1, <2>1, <2>2 DEF TypeOK
<1>5. (RoundsInv /\ MergingInv /\ ResultInv)'
  BY DEF IInv, FinishSet, RoundsInv, MergingInv, ResultInv, HasErr
<1> QED
  BY <1>3, <1>4, <1>5 DEF IInv


(* The loser tree's winner is a sequence that still has a head. *)
LEMMA WinnersLive == Winners \subseteq Live
BY DEF Winners

LEMMA MergeStepIInv == IInv /\ MergeStep => IInv'
<1> SUFFICES ASSUME IInv, MergeStep PROVE IInv'
  OBVIOUS
<1>1. /\ TypeOK /\ MergeSizeOK /\ i <= Len(in)
      /\ Len(heads) = SetEnd(i) - i + 1
      /\ \A j \in 1..Len(heads) : Fails(heads[j]) <=> Fails(in[i + j - 1])
  BY DEF IInv, MergeStep, MergingInv
<1>2. PICK j \in Winners :
        IF heads[j][1] = Err
        THEN /\ result' = "error"
             /\ UNCHANGED <<heads, acc, merging>>
        ELSE /\ acc' = Append(acc, heads[j][1])
             /\ heads' = [heads EXCEPT ![j] = Tail(@)]
             /\ UNCHANGED <<merging, result>>
  BY DEF MergeStep
<1>3. j \in 1..Len(heads) /\ heads[j] # <<>> /\ heads[j] \in Seq(Entries)
  BY <1>1, WinnersLive DEF Live, TypeOK
<1>4. SetEnd(i) \in i..Len(in)
  BY <1>1, SetEndBounds
<1>5. i + j - 1 \in 1..Len(in)
  BY <1>1, <1>3, <1>4 DEF TypeOK
<1>6. UNCHANGED <<tables, k, in, out, i, first>>
  BY DEF MergeStep
<1>7. CASE heads[j][1] = Err
  <2>1. Fails(in[i + j - 1])
    <3>1. Fails(heads[j])
      BY <1>3, <1>7 DEF Fails, ToSet
    <3> QED
      BY <1>1, <1>3, <3>1
  <2>2. first = TRUE
    <3>1. SUFFICES ASSUME first = FALSE PROVE FALSE
      BY <1>1 DEF TypeOK
    <3>2. in[i + j - 1] \in Seq(Rows)
      BY <1>5, <3>1 DEF IInv, RoundsInv
    <3>3. ~Fails(in[i + j - 1])
      BY <3>2, MergeAssumption DEF Fails, ToSet
    <3> QED
      BY <2>1, <3>3
  <2>3. HasErr
    BY <1>5, <2>1, <2>2 DEF IInv, RoundsInv, HasErr
  <2>4. UNCHANGED <<heads, acc, merging>> /\ result' = "error"
    BY <1>2, <1>7
  <2>5. TypeOK'
    BY <1>1, <1>6, <2>4 DEF TypeOK
  <2>6. (RoundsInv /\ DoneInv)'
    BY <1>6 DEF IInv, RoundsInv, DoneInv, HasErr
  <2>7. MergingInv'
    BY <1>6, <2>4 DEF IInv, MergingInv, MergeSizeOK, SetEnd
  <2>8. ResultInv'
    BY <1>6, <2>3, <2>4 DEF ResultInv, HasErr
  <2> QED
    BY <2>5, <2>6, <2>7, <2>8 DEF IInv
<1>8. CASE heads[j][1] # Err
  <2>1. /\ acc' = Append(acc, heads[j][1])
        /\ heads' = [heads EXCEPT ![j] = Tail(heads[j])]
        /\ UNCHANGED <<merging, result>>
    BY <1>2, <1>8
  <2>2. heads[j][1] \in Rows
    BY <1>3, <1>8 DEF Entries
  <2>3. Fails(Tail(heads[j])) <=> Fails(heads[j])
    BY <1>3, <1>8, FailsTail
  <2>4. TypeOK'
    <3>1. acc' \in Seq(Rows)
      BY <1>1, <2>1, <2>2 DEF TypeOK
    <3>2. heads' \in Seq(Seq(Entries))
      BY <1>1, <1>3, <2>1 DEF TypeOK
    <3> QED
      BY <1>1, <1>6, <2>1, <3>1, <3>2 DEF TypeOK
  <2>5. MergingInv'
    <3>1. Len(heads') = Len(heads)
      BY <1>1, <2>1 DEF TypeOK
    <3>2. \A l \in 1..Len(heads) : Fails(heads'[l]) <=> Fails(in[i + l - 1])
      BY <1>1, <1>3, <2>1, <2>3
    <3> QED
      BY <1>1, <1>6, <2>1, <3>1, <3>2 DEF MergingInv, MergeSizeOK, SetEnd
  <2>6. (RoundsInv /\ DoneInv /\ ResultInv)'
    BY <1>6, <2>1 DEF IInv, RoundsInv, DoneInv, ResultInv, HasErr
  <2> QED
    BY <2>4, <2>5, <2>6 DEF IInv
<1> QED
  BY <1>7, <1>8

LEMMA EndRoundIInv == IInv /\ EndRound => IInv'
<1> SUFFICES ASSUME IInv, EndRound PROVE IInv'
  OBVIOUS
<1>1. TypeOK /\ i > Len(in) /\ merging = FALSE
  BY DEF IInv, EndRound
<1>2. ~HasErr
  <2>1. CASE first = TRUE
    <3>1. \A t \in 1..Len(tables) : ~Fails(tables[t])
      BY <1>1, <2>1 DEF IInv, RoundsInv, DoneInv, TypeOK
    <3> QED
      BY <3>1 DEF HasErr
  <2>2. CASE first = FALSE
    BY <2>2 DEF IInv, RoundsInv
  <2> QED
    BY <1>1, <2>1, <2>2 DEF TypeOK
<1>3. TypeOK'
  <2>1. in' \in Seq(Seq(Entries)) /\ out' \in Seq(Seq(Rows)) /\ i' \in Nat \ {0}
    BY <1>1 DEF EndRound, TypeOK, Entries
  <2>2. first' \in BOOLEAN
    BY Zenon DEF EndRound
  <2> QED
    BY <1>1, <2>1, <2>2 DEF EndRound, TypeOK
<1>4. RoundsInv'
  <2>1. first' = FALSE /\ in' \in Seq(Seq(Rows)) /\ tables' = tables
    BY <1>1 DEF EndRound, TypeOK
  <2> QED
    BY <1>2, <2>1 DEF RoundsInv, HasErr
<1>5. (DoneInv /\ MergingInv /\ ResultInv)'
  BY <1>1 DEF IInv, EndRound, DoneInv, MergingInv, ResultInv, HasErr
<1> QED
  BY <1>3, <1>4, <1>5 DEF IInv

LEMMA ReturnIInv == IInv /\ Return => IInv'
<1> SUFFICES ASSUME IInv, Return PROVE IInv'
  OBVIOUS
<1>1. TypeOK /\ ~RoundPending /\ Len(in) = 1
  BY DEF IInv, Return
<1>2. first = FALSE
  BY Zenon, <1>1 DEF RoundPending, TypeOK
<1>3. ~HasErr
  BY <1>2 DEF IInv, RoundsInv
<1>4. TypeOK'
  BY <1>1 DEF Return, TypeOK
<1>5. (RoundsInv /\ DoneInv /\ MergingInv)'
  BY DEF IInv, Return, RoundsInv, DoneInv, MergingInv, HasErr, MergeSizeOK, SetEnd
<1>6. ResultInv'
  BY <1>3 DEF Return, ResultInv, HasErr
<1> QED
  BY <1>4, <1>5, <1>6 DEF IInv

-----------------------------------------------------------------------------
(* Sortedness: the steps that keep SortInv, given IInv. *)

LEMMA InitSortInv == Init => SortInv
<1> SUFFICES ASSUME Init PROVE SortInv
  OBVIOUS
<1>1. in = tables /\ tables \in Inputs /\ out = <<>> /\ merging = FALSE
  BY Zenon DEF Init
<1>2. \A t \in 1..Len(in) : SortedRows(in[t])
  BY <1>1, MergeAssumption
<1> QED
  BY <1>1, <1>2 DEF SortInv

(* The steps that leave in, out and the merge in progress alone. *)
LEMMA FrameSortInv ==
    ASSUME SortInv, UNCHANGED <<in, out, merging, heads, acc>>
    PROVE  SortInv'
BY DEF SortInv

LEMMA StartSetSortInv == IInv /\ SortInv /\ StartSet => SortInv'
<1> SUFFICES ASSUME IInv, SortInv, StartSet PROVE SortInv'
  OBVIOUS
<1>1. TypeOK /\ MergeSizeOK /\ i <= Len(in)
  BY DEF IInv, StartSet
<1>2. SetEnd(i) \in i..Len(in)
  BY <1>1, SetEndBounds
<1>3. /\ Len(heads') = SetEnd(i) - i + 1
      /\ \A j \in 1..Len(heads') : heads'[j] = in[i + j - 1]
  <2>1. \A t \in i..SetEnd(i) : in[t] \in Seq(Entries)
    BY <1>1, <1>2 DEF TypeOK
  <2>2. i \in Int /\ SetEnd(i) \in Int
    BY <1>1, <1>2 DEF TypeOK
  <2> QED
    BY <1>2, <2>1, <2>2, SubSeqProperties DEF StartSet
<1>4. \A j \in 1..Len(heads') : SortedRows(heads'[j])
  <2> SUFFICES ASSUME NEW j \in 1..Len(heads') PROVE SortedRows(heads'[j])
    OBVIOUS
  <2>1. i + j - 1 \in 1..Len(in)
    BY <1>1, <1>2, <1>3 DEF TypeOK
  <2> QED
    BY <1>3, <2>1 DEF SortInv
<1>5. acc' = <<>> /\ UNCHANGED <<in, out>>
  BY DEF StartSet
<1>6. SortedRows(acc')
  BY <1>5 DEF SortedRows
<1> QED
  BY <1>4, <1>5, <1>6 DEF SortInv

LEMMA FinishSetSortInv == IInv /\ SortInv /\ FinishSet => SortInv'
<1> SUFFICES ASSUME IInv, SortInv, FinishSet PROVE SortInv'
  OBVIOUS
<1>1. out' = Append(out, acc) /\ merging' = FALSE /\ UNCHANGED in
  BY DEF FinishSet
<1>2. out \in Seq(Seq(Rows)) /\ acc \in Seq(Rows) /\ SortedRows(acc)
  BY DEF IInv, TypeOK, FinishSet, SortInv
<1>3. \A t \in 1..Len(out') : SortedRows(out'[t])
  <2> SUFFICES ASSUME NEW t \in 1..Len(out') PROVE SortedRows(out'[t])
    OBVIOUS
  <2>1. CASE t <= Len(out)
    BY <1>1, <1>2, <2>1 DEF SortInv
  <2>2. CASE t = Len(out) + 1
    BY <1>1, <1>2, <2>2
  <2> QED
    BY <1>1, <1>2, <2>1, <2>2
<1> QED
  BY <1>1, <1>3 DEF SortInv

LEMMA EndRoundSortInv == IInv /\ SortInv /\ EndRound => SortInv'
<1> SUFFICES ASSUME IInv, SortInv, EndRound PROVE SortInv'
  OBVIOUS
<1>1. in' = out /\ out' = <<>> /\ merging' = merging /\ merging = FALSE
  BY DEF EndRound
<1> QED
  BY <1>1 DEF SortInv

(* The row the loser tree hands out comes before every row still in a    *)
(* sequence: it is a least head, and each sequence is sorted.             *)
LEMMA WinnerLeast ==
    ASSUME IInv, SortInv, merging = TRUE,
           NEW j \in Winners, heads[j][1] # Err
    PROVE  \A l \in 1..Len(heads) : \A b \in 1..Len(heads[l]) :
              heads[l][b] # Err => CompareRows(heads[j][1], heads[l][b]) <= 0
<1> DEFINE h == heads[j][1]
<1>1. TypeOK /\ j \in Live
  BY WinnersLive DEF IInv
<1>2. \A l \in Live : heads[l][1] # Err
  BY DEF Winners
<1>3. \A l \in Live \ {j} : ~RowResultLess(heads[l][1], h)
  BY <1>2 DEF Winners
<1>4. \A l \in Live : heads[l] \in Seq(Entries) /\ heads[l] # <<>>
  BY <1>1 DEF Live, TypeOK
<1>5. \A l \in Live : heads[l][1] \in Rows
  BY <1>2, <1>4 DEF Entries
<1>6. \A l \in Live \ {j} : CompareRows(h, heads[l][1]) <= 0
  <2> SUFFICES ASSUME NEW l \in Live \ {j} PROVE CompareRows(h, heads[l][1]) <= 0
    OBVIOUS
  <2>1. ~(CompareRows(heads[l][1], h) < 0)
    BY <1>2, <1>3, <1>1 DEF RowResultLess
  <2> QED
    BY <1>1, <1>5, <2>1, CompareRowsOrder
<1> SUFFICES ASSUME NEW l \in 1..Len(heads), NEW b \in 1..Len(heads[l]),
                    heads[l][b] # Err
             PROVE  CompareRows(h, heads[l][b]) <= 0
  OBVIOUS
<1>7. l \in Live /\ heads[l][b] \in Rows
  BY <1>1 DEF Live, TypeOK, Entries
<1>8. b = 1 \/ CompareRows(heads[l][1], heads[l][b]) <= 0
  <2>1. SortedRows(heads[l])
    BY DEF SortInv
  <2> QED
    BY <1>2, <1>7, <2>1 DEF SortedRows
<1>9. CASE l = j
  BY <1>5, <1>1, <1>7, <1>8, <1>9, CompareRowsOrder
<1>10. CASE l # j
  <2>1. CompareRows(h, heads[l][1]) <= 0
    BY <1>6, <1>7, <1>10
  <2> QED
    BY <1>1, <1>5, <1>7, <1>8, <2>1, CompareRowsOrder
<1> QED
  BY <1>9, <1>10

LEMMA MergeStepSortInv == IInv /\ SortInv /\ MergeStep => SortInv'
<1> SUFFICES ASSUME IInv, SortInv, MergeStep PROVE SortInv'
  OBVIOUS
<1>1. TypeOK /\ merging = TRUE
  BY DEF IInv, MergeStep
<1>2. PICK j \in Winners :
        IF heads[j][1] = Err
        THEN /\ result' = "error"
             /\ UNCHANGED <<heads, acc, merging>>
        ELSE /\ acc' = Append(acc, heads[j][1])
             /\ heads' = [heads EXCEPT ![j] = Tail(@)]
             /\ UNCHANGED <<merging, result>>
  BY DEF MergeStep
<1>3. UNCHANGED <<in, out>>
  BY DEF MergeStep
<1>4. CASE heads[j][1] = Err
  BY <1>2, <1>3, <1>4, FrameSortInv
<1>5. CASE heads[j][1] # Err
  <2> DEFINE h == heads[j][1]
  <2>1. /\ acc' = Append(acc, h)
        /\ heads' = [heads EXCEPT ![j] = Tail(heads[j])]
        /\ merging' = merging
    BY <1>2, <1>5
  <2>2. j \in 1..Len(heads) /\ heads[j] \in Seq(Entries) /\ heads[j] # <<>>
    BY <1>1, WinnersLive DEF Live, TypeOK
  <2>3. h \in Rows /\ acc \in Seq(Rows)
    BY <1>1, <1>5, <2>2 DEF Entries, TypeOK
  <2>4. \A l \in 1..Len(heads) : \A b \in 1..Len(heads[l]) :
           heads[l][b] # Err => CompareRows(h, heads[l][b]) <= 0
    BY <1>1, <1>5, WinnerLeast
  <2>5. \A a \in 1..Len(acc) : CompareRows(acc[a], h) <= 0
    BY <1>1, <1>5, <2>2 DEF SortInv
  <2>6. SortedRows(acc')
    BY <1>1, <2>1, <2>3, <2>5, SortedAppend DEF SortInv
  <2>7. /\ Len(heads') = Len(heads)
        /\ \A l \in 1..Len(heads) : l # j => heads'[l] = heads[l]
        /\ heads'[j] = Tail(heads[j])
    BY <1>1, <2>1, <2>2 DEF TypeOK
  <2>8. /\ Len(Tail(heads[j])) = Len(heads[j]) - 1
        /\ \A n \in 1..Len(heads[j]) - 1 : Tail(heads[j])[n] = heads[j][n + 1]
    BY <2>2
  <2>9. \A l \in 1..Len(heads') : SortedRows(heads'[l])
    <3> SUFFICES ASSUME NEW l \in 1..Len(heads') PROVE SortedRows(heads'[l])
      OBVIOUS
    <3>1. l \in 1..Len(heads) /\ SortedRows(heads[l])
      BY <1>1, <2>7 DEF SortInv
    <3>2. CASE l = j
      <4>1. SortedRows(Tail(heads[j]))
        BY <2>2, <3>1, <3>2, SortedTail
      <4> QED
        BY <2>7, <3>2, <4>1
    <3>3. CASE l # j
      BY <2>7, <3>1, <3>3
    <3> QED
      BY <3>2, <3>3
  <2>10. \A l \in 1..Len(heads') : \A a \in 1..Len(acc') :
           \A b \in 1..Len(heads'[l]) :
              heads'[l][b] # Err => CompareRows(acc'[a], heads'[l][b]) <= 0
    <3> SUFFICES ASSUME NEW l \in 1..Len(heads'), NEW a \in 1..Len(acc'),
                        NEW b \in 1..Len(heads'[l]), heads'[l][b] # Err
                 PROVE  CompareRows(acc'[a], heads'[l][b]) <= 0
      OBVIOUS
    <3>1. \E bb \in 1..Len(heads[l]) : heads'[l][b] = heads[l][bb]
      <4>1. CASE l = j
        <5>0. heads'[l] = Tail(heads[j])
          BY <2>7, <4>1
        <5>1. b + 1 \in 1..Len(heads[j]) /\ heads'[l][b] = heads[j][b + 1]
          BY <2>2, <2>8, <5>0
        <5> QED
          BY <4>1, <5>1
      <4>2. CASE l # j
        BY <2>7, <4>2
      <4> QED
        BY <4>1, <4>2
    <3>2. PICK bb \in 1..Len(heads[l]) : heads'[l][b] = heads[l][bb]
      BY <3>1
    <3>3. l \in 1..Len(heads)
      BY <2>7
    <3>4. /\ Len(acc') = Len(acc) + 1
          /\ \A n \in 1..Len(acc) : acc'[n] = acc[n]
          /\ acc'[Len(acc) + 1] = h
      BY <2>1, <2>3
    <3>5. CASE a <= Len(acc)
      BY <1>1, <3>2, <3>3, <3>4, <3>5 DEF SortInv
    <3>6. CASE a = Len(acc) + 1
      BY <2>4, <3>2, <3>3, <3>4, <3>6
    <3> QED
      BY <2>3, <3>4, <3>5, <3>6
  <2> QED
    BY <1>1, <1>3, <2>1, <2>6, <2>9, <2>10 DEF SortInv
<1> QED
  BY <1>4, <1>5

LEMMA NextIInv == IInv /\ [Next]_vars => IInv'
<1> SUFFICES ASSUME IInv, [Next]_vars PROVE IInv'
  OBVIOUS
<1>1. CASE UNCHANGED vars
  BY <1>1 DEF vars, IInv, TypeOK, RoundsInv, DoneInv, MergingInv, ResultInv,
               HasErr, MergeSizeOK, SetEnd
<1> QED
  BY <1>1, PanicIInv, StartSetIInv, MergeStepIInv, FinishSetIInv, EndRoundIInv,
     ReturnIInv DEF Next

THEOREM IInvTheorem == Spec => []IInv
BY InitIInv, NextIInv, PTL DEF Spec

LEMMA NextSortInv == IInv /\ SortInv /\ [Next]_vars => SortInv'
<1> SUFFICES ASSUME IInv, SortInv, [Next]_vars PROVE SortInv'
  OBVIOUS
<1>1. CASE PanicOnSmallMergeSize \/ PanicOnNoTables \/ Return \/ UNCHANGED vars
  BY <1>1, FrameSortInv DEF PanicOnSmallMergeSize, PanicOnNoTables, Return, vars
<1> QED
  BY <1>1, StartSetSortInv, MergeStepSortInv, FinishSetSortInv,
     EndRoundSortInv DEF Next

(* A merge that has returned a table holds exactly that one table. *)
OkInv == result = "ok" => Len(in) = 1

LEMMA NextOkInv == IInv /\ OkInv /\ [Next]_vars => OkInv'
<1> SUFFICES ASSUME IInv, OkInv, [Next]_vars PROVE OkInv'
  OBVIOUS
<1>1. CASE Return
  BY <1>1 DEF Return, OkInv
<1>2. CASE UNCHANGED vars
  BY <1>2 DEF vars, OkInv
<1>3. CASE PanicOnSmallMergeSize \/ PanicOnNoTables \/ StartSet \/ MergeStep
           \/ FinishSet \/ EndRound
  BY <1>3 DEF PanicOnSmallMergeSize, PanicOnNoTables, StartSet, MergeStep,
              FinishSet, EndRound, OkInv
<1> QED
  BY <1>1, <1>2, <1>3 DEF Next


(* Errors are returned (table_merge.go 50-76, 121-130): for every list of  *)
(* tables and every maxMergeSize, when mergeTablesIncremental returns, it  *)
(* returns an error exactly when a read of some input table fails; no     *)
(* error is dropped by a later round and none is made up.                 *)
THEOREM ErrorsReturnedTheorem == Spec => []ErrorsReturned
<1>1. IInv => ErrorsReturned
  <2> SUFFICES ASSUME IInv, result \in {"ok", "error"}
               PROVE  result = "error" <=> HasErr
    BY DEF ErrorsReturned, HasErr, Fails
  <2> QED
    BY DEF IInv, ResultInv
<1> QED
  BY <1>1, IInvTheorem, PTL


(* Merged tables are sorted (table_merge.go 50-76, 78-119): for every list *)
(* of sorted tables and every maxMergeSize, when mergeTablesIncremental    *)
(* returns a table, its rows are in compareRows order, whatever ties the   *)
(* loser tree breaks: each round's winner is a least head, no later head   *)
(* is less than a row already written, and a merged table feeds the next   *)
(* round sorted.                                                          *)
THEOREM MergedSortedTheorem == Spec => []MergedSorted
<1>1. Init => IInv /\ SortInv /\ OkInv
  BY InitIInv, InitSortInv DEF Init, OkInv
<1>2. IInv /\ SortInv /\ OkInv /\ [Next]_vars => (IInv /\ SortInv /\ OkInv)'
  BY NextIInv, NextSortInv, NextOkInv
<1>3. IInv /\ SortInv /\ OkInv => MergedSorted
  BY DEF SortInv, OkInv, MergedSorted
<1> QED
  BY <1>1, <1>2, <1>3, PTL DEF Spec

=============================================================================
