------------------------ MODULE StreamsIterMatchProofs ------------------------
(***************************************************************************)
(* Proof that the consumer of Iter receives exactly the reference results *)
(* (StreamsMatchReference), for every data object and every column        *)
(* layout.                                                                 *)
(*                                                                         *)
(* The reference flattens the per-section results SectionResults(obj[k]); *)
(* FlatUpTo builds that flattening one section at a time, so the results  *)
(* of the first k sections are FlatUpTo(..)[k] and the i-th result of      *)
(* section k sits at position Thru(obj, k - 1) + i of the whole.  The      *)
(* inductive invariant MInv ties the loop counters sec and rd of Iter and *)
(* IterSection to how many results have been handed out.                  *)
(***************************************************************************)
EXTENDS StreamsIterProofs

(* What a consumer can receive: a Stream or an error. *)
ResultValues == StreamValues \cup {Err}

(* The results each section of object o should give. *)
SecsOf(o) == [k \in 1..Len(o) |-> SectionResults(o[k])]

(* The results of the sections of o, flattened section by section. *)
FlatOf(o) == FlatUpTo(SecsOf(o))

(* How many results the first k sections of o give. *)
Thru(o, k) == Len(FlatOf(o)[k])

(* No error among the results s. *)
NoErr(s) == \A p \in 1..Len(s) : s[p] # Err

-----------------------------------------------------------------------------
(***************************************************************************)
(* The reference, section by section.                                     *)
(***************************************************************************)

(* A row decodes to a Stream or an error. *)
LEMMA RefDecodeType ==
    ASSUME NEW row \in Rows
    PROVE  RefDecode(row) \in ResultValues
<1>0. Len(Columns) \in 0..Len(Columns)
  BY ColumnsType
<1>1. CASE BadCol(row, Len(Columns))
  BY <1>1, RefDecodeUpTo DEF RefUpTo, ResultValues
<1>2. CASE ~BadCol(row, Len(Columns))
  BY <1>0, <1>2, RefDecodeUpTo, RefUpToType DEF ResultValues
<1> QED
  BY <1>1, <1>2

(* The results of one section: one error when it fails to open or to give *)
(* its metadata, else one result per read.                                *)
LEMMA SectionResultsFacts ==
    ASSUME NEW s \in Sections
    PROVE  /\ SectionResults(s) \in Seq(ResultValues)
           /\ s.kind # "ok" => SectionResults(s) = <<Err>>
           /\ s.kind = "ok" =>
                 /\ Len(SectionResults(s)) = Len(s.reads)
                 /\ \A i \in 1..Len(s.reads) :
                       SectionResults(s)[i] = IF s.reads[i] = ReadErr THEN Err
                                              ELSE RefDecode(s.reads[i])
           /\ s.reads \in Seq(Rows \cup {ReadErr})
<1>1. s.reads \in Seq(Rows \cup {ReadErr})
  BY DEF Sections
<1>2. \A i \in 1..Len(s.reads) :
         (IF s.reads[i] = ReadErr THEN Err ELSE RefDecode(s.reads[i])) \in ResultValues
  <2> SUFFICES ASSUME NEW i \in 1..Len(s.reads)
               PROVE  (IF s.reads[i] = ReadErr THEN Err ELSE RefDecode(s.reads[i]))
                         \in ResultValues
    OBVIOUS
  <2>1. CASE s.reads[i] = ReadErr
    BY <2>1 DEF ResultValues
  <2>2. CASE s.reads[i] # ReadErr
    <3>1. s.reads[i] \in Rows
      BY <1>1, <2>2
    <3> QED
      BY <2>2, <3>1, RefDecodeType
  <2> QED
    BY <2>1, <2>2
<1>3. <<Err>> \in Seq(ResultValues)
  BY DEF ResultValues
<1> QED
  BY <1>1, <1>2, <1>3 DEF SectionResults

(* The per-section results of an object. *)
LEMMA SecsOfType ==
    ASSUME NEW o \in Objects
    PROVE  /\ SecsOf(o) \in Seq(Seq(ResultValues))
           /\ Len(SecsOf(o)) = Len(o)
           /\ \A k \in 1..Len(o) : o[k] \in Sections /\ SecsOf(o)[k] = SectionResults(o[k])
<1>1. o \in Seq(Sections)
  BY StreamsAssumption
<1>2. \A k \in 1..Len(o) : SectionResults(o[k]) \in Seq(ResultValues)
  BY <1>1, SectionResultsFacts
<1> QED
  BY <1>1, <1>2 DEF SecsOf

(* Positions after a prefix of length a, and ranges that grow. *)
LEMMA NatFacts ==
    /\ \A a, b \in Nat : \A i \in 1..b :
          /\ a + i \in 1..a + b
          /\ ~(a + i <= a)
          /\ (a + i) - a = i
    /\ \A p, m, n \in Nat : p \in 1..m /\ m <= n => p \in 1..n
    /\ \A m \in Nat : \A p \in 1..m : p \in Nat
OBVIOUS

(* FlatUpTo is a chain of concatenations. *)
LEMMA FlatUpToChain ==
    ASSUME NEW S, NEW x \in Seq(Seq(S))
    PROVE  FlatUpTo(x)[0] = <<>> /\ ConcatChain(FlatUpTo(x), x, S)
BY FlatUpToType, FlatUpToStep DEF ConcatChain

(* In a chain of concatenations, link k is link k - 1 followed by x[k]. *)
LEMMA ChainLength ==
    ASSUME NEW S, NEW x \in Seq(Seq(S)), NEW G, ConcatChain(G, x, S),
           NEW k \in 1..Len(x)
    PROVE  /\ Len(G[k - 1]) \in Nat
           /\ Len(G[k]) = Len(G[k - 1]) + Len(x[k])
<1>0. k - 1 \in 0..Len(x) /\ k \in 0..Len(x)
  OBVIOUS
<1>1. G[k] = G[k - 1] \o x[k]
  BY DEF ConcatChain
<1>2. G[k - 1] \in Seq(S) /\ x[k] \in Seq(S)
  BY <1>0 DEF ConcatChain
<1>3. Len(G[k - 1] \o x[k]) = Len(G[k - 1]) + Len(x[k])
  BY <1>2
<1>4. Len(G[k - 1]) \in Nat
  BY <1>2
<1> QED
  BY Zenon, <1>1, <1>3, <1>4

(* ... and x[k][i] is at position Len(G[k - 1]) + i of the last link.     *)
LEMMA ChainPosition ==
    ASSUME NEW S, NEW x \in Seq(Seq(S)), NEW G, ConcatChain(G, x, S),
           NEW k \in 1..Len(x), NEW i \in 1..Len(x[k])
    PROVE  /\ Len(G[k - 1]) + i \in 1..Len(G[Len(x)])
           /\ G[Len(x)][Len(G[k - 1]) + i] = x[k][i]
<1>0. Len(x) \in Nat /\ k - 1 \in 0..Len(x) /\ k \in 0..Len(x) /\ Len(x) \in k..Len(x)
  OBVIOUS
<1>1. G[k] = G[k - 1] \o x[k]
  BY DEF ConcatChain
<1>2. G[k - 1] \in Seq(S) /\ x[k] \in Seq(S) /\ G[k] \in Seq(S)
  BY <1>0 DEF ConcatChain
<1>3. \A a, b \in Seq(S) :
         /\ Len(a \o b) = Len(a) + Len(b)
         /\ \A j \in 1..Len(a) + Len(b) :
               (a \o b)[j] = IF j <= Len(a) THEN a[j] ELSE b[j - Len(a)]
  BY ConcatProperties
<1>4. \A j \in 1..Len(G[k - 1]) + Len(x[k]) :
         (G[k - 1] \o x[k])[j] = IF j <= Len(G[k - 1]) THEN G[k - 1][j]
                                 ELSE x[k][j - Len(G[k - 1])]
  BY Zenon, <1>2, <1>3
<1>5. Len(G[k - 1]) \in Nat /\ Len(x[k]) \in Nat /\ Len(G[k]) \in Nat
      /\ Len(G[Len(x)]) \in Nat
  BY <1>0, <1>2 DEF ConcatChain
<1>6. Len(G[k]) = Len(G[k - 1]) + Len(x[k])
  BY ChainLength
<1>7. /\ Len(G[k - 1]) + i \in 1..Len(G[k - 1]) + Len(x[k])
      /\ ~(Len(G[k - 1]) + i <= Len(G[k - 1]))
      /\ (Len(G[k - 1]) + i) - Len(G[k - 1]) = i
  BY Zenon, <1>5, NatFacts
<1>8. G[k][Len(G[k - 1]) + i] = x[k][i]
  <2>1. (G[k - 1] \o x[k])[Len(G[k - 1]) + i] = x[k][i]
    BY Zenon, <1>4, <1>7
  <2> QED
    BY Zenon, <1>1, <2>1
<1>9. \A j \in 0..Len(x) : \A m \in j..Len(x) : PrefixAt(G, j, m)
  BY ConcatChainPrefix
<1>10. /\ Len(G[k]) <= Len(G[Len(x)])
       /\ \A p \in 1..Len(G[k]) : G[Len(x)][p] = G[k][p]
  BY Zenon, <1>0, <1>9 DEF PrefixAt
<1>11. Len(G[k - 1]) + i \in 1..Len(G[k])
  BY Zenon, <1>6, <1>7
<1>12. Len(G[k - 1]) + i \in 1..Len(G[Len(x)])
  BY Zenon, <1>5, <1>10, <1>11, NatFacts
<1> QED
  BY Zenon, <1>8, <1>10, <1>11, <1>12

(* The same for FlatUpTo. *)
LEMMA FlatLength ==
    ASSUME NEW S, NEW x \in Seq(Seq(S)), NEW k \in 1..Len(x)
    PROVE  /\ Len(FlatUpTo(x)[k - 1]) \in Nat
           /\ Len(FlatUpTo(x)[k]) = Len(FlatUpTo(x)[k - 1]) + Len(x[k])
BY FlatUpToChain, ChainLength

LEMMA FlatPosition ==
    ASSUME NEW S, NEW x \in Seq(Seq(S)), NEW k \in 1..Len(x), NEW i \in 1..Len(x[k])
    PROVE  /\ Len(FlatUpTo(x)[k - 1]) + i \in 1..Len(FlatUpTo(x)[Len(x)])
           /\ FlatUpTo(x)[Len(x)][Len(FlatUpTo(x)[k - 1]) + i] = x[k][i]
BY FlatUpToChain, ChainPosition

(* The results of all the sections of an object, flattened. *)
LEMMA ObjResults ==
    ASSUME NEW o \in Objects
    PROVE  /\ FlattenSeq(SecsOf(o)) = FlatOf(o)[Len(o)]
           /\ FlatOf(o)[Len(o)] \in Seq(ResultValues)
           /\ Thru(o, 0) = 0
           /\ Thru(o, Len(o)) = Len(FlatOf(o)[Len(o)])
<1>1. SecsOf(o) \in Seq(Seq(ResultValues)) /\ Len(SecsOf(o)) = Len(o)
  BY SecsOfType
<1>2. FlatOf(o)[0] = <<>>
  BY <1>1, FlatUpToChain DEF FlatOf
<1>3. FlattenSeq(SecsOf(o)) = FlatOf(o)[Len(o)]
  BY <1>1, FlattenIsFlatUpTo DEF FlatOf
<1>4. FlatOf(o)[Len(o)] \in Seq(ResultValues)
  <2>1. Len(o) \in 0..Len(SecsOf(o))
    BY <1>1
  <2> QED
    BY <1>1, <2>1, FlatUpToType DEF FlatOf
<1> QED
  BY <1>2, <1>3, <1>4 DEF Thru

(* The results of the first k sections are those of the first k - 1 and *)
(* then those of section k...                                             *)
LEMMA ObjLength ==
    ASSUME NEW o \in Objects, NEW k \in 1..Len(o)
    PROVE  /\ Thru(o, k - 1) \in Nat
           /\ Thru(o, k) = Thru(o, k - 1) + Len(SectionResults(o[k]))
<1>1. /\ SecsOf(o) \in Seq(Seq(ResultValues)) /\ Len(SecsOf(o)) = Len(o)
      /\ SecsOf(o)[k] = SectionResults(o[k])
  BY SecsOfType
<1>2. k \in 1..Len(SecsOf(o))
  BY <1>1
<1>3. /\ Len(FlatUpTo(SecsOf(o))[k - 1]) \in Nat
      /\ Len(FlatUpTo(SecsOf(o))[k]) = Len(FlatUpTo(SecsOf(o))[k - 1]) + Len(SecsOf(o)[k])
  BY <1>1, <1>2, FlatLength
<1> QED
  BY Zenon, <1>1, <1>3 DEF Thru, FlatOf

(* ... so the i-th result of section k is at position Thru(o, k - 1) + i. *)
LEMMA ObjPosition ==
    ASSUME NEW o \in Objects, NEW k \in 1..Len(o), NEW i \in 1..Len(SectionResults(o[k]))
    PROVE  /\ Thru(o, k - 1) + i \in 1..Len(FlatOf(o)[Len(o)])
           /\ FlatOf(o)[Len(o)][Thru(o, k - 1) + i] = SectionResults(o[k])[i]
<1>1. /\ SecsOf(o) \in Seq(Seq(ResultValues)) /\ Len(SecsOf(o)) = Len(o)
      /\ SecsOf(o)[k] = SectionResults(o[k])
  BY SecsOfType
<1>2. k \in 1..Len(SecsOf(o)) /\ i \in 1..Len(SecsOf(o)[k])
  BY <1>1
<1>3. /\ Len(FlatUpTo(SecsOf(o))[k - 1]) + i \in 1..Len(FlatUpTo(SecsOf(o))[Len(SecsOf(o))])
      /\ FlatUpTo(SecsOf(o))[Len(SecsOf(o))][Len(FlatUpTo(SecsOf(o))[k - 1]) + i]
            = SecsOf(o)[k][i]
  BY <1>1, <1>2, FlatPosition
<1> QED
  BY Zenon, <1>1, <1>3 DEF Thru, FlatOf

-----------------------------------------------------------------------------
(***************************************************************************)
(* The inductive invariant of the iteration.                              *)
(***************************************************************************)

(* What the consumer should receive: AllResults, section by section. *)
Results == FlatOf(obj)[Len(obj)]

MTypeOK ==
    /\ obj \in Objects
    /\ sec \in 1..Len(obj) + 1
    /\ rd \in Nat \ {0}
    /\ out \in Seq(ResultValues)

(* What was handed out is a prefix of the results. *)
OutPrefix ==
    /\ Len(out) <= Len(Results)
    /\ \A p \in 1..Len(out) : out[p] = Results[p]

(* An error can only be the last result handed out, and only once the   *)
(* loops have ended.                                                      *)
ErrOnlyLast == \A p \in 1..Len(out) - 1 : out[p] # Err
Running == pc # "done" => NoErr(out)

(* The loop counters: before opening section sec, and before its read rd, *)
(* the consumer has the results of the sections before it and of the    *)
(* reads before rd.  While Iter's body runs on read rd, the stream it    *)
(* holds is the next result; once it ran, the consumer has that result.  *)
AtSection ==
    /\ pc = "open" => Len(out) = Thru(obj, sec - 1)
    /\ pc = "meta" => /\ sec <= Len(obj)
                      /\ obj[sec].kind # "openErr"
                      /\ Len(out) = Thru(obj, sec - 1)
    /\ pc = "read" => /\ sec <= Len(obj)
                      /\ obj[sec].kind = "ok"
                      /\ rd <= Len(obj[sec].reads) + 1
                      /\ Len(out) = Thru(obj, sec - 1) + rd - 1
    /\ pc = "body" => /\ sec <= Len(obj)
                      /\ obj[sec].kind = "ok"
                      /\ rd <= Len(obj[sec].reads)
                      /\ Len(out) = Thru(obj, sec - 1) + rd - 1
                      /\ Len(out) < Len(Results)
                      /\ stream = Results[Len(out) + 1]
                      /\ stream # Err
    /\ pc = "resume" => /\ sec <= Len(obj)
                        /\ obj[sec].kind = "ok"
                        /\ rd <= Len(obj[sec].reads)
                        /\ Len(out) = Thru(obj, sec - 1) + rd

(* Ending without an error and without a stop means every result went out. *)
Finished == (pc = "done" /\ ~stopped /\ NoErr(out)) => Len(out) = Len(Results)

MInv == IInv /\ MTypeOK /\ OutPrefix /\ ErrOnlyLast /\ Running /\ AtSection /\ Finished

(* Objects are sequences of sections. *)
LEMMA ObjectsType ==
    ASSUME NEW o \in Objects
    PROVE  o \in Seq(Sections) /\ Len(o) \in Nat
BY StreamsAssumption

LEMMA InitMInv == Init => MInv
<1> SUFFICES ASSUME Init PROVE MInv
  OBVIOUS
<1>1. obj \in Objects /\ sec = 1 /\ rd = 1 /\ pc = "open" /\ out = <<>>
  BY DEF Init
<1>2. Len(obj) \in Nat
  BY <1>1, ObjectsType
<1>3. Results \in Seq(ResultValues) /\ Thru(obj, 0) = 0
  BY <1>1, ObjResults DEF Results
<1>4. IInv
  BY InitIInv
<1> QED
  BY <1>1, <1>2, <1>3, <1>4
  DEF MInv, MTypeOK, OutPrefix, ErrOnlyLast, Running, AtSection, Finished, NoErr

(* Appending the next result keeps a prefix a prefix. *)
LEMMA AppendPrefix ==
    ASSUME NEW S, NEW s \in Seq(S), NEW t \in Seq(S), NEW v \in S,
           Len(s) < Len(t), \A p \in 1..Len(s) : s[p] = t[p], t[Len(s) + 1] = v
    PROVE  /\ Len(Append(s, v)) <= Len(t)
           /\ \A p \in 1..Len(Append(s, v)) : Append(s, v)[p] = t[p]
OBVIOUS

(* An error result handed out where the reference has one. *)
LEMMA FailMInv ==
    ASSUME MInv, Fail, pc # "done",
           Len(out) < Len(Results), Results[Len(out) + 1] = Err
    PROVE  MInv'
<1>1. /\ obj \in Objects /\ out \in Seq(ResultValues) /\ NoErr(out)
      /\ \A p \in 1..Len(out) : out[p] = Results[p]
  BY DEF MInv, MTypeOK, Running, OutPrefix
<1>2. /\ out' = Append(out, Err) /\ pc' = "done"
      /\ UNCHANGED <<obj, sec, rd, stream, stopped, broke>>
  BY DEF Fail, Deliver
<1>3. Results' = Results
  BY <1>2 DEF Results
<1>4. Results \in Seq(ResultValues) /\ Err \in ResultValues
  BY <1>1, ObjResults DEF Results, ResultValues
<1>5. \A s, t \in Seq(ResultValues) : \A v \in ResultValues :
         (Len(s) < Len(t) /\ (\A p \in 1..Len(s) : s[p] = t[p]) /\ t[Len(s) + 1] = v) =>
            /\ Len(Append(s, v)) <= Len(t)
            /\ \A p \in 1..Len(Append(s, v)) : Append(s, v)[p] = t[p]
  BY AppendPrefix
<1>6. OutPrefix'
  <2>1. /\ Len(Append(out, Err)) <= Len(Results)
        /\ \A p \in 1..Len(Append(out, Err)) : Append(out, Err)[p] = Results[p]
    BY <1>1, <1>4, <1>5
  <2> QED
    BY <1>2, <1>3, <2>1 DEF OutPrefix
<1>7. ErrOnlyLast'
  BY <1>1, <1>2 DEF ErrOnlyLast, NoErr
<1>8. IInv'
  BY FailIInv DEF MInv
<1>9. MTypeOK'
  BY <1>1, <1>2, <1>4 DEF MInv, MTypeOK
<1>10. ~NoErr(out')
  BY <1>1, <1>2 DEF NoErr
<1> QED
  BY <1>2, <1>6, <1>7, <1>8, <1>9, <1>10 DEF MInv, Running, AtSection, Finished

(* The facts of a running state that every step below uses. *)
LEMMA RunningFacts ==
    ASSUME MInv, pc \in {"open", "meta", "read", "body"}
    PROVE  /\ obj \in Objects /\ Len(obj) \in Nat
           /\ sec \in 1..Len(obj) + 1
           /\ rd \in Nat \ {0}
           /\ out \in Seq(ResultValues)
           /\ NoErr(out) /\ stopped = FALSE
           /\ Results \in Seq(ResultValues)
<1>1. obj \in Objects /\ sec \in 1..Len(obj) + 1 /\ rd \in Nat \ {0}
      /\ out \in Seq(ResultValues)
  BY DEF MInv, MTypeOK
<1>2. Len(obj) \in Nat /\ Results \in Seq(ResultValues)
  BY <1>1, ObjectsType, ObjResults DEF Results
<1>3. stopped = FALSE
  BY Zenon DEF MInv, IInv, TypeOK, StopInv
<1> QED
  BY <1>1, <1>2, <1>3 DEF MInv, Running

(* The first result of a section that fails is an error. *)
LEMMA FailedSectionResult ==
    ASSUME NEW o \in Objects, NEW k \in 1..Len(o), o[k].kind # "ok"
    PROVE  /\ Thru(o, k - 1) < Len(FlatOf(o)[Len(o)])
           /\ FlatOf(o)[Len(o)][Thru(o, k - 1) + 1] = Err
<1>1. o[k] \in Sections
  BY SecsOfType
<1>2. SectionResults(o[k]) = <<Err>>
  BY <1>1, SectionResultsFacts
<1>3. 1 \in 1..Len(SectionResults(o[k]))
  BY <1>2
<1>4. /\ Thru(o, k - 1) + 1 \in 1..Len(FlatOf(o)[Len(o)])
      /\ FlatOf(o)[Len(o)][Thru(o, k - 1) + 1] = SectionResults(o[k])[1]
  BY <1>3, ObjPosition
<1>5. Thru(o, k - 1) \in Nat
  BY ObjLength
<1> QED
  BY <1>2, <1>4, <1>5

LEMMA OpenSectionMInv == MInv /\ OpenSection => MInv'
<1> SUFFICES ASSUME MInv, OpenSection PROVE MInv'
  OBVIOUS
<1>0. /\ pc = "open"
      /\ obj \in Objects /\ Len(obj) \in Nat /\ sec \in 1..Len(obj) + 1
      /\ NoErr(out) /\ stopped = FALSE /\ Len(out) = Thru(obj, sec - 1)
  BY RunningFacts DEF OpenSection, MInv, AtSection
<1>i. IInv'
  BY OpenSectionIInv DEF MInv
<1>1. CASE sec > Len(obj)
  <2>1. pc' = "done" /\ UNCHANGED <<obj, sec, rd, stream, out, stopped>>
    BY <1>1 DEF OpenSection
  <2>2. sec - 1 = Len(obj)
    BY <1>0, <1>1
  <2>3. Len(out) = Len(Results)
    BY <1>0, <2>2, ObjResults DEF Results
  <2> QED
    BY <1>i, <2>1, <2>3
    DEF MInv, MTypeOK, OutPrefix, ErrOnlyLast, Running, AtSection, Finished, Results
<1>2. CASE sec <= Len(obj) /\ obj[sec].kind = "openErr"
  <2>1. Fail
    BY <1>0, <1>2 DEF OpenSection
  <2>2. /\ Thru(obj, sec - 1) < Len(Results)
        /\ Results[Thru(obj, sec - 1) + 1] = Err
    BY <1>0, <1>2, FailedSectionResult DEF Results
  <2> QED
    BY <1>0, <2>1, <2>2, FailMInv
<1>3. CASE sec <= Len(obj) /\ obj[sec].kind # "openErr"
  <2>1. pc' = "meta" /\ UNCHANGED <<obj, sec, rd, stream, out, stopped>>
    BY <1>0, <1>3 DEF OpenSection
  <2> QED
    BY <1>0, <1>i, <1>3, <2>1
    DEF MInv, MTypeOK, OutPrefix, ErrOnlyLast, Running, AtSection, Finished, Results
<1> QED
  BY <1>0, <1>1, <1>2, <1>3

LEMMA ReadMetadataMInv == MInv /\ ReadMetadata => MInv'
<1> SUFFICES ASSUME MInv, ReadMetadata PROVE MInv'
  OBVIOUS
<1>0. /\ pc = "meta"
      /\ obj \in Objects /\ Len(obj) \in Nat /\ sec \in 1..Len(obj)
      /\ obj[sec].kind # "openErr"
      /\ NoErr(out) /\ stopped = FALSE /\ Len(out) = Thru(obj, sec - 1)
  BY RunningFacts DEF ReadMetadata, MInv, AtSection
<1>s. obj[sec] \in Sections /\ Len(obj[sec].reads) \in Nat
  BY <1>0, SecsOfType, SectionResultsFacts
<1>i. IInv'
  BY ReadMetadataIInv DEF MInv
<1>1. CASE obj[sec].kind = "metaErr"
  <2>1. Fail
    BY <1>0, <1>1 DEF ReadMetadata
  <2>2. /\ Thru(obj, sec - 1) < Len(Results)
        /\ Results[Thru(obj, sec - 1) + 1] = Err
    BY <1>0, <1>1, FailedSectionResult DEF Results
  <2> QED
    BY <1>0, <2>1, <2>2, FailMInv
<1>2. CASE obj[sec].kind # "metaErr"
  <2>1. pc' = "read" /\ rd' = 1 /\ UNCHANGED <<obj, sec, stream, out, stopped>>
    BY <1>0, <1>2 DEF ReadMetadata
  <2>2. obj[sec].kind = "ok"
    BY <1>0, <1>2, <1>s DEF Sections
  <2> QED
    BY <1>0, <1>i, <1>s, <2>1, <2>2
    DEF MInv, MTypeOK, OutPrefix, ErrOnlyLast, Running, AtSection, Finished, Results
<1> QED
  BY <1>1, <1>2

LEMMA ReadRowMInv == MInv /\ ReadRow => MInv'
<1> SUFFICES ASSUME MInv, ReadRow PROVE MInv'
  OBVIOUS
<1> DEFINE reads == obj[sec].reads
           st == DecodeRow(reads[rd], FreshStream(stream))
           L == Thru(obj, sec - 1)
<1>0. /\ pc = "read"
      /\ obj \in Objects /\ Len(obj) \in Nat /\ sec \in 1..Len(obj)
      /\ obj[sec].kind = "ok"
      /\ rd \in 1..Len(reads) + 1
      /\ out \in Seq(ResultValues)
      /\ NoErr(out) /\ stopped = FALSE /\ Len(out) = L + rd - 1
  <2>1. pc = "read"
    BY DEF ReadRow
  <2>2. /\ obj \in Objects /\ Len(obj) \in Nat /\ sec \in 1..Len(obj) + 1
        /\ rd \in Nat \ {0} /\ out \in Seq(ResultValues)
        /\ NoErr(out) /\ stopped = FALSE
    BY <2>1, RunningFacts
  <2>3. /\ sec <= Len(obj) /\ obj[sec].kind = "ok"
        /\ rd <= Len(reads) + 1 /\ Len(out) = L + rd - 1
    BY <2>1 DEF MInv, AtSection
  <2> QED
    BY <2>1, <2>2, <2>3
<1>s. /\ obj[sec] \in Sections
      /\ reads \in Seq(Rows \cup {ReadErr})
      /\ Len(SectionResults(obj[sec])) = Len(reads)
      /\ \A i \in 1..Len(reads) :
            SectionResults(obj[sec])[i] = IF reads[i] = ReadErr THEN Err
                                          ELSE RefDecode(reads[i])
  BY <1>0, SecsOfType, SectionResultsFacts
<1>l. L \in Nat /\ Thru(obj, sec) = L + Len(reads)
  BY <1>0, <1>s, ObjLength
<1>i. IInv'
  BY ReadRowIInv DEF MInv
<1>1. CASE rd > Len(reads)
  <2>1. sec' = sec + 1 /\ pc' = "open" /\ UNCHANGED <<obj, rd, stream, out, stopped>>
    BY <1>0, <1>1 DEF ReadRow
  <2>2. Len(out) = Thru(obj, sec)
    BY <1>0, <1>1, <1>l
  <2> QED
    BY <1>0, <1>i, <2>1, <2>2
    DEF MInv, MTypeOK, OutPrefix, ErrOnlyLast, Running, AtSection, Finished, Results
<1>2. CASE rd <= Len(reads)
  <2>0. rd \in 1..Len(reads) /\ rd \in 1..Len(SectionResults(obj[sec]))
    BY <1>0, <1>2, <1>s
  <2>p. /\ Len(out) < Len(Results)
        /\ Results[Len(out) + 1] = SectionResults(obj[sec])[rd]
    <3>1. /\ L + rd \in 1..Len(FlatOf(obj)[Len(obj)])
          /\ FlatOf(obj)[Len(obj)][L + rd] = SectionResults(obj[sec])[rd]
      BY <1>0, <2>0, ObjPosition
    <3>2. Len(out) + 1 = L + rd
      BY <1>0, <1>l
    <3> QED
      BY <3>1, <3>2 DEF Results
  <2>1. CASE reads[rd] = ReadErr
    <3>1. Fail
      BY <1>0, <1>2, <2>1 DEF ReadRow
    <3>2. Results[Len(out) + 1] = Err
      BY <1>s, <2>0, <2>p, <2>1
    <3> QED
      BY <1>0, <3>1, <3>2, <2>p, FailMInv
  <2>2. CASE reads[rd] # ReadErr
    <3>0. reads[rd] \in Rows
      BY <1>s, <2>0, <2>2
    <3>1. st = RefDecode(reads[rd]) /\ st \in ResultValues
      BY <3>0, DecodeRowMatchesRef, RefDecodeType DEF FreshStream
    <3>2. Results[Len(out) + 1] = st
      BY <1>s, <2>0, <2>p, <2>2, <3>1
    <3>3. CASE st = Err
      <4>1. Fail
        BY <1>0, <1>2, <2>2, <3>3 DEF ReadRow
      <4> QED
        BY <1>0, <2>p, <3>2, <3>3, <4>1, FailMInv
    <3>4. CASE st # Err
      <4>1. /\ stream' = st /\ pc' = "body"
            /\ UNCHANGED <<obj, sec, rd, out, stopped, broke>>
        BY <1>0, <1>2, <2>2, <3>4 DEF ReadRow
      <4>2. Results' = Results /\ Thru(obj', sec' - 1) = L
        BY <4>1 DEF Results
      <4>3. AtSection'
        BY <1>0, <1>2, <2>p, <3>2, <3>4, <4>1, <4>2 DEF AtSection
      <4> QED
        BY <1>0, <1>i, <4>1, <4>2, <4>3
        DEF MInv, MTypeOK, OutPrefix, ErrOnlyLast, Running, Finished
    <3> QED
      BY <3>3, <3>4
  <2> QED
    BY <2>1, <2>2
<1> QED
  BY <1>0, <1>1, <1>2

(* Iter's body hands the decoded stream to the consumer. *)
LEMMA IterBodyMInv == MInv /\ IterBody => MInv'
<1> SUFFICES ASSUME MInv, IterBody PROVE MInv'
  OBVIOUS
<1> DEFINE L == Thru(obj, sec - 1)
<1>0. /\ pc = "body"
      /\ obj \in Objects /\ Len(obj) \in Nat /\ sec \in 1..Len(obj)
      /\ obj[sec].kind = "ok"
      /\ rd \in Nat \ {0} /\ rd <= Len(obj[sec].reads)
      /\ out \in Seq(ResultValues) /\ NoErr(out)
      /\ Results \in Seq(ResultValues)
      /\ Len(out) = L + rd - 1 /\ Len(out) < Len(Results)
      /\ stream = Results[Len(out) + 1] /\ stream # Err
  <2>1. pc = "body"
    BY DEF IterBody
  <2>2. /\ obj \in Objects /\ Len(obj) \in Nat /\ sec \in 1..Len(obj) + 1
        /\ rd \in Nat \ {0} /\ out \in Seq(ResultValues)
        /\ NoErr(out) /\ Results \in Seq(ResultValues)
    BY <2>1, RunningFacts
  <2>3. /\ sec <= Len(obj) /\ obj[sec].kind = "ok"
        /\ rd <= Len(obj[sec].reads) /\ Len(out) = L + rd - 1
        /\ Len(out) < Len(Results)
        /\ stream = Results[Len(out) + 1] /\ stream # Err
    BY <2>1 DEF MInv, AtSection
  <2> QED
    BY <2>1, <2>2, <2>3
<1>1. /\ out' = Append(out, stream) /\ pc' = "resume"
      /\ UNCHANGED <<obj, sec, rd, stream>>
  BY DEF IterBody, Deliver
<1>2. Results' = Results /\ L \in Nat
  BY <1>0, <1>1, ObjLength DEF Results
<1>3. stream \in ResultValues
  BY <1>0
<1>i. IInv'
  BY IterBodyIInv DEF MInv
<1>4. OutPrefix'
  <2>1. \A s, t \in Seq(ResultValues) : \A v \in ResultValues :
           (Len(s) < Len(t) /\ (\A p \in 1..Len(s) : s[p] = t[p])
              /\ t[Len(s) + 1] = v) =>
              /\ Len(Append(s, v)) <= Len(t)
              /\ \A p \in 1..Len(Append(s, v)) : Append(s, v)[p] = t[p]
    BY AppendPrefix
  <2>2. \A p \in 1..Len(out) : out[p] = Results[p]
    BY DEF MInv, OutPrefix
  <2>3. /\ Len(Append(out, stream)) <= Len(Results)
        /\ \A p \in 1..Len(Append(out, stream)) : Append(out, stream)[p] = Results[p]
    BY <1>0, <1>3, <2>1, <2>2
  <2> QED
    BY <1>1, <1>2, <2>3 DEF OutPrefix
<1>5. ErrOnlyLast' /\ NoErr(out') /\ out' \in Seq(ResultValues)
  BY <1>0, <1>1, <1>3 DEF ErrOnlyLast, NoErr
<1>6. Len(out') = L + rd
  <2>1. Len(out') = Len(out) + 1
    BY <1>0, <1>1, <1>3, AppendProperties
  <2> QED
    BY <1>0, <1>2, <2>1
<1>7. AtSection'
  BY <1>0, <1>1, <1>6 DEF AtSection
<1> QED
  BY <1>0, <1>1, <1>i, <1>4, <1>5, <1>7
  DEF MInv, MTypeOK, Running, Finished

(* IterSection returns after a false answer, or goes on to its next read. *)
LEMMA ResumeMInv == MInv /\ Resume => MInv'
<1> SUFFICES ASSUME MInv, Resume PROVE MInv'
  OBVIOUS
<1>0. /\ pc = "resume" /\ rd \in Nat \ {0}
      /\ UNCHANGED <<obj, sec, stream, out, stopped, broke>>
  BY DEF Resume, MInv, MTypeOK
<1>i. IInv'
  BY ResumeIInv DEF MInv
<1>1. broke = stopped
  BY DEF MInv, IInv, StopInv
<1>2. CASE broke = TRUE
  <2>1. pc' = "done" /\ rd' = rd
    BY <1>2 DEF Resume, YieldStops
  <2>2. stopped' = TRUE
    BY Zenon, <1>0, <1>1, <1>2
  <2> QED
    BY <1>0, <1>i, <2>1, <2>2
    DEF MInv, MTypeOK, OutPrefix, ErrOnlyLast, Running, AtSection, Finished, Results
<1>3. CASE broke = FALSE
  <2>1. pc' = "read" /\ rd' = rd + 1
    BY <1>3 DEF Resume, YieldStops
  <2>2. NoErr(out)
    BY <1>0 DEF MInv, Running
  <2> QED
    BY <1>0, <1>i, <2>1, <2>2
    DEF MInv, MTypeOK, OutPrefix, ErrOnlyLast, Running, AtSection, Finished, Results
<1> QED
  BY <1>2, <1>3 DEF MInv, IInv, TypeOK

LEMMA NextMInv == MInv /\ [Next]_vars => MInv'
<1> SUFFICES ASSUME MInv, [Next]_vars PROVE MInv'
  OBVIOUS
<1>1. CASE UNCHANGED vars
  BY <1>1 DEF vars, MInv, IInv, TypeOK, StopInv, MTypeOK, OutPrefix, ErrOnlyLast,
              Running, AtSection, Finished, Results, NoErr
<1>2. CASE OpenSection
  BY <1>2, OpenSectionMInv
<1>3. CASE ReadMetadata
  BY <1>3, ReadMetadataMInv
<1>4. CASE ReadRow
  BY <1>4, ReadRowMInv
<1>5. CASE IterBody
  BY <1>5, IterBodyMInv
<1>6. CASE Resume
  BY <1>6, ResumeMInv
<1> QED
  BY <1>1, <1>2, <1>3, <1>4, <1>5, <1>6 DEF Next

(* The least of a non-empty set of positions. *)
LEMMA MinIn ==
    ASSUME NEW n \in Nat, NEW S \in SUBSET (1..n), S # {}
    PROVE  Min(S) \in S /\ \A y \in S : Min(S) <= y
<1>1. S \subseteq Nat
  OBVIOUS
<1>2. PICK x \in S : \A y \in S : ~(<<y, x>> \in OpToRel(<, Nat))
  BY <1>1, WFMin, NatLessThanWellFounded
<1>3. \A y \in S : x <= y
  <2> SUFFICES ASSUME NEW y \in S, y < x PROVE FALSE
    OBVIOUS
  <2>1. <<y, x>> \in OpToRel(<, Nat)
    BY <1>1 DEF OpToRel
  <2> QED
    BY <1>2, <2>1
<1>4. \A z \in S : (\A y \in S : z <= y) => z = x
  BY <1>3
<1> QED
  BY <1>3, <1>4 DEF Min

(* The first k elements of a sequence. *)
LEMMA HeadSubSeq ==
    ASSUME NEW S, NEW s \in Seq(S), NEW k \in 0..Len(s)
    PROVE  /\ SubSeq(s, 1, k) \in Seq(S)
           /\ Len(SubSeq(s, 1, k)) = k
           /\ \A p \in 1..k : SubSeq(s, 1, k)[p] = s[p]
OBVIOUS

(* The invariant gives StreamsMatchReference. *)
LEMMA MInvMatch == MInv => StreamsMatchReference
<1> SUFFICES ASSUME MInv PROVE StreamsMatchReference
  OBVIOUS
<1> DEFINE A == Results
           n == Len(out)
           errs == {i \in 1..Len(A) : A[i] = Err}
<1>1. /\ obj \in Objects
      /\ out \in Seq(ResultValues)
      /\ n <= Len(A) /\ \A p \in 1..n : out[p] = A[p]
      /\ \A p \in 1..n - 1 : out[p] # Err
      /\ (pc = "done" /\ ~stopped /\ NoErr(out)) => n = Len(A)
  BY DEF MInv, MTypeOK, OutPrefix, ErrOnlyLast, Finished
<1>2. AllResults = A /\ A \in Seq(ResultValues)
  BY <1>1, ObjResults DEF AllResults, SecsOf, Results
<1>3. RefResults = IF errs = {} THEN A ELSE SubSeq(A, 1, Min(errs))
  BY <1>2 DEF RefResults
<1>4. n \in Nat /\ Len(A) \in Nat
  BY <1>1, <1>2
(* The reference R: at least n long, agreeing with out on 1..n, and     *)
(* exactly n long when the loops ended without a stop.                  *)
<1>5. /\ RefResults \in Seq(ResultValues)
      /\ n <= Len(RefResults)
      /\ \A p \in 1..n : RefResults[p] = out[p]
      /\ (pc = "done" /\ ~stopped) => Len(RefResults) = n
  <2>1. CASE errs = {}
    <3>1. RefResults = A
      BY <1>3, <2>1
    <3>2. (pc = "done" /\ ~stopped) => NoErr(out)
      BY <1>1, <2>1 DEF NoErr
    <3> QED
      BY <1>1, <1>2, <3>1, <3>2
  <2>2. CASE errs # {}
    <3> DEFINE m == Min(errs)
    <3>1. m \in errs /\ \A y \in errs : m <= y
      BY <1>4, <2>2, MinIn
    <3>2. m \in 1..Len(A) /\ A[m] = Err
      BY <3>1
    <3>3. RefResults = SubSeq(A, 1, m)
      BY <1>3, <2>2
    <3>4. /\ SubSeq(A, 1, m) \in Seq(ResultValues)
          /\ Len(SubSeq(A, 1, m)) = m
          /\ \A p \in 1..m : SubSeq(A, 1, m)[p] = A[p]
      <4>1. \A s \in Seq(ResultValues) : \A k \in 0..Len(s) :
               /\ SubSeq(s, 1, k) \in Seq(ResultValues)
               /\ Len(SubSeq(s, 1, k)) = k
               /\ \A p \in 1..k : SubSeq(s, 1, k)[p] = s[p]
        BY HeadSubSeq
      <4>2. m \in 0..Len(A)
        BY <1>4, <3>2
      <4> QED
        BY Zenon, <1>2, <4>1, <4>2
    <3>5. n <= m
      <4> SUFFICES ASSUME m < n PROVE FALSE
        BY <1>4, <3>2
      <4>1. m \in 1..n - 1
        BY <1>4, <3>2
      <4> QED
        BY <1>1, <3>2, <4>1
    <3>6. (pc = "done" /\ ~stopped) => n = m
      <4> SUFFICES ASSUME pc = "done", ~stopped PROVE n = m
        OBVIOUS
      <4>1. ~NoErr(out)
        BY <1>1, <1>4, <3>2, <3>5 DEF NoErr
      <4>2. PICK q \in 1..n : out[q] = Err
        BY <4>1 DEF NoErr
      <4>3. q = n
        BY <1>1, <1>4, <4>2
      <4>4. n \in errs
        BY <1>1, <1>4, <4>2, <4>3
      <4> QED
        BY <1>4, <3>1, <3>5, <4>4
    <3>7. \A p \in 1..n : RefResults[p] = out[p]
      <4> SUFFICES ASSUME NEW p \in 1..n PROVE RefResults[p] = out[p]
        OBVIOUS
      <4>1. p \in 1..m
        BY <1>4, <3>2, <3>5
      <4> QED
        BY <1>1, <3>3, <3>4, <4>1
    <3> QED
      BY <1>4, <3>2, <3>3, <3>4, <3>5, <3>6, <3>7
  <2> QED
    BY <2>1, <2>2
<1>6. IsPrefix(out, RefResults)
  <2>1. SubSeq(out, 1, n) = SubSeq(RefResults, 1, n)
    BY <1>1, <1>4, <1>5
  <2> QED
    BY <1>5, <2>1 DEF IsPrefix
<1>7. (pc = "done" /\ ~stopped) => out = RefResults
  BY <1>1, <1>5
<1> QED
  BY <1>6, <1>7 DEF StreamsMatchReference

(* StreamsMatchReference holds in every reachable state: for every data  *)
(* object and column layout, Iter hands its consumer, in order, the       *)
(* decoded stream of every row of every section, each decoded on its own, *)
(* up to and including the first error, and all of them unless the       *)
(* consumer stops early.                                                  *)
THEOREM StreamsMatchReferenceTheorem == Spec => []StreamsMatchReference
<1>1. Init => MInv
  BY InitMInv
<1>2. MInv /\ [Next]_vars => MInv'
  BY NextMInv
<1>3. MInv => StreamsMatchReference
  BY MInvMatch
<1> QED
  BY <1>1, <1>2, <1>3, PTL DEF Spec

=============================================================================
