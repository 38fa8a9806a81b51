------------------------ MODULE ExpirationCheckerProofs ------------------------
(***************************************************************************)
(* Proofs that the composed expiration checker, driven by the table        *)
(* marker, misses no expired chunk and completes no delete request early, *)
(* for all sets of tables, series and requests and every batch size.      *)
(***************************************************************************)
EXTENDS ExpirationChecker, TLAPS

(* The part of the type invariant the proofs use. *)
FunctionsOK ==
    /\ cover \in [Requests -> SUBSET Chunks]
    /\ reqState \in [Requests -> ReqStates]

(* Committed progress of the deletion checker is backed by marked chunks. *)
DoneMarked == \A p \in delDone : p[2] \in marked

(* Progress recorded in the running pass is backed by the pass's marks;   *)
(* outside a pass nothing is pending, and a pass runs only in a cycle.    *)
PendingInPass ==
    /\ \A p \in delPending : p[2] \in pass.marks
    /\ ~pass.running => delPending = {}
    /\ pass.running => inCycle

(* Every expired chunk of a series the running pass is done with is       *)
(* marked, or will be when the pass's marks are promoted.                 *)
PassCovers ==
    pass.running =>
        \A s \in Series \ pass.todo :
            LET c == <<pass.table, s>> IN
            (RetExpired(c) \/ DelExpired(c)) => c \in marked \cup pass.marks

(* The inductive invariant. *)
IInv ==
    /\ FunctionsOK
    /\ DoneMarked
    /\ PendingInPass
    /\ PassCovers
    /\ NoExpiredChunkMissed
    /\ ProcessedOnlyWhenMarked

-----------------------------------------------------------------------------
(* IInv holds initially. *)
LEMMA InitIInv == Init => IInv
<1> SUFFICES ASSUME Init PROVE IInv
  OBVIOUS
<1>1. FunctionsOK
  BY DEF Init, FunctionsOK, ReqStates
<1>2. DoneMarked /\ PendingInPass /\ PassCovers
  BY DEF Init, DoneMarked, PendingInPass, PassCovers, IdlePass
<1>3. NoExpiredChunkMissed /\ ProcessedOnlyWhenMarked
  BY DEF Init, NoExpiredChunkMissed, ProcessedOnlyWhenMarked
<1>4. QED
  BY <1>1, <1>2, <1>3 DEF IInv

(* A step of a delete request's lifecycle preserves IInv: it neither      *)
(* makes a request processed nor touches the batch or the marker.         *)
LEMMA RequestStepIInv ==
    ASSUME IInv, NEW r \in Requests, Advance(r) \/ Cancel(r)
    PROVE  IInv'
<1>1. /\ reqState' \in [Requests -> ReqStates]
      /\ \A q \in Requests : reqState'[q] = "processed" => reqState[q] = "processed"
  BY DEF Advance, Cancel, IInv, FunctionsOK, ReqStates
<1>2. UNCHANGED <<retExpired, cover, batch, marked, delDone, delPending, pass, finished, inCycle>>
  BY DEF Advance, Cancel
<1>3. QED
  BY <1>1, <1>2 DEF IInv, FunctionsOK, DoneMarked, PendingInPass, PassCovers,
                    NoExpiredChunkMissed, ProcessedOnlyWhenMarked,
                    RetExpired, DelExpired, Matching

(* Starting a cycle changes the batch, but no table is finished yet and   *)
(* no pass runs.                                                          *)
LEMMA StartCycleIInv ==
    ASSUME IInv, StartCycle
    PROVE  IInv'
<1>1. ~pass.running
  BY DEF StartCycle, IInv, PendingInPass
<1>2. finished' = {} /\ UNCHANGED <<retExpired, cover, reqState, marked, delDone, delPending, pass>>
  BY DEF StartCycle
<1>3. QED
  BY <1>1, <1>2 DEF IInv, FunctionsOK, DoneMarked, PendingInPass, PassCovers,
                    NoExpiredChunkMissed, ProcessedOnlyWhenMarked

(* Ending a cycle completes only requests whose chunks were all committed *)
(* as processed, and those are marked.                                    *)
LEMMA EndCycleIInv ==
    ASSUME IInv, EndCycle
    PROVE  IInv'
<1>1. ~pass.running /\ finished' = {} /\ ~inCycle'
      /\ UNCHANGED <<retExpired, cover, marked, delDone, delPending, pass>>
  BY DEF EndCycle
<1>2. reqState' \in [Requests -> ReqStates]
  BY DEF EndCycle, IInv, FunctionsOK, ReqStates
<1>3. ProcessedOnlyWhenMarked'
  <2> SUFFICES ASSUME NEW r \in Requests, reqState'[r] = "processed"
               PROVE  cover[r] \subseteq marked
    BY <1>1 DEF ProcessedOnlyWhenMarked
  <2>1. CASE r \in batch /\ \A c \in cover[r] : <<r, c>> \in delDone
    BY <2>1 DEF IInv, DoneMarked
  <2>2. CASE ~(r \in batch /\ \A c \in cover[r] : <<r, c>> \in delDone)
    BY <2>2 DEF EndCycle, IInv, ProcessedOnlyWhenMarked
  <2>3. QED
    BY <2>1, <2>2
<1>4. QED
  BY <1>1, <1>2, <1>3 DEF IInv, FunctionsOK, DoneMarked, PendingInPass, PassCovers,
                          NoExpiredChunkMissed


(* Starting the pass over a table, or skipping it when neither            *)
(* sub-checker may expire a chunk of it, preserves IInv.                  *)
LEMMA StartPassIInv ==
    ASSUME IInv, NEW t \in Tables, StartPass(t)
    PROVE  IInv'
<1>1. UNCHANGED <<retExpired, cover, reqState, batch, marked, delDone, delPending, inCycle>>
  BY DEF StartPass, MarkPhaseStarted
<1>2. CASE IntervalMayHaveExpiredChunks(t)
  <2>1. pass' = [running |-> TRUE, table |-> t, todo |-> Series, marks |-> {}]
        /\ UNCHANGED finished
    BY <1>2 DEF StartPass
  <2>2. delPending = {} /\ inCycle
    BY DEF StartPass, IInv, PendingInPass
  <2>3. PendingInPass' /\ PassCovers'
    BY <1>1, <2>1, <2>2 DEF PendingInPass, PassCovers
  <2>4. QED
    BY <1>1, <2>1, <2>3 DEF IInv, FunctionsOK, DoneMarked, NoExpiredChunkMissed,
                            ProcessedOnlyWhenMarked, RetExpired, DelExpired, Matching
<1>3. CASE ~IntervalMayHaveExpiredChunks(t)
  <2>1. finished' = finished \cup {t} /\ UNCHANGED pass
    BY <1>3 DEF StartPass
  <2>2. \A x \in Series : ~RetExpired(<<t, x>>) /\ ~DelExpired(<<t, x>>)
    BY <1>3 DEF IntervalMayHaveExpiredChunks, RetMayHave, DelMayHave, RetExpired
  <2>3. NoExpiredChunkMissed'
    BY <1>1, <2>1, <2>2 DEF IInv, NoExpiredChunkMissed, RetExpired, DelExpired, Matching
  <2>4. QED
    BY <1>1, <2>1, <2>3 DEF IInv, FunctionsOK, DoneMarked, PendingInPass, PassCovers,
                            ProcessedOnlyWhenMarked, RetExpired, DelExpired, Matching
<1>4. QED
  BY <1>2, <1>3

(* A series the checker allows to skip holds no expired chunk that is not *)
(* already marked: retention does not expire it, and every request that   *)
(* matches it has committed it, which DoneMarked backs with a marker.     *)
LEMMA CanSkipSafe ==
    ASSUME DoneMarked, NEW c, CanSkipSeries(c)
    PROVE  (RetExpired(c) \/ DelExpired(c)) => c \in marked
BY DEF CanSkipSeries, RetCanSkip, DelCanSkip, RetExpired, DelExpired, DoneMarked

(* Processing a series of the running pass preserves IInv. *)
LEMMA ProcessSeriesIInv ==
    ASSUME IInv, NEW s \in Series, ProcessSeries(s)
    PROVE  IInv'
<1> DEFINE c == <<pass.table, s>>
<1>1. /\ pass.running /\ s \in pass.todo
      /\ UNCHANGED <<retExpired, cover, reqState, batch, marked, finished, inCycle>>
  BY DEF ProcessSeries
<1>2. \A x : /\ RetExpired(x)' = RetExpired(x)
            /\ DelExpired(x)' = DelExpired(x)
  BY <1>1 DEF RetExpired, DelExpired, Matching
<1>3. CASE c \in marked \/ CanSkipSeries(c)
  <2>1. pass' = [pass EXCEPT !.todo = @ \ {s}] /\ UNCHANGED <<delDone, delPending>>
    BY <1>3 DEF ProcessSeries
  <2>2. (RetExpired(c) \/ DelExpired(c)) => c \in marked
    BY <1>3, CanSkipSafe DEF IInv
  <2>3. PassCovers'
    BY <1>1, <2>1, <2>2 DEF IInv, PassCovers, RetExpired, DelExpired, Matching
  <2>4. QED
    BY <1>1, <2>1, <2>3 DEF IInv, FunctionsOK, DoneMarked, PendingInPass,
                            NoExpiredChunkMissed, ProcessedOnlyWhenMarked,
                            RetExpired, DelExpired, Matching
<1>4. CASE ~(c \in marked \/ CanSkipSeries(c)) /\ MarkSeriesAsProcessed(c)
           /\ pass' = [pass EXCEPT !.todo = @ \ {s},
                                   !.marks = IF Expired(c) THEN @ \cup {c} ELSE @]
           /\ UNCHANGED delDone
  <2>1. delPending' = delPending \cup (Matching(c) \X {c})
    BY <1>4 DEF MarkSeriesAsProcessed
  <2>2. Matching(c) # {} => c \in pass'.marks
    BY <1>4 DEF Expired, DelExpired
  <2>3. PendingInPass'
    BY <1>1, <1>4, <2>1, <2>2 DEF IInv, PendingInPass
  <2>4. PassCovers'
    BY <1>1, <1>4, <1>2 DEF IInv, PassCovers, Expired, RetExpired, DelExpired, Matching
  <2>5. QED
    BY <1>1, <1>4, <2>3, <2>4 DEF IInv, FunctionsOK, DoneMarked,
                                  NoExpiredChunkMissed, ProcessedOnlyWhenMarked,
                                  RetExpired, DelExpired, Matching
<1>5. CASE ~(c \in marked \/ CanSkipSeries(c)) /\ MarkPhaseFailed /\ pass' = IdlePass
  <2>1. delPending' = {} /\ UNCHANGED delDone /\ ~pass'.running
    BY <1>5 DEF MarkPhaseFailed, IdlePass
  <2>2. QED
    BY <1>1, <2>1 DEF IInv, FunctionsOK, DoneMarked, PendingInPass, PassCovers,
                      NoExpiredChunkMissed, ProcessedOnlyWhenMarked,
                      RetExpired, DelExpired, Matching
<1>6. QED
  BY <1>3, <1>4, <1>5 DEF ProcessSeries

(* Finishing a pass promotes its marks and commits its progress together. *)
LEMMA FinishPassIInv ==
    ASSUME IInv, FinishPass
    PROVE  IInv'
<1>1. /\ pass.running /\ pass.todo = {}
      /\ marked' = marked \cup pass.marks
      /\ delDone' = delDone \cup delPending /\ delPending' = {}
      /\ finished' = finished \cup {pass.table}
      /\ ~pass'.running
      /\ UNCHANGED <<retExpired, cover, reqState, batch, inCycle>>
  BY DEF FinishPass, MarkPhaseFinished, IdlePass
<1>2. DoneMarked'
  BY <1>1 DEF IInv, DoneMarked, PendingInPass
<1>3. NoExpiredChunkMissed'
  <2> SUFFICES ASSUME NEW t \in finished', NEW x \in Series,
                      RetExpired(<<t, x>>) \/ DelExpired(<<t, x>>)
               PROVE  <<t, x>> \in marked'
    BY <1>1 DEF NoExpiredChunkMissed, RetExpired, DelExpired, Matching
  <2>1. CASE t = pass.table
    BY <1>1, <2>1 DEF IInv, PassCovers
  <2>2. CASE t \in finished
    BY <1>1, <2>2 DEF IInv, NoExpiredChunkMissed
  <2>3. QED
    BY <1>1, <2>1, <2>2
<1>4. QED
  BY <1>1, <1>2, <1>3 DEF IInv, FunctionsOK, PendingInPass, PassCovers,
                          ProcessedOnlyWhenMarked

(* A timed-out pass drops its marks and its pending progress together. *)
LEMMA TimeoutPassIInv ==
    ASSUME IInv, TimeoutPass
    PROVE  IInv'
<1>1. /\ delPending' = {} /\ ~pass'.running
      /\ UNCHANGED <<retExpired, cover, reqState, batch, marked, delDone, finished, inCycle>>
  BY DEF TimeoutPass, MarkPhaseTimedOut, IdlePass
<1>2. QED
  BY <1>1 DEF IInv, FunctionsOK, DoneMarked, PendingInPass, PassCovers,
              NoExpiredChunkMissed, ProcessedOnlyWhenMarked,
              RetExpired, DelExpired, Matching


(* Every step, or stutter, preserves IInv. *)
LEMMA NextIInv == IInv /\ [Next]_vars => IInv'
<1> SUFFICES ASSUME IInv, [Next]_vars PROVE IInv'
  OBVIOUS
<1>1. CASE \E r \in Requests : Advance(r) \/ Cancel(r)
  BY <1>1, RequestStepIInv
<1>2. CASE StartCycle
  BY <1>2, StartCycleIInv
<1>3. CASE EndCycle
  BY <1>3, EndCycleIInv
<1>4. CASE \E t \in Tables : StartPass(t)
  BY <1>4, StartPassIInv
<1>5. CASE \E x \in Series : ProcessSeries(x)
  BY <1>5, ProcessSeriesIInv
<1>6. CASE FinishPass
  BY <1>6, FinishPassIInv
<1>7. CASE TimeoutPass
  BY <1>7, TimeoutPassIInv
<1>8. CASE UNCHANGED vars
  BY <1>8 DEF vars, IInv, FunctionsOK, DoneMarked, PendingInPass, PassCovers,
              NoExpiredChunkMissed, ProcessedOnlyWhenMarked,
              RetExpired, DelExpired, Matching
<1>9. QED
  BY <1>1, <1>2, <1>3, <1>4, <1>5, <1>6, <1>7, <1>8 DEF Next

(* IInv holds in every reachable state. *)
THEOREM IInvTheorem == Spec => []IInv
BY InitIInv, NextIInv, PTL DEF Spec

(* Whatever the tables, series, requests and batch size, once the marker  *)
(* has finished or skipped a table in a cycle, every chunk of it that     *)
(* retention expires or a batch request matches is marked: the OR of      *)
(* IntervalMayHaveExpiredChunks and the AND of CanSkipSeries let no       *)
(* expired chunk through, across failed and timed-out passes.             *)
THEOREM NoExpiredChunkMissedTheorem == Spec => []NoExpiredChunkMissed
<1>1. IInv => NoExpiredChunkMissed
  BY DEF IInv
<1>2. QED
  BY <1>1, IInvTheorem, PTL

(* Whatever the tables, series, requests and batch size, a delete request *)
(* becomes processed only when every chunk it matches is marked: the      *)
(* progress of a failed or timed-out pass, which the phase hooks roll     *)
(* back, never counts.                                                    *)
THEOREM ProcessedOnlyWhenMarkedTheorem == Spec => []ProcessedOnlyWhenMarked
<1>1. IInv => ProcessedOnlyWhenMarked
  BY DEF IInv
<1>2. QED
  BY <1>1, IInvTheorem, PTL

=============================================================================
