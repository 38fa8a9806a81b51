--------------------------- MODULE ExpirationChecker ---------------------------
(***************************************************************************)
(* The expiration checker of the compactor (compactor.go 586-642): the     *)
(* composition of the retention checker and the deletion checker (the     *)
(* delete requests manager), as the table marker drives it through the    *)
(* retention passes of the tables, cycle after cycle.                     *)
(*                                                                         *)
(* The composite's methods are translated from the code.  The sub-checkers *)
(* and the marker loop that calls them are not under src/; they are       *)
(* modelled from spec.md 4.2 (step 5), 4.3 and 4.6:                       *)
(*  - retention expires a fixed set of chunks (the time is abstracted to  *)
(*    "expired or not" for the run);                                       *)
(*  - the deletion checker matches the chunks covered by the requests of  *)
(*    the cycle's batch, records per request which chunks were processed  *)
(*    in the running pass, commits that progress on MarkPhaseFinished and *)
(*    rolls it back on MarkPhaseFailed and MarkPhaseTimedOut;              *)
(*  - the marks of a pass are promoted only when the pass finishes.        *)
(* A chunk is a pair <<table, series>>: one chunk per series and table.    *)
(***************************************************************************)
EXTENDS Naturals, FiniteSets

CONSTANTS
    Tables,           \* the index tables
    Series,           \* the series of every table
    Requests,         \* the delete requests
    DeleteBatchSize,  \* Config.DeleteBatchSize
    MaxCycles         \* bound on the retention cycles

Chunks == Tables \X Series

ASSUME CheckerAssumption ==
    /\ DeleteBatchSize \in Nat \ {0}
    /\ MaxCycles \in Nat

VARIABLES
    retExpired,  \* the chunks past their retention
    cover,       \* cover[r]: the chunks delete request r matches
    reqState,    \* reqState[r]: the state of request r (spec 4.6)
    batch,       \* the requests of the running cycle
    cycles,      \* number of cycles started
    marked,      \* chunks in promoted marker files, removed from the index
    delDone,     \* <<r, c>>: the deletion checker committed c as processed for r
    delPending,  \* the same, recorded in the running pass, not yet committed
    pass,        \* the table pass of the marker
    finished,    \* tables whose pass finished, or was skipped, in this cycle
    inCycle      \* a retention cycle is running

vars == <<retExpired, cover, reqState, batch, cycles, marked, delDone,
          delPending, pass, finished, inCycle>>

ReqStates == {"received", "buildingPlan", "processing", "processed", "cancelled"}

IdlePass == [running |-> FALSE, table |-> CHOOSE t \in Tables : TRUE,
             todo |-> {}, marks |-> {}]

TypeOK ==
    /\ retExpired \subseteq Chunks
    /\ cover \in [Requests -> SUBSET Chunks]
    /\ reqState \in [Requests -> ReqStates]
    /\ batch \subseteq Requests
    /\ cycles \in 0..MaxCycles
    /\ marked \subseteq Chunks
    /\ delDone \subseteq Requests \X Chunks
    /\ delPending \subseteq Requests \X Chunks
    /\ pass \in [running: BOOLEAN, table: Tables, todo: SUBSET Series,
                 marks: SUBSET Chunks]
    /\ finished \subseteq Tables
    /\ inCycle \in BOOLEAN

Init ==
    /\ retExpired \in SUBSET Chunks
    /\ cover \in [Requests -> (SUBSET Chunks) \ {{}}]
    /\ reqState = [r \in Requests |-> "received"]
    /\ batch = {}
    /\ cycles = 0
    /\ marked = {}
    /\ delDone = {}
    /\ delPending = {}
    /\ pass = IdlePass
    /\ finished = {}
    /\ inCycle = FALSE

-----------------------------------------------------------------------------
(***************************************************************************)
(* The sub-checkers (spec 4.3).                                            *)
(***************************************************************************)
RetExpired(c) == c \in retExpired
RetMayHave(t) == \E s \in Series : <<t, s>> \in retExpired
RetCanSkip(c) == c \notin retExpired

(* The batch requests that match c. *)
Matching(c) == {r \in batch : c \in cover[r]}
DelExpired(c) == Matching(c) # {}
DelMayHave(t) == \E s \in Series : DelExpired(<<t, s>>)
(* A series is skipped once it was processed for every request matching it. *)
DelCanSkip(c) == \A r \in Matching(c) : <<r, c>> \in delDone

-----------------------------------------------------------------------------
(***************************************************************************)
(* The composite (compactor.go 586-642).                                   *)
(***************************************************************************)

(* Expired: retention first; the deletion checker is asked only when the   *)
(* retention checker did not expire the chunk.                             *)
Expired(c) == IF RetExpired(c) THEN TRUE ELSE DelExpired(c)

(* Mutant: the table is gated on both sub-checkers instead of either. *)
IntervalMayHaveExpiredChunksBoth(t) == RetMayHave(t) /\ DelMayHave(t)

IntervalMayHaveExpiredChunks(t) == RetMayHave(t) \/ DelMayHave(t)

(* Mutant: a series is skipped when either sub-checker permits it. *)
CanSkipSeriesEither(c) == RetCanSkip(c) \/ DelCanSkip(c)

CanSkipSeries(c) == RetCanSkip(c) /\ DelCanSkip(c)

(* MarkSeriesAsProcessed for chunk c when neither sub-checker fails: the  *)
(* deletion checker records c for the requests matching it.  When the     *)
(* retention checker fails the deletion checker is not called, and when   *)
(* the deletion checker fails it records nothing: either way the error is *)
(* returned and nothing is recorded (ProcessSeries).                       *)
MarkSeriesAsProcessed(c) ==
    delPending' = delPending \cup (Matching(c) \X {c})

(* The phase hooks, forwarded to both sub-checkers (retention ignores     *)
(* them); Finished commits the pending progress, the others drop it.      *)
MarkPhaseStarted == UNCHANGED <<delDone, delPending>>

MarkPhaseFinished ==
    /\ delDone' = delDone \cup delPending
    /\ delPending' = {}

MarkPhaseFailed ==
    /\ delPending' = {}
    /\ UNCHANGED delDone

(* Mutant: MarkPhaseTimedOut forwarded to the retention checker only. *)
MarkPhaseTimedOutRetentionOnly == UNCHANGED <<delDone, delPending>>

MarkPhaseTimedOut ==
    /\ delPending' = {}
    /\ UNCHANGED delDone

-----------------------------------------------------------------------------
(***************************************************************************)
(* The delete requests manager (spec 4.6).                                 *)
(***************************************************************************)

(* The cancel period elapses, then the plan is materialised. *)
Advance(r) ==
    /\ \/ reqState[r] = "received" /\ reqState' = [reqState EXCEPT ![r] = "buildingPlan"]
       \/ reqState[r] = "buildingPlan" /\ reqState' = [reqState EXCEPT ![r] = "processing"]
    /\ UNCHANGED <<retExpired, cover, batch, cycles, marked, delDone, delPending, pass, finished, inCycle>>

Cancel(r) ==
    /\ reqState[r] \in {"received", "buildingPlan"}
    /\ reqState' = [reqState EXCEPT ![r] = "cancelled"]
    /\ UNCHANGED <<retExpired, cover, batch, cycles, marked, delDone, delPending, pass, finished, inCycle>>

(* A retention cycle starts: the batch is up to DeleteBatchSize requests  *)
(* in processing.                                                         *)
StartCycle ==
    /\ ~inCycle
    /\ cycles < MaxCycles
    /\ \E B \in SUBSET {r \in Requests : reqState[r] = "processing"} :
          /\ Cardinality(B) <= DeleteBatchSize
          /\ \A r \in Requests : reqState[r] = "processing" /\ r \notin B =>
                Cardinality(B) = DeleteBatchSize
          /\ batch' = B
    /\ cycles' = cycles + 1
    /\ finished' = {}
    /\ inCycle' = TRUE
    /\ UNCHANGED <<retExpired, cover, reqState, marked, delDone, delPending, pass>>

(* The cycle ends; a batch request whose matched chunks were all processed *)
(* becomes processed.  Tables that failed are retried in the next cycle.  *)
EndCycle ==
    /\ inCycle /\ ~pass.running
    /\ reqState' = [r \in Requests |->
                      IF r \in batch /\ \A c \in cover[r] : <<r, c>> \in delDone
                      THEN "processed" ELSE reqState[r]]
    /\ batch' = {}
    /\ finished' = {}
    /\ inCycle' = FALSE
    /\ UNCHANGED <<retExpired, cover, cycles, marked, delDone, delPending, pass>>

-----------------------------------------------------------------------------
(***************************************************************************)
(* The table marker (spec 4.2 step 5).                                     *)
(***************************************************************************)

(* The pass over table t starts, or the table is skipped when no          *)
(* sub-checker may expire anything in it.                                  *)
StartPass(t) ==
    /\ inCycle /\ ~pass.running /\ t \notin finished
    /\ IF IntervalMayHaveExpiredChunks(t)
       THEN /\ pass' = [running |-> TRUE, table |-> t, todo |-> Series, marks |-> {}]
            /\ MarkPhaseStarted
            /\ UNCHANGED finished
       ELSE /\ finished' = finished \cup {t}
            /\ UNCHANGED <<pass, delDone, delPending>>
    /\ UNCHANGED <<retExpired, cover, reqState, batch, cycles, marked, inCycle>>

(* Series s of the table: skipped when it is no longer in the index or    *)
(* the checker allows it; otherwise its chunk is marked when expired and  *)
(* the series is marked as processed.  A failure ends the pass.            *)
ProcessSeries(s) ==
    LET c == <<pass.table, s>> IN
    /\ pass.running /\ s \in pass.todo
    /\ \/ /\ c \in marked \/ CanSkipSeries(c)
          /\ pass' = [pass EXCEPT !.todo = @ \ {s}]
          /\ UNCHANGED <<delDone, delPending>>
       \/ /\ c \notin marked /\ ~CanSkipSeries(c)
          /\ \/ /\ MarkSeriesAsProcessed(c)
                /\ pass' = [pass EXCEPT !.todo = @ \ {s},
                                   !.marks = IF Expired(c) THEN @ \cup {c} ELSE @]
                /\ UNCHANGED delDone
             \/ /\ MarkPhaseFailed
                /\ pass' = IdlePass
    /\ UNCHANGED <<retExpired, cover, reqState, batch, cycles, marked, finished, inCycle>>

(* Every series is done: the markers are promoted, the progress committed. *)
FinishPass ==
    /\ pass.running /\ pass.todo = {}
    /\ marked' = marked \cup pass.marks
    /\ MarkPhaseFinished
    /\ finished' = finished \cup {pass.table}
    /\ pass' = IdlePass
    /\ UNCHANGED <<retExpired, cover, reqState, batch, cycles, inCycle>>

(* RetentionTableTimeout fires: the pass's markers are discarded. *)
TimeoutPass ==
    /\ pass.running
    /\ MarkPhaseTimedOut
    /\ pass' = IdlePass
    /\ UNCHANGED <<retExpired, cover, reqState, batch, cycles, marked, finished, inCycle>>

Next ==
    \/ \E r \in Requests : Advance(r) \/ Cancel(r)
    \/ StartCycle \/ EndCycle
    \/ \E t \in Tables : StartPass(t)
    \/ \E s \in Series : ProcessSeries(s)
    \/ FinishPass \/ TimeoutPass

Spec == Init /\ [][Next]_vars

-----------------------------------------------------------------------------
(* No expired chunk is missed: once the pass over a table has finished, or *)
(* the table was skipped, in this cycle, every chunk of it that retention  *)
(* expires or a batch request matches is marked.  This is what the OR of  *)
(* IntervalMayHaveExpiredChunks and the AND of CanSkipSeries are for.     *)
NoExpiredChunkMissed ==
    \A t \in finished, s \in Series :
        (RetExpired(<<t, s>>) \/ DelExpired(<<t, s>>)) => <<t, s>> \in marked

(* A delete request becomes processed only when every chunk it matches is *)
(* marked, across failed and timed-out passes whose progress the phase    *)
(* hooks must roll back.                                                   *)
ProcessedOnlyWhenMarked ==
    \A r \in Requests : reqState[r] = "processed" => cover[r] \subseteq marked
=============================================================================
