# TLA+ models of the Loki compactor and its neighbours

This directory holds TLA+ models of the compactor code under `src/`, the
TLC configurations that model-check them, and TLAPS proofs. It covers:

- `src/pkg/compactor/compactor.go`: the compactor service, its configuration,
  its leader election and the expiration checker it hands to retention;
- `src/pkg/pattern/drain/chunk.go`: the sample chunks of the pattern ingester;
- `src/pkg/dataobj/sections/logs/table_merge.go`: the k-way merge of logs
  tables;
- `src/pkg/dataobj/sections/streams/iter.go`: the iteration over the streams
  sections of a data object.

`spec.md` describes the table compaction pipeline. The code of that pipeline
(tables manager, table compactor, marker, sweeper, delete requests) is not
under `src/`, so its model is written from `spec.md` and the outline at
compactor.go lines 39-46. The same holds for the two sub-checkers and the
table marker that drive the expiration checker of compactor.go 587-642. The entries in the map of `PROJECT.json` for that
model are marked `spec_modelled`.

## The parts and how they interact

Several compactor replicas run at once, and the hash ring picks one of them
to do the work:

1. Each replica registers in a ring called `compactor`.
2. It waits until its own ring client sees it JOINING.
3. It switches to ACTIVE and waits until it sees itself ACTIVE.
4. From then on, each `ringPollPeriod` it asks its ring client who owns
   `ringKeyOfLeader`.
5. The owner starts the tables manager (`c.running = true`). Every other
   replica stops its tables manager.

The tables manager runs the per-table pipeline each compaction interval:

1. List and download the table's index files.
2. Merge them.
3. On a retention cycle, mark the expired chunks in marker files.
4. Upload the compacted index.
5. Delete the originals.

A sweeper deletes the chunks whose markers are older than the delete delay.

On a retention cycle the marker asks the expiration checker, built by
`newExpirationChecker`, about every table, series and chunk. The checker
composes two sub-checkers: retention (per-tenant and per-stream periods)
and deletion (the delete requests manager, with a batch of requests per
cycle). A table is visited if either may expire something in it, a series
is skipped only if both allow it, and a chunk is expired if either says so.
The phase hooks tell the deletion checker when a table pass starts,
finishes, fails or times out. It commits the series it recorded only on
finish, and a request becomes processed only when all its chunks were
processed.

Leader election is eventually consistent: each replica decides from its own
lagging view of the ring. So two replicas can run the pipeline on the same
table at the same time. A run can also crash, be cancelled or time out at
any point. The pipeline must tolerate all of this.

`Config.Validate` checks the configuration before any of this starts. It
also rewrites it: it defaults the retention interval and adds a jitter.

The drain chunks, the table merge and the streams iteration are separate
parts of the repository, with no interaction with the compactor. They are
modelled on their own.

## Modules

| Module | Models | Code |
|---|---|---|
| `RingLeader` | ring registration, the starting handshake, the leader loop, shutdown, crashes, heartbeat timeouts and auto-forget | compactor.go 232-286, 438-577, 644-661 |
| `TableCompaction` | one table in object storage under overlapping pipeline runs, with ingesters, retention marking, the delete delay and the sweeper | spec.md 4.2, 4.4, 4.5, 7; compactor.go 39-46 (spec_modelled) |
| `TableCompactionProofs` | TLAPS proofs about `TableCompaction` | |
| `CompactorConfigProofs` | TLAPS proofs about `CompactorConfig` | |
| `RingLeaderProofs` | TLAPS proofs about `RingLeader` | |
| `CompactorConfig` | `Config.Validate` called repeatedly on one config | compactor.go 77-168 |
| `ExpirationChecker` | the expiration checker's methods, driven by a table marker over passes, failures, timeouts and retention cycles, with the delete requests' lifecycle | compactor.go 587-642; spec.md 4.2, 4.3, 4.6 (spec_modelled) |
| `ExpirationCheckerProofs` | TLAPS proofs about `ExpirationChecker` | |
| `StreamsIter` | `Iter`, `IterSection` and `decodeRow`, with a consumer that may stop | iter.go 22-163 |
| `SampleCounts` | the abstract per-bucket line counter that `DrainChunks` implements | |
| `DrainChunks` | `Chunks.Add`, `merge`, `prune`, the passing of time, and `Chunk.ForRange` | chunk.go 19-218 |
| `TableMerge` | `mergeTablesIncremental` and `mergeTables` | table_merge.go 17-216 |
| `TableMergeProofs` | TLAPS proofs about `TableMerge` | |
| `StreamsIterProofs` | TLAPS proofs about `StreamsIter` | |
| `StreamsIterMatchProofs` | TLAPS proof that `StreamsIter` yields the reference decoding (`StreamsMatchReference`) | |
| `MC*` | the TLC instances | |

### RingLeader

The state:

- `kv[r]` is the instance descriptor of replica `r` in the KV store. It holds
  the state, the tokens, and a `fresh` flag. The flag abstracts the heartbeat
  age against `HeartbeatTimeout`.
- `view[r]` is the copy of the ring held by `r`'s ring client.
- `proc[r]` says where `r`'s goroutine is: down, waiting for JOINING,
  waiting for ACTIVE, in the loop, or leaving.
- `running[r]` is `c.running`.

The actions:

- `Register`: the lifecycler delegate `OnRingInstanceRegister`. It keeps an
  existing instance's tokens and generates the missing ones.
- `ObserveJoining` and `ObserveActive`: the two `WaitInstanceState` calls of
  `starting`.
- `Sync`: the ring client's watch delivers the KV state into `view[r]`.
- `TickStart` and `TickStop`: the two branches of the loop's ticker.
- `Shutdown` and `Unregister`: `stopping` and the lifecycler leaving the ring.
- `Crash`: a process dies at any point.
- `HeartbeatTimeout`: a dead replica's heartbeat becomes stale.
- `AutoForget`: a live replica's auto-forget delegate removes an unhealthy
  instance.

`RingGet` is `ring.Get` with the ignore-unhealthy strategy. A token owner
that is not healthy makes it fail, so no replica starts.

### TableCompaction

- Every member of `Workers` runs the pipeline independently of leadership.
  The design claims safety under any overlap, and this models it.
- A chunk is a model value. An index object is a number; `content[o]` is the
  set of chunks it references.
- `marked`, `ripe` and `swept` track a chunk through the marker file, the
  delete delay and the sweeper.
- `wst[w]` holds a run's phase, the objects it listed, its merged index, the
  object it uploaded and the originals it still has to delete.
- `Begin`, `Mark`, `Upload` and `DeleteOne`, then `Finish`, are the steps of
  a run.
- `MarkTimeout` is `RetentionTableTimeout`.
- `UploadFail` covers two outcomes: the upload failed, or the object was
  written and the answer was lost.
- `DeleteFail` is a failed delete; `Abort` is a cancel or a crash.

### CompactorConfig

- `cfg` is the `Config` value, restricted to the fields `Validate` reads.
- `given` is the value before the first call.
- `Validate` is one action with one disjunct per outcome, in code order:
  1. the parallelism and ring checks fail;
  2. retention is off;
  3. retention is on and no delete request store is set;
  4. retention is on and the store is set. The rewrite
     `ApplyRetentionDefaults` (default, then jitter) happens before the key
     prefix is checked. So a config rejected for its prefix has still been
     rewritten.
- Durations are integers of the unit of `time.Duration`, nanoseconds. The
  constant `Minute` is `time.Minute` in that unit; the runs give it 60, a
  scaled-down minute, so that intervals of 1 unit (1ns) and of many minutes
  are both in range. `TenMinutes` is `10*time.Minute`, and `\div` is Go's
  truncating division of a non-negative `Duration`.

### DrainChunks

- A chunk is a sequence of `[ts, value]` records; `chunks` is the `Chunks`
  slice; `now` is the clock that `prune` compares with.
- `Add(ts)` is the whole of `Chunks.Add`, in order:
  1. truncate the timestamp;
  2. if there are no chunks, start the first one;
  3. if the last sample's timestamp equals `t`, increment it;
  4. if the last chunk has no space, start a new chunk;
  5. if the line is out of order, drop it;
  6. otherwise, append a sample.

  A last chunk with no samples makes step 3 index out of range. That is
  modelled as a panic (`panicked`).
- `Merge(s)` merges a sorted, aligned input into all samples and replaces
  `chunks` with a single chunk.
- `Prune` is the in-place removal loop (`PruneLoop`), with the index stepped
  back after each removal.
- `Abstract` instantiates `SampleCounts` with the refinement mapping: the
  count of a bucket is the sum of the values of the samples at that bucket's
  timestamp (`ValueAt`). `now` and `ops` map to themselves.
- `ForRange` is a pure operator. It keeps the early `nil` returns and the two
  `sort.Search` calls (`SearchGeq`), and the re-scaling loop is `Rescale`
  with `FillSteps`. The properties apply it to every chunk of every
  reachable state, for every start, end and step in small sets.

### TableMerge

- A row is abstracted to its stream ID and timestamp, the two columns that
  `compareRows` reads.
- A table is a sequence of rows. It may end with `Err`, the error its reader
  yields.
- `in`, `out`, `i` and `first` are the locals of `mergeTablesIncremental`.
- `heads`, `acc` and `merging` are those of a `mergeTables` call in
  progress.
- The loser tree is not under `src/`. Its winner is any head that no other
  head is `rowResultLess` than. Error heads win, because
  `rowResultLess(err, x)` holds for every `x`.
- `StartSet`, `MergeStep`, `FinishSet`, `EndRound` and `Return` follow the
  loops. `PanicOnSmallMergeSize` is the guard at line 23.
- `PanicOnNoTables` is the call with no tables: the loop does not run and
  `return in[0]` (line 50) panics. `Return` needs exactly one table left.
- `SortedRows` is what line 17-18 ask of the input: every table sorted by
  `compareRows`. `MergeAssumption` states it of every input.

### ExpirationChecker

- A chunk is a pair `<<table, series>>`. `retExpired` is the set that
  retention expires, and `cover[r]` the set that delete request `r` matches.
- `reqState`, `batch` and `cycles` belong to the delete requests manager.
  A request moves from received to buildingPlan to processing, or is
  cancelled. Each cycle takes up to `DeleteBatchSize` processing requests
  as its batch (`StartCycle`). `EndCycle` makes a request processed when
  every chunk it matches was committed as processed.
- `delPending` holds the `<<request, chunk>>` pairs that the deletion checker
  recorded in the running pass. `delDone` holds the committed ones.
- `pass` is the marker's current table pass, with the series still to do and
  the chunks marked so far. `marked` holds the chunks in promoted marker
  files.
- The composite's methods are translated from compactor.go:
  - `Expired` asks retention first;
  - `IntervalMayHaveExpiredChunks` is an OR;
  - `CanSkipSeries` is an AND;
  - `MarkSeriesAsProcessed` returns early when retention fails;
  - the four phase hooks forward to both sub-checkers.
- The sub-checkers and the marker are modelled from spec.md. A failing
  sub-checker makes `ProcessSeries` fail the pass. `MarkPhaseFailed` and
  `MarkPhaseTimedOut` drop `delPending`, and `MarkPhaseFinished` commits it.
- `TimeoutPass` is `RetentionTableTimeout`. A table whose pass failed or
  timed out is retried in the next cycle.

### StreamsIter

- `obj` is the object: a sequence of sections. Each section is one of:
  - fails to open (`Open`);
  - fails to give its metadata or columns;
  - gives a sequence of reads, each a row or a read error.
- A row maps each column to `Nil` or to a typed value. A value `v = 0` is the
  zero value that `IsZero` skips. Label names are abstracted to the column
  index. The column kinds are stream ID, min timestamp, label, and `other`.
  `other` stands for the columns `decodeRow` ignores. The other int64
  columns decode like the min timestamp, and no property reads them.
- `pc` is where the nested loops are. `stream` is the `Stream` variable of
  `IterSection`'s read loop. `FreshStream` models its declaration inside the
  loop.
- `out` is what the consumer has received. `stopped` records that the
  consumer returned `false`.
- `IterSection`'s `yield(stream)` is a call into `Iter`'s loop body, so the
  call is split into three actions:
  - `ReadRow` reads and decodes a row, then makes the call (`pc = "body"`).
  - `IterBody` is `Iter`'s loop body (lines 30-34). It hands the stream to
    the consumer. When the consumer answers `false`, the body returns, and
    the range loop's `yield` gives `IterSection` `false`. `broke` records
    that answer.
  - `Resume` is `IterSection` going on after the call (lines 86-89):
    `YieldStops` returns on `false`, and otherwise the next row is read.
- `result.Iter` is not under `src/`. It hands the function's values to the
  consumer, then one error result if the function returned an error. `Fail`
  models this.
- `DecodeColumn` is one iteration of `decodeRow`'s column loop, and
  `DecodeRow` folds it over the columns with a recursive function. `RefDecode` is a
  declarative reference: the last present value of each column kind, or an
  error if any present value has the wrong type.

### SampleCounts

`SampleCounts` is the abstract specification of a drain pattern's chunks:
a count of lines per time bucket. It allows these steps:

- `AddLine` counts a line in its bucket. It may drop the line only when a
  newer bucket already holds lines.
- `MergeIn` lowers no count.
- `Forget` sets a bucket to zero, only when the bucket is older than
  `olderThan`.
- `Tick` advances the clock.

It is not a translation of any code. It states what `chunk.go` is for, and
`DrainChunks` is checked to implement it.

## Runs

Each run is listed in `PROJECT.json` together with its properties. Every
property of a passing run has a mutant: a plausible bug in the code that TLC
finds.

| Run | Config | Expect | Checks |
|---|---|---|---|
| `table_compaction` | `MCTableCompaction.cfg` | pass | `NoDataLoss` and `PublishBeforeDelete` under overlapping, failing and crashing runs |
| `ring_leader` | `MCRingLeader.cfg` | pass | `RingTokensWellFormed`, and `EventuallyOneLeader` under crashes and auto-forget |
| `compactor_config` | `MCCompactorConfig.cfg` | pass | `ValidateIdempotent` and `RetentionApartFromCompaction` |
| `compactor_config_default` | `MCCompactorConfigDefault.cfg` | violation | the flag help text's "0 means the compaction interval" |
| `drain_chunks` | `MCDrainChunks.cfg` | pass | `MergeMatchesReference`, `PruneMatchesFilter` and `ForRangeRescales` |
| `drain_refinement` | `MCDrainChunksRefinement.cfg` | pass | `ImplementsSampleCounts`: `Chunks` implements `SampleCounts` |
| `drain_merged_span` | `MCDrainChunksMergedSpan.cfg` | violation | `SamplesOrdered`: the samples of all chunks stay in time order |
| `drain_forrange_end` | `MCDrainChunksHalfOpen.cfg` | violation | ForRange's documented `[start:end)` |
| `drain_empty_merge` | `MCDrainChunksEmptyMerge.cfg` | violation | no chunk is ever left without samples |
| `table_merge` | `MCTableMerge.cfg` | pass | `MergedSorted`, `MergedPermutation`, `ErrorsReturned` and `Terminates` |
| `expiration_checker` | `MCExpirationChecker.cfg` | pass | `NoExpiredChunkMissed` and `ProcessedOnlyWhenMarked` over failing and timed-out passes and several cycles |
| `streams_iter` | `MCStreamsIter.cfg` | pass | `StreamsMatchReference` and `NoYieldAfterStop` |

### What the violations show

**`drain_forrange_end` (chunk.go:63).** `hi` stays `len(Samples)` unless
`end < last`. So a query whose end equals the last sample's timestamp
returns that sample, although the doc comment says `[start:end)`. A query
whose end equals the first sample's timestamp returns nothing. Two adjacent
range queries therefore count the sample at their boundary twice.

**`drain_merged_span` (chunk.go:116, with 185).** `merge` folds every
sample into one chunk, whatever the span of time the samples cover. A
later `Add` can then fail `spaceFor` against that chunk's first sample
while its time is still before the chunk's last sample. It appends a new
chunk that starts before the previous one ends. TLC's trace:

1. `merge` of samples at 0 and 8 ms gives one chunk;
2. a line at 6 ms arrives, with `maxChunkAge` 5 ms.

The chunks now overlap. `Iterator` hands them to a non-overlapping
iterator, and the next `merge`'s two-pointer loop, which assumes ordered
input, returns unsorted samples. Past that point the refinement breaks too:
a stale bucket held by two chunks is pruned only in part. With timestamps
up to 6 ms, the bound of the first sitting, this could not happen, because
no aligned time is both at least 5 ms after the first sample and before
the last.

**`drain_empty_merge` (chunk.go:185).** Merging an empty input into empty
`Chunks` leaves one chunk with no samples. The next `Add` (line 112) or
`prune` (line 196) indexes `Samples[len-1]` and panics. Whether a caller can
pass an empty input is decided outside `chunk.go`.

**`compactor_config_default` (compactor.go:153-160 against the help text at
line 105).** `Validate` defaults `ApplyRetentionInterval` 0 to the compaction
interval and then adds `min(10m, interval/2)`. With a 10m compaction
interval, retention runs every 15m. That is neither the compaction interval
nor a multiple of it, which the help text asks for. The jitter itself is
intended (spec.md 6). What is wrong is the help text.

**An edge without a run (compactor.go:157-160).** The comment says the
jitter keeps retention and compaction from running at the same time.
`Validate` accepts any positive compaction interval, and for an interval of
1ns the jitter `min(10m, interval/2)` truncates to 0: the retention interval
is the compaction interval. `RetentionApartFromCompaction` therefore asks
for an interval of at least 2 units; with that bound lowered to any positive
interval, TLC finds the 1ns case on `MCCompactorConfig.cfg`. From 2ns on the
property holds and is proved. Since nobody configures a 1ns interval, this
is recorded as a hazard rather than a run.

### Bounds, and why they are enough

- **`MCTableCompaction`**: 2 runs, 2 chunks and 4 objects (two fragments and
  two uploads). This is enough for:
  - two runs to list the same originals;
  - one run to merge the other's upload or the stale object of a lost answer;
  - a run to delete objects the other run is still merging;
  - a chunk to expire, be marked, ripen and be swept while another run
    still holds it.

  Symmetry over runs and chunks is sound, because the model treats them
  uniformly. `TableCompactionProofs` proves the two properties for every
  bound.
- **`MCRingLeader`**: 2 replicas, 3 token values and 1 crash. This covers:
  - a leader dying and being auto-forgotten;
  - a restart keeping its tokens;
  - the handover through stale views.

  With three replicas the run also passes, but it takes more than three
  minutes (2.5 million states), too long for a run and its mutants.
  `RingLeaderProofs` proves `RingTokensWellFormed` for any number of
  replicas. Tokens are not symmetric, because the leader key's owner
  depends on their order.
- **`MCCompactorConfig`**: every combination of the fields `Validate` reads,
  each over the values that tell its branches apart:
  - compaction intervals 0, 1 unit, 10m and 30m (with `Minute` 60);
  - retention intervals 0, equal to the compaction interval, and different;
  - a valid and an invalid prefix;
  - 2 calls.
- **`MCDrainChunks`**:
  - timestamps 0..8, sample interval 2 and chunk age 5, so a chunk holds
    three samples, `Add` opens a second chunk, and a merged chunk can span
    more than the chunk age;
  - `OlderThan` 1, so two adjacent chunks can both be stale;
  - at most 5 operations;
  - queries over 0..9 with steps 2, 3 and 4. Step 2 is the sample interval;
    3 and 4 force the re-scaling loop, including empty buckets.

  `MergeMatchesReference` and `ForRangeRescales` state the algorithms'
  precondition: the samples they are given are in order. `drain_merged_span`
  shows that `Chunks` can break that precondition. The refinement run
  explores only the states in which the chunks are ordered and none is
  empty (`CONSTRAINT MCChunksWellFormed`), because the two violation runs
  show what happens past those states. Without the constraint, TLC finds
  the partial prune described above.
- **`MCExpirationChecker`**: 2 tables, 2 series, 2 requests, a batch of 1
  and 3 cycles. This is enough for:
  - a request to wait a cycle for the batch;
  - a table whose pass failed or timed out to be retried in the next cycle;
  - retention and a request to expire the same chunk, or different chunks
    of one table.

  Symmetry over tables, series and requests is sound, because the model
  treats them uniformly. `ExpirationCheckerProofs` proves both properties
  for every instance.
- **`MCStreamsIter`**: objects of up to 2 sections. Each section fails to
  open, fails to give its metadata, or gives up to 2 reads. A read is a
  read error or one of three rows, which together have:
  - a value of every column kind;
  - `Nil` and zero values;
  - an `other` column;
  - a mistyped value;
  - a row missing the stream ID that the previous row had.

  That gives 553 initial objects. `StreamsIterMatchProofs` proves
  `StreamsMatchReference` for objects and rows of any size.
- **`MCTableMerge`**:
  - none or up to 3 tables of up to 2 rows over 2 streams and 2 timestamps, so ties
    on the timestamp and the stream both occur;
  - tables that fail on their first or second read;
  - `maxMergeSize` 1, 2 and 3. With 3 tables and size 2, the last set of a
    round is short and a second round runs.

  `TableMergeProofs` proves `ErrorsReturned` and `MergedSorted` for every
  number of tables and every size.

### Fairness and deadlock

- **`RingLeader`** assumes weak fairness of what the code and its
  environment keep doing:
  - tickers fire;
  - the KV watch delivers;
  - `WaitInstanceState` polls;
  - heartbeats time out and the auto-forget delegate runs;
  - a started replica that is shutting down leaves the ring.

  Crashes and restarts are not fair. `EventuallyOneLeader` is a liveness
  property under these assumptions.
- **`TableMerge`** assumes weak fairness of `Next`:
  `mergeTablesIncremental` is a single goroutine that keeps running.
- **`ExpirationChecker` and `StreamsIter`** check safety only. No
  liveness property is claimed.
- **Deadlock.** `CompactorConfig`, `DrainChunks`, `TableMerge`,
  `ExpirationChecker` and `StreamsIter` say `CHECK_DEADLOCK FALSE`:
  - the number of `Validate` calls is bounded, and a terminal state is the
    last call;
  - chunk operations and the clock are bounded, and a panic ends the
    process;
  - a merge ends by returning or panicking;
  - the number of retention cycles is bounded;
  - an iteration ends after its last result.

  `TableCompaction` and `RingLeader` check deadlock.

## What is proved

`TableCompactionProofs` proves, for every set of runs and chunks and every
`MaxObjects`, from `ObjectsAssumption` only:

- `TypeCorrect`: `Spec => []TypeOK`.
- `NoDataLossTheorem`: `Spec => []NoDataLoss`.
- `PublishBeforeDeleteTheorem`: `Spec => PublishBeforeDelete`.

`NoDataLoss` is not inductive on its own, because a run's deletes depend on
what it uploaded earlier. The strengthening `IInv` adds:

- `NewestHolderStored`: the newest object that references an unmarked chunk
  is always in storage.
- `RunsCoverSnapshot`: a busy run listed only existing objects, and its
  merged index holds all of their chunks except the marked ones.
- `UploadCoversOriginals`: a deleting run has uploaded an object newer than
  everything it listed, and that object holds its merged index.

The proof has one lemma per action, and each lemma shows it preserves
`IInv`. `NextIInv` combines them. The theorems follow by induction (`PTL`).
`PublishBeforeDelete` follows from `IInv` through the step lemma
`StepPublishBeforeDelete`.

`RingLeaderProofs` proves `RingTokensWellFormedTheorem`:
`Spec => []RingTokensWellFormed`. It holds for every set of replicas, every
finite set of token values and any number of crashes, from `RingAssumption`.
`RingAssumption` now also says that the token set is finite: ring tokens are
`uint32`. The strengthening `IInv` adds:

- `TypeOK`;
- `LiveRegistered`: a replica whose process is up has an instance in the
  ring, with a fresh heartbeat. So `AutoForget` only ever removes a dead
  replica's instance, never one still in `starting` or in the loop.
- `TokensShape`: an instance not in the ring holds no tokens; one in the
  ring holds a single token that no other instance holds.

The key lemma is `RegisterToken`. When the instance is still in the ring,
`ringNumTokens - len(tokens)` is 0 and its own token is kept. Otherwise the
one generated token avoids every taken token. The cardinality facts come
from `FiniteSetTheorems` (`FS_EmptySet`, `FS_Singleton`, `FS_Subset`).

`CompactorConfigProofs` proves `ValidateIdempotentTheorem`:
`Spec => ValidateIdempotent`. It holds for every configuration in
`ConfigType`, that is, any natural intervals, from `ConfigAssumption`.

- The inductive invariant is `OkInv`. An accepted config passes every check
  again, and when retention is on it is a fixed point of
  `ApplyRetentionDefaults`.
- It rests on the lemma `DefaultsIdempotent`, proved by cases:
  - a zero interval can only stay zero when the compaction interval is zero;
  - after the jitter, the interval equals the compaction interval only when
    the jitter was 0, which happens for intervals 0 and 1.
- `MinPair` evaluates `Min({a, b})`.

`ExpirationCheckerProofs` proves, for all sets of tables, series and
requests, every batch size and every cycle bound, from `CheckerAssumption`:

- `NoExpiredChunkMissedTheorem`: `Spec => []NoExpiredChunkMissed`.
- `ProcessedOnlyWhenMarkedTheorem`: `Spec => []ProcessedOnlyWhenMarked`.

Neither property is inductive on its own. A pass's progress and marks are
recorded step by step and become visible only together, when the pass
finishes. The strengthening `IInv` adds:

- `DoneMarked`: every committed `<<request, chunk>>` pair has its chunk
  marked.
- `PendingInPass`: every pending pair has its chunk among the running
  pass's marks. Nothing is pending while no pass runs, and a pass runs only
  inside a cycle, so the batch cannot change under it.
- `PassCovers`: every expired chunk of a series the running pass is done
  with is marked, or among the pass's marks.

There is one lemma per action. `CanSkipSafe` is the heart of the argument:
a series that the AND of `CanSkipSeries` lets through holds no expired,
unmarked chunk. Retention does not expire it, and every request that
matches it committed it, which `DoneMarked` backs with a marker.
`FinishPass` promotes the marks and commits the progress in one step.
Failures and timeouts drop both together.

`TableMergeProofs` proves, for every list of tables and every
`maxMergeSize`, from `MergeAssumption`:

- `ErrorsReturnedTheorem`: `Spec => []ErrorsReturned`.
- `MergedSortedTheorem`: `Spec => []MergedSorted`.

`ErrorsReturned` speaks only of the end of the merge, so the invariant
`IInv` tracks errors through the rounds: in the first round `in` is the
input (`RoundsInv`), later rounds hold no error and start only when the
first met none; the tables before `i` were merged without error
(`DoneInv`); during a `mergeTables` call each sequence fails exactly when
its table does (`MergingInv`, with `FailsTail`: taking a row keeps the
error); `ResultInv` ties the result to the input. Sortedness needs
`SortInv` on top: every table of the round and of `out` is sorted, and
during a call the rows appended so far are sorted and none is after a row
still in a sequence. The heart is `WinnerLeast`: a winner that is not an
error is no greater than any row left in any sequence, because each
sequence is sorted and its head is its least row (`CompareRowsOrder`,
`SortedTail`, `SortedAppend`). `OkInv` says that a returned table is the
only one left. The permutation half, `MergedPermutation`, stays with TLC:
it is about bags of the flattened input, induction over data.

`StreamsIterProofs` proves `NoYieldAfterStopTheorem`:
`Spec => NoYieldAfterStop`. This is an action property, and it holds for
every object. It states the range-over-func contract at both levels:

- after the consumer answered `false`, `Iter` hands it nothing more;
- after `Iter`'s loop body returned, `IterSection` never calls its `yield`
  again.

The invariant `StopInv` says two things:

- the body returns exactly when the consumer stopped (`broke = stopped`);
- a stopped consumer leaves the iterator at most at `Resume`, which returns
  on the `false` answer.

Only `Resume` is enabled in that state, and it neither delivers nor calls
`yield`. The mutant that drops the check at line 86 (`YieldStopsIgnored`)
reads on and calls `yield` again, and TLC finds the violation.

`StreamsIterMatchProofs` proves `StreamsMatchReferenceTheorem`:
`Spec => []StreamsMatchReference`. It holds for every column layout and every
set of data objects, from `StreamsAssumption`. That assumption says that:

- the columns are known kinds or "other";
- the objects are sequences of sections;
- the markers `Err`, `ReadErr` and `Nil` are distinct from the values they
  are compared with.

The argument has three parts.

- **Decoding a row.** `DecodeRowMatchesRef` in `StreamsIterProofs` shows that
  `DecodeRow`, the recursive function over the columns that models
  `decodeRow`, gives the same stream or the same error as the column-wise
  reference `RefDecode`. It is an induction on the column index.
- **Flattening.** The reference output of an object is `FlattenSeq` of its
  per-section results. `FlatUpTo(x)` is the chain of prefixes
  `x[1] \o ... \o x[k]`, and `FlattenIsFlatUpTo` shows that
  `FlattenSeq(x) = FlatUpTo(x)[Len(x)]`. `FlatUpToPrefix` shows that each
  prefix is a prefix of every later one. From them `ObjPosition` reads off
  where a section's results sit in the whole: row `i` of section `k` is at
  position `Thru(obj, k - 1) + i`.
- **The inductive invariant `MInv`.** It is `IInv` plus six conjuncts:
  - `MTypeOK`;
  - `OutPrefix`: what was yielded is a prefix of the reference;
  - `AtSection`: ties the section counter `sec` and the row counter `rd` to
    the output length, `Len(out) = Thru(obj, sec - 1) + rd - 1`. This is
    what makes the next yield land on the right reference position.
    Between `ReadRow` and `Resume` it also says that the stream handed to
    `Iter`'s body is the next reference result.
  - `ErrOnlyLast`, `Running` and `Finished`: they carry the cut-off at the
    first error. An error can only be the last thing yielded. A running
    iteration has yielded none. An iteration that finished without an error
    and without a stop has yielded everything.

  There is one lemma per action, and `MInvMatch` derives the property from
  `MInv`. TLC checked `MInv` as an invariant of `MCStreamsIter` before the
  proof was written.

These lemmas are inductions over data: over the column index, the section
index, and the least counterexample to a prefix claim. They do not use the
library's induction theorems, which take an operator parameter. Each one
uses one of two forms instead:

- it picks a least counterexample with `WFMin` and
  `NatLessThanWellFounded`;
- or it unfolds a recursive function with `FiniteNatInductiveDef`.

Both forms instantiate only sets and functions.

`CompactorConfigProofs` also proves `RetentionApartTheorem`:
`Spec => []RetentionApartFromCompaction`, for every positive `Minute`,
from `OkInv` and the lemma `DefaultsApart`: the jitter is added only to a
retention interval equal to the compaction interval, and for an interval
of at least 2 units it is at least 1 (`TenMinutes` is positive and the half
of 2 is 1), so the rewritten interval differs; any other interval is left
alone and already differs.

## What is only model-checked

Three kinds of result stay with TLC:

- **Liveness.** `EventuallyOneLeader` and `Terminates` use fairness and
  `ENABLED`, which are out of the provers' reach.
- **Recursive modules.** `DrainChunks` uses RECURSIVE operators
  (`MergeSamples`, `PruneLoop`, `Rescale`), which take the SMT backend
  away from any module that reaches them. Its properties
  (`MergeMatchesReference`, `PruneMatchesFilter`, `ForRangeRescales`)
  compare them with reference definitions on bounded inputs, and the
  refinement of `SampleCounts` by `DrainChunks` is checked by TLC for the
  same reason.
- **Bags.** `MergedPermutation` says that the merged rows are, as a bag,
  the rows of the input tables. `MergedSortedTheorem` covers the order half
  of the merge. The counting half would need lemmas about `BagsExt`
  operators over flattened tables, which the provers have no library facts
  for, so it stays with TLC.

## What is not modelled

- The tables manager, table compactor, index plug-ins, marker and sweeper
  are not in `src/`. They are modelled from the spec as `TableCompaction`.
  Their concurrency inside one run, such as parallel table workers and
  sweeper workers, is abstracted: tables are independent, and the model
  holds one.
- The delete requests manager is modelled only as far as the expiration
  checker sees it: the lifecycle of a request, the batch, and the commit
  or roll-back of per-series progress. The request store, its API and the
  line filters of partial deletes are not modelled. `Expired`'s second
  result, the `filter.Func` of intervals that are not deleted, is
  abstracted to "expired or not".
- `expirationChecker.DropFromIndex` (compactor.go 628-630) is not modelled,
  because its callers are not under `src/`.
- `SortTablesByRange` and `SchemaPeriodForTable` (compactor.go 668-689) are
  not modelled. They hold no state: the first is a comparator over the day
  numbers that code outside `src/` parses from table names, and the second
  is a lookup in the schema config. A model would only restate the
  comparator.
- `IterSection`'s one-row buffer is modelled as one read per step. `Open`,
  the decoder, the dataset reader and the label pool are not under
  `src/`.
- The HTTP handlers and metrics have no state that matters.
- Some code outside `src/` is not modelled: the loser tree, the dataset
  reader, and the `tableBuffer` encoding. The model of the reader only
  reads one row or one error per step.
