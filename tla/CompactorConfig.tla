---------------------------- MODULE CompactorConfig ----------------------------
(***************************************************************************)
(* Validation of the compactor configuration (compactor.go Config,         *)
(* RegisterFlags, Validate).  Validate both checks the configuration and   *)
(* rewrites it: on a retention-enabled configuration it defaults           *)
(* ApplyRetentionInterval to CompactionInterval and then adds a jitter of  *)
(* min(10m, interval/2) when the two are equal.  The model calls Validate  *)
(* repeatedly on the same Config value, as code that validates a config   *)
(* it already validated does.  Durations are natural numbers of a unit   *)
(* of which a minute holds Minute (time.Duration: nanoseconds, so Minute *)
(* is 60 * 10^9); the division of a duration by 2 truncates, as Go's.    *)
(***************************************************************************)
EXTENDS Integers, FiniteSetsExt

CONSTANTS
    Configs,        \* the configurations flags and YAML can produce
    ValidPrefixes,  \* the key prefixes config.ValidatePathPrefix accepts
    MaxCalls,       \* bound on the calls of Validate
    Minute          \* time.Minute in the duration unit

(* The fields of Config that Validate reads; durations are natural       *)
(* numbers of the duration unit.                                           *)
ConfigType ==
    [compactionInterval: Nat, applyRetentionInterval: Nat,
     retentionEnabled: BOOLEAN, deleteRequestStore: STRING,
     deleteRequestStoreKeyPrefix: STRING, maxCompactionParallelism: Int,
     numTokens: Int, replicationFactor: Int]

ASSUME ConfigAssumption ==
    /\ MaxCalls \in Nat
    /\ Minute \in Nat \ {0}
    /\ Configs \subseteq ConfigType

VARIABLES
    cfg,      \* the Config value
    status,   \* "unvalidated", "ok" or "error": the result of the last call
    calls,    \* number of calls of Validate
    given     \* the Config value before the first call

vars == <<cfg, status, calls, given>>

(* ringNumTokens and ringReplicationFactor, fixed in compactor.go. *)
ringNumTokens == 1
ringReplicationFactor == 1

(* 10*time.Minute. *)
TenMinutes == 10 * Minute

Init ==
    /\ cfg \in Configs
    /\ status = "unvalidated"
    /\ calls = 0
    /\ given = cfg

(* ApplyRetentionInterval 0 means CompactionInterval. *)
DefaultApply(c) ==
    IF c.applyRetentionInterval = 0
    THEN [c EXCEPT !.applyRetentionInterval = c.compactionInterval]
    ELSE c

(* Mutant: the jitter is added whenever the interval is not below the   *)
(* compaction interval.                                                   *)
JitterWhenAtLeast(c) ==
    IF c.applyRetentionInterval >= c.compactionInterval
    THEN [c EXCEPT !.applyRetentionInterval =
                       @ + Min({TenMinutes, @ \div 2})]
    ELSE c

(* Jitter, so that retention and compaction do not run at the same time. *)
Jitter(c) ==
    IF c.applyRetentionInterval = c.compactionInterval
    THEN [c EXCEPT !.applyRetentionInterval =
                       @ + Min({TenMinutes, @ \div 2})]
    ELSE c

(* Mutant: the jitter is added before the default is applied. *)
ApplyRetentionDefaultsSwapped(c) == DefaultApply(Jitter(c))

(* The two rewrites of a retention-enabled configuration, in code order. *)
ApplyRetentionDefaults(c) == Jitter(DefaultApply(c))

(* The checks of Validate before the retention block, in code order. *)
BaseValid(c) ==
    /\ c.maxCompactionParallelism >= 1
    /\ c.numTokens = ringNumTokens
    /\ c.replicationFactor = ringReplicationFactor

(* Validate: every early return is an error and leaves the config as it   *)
(* is at that point; the rewrites happen before the key prefix is checked, *)
(* so a config rejected for its prefix is still rewritten.                *)
Validate ==
    /\ calls < MaxCalls
    /\ calls' = calls + 1
    /\ UNCHANGED given
    /\ \/ /\ ~BaseValid(cfg)
          /\ status' = "error"
          /\ UNCHANGED cfg
       \/ /\ BaseValid(cfg) /\ ~cfg.retentionEnabled
          /\ status' = "ok"
          /\ UNCHANGED cfg
       \/ /\ BaseValid(cfg) /\ cfg.retentionEnabled
          /\ cfg.deleteRequestStore = ""
          /\ status' = "error"
          /\ UNCHANGED cfg
       \/ /\ BaseValid(cfg) /\ cfg.retentionEnabled
          /\ cfg.deleteRequestStore # ""
          /\ cfg' = ApplyRetentionDefaults(cfg)
          /\ status' = IF cfg.deleteRequestStoreKeyPrefix \in ValidPrefixes
                       THEN "ok" ELSE "error"

Next == Validate

Spec == Init /\ [][Next]_vars

-----------------------------------------------------------------------------
(* Validating a configuration that already passed validation succeeds     *)
(* again and leaves it unchanged, although Validate rewrites the config:  *)
(* the jitter is added once.                                              *)
ValidateIdempotent ==
    [][status = "ok" => (status' = "ok" /\ cfg' = cfg)]_vars

(* A validated retention-enabled configuration whose compaction interval  *)
(* is at least two units never runs retention at the compaction interval: *)
(* the jitter applies to the defaulted interval too, and a retention      *)
(* interval the jitter moved never equals the compaction interval again   *)
(* on a later Validate.  For one unit (1ns) the half truncates to a       *)
(* jitter of 0 and the two intervals are equal, against the comment at   *)
(* compactor.go 158 ("to avoid running retention and compaction at same  *)
(* time"); TLC finds that case when the bound is dropped to > 0.          *)
RetentionApartFromCompaction ==
    (status = "ok" /\ cfg.retentionEnabled /\ cfg.compactionInterval >= 2) =>
        cfg.applyRetentionInterval # cfg.compactionInterval

(* The flag's help text (compactor.go 105): "0 means run at same         *)
(* interval as compaction", and a non-zero value should be a multiple of  *)
(* the compaction interval.  Checked on configurations that left it at 0. *)
RetentionDefaultIsCompactionInterval ==
    (status = "ok" /\ cfg.retentionEnabled /\ given.applyRetentionInterval = 0) =>
        cfg.applyRetentionInterval = cfg.compactionInterval
=============================================================================
