------------------------- MODULE CompactorConfigProofs -------------------------
(***************************************************************************)
(* Proofs about Config.Validate (CompactorConfig): for every configuration *)
(* with natural-number intervals and every length of a minute, the rewrite *)
(* of the retention interval is idempotent, so validating an accepted      *)
(* configuration again accepts it unchanged, and it keeps the retention   *)
(* interval apart from a compaction interval of two units or more.        *)
(***************************************************************************)
EXTENDS CompactorConfig, TLAPS

(* The configurations Validate may be given. *)
NatIntervals(c) == c \in ConfigType

(* Min of two naturals is the smaller one. *)
LEMMA MinPair ==
    ASSUME NEW a \in Nat, NEW b \in Nat
    PROVE  Min({a, b}) = IF a <= b THEN a ELSE b
<1> DEFINE m == IF a <= b THEN a ELSE b
<1>1. m \in {a, b} /\ \A y \in {a, b} : m =< y
  OBVIOUS
<1>2. \A x \in {a, b} : (\A y \in {a, b} : x =< y) => x = m
  OBVIOUS
<1> QED
  BY <1>1, <1>2 DEF Min

(* Ten minutes is a positive number of duration units. *)
LEMMA TenMinutesPositive == TenMinutes \in Nat \ {0}
BY ConfigAssumption DEF TenMinutes

(* The jitter added to an interval x: min(10m, x/2). *)
JitterOf(x) == IF TenMinutes <= x \div 2 THEN TenMinutes ELSE x \div 2

LEMMA JitterValue ==
    ASSUME NEW c, NatIntervals(c)
    PROVE  Jitter(c) =
             IF c.applyRetentionInterval = c.compactionInterval
             THEN [c EXCEPT !.applyRetentionInterval =
                               c.applyRetentionInterval
                               + JitterOf(c.applyRetentionInterval)]
             ELSE c
<1>1. Min({TenMinutes, c.applyRetentionInterval \div 2})
        = JitterOf(c.applyRetentionInterval)
  <2>1. c.applyRetentionInterval \div 2 \in Nat /\ TenMinutes \in Nat
    BY TenMinutesPositive DEF NatIntervals, ConfigType
  <2> QED
    BY <2>1, MinPair DEF JitterOf
<1> QED
  BY <1>1 DEF Jitter

(* The two rewrites of Validate, applied to their own result, change       *)
(* nothing: the jitter is not added a second time.  The case that needs   *)
(* care is a compaction interval of 1, whose jitter is 0.                 *)
LEMMA DefaultsIdempotent ==
    ASSUME NEW c, NatIntervals(c)
    PROVE  /\ NatIntervals(ApplyRetentionDefaults(c))
           /\ ApplyRetentionDefaults(ApplyRetentionDefaults(c))
                = ApplyRetentionDefaults(c)
<1> DEFINE d == DefaultApply(c)
           j == Jitter(d)
<1>1. NatIntervals(d) /\ d.compactionInterval = c.compactionInterval
  BY DEF DefaultApply, NatIntervals, ConfigType
<1>2. j = IF d.applyRetentionInterval = d.compactionInterval
          THEN [d EXCEPT !.applyRetentionInterval =
                   d.applyRetentionInterval + JitterOf(d.applyRetentionInterval)]
          ELSE d
  BY <1>1, JitterValue
<1>3. NatIntervals(j) /\ j.compactionInterval = c.compactionInterval
  BY TenMinutesPositive, <1>1, <1>2 DEF NatIntervals, JitterOf, ConfigType
<1>4. DefaultApply(j) = j
  <2>1. j.applyRetentionInterval = 0 => c.compactionInterval = 0
    BY TenMinutesPositive, <1>1, <1>2 DEF DefaultApply, NatIntervals, JitterOf, ConfigType
  <2>2. CASE j.applyRetentionInterval = 0
    <3>1. j.compactionInterval = 0 /\ NatIntervals(j)
      BY <2>1, <2>2, <1>3
    <3> QED
      BY <2>2, <3>1 DEF DefaultApply, NatIntervals, ConfigType
  <2> QED
    BY <2>2 DEF DefaultApply
<1>5. Jitter(j) = j
  <2>1. Jitter(j) =
          IF j.applyRetentionInterval = j.compactionInterval
          THEN [j EXCEPT !.applyRetentionInterval =
                   j.applyRetentionInterval + JitterOf(j.applyRetentionInterval)]
          ELSE j
    BY <1>3, JitterValue
  <2>2. CASE j.applyRetentionInterval = j.compactionInterval
    <3>1. d.applyRetentionInterval = d.compactionInterval
          /\ JitterOf(d.applyRetentionInterval) = 0
      BY TenMinutesPositive, <2>2, <1>1, <1>2, <1>3 DEF NatIntervals, JitterOf, ConfigType
    <3>2. j.applyRetentionInterval = d.applyRetentionInterval
      BY <3>1, <1>1, <1>2 DEF NatIntervals, ConfigType
    <3>3. JitterOf(j.applyRetentionInterval) = 0
      BY <3>1, <3>2
    <3> QED
      BY <2>1, <2>2, <3>3, <1>3 DEF NatIntervals, ConfigType
  <2> QED
    BY <2>1, <2>2
<1> QED
  BY <1>3, <1>4, <1>5 DEF ApplyRetentionDefaults

(* The rewrite leaves every field other than the retention interval alone. *)
LEMMA DefaultsFrame ==
    ASSUME NEW c
    PROVE  /\ ApplyRetentionDefaults(c).retentionEnabled = c.retentionEnabled
           /\ ApplyRetentionDefaults(c).deleteRequestStore = c.deleteRequestStore
           /\ ApplyRetentionDefaults(c).deleteRequestStoreKeyPrefix
                = c.deleteRequestStoreKeyPrefix
           /\ BaseValid(ApplyRetentionDefaults(c)) = BaseValid(c)
BY DEF ApplyRetentionDefaults, Jitter, DefaultApply, BaseValid

-----------------------------------------------------------------------------
(* An accepted configuration passes every check again, and when retention *)
(* is on it is a fixed point of the rewrite.                              *)
OkInv ==
    /\ NatIntervals(cfg)
    /\ status = "ok" =>
          /\ BaseValid(cfg)
          /\ cfg.retentionEnabled =>
                /\ cfg.deleteRequestStore # ""
                /\ cfg.deleteRequestStoreKeyPrefix \in ValidPrefixes
                /\ ApplyRetentionDefaults(cfg) = cfg

LEMMA InitOkInv == Init => OkInv
BY ConfigAssumption DEF Init, OkInv, NatIntervals

LEMMA NextOkInv == OkInv /\ [Next]_vars => OkInv'
<1> SUFFICES ASSUME OkInv, [Next]_vars PROVE OkInv'
  OBVIOUS
<1>1. CASE UNCHANGED vars
  BY <1>1 DEF OkInv, NatIntervals, vars
<1>2. CASE Validate
  <2>1. CASE ~BaseValid(cfg) /\ status' = "error" /\ UNCHANGED cfg
    BY <2>1 DEF OkInv, NatIntervals
  <2>2. CASE BaseValid(cfg) /\ ~cfg.retentionEnabled /\ status' = "ok"
             /\ UNCHANGED cfg
    BY <2>2 DEF OkInv, NatIntervals
  <2>3. CASE cfg.deleteRequestStore = "" /\ status' = "error" /\ UNCHANGED cfg
    BY <2>3 DEF OkInv, NatIntervals
  <2>4. CASE /\ BaseValid(cfg) /\ cfg.retentionEnabled
             /\ cfg.deleteRequestStore # ""
             /\ cfg' = ApplyRetentionDefaults(cfg)
             /\ status' = IF cfg.deleteRequestStoreKeyPrefix \in ValidPrefixes
                          THEN "ok" ELSE "error"
    <3>1. NatIntervals(cfg') /\ ApplyRetentionDefaults(cfg') = cfg'
      BY <2>4, DefaultsIdempotent DEF OkInv
    <3>2. /\ cfg'.retentionEnabled = cfg.retentionEnabled
          /\ cfg'.deleteRequestStore = cfg.deleteRequestStore
          /\ cfg'.deleteRequestStoreKeyPrefix = cfg.deleteRequestStoreKeyPrefix
          /\ BaseValid(cfg') = BaseValid(cfg)
      BY <2>4, DefaultsFrame
    <3> QED
      BY <2>4, <3>1, <3>2 DEF OkInv
  <2> QED
    BY <1>2, <2>1, <2>2, <2>3, <2>4 DEF Validate
<1> QED
  BY <1>1, <1>2 DEF Next

(* Validate is idempotent (compactor.go 134-168): whatever the intervals, *)
(* once Validate accepted a configuration, a later call accepts it again  *)
(* and leaves it as it is; the jitter is added at most once.              *)
THEOREM ValidateIdempotentTheorem == Spec => ValidateIdempotent
<1>1. OkInv /\ [Next]_vars => [status = "ok" => (status' = "ok" /\ cfg' = cfg)]_vars
  <2> SUFFICES ASSUME OkInv, [Next]_vars, status = "ok"
               PROVE  status' = "ok" /\ cfg' = cfg
    BY DEF vars
  <2>1. CASE UNCHANGED vars
    BY <2>1 DEF vars
  <2>2. CASE Validate
    BY <2>2 DEF Validate, OkInv
  <2> QED
    BY <2>1, <2>2 DEF Next
<1> QED
  BY <1>1, InitOkInv, NextOkInv, PTL DEF Spec, ValidateIdempotent

(* The rewrite moves a retention interval that would equal a compaction   *)
(* interval of at least two units: its half, and so its jitter, is then  *)
(* at least one unit.                                                     *)
LEMMA DefaultsApart ==
    ASSUME NEW c, NatIntervals(c), c.compactionInterval >= 2
    PROVE  ApplyRetentionDefaults(c).applyRetentionInterval # c.compactionInterval
<1> DEFINE d == DefaultApply(c)
<1>1. NatIntervals(d) /\ d.compactionInterval = c.compactionInterval
  BY DEF DefaultApply, NatIntervals, ConfigType
<1>2. Jitter(d) = IF d.applyRetentionInterval = d.compactionInterval
                  THEN [d EXCEPT !.applyRetentionInterval =
                          d.applyRetentionInterval + JitterOf(d.applyRetentionInterval)]
                  ELSE d
  BY <1>1, JitterValue
<1>3. CASE d.applyRetentionInterval = d.compactionInterval
  <2>1. JitterOf(d.applyRetentionInterval) >= 1
    BY <1>1, <1>3, TenMinutesPositive DEF JitterOf, NatIntervals, ConfigType
  <2>2. Jitter(d).applyRetentionInterval
          = d.applyRetentionInterval + JitterOf(d.applyRetentionInterval)
    BY <1>1, <1>2, <1>3 DEF NatIntervals, ConfigType
  <2> QED
    BY <1>1, <1>3, <2>1, <2>2, TenMinutesPositive
       DEF ApplyRetentionDefaults, JitterOf, NatIntervals, ConfigType
<1>4. CASE d.applyRetentionInterval # d.compactionInterval
  BY <1>1, <1>2, <1>4 DEF ApplyRetentionDefaults
<1> QED
  BY <1>3, <1>4

(* Retention is kept apart from compaction (compactor.go 153-161): for    *)
(* every configuration and every number of calls of Validate, an accepted *)
(* retention-enabled configuration whose compaction interval is at least  *)
(* two units has a retention interval other than the compaction interval. *)
THEOREM RetentionApartTheorem == Spec => []RetentionApartFromCompaction
<1>1. OkInv => RetentionApartFromCompaction
  <2> SUFFICES ASSUME OkInv, status = "ok", cfg.retentionEnabled,
                      cfg.compactionInterval >= 2
               PROVE  cfg.applyRetentionInterval # cfg.compactionInterval
    BY DEF RetentionApartFromCompaction
  <2>1. ApplyRetentionDefaults(cfg) = cfg /\ NatIntervals(cfg)
    BY DEF OkInv
  <2> QED
    BY <2>1, DefaultsApart
<1> QED
  BY <1>1, InitOkInv, NextOkInv, PTL DEF Spec

==============================================================================
