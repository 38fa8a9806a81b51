-------------------------- MODULE MCCompactorConfig --------------------------
(* Model-checking instance of CompactorConfig: a minute of 60 units (a    *)
(* second each), so that TLC's integers suffice; compaction intervals 0,  *)
(* 1 unit (its half truncates to 0), 10m and 30m (the jitter is           *)
(* interval/2 below 20m and 10m above), retention intervals 0 (the        *)
(* default), 10m and 20m, an invalid value of each checked field, and two *)
(* calls of Validate.                                                     *)
EXTENDS CompactorConfig, TLC

MCConfigs ==
    [compactionInterval: {0, 1, 600, 1800},
     applyRetentionInterval: {0, 600, 1200},
     retentionEnabled: BOOLEAN,
     deleteRequestStore: {"", "s3"},
     deleteRequestStoreKeyPrefix: {"index/", "/abs"},
     maxCompactionParallelism: {0, 1},
     numTokens: {1, 2},
     replicationFactor: {1, 2}]

MCValidPrefixes == {"index/"}
=============================================================================
