CONSTANTS
    Configs <- MCConfigs
    ValidPrefixes <- MCValidPrefixes
    MaxCalls = 2
    Minute = 60
SPECIFICATION Spec
CHECK_DEADLOCK FALSE
INVARIANT RetentionDefaultIsCompactionInterval
