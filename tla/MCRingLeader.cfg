CONSTANTS
    r1 = r1
    r2 = r2
    Replicas <- MCReplicas
    Tokens <- MCTokens
    MaxCrashes <- MCMaxCrashes
SPECIFICATION FairSpec
INVARIANT RingTokensWellFormed
PROPERTY EventuallyOneLeader
