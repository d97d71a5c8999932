CONSTANTS
    Threshold <- MCThreshold
    InitialCooldown <- MCInitialCooldown
    MaxCooldown <- MCMaxCooldown
    MaxTime <- MCMaxTime
    MaxFailures <- MCMaxFailures
    RetryBackoff <- MCRetryBackoff
    MaxRetryAfter <- MCMaxRetryAfter
    PollTimeout <- MCPollTimeout
    RetryAfters <- MCRetryAfters
    IdleCap <- MCIdleCap
SPECIFICATION Spec
INVARIANTS
    TypeOK
    CooldownFollowsBackoff
    SleepBetweenPollsBounded
PROPERTIES
    GateRefined
    PollsRecur
CHECK_DEADLOCK FALSE
