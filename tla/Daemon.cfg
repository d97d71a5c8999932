CONSTANTS
    d1 = d1
    d2 = d2
    Directives <- MCDirectives
    Timed <- MCTimed
    MaxWorkers <- MCMaxWorkers
    MaxAttempts <- MCMaxAttempts
    MaxTokenVer <- MCMaxTokenVer
    MaxRestarts <- MCMaxRestarts
    ShutdownTimeoutSet = FALSE
    WALAppendCanFail = TRUE
    WALTornWrites = TRUE
    LeaseProfiles <- MCLeaseProfiles
    UntrustedDriverCfg <- MCUntrustedDriverCfg
    LeaseFacilityIDs <- MCLeaseFacilityIDs
    IDChars <- MCIDChars
SPECIFICATION Spec
INVARIANTS
    TypeOK
    DeliveredOrLogged
    FinishedCarriesFinalToken
PROPERTIES
    LeaseReleased
