CONSTANTS
    p1 = p1
    p2 = p2
    Procs <- MCProcs
    MaxRounds <- MCMaxRounds
    MaxInodes <- MCMaxInodes
    FlockCanFail = TRUE
    MaxBytes <- MCMaxBytes
    LineLens <- MCLineLens
    InitSizes <- MCInitSizes
    WriteCanFail = TRUE
    RotateCanFail = TRUE
SPECIFICATION Spec
INVARIANT TapeKeepsOneGeneration
PROPERTY LockWaitEnds TapeFrozenAfterClose
