CONSTANTS
    p1 = p1
    p2 = p2
    Procs <- MCProcs
    MaxRounds <- MCMaxRounds
    MaxInodes <- MCMaxInodes
    FlockCanFail = FALSE
    MaxBytes <- MCMaxBytes
    LineLens <- MCLineLens
    InitSizes <- MCInitSizes
    WriteCanFail = FALSE
    RotateCanFail = FALSE
SPECIFICATION Spec
INVARIANT NoConcurrentClone
