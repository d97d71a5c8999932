--------------------------- MODULE MCFacilityLock ---------------------------
EXTENDS FacilityLock

CONSTANTS p1, p2

MCProcs == {p1, p2}
MCMaxRounds == 2
\* each Open creates at most one inode
MCMaxInodes == 4
\* a tape of 3 bytes with lines of 2: every second line rotates, and a
\* partial write of 1 byte is possible
MCMaxBytes == 3
MCLineLens == {2}
\* an empty tape, and one left over the limit by an earlier run
MCInitSizes == {0, 4}

=============================================================================
