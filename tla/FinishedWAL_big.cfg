CONSTANTS
    e1 = e1
    e2 = e2
    e3 = e3
    e4 = e4
    Entries <- MCEntries
    BigEntries <- MCOneBigEntry
    TornWrites = FALSE
SPECIFICATION Spec
INVARIANT AcknowledgedReplayed
