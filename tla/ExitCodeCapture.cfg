CONSTANTS
    Chars <- MCChars
    NL <- MCNL
    Marker <- MCMarker
    DigitValue <- MCDigitValue
    PartialCap <- MCPartialCap
    ExitedCode = 2
    MaxOutput <- MCMaxOutput
    Files <- MCFiles
    OutLinks <- MCOutLinks
SPECIFICATION Spec
INVARIANT ReportsLastMarker WorkspaceWrittenBack
