------------------------- MODULE MCExitCodeCapture -------------------------
EXTENDS ExitCodeCapture

\* Two marker characters, two digits and the newline: enough for a marker
\* split across Write calls, a non-zero code, and a line longer than the
\* partial bound.
MCNL == "nl"
MCMarker == <<"N", "X">>
MCDigitValue == ("0" :> 0) @@ ("1" :> 1)
MCChars == {"N", "X", "0", "1", MCNL}
\* 4096 bytes scaled down: one character more than the marker
MCPartialCap == 3
MCMaxOutput == 5
\* a file, which the guest may remove or create: a facility that had it
\* and an image that lost it shows that cp never deletes; and a symlink
\* leading out of the facility, there before the run or made by the guest
MCFiles == {"a", "l"}
MCOutLinks == {"l"}

=============================================================================
