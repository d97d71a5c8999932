--------------------------- MODULE MCFinishedWAL ---------------------------
(* Four entries: enough for a failed append between two good ones and a  *)
(* torn write followed by a good one.                                     *)
EXTENDS FinishedWAL

CONSTANTS e1, e2, e3, e4

MCEntries == {e1, e2, e3, e4}
MCNoBigEntries == {}
MCOneBigEntry == {e2}
=============================================================================
