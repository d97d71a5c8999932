---------------------------- MODULE FinishedWAL ----------------------------
(***************************************************************************)
(* The finished-request write-ahead log (src/nexus/daemon/wal.go): one    *)
(* JSONL file, <work_dir>/.nexus/finished.wal.  The file is modelled as a  *)
(* sequence of tokens: the JSON encoding of an entry (Rec), a prefix of it *)
(* left by a short write (Frag), and the newline that Encode appends (NL). *)
(* Every method holds w.mu, so each is one atomic step.  The entries are  *)
(* the walEntry records of distinct directives; their JSON text is        *)
(* abstracted to its identity and to whether the encoded line is longer   *)
(* than walMaxScanSize (2 MiB).                                            *)
(***************************************************************************)
EXTENDS Naturals, Sequences, SequencesExt

CONSTANTS
    Entries,      \* walEntry values, one per directive
    BigEntries,   \* entries whose encoded line exceeds walMaxScanSize
    TornWrites    \* whether a write may stop part-way (ENOSPC, crash)

ASSUME /\ BigEntries \subseteq Entries
       /\ TornWrites \in BOOLEAN

Rec(e)  == [kind |-> "rec", e |-> e]
Frag(e) == [kind |-> "frag", e |-> e]
NL      == [kind |-> "nl", e |-> "none"]

Tokens == {Rec(e) : e \in Entries} \cup {Frag(e) : e \in Entries} \cup {NL}

VARIABLES
    file,      \* contents of finished.wal
    used,      \* entries already handed to Append (each directive appends once)
    acked      \* history: entries whose Append returned nil since the last Truncate, in order

vars == <<file, used, acked>>

-----------------------------------------------------------------------------
(* bufio.Scanner with ScanLines: the lines of the file, split at NL; a     *)
(* final line without NL is still returned.  Empty lines are kept here    *)
(* and skipped by Replay.                                                  *)
RECURSIVE LinesFrom(_, _)
LinesFrom(f, cur) ==
    IF f = <<>>
      THEN IF cur = <<>> THEN <<>> ELSE <<cur>>
      ELSE IF Head(f) = NL
             THEN <<cur>> \o LinesFrom(Tail(f), <<>>)
             ELSE LinesFrom(Tail(f), Append(cur, Head(f)))

Lines(f) == LinesFrom(f, <<>>)

(* A line longer than the scanner buffer: it holds a whole big record. *)
TooLong(line) == \E i \in DOMAIN line : line[i].kind = "rec" /\ line[i].e \in BigEntries

(* json.Unmarshal succeeds only on a line that is exactly one record. *)
Decodes(line) == Len(line) = 1 /\ line[1].kind = "rec"

RECURSIVE ReplayLinesStopsAtCorrupt(_, _)
ReplayLinesStopsAtCorrupt(ls, entries) ==
    IF ls = <<>> THEN [entries |-> entries, err |-> FALSE]
    ELSE LET line == Head(ls) IN
         IF TooLong(line) THEN [entries |-> entries, err |-> TRUE]
         ELSE IF Decodes(line)
                THEN ReplayLinesStopsAtCorrupt(Tail(ls), Append(entries, line[1].e))
                ELSE IF line = <<>> THEN ReplayLinesStopsAtCorrupt(Tail(ls), entries)
                ELSE [entries |-> entries, err |-> FALSE]

(* Replay(): scan line by line, skip empty and corrupt lines; the scanner  *)
(* stops at a line longer than walMaxScanSize and reports ErrTooLong       *)
(* together with the entries decoded so far.                               *)
RECURSIVE ReplayLines(_, _)
ReplayLines(ls, entries) ==
    IF ls = <<>> THEN [entries |-> entries, err |-> FALSE]
    ELSE LET line == Head(ls) IN
         IF TooLong(line) THEN [entries |-> entries, err |-> TRUE]
         ELSE IF Decodes(line)
                THEN ReplayLines(Tail(ls), Append(entries, line[1].e))
                ELSE ReplayLines(Tail(ls), entries)

Replay(f) == ReplayLines(Lines(f), <<>>)

-----------------------------------------------------------------------------
Init ==
    /\ file = <<>>
    /\ used = {}
    /\ acked = <<>>

(* Append(entry): open with O_APPEND and Encode the entry, which writes    *)
(* the JSON text and a newline in one write.  Returns nil.                 *)
AppendOK(e) ==
    /\ e \notin used
    /\ file' = file \o <<Rec(e), NL>>
    /\ used' = used \cup {e}
    /\ acked' = Append(acked, e)

(* Append(entry) returning an error before any byte reaches the file      *)
(* (OpenFile fails, or the write fails with nothing written).             *)
AppendFails(e) ==
    /\ e \notin used
    /\ used' = used \cup {e}
    /\ UNCHANGED <<file, acked>>

(* Append(entry) whose single write stops part-way: a prefix of the JSON   *)
(* text, or all of it without the newline, reaches the file, and Encode   *)
(* returns the write error.                                                *)
AppendTorn(e) ==
    /\ TornWrites
    /\ e \notin used
    /\ \E t \in {Frag(e), Rec(e)} : file' = file \o <<t>>
    /\ used' = used \cup {e}
    /\ UNCHANGED acked

(* Truncate(): os.Truncate(path, 0). *)
Truncate ==
    /\ file' = <<>>
    /\ acked' = <<>>
    /\ UNCHANGED used

Next ==
    \/ \E e \in Entries : AppendOK(e) \/ AppendFails(e) \/ AppendTorn(e)
    \/ Truncate

Spec == Init /\ [][Next]_vars

-----------------------------------------------------------------------------
(* Spec sections 3 and 8: every entry whose Append returned nil since the *)
(* last Truncate is returned by Replay with no error, unless its own line *)
(* is over walMaxScanSize; a corrupt, torn or oversized line does not     *)
(* prevent later valid lines from being replayed.  replayWAL posts         *)
(* nothing when Replay returns an error.                                   *)
AcknowledgedReplayed ==
    LET r == Replay(file)
    IN  /\ ~r.err
        /\ \A e \in ToSet(acked) : e \notin BigEntries => Contains(r.entries, e)

(* With torn writes, what Replay still returns: an acknowledged entry is   *)
(* replayed exactly when its line starts the file or follows a newline,   *)
(* so the only acknowledged entries lost are those appended directly after *)
(* a torn write, whose text shares the torn line; a corrupt line never     *)
(* hides a later well-formed line (wal.go:86-90 skip it and go on).        *)
ReplayLosesOnlyMergedEntries ==
    LET r == Replay(file)
        StartsLine(e) ==
            \E i \in DOMAIN file : file[i] = Rec(e) /\ (i = 1 \/ file[i - 1] = NL)
    IN  /\ r.err = FALSE
        /\ \A e \in ToSet(acked) : Contains(r.entries, e) <=> StartsLine(e)

=============================================================================
