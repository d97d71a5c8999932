----------------------------- MODULE DebugTape -----------------------------
(***************************************************************************)
(* The debug tape of nexusd (src/nexus/daemon/debug_tape.go): a JSONL file *)
(* at t.path, rotated to t.path+".1" when the next line would take it past *)
(* maxBytes.  Every method holds t.mu, so Record and Close are atomic.     *)
(* A file is the sequence of the segments written to it: n bytes, and    *)
(* whether they are a whole line (a failed Write leaves a prefix).        *)
(*                                                                         *)
(* The module has no Next: its callers (recordTape in the workers) conjoin *)
(* Record to their own steps, and Serve's deferred Close ends it.          *)
(***************************************************************************)
EXTENDS Naturals, Sequences, FiniteSets

CONSTANTS
    MaxBytes,      \* cfg.DebugTape.MaxBytes (>= 1, newDebugTape)
    LineLens,      \* lengths a marshalled tape line may have, newline included
    InitSizes,     \* sizes the tape file may have when nexusd starts
    WriteCanFail,  \* whether t.file.Write may fail, having written a prefix
    RotateCanFail  \* whether os.Rename or the OpenFile of rotateLocked may fail

ASSUME /\ MaxBytes \in Nat \ {0}
       /\ LineLens \subseteq Nat \ {0} /\ InitSizes \subseteq Nat
       /\ WriteCanFail \in BOOLEAN /\ RotateCanFail \in BOOLEAN

VARIABLES
    tapeFile,    \* t.file: "open", or "nil" after Close or a failed rotation
    tapeBytes,   \* t.bytes
    tape,        \* the file at t.path: a sequence of [n, whole] segments
    tape1,       \* the file at t.path+".1" (absent is empty)
    tapeLog,     \* history: lines written in full since the last rotateLocked
                 \* (cur) and between the two before it (prev)
    tapeClosed   \* history: Close has run

tapeVars == <<tapeFile, tapeBytes, tape, tape1, tapeLog, tapeClosed>>

(* A file present before nexusd started: what an earlier run wrote. *)
Earlier(size) == IF size = 0 THEN <<>> ELSE <<[n |-> size, whole |-> FALSE]>>

-----------------------------------------------------------------------------
(* newDebugTape, having returned a tape: OpenFile(O_APPEND), the size from *)
(* f.Stat() or 0 when Stat fails, and a rotation when that size is over    *)
(* maxBytes (its failure makes newDebugTape, and so New, fail).            *)
Init ==
    \E s0 \in InitSizes : \E b \in {s0, 0} :
        /\ tapeFile = "open"
        /\ tapeLog = [prev |-> 0, cur |-> 0] /\ tapeClosed = FALSE
        /\ IF b > MaxBytes
             THEN tape = <<>> /\ tape1 = Earlier(s0) /\ tapeBytes = 0
             ELSE tape = Earlier(s0) /\ tape1 = <<>> /\ tapeBytes = b

AppendSeg(f, n, len) == IF n = 0 THEN f ELSE Append(f, [n |-> n, whole |-> n = len])

(* t.file.Write(b) of a line of len bytes to file f, with t.bytes at     *)
(* base and log the lines written whole so far: all of it, or a prefix   *)
(* and an error, and then t.bytes is not advanced.                        *)
Write(f, base, len, log) ==
    \/ /\ tape' = AppendSeg(f, len, len)
       /\ tapeBytes' = base + len
       /\ tapeLog' = [log EXCEPT !.cur = @ + 1]
    \/ /\ WriteCanFail
       /\ \E n \in 0..(len - 1) : tape' = AppendSeg(f, n, len)
       /\ tapeBytes' = base
       /\ tapeLog' = log

(* A rotation starts a generation. *)
NextGen == [prev |-> tapeLog.cur, cur |-> 0]

RotateRemovesAfterRename(len) ==
    /\ tape1' = <<>> /\ tapeFile' = "open"
    /\ Write(<<>>, 0, len, NextGen)

(* rotateLocked, then the Write of the line that did not fit.  Close,     *)
(* os.Remove(path+".1") (its error is ignored, and a successful Rename    *)
(* replaces .1 anyway), os.Rename(path, path+".1"), OpenFile(O_TRUNC).    *)
(* A failed Rename or OpenFile returns with t.file nil, and Record drops  *)
(* the line.                                                               *)
RotateAndWrite(len) ==
    \/ /\ RotateCanFail                          \* Rename fails
       /\ tape1' = <<>> /\ tapeFile' = "nil" /\ tapeLog' = NextGen
       /\ UNCHANGED <<tape, tapeBytes>>
    \/ /\ RotateCanFail                          \* OpenFile fails
       /\ tape1' = tape /\ tape' = <<>> /\ tapeFile' = "nil" /\ tapeLog' = NextGen
       /\ UNCHANGED tapeBytes
    \/ /\ tape1' = tape /\ tapeFile' = "open"    \* rotated
       /\ Write(<<>>, 0, len, NextGen)

RecordNoNilCheck ==
    /\ UNCHANGED tapeClosed
    /\ \E len \in LineLens :
         IF tapeBytes + len > MaxBytes
           THEN RotateAndWrite(len)
           ELSE IF tapeFile = "nil"
                  THEN UNCHANGED <<tapeFile, tapeBytes, tape, tape1, tapeLog>>
                  ELSE Write(tape, tapeBytes, len, tapeLog) /\ UNCHANGED <<tapeFile, tape1>>

(* Record(line): a nil t.file drops the line; otherwise marshal it, rotate *)
(* first if t.bytes + len(b) > maxBytes, and write it.  The Event is never *)
(* empty at the callers, and json.Marshal of their maps does not fail.     *)
Record ==
    /\ UNCHANGED tapeClosed
    /\ \/ /\ tapeFile = "nil"
          /\ UNCHANGED <<tapeFile, tapeBytes, tape, tape1, tapeLog>>
       \/ /\ tapeFile = "open"
          /\ \E len \in LineLens :
               IF tapeBytes + len > MaxBytes
                 THEN RotateAndWrite(len)
                 ELSE Write(tape, tapeBytes, len, tapeLog) /\ UNCHANGED <<tapeFile, tape1>>

(* Close: closes a non-nil file and sets t.file to nil. *)
Close ==
    /\ ~tapeClosed
    /\ tapeFile' = "nil" /\ tapeClosed' = TRUE
    /\ UNCHANGED <<tapeBytes, tape, tape1, tapeLog>>

-----------------------------------------------------------------------------
WholeLines(f) == Cardinality({i \in DOMAIN f : f[i].whole})

(* Rotation keeps one generation: a line Record wrote in full stays in     *)
(* t.path or t.path+".1" until the second rotateLocked after it, whatever  *)
(* the callers' interleaving and whichever of Rename, OpenFile and Write   *)
(* fail.  rotateLocked must remove the old .1 before the Rename, and a    *)
(* failed rotation must leave the current file where it is.               *)
KeepsOneGeneration ==
    WholeLines(tape) + WholeLines(tape1) >= tapeLog.prev + tapeLog.cur

(* Once Serve's deferred Close has run, a worker still running (after the *)
(* shutdown timeout) never changes the tape files: Record sees t.file nil *)
(* and returns before rotateLocked could reopen the file.                 *)
FrozenAfterClose ==
    [][tapeClosed => UNCHANGED <<tape, tape1>>]_<<tape, tape1, tapeClosed>>

=============================================================================
