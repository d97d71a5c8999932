--------------------------- MODULE ExitCodeCapture ---------------------------
(***************************************************************************)
(* How the firecracker driver learns the exit code of a directive          *)
(* (src/nexus/sandbox/firecracker/helpers.go exitCodeCapture and the tail  *)
(* of Driver.Run in firecracker.go).  The guest writes its serial console  *)
(* one character at a time; io.TeeReader hands what LogSink.Consume has   *)
(* read to exitCodeCapture.Write in chunks of any size.  When both        *)
(* Consume calls have returned, Run waits for firecracker, flushes the    *)
(* capture, parses the exit code and derives the RunResult.               *)
(*                                                                         *)
(* Characters are abstracted to a small alphabet: Marker is the           *)
(* NEXUS_EXIT_<nonce>= prefix as a short sequence, Digits are decimal      *)
(* digits, NL is the newline, and PartialCap stands for the 4096-byte     *)
(* tail bound of the partial-line buffer.                                  *)
(***************************************************************************)
EXTENDS Naturals, Sequences, SequencesExt, Functions

CONSTANTS
    Chars,        \* the alphabet of the serial console
    NL,           \* the newline character, in Chars
    Marker,       \* the nonce-tagged marker, a sequence over Chars
    DigitValue,   \* function from the digit characters to their value
    PartialCap,   \* bound on c.partial (4096 in the code)
    ExitedCode,   \* WaitStatus.ExitStatus() of a firecracker that exited non-zero
    MaxOutput,    \* length of the serial output (model bound)
    Files,        \* the file names the facility directory may hold
    OutLinks      \* the files that are symlinks resolving outside the facility

Digits == DOMAIN DigitValue

ASSUME /\ NL \in Chars /\ Digits \subseteq Chars
       /\ Marker \in Seq(Chars \ {NL}) /\ Len(Marker) > 0
       /\ PartialCap >= Len(Marker)
       /\ OutLinks \subseteq Files

WaitErrs == {"nil", "exited", "signaled"}   \* cmd.Wait(): nil or an ExitError
CtxErrs  == {"none", "deadline", "canceled"} \* ctx.Err()

VARIABLES
    out,       \* the serial output the guest has written (history)
    pend,      \* how much of out the TeeReader has passed to Write
    partial,   \* c.partial
    lastLine,  \* c.lastLine
    phase,     \* "setup" before cmd.Start, "run" while firecracker runs, "done" after Run returned
    waitErr,   \* what cmd.Wait() returned
    result,    \* the RunResult's exit code, status and whether it carries a warning
    facility,  \* the files of req.FacilityPath
    facility0, \* history: the facility when Run was called
    image      \* the files of workspace.ext4, "none" before it is created

vars == <<out, pend, partial, lastLine, phase, waitErr, result, facility, facility0, image>>
wsVars == <<facility, facility0, image>>

-----------------------------------------------------------------------------
(* strings.Contains(line, c.marker) and strings.Index(line, c.marker). *)
MarkerAt(line) ==
    {i \in 1..(Len(line) + 1 - Len(Marker)) :
        SubSeq(line, i, i + Len(Marker) - 1) = Marker}
HasMarker(line) == MarkerAt(line) # {}

(* The partial-line bound: keep the last PartialCap characters. *)
TailBound(data) ==
    IF Len(data) > PartialCap THEN SubSeq(data, Len(data) - PartialCap + 1, Len(data))
                              ELSE data

(* The loop of Write: cut data at each newline, keep a line containing   *)
(* the marker as the last match, and leave the rest, tail-bounded, as     *)
(* the partial line.                                                       *)
RECURSIVE ScanLines(_, _)
ScanLines(data, last) ==
    LET nls == {i \in DOMAIN data : data[i] = NL} IN
    IF nls = {}
      THEN [partial |-> TailBound(data), lastLine |-> last]
      ELSE LET idx  == Min(nls)
               line == SubSeq(data, 1, idx - 1)
           IN  ScanLines(SubSeq(data, idx + 1, Len(data)),
                         IF HasMarker(line) THEN line ELSE last)

WriteDropsPartial(p) == ScanLines(p, lastLine)

(* exitCodeCapture.Write(p): data := c.partial + string(p). *)
CaptureWrite(p) == ScanLines(partial \o p, lastLine)

(* Flush(): a partial line holding the marker becomes the last match. *)
Flush(part, last) == IF part # <<>> /\ HasMarker(part) THEN part ELSE last

(* strconv.Atoi of a string of digits. *)
RECURSIVE Atoi(_)
Atoi(s) == IF s = <<>> THEN 0 ELSE 10 * Atoi(Front(s)) + DigitValue[Last(s)]

(* The number of leading digits of s. *)
LeadingDigits(s) ==
    Max({n \in 0..Len(s) : \A i \in 1..n : s[i] \in Digits})

(* ExitCode(): the digits right after the first marker of the last       *)
(* match, or -1 when there is no match or no digit.                       *)
ExitCode(line) ==
    IF line = <<>> \/ ~HasMarker(line) THEN -1
    ELSE LET numStr == SubSeq(line, Min(MarkerAt(line)) + Len(Marker), Len(line))
             end    == LeadingDigits(numStr)
         IN  IF end = 0 THEN -1 ELSE Atoi(SubSeq(numStr, 1, end))

(* processExitCode(waitErr): the exit status, 128 + SIGKILL, or 1. *)
ProcessExitCode(e) ==
    CASE e = "nil"      -> 0
      [] e = "exited"   -> ExitedCode
      [] e = "signaled" -> 128 + 9

(* statusFrom(waitErr, ctx). *)
StatusFrom(e, ctxErr) ==
    CASE e = "nil"              -> "succeeded"
      [] ctxErr = "deadline"    -> "timed_out"
      [] ctxErr = "canceled"    -> "canceled"
      [] OTHER                  -> "failed"

-----------------------------------------------------------------------------
(* The zero RunResult that every early return of Run carries. *)
EmptyResult == [exitCode |-> 0, status |-> "", warning |-> FALSE]

Init ==
    /\ out = <<>>
    /\ pend = 0
    /\ partial = <<>>
    /\ lastLine = <<>>
    /\ phase = "setup"
    /\ waitErr = "nil"
    /\ result = [exitCode |-> 0, status |-> "none", warning |-> FALSE]
    /\ facility \in SUBSET Files
    /\ facility0 = facility
    /\ image = "none"

ExtractedDropsWarning(st, warned) ==
    IF st \in {"succeeded", "failed"}
      THEN \/ warned /\ UNCHANGED facility
           \/ \E copied \in SUBSET image : facility' = (facility \cup copied) \ OutLinks
      ELSE /\ ~warned
           /\ UNCHANGED facility

(* A setup step returns an error (MkdirTemp, StartForDirective,          *)
(* StartVsockBridge, generateNonce, resolveCwd, PrepareGitCloneArgs,      *)
(* GenerateWrapper, run.sh, either mke2fs, the VM config, the pipes or    *)
(* cmd.Start): Run returns the empty result, and the deferred bridge.Stop, *)
(* proxyInst.Stop and RemoveAll(tmpDir) run.  The workspace image, if     *)
(* made, lives in tmpDir and goes with it.                                 *)
SetupFails ==
    /\ phase = "setup"
    /\ phase' = "done"
    /\ result' = EmptyResult
    /\ UNCHANGED <<out, pend, partial, lastLine, waitErr, wsVars>>

(* Every setup step succeeds: CreateImageFromDir copies the facility     *)
(* into workspace.ext4 (mke2fs -d) and cmd.Start boots the VM.             *)
Boot ==
    /\ phase = "setup"
    /\ image' = facility
    /\ phase' = "run"
    /\ UNCHANGED <<out, pend, partial, lastLine, waitErr, result, facility, facility0>>

(* The guest command creates or removes a file of /workspace. *)
GuestEdit ==
    /\ phase = "run"
    /\ \E f \in Files : image' = (image \ {f}) \cup ({f} \ image)
    /\ UNCHANGED <<out, pend, partial, lastLine, phase, waitErr, result, facility, facility0>>

(* The guest writes a character to the serial console. *)
GuestOutput ==
    /\ phase = "run"
    /\ Len(out) < MaxOutput
    /\ \E ch \in Chars : out' = Append(out, ch)
    /\ UNCHANGED <<pend, partial, lastLine, phase, waitErr, result, wsVars>>

(* Consume reads the next k characters from the stdout pipe; the tee     *)
(* writes them to serialCapture.                                           *)
TeeWrite ==
    /\ phase = "run"
    /\ \E k \in 1..(Len(out) - pend) :
         LET r == CaptureWrite(SubSeq(out, pend + 1, pend + k)) IN
         /\ pend' = pend + k
         /\ partial' = r.partial
         /\ lastLine' = r.lastLine
    /\ UNCHANGED <<out, phase, waitErr, result, wsVars>>

(* ExtractImageToDir(wsImagePath, FacilityPath): a failed fuse2fs mount    *)
(* exits 1 before any copy.  Otherwise cp -rp copies the image's files     *)
(* over the facility (any part of them when cp fails), and whatever cp's   *)
(* exit, the script then removes every symlink of the facility whose      *)
(* readlink -f target lies outside it, one the guest made or one that was *)
(* there before; nothing else is removed.  The script's error becomes a   *)
(* warning.  A status of canceled or timed_out skips it.                  *)
Extracted(st, warned) ==
    IF st \in {"succeeded", "failed"}
      THEN \/ warned /\ UNCHANGED facility
           \/ \E copied \in SUBSET image :
                /\ ~warned => copied = image
                /\ facility' = (facility \cup copied) \ OutLinks
      ELSE /\ ~warned
           /\ UNCHANGED facility

(* Both Consume calls returned at EOF: cmd.Wait, Flush, ExitCode, the    *)
(* exit code fallbacks, statusFrom, the ctx overrides, and the workspace *)
(* extraction for a succeeded or failed status.  ctx.Err() is read by    *)
(* statusFrom and again afterwards; it may turn from nil to an error in   *)
(* between but never back.                                                 *)
Finish ==
    /\ phase = "run"
    /\ pend = Len(out)
    /\ \E e \in WaitErrs, c1 \in CtxErrs, c2 \in CtxErrs :
         /\ c1 # "none" => c2 = c1
         /\ LET last     == Flush(partial, lastLine)
                captured == ExitCode(last)
                code     == IF captured >= 0 THEN captured
                            ELSE IF e = "nil" THEN 0 ELSE ProcessExitCode(e)
                s0       == StatusFrom(e, c1)
                s1       == IF code # 0 /\ s0 = "succeeded" THEN "failed" ELSE s0
                r1       == IF c2 = "deadline" THEN [exitCode |-> 124, status |-> "timed_out"]
                            ELSE [exitCode |-> code, status |-> s1]
                r2       == IF c2 = "canceled" /\ r1.status # "timed_out"
                              THEN [r1 EXCEPT !.status = "canceled"] ELSE r1
            IN  /\ lastLine' = last
                /\ \E warned \in BOOLEAN :
                     /\ result' = [exitCode |-> r2.exitCode, status |-> r2.status, warning |-> warned]
                     /\ Extracted(r2.status, warned)
         /\ waitErr' = e
    /\ partial' = <<>>
    /\ phase' = "done"
    /\ UNCHANGED <<out, pend, facility0, image>>

(* Run has returned. *)
Returned ==
    /\ phase = "done"
    /\ UNCHANGED vars

Next == SetupFails \/ Boot \/ GuestEdit \/ GuestOutput \/ TeeWrite \/ Finish \/ Returned

Spec == Init /\ [][Next]_vars

-----------------------------------------------------------------------------
(* The reference reading of spec section 4.4 step 6: split the whole      *)
(* output into lines; the last line holding the marker counts, and its   *)
(* code is the decimal right after the marker.  LineAt(a, b) says that    *)
(* out[a..b] is a whole line, ended by NL or by the end of the output.   *)
LineAt(a, b) ==
    /\ a = 1 \/ out[a - 1] = NL
    /\ b = Len(out) \/ out[b + 1] = NL
    /\ \A i \in a..b : out[i] # NL

MarkerLines ==
    {ab \in (1..Len(out)) \X (0..Len(out)) :
        ab[1] <= ab[2] + 1 /\ LineAt(ab[1], ab[2]) /\ HasMarker(SubSeq(out, ab[1], ab[2]))}

LastMarkerLine ==
    LET ab == CHOOSE x \in MarkerLines : \A y \in MarkerLines : y[1] <= x[1]
    IN  SubSeq(out, ab[1], ab[2])

(* The marker line the wrapper echoes is short; a line of output before  *)
(* it without a newline only lengthens it in front.  The reference holds *)
(* when the last marker line has one marker, in its last PartialCap      *)
(* characters.                                                             *)
MarkerInTail ==
    MarkerLines # {} =>
        LET l == LastMarkerLine
        IN  /\ Cardinality(MarkerAt(l)) = 1
            /\ Min(MarkerAt(l)) > Len(l) - PartialCap

RefCode ==
    IF MarkerLines = {} THEN -1
    ELSE LET l   == LastMarkerLine
             num == SubSeq(l, Min(MarkerAt(l)) + Len(Marker), Len(l))
             n   == LeadingDigits(num)
         IN  IF n = 0 THEN -1 ELSE Atoi(SubSeq(num, 1, n))

(* However the serial output is cut into Write calls, a run whose        *)
(* firecracker exited cleanly with a live ctx reports the code of the     *)
(* last marker line, and status succeeded exactly when that code is 0:   *)
(* Write's partial-line carry-over, the tail bound and Flush never lose   *)
(* or invent a match, and the derivation in Run keeps the captured code. *)
ReportsLastMarker ==
    (phase = "done" /\ waitErr = "nil" /\ MarkerInTail /\ RefCode >= 0
        /\ result.status \in {"succeeded", "failed"})
        => /\ result.exitCode = RefCode
           /\ result.status = IF RefCode = 0 THEN "succeeded" ELSE "failed"

(* The facility after Run returns (firecracker.go 302-311 and blockdev.go *)
(* ExtractImageToDir): a run that ended canceled or timed_out, or failed  *)
(* in setup, leaves the facility as it was; a succeeded or failed run     *)
(* without a warning holds every file the guest left in /workspace and    *)
(* besides them only files it held before (cp -rp never deletes, so a     *)
(* file the guest removed stays), less every symlink leading out of the   *)
(* facility; a warning may leave any part of the guest's files uncopied,  *)
(* never anything else, and an outward symlink survives only when the    *)
(* facility was left exactly as it was.                                   *)
WorkspaceWrittenBack ==
    phase = "done" =>
        IF result.status \in {"succeeded", "failed"}
          THEN /\ ~result.warning => facility = (facility0 \cup image) \ OutLinks
               /\ facility \subseteq facility0 \cup image
               /\ facility \cap OutLinks # {} => facility = facility0
          ELSE facility = facility0

=============================================================================
