---------------------------- MODULE FacilityLock ----------------------------
(***************************************************************************)
(* The clone lock of prepareFacility (src/nexus/daemon/directive.go).     *)
(* Each member of Procs is a worker, in this nexusd or another, that runs  *)
(* prepareFacility for directives of the same facility, one after         *)
(* another, up to MaxRounds times.  The lock is flock(2) on the file open  *)
(* at <facility>.lock: it belongs to the inode, not to the path.  The      *)
(* deferred calls run in reverse order: LOCK_UN, os.Remove(lockPath),      *)
(* Close.  The facility directory is empty, or holds a finished clone;    *)
(* a failed git clone leaves it empty again.                               *)
(*                                                                         *)
(* The recordTape calls of prepareFacility write to the daemon's one debug *)
(* tape, shared by all workers: each is part of the step that makes it,   *)
(* and Tape (DebugTape) models the file they go to.                        *)
(***************************************************************************)
EXTENDS Naturals, FiniteSets

CONSTANTS
    Procs,       \* concurrent prepareFacility callers for one facility
    MaxRounds,   \* directives per caller (model bound)
    MaxInodes,   \* lock-file inodes ever created (model bound)
    FlockCanFail, \* whether Flock(LOCK_EX) may return an error
    MaxBytes, LineLens, InitSizes, WriteCanFail, RotateCanFail  \* as in DebugTape

None == 0
Inodes == 1..MaxInodes

VARIABLES
    pc,       \* pc[p]: where caller p is in prepareFacility
    fd,       \* fd[p]: inode of p's open lockFile, or None
    path,     \* inode currently linked at <facility>.lock, or None
    holder,   \* holder[i]: the caller holding LOCK_EX on inode i, or None
    dir,      \* facility directory: "empty" or "full"
    rounds,   \* prepareFacility calls p has finished
    inodes,   \* inodes created so far
    tapeFile, tapeBytes, tape, tape1, tapeLog, tapeClosed

tapeVars == <<tapeFile, tapeBytes, tape, tape1, tapeLog, tapeClosed>>
vars == <<pc, fd, path, holder, dir, rounds, inodes, tapeVars>>

Tape == INSTANCE DebugTape

Init ==
    /\ pc = [p \in Procs |-> "idle"]
    /\ fd = [p \in Procs |-> None]
    /\ path = None
    /\ holder = [i \in Inodes |-> None]
    /\ dir = "empty"
    /\ rounds = [p \in Procs |-> 0]
    /\ inodes = 0
    /\ Tape!Init

(* Return from prepareFacility after the deferred calls have run. *)
Return(p) ==
    /\ pc' = [pc EXCEPT ![p] = "idle"]
    /\ fd' = [fd EXCEPT ![p] = None]
    /\ rounds' = [rounds EXCEPT ![p] = @ + 1]

-----------------------------------------------------------------------------
(* os.OpenFile(lockPath, O_CREATE|O_RDWR): opens the inode at the path,   *)
(* or creates and links a new one when none is there.  The repo_url and   *)
(* scheme checks before it return without touching the lock.              *)
Open(p) ==
    /\ pc[p] = "idle"
    /\ rounds[p] < MaxRounds
    /\ \/ /\ path # None
          /\ fd' = [fd EXCEPT ![p] = path]
          /\ UNCHANGED <<path, inodes>>
       \/ /\ path = None
          /\ inodes < MaxInodes
          /\ inodes' = inodes + 1
          /\ path' = inodes + 1
          /\ fd' = [fd EXCEPT ![p] = inodes + 1]
    /\ pc' = [pc EXCEPT ![p] = "lock"]
    /\ UNCHANGED <<holder, dir, rounds, tapeVars>>

(* syscall.Flock(LOCK_EX): blocks until no other open file of the same    *)
(* inode holds the lock.                                                   *)
Lock(p) ==
    /\ pc[p] = "lock"
    /\ holder[fd[p]] = None
    /\ holder' = [holder EXCEPT ![fd[p]] = p]
    /\ pc' = [pc EXCEPT ![p] = "readdir"]
    /\ UNCHANGED <<fd, path, dir, rounds, inodes, tapeVars>>

(* Flock returns an error (EINTR, ENOLCK): return, running the deferred   *)
(* os.Remove(lockPath) and Close.                                          *)
LockFails(p) ==
    /\ FlockCanFail
    /\ pc[p] = "lock"
    /\ pc' = [pc EXCEPT ![p] = "unlink"]
    /\ UNCHANGED <<fd, path, holder, dir, rounds, inodes, tapeVars>>

(* os.ReadDir(facilityPath): a ReadDir error returns; a non-empty         *)
(* workspace records prepare_clone_skipped and returns (the deferred      *)
(* unlock follows); an empty one records prepare_clone_started and goes   *)
(* on to clone.                                                            *)
ReadDirSkipLeaksLock(p) ==
    /\ pc[p] = "readdir"
    /\ \/ /\ dir = "empty" /\ pc' = [pc EXCEPT ![p] = "clone"] /\ Tape!Record
          /\ UNCHANGED <<fd, rounds>>
       \/ dir = "full" /\ Return(p) /\ Tape!Record
       \/ Return(p) /\ UNCHANGED tapeVars
    /\ UNCHANGED <<path, holder, dir, inodes>>

ReadDir(p) ==
    /\ pc[p] = "readdir"
    /\ \/ dir = "empty" /\ pc' = [pc EXCEPT ![p] = "clone"] /\ Tape!Record
       \/ dir = "full" /\ pc' = [pc EXCEPT ![p] = "unlock"] /\ Tape!Record
       \/ pc' = [pc EXCEPT ![p] = "unlock"] /\ UNCHANGED tapeVars
    /\ UNCHANGED <<fd, path, holder, dir, rounds, inodes>>

(* git clone --depth 1 -- <url> . and the wait for it.  A Consume error   *)
(* returns at once, whatever the clone left; a cmd.Wait error records     *)
(* prepare_clone_failed and leaves the directory empty; success records   *)
(* prepare_clone_succeeded with the directory filled.                     *)
CloneEnd(p) ==
    /\ pc[p] = "clone"
    /\ \/ dir' \in {"empty", "full"} /\ UNCHANGED tapeVars
       \/ dir' = "empty" /\ Tape!Record
       \/ dir' = "full" /\ Tape!Record
    /\ pc' = [pc EXCEPT ![p] = "unlock"]
    /\ UNCHANGED <<fd, path, holder, rounds, inodes>>

(* Deferred syscall.Flock(LOCK_UN). *)
Unlock(p) ==
    /\ pc[p] = "unlock"
    /\ holder' = [holder EXCEPT ![fd[p]] = None]
    /\ pc' = [pc EXCEPT ![p] = "unlink"]
    /\ UNCHANGED <<fd, path, dir, rounds, inodes, tapeVars>>

(* Deferred os.Remove(lockPath) then lockFile.Close(): the path is        *)
(* unlinked whatever inode is linked there now; closing the last file of  *)
(* an inode drops a lock still held on it.                                 *)
Unlink(p) ==
    /\ pc[p] = "unlink"
    /\ path' = None
    /\ holder' = IF holder[fd[p]] = p THEN [holder EXCEPT ![fd[p]] = None] ELSE holder
    /\ Return(p)
    /\ UNCHANGED <<dir, inodes, tapeVars>>

(* A repo_url whose scheme IsAllowedRepoScheme rejects: recordTape        *)
(* prepare_clone_rejected, and return before the lock file is opened.    *)
Reject(p) ==
    /\ pc[p] = "idle"
    /\ rounds[p] < MaxRounds
    /\ Tape!Record
    /\ rounds' = [rounds EXCEPT ![p] = @ + 1]
    /\ UNCHANGED <<pc, fd, path, holder, dir, inodes>>

(* Serve returns and its deferred s.tape.Close() runs; after the shutdown *)
(* timeout, workers may still be inside prepareFacility.                   *)
TapeClose ==
    /\ Tape!Close
    /\ UNCHANGED <<pc, fd, path, holder, dir, rounds, inodes>>

(* Every caller has run its MaxRounds calls (model bound). *)
Finished ==
    /\ \A p \in Procs : rounds[p] = MaxRounds
    /\ UNCHANGED vars

Next ==
    \/ Finished
    \/ TapeClose
    \/ \E p \in Procs :
           \/ Reject(p) \/ Open(p) \/ Lock(p) \/ LockFails(p) \/ ReadDir(p)
           \/ CloneEnd(p) \/ Unlock(p) \/ Unlink(p)

(* Every step of a started call but the clone is a system call that the  *)
(* worker always completes; git clone may run as long as its context      *)
(* lets it, and a new call starts only when a directive arrives.          *)
Fairness ==
    \A p \in Procs :
        /\ WF_vars(Lock(p)) /\ WF_vars(ReadDir(p))
        /\ WF_vars(Unlock(p)) /\ WF_vars(Unlink(p))

Spec == Init /\ [][Next]_vars /\ Fairness

-----------------------------------------------------------------------------
(* The purpose of the lock (spec: "prevent concurrent clone races on the  *)
(* same facility"): at most one caller runs git clone in the facility at  *)
(* a time.                                                                 *)
NoConcurrentClone ==
    Cardinality({p \in Procs : pc[p] = "clone"}) <= 1

(* A caller blocked in Flock(LOCK_EX) eventually gets the lock or fails,  *)
(* provided every git clone ends: the deferred unlock, remove and close   *)
(* run on every return path of prepareFacility.                           *)
LockWaitEnds ==
    (\A p \in Procs : WF_vars(CloneEnd(p)))
        => \A p \in Procs : pc[p] = "lock" ~> pc[p] # "lock"

(* See DebugTape: a line prepareFacility recorded in full stays on disk   *)
(* until the second rotation after it, under any interleaving of the      *)
(* callers' records and any failure of Rename, OpenFile and Write.        *)
TapeKeepsOneGeneration == Tape!KeepsOneGeneration

(* See DebugTape: a caller still in prepareFacility after Serve closed the *)
(* tape never changes the tape files.                                      *)
TapeFrozenAfterClose == Tape!FrozenAfterClose

=============================================================================
