-------------------------------- MODULE Daemon --------------------------------
(***************************************************************************)
(* The nexusd daemon of src/nexus/daemon: the Serve loop with its worker   *)
(* pool (service.go), the per-directive lifecycle handleDirective and      *)
(* rejectDirective (directive.go, service.go), the heartbeat goroutine     *)
(* runHeartbeatLoop (heartbeat.go), the bounded retry postWithRetry        *)
(* (retry.go), the finished-report WAL and its replay at startup           *)
(* (replayWAL), and the environment: the mothership, SIGTERM, crashes and  *)
(* restarts.  The host driver's status rules (host.go) decide what Run     *)
(* returns.  The WAL is a sequence of lines here, each a decodable entry,  *)
(* a fragment a failed append left, or an entry merged into such a        *)
(* fragment; the byte-level format is the subject of FinishedWAL.          *)
(*                                                                         *)
(* Each goroutine step between two observable effects is one action: a    *)
(* post attempt, a heartbeat tick, the driver's return, a WAL append.      *)
(***************************************************************************)
EXTENDS Naturals, Sequences, FiniteSets

CONSTANTS
    Directives,          \* directive ids the mothership can lease
    Timed,               \* directives whose spec has timeout_seconds > 0
    MaxWorkers,          \* Poll.MaxDirectivesToClaim, the size of sem
    MaxAttempts,         \* maxAttempts of postWithRetry
    MaxTokenVer,         \* bound on token refreshes per directive
    MaxRestarts,         \* bound on process restarts
    ShutdownTimeoutSet,  \* cfg.ShutdownTimeout > 0
    WALAppendCanFail,    \* the disk may refuse a WAL append
    WALTornWrites,       \* a failed WAL append may leave a prefix of its line
    LeaseProfiles,       \* sandbox_profile values a lease may carry
    LeaseFacilityIDs,    \* facility.id values a lease may carry, as sequences of characters
    IDChars,             \* the characters isValidFacilityID accepts
    UntrustedDriverCfg   \* cfg.UntrustedDriver

ASSUME Timed \subseteq Directives /\ MaxWorkers >= 1 /\ MaxAttempts >= 1

Status == {"succeeded", "failed", "canceled", "timed_out"}
(* What postJSON returns (client.go): nil on a 2xx; a transport error from  *)
(* Do, before the server got the request ("retryable") or after it         *)
(* ("lost"); reqCtx's 10 s deadline after the server got it ("timeout");   *)
(* an HTTPError for any other status, "retryable" for 429 and 5xx and      *)
(* "fatal" for the rest.                                                   *)
Outcomes == {"ok", "lost", "timeout", "retryable", "fatal"}

VARIABLES
    \* mothership
    srv,          \* srv[d]: "queued", "leased" or "started"
    srvCancel,    \* a cancel of d was requested on the server
    srvTok,       \* version of the newest token the server issued for d
    reported,     \* the server has received a finished report for d
    \* process
    up,           \* "replaying", "serving", "draining" (root ctx canceled) or "down"
    pending,      \* leases of the last poll not yet given a worker slot
    restarts,
    rIdx,         \* replayWAL: index of the entry being posted
    rAllOK,       \* replayWAL: allOK
    rAtt,         \* replayWAL: attempt number of the current post
    wal,          \* the WAL file: lines [d, kind] (the token is not tracked)
    w,            \* w[d]: the locals of the worker goroutine of d
    \* history
    handedOff,    \* the worker's finished post or WAL append succeeded
    lateTokenSet, \* token.Set ran after the finished request read the token
    merged        \* directives whose acknowledged WAL line completed a fragment

srvVars == <<srv, srvCancel, srvTok, reported>>
procVars == <<up, pending, restarts>>
replayVars == <<rIdx, rAllOK, rAtt>>
histVars == <<handedOff, lateTokenSet, merged>>
vars == <<srvVars, procVars, replayVars, wal, w, histVars>>

Phases == {"none", "check", "rejStarted", "rejFinished", "started", "prepare",
           "run", "stopHb", "finish", "wal", "done"}

(* A heartbeat response in flight: the token it carries (0 for none) and  *)
(* cancel_requested.                                                       *)
Responses == [tok : 0..MaxTokenVer, cancel : BOOLEAN]
NoResp == [tok |-> 0, cancel |-> FALSE, none |-> TRUE]

(* The locals of handleDirective: its phase, the attempt of the current    *)
(* postWithRetry, the tokenHolder, the heartbeat goroutine, the            *)
(* cancelRequested flag, why execCtx is done, Run's result and error, and  *)
(* the reconciled status.                                                  *)
Idle == [pc |-> "none", att |-> 0, tok |-> 0, hb |-> "off", resp |-> NoResp, cancelReq |-> FALSE,
         execDone |-> "none", res |-> "none", runErr |-> FALSE, status |-> "none"]

Worker == [pc : Phases, att : 0..MaxAttempts, tok : 0..MaxTokenVer,
           hb : {"off", "on", "done"}, resp : Responses \cup {NoResp},
           cancelReq : BOOLEAN,
           execDone : {"none", "canceled", "deadline"},
           res : Status \cup {"", "none", "prepare_failed"}, runErr : BOOLEAN,
           status : Status \cup {"none"}]

Active == {d \in Directives : w[d].pc \notin {"none", "done"}}

\* Replay returns the lines json.Unmarshal decodes and skips the others
\* (wal.go:86-91)
WalEntries == SelectSeq(wal, LAMBDA l : l.kind = "rec")

InWAL(d) == \E i \in 1..Len(WalEntries) : WalEntries[i].d = d

\* execCtx is done: deadline, heartbeat cancel, or the root ctx it derives from
ExecCtxDone(d) == w[d].execDone # "none" \/ up = "draining"

HbCtxDoneWithoutCancel(d) == ExecCtxDone(d)

\* heartbeatCtx derives from execCtx and is canceled by heartbeatCancel
HbCtxDone(d) == ExecCtxDone(d) \/ w[d].pc = "stopHb"

\* host.go:141-148: a done execCtx overrides the status of the command
CtxStatus(d) == IF w[d].execDone = "deadline" THEN "timed_out" ELSE "canceled"

\* handleDirective returns: the slot is released and its locals are gone
Returned(d) == [Idle EXCEPT !.pc = "done", !.status = w[d].status]

------------------------------------------------------------------------------
(* postWithRetry: one call to fn per step.  A request can reach the server  *)
(* and still fail (a lost response); a canceled ctx fails the request.      *)

Delivered(o) == o \in {"ok", "lost", "timeout"}
Possible(o) == up = "draining" => o # "ok"
\* retryDelay(err): a transport error, a 429 and a 5xx are retried; an
\* error wrapping context.DeadlineExceeded is not (retry.go:58)
Retryable(o) == o \in {"lost", "retryable"}
\* retry.go:25-33 and 19: ctx canceled, a non-retryable error, or the last attempt
GivesUp(o, a) == ~Retryable(o) \/ up = "draining" \/ a + 1 >= MaxAttempts

------------------------------------------------------------------------------
(* What checkDiskSpace (helpers.go:23-29) reports against minDiskBytes:   *)
(* the statfs call fails (handleDirective only warns), or the available     *)
(* bytes are below the minimum, or enough.                                  *)
DiskReadings == {"statErr", "low", "enough"}

(* isValidFacilityID (helpers.go:33-46): nonempty, not "." or "..", no     *)
(* path separator, and only letters, digits, '-' and '_'.                  *)
IsValidFacilityID(id) ==
    /\ id # <<>>
    /\ id \notin {<<".">>, <<".", ".">>}
    /\ \A i \in DOMAIN id : id[i] # "/"
    /\ \A i \in DOMAIN id : id[i] \in IDChars

(* The driver factory (sandbox/factory.go) as newDriverFactory builds it   *)
(* on Linux (drivers_linux.go:48-63): host, bwrap and container, and       *)
(* firecracker when it is the configured untrusted driver.                 *)
Registered ==
    {"host", "bwrap", "container"}
        \cup (IF UntrustedDriverCfg = "firecracker" THEN {"firecracker"} ELSE {})

UntrustedDriver == IF UntrustedDriverCfg = "firecracker" THEN "firecracker" ELSE ""

\* profileToDriver: any other profile names its driver
ProfileToDriver(p) ==
    CASE p = "untrusted" -> IF UntrustedDriver # "" THEN UntrustedDriver ELSE "bwrap"
      [] p = "trusted"   -> "container"
      [] OTHER           -> p

\* DriverFactory.Get: the registered driver, with the trusted profile falling
\* back to host; "" for the error
GetDriver(p) ==
    IF ProfileToDriver(p) \in Registered THEN ProfileToDriver(p)
    ELSE IF p = "trusted" /\ "host" \in Registered THEN "host" ELSE ""

\* tokenHolder.Set: an empty token (0 here) leaves the held one
TokenSet(held, t) == IF t # 0 THEN t ELSE held

------------------------------------------------------------------------------
Init ==
    /\ srv = [d \in Directives |-> "queued"]
    /\ srvCancel = [d \in Directives |-> FALSE]
    /\ srvTok = [d \in Directives |-> 0]
    /\ reported = [d \in Directives |-> FALSE]
    /\ up = "replaying"
    /\ pending = <<>>
    /\ restarts = 0
    /\ rIdx = 1 /\ rAllOK = TRUE /\ rAtt = 0
    /\ wal = <<>>
    /\ w = [d \in Directives |-> Idle]
    /\ handedOff = [d \in Directives |-> FALSE]
    /\ lateTokenSet = FALSE
    /\ merged = {}

------------------------------------------------------------------------------
(* replayWAL, run once by Serve before polling (service.go:151, 267-300).  *)

\* one postWithRetry attempt of entry rIdx; ctx.Err() ends the loop (279-281)
ReplayPost ==
    /\ up = "replaying"
    /\ rIdx <= Len(WalEntries)
    /\ \E o \in Outcomes :
         /\ Possible(o)
         /\ reported' = IF Delivered(o)
                          THEN [reported EXCEPT ![WalEntries[rIdx].d] = TRUE]
                          ELSE reported
         /\ IF o = "ok"
              THEN rIdx' = rIdx + 1 /\ rAtt' = 0 /\ UNCHANGED rAllOK
              ELSE IF GivesUp(o, rAtt)
                     THEN rIdx' = rIdx + 1 /\ rAtt' = 0 /\ rAllOK' = FALSE
                     ELSE rAtt' = rAtt + 1 /\ UNCHANGED <<rIdx, rAllOK>>
    /\ UNCHANGED <<srv, srvCancel, srvTok, procVars, wal, w, histVars>>

ReplayEndTruncatesAlways ==
    /\ up = "replaying"
    /\ rIdx > Len(WalEntries)
    /\ wal' = IF WalEntries = <<>> THEN wal ELSE <<>>
    /\ up' = "serving"
    /\ UNCHANGED <<srvVars, pending, restarts, replayVars, w, histVars>>

\* after the last entry: Truncate only if every entry was posted (293-299);
\* no decoded entry returns before that (273-275)
ReplayEnd ==
    /\ up = "replaying"
    /\ rIdx > Len(WalEntries)
    /\ wal' = IF rAllOK /\ WalEntries # <<>> THEN <<>> ELSE wal
    /\ up' = "serving"
    /\ UNCHANGED <<srvVars, pending, restarts, replayVars, w, histVars>>

------------------------------------------------------------------------------
(* The Serve loop (service.go:194-262).                                     *)

\* a poll that leases up to MaxDirectivesToClaim queued directives (214-239)
Poll ==
    /\ up = "serving"
    /\ pending = <<>>
    /\ \E S \in SUBSET {d \in Directives : srv[d] = "queued"} :
         /\ S # {} /\ Cardinality(S) <= MaxWorkers
         /\ \E s \in [1..Cardinality(S) -> S] :
              /\ \A i, j \in DOMAIN s : s[i] = s[j] => i = j
              /\ pending' = s
         /\ srv' = [d \in Directives |-> IF d \in S THEN "leased" ELSE srv[d]]
    /\ UNCHANGED <<srvCancel, srvTok, reported, up, restarts, replayVars, wal, w,
                   histVars>>

\* an empty poll response or a poll error: the loop sleeps and polls again
PollIdle ==
    /\ up = "serving"
    /\ pending = <<>>
    /\ \A d \in Directives : srv[d] # "queued"
    /\ UNCHANGED vars

\* acquire a slot of sem and spawn handleDirective with the lease's token
\* (242-260); after SIGTERM the select may still pick a free slot
Dispatch ==
    /\ up \in {"serving", "draining"}
    /\ pending # <<>>
    /\ Cardinality(Active) < MaxWorkers
    /\ LET d == Head(pending) IN
         w' = [w EXCEPT ![d] = [Idle EXCEPT !.pc = "check", !.tok = srvTok[d]]]
    /\ pending' = Tail(pending)
    /\ UNCHANGED <<srvVars, up, restarts, replayVars, wal, histVars>>

------------------------------------------------------------------------------
(* handleDirective (directive.go:24-306) and rejectDirective (service.go:  *)
(* 96-131), one goroutine per leased directive.                            *)

\* too little disk space or an invalid facility id rejects (directive.go:30-49)
Rejects(disk, id) == disk = "low" \/ ~IsValidFacilityID(id)

\* the checks before the started post (directive.go:31-98): Rejects, then a
\* failed MkdirAll returns an error unreported; the lease's profile ("" is
\* host) selects the driver, whose absence returns and whose failed health
\* check rejects
Check(d) ==
    /\ w[d].pc = "check"
    /\ \E disk \in DiskReadings, id \in LeaseFacilityIDs, p \in LeaseProfiles :
         LET rejected == Rejects(disk, id)
             drv == GetDriver(IF p = "" THEN "host" ELSE p)
         IN  \/ rejected /\ w' = [w EXCEPT ![d].pc = "rejStarted"]
             \* os.MkdirAll of the facility fails
             \/ ~rejected /\ w' = [w EXCEPT ![d] = Returned(d)]
             \/ ~rejected /\ drv = "" /\ w' = [w EXCEPT ![d] = Returned(d)]
             \* the driver's HealthCheck: unhealthy rejects, healthy starts
             \/ ~rejected /\ drv # ""
                /\ \E healthy \in BOOLEAN :
                     w' = [w EXCEPT ![d].pc = IF healthy THEN "started" ELSE "rejStarted"]
    /\ UNCHANGED <<srvVars, procVars, replayVars, wal, histVars>>

\* one attempt of a started post: on success the worker goes on as next,
\* a failure retries or gives up and returns
StartedAttempt(d, next) ==
    /\ \E o \in Outcomes :
         /\ Possible(o)
         /\ srv' = IF Delivered(o) THEN [srv EXCEPT ![d] = "started"] ELSE srv
         /\ w' = [w EXCEPT ![d] =
                   CASE o = "ok" -> next
                     [] GivesUp(o, @.att) -> Returned(d)
                     [] OTHER -> [@ EXCEPT !.att = @ + 1]]
    /\ UNCHANGED <<srvCancel, srvTok, reported, procVars, replayVars, wal, histVars>>

\* handleDirective's started post (directive.go:113-120); success starts the
\* heartbeat goroutine (136-145)
PostStarted(d) ==
    /\ w[d].pc = "started"
    /\ StartedAttempt(d, [w[d] EXCEPT !.pc = "prepare", !.hb = "on", !.att = 0])

\* rejectDirective's started post (service.go:102-108); success goes on to
\* the finished post of status "failed"
RejectStarted(d) ==
    /\ w[d].pc = "rejStarted"
    /\ StartedAttempt(d, [w[d] EXCEPT !.pc = "rejFinished", !.status = "failed", !.att = 0])

\* prepareFacility succeeds, or the driver clones inside its sandbox
PrepareDone(d) ==
    /\ w[d].pc = "prepare"
    /\ w' = [w EXCEPT ![d].pc = "run"]
    /\ UNCHANGED <<srvVars, procVars, replayVars, wal, histVars>>

\* prepareFacility fails: heartbeatCancel, then the join (directive.go:148-156)
PrepareFailed(d) ==
    /\ w[d].pc = "prepare"
    /\ w' = [w EXCEPT ![d].pc = "stopHb", ![d].res = "prepare_failed"]
    /\ UNCHANGED <<srvVars, procVars, replayVars, wal, histVars>>

\* sandbox.StatusFrom(ctx, waitErr) of the host driver
StatusFrom(waitOK, d) ==
    CASE waitOK                     -> "succeeded"
      [] w[d].execDone = "deadline" -> "timed_out"
      [] ExecCtxDone(d)             -> "canceled"
      [] OTHER                      -> "failed"

\* drv.Run returns, then heartbeatCancel (directive.go:225, 243).  The host
\* driver returns an empty result with an error when a check, a pipe, the
\* start or the cgroup limits fail; otherwise, once both Consume calls and
\* cmd.Wait have returned, the status of StatusFrom, overridden by a done
\* execCtx, with a Consume error if there was one.
RunReturns(d) ==
    /\ w[d].pc = "run"
    /\ \E setupErr \in BOOLEAN, waitOK \in BOOLEAN, consumeErr \in BOOLEAN :
         LET r == CASE setupErr       -> ""
                    [] ExecCtxDone(d) -> CtxStatus(d)
                    [] OTHER          -> StatusFrom(waitOK, d)
         IN  w' = [w EXCEPT ![d].pc = "stopHb", ![d].res = r,
                            ![d].runErr = (setupErr \/ consumeErr)]
    /\ UNCHANGED <<srvVars, procVars, replayVars, wal, histVars>>

\* the status reported after a failed prepare (directive.go:158-166)
PrepareStatus(d) ==
    IF w[d].execDone = "deadline" THEN "timed_out"
    ELSE IF ExecCtxDone(d) THEN "canceled" ELSE "failed"

ReconcileNoEmptyCheck(d) ==
    LET s1 == IF w[d].runErr /\ w[d].res = "succeeded" THEN "failed" ELSE w[d].res
    IN  IF w[d].cancelReq /\ s1 # "succeeded" THEN "canceled" ELSE s1

\* status reconciliation after the run (directive.go:246-256)
Reconcile(d) ==
    LET s0 == IF w[d].res = "" THEN "failed" ELSE w[d].res
        s1 == IF w[d].runErr /\ s0 = "succeeded" THEN "failed" ELSE s0
    IN  IF w[d].cancelReq /\ s1 # "succeeded" THEN "canceled" ELSE s1

HeartbeatJoinedNoWait(d) ==
    /\ w[d].pc = "stopHb"
    /\ w' = [w EXCEPT ![d].pc = "finish", ![d].att = 0,
                      ![d].status = IF w[d].res = "prepare_failed"
                                      THEN PrepareStatus(d) ELSE Reconcile(d)]
    /\ UNCHANGED <<srvVars, procVars, replayVars, wal, histVars>>

\* <-heartbeatDone returns once the goroutine has exited (directive.go:155,
\* 244); the status and the finished request are computed after it
HeartbeatJoined(d) ==
    /\ w[d].pc = "stopHb"
    /\ w[d].hb # "on"
    /\ w' = [w EXCEPT ![d].pc = "finish", ![d].att = 0,
                      ![d].status = IF w[d].res = "prepare_failed"
                                      THEN PrepareStatus(d) ELSE Reconcile(d)]
    /\ UNCHANGED <<srvVars, procVars, replayVars, wal, histVars>>

\* one attempt of a finished post with token.Get(); giving up leads to the
\* WAL append
FinishedAttempt(d) ==
    /\ \E o \in Outcomes :
         /\ Possible(o)
         /\ reported' = IF Delivered(o) THEN [reported EXCEPT ![d] = TRUE] ELSE reported
         /\ handedOff' = IF o = "ok" THEN [handedOff EXCEPT ![d] = TRUE] ELSE handedOff
         /\ w' = [w EXCEPT ![d] =
                   CASE o = "ok" -> Returned(d)
                     [] GivesUp(o, @.att) -> [@ EXCEPT !.pc = "wal"]
                     [] OTHER -> [@ EXCEPT !.att = @ + 1]]
    /\ UNCHANGED <<srv, srvCancel, srvTok, procVars, replayVars, wal, lateTokenSet, merged>>

\* handleDirective's finished post (directive.go:287-291, 176-180)
PostFinished(d) == w[d].pc = "finish" /\ FinishedAttempt(d)

\* rejectDirective's finished post of exit code 1 (service.go:109-120)
RejectFinished(d) == w[d].pc = "rejFinished" /\ FinishedAttempt(d)

\* The line Encode completes: an entry, or, after a fragment with no
\* newline, the rest of one corrupt line.
NewLine(d) ==
    IF wal # <<>> /\ wal[Len(wal)].kind = "frag"
      THEN [wal EXCEPT ![Len(wal)] = [d |-> d, kind |-> "merged"]]
      ELSE Append(wal, [d |-> d, kind |-> "rec"])

\* wal.Append of [directive, token.Get(), request]: OpenFile(O_APPEND) and
\* one Encode write of the line and its newline.  An error, before any byte
\* or after a prefix of the line, is only logged (wal.go:49-60;
\* directive.go:292-299, 181-191; service.go:121-126).
WalAppend(d) ==
    /\ w[d].pc = "wal"
    /\ \/ /\ wal' = NewLine(d)
          /\ handedOff' = [handedOff EXCEPT ![d] = TRUE]
          /\ merged' = IF wal'[Len(wal')].kind = "merged" THEN merged \cup {d} ELSE merged
       \/ WALAppendCanFail /\ UNCHANGED <<wal, handedOff, merged>>
       \/ /\ WALAppendCanFail /\ WALTornWrites
          /\ wal' = IF wal # <<>> /\ wal[Len(wal)].kind = "frag"
                      THEN wal
                      ELSE Append(wal, [d |-> d, kind |-> "frag"])
          /\ UNCHANGED <<handedOff, merged>>
    /\ w' = [w EXCEPT ![d] = Returned(d)]
    /\ UNCHANGED <<srvVars, procVars, replayVars, lateTokenSet>>

------------------------------------------------------------------------------
(* runHeartbeatLoop (heartbeat.go:125-167), one goroutine per running       *)
(* directive.  A tick whose request fails changes nothing (146-151).        *)

\* a tick posts a heartbeat with token.Get() (138-143); the mothership
\* may issue a new token and reports a pending cancel
HeartbeatSend(d) ==
    /\ w[d].hb = "on"
    /\ w[d].resp = NoResp
    /\ ~HbCtxDone(d)
    /\ \E refresh \in BOOLEAN :
         /\ refresh => srvTok[d] < MaxTokenVer
         /\ srvTok' = IF refresh THEN [srvTok EXCEPT ![d] = @ + 1] ELSE srvTok
         /\ w' = [w EXCEPT ![d].resp =
                    [tok |-> IF refresh THEN srvTok[d] + 1 ELSE 0,
                     cancel |-> srvCancel[d]]]
    /\ UNCHANGED <<srv, srvCancel, reported, procVars, replayVars, wal, histVars>>

\* the response arrives: a new token is stored by token.Set, which ignores
\* "" (153-156, 33-40); a cancel sets the flag, cancels execCtx and ends the
\* loop (158-163)
HeartbeatRecv(d) ==
    /\ w[d].resp # NoResp
    /\ LET r == w[d].resp IN
         /\ w' = [w EXCEPT
                   ![d].resp = NoResp,
                   ![d].tok = TokenSet(@, r.tok),
                   ![d].cancelReq = @ \/ r.cancel,
                   ![d].execDone = IF r.cancel /\ @ = "none" THEN "canceled" ELSE @,
                   ![d].hb = IF r.cancel THEN "done" ELSE @]
         /\ lateTokenSet' = (lateTokenSet \/ (r.tok # 0 /\ w[d].pc \in {"finish", "wal"}))
    /\ UNCHANGED <<srvVars, procVars, replayVars, wal, handedOff, merged>>

\* the request fails, or hbCtx is canceled under it: the loop goes on (146-151)
HeartbeatFail(d) ==
    /\ w[d].resp # NoResp
    /\ w' = [w EXCEPT ![d].resp = NoResp]
    /\ UNCHANGED <<srvVars, procVars, replayVars, wal, histVars>>

\* the loop sees ctx.Done() and returns (136-137)
HeartbeatExit(d) ==
    /\ w[d].hb = "on"
    /\ w[d].resp = NoResp
    /\ HbCtxDone(d)
    /\ w' = [w EXCEPT ![d].hb = "done"]
    /\ UNCHANGED <<srvVars, procVars, replayVars, wal, histVars>>

------------------------------------------------------------------------------
(* The environment: the mothership's users, the timers, signals, crashes.  *)

\* a user cancels a leased or running directive on the mothership
ServerCancel(d) ==
    /\ srv[d] # "queued" /\ ~reported[d] /\ ~srvCancel[d]
    /\ srvCancel' = [srvCancel EXCEPT ![d] = TRUE]
    /\ UNCHANGED <<srv, srvTok, reported, procVars, replayVars, wal, w, histVars>>

\* the deadline of execCtx (directive.go:58-60) passes before the deferred
\* execCancel; once the status is computed it has no effect left
Timeout(d) ==
    /\ d \in Timed
    /\ w[d].pc \in {"started", "prepare", "run", "stopHb"}
    /\ ~ExecCtxDone(d)
    /\ w' = [w EXCEPT ![d].execDone = "deadline"]
    /\ UNCHANGED <<srvVars, procVars, replayVars, wal, histVars>>

\* SIGTERM cancels the root ctx: replayWAL stops (279-281), the loop calls
\* shutdown (196-197, 245-246), every execCtx is done
Shutdown ==
    /\ up \in {"replaying", "serving"}
    /\ up' = "draining"
    /\ UNCHANGED <<srvVars, pending, restarts, replayVars, wal, w, histVars>>

\* the goroutines of a process that is gone
GoneWorkers(ws) == [d \in Directives |-> IF ws[d].pc = "done" THEN ws[d] ELSE Idle]

\* shutdown returns after wg.Wait, or when ShutdownTimeout expires with
\* directives still running (service.go:167-192); the process exits
Exit ==
    /\ up = "draining"
    /\ Active = {} \/ ShutdownTimeoutSet
    /\ up' = "down"
    /\ w' = GoneWorkers(w)
    /\ pending' = <<>>
    /\ UNCHANGED <<srvVars, restarts, replayVars, wal, histVars>>

\* the process is killed at any point; only the WAL file survives
Crash ==
    /\ up # "down"
    /\ restarts < MaxRestarts
    /\ up' = "down"
    /\ w' = GoneWorkers(w)
    /\ pending' = <<>>
    /\ UNCHANGED <<srvVars, restarts, replayVars, wal, histVars>>

\* nexusd starts again and Serve begins with replayWAL
Restart ==
    /\ up = "down"
    /\ restarts < MaxRestarts
    /\ restarts' = restarts + 1
    /\ up' = "replaying"
    /\ rIdx' = 1 /\ rAllOK' = TRUE /\ rAtt' = 0
    /\ UNCHANGED <<srvVars, pending, wal, w, histVars>>

\* the daemon was stopped for good
Stopped ==
    /\ up = "down"
    /\ restarts = MaxRestarts
    /\ UNCHANGED vars

------------------------------------------------------------------------------
WorkerStep(d) ==
    \/ Check(d) \/ PostStarted(d) \/ RejectStarted(d) \/ PrepareDone(d) \/ PrepareFailed(d)
    \/ RunReturns(d) \/ HeartbeatJoined(d) \/ PostFinished(d) \/ RejectFinished(d)
    \/ WalAppend(d)
    \/ HeartbeatSend(d) \/ HeartbeatRecv(d) \/ HeartbeatFail(d) \/ HeartbeatExit(d)

Next ==
    \/ ReplayPost \/ ReplayEnd \/ Poll \/ PollIdle \/ Dispatch
    \/ \E d \in Directives : WorkerStep(d) \/ ServerCancel(d) \/ Timeout(d)
    \/ Shutdown \/ Exit \/ Crash \/ Restart \/ Stopped

(* Fairness: goroutines that can run are scheduled; the timer of a        *)
(* deadline fires; a clone or command whose execCtx is done is killed and *)
(* returns (SIGKILL to the process group).  A command with a live ctx,    *)
(* the mothership's users, signals and crashes owe nothing.              *)
Fairness ==
    /\ WF_vars(ReplayPost) /\ WF_vars(ReplayEnd) /\ WF_vars(Dispatch)
    /\ WF_vars(Exit /\ Active = {})
    /\ \A d \in Directives :
         /\ WF_vars(Check(d)) /\ WF_vars(PostStarted(d)) /\ WF_vars(RejectStarted(d))
         /\ WF_vars(HeartbeatRecv(d) \/ HeartbeatFail(d))
         /\ WF_vars(HeartbeatExit(d)) /\ WF_vars(HeartbeatJoined(d))
         /\ WF_vars(PostFinished(d)) /\ WF_vars(RejectFinished(d)) /\ WF_vars(WalAppend(d))
         /\ WF_vars(ExecCtxDone(d) /\ PrepareFailed(d))
         /\ WF_vars(ExecCtxDone(d) /\ RunReturns(d))
         /\ WF_vars(Timeout(d))

Spec == Init /\ [][Next]_vars /\ Fairness

------------------------------------------------------------------------------
TypeOK ==
    /\ srv \in [Directives -> {"queued", "leased", "started"}]
    /\ srvCancel \in [Directives -> BOOLEAN]
    /\ srvTok \in [Directives -> 0..MaxTokenVer]
    /\ reported \in [Directives -> BOOLEAN]
    /\ up \in {"replaying", "serving", "draining", "down"}
    /\ pending \in Seq(Directives)
    /\ restarts \in 0..MaxRestarts
    /\ rIdx \in 1..(Cardinality(Directives) + 1) /\ rAllOK \in BOOLEAN
    /\ rAtt \in 0..MaxAttempts
    /\ wal \in Seq([d : Directives, kind : {"rec", "frag", "merged"}])
    /\ w \in [Directives -> Worker]
    /\ handedOff \in [Directives -> BOOLEAN] /\ lateTokenSet \in BOOLEAN
    /\ merged \subseteq Directives

\* Once a worker has handed its finished report off (posted it, or appended
\* it to the WAL after the post failed), the report is at the mothership or
\* in a WAL line Replay decodes, across any crashes, restarts and replays:
\* replayWAL truncates only when every entry was posted.  The one exception
\* is a line Encode wrote onto the fragment of an earlier failed append:
\* Replay skips it as corrupt (the loss FinishedWAL's wal_torn run shows).
DeliveredOrLogged ==
    \A d \in Directives : handedOff[d] => reported[d] \/ InWAL(d) \/ d \in merged

\* The finished report (and its WAL entry) carries the final token of the
\* directive: no heartbeat response, not even one in flight when Run
\* returned, stores a new token once the finished request has read it,
\* because the worker joins the heartbeat goroutine first.
FinishedCarriesFinalToken == ~lateTokenSet

\* A worker whose command has returned, and a worker of a directive with a
\* timeout, releases its slot: heartbeatCancel ends the heartbeat loop, the
\* deadline kills the command, the posts give up after maxAttempts.
LeaseReleased ==
    \A d \in Directives :
        (w[d].pc = "stopHb" \/ (d \in Timed /\ w[d].pc \notin {"none", "done"}))
            ~> w[d].pc \in {"none", "done"}

==============================================================================
