------------------------------ MODULE PollLoop ------------------------------
(***************************************************************************)
(* The poll loop of Service.Serve (src/nexus/daemon/service.go:195-260)    *)
(* together with the circuit breaker, whose only caller it is.  Each pass *)
(* checks the root ctx, asks the breaker, and then either sleeps for the  *)
(* breaker's cooldown or long-polls the mothership.  A failed poll is      *)
(* recorded and followed by retry_backoff.  An empty answer is followed    *)
(* by retry_after_seconds (capped) or retry_backoff.  A non-empty answer   *)
(* is followed at once by the next pass; handing its leases to workers is *)
(* Daemon's Dispatch, and a free worker slot is assumed here.              *)
(*                                                                         *)
(* Time.  The breaker keeps absolute times (now, openedAt); the loop's     *)
(* single timer counts down in `left`.  Only now - openedAt matters, and   *)
(* only up to MaxCooldown, so once now has reached MaxTime a tick moves    *)
(* openedAt back instead of moving now forward.  Steps other than a sleep *)
(* and the long poll take no time: the clock only runs while the loop     *)
(* waits.                                                                  *)
(***************************************************************************)
EXTENDS Integers

CONSTANTS
    Threshold, InitialCooldown, MaxCooldown, MaxTime, MaxFailures,  \* as in CircuitBreaker
    RetryBackoff,   \* cfg.Poll.RetryBackoff
    MaxRetryAfter,  \* maxRetryAfter (service.go:23)
    PollTimeout,    \* cfg.Poll.LongPollTimeout, the http.Client timeout of Poll
    RetryAfters,    \* retry_after_seconds values an empty poll answer may carry
    IdleCap         \* bound on the idle history variable (model bound)

ASSUME /\ RetryBackoff \in Nat \ {0} /\ MaxRetryAfter \in Nat \ {0}
       /\ PollTimeout \in Nat \ {0} /\ RetryAfters \subseteq Int
       /\ MaxTime >= MaxCooldown /\ IdleCap \in Nat

VARIABLES
    state, failures, cooldown, openedAt, now, probes, failedProbes,
    pc,       \* "top" at the head of the loop, "poll" while Poll runs,
              \* "sleep" in sleepCtx, "done" once Serve has returned shutdown()
    left,     \* time until the sleep's timer fires, or until Poll's client timeout
    ctxDone,  \* the root ctx is canceled (SIGTERM)
    idle      \* history: time slept since the loop last started a poll

cbVars == <<state, failures, cooldown, openedAt, now, probes, failedProbes>>
vars == <<cbVars, pc, left, ctxDone, idle>>

CB == INSTANCE CircuitBreaker

-----------------------------------------------------------------------------
CappedDurationNoCap(seconds) == IF seconds <= 0 THEN 0 ELSE seconds

(* cappedDuration (retry.go:96-106): non-positive is 0, and the duration   *)
(* is capped at maxRetryAfter.  The int64 product of Duration(seconds) and *)
(* time.Second is not modelled: TLC's integers are 32-bit.                 *)
CappedDuration(seconds) ==
    IF seconds <= 0 THEN 0
    ELSE IF seconds > MaxRetryAfter THEN MaxRetryAfter ELSE seconds

(* sleepCtx(ctx, d) starts: its timer fires after d. *)
Sleep(d) == pc' = "sleep" /\ left' = d

Init ==
    /\ CB!Init
    /\ pc = "top"
    /\ left = 0
    /\ ctxDone = FALSE
    /\ idle = 0

(* The head of the loop with the root ctx canceled: Serve returns shutdown(). *)
LoopExit ==
    /\ pc = "top" /\ ctxDone
    /\ pc' = "done"
    /\ UNCHANGED <<cbVars, left, ctxDone, idle>>

(* cb.Allow() is false: sleep for cb.Cooldown(). *)
BreakerDenies ==
    /\ pc = "top" /\ ~ctxDone
    /\ CB!AllowFalse
    /\ Sleep(CB!Cooldown)
    /\ UNCHANGED <<ctxDone, idle>>

(* cb.Allow() is true: the long poll starts. *)
StartPoll ==
    /\ pc = "top" /\ ~ctxDone
    /\ CB!AllowTrue
    /\ pc' = "poll"
    /\ left' = PollTimeout
    /\ idle' = 0
    /\ UNCHANGED ctxDone

(* Poll returns an error (transport, non-2xx, client timeout, canceled   *)
(* ctx): RecordFailure, then sleep retry_backoff.                         *)
PollFails ==
    /\ pc = "poll"
    /\ CB!RecordFailure
    /\ Sleep(RetryBackoff)
    /\ UNCHANGED <<ctxDone, idle>>

(* Poll returns no directives: RecordSuccess, then sleep for the capped   *)
(* retry_after_seconds, or retry_backoff when it is not positive.         *)
PollEmpty ==
    /\ pc = "poll"
    /\ CB!RecordSuccess
    /\ \E ra \in RetryAfters :
         Sleep(IF ra > 0 THEN CappedDuration(ra) ELSE RetryBackoff)
    /\ UNCHANGED <<ctxDone, idle>>

PollLeasesNoRecord ==
    /\ pc = "poll"
    /\ pc' = "top"
    /\ UNCHANGED <<cbVars, left, ctxDone, idle>>

(* Poll returns leases: RecordSuccess, dispatch, and the next pass. *)
PollLeases ==
    /\ pc = "poll"
    /\ CB!RecordSuccess
    /\ pc' = "top"
    /\ UNCHANGED <<left, ctxDone, idle>>

(* sleepCtx: the timer fires, and the loop goes round. *)
Wake ==
    /\ pc = "sleep" /\ left = 0
    /\ pc' = "top"
    /\ UNCHANGED <<cbVars, left, ctxDone, idle>>

(* sleepCtx: ctx.Done() is ready (in a select with the timer, either may *)
(* win when both are); Serve returns shutdown().                          *)
SleepCanceled ==
    /\ pc = "sleep" /\ ctxDone
    /\ pc' = "done"
    /\ UNCHANGED <<cbVars, left, ctxDone, idle>>

(* SIGTERM cancels the root ctx. *)
Shutdown ==
    /\ ~ctxDone
    /\ ctxDone' = TRUE
    /\ UNCHANGED <<cbVars, pc, left, idle>>

(* Time passes while the loop waits in Poll or in a sleep. *)
Tick ==
    /\ pc \in {"poll", "sleep"} /\ left > 0
    /\ left' = left - 1
    /\ idle' = IF pc = "sleep" /\ idle < IdleCap THEN idle + 1 ELSE idle
    /\ IF now < MaxTime
         THEN now' = now + 1 /\ UNCHANGED openedAt
         ELSE openedAt' = (IF openedAt > 0 THEN openedAt - 1 ELSE 0) /\ UNCHANGED now
    /\ UNCHANGED <<state, failures, cooldown, probes, failedProbes, pc, ctxDone>>

Next ==
    \/ LoopExit \/ BreakerDenies \/ StartPoll
    \/ PollFails \/ PollEmpty \/ PollLeases
    \/ Wake \/ SleepCanceled \/ Shutdown \/ Tick

(* The loop goroutine runs whenever a step is enabled; Poll returns by its *)
(* client timeout; the clock advances.  SIGTERM owes nothing.              *)
Fairness ==
    /\ WF_vars(LoopExit) /\ WF_vars(BreakerDenies) /\ WF_vars(StartPoll)
    /\ WF_vars(PollFails \/ PollEmpty \/ PollLeases)
    /\ WF_vars(Wake) /\ WF_vars(SleepCanceled) /\ WF_vars(Tick)

Spec == Init /\ [][Next]_vars /\ Fairness

-----------------------------------------------------------------------------
TypeOK ==
    /\ CB!TypeOK
    /\ pc \in {"top", "poll", "sleep", "done"}
    /\ left \in 0..(MaxCooldown + MaxRetryAfter + RetryBackoff + PollTimeout)
    /\ ctxDone \in BOOLEAN
    /\ idle \in 0..IdleCap

(* Exponential backoff of the breaker under the loop's calls (see          *)
(* CircuitBreaker): the cooldown is min(initial * 2^k, max) after k failed *)
(* probes, and back to initial after a successful poll.                    *)
CooldownFollowsBackoff == CB!CooldownFollowsBackoff

(* Driven by the loop, the breaker still implements BreakerGate: a poll is *)
(* admitted in open only once per opening, and only its outcome leaves     *)
(* half-open.                                                              *)
GateRefined == CB!GateRefined

(* Between two polls the loop sleeps at most max(maxRetryAfter,            *)
(* retry_backoff + maxCooldown): the breaker's full cooldown after the     *)
(* retry_backoff of the failed poll that opened it always lets the next    *)
(* pass through, the cooldown stays capped, and so does retry_after.       *)
SleepBetweenPollsBounded ==
    idle <= IF MaxRetryAfter > RetryBackoff + MaxCooldown
              THEN MaxRetryAfter ELSE RetryBackoff + MaxCooldown

(* Until SIGTERM the loop polls again and again: an open breaker lets a    *)
(* probe through once its cooldown has passed, and every poll outcome is   *)
(* recorded, so the breaker never stays half-open with Allow false.        *)
PollsRecur == []<>(pc \in {"poll", "done"})

=============================================================================
