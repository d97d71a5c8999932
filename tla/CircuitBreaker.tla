--------------------------- MODULE CircuitBreaker ---------------------------
(***************************************************************************)
(* The poll-loop circuit breaker of nexusd (src/nexus/daemon/             *)
(* circuitbreaker.go).  Every method runs under cb.mu, so each one is a    *)
(* single atomic step, written here as an action that a caller conjoins  *)
(* with its own step.  The only caller is the poll loop of Service.Serve;  *)
(* PollLoop composes the two and advances the wall clock.  Durations are  *)
(* integers in an abstract time unit.                                      *)
(***************************************************************************)
EXTENDS Naturals

CONSTANTS
    Threshold,        \* consecutive failures that open the breaker
    InitialCooldown,  \* cooldown after the first opening
    MaxCooldown,      \* cap on the doubled cooldown
    MaxTime,          \* bound on the clock (model bound)
    MaxFailures       \* bound on the failure counter (model bound)

ASSUME /\ Threshold \in Nat \ {0}
       /\ InitialCooldown \in Nat \ {0}
       /\ MaxCooldown \in Nat /\ MaxCooldown >= InitialCooldown
       /\ MaxTime \in Nat /\ MaxFailures \in Nat

Closed   == "closed"
Open     == "open"
HalfOpen == "half-open"

VARIABLES
    state,      \* cb.state
    failures,   \* cb.failures
    cooldown,   \* cb.cooldown
    openedAt,   \* cb.openedAt
    now,        \* cb.nowFn(): the wall clock
    (* history, for the properties only *)
    probes,       \* Allow() calls that returned TRUE since the breaker last opened
    failedProbes  \* consecutive failed half-open probes since the last RecordSuccess

vars == <<state, failures, cooldown, openedAt, now, probes, failedProbes>>

-----------------------------------------------------------------------------
(* newCircuitBreaker: closed, no failures, cooldown at its initial value. *)
Init ==
    /\ state = Closed
    /\ failures = 0
    /\ cooldown = InitialCooldown
    /\ openedAt = 0
    /\ now = 0
    /\ probes = 0
    /\ failedProbes = 0

(* Allow() returning TRUE: always in closed; in open once the cooldown has *)
(* elapsed, moving to half-open.  In half-open it returns FALSE.          *)
AllowTrue ==
    \/ /\ state = Closed
       /\ UNCHANGED vars
    \/ /\ state = Open
       /\ now - openedAt >= cooldown
       /\ state' = HalfOpen
       /\ probes' = 1
       /\ UNCHANGED <<failures, cooldown, openedAt, now, failedProbes>>

(* Allow() returning FALSE: half-open, or open within the cooldown.  It   *)
(* changes no state.                                                       *)
AllowFalse ==
    /\ \/ state = HalfOpen
       \/ state = Open /\ now - openedAt < cooldown
    /\ UNCHANGED vars

RecordSuccessKeepsCooldown ==
    /\ failures' = 0
    /\ state' = Closed
    /\ probes' = 0
    /\ failedProbes' = 0
    /\ UNCHANGED <<cooldown, openedAt, now>>

(* RecordSuccess(): reset failures and cooldown, close. *)
RecordSuccess ==
    /\ failures' = 0
    /\ cooldown' = InitialCooldown
    /\ state' = Closed
    /\ probes' = 0
    /\ failedProbes' = 0
    /\ UNCHANGED <<openedAt, now>>

DoubledCooldownUncapped(c) == 2 * c

(* The doubled cooldown of a failed probe, capped at maxCooldown. *)
DoubledCooldown(c) == IF 2 * c > MaxCooldown THEN MaxCooldown ELSE 2 * c

RecordFailureOffByOne ==
    /\ failures < MaxFailures
    /\ failures' = failures + 1
    /\ \/ /\ state = Closed
          /\ IF failures + 1 > Threshold
               THEN state' = Open /\ openedAt' = now /\ probes' = 0
               ELSE UNCHANGED <<state, openedAt, probes>>
          /\ UNCHANGED <<cooldown, failedProbes>>
       \/ /\ state = HalfOpen
          /\ state' = Open
          /\ openedAt' = now
          /\ cooldown' = DoubledCooldown(cooldown)
          /\ probes' = 0
          /\ failedProbes' = failedProbes + 1
       \/ state = Open /\ UNCHANGED <<state, openedAt, cooldown, probes, failedProbes>>
    /\ UNCHANGED now

(* RecordFailure(): count the failure; closed opens at the threshold,     *)
(* half-open reopens with a doubled cooldown; open only counts.           *)
RecordFailure ==
    /\ failures < MaxFailures
    /\ failures' = failures + 1
    /\ \/ /\ state = Closed
          /\ IF failures + 1 >= Threshold
               THEN /\ state' = Open
                    /\ openedAt' = now
                    /\ probes' = 0
               ELSE UNCHANGED <<state, openedAt, probes>>
          /\ UNCHANGED <<cooldown, failedProbes>>
       \/ /\ state = HalfOpen
          /\ state' = Open
          /\ openedAt' = now
          /\ cooldown' = DoubledCooldown(cooldown)
          /\ probes' = 0
          /\ failedProbes' = failedProbes + 1
       \/ /\ state = Open
          /\ UNCHANGED <<state, openedAt, cooldown, probes, failedProbes>>
    /\ UNCHANGED now

(* Cooldown(): the current cooldown, which the poll loop sleeps for. *)
Cooldown == cooldown

-----------------------------------------------------------------------------
TypeOK ==
    /\ state \in {Closed, Open, HalfOpen}
    /\ failures \in 0..MaxFailures
    /\ cooldown \in InitialCooldown..MaxCooldown
    /\ openedAt \in 0..MaxTime
    /\ now \in 0..MaxTime
    /\ probes \in Nat
    /\ failedProbes \in Nat

(* Exponential backoff: after k consecutive failed half-open probes the    *)
(* cooldown is min(initial * 2^k, max), and a success brings it back to   *)
(* the initial value (RecordSuccess and RecordFailure's half-open branch). *)
CooldownFollowsBackoff ==
    LET uncapped == InitialCooldown * 2^failedProbes
    IN  cooldown = IF uncapped > MaxCooldown THEN MaxCooldown ELSE uncapped

(* The breaker implements BreakerGate: under the mapping below every call *)
(* of Allow, RecordSuccess and RecordFailure is a step of the abstract     *)
(* gate or leaves it unchanged, and the clock never moves it.  This says   *)
(* at once that RecordFailure never skips the closed -> open edge at the   *)
(* threshold, that Allow lets one probe through per opening and only from *)
(* open, and that a probe's outcome is the only way out of half-open.      *)
GateOf == [s \in {Closed, Open, HalfOpen} |->
             IF s = HalfOpen THEN "probing" ELSE s]

Gate == INSTANCE BreakerGate WITH
            gate <- GateOf[state], streak <- failures, admitted <- probes

GateRefined == Gate!Spec

=============================================================================
