---------------------------- MODULE BreakerGate ----------------------------
(***************************************************************************)
(* What the poll-loop circuit breaker promises, without its clock: the     *)
(* state-transition comment of src/nexus/daemon/circuitbreaker.go (lines   *)
(* 32-37) as a state machine.  The gate is closed, open or probing; a run  *)
(* of consecutive failures opens it, a probe is let through only from the  *)
(* open gate, and the probe's outcome closes or reopens it.  When the      *)
(* cooldown has elapsed is left unspecified: Probe may happen at any time  *)
(* while the gate is open.  CircuitBreaker implements this specification   *)
(* under the mapping in CircuitBreaker.tla.                                *)
(***************************************************************************)
EXTENDS Naturals

CONSTANTS
    Threshold,    \* consecutive failures that open the gate
    MaxFailures   \* bound on the failure run (model bound)

VARIABLES
    gate,      \* "closed", "open" or "probing"
    streak,    \* failures recorded since the last success
    admitted   \* requests let through since the gate last opened

vars == <<gate, streak, admitted>>

Init ==
    /\ gate = "closed"
    /\ streak = 0
    /\ admitted = 0

(* A failure extends the run.  A closed gate opens when the run reaches    *)
(* the threshold, a failed probe reopens it, an open gate stays open.      *)
Fail ==
    /\ streak < MaxFailures
    /\ streak' = streak + 1
    /\ gate' = IF gate = "closed" /\ streak + 1 < Threshold THEN "closed" ELSE "open"
    /\ admitted' = IF gate' = "open" /\ gate # "open" THEN 0 ELSE admitted

(* A success ends the run and closes the gate from any state. *)
Succeed ==
    /\ streak' = 0
    /\ gate' = "closed"
    /\ admitted' = 0

(* An open gate lets exactly one request through and starts probing. *)
Probe ==
    /\ gate = "open"
    /\ gate' = "probing"
    /\ admitted' = admitted + 1
    /\ UNCHANGED streak

Next == Fail \/ Succeed \/ Probe

Spec == Init /\ [][Next]_vars

=============================================================================
