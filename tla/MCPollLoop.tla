----------------------------- MODULE MCPollLoop -----------------------------
(* The poll loop with threshold 2, a cooldown of 2 doubling to 4 and then  *)
(* capped at 6, retry_backoff 1 (below the cooldown, as 2 s is below 30 s  *)
(* in the defaults, so an opened breaker denies the next pass), a          *)
(* retry_after cap of 3, and retry_after values that are absent, below     *)
(* the cap and above it.                                                   *)
EXTENDS PollLoop

MCThreshold == 2
MCInitialCooldown == 2
MCMaxCooldown == 6
MCMaxTime == 6
MCMaxFailures == 6
MCRetryBackoff == 1
MCMaxRetryAfter == 3
MCPollTimeout == 1
MCRetryAfters == {0, 2, 9}
MCIdleCap == 10
=============================================================================
