------------------------------- MODULE MCDaemon -------------------------------
(* Daemon with two directives, one of them with a timeout, and one worker  *)
(* slot so that a second lease waits for the slot.                         *)
EXTENDS Daemon

CONSTANTS d1, d2

MCDirectives == {d1, d2}
MCTimed == {d1}
MCMaxWorkers == 1
MCMaxAttempts == 2
MCMaxTokenVer == 1
MCMaxRestarts == 1

\* the four profiles of spec section 3 and the empty default; no driver
\* serves darwin-automation on Linux, firecracker serves untrusted
MCLeaseProfiles == {"", "host", "untrusted", "trusted", "darwin-automation"}
MCUntrustedDriverCfg == "firecracker"

\* facility ids: a valid one, and the empty, dot-dot, slash and
\* bad-character cases isValidFacilityID rejects
MCIDChars == {"a", "-", "_"}
MCLeaseFacilityIDs == {<<"a", "-", "_">>, <<>>, <<".", ".">>, <<"a", "/", "a">>, <<"a", "%">>}
==============================================================================
