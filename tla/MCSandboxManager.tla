-------------------------- MODULE MCSandboxManager --------------------------
(* Two callers and the auto-heal loop work on one session identifier.       *)
EXTENDS SandboxManager

CONSTANTS p1, p2, a, b

MCCallers == {p1, p2}

OneCaller == {p1}

OneId == {a}

TwoIds == {a, b}
=============================================================================
