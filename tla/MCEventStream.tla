--------------------------- MODULE MCEventStream ---------------------------
(* Responses of up to MaxFrames frames about two tool calls, streamed or   *)
(* assembled.                                                              *)
EXTENDS Response

CONSTANTS t1, t2

MCToolIds == {t1, t2}

\* Every frame the parser can tell apart.
MCFrames == Frame

ToolSymmetry == Permutations(MCToolIds)
=============================================================================
