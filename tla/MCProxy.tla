------------------------------ MODULE MCProxy ------------------------------
(* One request and two runs of `openkiro refresh`, or two requests, and    *)
(* tokens of two lengths.                                                  *)
EXTENDS Proxy

CONSTANTS r1, r2, c1, c2

MCRequests == {r1, r2}

MCOneRequest == {r1}

MCRefreshers == {c1, c2}

\* The token Kiro issues second is the shorter one.
MCTokenLen == <<2, 1>>
=============================================================================
