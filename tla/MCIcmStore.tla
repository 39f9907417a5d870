----------------------------- MODULE MCIcmStore -----------------------------
(* Two requests and an `icm store` process, two keys and two values. *)
EXTENDS IcmStore, TLC

CONSTANTS k1, k2, v1, v2, r1, r2, c1

MCKeys == {k1, k2}

MCValues == {v1, v2}

MCRequests == {r1, r2}

MCSymmetry == Permutations(MCKeys) \cup Permutations(MCValues) \cup Permutations(MCRequests)
=============================================================================
