----------------------------- MODULE MCProfile ------------------------------
EXTENDS Profile, TLC

MCModels == {"sonnet", "builder"}

MCFallback == [m \in MCModels |-> "builder"]

Symmetry == Permutations(Requests) \cup Permutations(Arns)
=============================================================================
