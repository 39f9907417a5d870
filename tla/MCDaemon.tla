------------------------------ MODULE MCDaemon ------------------------------
EXTENDS Daemon

CONSTANTS p1, p2, p3

\* p1 is shorter than p2; p3 is as long, with the digits of p1 first and then those of p2.
ShortOverLong == [q \in Pids |-> [p \in Pids |-> IF q = p2 /\ p = p1 THEN p3 ELSE p]]
=============================================================================
