------------------------- MODULE MCHeadroomManager -------------------------
(* Two goroutines start and stop children.                      *)
EXTENDS HeadroomManager

CONSTANTS p1, p2

MCCallers == {p1, p2}
=============================================================================
