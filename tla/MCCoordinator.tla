--------------------------- MODULE MCCoordinator ---------------------------
EXTENDS Coordinator

CONSTANTS p1, p2, w1, w2

\* Two parameter servers and two workers for main() of the ps version.
MCPs == {p1, p2}
MCWrk == {w1, w2}
=============================================================================
