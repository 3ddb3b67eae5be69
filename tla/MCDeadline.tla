----------------------------- MODULE MCDeadline -----------------------------
(* An instance of Deadline for TLC.                                        *)
EXTENDS Deadline
CONSTANTS w1, w2
Waiters == {w1, w2}
=============================================================================
