------------------------------ MODULE MCTfoConn -----------------------------
(* An instance of TfoConn for TLC.                                         *)
EXTENDS TfoConn
CONSTANTS w1, w2, w3, r1, r2
Writes == {w1, w2, w3}
Reads == {r1, r2}
=============================================================================
