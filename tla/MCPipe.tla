------------------------------- MODULE MCPipe -------------------------------
(* Instances of Pipe for TLC.                                              *)
EXTENDS Pipe
CONSTANTS w1, w2, r1, r2
Writes == {w1, w2}
Reads == {r1, r2}
=============================================================================
