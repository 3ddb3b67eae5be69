------------------------------ MODULE MCUdpNat ------------------------------
(* Instances of UdpNat for TLC: three packets of two sources.              *)
EXTENDS UdpNat, TLC
CONSTANTS p1, p2, p3, s1, s2
Packets == {p1, p2, p3}
TwoSources == [p \in Packets |-> IF p = p3 THEN s2 ELSE s1]
SymmetryOfTwo == Permutations({p1, p2})
=============================================================================
