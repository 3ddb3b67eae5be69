--------------------------- MODULE MCUdpTransport ---------------------------
(* Instances of UdpTransport for TLC.                                      *)
EXTENDS UdpTransport
CONSTANTS q1, q2, q3
QuerySet == {q1, q2, q3}
=============================================================================
