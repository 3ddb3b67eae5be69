---------------------------- MODULE MCSocketBind ----------------------------
EXTENDS SocketBind

CONSTANTS s1, s2

\* The library's own use is a name without an index.  No interface has index
\* -2, which the system refuses.
AllAsks ==
  {[name |-> "eth", index |-> -1, virtual |-> v, prefer |-> FALSE] : v \in BOOLEAN}
  \cup {[name |-> "eth", index |-> i, virtual |-> FALSE, prefer |-> FALSE] : i \in {1, -2}}
  \cup {[name |-> "", index |-> i, virtual |-> FALSE, prefer |-> FALSE] : i \in {1, -1}}
  \cup {[name |-> "eth", index |-> -1, virtual |-> FALSE, prefer |-> TRUE]}
=============================================================================
