------------------------------ MODULE ConnRace ------------------------------
(***************************************************************************)
(* What a dial that may try several connections at a time promises its     *)
(* caller: one connection or one error, no connection open behind an error *)
(* and, of the connections that were opened, only the returned one kept.   *)
(***************************************************************************)
CONSTANTS
  Walker,    \* those that may open a connection, each at most one
  Pending,   \* the value of ret while the dial is under way
  Error      \* the value of ret when it has failed; neither is a walker

VARIABLES
  open,   \* walkers whose connection is open
  ret     \* what the dial returned

Init == open = {} /\ ret = Pending

\* A late connection may still open once the dial has its winner.
Open(w) == ret # Error /\ w \notin open /\ open' = open \cup {w} /\ UNCHANGED ret

Return(w) == ret = Pending /\ w \in open /\ ret' = w /\ UNCHANGED open

Fail == ret = Pending /\ open = {} /\ ret' = Error /\ UNCHANGED open

CloseLoser(w) == ret # Pending /\ w \in open \ {ret} /\ open' = open \ {w} /\ UNCHANGED ret

Next == Fail \/ \E w \in Walker : Open(w) \/ Return(w) \/ CloseLoser(w)

Spec == Init /\ [][Next]_<<open, ret>>
=============================================================================
