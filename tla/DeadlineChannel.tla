--------------------------- MODULE DeadlineChannel --------------------------
(***************************************************************************)
(* What a Deadline (netio/pipe/pipe.go) promises to whoever selects on the *)
(* channel that Wait returns: the channel closes once, when the deadline   *)
(* passes; only a Set after that makes another; and a channel that has     *)
(* been replaced stays closed.  Deadline implements it, and it is all that *)
(* Pipe and its calls know of their deadlines.                             *)
(***************************************************************************)
EXTENDS Naturals

VARIABLES
  generation,   \* the number of channels that have been replaced
  elapsed       \* the current channel is closed

Init == generation = 0 /\ elapsed = FALSE

\* The timer's callback, or a Set to the past.
Pass == ~elapsed /\ elapsed' = TRUE /\ generation' = generation

\* A Set to zero or to the future, after the deadline has passed.
Renew == elapsed /\ elapsed' = FALSE /\ generation' = generation + 1

Next == Pass \/ Renew

Spec == Init /\ [][Next]_<<generation, elapsed>>

\* isClosedChan of the channel that replaced c others.
Closed(c) == c < generation \/ elapsed
=============================================================================
