------------------------------ MODULE Filters -------------------------------
(***************************************************************************)
(* slicelib.Filter, and slices.DeleteFunc with the opposite test: what is  *)
(* kept of a list keeps its order.                                         *)
(***************************************************************************)
EXTENDS Naturals, Sequences

Filter(s, keep) ==
  LET kept[k \in 0..Len(s)] ==
        IF k = 0 THEN <<>>
        ELSE IF s[k] \in keep THEN Append(kept[k - 1], s[k]) ELSE kept[k - 1]
  IN kept[Len(s)]
=============================================================================
