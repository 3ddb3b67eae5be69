------------------------------- MODULE MCHosts ------------------------------
EXTENDS Hosts

CONSTANTS a1, a2, bad

CanonicalNames == [n \in {"h", "H", "g"} |-> IF n = "g" THEN "g." ELSE "h."]

Line(a, names, fills) == [addr |-> a, names |-> names, fills |-> fills]

\* A name in both cases, twice on a line and on two lines; a bad address, a
\* line without a name, and a last line that fills the buffer.
FileTexts ==
  {[lines |-> <<Line(a1, <<"h">>, FALSE), Line(a2, <<"H", "g">>, TRUE)>>, ended |-> TRUE],
   [lines |-> <<Line(a2, <<"h", "H">>, FALSE), Line(a1, <<"g">>, TRUE)>>, ended |-> FALSE],
   [lines |-> <<Line(bad, <<"h">>, TRUE), Line(a2, <<>>, FALSE), Line(a1, <<"g">>, FALSE)>>,
    ended |-> FALSE],
   [lines |-> <<>>, ended |-> TRUE]}
=============================================================================
