--------------------------- MODULE MCNodeLifecycle ---------------------------
(* Three facts of one metacontext, two of them from one document and related   *)
(* to each other, one with an inference drawn on it.                           *)
EXTENDS NodeLifecycle, TLC

CONSTANTS a, b, c, i, d, m

MCFacts == {a, b, c}
MCOthers == {i, d, m}
MCInferences == {i}
MCKnown ==
    {Edge(x, m, "has_metacontext") : x \in MCFacts}
    \cup {Edge(a, d, "sourced_from"), Edge(b, d, "sourced_from"),
          Edge(a, b, "related"), Edge(i, a, "derived_from")}

\* c contests the others, and is a candidate to replace a; the inference comes to
\* rest on a survivor, or on b.
MCLinks ==
    {Edge(c, x, "contradiction") : x \in {a} \cup Fresh}
    \cup {Edge(c, a, "supersession_candidate")}
    \cup {Edge(i, x, "derived_from") : x \in {b} \cup Fresh}

Symmetry == Permutations(Fresh)
=============================================================================
