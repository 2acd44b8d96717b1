---------------------------- MODULE MCMoveApply -----------------------------
(* Small instances of MoveApply.                                           *)
EXTENDS MoveApply

CONSTANTS i1, i2

Concept(i, links, aliases) ==
    [id |-> i, parses |-> TRUE, links |-> links, aliases |-> aliases]

\* Path 2 is a concept in the directory named after path 1 (a/b.md and
\* a/b/c.md): its snapshot directory lies inside path 1's.
Nested == [p \in Path |-> IF p = 2 THEN {1} ELSE {}]

NoTargets == [p \in Path |-> << >>]

\* Two concepts that link to each other.
PairSeed ==
    [p \in Path |-> CASE p = 1 -> Concept(i1, {2}, {})
                      [] p = 2 -> Concept(i2, {1, 2}, {3})
                      [] OTHER -> None]
=============================================================================
