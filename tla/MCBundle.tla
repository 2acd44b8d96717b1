------------------------------ MODULE MCBundle ------------------------------
(* Small instances of Bundle and Reads.                                    *)
EXTENDS Reads

CONSTANTS i1, i2, i3, up

Concept(i, links, aliases) ==
    [id |-> i, parses |-> TRUE, links |-> links, aliases |-> aliases]

Flat == [p \in Path |-> {}]

\* Path 2 is in the directory named after path 3: the paths are a/a.md,
\* a/b/c.md, a/b.md and b.md.
Nested == [p \in Path |-> IF p = 2 THEN {3} ELSE {}]

\* The target ../b.md, which leads out of the bundle from b.md.
Upwards ==
    [p \in Path |-> [t \in Loose |->
        CASE p = 2 -> 3 [] p = 4 -> t [] OTHER -> 4]]

\* The target ../b.md from a/a.md, b/b.md and c.md: out of the bundle, too.
Outwards ==
    [p \in Path |-> [t \in Loose |-> CASE p = 1 -> t [] p = 2 -> 3 [] OTHER -> 1]]

NoTargets == [p \in Path |-> << >>]

\* Two concepts that link to each other, one of them also to nothing, by a
\* canonical and by a relative link.
LinkedSeed ==
    [p \in Path |-> CASE p = 1 -> Concept(i1, {2, 3} \union Loose, {})
                      [] p = 2 -> Concept(i2, {1}, {})
                      [] OTHER -> None]

\* One concept with a link that is broken from the start.
BrokenSeed ==
    [p \in Path |-> IF p = 1 THEN Concept(i1, {1, 2}, {}) ELSE None]

\* One concept, which came from path 2, where a new one may be created.
LoneSeed ==
    [p \in Path |-> IF p = 3 THEN Concept(i1, {}, {2}) ELSE None]
=============================================================================
