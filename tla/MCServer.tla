------------------------------ MODULE MCServer ------------------------------
(* Small instances of Server.                                              *)
EXTENDS Server

CONSTANTS i1, i2

Flat == [p \in Path |-> {}]

NoTargets == [p \in Path |-> << >>]

\* One concept, linking to itself.
OneSeed ==
    [p \in Path |-> IF p = 1 THEN [id |-> i1, parses |-> TRUE, links |-> {1}, aliases |-> {}]
                    ELSE None]
=============================================================================
