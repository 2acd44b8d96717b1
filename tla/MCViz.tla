-------------------------------- MODULE MCViz --------------------------------
(* Small instances of Viz.                                                  *)
EXTENDS Viz

CONSTANTS c1, c2, a, b

OwnKeys == [k \in Key |-> IF k = a THEN c1 ELSE c2]
=============================================================================
