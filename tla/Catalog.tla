------------------------------ MODULE Catalog -------------------------------
(***************************************************************************)
(* What the bundle promises its clients, told by concept and not by path:  *)
(* a catalog of concepts, each at one place and each with a log of         *)
(* everything it ever said.  A concept is added, edited, or moved with     *)
(* others in a batch; no operation rewrites a log, loses an entry of one   *)
(* or mixes two of them, and no concept is ever lost.                      *)
(***************************************************************************)
EXTENDS Naturals, Sequences

CONSTANTS Concept, Place, Nowhere

VARIABLES
    place,   \* concept -> where it is, or Nowhere
    log      \* concept -> its versions, oldest first, the current one last

vars == <<place, log>>

Taken == {place[i] : i \in Concept} \ {Nowhere}

Init ==
    /\ place \in [Concept -> Place \union {Nowhere}]
    /\ \A i, j \in Concept : place[i] = place[j] /\ i # j => place[i] = Nowhere
    /\ \A i \in Concept : Len(log[i]) = IF place[i] = Nowhere THEN 0 ELSE 1

\* The log of i gets exactly one new entry.
Grows(i) ==
    /\ Len(log'[i]) = Len(log[i]) + 1
    /\ \A n \in 1..Len(log[i]) : log'[i][n] = log[i][n]

Keeps(i) == log'[i] = log[i]

Add(i, p) ==
    /\ place[i] = Nowhere
    /\ p \in Place \ Taken
    /\ place' = [place EXCEPT ![i] = p]
    /\ Grows(i)
    /\ \A j \in Concept \ {i} : Keeps(j)

Edit(i) ==
    /\ place[i] # Nowhere
    /\ UNCHANGED place
    /\ Grows(i)
    /\ \A j \in Concept \ {i} : Keeps(j)

\* The concepts that change place, and any whose links name them, get one
\* new version each; the new places were free.
Relocate ==
    LET moved == {i \in Concept : place'[i] # place[i]}
    IN  /\ moved # {}
        /\ \A i \in moved : /\ place[i] # Nowhere
                            /\ place'[i] \in Place \ Taken
                            /\ Grows(i)
        /\ \A i, j \in moved : place'[i] = place'[j] => i = j
        /\ \A i \in Concept \ moved : Keeps(i) \/ (place[i] # Nowhere /\ Grows(i))

Next ==
    \/ \E i \in Concept, p \in Place : Add(i, p)
    \/ \E i \in Concept : Edit(i)
    \/ Relocate

Spec == Init /\ [][Next]_vars
=============================================================================
