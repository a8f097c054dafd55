------------------------------ MODULE WorldRoster ------------------------------
(***************************************************************************)
(* What the world promises about the logins handed to it: never more than  *)
(* Capacity players at once and never two of one name; a login of a name   *)
(* that is in the world takes its place; who has left or was turned away   *)
(* never comes back.                                                       *)
(***************************************************************************)
EXTENDS Naturals, FiniteSets

CONSTANTS Players, Name, Capacity

VARIABLES inWorld,   \* the players in the world
          over       \* the logins that have left it or were turned away

rvars == <<inWorld, over>>

Init == inWorld = {} /\ over = {}

Others(p) == {q \in inWorld : Name[q] # Name[p]}

Enter(p) ==
    /\ p \notin inWorld \cup over
    /\ inWorld' = Others(p) \cup {p}
    /\ Cardinality(inWorld') <= Capacity
    /\ over' = over \cup (inWorld \ Others(p))

TurnAway(p) ==
    /\ p \notin inWorld \cup over
    /\ inWorld' = Others(p)
    /\ over' = over \cup (inWorld \ Others(p)) \cup {p}

Leave(p) ==
    /\ p \in inWorld
    /\ inWorld' = inWorld \ {p}
    /\ over' = over \cup {p}

Next == \E p \in Players : Enter(p) \/ TurnAway(p) \/ Leave(p)

Spec == Init /\ [][Next]_rvars
=============================================================================
