--------------------------- MODULE WorldRefinement ---------------------------
(***************************************************************************)
(* World implements WorldRoster: the players of the world, and the logins  *)
(* that were handed over and are neither waiting nor in the world.         *)
(***************************************************************************)
EXTENDS World

Settled == {p \in Players : rank[p] # 0 /\ ~Waiting(p) /\ p \notin players}

Roster == INSTANCE WorldRoster WITH inWorld <- players, over <- Settled

\* Every behaviour of the world is one of the roster: registerPlayer, the
\* sweep and the run phase only ever enter a login once, in place of its
\* namesake and within the capacity, and never bring a player back.
RosterSpec == Roster!Spec
=============================================================================
