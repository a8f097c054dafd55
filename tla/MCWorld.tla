------------------------------- MODULE MCWorld -------------------------------
(***************************************************************************)
(* A small instance of World: three names for two slots, a name that logs  *)
(* in by both ways, and a channel that sends GAMELOGIN_CONTINUE for two    *)
(* names.                                                                  *)
(***************************************************************************)
EXTENDS WorldRefinement, TLC

CONSTANTS lobbyA, gameA, gameB, lobbyC, none, chan1, chan2, chan3

MCPlayers == {lobbyA, gameA, gameB, lobbyC}
MCName == (lobbyA :> "a") @@ (gameA :> "a") @@ (gameB :> "b") @@ (lobbyC :> "c")
MCChannel == (lobbyA :> chan1) @@ (gameA :> chan2) @@ (gameB :> chan2) @@ (lobbyC :> chan3)
=============================================================================
