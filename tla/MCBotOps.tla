------------------------------ MODULE MCBotOps ------------------------------
(***************************************************************************)
(* Jobs of any kind, and a look at the status.                             *)
(***************************************************************************)
EXTENDS BotOps

CONSTANTS j1, j2, look, p1, p2
=============================================================================
