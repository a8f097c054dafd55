----------------------------- MODULE MCPipeline -----------------------------
(***************************************************************************)
(* Runs of all phases, of phases 1 and 2 after a new import, of phase 4    *)
(* alone, and from phases 3 and 4 on.                                      *)
(***************************************************************************)
EXTENDS Pipeline

MCSelections == {1..5, 1..2, {4}, 4..5, 3..5}
=============================================================================
