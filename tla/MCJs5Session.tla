----------------------------- MODULE MCJs5Session -----------------------------
(***************************************************************************)
(* Small instances of Js5Session: the master table, one reference table    *)
(* and two archives, one of which the local cache does not have.           *)
(***************************************************************************)
EXTENDS Js5SessionRefinement, TLC

CONSTANTS master, ref, arch, gone

MCKeys == {master, ref, arch, gone}
MCRefTables == {ref}

\* Lengths in units of payload: the archives take several blocks.
MCLength == (master :> 1) @@ (ref :> 3) @@ (arch :> 4) @@ (gone :> 1)
=============================================================================
