-------------------------- MODULE MCCacheDownloader --------------------------
(***************************************************************************)
(* Small instances of CacheDownloader: two archives of a JS5 index and one *)
(* of index 40, or one of each.                                            *)
(***************************************************************************)
EXTENDS CacheDownloader, TLC

CONSTANTS a, b, music, none

MCRequests == {a, b, music}
MCIndex == (a :> 2) @@ (b :> 2) @@ (music :> 40)
MCBlocks == (a :> 2) @@ (b :> 1) @@ (music :> 1)

MCPair == {a, music}
MCPairIndex == (a :> 2) @@ (music :> 40)
MCPairBlocks == (a :> 2) @@ (music :> 1)

=============================================================================
