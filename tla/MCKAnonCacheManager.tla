------------------------ MODULE MCKAnonCacheManager ------------------------
(* Two callers, three hashes; the positive caches have two shards, the       *)
(* negative ones a single shard of capacity two.                             *)
EXTENDS KAnonCacheManager, TLC

CONSTANTS h1, h2, h3, r1, r2

MCHash == {h1, h2, h3}
MCLoad32 == h1 :> 4 @@ h2 :> 7 @@ h3 :> 9
=============================================================================
