------------------------- MODULE MCSchemaMigrations -------------------------
(***************************************************************************)
(* Three releases for TLC: the first, its successor, and one whose second  *)
(* migration was edited after the successor had been deployed.             *)
(***************************************************************************)
EXTENDS SchemaMigrations, TLC

CONSTANTS s1, s2, s3, edited

MCEmbedded == [r \in Releases |->
    CASE r = "first"   -> <<s1>>
      [] r = "second"  -> <<s1, s2, s3>>
      [] r = "drifted" -> <<s1, edited>>]
=============================================================================
