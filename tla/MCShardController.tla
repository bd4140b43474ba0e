------------------------- MODULE MCShardController -------------------------
(* Small instances of ShardController for TLC.                             *)
EXTENDS ShardController

CONSTANT g1
=============================================================================
