---------------------------- MODULE MCAdventurer ----------------------------
(* A board three cells wide: a shard, a wall of two cells that wraps around, *)
(* the start row.                                                            *)
EXTENDS Adventurer

WallRows == <<2>>
GoldRows == <<1>>
=============================================================================
