-------------------------- MODULE MCModifiersCache --------------------------
(***************************************************************************)
(* Three blocks in a row, a sibling of the second and one of the third; a3 *)
(* is a day ahead of genesis.                                              *)
(***************************************************************************)
EXTENDS ModifiersCache, MCBlockTree

CacheParent == [g |-> "g", a1 |-> "g", a2 |-> "a1", a3 |-> "a2", b2 |-> "a1", b3 |-> "a2"]
CacheBlock == DOMAIN CacheParent
CacheAnc == AncOf(CacheParent, "g")
CacheHeight == HeightOf(CacheParent, "g")
CacheScore == ScoreOf(CacheParent, [b \in CacheBlock |-> 1], "g")
CacheFarAhead == [b \in CacheBlock |-> IF b = "a3" THEN {"g"} ELSE {}]
CacheUnappendable == {"b2"}
=============================================================================
