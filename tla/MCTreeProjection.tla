-------------------------- MODULE MCTreeProjection --------------------------
(* A small tree for TreeProjection: 1 holds 2, 3 and 5, of which a page of *)
(* two rows shows 2 and 3, and 2 holds 4.                                  *)
EXTENDS TreeProjection

SmallDirs == {1, 2}
SmallKids == [d \in SmallDirs |-> IF d = 1 THEN <<2, 3, 5>> ELSE <<4>>]
=============================================================================
