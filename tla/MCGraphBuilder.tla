-------------------------- MODULE MCGraphBuilder --------------------------
(* GraphBuilder instantiated for TLC: three entries in any id order.       *)
EXTENDS GraphBuilder

CONSTANTS anonymous  \* the one object identity

OneIdentity == {anonymous}

\* 0 is never a legal root id, and 3 after 1 leaves the sequence.
FewIds == {0, 1, 2, 3}
One == {1}
SmallAllocSizes == {None, 2}
=============================================================================
