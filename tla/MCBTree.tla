------------------------------- MODULE MCBTree -------------------------------
(***************************************************************************)
(* Trees for TLC: a deep unique one, a small unique one whose values are   *)
(* overwritten, and one with duplicates.                                   *)
(***************************************************************************)
EXTENDS BTree

CONSTANTS v1, v2

DeepTree       == [unique |-> TRUE, keys |-> 1..MaxKey, vals |-> {v1}, entries |-> MaxKey]
SmallTree      == [unique |-> TRUE, keys |-> 1..4, vals |-> {v1, v2}, entries |-> 4]
DuplicatesTree == [unique |-> FALSE, keys |-> 1..3, vals |-> {v1, v2}, entries |-> 5]
LongTree       == [DuplicatesTree EXCEPT !.vals = {v1}, !.entries = 12]

MCTrees     == {DeepTree, SmallTree, DuplicatesTree}
MCLongTrees == {LongTree}
=============================================================================
