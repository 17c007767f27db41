------------------------------ MODULE MCCatalog ------------------------------
(***************************************************************************)
(* Two tables of a key and a column, and a heap of its own, for TLC.       *)
(***************************************************************************)
EXTENDS Catalog

CONSTANTS t1, t2, a, b, c, w, x, y, z

MCRow == {[key |-> 1, col |-> <<x>>], [key |-> 1, col |-> <<Null>>],
          [key |-> 2, col |-> <<y>>], [key |-> 3, col |-> <<z>>], [key |-> 3, col |-> <<w>>]}

\* The values of the column: x and y are texts that share their first eight bytes; w is
\* longer than a page.
MCOrderKey == x :> 1 @@ y :> 1 @@ z :> 0 @@ w :> 1
MCSize     == x :> 1 @@ y :> 2 @@ z :> 0 @@ w :> 6 @@ Null :> 0

MCRecord == {<<a>>, <<b, c>>, <<c, b, a>>, <<>>}
MCUnit     == {a, b, c} \cup MCRow

\* Nothing tells one table's name from another's.
TablesAlike == Permutations(Name)
==============================================================================
