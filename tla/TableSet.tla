------------------------------ MODULE TableSet ------------------------------
(***************************************************************************)
(* What the catalog of labdb promises (src/src/catalog.hpp): named tables, *)
(* each a map from keys to rows, to which a row with a new key may be      *)
(* added.  Indexes do not change what a table holds.                       *)
(***************************************************************************)
CONSTANTS Name, Row

VARIABLE content

Init == content = <<>>

With(f, k, v) == [x \in DOMAIN f \cup {k} |-> IF x = k THEN v ELSE f[x]]

\* What the tables may become: with a new, empty one; with a row whose key is new.
Created(tables) == {With(tables, t, <<>>) : t \in Name \ DOMAIN tables}

Added(tables) ==
    UNION {{[tables EXCEPT ![t] = With(@, row.key, row)] :
               row \in {r \in Row : r.key \notin DOMAIN tables[t]}} : t \in DOMAIN tables}

Next == content' \in Created(content) \cup Added(content)

Spec == Init /\ [][Next]_content
=============================================================================
