----------------------------- MODULE RecordStore -----------------------------
(***************************************************************************)
(* What a heap of labdb promises (src/src/heap.hpp): a record stored gets  *)
(* an address that no live record has, and keeps it until it is erased.    *)
(***************************************************************************)
EXTENDS Functions

CONSTANTS Rid, Record

VARIABLE rows

Init == rows = <<>>

\* What the records may become: with one more, under a free address; with one less.
Inserted(recs) == {[q \in DOMAIN recs \cup {r} |-> IF q = r THEN rec ELSE recs[q]] :
                      r \in Rid \ DOMAIN recs, rec \in Record}

Removed(recs) == {Restrict(recs, DOMAIN recs \ {r}) : r \in DOMAIN recs}

Next == rows' \in Inserted(rows) \cup Removed(rows)

Spec == Init /\ [][Next]_rows
=============================================================================
