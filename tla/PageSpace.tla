------------------------------ MODULE PageSpace ------------------------------
(***************************************************************************)
(* What labdb's buffer pool promises the structures built on it            *)
(* (src/src/buffer_pool.hpp): pages to allocate, read, write and free, as  *)
(* if there were no cache, inside one transaction at a time.               *)
(***************************************************************************)
CONSTANTS Page, Value, Zero   \* Zero: what an allocated page holds

VARIABLES
    pages,   \* the pages in use and what they hold
    last     \* the same, as of the last commit

Init == /\ pages \in UNION {[S -> Value] : S \in SUBSET Page}
        /\ last = pages

Allocate(p) == /\ p \in Page \ DOMAIN pages
               /\ pages' = [q \in DOMAIN pages \cup {p} |->
                               IF q = p THEN Zero ELSE pages[q]]
               /\ UNCHANGED last

Write(p, v) == /\ p \in DOMAIN pages
               /\ pages' = [pages EXCEPT ![p] = v]
               /\ UNCHANGED last

Free(p) == /\ p \in DOMAIN pages
           /\ pages' = [q \in DOMAIN pages \ {p} |-> pages[q]]
           /\ UNCHANGED last

Commit == last' = pages /\ UNCHANGED pages

\* A rollback, an operation that failed, a crash.
Abort == pages' = last /\ UNCHANGED last

Next == \/ \E p \in Page : Allocate(p) \/ Free(p) \/ \E v \in Value : Write(p, v)
        \/ Commit
        \/ Abort

Spec == Init /\ [][Next]_<<pages, last>>
=============================================================================
