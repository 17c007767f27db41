----------------------------- MODULE AtomicStore -----------------------------
(***************************************************************************)
(* What the pager of labdb promises (src/src/pager.hpp): a store of pages  *)
(* changed by transactions, one at a time.  `stable' is what a restart     *)
(* would find, `view' what the client of the running store reads.          *)
(***************************************************************************)
CONSTANTS Page, Value

VARIABLES stable, view

TypeOK == stable \in [Page -> Value] /\ view \in [Page -> Value]

Init == /\ stable \in [Page -> Value]
        /\ view = stable

\* The transaction in progress changes one page, for its own eyes.
Write(p) == /\ view' \in [Page -> Value]
            /\ \A q \in Page \ {p} : view'[q] = view[q]
            /\ UNCHANGED stable

\* All its changes become stable, at once.
Commit == /\ stable' = view
          /\ UNCHANGED view

\* A rollback, and a crash as well: none of its changes ever happened.
Abort == /\ view' = stable
         /\ UNCHANGED stable

Next == \/ \E p \in Page : Write(p)
        \/ Commit
        \/ Abort

Spec == Init /\ [][Next]_<<stable, view>>
=============================================================================
