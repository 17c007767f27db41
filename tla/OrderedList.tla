----------------------------- MODULE OrderedList -----------------------------
(***************************************************************************)
(* What a B+Tree of labdb promises its owner (src/src/btree.hpp): entries  *)
(* in the order of their keys.  A unique tree has one for a key; another   *)
(* keeps all it is given, equal keys in the order of their insertion.      *)
(***************************************************************************)
EXTENDS Integers, SequencesExt

CONSTANTS Key, Value

VARIABLES list, unique

Has(k) == \E i \in DOMAIN list : list[i].key = k

Init == list = <<>> /\ unique \in BOOLEAN

\* After the entries whose keys are not above k.
Add(k, v) == /\ unique => ~Has(k)
             /\ \E i \in 1..Len(list)+1 :
                   /\ list' = InsertAt(list, i, [key |-> k, val |-> v])
                   /\ \A j \in DOMAIN list : list[j].key <= k <=> j < i
             /\ UNCHANGED unique

Overwrite(k, v) == /\ unique
                   /\ \E i \in DOMAIN list : /\ list[i].key = k
                                             /\ list' = [list EXCEPT ![i].val = v]
                   /\ UNCHANGED unique

Erase(k) == /\ unique
            /\ \E i \in DOMAIN list : list[i].key = k /\ list' = RemoveAt(list, i)
            /\ UNCHANGED unique

Next == \E k \in Key : Erase(k) \/ \E v \in Value : Add(k, v) \/ Overwrite(k, v)

Spec == Init /\ [][Next]_<<list, unique>>
=============================================================================
