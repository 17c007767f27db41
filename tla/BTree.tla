-------------------------------- MODULE BTree --------------------------------
(***************************************************************************)
(* The B+Tree of labdb (src/src/btree.hpp, btree.cpp): insertion with      *)
(* splits, deletion with borrowing and merging, the chain of leaves, and   *)
(* what a search, a cursor and last() find.                                *)
(*                                                                         *)
(* One step is one activation of insert_rec or erase_rec on the way down,  *)
(* or the rest of it when the one below has returned.  The pages of the    *)
(* tree are those of module PageSpace: what a rollback does to them is     *)
(* said there.                                                             *)
(*                                                                         *)
(* Abstractions.  A leaf is a sequence of entries, an internal node one of *)
(* keys and one of children; the loops that move bytes are operations on   *)
(* sequences, and the binary searches find what they look for in a sorted  *)
(* one.  Indices start at 1: the child right of key i is child i + 1.      *)
(* allocate_page returns any one page the tree does not use.               *)
(***************************************************************************)
EXTENDS Integers, SequencesExt

CONSTANTS
    LeafMax,        \* kLeafMaxEntries
    InternalMax,    \* kInternalMaxKeys
    MaxKey,         \* bound: keys are 1..MaxKey
    Values,
    MaxPage,        \* bound: pages are 1..MaxPage; the runs never need more
    Trees           \* bound: the trees looked at, each with the keys and the values
                    \* it is given, and how many entries

\* InternalMax is odd: the two halves of a full node are of one size.
ASSUME BTreeAssumption ==
    /\ LeafMax \in Nat /\ LeafMax >= 2
    /\ InternalMax \in Nat /\ InternalMax >= 3 /\ InternalMax % 2 = 1
    /\ MaxPage \in Nat \ {0}
    /\ MaxKey \in Nat
    /\ \A t \in Trees : /\ t.unique \in BOOLEAN
                        /\ t.keys \subseteq 1..MaxKey
                        /\ t.vals \subseteq Values
                        /\ t.entries \in Nat

VARIABLES
    tree,     \* which of Trees it is: tree.unique is unique_
    node,     \* the pages of the tree
    root,     \* root_, and what its owner has recorded
    pc,       \* what the tree is doing
    arg,      \* the arguments of insert_with or erase
    at,       \* the page of the activation in progress
    path,     \* the activations above it, each with the copy it made of its page
    split,    \* what insert_rec returned: a page split off, and its separator
    under     \* erase_rec's underflow

call == <<pc, arg, at, path, split, under>>
vars == <<tree, node, root, call>>

NoPage      == 0    \* kNullPage
LeafMin     == LeafMax \div 2
InternalMin == InternalMax \div 2

Pages    == 1..MaxPage
Entry    == [key : 1..MaxKey, val : Values]
Leaf     == [kind : {"leaf"}, entries : Seq(Entry), next : Pages \cup {NoPage}]
Internal == [kind : {"internal"}, keys : Seq(1..MaxKey), children : Seq(Pages)]

EmptyLeaf == [kind |-> "leaf", entries |-> <<>>, next |-> NoPage]
NoSplit   == [key |-> 0, right |-> NoPage]
NoArg     == [key |-> 0, val |-> {}, overwrite |-> FALSE]

Idle == /\ pc = "idle"
        /\ arg = NoArg
        /\ at = NoPage
        /\ path = <<>>
        /\ split = NoSplit
        /\ under = FALSE

\* A new tree: an empty leaf is its root.
unique == tree.unique

Init == /\ tree \in Trees
        /\ root = 1
        /\ node = [p \in {root} |-> EmptyLeaf]
        /\ Idle
-----------------------------------------------------------------------------
(* Nodes.                                                                  *)

KeysOf(es) == [i \in DOMAIN es |-> es[i].key]

\* The first index whose key is not below k, or above it, by what the binary
\* search knows of its two neighbours when it ends.
LowerBound(ks, k) == CHOOSE i \in 1..Len(ks)+1 : /\ i > 1 => ks[i-1] < k
                                                 /\ i <= Len(ks) => ks[i] >= k
UpperBound(ks, k) == CHOOSE i \in 1..Len(ks)+1 : /\ i > 1 => ks[i-1] <= k
                                                 /\ i <= Len(ks) => ks[i] > k

ChildIndexFor(n, k) == UpperBound(n.keys, k)
FirstChildFor(n, k) == LowerBound(n.keys, k)

Size(n)    == IF n.kind = "leaf" THEN Len(n.entries) ELSE Len(n.keys)
MinSize(n) == IF n.kind = "leaf" THEN LeafMin ELSE InternalMin
MaxSize(n) == IF n.kind = "leaf" THEN LeafMax ELSE InternalMax

\* (A mutant of IsFull: one entry too many.)
IsOverfull(n) == Size(n) > MaxSize(n)

IsFull(n) == Size(n) >= MaxSize(n)

HasKey(es, k) == \E i \in DOMAIN es : es[i].key = k

\* insert_at, where insert_rec calls it.
Position(es, k) == IF unique THEN LowerBound(KeysOf(es), k) ELSE UpperBound(KeysOf(es), k)
Inserted(es, e) == InsertAt(es, Position(es, e.key), e)

\* insert_child_at: after child ci, the page split off it.
WithChild(n, ci, s) == [n EXCEPT !.keys = InsertAt(@, ci, s.key),
                                 !.children = InsertAt(@, ci + 1, s.right)]

\* erase_key_child_at.
WithoutChild(n, i) == [n EXCEPT !.keys = RemoveAt(@, i), !.children = RemoveAt(@, i + 1)]

\* The pool's allocate_page, as long as the bound leaves a page, and free_page.
Room          == Pages \ DOMAIN node # {}
Fresh         == CHOOSE p \in Pages : p \notin DOMAIN node
With(f, p, n) == [q \in DOMAIN f \cup {p} |-> IF q = p THEN n ELSE f[q]]
Without(f, p) == [q \in DOMAIN f \ {p} |-> f[q]]

Finish == /\ pc' = "idle" /\ arg' = NoArg /\ at' = NoPage /\ path' = <<>>
          /\ split' = NoSplit /\ under' = FALSE
-----------------------------------------------------------------------------
(* What the tree holds.                                                    *)

\* The entries of leaf p and of those after it in the chain.
From(p) ==
    LET walk[n \in 0..MaxPage] ==
            [q \in Pages \cup {NoPage} |->
                IF q \notin DOMAIN node \/ n = 0 THEN <<>>
                ELSE node[q].entries \o walk[n-1][node[q].next]]
    IN  walk[MaxPage][p]

Internals == {p \in DOMAIN node : node[p].kind = "internal"}

\* The leaf that via leads to, which says the child to go on with in each page.
LeafBy(via) ==
    LET down[n \in 0..MaxPage] ==
            [p \in DOMAIN node |->
                IF node[p].kind = "leaf" \/ n = 0 THEN p
                ELSE down[n-1][node[p].children[via[p]]]]
    IN  down[MaxPage][root]

List == From(LeafBy([p \in Internals |-> 1]))

\* search.
Search(k) == LET p == LeafBy([q \in Internals |-> ChildIndexFor(node[q], k)])
             IN  {e.val : e \in {f \in ToSet(node[p].entries) : f.key = k}}

\* (A mutant of ChildRule: the rule of a unique tree.)
RightmostChild(n, k) == ChildIndexFor(n, k)

\* The rule seek goes down by.
ChildRule(n, k) == IF unique THEN ChildIndexFor(n, k) ELSE FirstChildFor(n, k)

\* What a cursor placed by seek(k) goes through: settle() passes leaves of
\* which nothing is left.
Seek(k) == LET p  == LeafBy([q \in Internals |-> ChildRule(node[q], k)])
               es == node[p].entries
           IN  SubSeq(es, LowerBound(KeysOf(es), k), Len(es)) \o From(node[p].next)

\* And one placed by last().
LastSeek == LET p == LeafBy([q \in Internals |-> Len(node[q].children)])
                n == Len(node[p].entries)
            IN  SubSeq(node[p].entries, IF n = 0 THEN 1 ELSE n, n) \o From(node[p].next)
-----------------------------------------------------------------------------
(* The calls, and the way down.                                            *)

Insert(k, v, overwrite) ==
    /\ pc = "idle"
    /\ Len(List) < tree.entries \/ (unique /\ Search(k) # {})
    /\ pc' = "insert"
    /\ arg' = [key |-> k, val |-> v, overwrite |-> overwrite]
    /\ at' = root
    /\ UNCHANGED <<tree, node, root, path, split, under>>

Erase(k) ==
    /\ pc = "idle"
    /\ unique
    /\ pc' = "erase"
    /\ arg' = [NoArg EXCEPT !.key = k]
    /\ at' = root
    /\ UNCHANGED <<tree, node, root, path, split, under>>

\* A non-unique tree throws, having done nothing.
RefuseErase == pc = "idle" /\ ~unique /\ UNCHANGED vars

\* insert_rec and erase_rec of an internal node, until they call themselves.
Descend ==
    /\ pc \in {"insert", "erase"}
    /\ node[at].kind = "internal"
    /\ LET ci == ChildIndexFor(node[at], arg.key)
       IN  /\ path' = Append(path, [id |-> at, copy |-> node[at], ci |-> ci])
           /\ at' = node[at].children[ci]
    /\ UNCHANGED <<tree, node, root, pc, arg, split, under>>
-----------------------------------------------------------------------------
(* Insertion: insert_rec of a leaf, then of the internal nodes over it.    *)

AtLeaf(what) == pc = what /\ node[at].kind = "leaf"
Present      == HasKey(node[at].entries, arg.key)

\* The key is there: its value is replaced, or the insertion refused.
UpdateEntry ==
    /\ AtLeaf("insert")
    /\ unique /\ Present
    /\ LET i == LowerBound(KeysOf(node[at].entries), arg.key)
       IN  node' = IF arg.overwrite THEN [node EXCEPT ![at].entries[i].val = arg.val] ELSE node
    /\ Finish
    /\ UNCHANGED <<tree, root>>

NewEntry == [key |-> arg.key, val |-> arg.val]

InsertEntry ==
    /\ AtLeaf("insert")
    /\ ~(unique /\ Present)
    /\ ~IsFull(node[at])
    /\ node' = [node EXCEPT ![at].entries = Inserted(@, NewEntry)]
    /\ Finish
    /\ UNCHANGED <<tree, root>>

\* The two leaves a full one becomes: the upper half moves, then the entry goes
\* into the half it belongs to.
SplitLeaf ==
    /\ AtLeaf("insert")
    /\ ~(unique /\ Present)
    /\ IsFull(node[at]) /\ Room
    /\ LET es    == node[at].entries
           mid   == Len(es) \div 2
           lower == SubSeq(es, 1, mid)
           upper == SubSeq(es, mid + 1, Len(es))
           left  == IF arg.key < upper[1].key THEN Inserted(lower, NewEntry) ELSE lower
           right == IF arg.key < upper[1].key THEN upper ELSE Inserted(upper, NewEntry)
       IN  /\ node' = With([node EXCEPT ![at].entries = left, ![at].next = Fresh], Fresh,
                           [kind |-> "leaf", entries |-> right, next |-> node[at].next])
           /\ split' = [key |-> right[1].key, right |-> Fresh]
    /\ pc' = "split"
    /\ UNCHANGED <<tree, root, arg, at, path, under>>

Above == Last(path)

\* The child has split, and there is room for one more.
AbsorbSplit ==
    /\ pc = "split"
    /\ path # <<>>
    /\ ~IsFull(Above.copy)
    /\ node' = [node EXCEPT ![Above.id] = WithChild(Above.copy, Above.ci, split)]
    /\ Finish
    /\ UNCHANGED <<tree, root>>

\* There is none: the node splits around its median, which moves up.
SplitInternal ==
    /\ pc = "split"
    /\ path # <<>>
    /\ IsFull(Above.copy) /\ Room
    /\ LET n      == Above.copy
           mid    == Len(n.keys) \div 2
           median == n.keys[mid + 1]
           lower  == [n EXCEPT !.keys = SubSeq(@, 1, mid), !.children = SubSeq(@, 1, mid + 1)]
           upper  == [n EXCEPT !.keys = SubSeq(@, mid + 2, Len(@)),
                               !.children = SubSeq(@, mid + 2, Len(@))]
           Routed(half) == WithChild(half, ChildIndexFor(half, split.key), split)
           left   == IF split.key < median THEN Routed(lower) ELSE lower
           right  == IF split.key < median THEN upper ELSE Routed(upper)
       IN  /\ node' = With([node EXCEPT ![Above.id] = left], Fresh, right)
           /\ split' = [key |-> median, right |-> Fresh]
    /\ at' = Above.id
    /\ path' = Front(path)
    /\ UNCHANGED <<tree, root, pc, arg, under>>

\* The root has split: a new one over the two, which the owner records.
GrowRoot ==
    /\ pc = "split"
    /\ path = <<>>
    /\ Room
    /\ node' = With(node, Fresh, [kind |-> "internal", keys |-> <<split.key>>,
                                  children |-> <<root, split.right>>])
    /\ root' = Fresh
    /\ Finish
    /\ UNCHANGED tree
-----------------------------------------------------------------------------
(* Deletion: erase_rec of a leaf, then of the internal nodes over it.      *)

EraseAbsent ==
    /\ AtLeaf("erase")
    /\ ~Present
    /\ Finish
    /\ UNCHANGED <<tree, node, root>>

EraseEntry ==
    /\ AtLeaf("erase")
    /\ Present
    /\ node' = [node EXCEPT ![at].entries = RemoveAt(@, LowerBound(KeysOf(@), arg.key))]
    /\ under' = (Len(node'[at].entries) < LeafMin)
    /\ pc' = "erased"
    /\ UNCHANGED <<tree, root, arg, at, path, split>>

CanSpare(n) == Size(n) > MinSize(n)

\* An entry moves from l to its right neighbour r, or, in internal nodes, a
\* child does, through the separator between them.
RotateRight(l, r, sep) ==
    IF r.kind = "leaf"
    THEN [left  |-> [l EXCEPT !.entries = Front(@)],
          right |-> [r EXCEPT !.entries = <<Last(l.entries)>> \o @],
          sep   |-> Last(l.entries).key]
    ELSE [left  |-> [l EXCEPT !.keys = Front(@), !.children = Front(@)],
          right |-> [r EXCEPT !.keys = <<sep>> \o @, !.children = <<Last(l.children)>> \o @],
          sep   |-> Last(l.keys)]

\* (A mutant of RotateLeft: the separator is the entry that moved.)
RotateLeftStale(l, r, sep) ==
    [left  |-> IF l.kind = "leaf" THEN [l EXCEPT !.entries = Append(@, Head(r.entries))]
               ELSE [l EXCEPT !.keys = Append(@, sep), !.children = Append(@, Head(r.children))],
     right |-> IF l.kind = "leaf" THEN [r EXCEPT !.entries = Tail(@)]
               ELSE [r EXCEPT !.keys = Tail(@), !.children = Tail(@)],
     sep   |-> IF l.kind = "leaf" THEN r.entries[1].key ELSE Head(r.keys)]

\* And from r to its left neighbour l.
RotateLeft(l, r, sep) ==
    IF l.kind = "leaf"
    THEN [left  |-> [l EXCEPT !.entries = Append(@, Head(r.entries))],
          right |-> [r EXCEPT !.entries = Tail(@)],
          sep   |-> r.entries[2].key]
    ELSE [left  |-> [l EXCEPT !.keys = Append(@, sep), !.children = Append(@, Head(r.children))],
          right |-> [r EXCEPT !.keys = Tail(@), !.children = Tail(@)],
          sep   |-> Head(r.keys)]

\* (A mutant of Joined: the chain is not spliced.)
JoinedUnspliced(l, r, sep) ==
    IF l.kind = "leaf" THEN [l EXCEPT !.entries = @ \o r.entries]
    ELSE [l EXCEPT !.keys = @ \o <<sep>> \o r.keys, !.children = @ \o r.children]

\* The two in one.
Joined(l, r, sep) ==
    IF l.kind = "leaf" THEN [l EXCEPT !.entries = @ \o r.entries, !.next = r.next]
    ELSE [l EXCEPT !.keys = @ \o <<sep>> \o r.keys, !.children = @ \o r.children]

\* The repairs of fix_child_underflow, on children i and i + 1 of node n, page p.
Rotate(p, n, i, Rotated(_, _, _)) ==
    LET l == n.children[i]
        r == n.children[i + 1]
        x == Rotated(node[l], node[r], n.keys[i])
    IN  node' = [node EXCEPT ![l] = x.left, ![r] = x.right, ![p] = [n EXCEPT !.keys[i] = x.sep]]

\* (A mutant of Merge: the page emptied is not freed.)
MergeLeaks(p, n, i) ==
    node' = [node EXCEPT ![n.children[i]] = Joined(@, node[n.children[i + 1]], n.keys[i]),
                         ![p] = WithoutChild(n, i)]

Merge(p, n, i) ==
    LET l == n.children[i]
        r == n.children[i + 1]
    IN  node' = Without([node EXCEPT ![l] = Joined(@, node[r], n.keys[i]),
                                     ![p] = WithoutChild(n, i)], r)

\* One of the four, in this order: for child ci of node n, page p.
FixChildUnderflow(p, n, ci) ==
    LET fromLeft  == ci > 1 /\ CanSpare(node[n.children[ci - 1]])
        fromRight == ci <= Len(n.keys) /\ CanSpare(node[n.children[ci + 1]])
    IN  \/ fromLeft /\ Rotate(p, n, ci - 1, RotateRight)
        \/ ~fromLeft /\ fromRight /\ Rotate(p, n, ci, RotateLeft)
        \/ ~fromLeft /\ ~fromRight /\ Merge(p, n, IF ci > 1 THEN ci - 1 ELSE ci)

\* erase_rec of an internal node, when the one below has returned.
AscendErased ==
    /\ pc = "erased"
    /\ path # <<>>
    /\ \/ under /\ FixChildUnderflow(Above.id, Above.copy, Above.ci)
       \/ ~under /\ node' = [node EXCEPT ![Above.id] = Above.copy]
    /\ under' = (Len(node'[Above.id].keys) < InternalMin)
    /\ at' = Above.id
    /\ path' = Front(path)
    /\ UNCHANGED <<tree, root, pc, arg, split>>

\* (A mutant of EraseReturns: the new root is not recorded.)
ForgetsRoot ==
    /\ pc = "erased"
    /\ path = <<>>
    /\ node' = IF node[root].kind = "internal" /\ node[root].keys = <<>>
               THEN Without(node, root) ELSE node
    /\ Finish
    /\ UNCHANGED <<tree, root>>

\* The end of erase: a root with a single child gives way to it.
EraseReturns ==
    /\ pc = "erased"
    /\ path = <<>>
    /\ IF node[root].kind = "internal" /\ node[root].keys = <<>>
       THEN root' = node[root].children[1] /\ node' = Without(node, root)
       ELSE UNCHANGED <<root, node>>
    /\ Finish
    /\ UNCHANGED tree

Next ==
    \/ \E k \in tree.keys : Erase(k) \/ \E v \in tree.vals, o \in BOOLEAN : Insert(k, v, o)
    \/ RefuseErase
    \/ Descend
    \/ UpdateEntry \/ InsertEntry \/ SplitLeaf
    \/ AbsorbSplit \/ SplitInternal \/ GrowRoot
    \/ EraseAbsent \/ EraseEntry
    \/ AscendErased \/ EraseReturns

Spec == Init /\ [][Next]_vars
-----------------------------------------------------------------------------
(* Properties.                                                             *)

TypeOK ==
    /\ tree \in Trees
    /\ \A p \in DOMAIN node : p \in Pages /\ node[p] \in Leaf \cup Internal
    /\ root \in DOMAIN node
    /\ pc \in {"idle", "insert", "split", "erase", "erased"}
    /\ pc = "idle" => Idle
    /\ at \in DOMAIN node \cup {NoPage}
    /\ under \in BOOLEAN

Depth(d) ==
    LET level[i \in 0..d] ==
            IF i = 0 THEN {root}
            ELSE UNION {ToSet(node[p].children) : p \in {q \in level[i-1] : node[q].kind = "internal"}}
    IN  level[d]

\* No node overflows its page, and between calls none but the root is less than
\* half full (btree.hpp:46-47): a leaf written past its end is memory that is
\* not the tree's, and a node short of the minimum makes a merge that fits no
\* page.
NodesFit ==
    \A p \in DOMAIN node :
        /\ Size(node[p]) <= MaxSize(node[p])
        /\ node[p].kind = "internal" => Len(node[p].children) = Len(node[p].keys) + 1
        /\ pc = "idle" /\ p # root => Size(node[p]) >= MinSize(node[p])
        /\ pc = "idle" /\ node[p].kind = "internal" => Size(node[p]) > 0

\* Between calls the pages are a tree whose leaves are all at one depth, each
\* page in it once: none lost by a split or a merge, none freed that is used.
OneTree ==
    pc = "idle" =>
        LET internal == {p \in DOMAIN node : node[p].kind = "internal"}
            Slots    == {<<p, i>> : p \in internal, i \in 1..InternalMax+1}
            refs     == {s \in Slots : s[2] \in DOMAIN node[s[1]].children}
        IN  /\ \A s \in refs : node[s[1]].children[s[2]] \in DOMAIN node \ {root}
            /\ \A p \in DOMAIN node \ {root} :
                  \E s \in refs : /\ node[s[1]].children[s[2]] = p
                                 /\ \A t \in refs : node[t[1]].children[t[2]] = p => t = s
            /\ \A d \in 0..MaxPage : \A p, q \in Depth(d) : node[p].kind = node[q].kind

\* "Open a forward cursor at the first key >= lo" (btree.hpp:362).
SeekFindsFirst ==
    pc = "idle" =>
        \A k \in 1..MaxKey : \E i \in 1..Len(List)+1 :
            /\ Seek(k) = SubSeq(List, i, Len(List))
            /\ \A j \in DOMAIN List : List[j].key < k <=> j < i

\* Between calls a search finds the value of its key, a cursor starts at the
\* first entry of its key or above and misses none, and last() is at the last
\* one (btree.hpp:354-372).
ReadsFind ==
    pc = "idle" =>
        /\ SeekFindsFirst
        /\ unique => \A k \in 1..MaxKey :
              Search(k) = {e.val : e \in {f \in ToSet(List) : f.key = k}}
        /\ LastSeek = IF List = <<>> THEN <<>> ELSE <<Last(List)>>

Promise == INSTANCE OrderedList WITH Key <- 1..MaxKey, Value <- Values, list <- List

\* The chain of leaves is the ordered list the tree promises, at every step of
\* every call: it changes once in each, where the entry is written.
ImplementsOrderedList == Promise!Spec
=============================================================================
