------------------------------ MODULE Catalog ------------------------------
(***************************************************************************)
(* The catalog of labdb (src/src/catalog.hpp, catalog.cpp) over its heaps  *)
(* and trees: the page of table descriptors, the rows of each table in its *)
(* own heap, found through its own tree and filed in its indexes; and, in  *)
(* a database without tables, the one heap the pager's meta page names.    *)
(*                                                                         *)
(* Each action is a whole call, in which the descriptor is read once, the  *)
(* heap and the trees report a head or a root that moved, and each report  *)
(* rewrites the descriptor.  What throws on the way is undone with its     *)
(* transaction, and the catalog object keeps nothing but its page's number *)
(* (modules BufferPool and Session).                                       *)
(*                                                                         *)
(* A tree is what module OrderedList says, under the number of its root;   *)
(* an insertion may move the root, and what is left under the old number   *)
(* is a part of the tree.  A row's encoding is as long as its values make  *)
(* it and names the row.                                                   *)
(***************************************************************************)
EXTENDS Heap

CONSTANTS
    Name,            \* tables' names
    Column,          \* the columns after the key, numbered from 1
    Null,
    Row,             \* bound: the rows clients insert: [key, col : [Column -> values]]
    OrderKey,        \* order_key of each value: not injective for texts
    Size,            \* the room each value takes in a record
    MaxTables,       \* kCatalogMaxTables
    MaxRows,         \* bound: rows in all tables together
    MaxMoves         \* bound: how often a root moves

VARIABLES
    scope,           \* bound: whether the database is used by "heap" or by "tables"
    slots,           \* the catalog page: the descriptors
    tree,            \* the trees, by root: lists of [key, rid]
    legacyRoot       \* Pager::btree_root, the root of the one tree without a table

vars == <<head, page, scope, slots, tree, legacyRoot>>

NoRoot == <<>>       \* kNullPage
Root   == {<<t, c, n>> : t \in Name, c \in {0} \cup Column, n \in 0..MaxMoves}
Rid    == Pages \X (1..PageSize)
Entry  == [key : Nat, rid : Rid]
Desc   == [name : Name, heapHead : Pages \cup {NoPage}, rows : Nat, heapPages : Nat,
           roots : [{0} \cup Column -> Root \cup {NoRoot}]]   \* 0: the table's own tree

Init == /\ scope \in {"heap", "tables"}
        /\ head = NoPage
        /\ page = <<>>
        /\ slots = <<>>
        /\ tree = <<>>
        /\ legacyRoot = NoRoot
-----------------------------------------------------------------------------
(* The page of descriptors, and the heap and the rows of one.              *)

Used == DOMAIN slots

\* find_slot, of a name that is there.
SlotOf(t) == CHOOSE i \in Used : slots[i].name = t
Exists(t) == \E i \in Used : slots[i].name = t

\* The head of its heap, that the descriptor of table i records.
HeadOf(i) == slots[i].heapHead

\* encode and decode.
Encoded(row) == [u \in 1..FoldFunction(LAMBDA v, n : Size[v] + n, 1, row.col) |-> row]

ASSUME CatalogAssumption ==
    /\ MaxMoves \in Nat
    /\ Column \subseteq Nat \ {0}
    /\ \A row \in Row : /\ Encoded(row) \in Seq(Unit)
                        /\ row.key \in Nat
                        /\ \A c \in Column : row.col[c] # Null => OrderKey[row.col[c]] \in Nat

Storable(row) == Len(Encoded(row)) \in 1..MaxRecordSize
RowAt(rid)    == ReadSlot(page[rid[1]], rid[2])[1]

\* The reports of a heap and of trees whose head or roots moved.

\* A descriptor whose heap has a new page; and one with a new row, after the roots moved.
Grown(d, h)       == [d EXCEPT !.heapHead = h, !.heapPages = @ + 1]
WithRow(d, roots) == [d EXCEPT !.roots = roots, !.rows = @ + 1]

RowCounted(ds, i, roots) == [ds EXCEPT ![i] = WithRow(@, roots)]

\* (A mutant of WithHead: the report is lost.)
WithHeadLost(i, h) == slots

\* (A mutant of WithHead: the page is not counted.)
WithHeadUncounted(i, h) ==
    IF h = HeadOf(i) THEN slots ELSE [slots EXCEPT ![i].heapHead = h]

WithHead(i, h) ==
    IF h = HeadOf(i) THEN slots ELSE [slots EXCEPT ![i] = Grown(@, h)]

Moved(r) == <<r[1], r[2], r[3] + 1>>

\* (A mutant of RootsAfter: the new root of the table's own tree is not recorded.)
RootsAfterIndexes(i, moves) == [c \in DOMAIN slots[i].roots |->
                                   IF c \in moves /\ c # 0 THEN Moved(slots[i].roots[c]) ELSE slots[i].roots[c]]

\* (A mutant of RootsAfter: the new root of an index is not recorded.)
RootsAfterOwn(i, moves) == [c \in DOMAIN slots[i].roots |->
                               IF c \in moves /\ c = 0 THEN Moved(slots[i].roots[c]) ELSE slots[i].roots[c]]

\* The roots of table i after the trees of columns moves have moved theirs.
RootsAfter(i, moves) == [c \in DOMAIN slots[i].roots |->
                            IF c \in moves THEN Moved(slots[i].roots[c]) ELSE slots[i].roots[c]]
-----------------------------------------------------------------------------
(* Trees: module OrderedList.                                              *)

HasKey(es, k) == \E j \in DOMAIN es : es[j].key = k

\* After the entries whose keys are not above its own.
PlaceOf(es, k) == CHOOSE n \in 0..Len(es) : /\ n > 0 => es[n].key <= k
                                            /\ n < Len(es) => es[n+1].key > k

Filed(es, e) == InsertAt(es, PlaceOf(es, e.key) + 1, e)

Half(es) == SubSeq(es, 1, Len(es) \div 2)

\* The trees with es under the root r.
TreeUnder(trees, r, es) == [q \in DOMAIN trees \cup {r} |-> IF q = r THEN es ELSE trees[q]]

\* The trees after entry[c] is filed in the tree of each column c of its domain,
\* where the trees of columns moves move their roots.
TreesWith(i, entry, moves) ==
    LET old(c) == slots[i].roots[c]
        new(c) == IF c \in moves THEN Moved(old(c)) ELSE old(c)
        filed  == {new(c) : c \in DOMAIN entry}
        left   == {old(c) : c \in moves}
    IN  [r \in DOMAIN tree \cup filed |->
           IF r \in filed THEN Filed(tree[old(r[2])], entry[r[2]])
           ELSE IF r \in left THEN Half(tree[r])
           ELSE tree[r]]
-----------------------------------------------------------------------------
(* The calls.                                                              *)

Tables == scope = "tables" /\ UNCHANGED <<scope, head>>

\* The trees opened here have no callback: a planted root goes to the meta page.
CreateTable(t) ==
    /\ Tables
    /\ ~Exists(t) /\ Len(slots) < MaxTables
    /\ LET root == <<t, 0, 0>>
           new  == [name |-> t, heapHead |-> NoPage, rows |-> 0, heapPages |-> 0,
                    roots |-> [c \in {0} \cup Column |-> IF c = 0 THEN root ELSE NoRoot]]
       IN  /\ tree' = TreeUnder(tree, root, <<>>)
           /\ slots' = Append(slots, new)
           /\ legacyRoot' = root
    /\ UNCHANGED page

\* It throws: the name is taken, or the page is full.
RefuseTable(t) ==
    /\ Tables
    /\ Exists(t) \/ Len(slots) >= MaxTables
    /\ UNCHANGED <<page, slots, tree, legacyRoot>>

KeyTaken(i, row) == HasKey(tree[slots[i].roots[0]], row.key)

\* The first thing insert_row does: the row is stored in the heap.
RoomFor(i, row) == Room(HeadOf(i), Encoded(row)) \/ Pages \ DOMAIN page # {}
NewRowRid(i, row) == NewRid(HeadOf(i), Encoded(row))
PagesWithRow(i, row) == PagesWith(HeadOf(i), Encoded(row))

\* What is filed where: nothing for a NULL, nor without an index.
EntriesOf(i, row) ==
    LET rid == NewRowRid(i, row)
        indexed == {c \in Column : slots[i].roots[c] # NoRoot /\ row.col[c] # Null}
    IN  [c \in {0} \cup indexed |->
            [key |-> IF c = 0 THEN row.key ELSE OrderKey[row.col[c]], rid |-> rid]]

TotalRows == FoldLeft(LAMBDA n, d : n + d.rows, 0, slots)

InsertRow(t, row) ==
    /\ Tables
    /\ Exists(t)
    /\ TotalRows < MaxRows
    /\ LET i == SlotOf(t)
       IN  /\ Storable(row)
           /\ RoomFor(i, row)
           /\ ~KeyTaken(i, row)
           /\ page' = PagesWithRow(i, row)
           /\ \E moves \in SUBSET DOMAIN EntriesOf(i, row) :
                 /\ \A c \in moves : slots[i].roots[c][3] < MaxMoves /\ tree[slots[i].roots[c]] # <<>>
                 /\ tree' = TreesWith(i, EntriesOf(i, row), moves)
                 /\ slots' = RowCounted(WithHead(i, NewRowRid(i, row)[1]), i, RootsAfter(i, moves))
    /\ UNCHANGED legacyRoot

\* The key is taken: the row is taken out of the heap again.
RefuseRow(t, row) ==
    /\ Tables
    /\ Exists(t)
    /\ LET i   == SlotOf(t)
           rid == NewRowRid(i, row)
       IN  /\ Storable(row)
           /\ RoomFor(i, row)
           /\ KeyTaken(i, row)
           /\ page' = [PagesWithRow(i, row) EXCEPT ![rid[1]] = Erased(@, rid[2])]
           /\ slots' = WithHead(i, rid[1])
    /\ UNCHANGED <<tree, legacyRoot>>

\* The heap throws: the row fits no page.  Nothing is filed yet.
RefuseLong(t, row) ==
    /\ Tables
    /\ Exists(t)
    /\ ~Storable(row)
    /\ UNCHANGED <<page, slots, tree, legacyRoot>>

\* The entries of an index over the rows there are, in the order of their keys.
EntriesFor(i, c) ==
    LET own == tree[slots[i].roots[0]]
        of[n \in 0..Len(own)] ==   \* the first n rows
            IF n = 0 THEN <<>>
            ELSE LET v == RowAt(own[n].rid).col[c]
                 IN  IF v = Null THEN of[n-1] ELSE Filed(of[n-1], [key |-> OrderKey[v], rid |-> own[n].rid])
    IN  of[Len(own)]

CreateIndex(t, c) ==
    /\ Tables
    /\ Exists(t)
    /\ LET i       == SlotOf(t)
           planted == <<t, c, 0>>
       IN  /\ slots[i].roots[c] = NoRoot
           /\ \E moved \in BOOLEAN :
                 LET root    == IF moved THEN Moved(planted) ELSE planted
                     entries == EntriesFor(i, c)
                 IN  /\ moved => MaxMoves > 0 /\ entries # <<>>
                     /\ tree' = TreeUnder(TreeUnder(tree, planted, Half(entries)), root, entries)
                     /\ slots' = [slots EXCEPT ![i].roots[c] = root]
           /\ legacyRoot' = planted
    /\ UNCHANGED page

\* It throws: there is one.
RefuseIndex(t, c) ==
    /\ Tables
    /\ Exists(t)
    /\ slots[SlotOf(t)].roots[c] # NoRoot
    /\ UNCHANGED <<page, slots, tree, legacyRoot>>

\* A database without tables: the heap of the meta page.
PlainHeap ==
    /\ scope = "heap"
    /\ HeapNext
    /\ UNCHANGED <<scope, slots, tree, legacyRoot>>

CatalogNext ==
    \/ PlainHeap
    \/ \E t \in Name : \/ CreateTable(t) \/ RefuseTable(t)
                       \/ \E row \in Row : InsertRow(t, row) \/ RefuseRow(t, row) \/ RefuseLong(t, row)
                       \/ \E c \in Column : CreateIndex(t, c) \/ RefuseIndex(t, c)

Spec == Init /\ [][CatalogNext]_vars
-----------------------------------------------------------------------------
(* Properties.                                                             *)

TypeOK ==
    /\ scope \in {"heap", "tables"}
    /\ head \in DOMAIN page \cup {NoPage}
    /\ \A p \in DOMAIN page : p \in Pages /\ page[p] \in Page
    /\ \A i \in Used : slots[i] \in Desc
    /\ \A r \in DOMAIN tree : r \in Root /\ tree[r] \in Seq(Entry)
    /\ legacyRoot \in Root \cup {NoRoot}

\* In every page the directory and the cells keep apart, no two records share a
\* byte, and the bytes a compaction is promised to bring are there
\* (slotted_page.hpp:80-83).
PagesSound == \A p \in DOMAIN page : SoundPage(page[p])

\* Each page is in the chain of one heap and no other: none is lost when a heap's head
\* moves, and no two heaps write to one page (heap.cpp:12-22, catalog.cpp:154-163).
PagesOwned ==
    \A p \in DOMAIN page :
        IF p \in Chain(head) THEN slots = <<>>
        ELSE \E i \in Used : p \in Chain(HeadOf(i)) /\ \A j \in Used : p \in Chain(HeadOf(j)) => j = i

\* Every row of a table is filed once in the table's own tree, under its key,
\* and once in every index, under its value, unless that is NULL; nothing else
\* is filed, and each tree is in order, at the root the descriptor records
\* (catalog.hpp:26-32): so each access path finds the same rows.
IndexesAgree ==
    \A i \in Used :
        LET d == slots[i]
            KeyOf(rid, c) == IF c = 0 THEN RowAt(rid).key ELSE OrderKey[RowAt(rid).col[c]]
        IN  \A c \in DOMAIN d.roots : d.roots[c] # NoRoot =>
              LET es    == tree[d.roots[c]]
                  filed == {r \in Live(HeadOf(i)) : c = 0 \/ RowAt(r).col[c] # Null}
              IN  /\ ToSet(es) = {[key |-> KeyOf(r, c), rid |-> r] : r \in filed}
                  /\ Len(es) = Cardinality(filed)
                  /\ \A j \in 1..Len(es)-1 : es[j].key <= es[j+1].key
                  /\ c = 0 => \A j \in 1..Len(es)-1 : es[j].key < es[j+1].key

\* "How many rows the table holds and how many pages its heap spans, both kept
\* exact on every insert" (catalog.hpp:27-28), also on one that is refused.
CountsExact ==
    \A i \in Used : /\ slots[i].rows = Cardinality(Live(HeadOf(i)))
                    /\ slots[i].heapPages = Cardinality(Chain(HeadOf(i)))

Content == [t \in {slots[i].name : i \in Used} |->
               LET es == tree[slots[SlotOf(t)].roots[0]]
               IN  [k \in {es[j].key : j \in DOMAIN es} |->
                       RowAt(es[Min({j \in DOMAIN es : es[j].key = k})].rid)]]

TablesPromise == INSTANCE TableSet WITH content <- Content

\* Read through their own trees, the tables are maps that change by one new row
\* at a time: an insertion whose key is taken changes none, and no insertion, new
\* table or index disturbs the rows of another table (catalog.hpp:228-235).
ImplementsTables == TablesPromise!Spec
=============================================================================
