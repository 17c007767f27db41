------------------------------ MODULE Cursors ------------------------------
(***************************************************************************)
(* Tables as a query reads them: through cursors over a table's own tree   *)
(* and over its indexes (TableCursor and IndexCursor of src/src/catalog.hpp*)
(* and catalog.cpp), which keep the page of the last row pinned and decode *)
(* records where they lie.                                                 *)
(*                                                                         *)
(* The trees are ordered lists (OrderedList) that agree with their tables  *)
(* (Catalog!IndexesAgree); a record's number is its place in the heap,     *)
(* which fills in the order of insertion.  A record is read rightly only   *)
(* while its page is pinned: what a frame holds afterwards is anything,    *)
(* here a record of nulls.                                                 *)
(***************************************************************************)
EXTENDS Records

CONSTANTS
    RowsPerPage,     \* the records of a page
    Unbounded        \* SIZE_MAX: more rows than there are

ASSUME PageHoldsRows == RowsPerPage \in Nat \ {0}

VARIABLE database    \* the tables; no query changes them

NoPage  == 0
NoKey   == -1        \* the key of a lookup of NULL: no row has it
NoLimit == -1
PageOf(rid) == 1 + (rid - 1) \div RowsPerPage

\* The entries of the tree on column col of the rows recs: by key; equal keys by the order
\* in which they were filed, which for an index made later is that of the table's keys.
EntriesOf(layout, recs, col, made) ==
    LET field(rid, c) == Projected(layout, recs[rid], c)
        key(rid, c)   == OrderKey(field(rid, c))
        first(a, b)   == IF made = "after" THEN key(a, 1) < key(b, 1) ELSE a < b
        before(a, b)  == key(a, col) < key(b, col) \/ (key(a, col) = key(b, col) /\ first(a, b))
        filed         == SelectSeq([rid \in DOMAIN recs |-> rid], LAMBDA rid : ~field(rid, col).null)
        rids          == SortSeq(filed, before)
    IN  [i \in DOMAIN rids |-> [key |-> key(rids[i], col), rid |-> rids[i]]]

\* A table of rows, in the order of their insertion: its heap, its own tree, on the first
\* column, and an index on every column where index is not "never": made "before" the
\* rows came, or "after".
TableOf(types, index, rows) ==
    LET recs == [rid \in DOMAIN rows |-> Encoded(types, rows[rid])]
    IN  [types |-> types, rows |-> rows, layout |-> Layout(types), heap |-> recs,
         trees |-> [col \in {c \in DOMAIN types : c = 1 \/ index[c] # "never"} |->
                       EntriesOf(Layout(types), recs, col, index[col])]]

Indexed(t, col) == col \in DOMAIN t.trees

(* A cursor: its tree, the next entry, the last key wanted, the page pinned. *)

NoCursor == [tab |-> 0, col |-> 0, next |-> 0, hi |-> 0, pin |-> NoPage]

List(cur) == database[cur.tab].trees[cur.col]

\* IndexCursor::seek: the page stays pinned.
Sought(cur, lo, hi) ==
    [cur EXCEPT !.next = 1 + Cardinality({i \in DOMAIN List(cur) : List(cur)[i].key < lo}), !.hi = hi]

\* open_cursor and open_index.
CursorOn(tab, col) == [NoCursor EXCEPT !.tab = tab, !.col = col]

\* The next entries, at most max and none past hi.
Ahead(cur, max) ==
    LET within == Cardinality({i \in DOMAIN List(cur) : List(cur)[i].key <= cur.hi})
    IN  SubSeq(List(cur), cur.next, Min({cur.next + max - 1, within}))

\* decode_run: the records of rids, read in the page that is pinned.
DecodedRun(t, rids, pin) ==
    [i \in DOMAIN rids |-> IF PageOf(rids[i]) = pin THEN Decoded(t.layout, t.heap[rids[i]])
                           ELSE [c \in DOMAIN t.types |-> Null(t.types[c])]]

\* One entry of fill: when its page is not the one pinned, the run so far is decoded
\* before the pin moves.  acc: the rows decoded, the run not yet decoded, the pin.
WithEntry(t, acc, e) ==
    IF PageOf(e.rid) = acc.pin THEN [acc EXCEPT !.run = Append(@, e.rid)]
    ELSE [rows |-> acc.rows \o DecodedRun(t, acc.run, acc.pin),
          run  |-> <<e.rid>>, pin |-> PageOf(e.rid)]

\* IndexCursor::fill: the rows of at most max entries, and the cursor after them.
\* next() is a fill of one.
Filled(cur, max) ==
    LET t     == database[cur.tab]
        taken == Ahead(cur, max)
        upTo[i \in 0..Len(taken)] ==
            IF i = 0 THEN [rows |-> <<>>, run |-> <<>>, pin |-> cur.pin]
            ELSE WithEntry(t, upTo[i - 1], taken[i])
        acc   == upTo[Len(taken)]
    IN  [rows |-> acc.rows \o DecodedRun(t, acc.run, acc.pin),
         cur  |-> [cur EXCEPT !.next = @ + Len(taken), !.pin = acc.pin]]

\* TableCursor::fill: a page's run of entries is decoded before the next page is pinned.
FilledByPage(cur, max) ==
    LET t     == database[cur.tab]
        taken == Ahead(cur, max)
        page(i) == PageOf(taken[i].rid)
    IN  [rows |-> [i \in DOMAIN taken |-> DecodedRun(t, <<taken[i].rid>>, page(i))[1]],
         cur  |-> [cur EXCEPT !.next = @ + Len(taken),
                              !.pin  = IF taken = <<>> THEN @ ELSE page(Len(taken))]]

\* get_by_key, of an order key of the table's own tree: a row or none.
ByKey(tab, key) == Filled(Sought(CursorOn(tab, 1), key, key), 1).rows
==============================================================================
