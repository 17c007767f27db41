------------------------------ MODULE Planner ------------------------------
(***************************************************************************)
(* The plans of a SELECT (src/src/executor.cpp), as sequences of           *)
(* operators (Operators).                                                  *)
(*                                                                         *)
(* Names are resolved: a column is its position among those of the query's *)
(* tables, one after another.  The planner's costs, and the options that   *)
(* force a choice, only pick among the access paths and the join           *)
(* algorithms that apply, so every choice of them is a plan here.          *)
(***************************************************************************)
EXTENDS Cursors

\* A query q over the tables of db, its names resolved: each table's offset among the
\* columns, and the table that owns each column; the terms of its ON and WHERE, together.
Bound(db, q) ==
    LET offset(i) == Total([j \in 1..(i - 1) |-> Len(db[q.tables[j]].types)])
        n         == Len(q.tables)
    IN  q @@ [offset |-> [i \in 1..(n + 1) |-> offset(i)],
              owner  |-> [pos \in 1..offset(n + 1) |-> Max({i \in 1..n : offset(i) < pos})],
              terms  |-> FlattenSeq(q.on) \o q.where]

Table(q, i)    == database[q.tables[i]]
TypeAt(q, pos) == LET i == q.owner[pos] IN Table(q, i).types[pos - q.offset[i]]
Named(q, c)    == {q.owner[pos] : pos \in {c.left, c.right} \ {0}}

\* A term as its own table sees it.
Rebased(c, offset) == [c EXCEPT !.left = @ - offset, !.right = IF @ = 0 THEN 0 ELSE @ - offset]

\* Pushdown: the terms that name only table i.
Local(q, i) ==
    LET own == SelectSeq(q.terms, LAMBDA c : Named(q, c) = {i})
    IN  [k \in DOMAIN own |-> Rebased(own[k], q.offset[i])]

\* The terms of several tables that table i, the last of those joined, makes checkable.
Cross(q, i) == SelectSeq(q.terms, LAMBDA c : Cardinality(Named(q, c)) > 1 /\ Max(Named(q, c)) = i)

\* An operator above a plan, or above two; a filter of no terms is left out.
Reading(node, ins)  == [f \in DOMAIN node \cup {"in"} |-> IF f = "in" THEN ins ELSE node[f]]
Over(p, node)       == Append(p, Reading(node, <<Len(p)>>))
OverTwo(l, r, node) ==
    l \o [i \in DOMAIN r |-> [r[i] EXCEPT !.in = [j \in DOMAIN @ |-> @[j] + Len(l)]]]
      \o << Reading(node, <<Len(l), Len(l) + Len(r)>>) >>
Source(node)        == << Reading(node, <<>>) >>
Filtered(p, ts)  == IF ts = <<>> THEN p ELSE Over(p, [op |-> "filter", terms |-> ts])
-----------------------------------------------------------------------------
(* One table.                                                              *)

\* The values its terms leave a column: bounds are sequences of at most one value.
AnyValue == [lo |-> <<>>, hi |-> <<>>, loIncl |-> TRUE, hiIncl |-> TRUE, empty |-> FALSE]

Raised(r, v, incl) ==
    LET c == IF r.lo = <<>> THEN 1 ELSE Compare(v, r.lo[1])
    IN  IF c > 0 \/ (c = 0 /\ ~incl) THEN [r EXCEPT !.lo = <<v>>, !.loIncl = incl] ELSE r

Lowered(r, v, incl) ==
    LET c == IF r.hi = <<>> THEN -1 ELSE Compare(v, r.hi[1])
    IN  IF c < 0 \/ (c = 0 /\ ~incl) THEN [r EXCEPT !.hi = <<v>>, !.hiIncl = incl] ELSE r

\* narrow, by a term of the column and a literal.
Tightened(r, c) ==
    IF c.lit.null THEN [r EXCEPT !.empty = TRUE]
    ELSE CASE c.op = "eq" -> Lowered(Raised(r, c.lit, TRUE), c.lit, TRUE)
           [] c.op = "gt" -> Raised(r, c.lit, FALSE)
           [] c.op = "ge" -> Raised(r, c.lit, TRUE)
           [] c.op = "lt" -> Lowered(r, c.lit, FALSE)
           [] c.op = "le" -> Lowered(r, c.lit, TRUE)

NoKeys == [lo |-> 1, hi |-> 0]

\* (A mutant of RangeKeys: an exclusive bound of a text moves its key in, as an integer's.)
RangeKeysInward(r, type) ==
    LET lo == IF r.lo = <<>> THEN 0 ELSE OrderKey(r.lo[1]) + (IF r.loIncl THEN 0 ELSE 1)
        hi == IF r.hi = <<>> THEN MaxKey ELSE OrderKey(r.hi[1]) - (IF r.hiIncl THEN 0 ELSE 1)
    IN  IF r.empty \/ lo > hi THEN NoKeys ELSE [lo |-> lo, hi |-> hi]

\* range_keys: an exclusive bound of an exact key is the next key in; a text's stays, its
\* key being a prefix.
RangeKeys(r, type) ==
    LET in(bound, incl) == IF bound # <<>> /\ ~incl /\ ExactKey(type) THEN 1 ELSE 0
        lo == IF r.lo = <<>> THEN 0 ELSE OrderKey(r.lo[1])
        hi == IF r.hi = <<>> THEN MaxKey ELSE OrderKey(r.hi[1])
        crossed == /\ r.lo # <<>> /\ r.hi # <<>>
                   /\ LET c == Compare(r.lo[1], r.hi[1])
                      IN  c > 0 \/ (c = 0 /\ ~(r.loIncl /\ r.hiIncl))
        wraps == (in(r.lo, r.loIncl) = 1 /\ lo = MaxKey) \/ (in(r.hi, r.hiIncl) = 1 /\ hi = 0)
        keys  == [lo |-> lo + in(r.lo, r.loIncl), hi |-> hi - in(r.hi, r.hiIncl)]
    IN  IF r.empty \/ crossed \/ wraps \/ keys.lo > keys.hi THEN NoKeys ELSE keys

\* A term an index on col can use.
InRange(c, col) == c.left = col /\ c.right = 0 /\ c.op # "ne"

\* The path by an index on col.  Its terms are consumed only if its keys are exact.
ByIndex(q, i, col) ==
    LET terms == Local(q, i)
        type  == Table(q, i).types[col]
        using == SelectSeq(terms, LAMBDA c : InRange(c, col))
        keys  == RangeKeys(FoldLeft(LAMBDA r, c : Tightened(r, c), AnyValue, using), type)
        rest  == IF ExactKey(type) THEN SelectSeq(terms, LAMBDA c : ~InRange(c, col)) ELSE terms
        read  == IF col = 1 /\ keys.lo = keys.hi
                 THEN [op |-> "lookup", tab |-> q.tables[i], key |-> keys.lo]
                 ELSE [op |-> "indexscan", tab |-> q.tables[i], col |-> col, lo |-> keys.lo, hi |-> keys.hi]
    IN  [plan |-> Filtered(Source(read), rest), keyOrder |-> col = 1, bare |-> FALSE]

WholeTable(q, i) == Source([op |-> "seqscan", tab |-> q.tables[i]])

\* plan_access: a scan, or an indexed column that some term bounds.
Access(q, i) ==
    LET candidates == {col \in DOMAIN Table(q, i).types :
                          Indexed(Table(q, i), col) /\ \E k \in DOMAIN Local(q, i) : InRange(Local(q, i)[k], col)}
    IN  {[plan |-> Filtered(WholeTable(q, i), Local(q, i)), keyOrder |-> TRUE, bare |-> Local(q, i) = <<>>]}
        \cup {ByIndex(q, i, col) : col \in candidates}
-----------------------------------------------------------------------------
(* The joins, left-deep, in the order written.                             *)

\* An equality of a column of each side of the join with table i.
IsKey(q, i, c) == c.op = "eq" /\ c.right # 0 /\ (c.left > q.offset[i]) # (c.right > q.offset[i])

KeyPair(q, i, c) == <<Min({c.left, c.right}), Max({c.left, c.right}) - q.offset[i]>>

NestedLoopOf(l, r, terms) == OverTwo(l, r, [op |-> "nlj", on |-> terms])

HashOf(q, i, l, r, terms, buildLeft) ==
    LET keys == SelectSeq(terms, LAMBDA c : IsKey(q, i, c))
    IN  OverTwo(l, r, [op |-> "hash", buildLeft |-> buildLeft,
                       keys |-> [k \in DOMAIN keys |-> KeyPair(q, i, keys[k])],
                       residual |-> SelectSeq(terms, LAMBDA c : ~IsKey(q, i, c))])

\* The k-th term searches an index of table i for every row of outer.
IndexOf(q, i, outer, outerCol, innerCol, terms, k, innerFirst) ==
    Over(outer, [op |-> "inlj", tab |-> q.tables[i], outerCol |-> outerCol, innerCol |-> innerCol,
                 inner |-> Local(q, i), residual |-> RemoveAt(terms, k), innerFirst |-> innerFirst])

\* The ways to join l, of the tables before i, with r, of table i.
JoinsOf(q, i, l, r) ==
    LET terms   == Cross(q, i)
        keys    == {k \in DOMAIN terms : IsKey(q, i, terms[k])}
        pair(k) == KeyPair(q, i, terms[k])
    IN  {NestedLoopOf(l, r, terms)}
        \cup {HashOf(q, i, l, r, terms, left) : left \in IF keys = {} THEN {} ELSE BOOLEAN}
        \cup {IndexOf(q, i, l, pair(k)[1], pair(k)[2], terms, k, FALSE) :
                 k \in {j \in keys : Indexed(Table(q, i), pair(j)[2])}}
        \cup {IndexOf(q, 1, r, pair(k)[2], pair(k)[1], terms, k, TRUE) :
                 k \in {j \in keys : i = 2 /\ Indexed(Table(q, 1), pair(j)[1])}}

\* plan_from: the plans of the first i tables, given those of the tables before.
JoinedUpTo(q, i, before) ==
    IF i = 1 THEN {a.plan : a \in Access(q, 1)}
    ELSE UNION {UNION {JoinsOf(q, i, l, r.plan) : r \in Access(q, i)} : l \in before}

From(q) ==
    LET joined[i \in DOMAIN q.tables] == JoinedUpTo(q, i, joined[i - 1])
    IN  IF Len(q.tables) = 1 THEN Access(q, 1)
        ELSE {[plan |-> p, keyOrder |-> FALSE, bare |-> FALSE] : p \in joined[Len(q.tables)]}

\* The literal mode (plan_source, plan_join): the ON terms at their join, by hash if they
\* can be, and the WHERE above everything, but for one term a key lookup answers.
LiteralUpTo(q, i, before) ==
    IF i = 1 THEN {WholeTable(q, 1)}
    ELSE UNION {{NestedLoopOf(l, WholeTable(q, i), q.on[i - 1])}
                \cup (IF \E c \in Range(q.on[i - 1]) : IsKey(q, i, c)
                      THEN {HashOf(q, i, l, WholeTable(q, i), q.on[i - 1], FALSE)} ELSE {})
                : l \in before}

LiteralFrom(q) ==
    LET isLookup(c) == c.op = "eq" /\ c.right = 0 /\ c.left = 1
        k == SelectInSeq(q.where, isLookup)
        lookup == Source([op |-> "lookup", tab |-> q.tables[1],
                          key |-> IF q.where[k].lit.null THEN NoKey ELSE OrderKey(q.where[k].lit)])
        joined[i \in DOMAIN q.tables] == LiteralUpTo(q, i, joined[i - 1])
    IN  {[plan |-> p, keyOrder |-> FALSE, bare |-> FALSE] :
            p \in IF Len(q.tables) = 1 /\ k # 0 THEN {Filtered(lookup, RemoveAt(q.where, k))}
                  ELSE {Filtered(p, q.where) : p \in joined[Len(q.tables)]}}
-----------------------------------------------------------------------------
(* Above the rows: groups, order, limit, columns.                          *)

Distinct(s) == FoldLeft(LAMBDA d, x : IF Contains(d, x) THEN d ELSE Append(d, x), <<>>, s)

Items(q)     == q.list \o [k \in DOMAIN q.having |-> q.having[k].item] \o [k \in DOMAIN q.order |-> q.order[k].item]
IsAgg(item)  == item.func # "none"
Aggregating(q) == q.group # <<>> \/ q.having # <<>> \/ \E item \in Range(Items(q)) : IsAgg(item)

\* Each aggregate is computed once, however often it is named.
Groups(q) == Distinct(q.group)
Aggs(q)   == LET named == Distinct(SelectSeq(Items(q), IsAgg))
             IN  [k \in DOMAIN named |-> named[k] @@ [type |-> TypeAt(q, named[k].col)]]

\* Where an item is found above the aggregate, or without one above the rows.
Place(q, item) ==
    IF ~Aggregating(q) THEN item.col
    ELSE IF IsAgg(item)
         THEN Len(Groups(q)) + SelectInSeq(Aggs(q), LAMBDA a : a.func = item.func /\ a.col = item.col)
    ELSE SelectInSeq(Groups(q), LAMBDA g : g = item.col)

\* The groups: by the ends of indexes, when nothing but MIN and MAX of whole indexed
\* columns is asked, or by a hash aggregate (which a forced scan keeps).
Aggregated(q, src) ==
    LET ends == /\ src.bare /\ q.group = <<>>
                /\ \A a \in Range(Aggs(q)) : a.func \in {"min", "max"} /\ Indexed(Table(q, 1), a.col)
        hash == Over(src.plan, [op |-> "aggregate", group |-> Groups(q), aggs |-> Aggs(q)])
    IN  IF ~Aggregating(q) THEN {src.plan}
        ELSE {hash} \cup (IF ends THEN {Source([op |-> "minmax", tab |-> q.tables[1], aggs |-> Aggs(q)])} ELSE {})

Limited(p, n) == IF n = NoLimit THEN p ELSE Over(p, [op |-> "limit", n |-> n])

\* Rows read in key order are sorted by it; a key is unique, so no other item matters.
Sorted(q, src, p) ==
    LET sorted == /\ src.keyOrder /\ ~Aggregating(q)
                  /\ q.order # <<>> /\ ~q.order[1].desc /\ q.order[1].item.col = 1
        keys   == [k \in DOMAIN q.order |-> [col |-> Place(q, q.order[k].item), desc |-> q.order[k].desc]]
    IN  IF q.order = <<>> \/ sorted THEN Limited(p, q.limit)
        ELSE Over(p, [op |-> "sort", limit |-> q.limit, keys |-> keys])

Shown(q, p) ==
    IF q.star THEN p
    ELSE Over(p, [op |-> "project", cols |-> [k \in DOMAIN q.list |-> Place(q, q.list[k])]])

HavingTerms(q) ==
    [k \in DOMAIN q.having |-> [left |-> Place(q, q.having[k].item), op |-> q.having[k].op,
                                right |-> 0, lit |-> q.having[k].lit]]

Plans(q) ==
    UNION {{Shown(q, Sorted(q, src, Filtered(p, HavingTerms(q)))) : p \in Aggregated(q, src)} :
              src \in From(q) \cup LiteralFrom(q)}
==============================================================================
