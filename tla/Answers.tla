------------------------------ MODULE Answers ------------------------------
(***************************************************************************)
(* What a SELECT promises: the answer of a query over its tables, whatever *)
(* plan runs it; and the rows an operator of a plan is to hand up, in      *)
(* whatever batches it hands them up.  Stated on the values of the tables: *)
(* no records, no hash tables, no batches.                                 *)
(***************************************************************************)
EXTENDS Planner

Cols(row, cols) == [k \in DOMAIN cols |-> row[cols[k]]]

\* NULL is greater than every value.
Leq(f, g) == g.null \/ (~f.null /\ Compare(f, g) <= 0)

\* Lists of values, the k-th descending if desc[k].
ListLeq(a, b, desc) ==
    LET differ == {k \in DOMAIN a : a[k] # b[k]}
        k      == Min(differ)
    IN  differ = {} \/ IF desc[k] THEN Leq(b[k], a[k]) ELSE Leq(a[k], b[k])

\* An aggregate over rows, a function on any set.
AggValue(a, rows) ==
    LET some == {i \in DOMAIN rows : ~rows[i][a.col].null}
        v(i) == rows[i][a.col]
    IN  CASE a.func = "countstar" -> IntOf(Cardinality(DOMAIN rows))
          [] a.func = "count"     -> IntOf(Cardinality(some))
          [] a.func = "sum"       -> IF some = {} THEN Null("int") ELSE IntOf(MapThenSumSet(LAMBDA i : v(i).v, some))
          [] a.func = "min"       -> IF some = {} THEN Null(a.type) ELSE v(CHOOSE i \in some : \A j \in some : Leq(v(i), v(j)))
          [] a.func = "max"       -> IF some = {} THEN Null(a.type) ELSE v(CHOOSE i \in some : \A j \in some : Leq(v(j), v(i)))
-----------------------------------------------------------------------------
(* The answer of a query.                                                  *)

\* The joined rows the conditions keep, each with the places of its parts.
Combos(q) ==
    LET n == Max({Len(Table(q, i).rows) : i \in DOMAIN q.tables})
        places == {p \in [DOMAIN q.tables -> 1..n] : \A i \in DOMAIN p : p[i] <= Len(Table(q, i).rows)}
        combos == {[at |-> p, row |-> FlattenSeq([i \in DOMAIN p |-> Table(q, i).rows[p[i]]])] : p \in places}
    IN  {c \in combos : EvalAll(q.terms, c.row)}

\* What the rows of the answer stand for, before HAVING: sets of joined rows, the groups
\* or one by one.
Entities(q) ==
    LET combos == Combos(q)
        key(c) == Cols(c.row, q.group)
    IN  IF ~Aggregating(q) THEN {{c} : c \in combos}
        ELSE IF q.group = <<>> THEN {combos}
        ELSE {{d \in combos : key(d) = key(c)} : c \in combos}

ValueOf(q, item, e) ==
    IF IsAgg(item) THEN AggValue(item @@ [type |-> TypeAt(q, item.col)], [c \in e |-> c.row])
    ELSE (CHOOSE c \in e : TRUE).row[item.col]

Survives(q, e) ==
    \A h \in Range(q.having) : LET v == ValueOf(q, h.item, e)
                               IN  ~v.null /\ ~h.lit.null /\ Holds(h.op, Compare(v, h.lit))

\* rows answer q: as many as there are, or the limit; none more often than it occurs; and
\* each, by what is ordered by (and shown), where its rank puts it.
IsAnswer(q, rows) ==
    LET those  == {e \in Entities(q) : Survives(q, e)}
        shown(e) == IF q.star THEN (CHOOSE c \in e : TRUE).row
                    ELSE [k \in DOMAIN q.list |-> ValueOf(q, q.list[k], e)]
        keys(e)  == [k \in DOMAIN q.order |-> ValueOf(q, q.order[k].item, e)]
        desc   == [k \in DOMAIN q.order |-> q.order[k].desc]
        column(item) == IF q.star THEN item.col ELSE SelectInSeq(q.list, LAMBDA x : x = item)
        n      == Cardinality(those)
    IN  /\ Len(rows) = IF q.limit # NoLimit /\ q.limit < n THEN q.limit ELSE n
        /\ \A row \in Range(rows) : Cardinality({i \in DOMAIN rows : rows[i] = row})
                                       <= Cardinality({e \in those : shown(e) = row})
        /\ \A i \in DOMAIN rows :
               LET key == [k \in DOMAIN q.order |-> rows[i][column(q.order[k].item)]]
               IN  /\ Cardinality({e \in those : ~ListLeq(key, keys(e), desc)}) < i
                   /\ i <= Cardinality({e \in those : ListLeq(keys(e), key, desc)})

\* Some order of adding up takes a SUM of q past the integers.
SumMayOverflow(q) ==
    \E a \in Range(Aggs(q)), e \in Entities(q) :
        /\ a.func = "sum"
        /\ \E some \in SUBSET {c \in e : ~c.row[a.col].null} :
               MapThenSumSet(LAMBDA c : c.row[a.col].v, some) \notin MinInt..MaxInt
-----------------------------------------------------------------------------
(* The rows of each node of a plan.                                        *)

InKeyOrder(tab, col, lo, hi) ==
    LET within == SelectSeq(database[tab].trees[col], LAMBDA e : lo <= e.key /\ e.key <= hi)
    IN  [i \in DOMAIN within |-> database[tab].rows[within[i].rid]]

\* For each row of outer, its matches among inner; left and right are the two in the
\* order in which they are joined.
Joined(outer, inner, outerLeft, matches(_, _)) ==
    LET pairs(o) == [j \in DOMAIN inner |-> IF outerLeft THEN <<o, inner[j]>> ELSE <<inner[j], o>>]
        kept(o)  == SelectSeq(pairs(o), LAMBDA p : matches(p[1], p[2]))
    IN  FlattenSeq([i \in DOMAIN outer |-> LET k == kept(outer[i])
                                           IN  [j \in DOMAIN k |-> k[j][1] \o k[j][2]]])

Same(f, g) == ~f.null /\ ~g.null /\ f = g

HashJoined(n, left, right) ==
    LET matches(l, r) == /\ \A k \in Range(n.keys) : Same(l[k[1]], r[k[2]])
                         /\ EvalAll(n.residual, l \o r)
    IN  IF n.buildLeft THEN Joined(right, left, FALSE, matches) ELSE Joined(left, right, TRUE, matches)

IndexJoined(n, outer) ==
    LET matches(l, r) == LET o == IF n.innerFirst THEN r ELSE l
                             i == IF n.innerFirst THEN l ELSE r
                         IN  /\ Same(o[n.outerCol], i[n.innerCol])
                             /\ EvalAll(n.inner, i) /\ EvalAll(n.residual, l \o r)
    IN  Joined(outer, InKeyOrder(n.tab, n.innerCol, 0, MaxKey), ~n.innerFirst, matches)

\* Groups in the order of their first rows.
Aggregate(n, rows) ==
    LET keyAt(i) == Cols(rows[i], n.group)
        keys     == IF n.group = <<>> THEN << <<>> >> ELSE Distinct([i \in DOMAIN rows |-> keyAt(i)])
        those(g) == {i \in DOMAIN rows : keyAt(i) = keys[g]}
    IN  [g \in DOMAIN keys |->
            keys[g] \o [a \in DOMAIN n.aggs |-> AggValue(n.aggs[a], [i \in those(g) |-> rows[i]])]]

\* Ties keep their order.
InOrder(n, rows) ==
    LET key(i) == [k \in DOMAIN n.keys |-> rows[i][n.keys[k].col]]
        desc   == [k \in DOMAIN n.keys |-> n.keys[k].desc]
        order  == SortSeq([i \in DOMAIN rows |-> i],
                          LAMBDA i, j : IF key(i) = key(j) THEN i < j ELSE ListLeq(key(i), key(j), desc))
        sorted == [i \in DOMAIN order |-> rows[order[i]]]
    IN  IF n.limit = NoLimit \/ n.limit > Len(sorted) THEN sorted ELSE SubSeq(sorted, 1, n.limit)

RowsOf(p) ==
    LET rows[i \in DOMAIN p] ==
            LET n     == p[i]
                below == rows[n.in[1]]
            IN  CASE n.op = "seqscan"   -> InKeyOrder(n.tab, 1, 0, MaxKey)
                  [] n.op = "lookup"    -> InKeyOrder(n.tab, 1, n.key, n.key)
                  [] n.op = "indexscan" -> InKeyOrder(n.tab, n.col, n.lo, n.hi)
                  [] n.op = "filter"    -> SelectSeq(below, LAMBDA row : EvalAll(n.terms, row))
                  [] n.op = "project"   -> [r \in DOMAIN below |-> Cols(below[r], n.cols)]
                  [] n.op = "limit"     -> SubSeq(below, 1, IF n.n < Len(below) THEN n.n ELSE Len(below))
                  [] n.op = "sort"      -> InOrder(n, below)
                  [] n.op = "aggregate" -> Aggregate(n, below)
                  [] n.op = "minmax"    -> << [a \in DOMAIN n.aggs |-> AggValue(n.aggs[a], database[n.tab].rows)] >>
                  [] n.op = "nlj"       -> Joined(below, rows[n.in[2]], TRUE, LAMBDA l, r : EvalAll(n.on, l \o r))
                  [] n.op = "hash"      -> HashJoined(n, below, rows[n.in[2]])
                  [] n.op = "inlj"      -> IndexJoined(n, below)
    IN  rows
==============================================================================
