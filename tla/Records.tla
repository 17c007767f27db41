------------------------------ MODULE Records ------------------------------
(***************************************************************************)
(* Values, rows and their encoding (src/src/record.hpp), comparisons, and  *)
(* batches of rows (batch.hpp and operator.cpp).                           *)
(*                                                                         *)
(* A value is an integer or a text, a text a sequence of bytes.  INT32 and *)
(* BOOL are integers of a narrower slot, read and compared as the same 64  *)
(* bits; DOUBLE is left out.  A record is a sequence of units in place of  *)
(* bytes: one for the null bitmap (the set of the columns that are null),  *)
(* one for an integer, two for the pointer to a text, one for each byte of *)
(* a text.  A batch is kept by rows in place of columns.                   *)
(***************************************************************************)
EXTENDS Integers, FiniteSets, SequencesExt

CONSTANTS
    MaxInt,          \* the largest integer of the machine's width
    Base,            \* bytes are 0 .. Base - 1
    PrefixLen        \* the bytes of a text that fit its order key (8)

MinInt == -MaxInt - 1
MaxKey == MaxInt - MinInt    \* ~Key{0}

ASSUME KeyWidth == /\ {MaxInt, Base, PrefixLen} \subseteq Nat
                   /\ Base ^ PrefixLen = MaxKey + 1

Type     == {"int", "text"}
Field(type, null, v) == [type |-> type, null |-> null, v |-> v]
IntOf(n)    == Field("int", FALSE, n)
TextOf(s)   == Field("text", FALSE, s)
Null(type)  == Field(type, TRUE, IF type = "text" THEN <<>> ELSE 0)

Total(ns) == FoldLeft(LAMBDA m, n : m + n, 0, ns)
-----------------------------------------------------------------------------
(* The codec.  A schema s is the sequence of its columns' types.           *)

SlotWidth(type) == IF type = "text" THEN 2 ELSE 1

\* Every earlier column counts, null or not.
SlotOffset(s, i) == 2 + Total([j \in 1..(i - 1) |-> SlotWidth(s[j])])

Encoded(s, row) ==
    LET bytes(i)  == IF s[i] = "text" /\ ~row[i].null THEN row[i].v ELSE <<>>
        before(i) == Total([j \in 1..(i - 1) |-> Len(bytes(j))])
        slot(i)   == IF row[i].null THEN [u \in 1..SlotWidth(s[i]) |-> 0]
                     ELSE IF s[i] = "text" THEN <<before(i), Len(row[i].v)>>
                     ELSE <<row[i].v>>
        nulls     == {i \in DOMAIN s : row[i].null}
    IN  <<nulls>> \o FlattenSeq([i \in DOMAIN s |-> slot(i)])
                  \o FlattenSeq([i \in DOMAIN s |-> bytes(i)])

\* RecordLayout: where each slot is, worked out once for a schema, and where they end.
Layout(s) == [types |-> s, slot |-> [i \in 1..(Len(s) + 1) |-> SlotOffset(s, i)]]

\* One column of a record, in one step: project and read_at.
Projected(l, rec, i) ==
    LET at    == l.slot[i]
        start == Last(l.slot) + rec[at]
    IN  IF i \in rec[1] THEN Null(l.types[i])
        ELSE IF l.types[i] = "text" THEN TextOf(SubSeq(rec, start, start + rec[at + 1] - 1))
        ELSE IntOf(rec[at])

Decoded(l, rec) == [i \in DOMAIN l.types |-> Projected(l, rec, i)]
-----------------------------------------------------------------------------
(* Order and comparison.                                                   *)

\* order_key: a value that is not null as a number whose order is the value's.
OrderKey(f) ==
    IF f.type = "int" THEN f.v - MinInt
    ELSE FoldLeft(LAMBDA k, i : k * Base + (IF i <= Len(f.v) THEN f.v[i] ELSE 0),
                  0, [i \in 1..PrefixLen |-> i])

\* order_key_exact: equal keys only for equal values.
ExactKey(type) == type # "text"

TextBefore(a, b) == \E n \in 0..Len(a) : /\ n < Len(b) /\ SubSeq(a, 1, n) = SubSeq(b, 1, n)
                                         /\ n = Len(a) \/ a[n + 1] < b[n + 1]

\* compare_values of two values that are not null: -1, 0 or 1.
Compare(a, b) == IF a.v = b.v THEN 0
                 ELSE IF IF a.type = "text" THEN TextBefore(a.v, b.v) ELSE a.v < b.v THEN -1
                 ELSE 1

Holds(op, c) == CASE op = "eq" -> c = 0
                  [] op = "ne" -> c # 0
                  [] op = "lt" -> c < 0
                  [] op = "le" -> c <= 0
                  [] op = "gt" -> c > 0
                  [] op = "ge" -> c >= 0

\* A comparison c (BoundComparison): column left, op, and column right or, if
\* right is 0, the literal lit.  With a null it never holds.
Eval(c, row) == LET a == row[c.left]
                    b == IF c.right = 0 THEN c.lit ELSE row[c.right]
                IN  ~a.null /\ ~b.null /\ Holds(c.op, Compare(a, b))

EvalAll(cs, row) == \A i \in DOMAIN cs : Eval(cs[i], row)
-----------------------------------------------------------------------------
(* Batches: rows, and when selected the positions sel of those still live. *)
(* A row handed out by itself is a batch of one.                           *)

Whole(rows) == [rows |-> rows, selected |-> FALSE, sel |-> <<>>]
NoRows      == Whole(<<>>)

Count(b)    == IF b.selected THEN Len(b.sel) ELSE Len(b.rows)
RowOf(b, k) == b.rows[IF b.selected THEN b.sel[k] ELSE k]
Live(b)     == [k \in 1..Count(b) |-> RowOf(b, k)]

\* The numbers of a set, in their order; the elements of a sequence at those places.
InTurn(ns) == [k \in 1..Cardinality(ns) |-> CHOOSE n \in ns : Cardinality({m \in ns : m <= n}) = k]
Picked(s, at) == LET places == InTurn(at) IN [k \in DOMAIN places |-> s[places[k]]]

\* select and keep_if, comparison after comparison: the live rows for which all of cs hold.
Narrowed(cs, b) ==
    LET live == IF b.selected THEN Range(b.sel) ELSE DOMAIN b.rows
    IN  IF cs = <<>> THEN b
        ELSE [b EXCEPT !.selected = TRUE, !.sel = InTurn({i \in live : EvalAll(cs, b.rows[i])})]
==============================================================================
