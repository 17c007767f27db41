---------------------------- MODULE Query_proofs ----------------------------
(***************************************************************************)
(* Theorems about the ranges of keys that the planner reads of an index    *)
(* (ColumnRange, narrow and range_keys of src/src/executor.cpp), for       *)
(* integers of every width: the terms of an exact column may be consumed,  *)
(* because the rows between the keys are those they keep.  Then, for any   *)
(* tables and queries: plans are trees, calls go down and up a branch of   *)
(* them, and so few pages are pinned at a time and none in the end; every  *)
(* batch holds a row and no more than its caller asked for; a limit has no *)
(* more rows read than it hands up; and every group of an aggregate is     *)
(* found in its table, whatever the hashes.                                *)
(***************************************************************************)
EXTENDS Query, FiniteSetTheorems, WellFoundedInduction, TLAPS

\* The integers a column can hold.
Ints == {IntOf(n) : n \in MinInt..MaxInt}

Bounds == {<<>>} \cup {<<f>> : f \in Ints}

\* What narrow makes of AnyValue with integers.
IntRange == [lo : Bounds, hi : Bounds, loIncl : BOOLEAN, hiIncl : BOOLEAN, empty : BOOLEAN]

Terms == [left : Nat, op : {"eq", "lt", "le", "gt", "ge"}, right : {0}, lit : Ints \cup {Null("int")}]

\* f lies in the range r: of values, not of keys.
Within(r, f) ==
    /\ ~r.empty
    /\ r.lo # <<>> => f.v > r.lo[1].v \/ (f.v = r.lo[1].v /\ r.loIncl)
    /\ r.hi # <<>> => f.v < r.hi[1].v \/ (f.v = r.hi[1].v /\ r.hiIncl)

\* The term c holds of the value f.
Satisfies(f, c) == ~c.lit.null /\ Holds(c.op, Compare(f, c.lit))
-----------------------------------------------------------------------------
LEMMA MachineIntegers == MaxInt \in Nat /\ MinInt \in Int /\ MinInt <= MaxInt /\ MaxKey \in Nat
BY KeyWidth DEF MinInt, MaxKey

LEMMA IntFields ==
    \A f \in Ints : /\ f.type = "int" /\ f.null = FALSE
                    /\ f.v \in Int /\ MinInt <= f.v /\ f.v <= MaxInt
BY MachineIntegers DEF Ints, IntOf, Field

\* Two integers are equal as values when they are equal as fields.
LEMMA CompareInts ==
    ASSUME NEW a \in Ints, NEW b \in Ints
    PROVE  Compare(a, b) = IF a.v = b.v THEN 0 ELSE IF a.v < b.v THEN -1 ELSE 1
BY IntFields DEF Compare

\* order_key keeps the order of integers and loses none (record.hpp: order_key).
THEOREM OrderKeyKeepsOrder ==
    \A a, b \in Ints : /\ OrderKey(a) \in 0..MaxKey
                       /\ OrderKey(a) < OrderKey(b) <=> a.v < b.v
                       /\ OrderKey(a) = OrderKey(b) <=> a.v = b.v
<1> SUFFICES ASSUME NEW a \in Ints, NEW b \in Ints
             PROVE  /\ OrderKey(a) \in 0..MaxKey
                    /\ OrderKey(a) < OrderKey(b) <=> a.v < b.v
                    /\ OrderKey(a) = OrderKey(b) <=> a.v = b.v
  OBVIOUS
<1>1. OrderKey(a) = a.v - MinInt /\ OrderKey(b) = b.v - MinInt
  BY IntFields DEF OrderKey
<1> QED
  BY <1>1, IntFields, MachineIntegers DEF MaxKey
-----------------------------------------------------------------------------
(* narrow.                                                                 *)

LEMMA RangeFields ==
    \A r \in IntRange : /\ r.lo # <<>> => r.lo[1] \in Ints
                        /\ r.hi # <<>> => r.hi[1] \in Ints
BY DEF IntRange, Bounds

LEMMA RaisedMeets ==
    ASSUME NEW r \in IntRange, NEW v \in Ints, NEW incl \in BOOLEAN
    PROVE  /\ Raised(r, v, incl) \in IntRange
           /\ \A f \in Ints : Within(Raised(r, v, incl), f)
                                <=> Within(r, f) /\ (f.v > v.v \/ (f.v = v.v /\ incl))
<1> DEFINE moved == [r EXCEPT !.lo = <<v>>, !.loIncl = incl]
<1>1. moved \in IntRange
  BY DEF IntRange, Bounds
<1>2. CASE r.lo = <<>>
  <2>1. Raised(r, v, incl) = moved
    BY <1>2 DEF Raised
  <2> QED
    BY <1>1, <1>2, <2>1 DEF Within, IntRange
<1>3. CASE r.lo # <<>>
  <2> DEFINE b == r.lo[1]
  <2>1. b \in Ints
    BY <1>3, RangeFields
  <2>2. Raised(r, v, incl) = IF v.v > b.v \/ (v.v = b.v /\ ~incl) THEN moved ELSE r
    BY <1>3, <2>1, CompareInts, IntFields DEF Raised
  <2>3. CASE v.v > b.v \/ (v.v = b.v /\ ~incl)
    <3>1. Raised(r, v, incl) = moved
      BY <2>2, <2>3
    <3> QED
      BY <1>1, <1>3, <2>1, <2>3, <3>1, IntFields DEF Within, IntRange
  <2>4. CASE ~(v.v > b.v \/ (v.v = b.v /\ ~incl))
    <3>1. Raised(r, v, incl) = r
      BY <2>2, <2>4
    <3> QED
      BY <1>3, <2>1, <2>4, <3>1, IntFields DEF Within
  <2> QED
    BY <2>3, <2>4
<1> QED
  BY <1>2, <1>3

LEMMA LoweredMeets ==
    ASSUME NEW r \in IntRange, NEW v \in Ints, NEW incl \in BOOLEAN
    PROVE  /\ Lowered(r, v, incl) \in IntRange
           /\ \A f \in Ints : Within(Lowered(r, v, incl), f)
                                <=> Within(r, f) /\ (f.v < v.v \/ (f.v = v.v /\ incl))
<1> DEFINE moved == [r EXCEPT !.hi = <<v>>, !.hiIncl = incl]
<1>1. moved \in IntRange
  BY DEF IntRange, Bounds
<1>2. CASE r.hi = <<>>
  <2>1. Lowered(r, v, incl) = moved
    BY <1>2 DEF Lowered
  <2> QED
    BY <1>1, <1>2, <2>1 DEF Within, IntRange
<1>3. CASE r.hi # <<>>
  <2> DEFINE b == r.hi[1]
  <2>1. b \in Ints
    BY <1>3, RangeFields
  <2>2. Lowered(r, v, incl) = IF v.v < b.v \/ (v.v = b.v /\ ~incl) THEN moved ELSE r
    BY <1>3, <2>1, CompareInts, IntFields DEF Lowered
  <2>3. CASE v.v < b.v \/ (v.v = b.v /\ ~incl)
    <3>1. Lowered(r, v, incl) = moved
      BY <2>2, <2>3
    <3> QED
      BY <1>1, <1>3, <2>1, <2>3, <3>1, IntFields DEF Within, IntRange
  <2>4. CASE ~(v.v < b.v \/ (v.v = b.v /\ ~incl))
    <3>1. Lowered(r, v, incl) = r
      BY <2>2, <2>4
    <3> QED
      BY <1>3, <2>1, <2>4, <3>1, IntFields DEF Within
  <2> QED
    BY <2>3, <2>4
<1> QED
  BY <1>2, <1>3

\* A range tightened by a term holds the values it held for which the term holds.
THEOREM TightenedMeets ==
    ASSUME NEW r \in IntRange, NEW c \in Terms
    PROVE  /\ Tightened(r, c) \in IntRange
           /\ \A f \in Ints : Within(Tightened(r, c), f) <=> Within(r, f) /\ Satisfies(f, c)
<1>0. c.lit.null = TRUE \/ c.lit.null = FALSE
  <2>1. c.lit \in Ints \/ c.lit = [type |-> "int", null |-> TRUE, v |-> 0]
    BY DEF Terms, Null, Field
  <2> QED
    BY <2>1, IntFields
<1>1. CASE c.lit.null = TRUE
  <2>1. Tightened(r, c) = [r EXCEPT !.empty = TRUE]
    BY <1>1 DEF Tightened
  <2> QED
    BY <1>1, <2>1 DEF IntRange, Within, Satisfies
<1>2. CASE c.lit.null = FALSE
  <2>1. c.lit \in Ints
    BY <1>2 DEF Terms, Null, Field
  <2>2. \A f \in Ints : Compare(f, c.lit) = IF f.v = c.lit.v THEN 0 ELSE IF f.v < c.lit.v THEN -1 ELSE 1
    BY <2>1, CompareInts
  <2>3. \A f \in Ints : f.v \in Int /\ c.lit.v \in Int
    BY <2>1, IntFields
  <2>4. CASE c.op = "eq"
    <3> DEFINE raised == Raised(r, c.lit, TRUE)
    <3>1. Tightened(r, c) = Lowered(raised, c.lit, TRUE)
      BY <1>2, <2>4 DEF Tightened
    <3>2. /\ raised \in IntRange
          /\ \A f \in Ints : Within(raised, f) <=> Within(r, f) /\ (f.v > c.lit.v \/ f.v = c.lit.v)
      BY <2>1, RaisedMeets
    <3> HIDE DEF raised
    <3>3. /\ Lowered(raised, c.lit, TRUE) \in IntRange
          /\ \A f \in Ints : Within(Lowered(raised, c.lit, TRUE), f)
                               <=> Within(raised, f) /\ (f.v < c.lit.v \/ f.v = c.lit.v)
      BY <2>1, <3>2, LoweredMeets
    <3>4. \A f \in Ints : Satisfies(f, c) <=> f.v = c.lit.v
      BY <1>2, <2>2, <2>4 DEF Satisfies, Holds
    <3>5. \A f \in Ints : Within(Lowered(raised, c.lit, TRUE), f) <=> Within(r, f) /\ f.v = c.lit.v
      <4> SUFFICES ASSUME NEW f \in Ints
                   PROVE  Within(Lowered(raised, c.lit, TRUE), f) <=> Within(r, f) /\ f.v = c.lit.v
        OBVIOUS
      <4>1. ~(f.v > c.lit.v /\ f.v < c.lit.v) /\ ~(f.v > c.lit.v /\ f.v = c.lit.v)
        BY <2>3
      <4> QED
        BY <3>2, <3>3, <4>1, Zenon
    <3> QED
      BY <3>1, <3>3, <3>4, <3>5, Zenon
  <2>5. CASE c.op = "gt"
    <3>1. Tightened(r, c) = Raised(r, c.lit, FALSE)
      BY <1>2, <2>5 DEF Tightened
    <3>2. \A f \in Ints : Satisfies(f, c) <=> f.v > c.lit.v
      BY <1>2, <2>2, <2>3, <2>5 DEF Satisfies, Holds
    <3>3. /\ Raised(r, c.lit, FALSE) \in IntRange
          /\ \A f \in Ints : Within(Raised(r, c.lit, FALSE), f) <=> Within(r, f) /\ f.v > c.lit.v
      BY <2>1, RaisedMeets, Zenon
    <3> QED
      BY <3>1, <3>2, <3>3, Zenon
  <2>6. CASE c.op = "ge"
    <3>1. Tightened(r, c) = Raised(r, c.lit, TRUE)
      BY <1>2, <2>6 DEF Tightened
    <3>2. \A f \in Ints : Satisfies(f, c) <=> f.v > c.lit.v \/ f.v = c.lit.v
      BY <1>2, <2>2, <2>3, <2>6 DEF Satisfies, Holds
    <3>3. /\ Raised(r, c.lit, TRUE) \in IntRange
          /\ \A f \in Ints : Within(Raised(r, c.lit, TRUE), f) <=> Within(r, f) /\ (f.v > c.lit.v \/ f.v = c.lit.v)
      BY <2>1, RaisedMeets, Zenon
    <3> QED
      BY <3>1, <3>2, <3>3, Zenon
  <2>7. CASE c.op = "lt"
    <3>1. Tightened(r, c) = Lowered(r, c.lit, FALSE)
      BY <1>2, <2>7 DEF Tightened
    <3>2. \A f \in Ints : Satisfies(f, c) <=> f.v < c.lit.v
      BY <1>2, <2>2, <2>3, <2>7 DEF Satisfies, Holds
    <3>3. /\ Lowered(r, c.lit, FALSE) \in IntRange
          /\ \A f \in Ints : Within(Lowered(r, c.lit, FALSE), f) <=> Within(r, f) /\ f.v < c.lit.v
      BY <2>1, LoweredMeets, Zenon
    <3> QED
      BY <3>1, <3>2, <3>3, Zenon
  <2>8. CASE c.op = "le"
    <3>1. Tightened(r, c) = Lowered(r, c.lit, TRUE)
      BY <1>2, <2>8 DEF Tightened
    <3>2. \A f \in Ints : Satisfies(f, c) <=> f.v < c.lit.v \/ f.v = c.lit.v
      BY <1>2, <2>2, <2>3, <2>8 DEF Satisfies, Holds
    <3>3. /\ Lowered(r, c.lit, TRUE) \in IntRange
          /\ \A f \in Ints : Within(Lowered(r, c.lit, TRUE), f) <=> Within(r, f) /\ (f.v < c.lit.v \/ f.v = c.lit.v)
      BY <2>1, LoweredMeets, Zenon
    <3> QED
      BY <3>1, <3>2, <3>3, Zenon
  <2> QED
    BY <2>4, <2>5, <2>6, <2>7, <2>8 DEF Terms
<1> QED
  BY <1>0, <1>1, <1>2
-----------------------------------------------------------------------------
(* range_keys.                                                             *)

\* The keys of a range are those of its values, at the ends of the integers and when an
\* exclusive bound would wrap as well: an index scan reads what the terms keep.
THEOREM RangeKeysExact ==
    ASSUME NEW r \in IntRange, NEW f \in Ints
    PROVE  LET keys == RangeKeys(r, "int")
           IN  Within(r, f) <=> keys.lo <= OrderKey(f) /\ OrderKey(f) <= keys.hi
<1> DEFINE keys == RangeKeys(r, "int")
           key(g) == g.v - MinInt
           lo == IF r.lo = <<>> THEN 0 ELSE key(r.lo[1])
           hi == IF r.hi = <<>> THEN MaxKey ELSE key(r.hi[1])
           inLo == IF r.lo # <<>> /\ ~r.loIncl THEN 1 ELSE 0
           inHi == IF r.hi # <<>> /\ ~r.hiIncl THEN 1 ELSE 0
           crossed == /\ r.lo # <<>> /\ r.hi # <<>>
                      /\ \/ r.lo[1].v > r.hi[1].v
                         \/ r.lo[1].v = r.hi[1].v /\ ~(r.loIncl /\ r.hiIncl)
           wraps == (inLo = 1 /\ lo = MaxKey) \/ (inHi = 1 /\ hi = 0)
<1>1. \A g \in Ints : OrderKey(g) = key(g)
  BY IntFields DEF OrderKey
<1>2. r.lo # <<>> => r.lo[1] \in Ints
  BY RangeFields
<1>3. r.hi # <<>> => r.hi[1] \in Ints
  BY RangeFields
<1>4. r.loIncl \in BOOLEAN /\ r.hiIncl \in BOOLEAN /\ r.empty \in BOOLEAN
  BY DEF IntRange
<1>5. r.lo # <<>> /\ r.hi # <<>> =>
         Compare(r.lo[1], r.hi[1]) = IF r.lo[1].v = r.hi[1].v THEN 0
                                     ELSE IF r.lo[1].v < r.hi[1].v THEN -1 ELSE 1
  BY <1>2, <1>3, CompareInts
<1>6. keys = IF r.empty \/ crossed \/ wraps \/ lo + inLo > hi - inHi THEN NoKeys
             ELSE [lo |-> lo + inLo, hi |-> hi - inHi]
  BY <1>1, <1>2, <1>3, <1>4, <1>5, IntFields DEF RangeKeys, ExactKey
<1>7. f.v \in Int /\ MinInt <= f.v /\ f.v <= MaxInt /\ OrderKey(f) = f.v - MinInt
  BY <1>1, IntFields
<1>8. /\ r.lo # <<>> => r.lo[1].v \in Int /\ MinInt <= r.lo[1].v /\ r.lo[1].v <= MaxInt
      /\ r.hi # <<>> => r.hi[1].v \in Int /\ MinInt <= r.hi[1].v /\ r.hi[1].v <= MaxInt
  BY <1>2, <1>3, IntFields
<1>9. Within(r, f) <=> ~r.empty /\ lo + inLo <= key(f) /\ key(f) <= hi - inHi
  <2>1. (r.lo # <<>> => f.v > r.lo[1].v \/ (f.v = r.lo[1].v /\ r.loIncl)) <=> lo + inLo <= key(f)
    <3>1. CASE r.lo = <<>>
      BY <1>7, <3>1, MachineIntegers
    <3>2. CASE r.lo # <<>> /\ r.loIncl
      <4>1. inLo = 0
        BY <3>2, Zenon
      <4>2. f.v > r.lo[1].v \/ f.v = r.lo[1].v <=> lo + inLo <= key(f)
        <5> HIDE DEF inLo
        <5> QED
          BY <1>7, <1>8, <3>2, <4>1, MachineIntegers
      <4> HIDE DEF inLo, lo, key
      <4> QED
        BY <3>2, <4>2, Zenon
    <3>3. CASE r.lo # <<>> /\ ~r.loIncl
      <4>1. inLo = 1
        BY <3>3, Zenon
      <4>2. f.v > r.lo[1].v <=> lo + inLo <= key(f)
        <5> HIDE DEF inLo
        <5> QED
          BY <1>7, <1>8, <3>3, <4>1, MachineIntegers
      <4> HIDE DEF inLo, lo, key
      <4> QED
        BY <3>3, <4>2, Zenon
    <3> QED
      BY <3>1, <3>2, <3>3
  <2>2. (r.hi # <<>> => f.v < r.hi[1].v \/ (f.v = r.hi[1].v /\ r.hiIncl)) <=> key(f) <= hi - inHi
    <3>1. CASE r.hi = <<>>
      BY <1>7, <3>1, MachineIntegers DEF MaxKey
    <3>2. CASE r.hi # <<>> /\ r.hiIncl
      <4>1. inHi = 0
        BY <3>2, Zenon
      <4>2. f.v < r.hi[1].v \/ f.v = r.hi[1].v <=> key(f) <= hi - inHi
        <5> HIDE DEF inHi
        <5> QED
          BY <1>7, <1>8, <3>2, <4>1, MachineIntegers DEF MaxKey
      <4> HIDE DEF inHi, hi, key
      <4> QED
        BY <3>2, <4>2, Zenon
    <3>3. CASE r.hi # <<>> /\ ~r.hiIncl
      <4>1. inHi = 1
        BY <3>3, Zenon
      <4>2. f.v < r.hi[1].v <=> key(f) <= hi - inHi
        <5> HIDE DEF inHi
        <5> QED
          BY <1>7, <1>8, <3>3, <4>1, MachineIntegers DEF MaxKey
      <4> HIDE DEF inHi, hi, key
      <4> QED
        BY <3>3, <4>2, Zenon
    <3> QED
      BY <3>1, <3>2, <3>3
  <2> HIDE DEF lo, hi, inLo, inHi, key
  <2> QED
    BY <2>1, <2>2 DEF Within
<1>10. lo \in 0..MaxKey /\ hi \in 0..MaxKey
  BY <1>8, MachineIntegers DEF MaxKey
<1>11. CASE r.empty \/ crossed \/ wraps \/ lo + inLo > hi - inHi
  <2>1. keys = NoKeys
    BY <1>6, <1>11
  <2>2. crossed => lo + inLo > hi - inHi
    <3> SUFFICES ASSUME crossed PROVE lo + inLo > hi - inHi
      OBVIOUS
    <3>1. lo = r.lo[1].v - MinInt /\ hi = r.hi[1].v - MinInt
      BY Zenon
    <3>2. r.lo[1].v > r.hi[1].v \/ (r.lo[1].v = r.hi[1].v /\ (inLo = 1 \/ inHi = 1))
      BY Zenon
    <3>3. inLo \in {0, 1} /\ inHi \in {0, 1}
      BY Zenon
    <3>4. r.lo[1].v \in Int /\ r.hi[1].v \in Int
      BY <1>8, Zenon
    <3>5. lo \in Int /\ hi \in Int /\ lo >= hi /\ (r.lo[1].v > r.hi[1].v => lo > hi)
      <4> HIDE DEF lo, hi, inLo, inHi, crossed
      <4> QED
        BY <3>1, <3>2, <3>4, MachineIntegers
    <3> HIDE DEF lo, hi, inLo, inHi, crossed
    <3> QED
      BY <3>2, <3>3, <3>5
  <2>3. wraps => lo + inLo > MaxKey \/ hi - inHi < 0
    BY <1>10, MachineIntegers
  <2>4. 0 <= key(f) /\ key(f) <= MaxKey
    BY <1>7, MachineIntegers DEF MaxKey
  <2>5. ~Within(r, f)
    <3>1. inLo \in Int /\ inHi \in Int /\ key(f) \in Int
      BY <1>7, MachineIntegers
    <3> HIDE DEF lo, hi, inLo, inHi, key, crossed, wraps
    <3> QED
      BY <1>9, <1>10, <1>11, <2>2, <2>3, <2>4, <3>1, MachineIntegers
  <2> QED
    BY <1>7, <2>1, <2>5, MachineIntegers DEF NoKeys
<1>12. CASE ~(r.empty \/ crossed \/ wraps \/ lo + inLo > hi - inHi)
  <2>1. keys.lo = lo + inLo /\ keys.hi = hi - inHi
    BY <1>6, <1>12
  <2> QED
    BY <1>7, <1>9, <1>12, <2>1
<1> QED
  BY <1>11, <1>12
-----------------------------------------------------------------------------
(* Plans are trees, and calls go down and up a branch.                     *)

Sources  == {"seqscan", "lookup", "indexscan", "minmax"}
Single   == Through \cup {"aggregate", "sort", "inlj"}
Double   == {"nlj", "hash"}
Cursored == {"seqscan", "lookup", "indexscan", "inlj"}

Ins(node) == {node.in[i] : i \in DOMAIN node.in}

IsSeq(s) == \E T : s \in Seq(T)

\* A node at place n reads as many nodes before it as its operator has inputs.
WellFormed(node, n) ==
    /\ {"op", "in"} \subseteq DOMAIN node
    /\ \/ node.op \in Sources /\ node.in = <<>>
       \/ node.op \in Single /\ \E a \in 1..(n - 1) : node.in = <<a>>
       \/ node.op \in Double /\ \E a, b \in 1..(n - 1) : a # b /\ node.in = <<a, b>>
    /\ node.op = "hash" => "buildLeft" \in DOMAIN node /\ node.buildLeft \in BOOLEAN

\* No node is read by two.
Tree(p) ==
    /\ IsSeq(p) /\ p # <<>>
    /\ \A n \in DOMAIN p : WellFormed(p[n], n)
    /\ \A m, n \in DOMAIN p : m # n => Ins(p[m]) \cap Ins(p[n]) = {}

\* m is the input that p, once open, keeps open.
Streams(p, m) == plan[p].op \in Through \cup Joins /\ m = Streamed(plan[p])

\* A call that the frame f may make: of a node, below its own.
Link(f, node, call) ==
    /\ f.call = "next" => call = "next" /\ Streams(f.node, node)
    /\ f.call = "close" => call = "close" /\ Streams(f.node, node)
    /\ f.call = "open" => \/ call = "open" /\ Streams(f.node, node)
                          \/ plan[f.node].op \in Drainers /\ node = Drained(plan[f.node])

OnStack == {stack[i].node : i \in DOMAIN stack}

Answering == reply.kind \notin {"none", "error"}

\* m may be open below p: as the input p keeps open, or while p opens as the input that
\* has just answered.
Below(p, m) ==
    /\ m \in Ins(plan[p])
    /\ p \notin OnStack => Streams(p, m)
    /\ p \in OnStack =>
          /\ p = Top.node
          /\ Top.call = "open" => Answering /\ reply.node = m /\ reply.call # "close"
          /\ Top.call = "next" => Streams(p, m)
          /\ Top.call = "close" => ~Answering /\ Streams(p, m)

\* The nodes of L are those under way or open, and only they pin.
Opened(L) ==
    /\ L \subseteq DOMAIN plan /\ OnStack \subseteq L /\ Pinning \subseteq L
    /\ \A m \in L : \/ m \in OnStack
                    \/ m = Root /\ stack = <<>> /\ Answering /\ reply.call # "close"
                    \/ \E p \in L : Below(p, m)
-----------------------------------------------------------------------------
(* The inductive invariant.                                                *)

PlanInv ==
    /\ status # "running" => stack = <<>> /\ reply.kind = "none" /\ Pinning = {}
    /\ \E d \in DOMAIN Databases : query \in Queries[d]
    /\ IF status = "new" THEN plan = <<>> ELSE Tree(plan)

\* Only operators with a cursor pin.
HeldInv ==
    /\ DOMAIN st = DOMAIN plan
    /\ \A n \in DOMAIN plan : /\ DOMAIN st[n] = DOMAIN Idle
                              /\ st[n].cur.pin # NoPage => plan[n].op \in Cursored

\* Every frame was called by the one below it.
FramesInv ==
    /\ IsSeq(stack)
    /\ \A i \in DOMAIN stack :
          /\ stack[i].node \in DOMAIN plan /\ stack[i].call \in Calling
          /\ i = 1 => stack[i].node = Root
          /\ i > 1 => Link(stack[i - 1], stack[i].node, stack[i].call)
          /\ \A j \in 1..(i - 1) : stack[i].node < stack[j].node

ReplyInv ==
    /\ reply.kind = "error" => stack = <<>> /\ Pinning = {}
    /\ Answering => /\ reply.call \in Calling
                    /\ IF stack = <<>> THEN reply.node = Root ELSE Link(Top, reply.node, reply.call)

OpenInv == \E L \in SUBSET (DOMAIN plan) : Opened(L)

IInv == PlanInv /\ HeldInv /\ FramesInv /\ ReplyInv /\ OpenInv
-----------------------------------------------------------------------------
(* Sequences.                                                              *)

LEMMA SeqIs ==
    ASSUME NEW s, IsSeq(s)
    PROVE  /\ Len(s) \in Nat /\ DOMAIN s = 1..Len(s)
           /\ s = <<>> <=> Len(s) = 0
<1> PICK T : s \in Seq(T)
  BY DEF IsSeq
<1> QED
  OBVIOUS

LEMMA EmptyIsSeq == IsSeq(<<>>) /\ DOMAIN <<>> = {} /\ Len(<<>>) = 0
<1>1. <<>> \in Seq({})
  OBVIOUS
<1> QED
  BY <1>1 DEF IsSeq

LEMMA AppendIs ==
    ASSUME NEW s, IsSeq(s), NEW x
    PROVE  /\ IsSeq(Append(s, x)) /\ Len(Append(s, x)) = Len(s) + 1
           /\ \A i \in 1..Len(s) : Append(s, x)[i] = s[i]
           /\ Append(s, x)[Len(s) + 1] = x /\ Last(Append(s, x)) = x
           /\ Append(s, x) # <<>>
<1> PICK T : s \in Seq(T)
  BY DEF IsSeq
<1>1. s \in Seq(T \cup {x}) /\ x \in T \cup {x}
  OBVIOUS
<1>2. Append(s, x) \in Seq(T \cup {x})
  BY <1>1
<1>3. Len(Append(s, x)) = Len(s) + 1 /\ Len(s) \in Nat
  BY <1>1
<1> QED
  BY <1>1, <1>2, <1>3 DEF IsSeq, Last

LEMMA FrontOf ==
    ASSUME NEW s, IsSeq(s), s # <<>>
    PROVE  /\ IsSeq(Front(s)) /\ Len(Front(s)) = Len(s) - 1 /\ Len(s) \in Nat \ {0}
           /\ \A i \in 1..(Len(s) - 1) : Front(s)[i] = s[i]
<1> PICK T : s \in Seq(T)
  BY DEF IsSeq
<1>1. Len(s) \in Nat \ {0}
  BY SeqIs
<1>2. SubSeq(s, 1, Len(s) - 1) \in Seq(T)
  BY <1>1
<1>3. IsSeq(Front(s))
  BY <1>2 DEF Front, IsSeq
<1> QED
  BY <1>1, <1>3 DEF Front
-----------------------------------------------------------------------------
(* The planner makes trees.                                                *)

LEMMA ReadingIs ==
    ASSUME NEW node, NEW ins
    PROVE  /\ DOMAIN Reading(node, ins) = DOMAIN node \cup {"in"}
           /\ Reading(node, ins).in = ins
           /\ \A f \in DOMAIN node \ {"in"} : Reading(node, ins)[f] = node[f]
BY DEF Reading

\* What is asked of a node before its place is known.
Plain(node, ops) ==
    /\ "op" \in DOMAIN node /\ node.op \in ops
    /\ node.op = "hash" => "buildLeft" \in DOMAIN node /\ node.buildLeft \in BOOLEAN

LEMMA ReadingPlain ==
    ASSUME NEW node, NEW ops, Plain(node, ops), NEW ins
    PROVE  /\ {"op", "in"} \subseteq DOMAIN Reading(node, ins)
           /\ Reading(node, ins).op = node.op /\ Reading(node, ins).in = ins
           /\ node.op = "hash" => /\ "buildLeft" \in DOMAIN Reading(node, ins)
                                  /\ Reading(node, ins).buildLeft = node.buildLeft
<1>1. {"op", "in"} \subseteq DOMAIN Reading(node, ins) /\ Reading(node, ins).in = ins
  BY DEF Plain, Reading
<1>2. Reading(node, ins).op = node.op
  BY DEF Plain, Reading
<1>3. node.op = "hash" => /\ "buildLeft" \in DOMAIN Reading(node, ins)
                          /\ Reading(node, ins).buildLeft = node.buildLeft
  BY DEF Plain, Reading
<1> QED
  BY <1>1, <1>2, <1>3

\* The inputs of a node at place n are before it.
LEMMA InsAre ==
    ASSUME NEW node, NEW n \in Nat, WellFormed(node, n)
    PROVE  Ins(node) \subseteq 1..(n - 1)
<1>1. CASE node.in = <<>>
  BY <1>1 DEF Ins
<1>2. ASSUME NEW a \in 1..(n - 1), node.in = <<a>> PROVE Ins(node) = {a}
  BY <1>2 DEF Ins
<1>3. ASSUME NEW a \in 1..(n - 1), NEW b \in 1..(n - 1), node.in = <<a, b>> PROVE Ins(node) = {a, b}
  BY <1>3 DEF Ins
<1> QED
  BY <1>1, <1>2, <1>3 DEF WellFormed

LEMMA SourceTree ==
    ASSUME NEW node, Plain(node, Sources)
    PROVE  Tree(Source(node))
<1> DEFINE r == Reading(node, <<>>)
<1>1. Source(node) = <<r>>
  BY DEF Source
<1>2. <<r>> \in Seq({r}) /\ <<r>> # <<>> /\ DOMAIN <<r>> = {1} /\ <<r>>[1] = r
  OBVIOUS
<1>3. WellFormed(r, 1)
  BY ReadingPlain DEF WellFormed, Plain, Sources
<1> HIDE DEF r
<1>4. IsSeq(<<r>>)
  BY <1>2 DEF IsSeq
<1> QED
  BY <1>1, <1>2, <1>3, <1>4 DEF Tree

LEMMA OverTree ==
    ASSUME NEW p, Tree(p), NEW node, Plain(node, Single)
    PROVE  Tree(Over(p, node))
<1> DEFINE N == Len(p)
           r == Reading(node, <<N>>)
           o == Over(p, node)
<1>1. IsSeq(p) /\ N \in Nat \ {0} /\ DOMAIN p = 1..N
  BY SeqIs DEF Tree
<1>2. o = Append(p, r)
  BY DEF Over
<1>3. IsSeq(o) /\ o # <<>> /\ DOMAIN o = 1..(N + 1) /\ o[N + 1] = r /\ \A n \in 1..N : o[n] = p[n]
  <2>1. /\ IsSeq(o) /\ o # <<>> /\ Len(o) = N + 1 /\ o[N + 1] = r
        /\ \A n \in 1..N : o[n] = p[n]
    BY <1>1, <1>2, AppendIs
  <2>2. DOMAIN o = 1..Len(o)
    BY <2>1, SeqIs
  <2> QED
    BY <2>1, <2>2
<1>4. r.in = <<N>> /\ WellFormed(r, N + 1)
  <2>1. /\ r.in = <<N>> /\ r.op = node.op /\ {"op", "in"} \subseteq DOMAIN r
        /\ node.op \in Single /\ node.op # "hash"
    BY ReadingPlain DEF Plain, Single, Through
  <2>2. N \in 1..(N + 1 - 1)
    BY <1>1
  <2> HIDE DEF r
  <2> QED
    BY <2>1, <2>2 DEF WellFormed
<1>5. Ins(r) = {N}
  BY <1>4 DEF Ins
<1>6. \A n \in 1..N : WellFormed(p[n], n) /\ Ins(p[n]) \subseteq 1..(n - 1)
  BY <1>1, InsAre DEF Tree
<1> HIDE DEF r, o, N
<1>7. ASSUME NEW n \in 1..(N + 1) PROVE WellFormed(o[n], n)
  <2>1. n \in 1..N \/ n = N + 1
    BY <1>1
  <2> QED
    BY <1>3, <1>4, <1>6, <2>1
<1>8. ASSUME NEW m \in 1..(N + 1), NEW n \in 1..(N + 1), m # n
      PROVE  Ins(o[m]) \cap Ins(o[n]) = {}
  <2>1. \A k \in 1..N : N \notin Ins(o[k])
    BY <1>1, <1>3, <1>6
  <2>2. (m \in 1..N \/ m = N + 1) /\ (n \in 1..N \/ n = N + 1)
    BY <1>1
  <2>3. CASE m \in 1..N /\ n \in 1..N
    BY <1>1, <1>3, <1>8, <2>3 DEF Tree
  <2> QED
    BY <1>3, <1>5, <1>8, <2>1, <2>2, <2>3
<1>9. Tree(o)
  BY <1>3, <1>7, <1>8 DEF Tree
<1> QED
  BY <1>9 DEF o

LEMMA ConcatIs ==
    ASSUME NEW s, IsSeq(s), NEW t, IsSeq(t)
    PROVE  /\ IsSeq(s \o t) /\ Len(s \o t) = Len(s) + Len(t)
           /\ \A i \in 1..Len(s) : (s \o t)[i] = s[i]
           /\ \A i \in 1..Len(t) : (s \o t)[Len(s) + i] = t[i]
<1> PICK T : s \in Seq(T)
  BY DEF IsSeq
<1> PICK U : t \in Seq(U)
  BY DEF IsSeq
<1>1. s \in Seq(T \cup U) /\ t \in Seq(T \cup U)
  OBVIOUS
<1>2. s \o t \in Seq(T \cup U)
  BY <1>1
<1>3. IsSeq(s \o t)
  BY <1>2 DEF IsSeq
<1> QED
  BY <1>1, <1>3

\* A node moved up by d places: what it reads moves with it.
Shifted(node, d) == [node EXCEPT !.in = [j \in DOMAIN @ |-> @[j] + d]]

LEMMA ShiftedNode ==
    ASSUME NEW node, NEW n \in Nat, WellFormed(node, n), NEW d \in Nat
    PROVE  /\ WellFormed(Shifted(node, d), d + n)
           /\ Ins(Shifted(node, d)) = {d + m : m \in Ins(node)}
<1> DEFINE w == Shifted(node, d)
           in == [j \in DOMAIN node.in |-> node.in[j] + d]
<1>1. {"op", "in"} \subseteq DOMAIN node
  BY DEF WellFormed
<1>2. DOMAIN w = DOMAIN node /\ w.in = in /\ w.op = node.op
  BY <1>1 DEF Shifted
<1>3. node.op = "hash" => "buildLeft" \in DOMAIN w /\ w.buildLeft \in BOOLEAN
  BY DEF WellFormed, Shifted
<1>4. CASE node.op \in Sources /\ node.in = <<>>
  <2>1. in = <<>>
    BY <1>4
  <2>2. Ins(w) = {} /\ Ins(node) = {}
    BY <1>2, <1>4, <2>1 DEF Ins
  <2>3. WellFormed(w, d + n)
    <3> HIDE DEF w, in
    <3> QED
      BY <1>1, <1>2, <1>3, <1>4, <2>1 DEF WellFormed
  <2>4. {d + m : m \in {}} = {}
    OBVIOUS
  <2> QED
    BY <2>2, <2>3, <2>4
<1>5. ASSUME NEW a \in 1..(n - 1), node.op \in Single, node.in = <<a>>
      PROVE  WellFormed(w, d + n) /\ Ins(w) = {d + m : m \in Ins(node)}
  <2>1. in = <<d + a>>
    BY <1>5
  <2>2. d + a \in 1..(d + n - 1)
    OBVIOUS
  <2>3. Ins(w) = {d + a} /\ Ins(node) = {a}
    BY <1>2, <1>5, <2>1 DEF Ins
  <2> HIDE DEF w, in
  <2> QED
    BY <1>1, <1>2, <1>3, <1>5, <2>1, <2>2, <2>3 DEF WellFormed
<1>6. ASSUME NEW a \in 1..(n - 1), NEW b \in 1..(n - 1), a # b, node.op \in Double, node.in = <<a, b>>
      PROVE  WellFormed(w, d + n) /\ Ins(w) = {d + m : m \in Ins(node)}
  <2>1. in = <<d + a, d + b>>
    BY <1>6
  <2>2. d + a \in 1..(d + n - 1) /\ d + b \in 1..(d + n - 1) /\ d + a # d + b
    BY <1>6
  <2>3. Ins(w) = {d + a, d + b} /\ Ins(node) = {a, b}
    BY <1>2, <1>6, <2>1 DEF Ins
  <2>4. WellFormed(w, d + n)
    <3> HIDE DEF w, in
    <3> QED
      BY <1>1, <1>2, <1>3, <1>6, <2>1, <2>2 DEF WellFormed
  <2> HIDE DEF w
  <2> QED
    BY <2>3, <2>4
<1> QED
  BY <1>4, <1>5, <1>6 DEF WellFormed

LEMMA OverTwoTree ==
    ASSUME NEW l, Tree(l), NEW r, Tree(r), NEW node, Plain(node, Double)
    PROVE  Tree(OverTwo(l, r, node))
<1> DEFINE L == Len(l)
           R == Len(r)
           N == L + R
           sh == [i \in DOMAIN r |-> Shifted(r[i], L)]
           x == Reading(node, <<L, N>>)
           o == OverTwo(l, r, node)
<1>1. /\ IsSeq(l) /\ L \in Nat \ {0} /\ DOMAIN l = 1..L
      /\ IsSeq(r) /\ R \in Nat \ {0} /\ DOMAIN r = 1..R
  BY SeqIs DEF Tree
<1>2. o = (l \o sh) \o <<x>>
  BY DEF OverTwo, Shifted
<1>3. IsSeq(sh) /\ Len(sh) = R /\ \A i \in 1..R : sh[i] = Shifted(r[i], L)
  <2>1. sh = [i \in 1..R |-> sh[i]] /\ \A i \in 1..R : sh[i] = Shifted(r[i], L)
    BY <1>1
  <2> HIDE DEF sh
  <2>2. sh \in Seq({sh[i] : i \in 1..R}) /\ Len(sh) = R
    BY <1>1, <2>1
  <2>3. IsSeq(sh)
    BY <2>2 DEF IsSeq
  <2> QED
    BY <2>1, <2>2, <2>3
<1>4. IsSeq(<<x>>) /\ Len(<<x>>) = 1 /\ <<x>>[1] = x
  <2>1. <<x>> \in Seq({x})
    OBVIOUS
  <2> QED
    BY <2>1 DEF IsSeq
<1>5. /\ IsSeq(l \o sh) /\ Len(l \o sh) = N
      /\ \A i \in 1..L : (l \o sh)[i] = l[i]
      /\ \A i \in 1..R : (l \o sh)[L + i] = Shifted(r[i], L)
  <2> HIDE DEF sh
  <2>1. /\ IsSeq(l \o sh) /\ Len(l \o sh) = Len(l) + Len(sh)
        /\ \A i \in 1..Len(l) : (l \o sh)[i] = l[i]
        /\ \A i \in 1..Len(sh) : (l \o sh)[Len(l) + i] = sh[i]
    <3>1. IsSeq(l) /\ IsSeq(sh)
      BY <1>1, <1>3
    <3> QED
      BY <3>1, ConcatIs
  <2> QED
    BY <1>3, <2>1
<1>6. /\ IsSeq(o) /\ Len(o) = N + 1
      /\ \A i \in 1..N : o[i] = (l \o sh)[i]
      /\ o[N + 1] = x
  <2> HIDE DEF sh, x, o
  <2>1. /\ IsSeq(o) /\ Len(o) = N + 1
        /\ \A i \in 1..N : o[i] = (l \o sh)[i]
        /\ \A i \in 1..1 : o[N + i] = <<x>>[i]
    <3> DEFINE a == l \o sh
    <3>1. o = a \o <<x>> /\ IsSeq(a) /\ Len(a) = N
      BY <1>2, <1>5
    <3> HIDE DEF a
    <3>2. /\ IsSeq(a \o <<x>>) /\ Len(a \o <<x>>) = Len(a) + Len(<<x>>)
          /\ \A i \in 1..Len(a) : (a \o <<x>>)[i] = a[i]
          /\ \A i \in 1..Len(<<x>>) : (a \o <<x>>)[Len(a) + i] = <<x>>[i]
      <4>1. IsSeq(a) /\ IsSeq(<<x>>)
        BY <1>4, <3>1
      <4> QED
        BY <4>1, ConcatIs
    <3>3. /\ IsSeq(o) /\ Len(o) = N + 1
          /\ \A i \in 1..N : o[i] = a[i]
          /\ \A i \in 1..1 : o[N + i] = <<x>>[i]
      BY <1>4, <3>1, <3>2
    <3> QED
      BY <3>3 DEF a
  <2>2. 1 \in 1..1
    OBVIOUS
  <2>3. o[N + 1] = <<x>>[1]
    BY <2>1, <2>2
  <2> QED
    BY <1>4, <2>1, <2>3
<1>7. /\ \A n \in 1..L : o[n] = l[n]
      /\ \A n \in 1..R : o[L + n] = Shifted(r[n], L)
      /\ o[N + 1] = x /\ DOMAIN o = 1..(N + 1) /\ o # <<>>
  <2>1. 1..L \subseteq 1..N /\ \A n \in 1..R : L + n \in 1..N
    BY <1>1
  <2>2. DOMAIN o = 1..(N + 1) /\ o # <<>>
    BY <1>1, <1>6, SeqIs
  <2> HIDE DEF sh, x, o, N
  <2> QED
    BY <1>5, <1>6, <2>1, <2>2
<1>8. x.in = <<L, N>> /\ WellFormed(x, N + 1)
  <2>1. /\ x.in = <<L, N>> /\ x.op = node.op /\ {"op", "in"} \subseteq DOMAIN x
        /\ node.op \in Double
        /\ node.op = "hash" => "buildLeft" \in DOMAIN x /\ x.buildLeft \in BOOLEAN
    BY ReadingPlain DEF Plain
  <2>2. L \in 1..(N + 1 - 1) /\ N \in 1..(N + 1 - 1) /\ L # N
    <3> SUFFICES ASSUME NEW a \in Nat \ {0}, NEW b \in Nat \ {0}
                 PROVE  a \in 1..(a + b + 1 - 1) /\ a + b \in 1..(a + b + 1 - 1) /\ a # a + b
      BY <1>1
    <3> QED
      OBVIOUS
  <2> HIDE DEF x
  <2> QED
    BY <2>1, <2>2 DEF WellFormed
<1>9. Ins(x) = {L, N}
  BY <1>8 DEF Ins
<1>10. \A n \in 1..L : WellFormed(l[n], n) /\ Ins(l[n]) \subseteq 1..(n - 1)
  BY <1>1, InsAre DEF Tree
<1>11. \A n \in 1..R : /\ WellFormed(r[n], n) /\ Ins(r[n]) \subseteq 1..(n - 1)
                       /\ WellFormed(Shifted(r[n], L), L + n)
                       /\ Ins(Shifted(r[n], L)) = {L + m : m \in Ins(r[n])}
  <2> SUFFICES ASSUME NEW n \in 1..R
               PROVE  /\ WellFormed(r[n], n) /\ Ins(r[n]) \subseteq 1..(n - 1)
                      /\ WellFormed(Shifted(r[n], L), L + n)
                      /\ Ins(Shifted(r[n], L)) = {L + m : m \in Ins(r[n])}
    OBVIOUS
  <2>1. WellFormed(r[n], n) /\ n \in Nat /\ L \in Nat
    BY <1>1 DEF Tree
  <2> QED
    BY <2>1, InsAre, ShiftedNode
<1>12. \A n \in 1..(N + 1) : n \in 1..L \/ (n - L \in 1..R /\ n = L + (n - L)) \/ n = N + 1
  BY <1>1
<1>13. \A n \in 1..L : WellFormed(o[n], n) /\ Ins(o[n]) = Ins(l[n]) /\ Ins(o[n]) \subseteq 1..(L - 1)
  <2> HIDE DEF o
  <2> QED
    BY <1>1, <1>7, <1>10
<1>14. \A n \in 1..R : /\ WellFormed(o[L + n], L + n) /\ Ins(o[L + n]) = {L + m : m \in Ins(r[n])}
                       /\ Ins(o[L + n]) \subseteq (L + 1)..(N - 1)
  <2> HIDE DEF o
  <2> QED
    BY <1>1, <1>7, <1>11
<1>15. WellFormed(o[N + 1], N + 1) /\ Ins(o[N + 1]) = {L, N}
  BY <1>7, <1>8, <1>9
<1> HIDE DEF o, sh, x
<1>16. ASSUME NEW n \in 1..(N + 1) PROVE WellFormed(o[n], n)
  <2> HIDE DEF N
  <2> QED
    BY <1>12, <1>13, <1>14, <1>15
<1>17. ASSUME NEW m \in 1..(N + 1), NEW n \in 1..(N + 1), m # n
       PROVE  Ins(o[m]) \cap Ins(o[n]) = {}
  <2>1. CASE m \in 1..L /\ n \in 1..L
    BY <1>1, <1>13, <1>17, <2>1 DEF Tree
  <2>2. CASE m - L \in 1..R /\ n - L \in 1..R
    <3>1. m - L # n - L /\ m = L + (m - L) /\ n = L + (n - L)
      BY <1>1, <1>17
    <3>2. Ins(r[m - L]) \cap Ins(r[n - L]) = {}
      BY <1>1, <2>2, <3>1 DEF Tree
    <3>3. \A k \in Ins(r[m - L]) \cup Ins(r[n - L]) : k \in Nat
      BY <1>1, <1>11, <2>2
    <3>4. /\ Ins(o[m]) = {L + k : k \in Ins(r[m - L])}
          /\ Ins(o[n]) = {L + k : k \in Ins(r[n - L])}
      BY <1>14, <2>2, <3>1
    <3> QED
      BY <1>1, <3>2, <3>3, <3>4
  <2>3. ASSUME NEW k \in 1..L PROVE Ins(o[k]) \subseteq 1..(L - 1)
    BY <1>13
  <2>4. ASSUME NEW k \in 1..(N + 1), k - L \in 1..R PROVE Ins(o[k]) \subseteq (L + 1)..(N - 1)
    <3>1. k = L + (k - L)
      BY <1>1
    <3> QED
      BY <1>14, <2>4, <3>1
  <2>5. 1..(L - 1) \cap (L + 1)..(N - 1) = {} /\ {L, N} \cap 1..(L - 1) = {} /\ {L, N} \cap (L + 1)..(N - 1) = {}
    BY <1>1
  <2>6. (m \in 1..L \/ m - L \in 1..R \/ m = N + 1) /\ (n \in 1..L \/ n - L \in 1..R \/ n = N + 1)
    BY <1>12
  <2> HIDE DEF N
  <2> QED
    BY <1>15, <1>17, <2>1, <2>2, <2>3, <2>4, <2>5, <2>6
<1>18. Tree(o)
  BY <1>6, <1>7, <1>16, <1>17 DEF Tree
<1> QED
  BY <1>18 DEF o

LEMMA FilteredTree == ASSUME NEW p, Tree(p), NEW ts PROVE Tree(Filtered(p, ts))
<1> DEFINE node == [op |-> "filter", terms |-> ts]
<1>1. Plain(node, Single)
  BY DEF Plain, Single, Through
<1> HIDE DEF node
<1>2. Tree(Over(p, node))
  BY <1>1, OverTree
<1> QED
  BY <1>2 DEF Filtered, node

LEMMA WholeTableTree == ASSUME NEW q, NEW i PROVE Tree(WholeTable(q, i))
<1> DEFINE node == [op |-> "seqscan", tab |-> q.tables[i]]
<1>1. Plain(node, Sources)
  BY DEF Plain, Sources
<1> HIDE DEF node
<1>2. Tree(Source(node))
  BY <1>1, SourceTree
<1> QED
  BY <1>2 DEF WholeTable, node

LEMMA LookupTree == ASSUME NEW tab, NEW key PROVE Tree(Source([op |-> "lookup", tab |-> tab, key |-> key]))
<1> DEFINE node == [op |-> "lookup", tab |-> tab, key |-> key]
<1>1. Plain(node, Sources)
  BY DEF Plain, Sources
<1> HIDE DEF node
<1>2. Tree(Source(node))
  BY <1>1, SourceTree
<1> QED
  BY <1>2 DEF node

LEMMA RangeTree ==
    ASSUME NEW tab, NEW col, NEW lo, NEW hi
    PROVE  Tree(Source([op |-> "indexscan", tab |-> tab, col |-> col, lo |-> lo, hi |-> hi]))
<1> DEFINE node == [op |-> "indexscan", tab |-> tab, col |-> col, lo |-> lo, hi |-> hi]
<1>1. Plain(node, Sources)
  BY DEF Plain, Sources
<1> HIDE DEF node
<1>2. Tree(Source(node))
  BY <1>1, SourceTree
<1> QED
  BY <1>2 DEF node

LEMMA ByIndexTree == ASSUME NEW q, NEW i, NEW col PROVE Tree(ByIndex(q, i, col).plan)
<1> DEFINE terms == Local(q, i)
           type  == Table(q, i).types[col]
           using == SelectSeq(terms, LAMBDA c : InRange(c, col))
           keys  == RangeKeys(FoldLeft(LAMBDA r, c : Tightened(r, c), AnyValue, using), type)
           rest  == IF ExactKey(type) THEN SelectSeq(terms, LAMBDA c : ~InRange(c, col)) ELSE terms
           one   == [op |-> "lookup", tab |-> q.tables[i], key |-> keys.lo]
           many  == [op |-> "indexscan", tab |-> q.tables[i], col |-> col, lo |-> keys.lo, hi |-> keys.hi]
           read  == IF col = 1 /\ keys.lo = keys.hi THEN one ELSE many
<1>1. ByIndex(q, i, col) = [plan |-> Filtered(Source(read), rest), keyOrder |-> col = 1, bare |-> FALSE]
  BY DEF ByIndex
<1>2. Tree(Source(one)) /\ Tree(Source(many))
  <2> HIDE DEF keys
  <2> QED
    BY LookupTree, RangeTree
<1>3. read = one \/ read = many
  OBVIOUS
<1> HIDE DEF read, one, many, rest
<1>4. Tree(Source(read))
  BY <1>2, <1>3
<1>5. Tree(Filtered(Source(read), rest))
  BY <1>4, FilteredTree
<1>6. ByIndex(q, i, col).plan = Filtered(Source(read), rest)
  BY <1>1
<1> QED
  BY <1>5, <1>6

LEMMA AccessTrees == ASSUME NEW q, NEW i PROVE \A a \in Access(q, i) : Tree(a.plan)
<1>1. Tree(Filtered(WholeTable(q, i), Local(q, i)))
  BY FilteredTree, WholeTableTree
<1>2. ASSUME NEW a \in Access(q, i)
      PROVE  \/ a.plan = Filtered(WholeTable(q, i), Local(q, i))
             \/ \E col : a = ByIndex(q, i, col)
  BY DEF Access
<1> QED
  BY <1>1, <1>2, ByIndexTree

LEMMA NestedLoopTree == ASSUME NEW l, Tree(l), NEW r, Tree(r), NEW terms PROVE Tree(NestedLoopOf(l, r, terms))
<1> DEFINE node == [op |-> "nlj", on |-> terms]
<1>1. Plain(node, Double)
  BY DEF Plain, Double
<1> HIDE DEF node
<1>2. Tree(OverTwo(l, r, node))
  BY <1>1, OverTwoTree
<1> QED
  BY <1>2 DEF NestedLoopOf, node

LEMMA HashTree ==
    ASSUME NEW q, NEW i, NEW l, Tree(l), NEW r, Tree(r), NEW terms, NEW left \in BOOLEAN
    PROVE  Tree(HashOf(q, i, l, r, terms, left))
<1> DEFINE keys  == SelectSeq(terms, LAMBDA c : IsKey(q, i, c))
           pairs == [k \in DOMAIN keys |-> KeyPair(q, i, keys[k])]
           rest  == SelectSeq(terms, LAMBDA c : ~IsKey(q, i, c))
           node  == [op |-> "hash", buildLeft |-> left, keys |-> pairs, residual |-> rest]
<1>1. Plain(node, Double)
  <2> HIDE DEF pairs, rest
  <2> QED
    BY DEF Plain, Double
<1>2. HashOf(q, i, l, r, terms, left) = OverTwo(l, r, node)
  BY DEF HashOf
<1> HIDE DEF node
<1> QED
  BY <1>1, <1>2, OverTwoTree

LEMMA JoinsTrees ==
    ASSUME NEW q, NEW i, NEW l, Tree(l), NEW r, Tree(r)
    PROVE  \A p \in JoinsOf(q, i, l, r) : Tree(p)
<1>1. ASSUME NEW terms PROVE Tree(NestedLoopOf(l, r, terms))
  BY NestedLoopTree
<1>2. ASSUME NEW terms, NEW left \in BOOLEAN PROVE Tree(HashOf(q, i, l, r, terms, left))
  BY <1>2, HashTree
<1>3. ASSUME NEW o, Tree(o), NEW j, NEW c, NEW d, NEW terms, NEW k, NEW f
      PROVE  Tree(IndexOf(q, j, o, c, d, terms, k, f))
  <2> DEFINE node == [op |-> "inlj", tab |-> q.tables[j], outerCol |-> c, innerCol |-> d,
                      inner |-> Local(q, j), residual |-> RemoveAt(terms, k), innerFirst |-> f]
  <2>1. Plain(node, Single)
    BY DEF Plain, Single
  <2> HIDE DEF node
  <2>2. Tree(Over(o, node))
    BY <1>3, <2>1, OverTree
  <2> QED
    BY <2>2 DEF IndexOf, node
<1>4. ASSUME NEW p \in JoinsOf(q, i, l, r)
      PROVE  \/ p = NestedLoopOf(l, r, Cross(q, i))
             \/ \E left \in BOOLEAN : p = HashOf(q, i, l, r, Cross(q, i), left)
             \/ \E c, d, k : p = IndexOf(q, i, l, c, d, Cross(q, i), k, FALSE)
             \/ \E c, d, k : p = IndexOf(q, 1, r, c, d, Cross(q, i), k, TRUE)
  <2> DEFINE terms   == Cross(q, i)
             keys    == {k \in DOMAIN terms : IsKey(q, i, terms[k])}
             pair(k) == KeyPair(q, i, terms[k])
  <2>1. \/ p \in {NestedLoopOf(l, r, terms)}
        \/ p \in {HashOf(q, i, l, r, terms, left) : left \in IF keys = {} THEN {} ELSE BOOLEAN}
        \/ p \in {IndexOf(q, i, l, pair(k)[1], pair(k)[2], terms, k, FALSE) :
                     k \in {j \in keys : Indexed(Table(q, i), pair(j)[2])}}
        \/ p \in {IndexOf(q, 1, r, pair(k)[2], pair(k)[1], terms, k, TRUE) :
                     k \in {j \in keys : i = 2 /\ Indexed(Table(q, 1), pair(j)[1])}}
    BY Zenon DEF JoinsOf
  <2>2. \A left \in IF keys = {} THEN {} ELSE BOOLEAN : left \in BOOLEAN
    OBVIOUS
  <2> HIDE DEF terms, keys, pair
  <2>3. p \in {HashOf(q, i, l, r, terms, left) : left \in IF keys = {} THEN {} ELSE BOOLEAN}
          => \E left \in BOOLEAN : p = HashOf(q, i, l, r, terms, left)
    BY <2>2
  <2>4. p \in {IndexOf(q, i, l, pair(k)[1], pair(k)[2], terms, k, FALSE) :
                     k \in {j \in keys : Indexed(Table(q, i), pair(j)[2])}}
          => \E c, d, k : p = IndexOf(q, i, l, c, d, terms, k, FALSE)
    BY Zenon
  <2>5. p \in {IndexOf(q, 1, r, pair(k)[2], pair(k)[1], terms, k, TRUE) :
                     k \in {j \in keys : i = 2 /\ Indexed(Table(q, 1), pair(j)[1])}}
          => \E c, d, k : p = IndexOf(q, 1, r, c, d, terms, k, TRUE)
    BY Zenon
  <2>6. \/ p = NestedLoopOf(l, r, terms)
        \/ \E left \in BOOLEAN : p = HashOf(q, i, l, r, terms, left)
        \/ \E c, d, k : p = IndexOf(q, i, l, c, d, terms, k, FALSE)
        \/ \E c, d, k : p = IndexOf(q, 1, r, c, d, terms, k, TRUE)
    BY <2>1, <2>3, <2>4, <2>5, Zenon
  <2> QED
    BY <2>6 DEF terms
<1>5. SUFFICES ASSUME NEW p \in JoinsOf(q, i, l, r) PROVE Tree(p)
  OBVIOUS
<1>6. Tree(NestedLoopOf(l, r, Cross(q, i)))
  BY <1>1
<1>7. \A left \in BOOLEAN : Tree(HashOf(q, i, l, r, Cross(q, i), left))
  BY <1>2
<1>8. \A c, d, k : /\ Tree(IndexOf(q, i, l, c, d, Cross(q, i), k, FALSE))
                  /\ Tree(IndexOf(q, 1, r, c, d, Cross(q, i), k, TRUE))
  BY <1>3
<1>9. CASE \E c, d, k : p = IndexOf(q, i, l, c, d, Cross(q, i), k, FALSE)
  BY <1>8, <1>9
<1>10. CASE \E c, d, k : p = IndexOf(q, 1, r, c, d, Cross(q, i), k, TRUE)
  BY <1>8, <1>10
<1>11. CASE \E left \in BOOLEAN : p = HashOf(q, i, l, r, Cross(q, i), left)
  BY <1>7, <1>11
<1> QED
  BY <1>4, <1>6, <1>9, <1>10, <1>11

LEMMA LeastOf == ASSUME NEW T \in SUBSET Nat, T # {} PROVE \E x \in T : \A y \in T : x <= y
<1> DEFINE R == OpToRel(<, Nat)
<1>1. R = {ss \in Nat \X Nat : ss[1] < ss[2]}
  BY DEF OpToRel
<1>2. IsWellFoundedOn(R, Nat)
  BY NatLessThanWellFounded
<1> HIDE DEF R
<1>3. PICK x \in T : \A y \in T : ~(<<y, x>> \in R)
  BY <1>2, WFMin
<1>4. ASSUME NEW y \in T PROVE x <= y
  <2>1. <<y, x>> \in Nat \X Nat
    OBVIOUS
  <2>2. ~(y < x)
    BY <1>1, <1>3, <2>1
  <2> QED
    BY <2>2
<1> QED
  BY <1>4

\* The joins of the first tables, of one more than of those before, are a function.
LEMMA JoinedIs ==
    ASSUME NEW q, NEW N \in Nat
    PROVE  \E f : f = [i \in 1..N |-> JoinedUpTo(q, i, f[i - 1])]
<1> DEFINE Def(m, f) == f = [i \in 1..m |-> JoinedUpTo(q, i, f[i - 1])]
           T == {m \in Nat : ~ \E f : Def(m, f)}
<1>1. ASSUME NEW before, NEW after PROVE JoinedUpTo(q, 1, before) = JoinedUpTo(q, 1, after)
  BY DEF JoinedUpTo
<1>2. T = {}
  <2> SUFFICES ASSUME T # {} PROVE FALSE
    OBVIOUS
  <2>1. T \in SUBSET Nat
    OBVIOUS
  <2> HIDE DEF T
  <2>2. PICK m \in T : \A k \in T : m <= k
    BY <2>1, LeastOf
  <2>3. m \in Nat /\ ~ \E f : Def(m, f)
    BY DEF T
  <2>4. CASE m = 0
    <3>1. Def(0, [i \in 1..0 |-> {}])
      OBVIOUS
    <3> HIDE DEF Def
    <3> QED
      BY <2>3, <2>4, <3>1
  <2>5. CASE m # 0
    <3>1. m - 1 \in Nat /\ m - 1 \notin T
      <4>1. m - 1 \in Nat /\ ~(m <= m - 1)
        BY <2>3, <2>5
      <4> QED
        BY <2>2, <4>1
    <3>2. PICK f : Def(m - 1, f)
      BY <3>1 DEF T
    <3> DEFINE g == [i \in 1..m |-> IF i = m THEN JoinedUpTo(q, m, f[m - 1]) ELSE f[i]]
    <3>3. \A i \in 1..(m - 1) : f[i] = JoinedUpTo(q, i, f[i - 1])
      BY <3>2, Zenon
    <3>4. ASSUME NEW i \in 1..m PROVE g[i] = JoinedUpTo(q, i, g[i - 1])
      <4>1. /\ g[i] = IF i = m THEN JoinedUpTo(q, m, f[m - 1]) ELSE f[i]
            /\ i # 1 => g[i - 1] = f[i - 1]
        BY <2>3
      <4>2. i # m => i \in 1..(m - 1)
        BY <2>3
      <4>3. g[i] = JoinedUpTo(q, i, f[i - 1])
        BY <3>3, <4>1, <4>2
      <4> HIDE DEF g
      <4>4. CASE i = 1
        BY <1>1, <4>3, <4>4
      <4>5. CASE i # 1
        BY <4>1, <4>3, <4>5
      <4> QED
        BY <4>4, <4>5
    <3>5. g = [i \in 1..m |-> g[i]]
      OBVIOUS
    <3> HIDE DEF g
    <3>6. Def(m, g)
      BY <3>4, <3>5, Zenon
    <3> HIDE DEF Def
    <3> QED
      BY <2>3, <3>6
  <2> QED
    BY <2>4, <2>5
<1>3. \E f : Def(N, f)
  BY <1>2
<1> QED
  BY <1>3

\* The same for the joins of the literal mode.
LEMMA LiterallyIs ==
    ASSUME NEW q, NEW N \in Nat
    PROVE  \E f : f = [i \in 1..N |-> LiteralUpTo(q, i, f[i - 1])]
<1> DEFINE Def(m, f) == f = [i \in 1..m |-> LiteralUpTo(q, i, f[i - 1])]
           T == {m \in Nat : ~ \E f : Def(m, f)}
<1>1. ASSUME NEW before, NEW after PROVE LiteralUpTo(q, 1, before) = LiteralUpTo(q, 1, after)
  BY DEF LiteralUpTo
<1>2. T = {}
  <2> SUFFICES ASSUME T # {} PROVE FALSE
    OBVIOUS
  <2>1. T \in SUBSET Nat
    OBVIOUS
  <2> HIDE DEF T
  <2>2. PICK m \in T : \A k \in T : m <= k
    BY <2>1, LeastOf
  <2>3. m \in Nat /\ ~ \E f : Def(m, f)
    BY DEF T
  <2>4. CASE m = 0
    <3>1. Def(0, [i \in 1..0 |-> {}])
      OBVIOUS
    <3> HIDE DEF Def
    <3> QED
      BY <2>3, <2>4, <3>1
  <2>5. CASE m # 0
    <3>1. m - 1 \in Nat /\ m - 1 \notin T
      <4>1. m - 1 \in Nat /\ ~(m <= m - 1)
        BY <2>3, <2>5
      <4> QED
        BY <2>2, <4>1
    <3>2. PICK f : Def(m - 1, f)
      BY <3>1 DEF T
    <3> DEFINE g == [i \in 1..m |-> IF i = m THEN LiteralUpTo(q, m, f[m - 1]) ELSE f[i]]
    <3>3. \A i \in 1..(m - 1) : f[i] = LiteralUpTo(q, i, f[i - 1])
      BY <3>2, Zenon
    <3>4. ASSUME NEW i \in 1..m PROVE g[i] = LiteralUpTo(q, i, g[i - 1])
      <4>1. /\ g[i] = IF i = m THEN LiteralUpTo(q, m, f[m - 1]) ELSE f[i]
            /\ i # 1 => g[i - 1] = f[i - 1]
        BY <2>3
      <4>2. i # m => i \in 1..(m - 1)
        BY <2>3
      <4>3. g[i] = LiteralUpTo(q, i, f[i - 1])
        BY <3>3, <4>1, <4>2
      <4> HIDE DEF g
      <4>4. CASE i = 1
        BY <1>1, <4>3, <4>4
      <4>5. CASE i # 1
        BY <4>1, <4>3, <4>5
      <4> QED
        BY <4>4, <4>5
    <3>5. g = [i \in 1..m |-> g[i]]
      OBVIOUS
    <3> HIDE DEF g
    <3>6. Def(m, g)
      BY <3>4, <3>5, Zenon
    <3> HIDE DEF Def
    <3> QED
      BY <2>3, <3>6
  <2> QED
    BY <2>4, <2>5
<1>3. \E f : Def(N, f)
  BY <1>2
<1> QED
  BY <1>3

LEMMA JoinedTrees ==
    ASSUME NEW q, NEW N \in Nat, NEW f, f = [i \in 1..N |-> JoinedUpTo(q, i, f[i - 1])]
    PROVE  \A i \in 1..N : \A p \in f[i] : Tree(p)
<1> DEFINE T == {i \in 1..N : \E p \in f[i] : ~Tree(p)}
<1>1. \A i \in 1..N : f[i] = JoinedUpTo(q, i, f[i - 1])
  BY Zenon
<1>2. T = {}
  <2> SUFFICES ASSUME T # {} PROVE FALSE
    OBVIOUS
  <2>1. T \in SUBSET Nat
    OBVIOUS
  <2> HIDE DEF T
  <2>2. PICK i \in T : \A k \in T : i <= k
    BY <2>1, LeastOf
  <2>3. i \in 1..N /\ \E p \in f[i] : ~Tree(p)
    BY DEF T
  <2>4. PICK p \in JoinedUpTo(q, i, f[i - 1]) : ~Tree(p)
    BY <1>1, <2>3
  <2>5. i # 1 => \A l \in f[i - 1] : Tree(l)
    <3>1. i # 1 => i - 1 \in 1..N /\ ~(i <= i - 1)
      BY <2>3
    <3> QED
      BY <2>2, <3>1 DEF T
  <2>6. CASE i = 1
    <3>1. \E a \in Access(q, 1) : p = a.plan
      BY <2>4, <2>6 DEF JoinedUpTo
    <3> QED
      BY <2>4, <3>1, AccessTrees
  <2>7. CASE i # 1
    <3>1. PICK l \in f[i - 1] : p \in UNION {JoinsOf(q, i, l, r.plan) : r \in Access(q, i)}
      <4> DEFINE of(l) == UNION {JoinsOf(q, i, l, r.plan) : r \in Access(q, i)}
      <4>1. JoinedUpTo(q, i, f[i - 1]) = UNION {of(l) : l \in f[i - 1]}
        BY <2>7, Zenon DEF JoinedUpTo
      <4>2. p \in UNION {of(l) : l \in f[i - 1]}
        BY <2>4, <4>1
      <4> HIDE DEF of
      <4>3. \E l \in f[i - 1] : p \in of(l)
        BY <4>2
      <4> QED
        BY <4>3 DEF of
    <3>3. PICK r \in Access(q, i) : p \in JoinsOf(q, i, l, r.plan)
      BY <3>1, Zenon
    <3>2. Tree(l) /\ Tree(r.plan)
      BY <2>5, <2>7, AccessTrees
    <3> QED
      BY <2>4, <3>2, <3>3, JoinsTrees
  <2> QED
    BY <2>6, <2>7
<1> QED
  BY <1>2

LEMMA LiterallyTrees ==
    ASSUME NEW q, NEW N \in Nat, NEW f, f = [i \in 1..N |-> LiteralUpTo(q, i, f[i - 1])]
    PROVE  \A i \in 1..N : \A p \in f[i] : Tree(p)
<1> DEFINE T == {i \in 1..N : \E p \in f[i] : ~Tree(p)}
<1>1. \A i \in 1..N : f[i] = LiteralUpTo(q, i, f[i - 1])
  BY Zenon
<1>2. T = {}
  <2> SUFFICES ASSUME T # {} PROVE FALSE
    OBVIOUS
  <2>1. T \in SUBSET Nat
    OBVIOUS
  <2> HIDE DEF T
  <2>2. PICK i \in T : \A k \in T : i <= k
    BY <2>1, LeastOf
  <2>3. i \in 1..N /\ \E p \in f[i] : ~Tree(p)
    BY DEF T
  <2>4. PICK p \in LiteralUpTo(q, i, f[i - 1]) : ~Tree(p)
    BY <1>1, <2>3
  <2>5. i # 1 => \A l \in f[i - 1] : Tree(l)
    <3>1. i # 1 => i - 1 \in 1..N /\ ~(i <= i - 1)
      BY <2>3
    <3> QED
      BY <2>2, <3>1 DEF T
  <2>6. CASE i = 1
    <3>1. p = WholeTable(q, 1)
      BY <2>4, <2>6 DEF LiteralUpTo
    <3> QED
      BY <2>4, <3>1, WholeTableTree
  <2>7. CASE i # 1
    <3> DEFINE w == WholeTable(q, i)
               terms == q.on[i - 1]
               byHash == \E c \in Range(terms) : IsKey(q, i, c)
    <3>1. PICK l \in f[i - 1] : p \in {NestedLoopOf(l, w, terms)}
                                      \cup (IF byHash THEN {HashOf(q, i, l, w, terms, FALSE)} ELSE {})
      BY <2>4, <2>7, Zenon DEF LiteralUpTo
    <3> HIDE DEF byHash, terms
    <3>2. p = NestedLoopOf(l, w, terms) \/ p = HashOf(q, i, l, w, terms, FALSE)
      BY <3>1
    <3>3. Tree(l) /\ Tree(w)
      BY <2>5, <2>7, WholeTableTree
    <3> HIDE DEF w
    <3> QED
      BY <2>4, <3>2, <3>3, NestedLoopTree, HashTree
  <2> QED
    BY <2>6, <2>7
<1> QED
  BY <1>2

LEMMA FromTrees == ASSUME NEW q, q.tables \in Seq(Nat), q.tables # <<>> PROVE \A s \in From(q) : Tree(s.plan)
<1> DEFINE N == Len(q.tables)
           D == DOMAIN q.tables
           joined == CHOOSE f : f = [i \in D |-> JoinedUpTo(q, i, f[i - 1])]
<1>1. N \in Nat \ {0} /\ D = 1..N
  OBVIOUS
<1>2. From(q) = IF N = 1 THEN Access(q, 1)
                ELSE {[plan |-> p, keyOrder |-> FALSE, bare |-> FALSE] : p \in joined[N]}
  BY DEF From
<1>3. joined = [i \in 1..N |-> JoinedUpTo(q, i, joined[i - 1])]
  <2> HIDE DEF D, N
  <2>1. \E f : f = [i \in D |-> JoinedUpTo(q, i, f[i - 1])]
    <3>1. N \in Nat /\ D = 1..N
      BY <1>1
    <3>2. \E f : f = [i \in 1..N |-> JoinedUpTo(q, i, f[i - 1])]
      BY <3>1, JoinedIs
    <3> QED
      BY <3>1, <3>2, Zenon
  <2> QED
    BY <1>1, <2>1, Zenon
<1> HIDE DEF joined
<1>4. \A p \in joined[N] : Tree(p)
  <2>1. N \in 1..N /\ N \in Nat
    BY <1>1
  <2> HIDE DEF N
  <2> QED
    BY <1>3, <2>1, JoinedTrees
<1> HIDE DEF N
<1>5. \A s \in From(q) : s \in Access(q, 1) \/ \E p \in joined[N] : s.plan = p
  BY <1>2
<1> QED
  BY <1>4, <1>5, AccessTrees

LEMMA LiteralTrees == ASSUME NEW q, q.tables \in Seq(Nat), q.tables # <<>> PROVE \A s \in LiteralFrom(q) : Tree(s.plan)
<1> DEFINE N == Len(q.tables)
           D == DOMAIN q.tables
           isLookup(c) == c.op = "eq" /\ c.right = 0 /\ c.left = 1
           k == SelectInSeq(q.where, isLookup)
           key == IF q.where[k].lit.null THEN NoKey ELSE OrderKey(q.where[k].lit)
           lookup == Source([op |-> "lookup", tab |-> q.tables[1], key |-> key])
           found == Filtered(lookup, RemoveAt(q.where, k))
           joined == CHOOSE f : f = [i \in D |-> LiteralUpTo(q, i, f[i - 1])]
<1>1. N \in Nat \ {0} /\ D = 1..N
  OBVIOUS
<1>2. LiteralFrom(q) = {[plan |-> p, keyOrder |-> FALSE, bare |-> FALSE] :
                           p \in IF N = 1 /\ k # 0 THEN {found} ELSE {Filtered(p, q.where) : p \in joined[N]}}
  BY DEF LiteralFrom
<1>3. joined = [i \in 1..N |-> LiteralUpTo(q, i, joined[i - 1])]
  <2> HIDE DEF D, N
  <2>1. \E f : f = [i \in D |-> LiteralUpTo(q, i, f[i - 1])]
    <3>1. N \in Nat /\ D = 1..N
      BY <1>1
    <3>2. \E f : f = [i \in 1..N |-> LiteralUpTo(q, i, f[i - 1])]
      BY <3>1, LiterallyIs
    <3> QED
      BY <3>1, <3>2, Zenon
  <2> QED
    BY <1>1, <2>1, Zenon
<1> HIDE DEF joined
<1>4. \A p \in joined[N] : Tree(p)
  <2>1. N \in 1..N /\ N \in Nat
    BY <1>1
  <2> HIDE DEF N
  <2> QED
    BY <1>3, <2>1, LiterallyTrees
<1>5. Tree(found)
  <2> HIDE DEF key, k
  <2> QED
    BY FilteredTree, LookupTree
<1> HIDE DEF found, N, k
<1>6. \A s \in LiteralFrom(q) : s.plan = found \/ \E p \in joined[N] : s.plan = Filtered(p, q.where)
  BY <1>2
<1> QED
  BY <1>4, <1>5, <1>6, FilteredTree

LEMMA AggregatedTrees == ASSUME NEW q, NEW src, Tree(src.plan) PROVE \A p \in Aggregated(q, src) : Tree(p)
<1> DEFINE agg  == [op |-> "aggregate", group |-> Groups(q), aggs |-> Aggs(q)]
           ends == [op |-> "minmax", tab |-> q.tables[1], aggs |-> Aggs(q)]
<1>1. Plain(agg, Single) /\ Plain(ends, Sources)
  BY DEF Plain, Single, Sources
<1>2. \A p \in Aggregated(q, src) : p = src.plan \/ p = Over(src.plan, agg) \/ p = Source(ends)
  BY DEF Aggregated
<1> HIDE DEF agg, ends
<1>3. Tree(Over(src.plan, agg)) /\ Tree(Source(ends))
  BY <1>1, OverTree, SourceTree
<1> QED
  BY <1>2, <1>3

LEMMA LimitedTree == ASSUME NEW p, Tree(p), NEW n PROVE Tree(Limited(p, n))
<1> DEFINE node == [op |-> "limit", n |-> n]
<1>1. Plain(node, Single)
  BY DEF Plain, Single, Through
<1> HIDE DEF node
<1>2. Tree(Over(p, node))
  BY <1>1, OverTree
<1> QED
  BY <1>2 DEF Limited, node

LEMMA SortedTree == ASSUME NEW q, NEW src, NEW p, Tree(p) PROVE Tree(Sorted(q, src, p))
<1> DEFINE keys == [k \in DOMAIN q.order |-> [col |-> Place(q, q.order[k].item), desc |-> q.order[k].desc]]
           node == [op |-> "sort", limit |-> q.limit, keys |-> keys]
<1>1. Plain(node, Single)
  <2> HIDE DEF keys
  <2> QED
    BY DEF Plain, Single
<1>2. Sorted(q, src, p) = Limited(p, q.limit) \/ Sorted(q, src, p) = Over(p, node)
  BY DEF Sorted
<1> HIDE DEF node
<1>3. Tree(Over(p, node))
  BY <1>1, OverTree
<1> QED
  BY <1>2, <1>3, LimitedTree

LEMMA ShownTree == ASSUME NEW q, NEW p, Tree(p) PROVE Tree(Shown(q, p))
<1> DEFINE cols == [k \in DOMAIN q.list |-> Place(q, q.list[k])]
           node == [op |-> "project", cols |-> cols]
<1>1. Plain(node, Single)
  <2> HIDE DEF cols
  <2> QED
    BY DEF Plain, Single, Through
<1>2. Shown(q, p) = p \/ Shown(q, p) = Over(p, node)
  BY DEF Shown
<1> HIDE DEF node
<1>3. Tree(Over(p, node))
  BY <1>1, OverTree
<1> QED
  BY <1>2, <1>3

\* Whatever the query, its tables and its terms, every plan the planner makes is a
\* tree: no operator is asked for its rows by two others, and the root is the last
\* (plan_from, plan_join and what run_select puts above them).
THEOREM PlansAreTrees ==
    ASSUME NEW q, q.tables \in Seq(Nat), q.tables # <<>>
    PROVE  \A p \in Plans(q) : Tree(p)
<1> SUFFICES ASSUME NEW p \in Plans(q) PROVE Tree(p)
  OBVIOUS
<1> DEFINE over(src) == {Shown(q, Sorted(q, src, Filtered(r, HavingTerms(q)))) : r \in Aggregated(q, src)}
<1>1. Plans(q) = UNION {over(src) : src \in From(q) \cup LiteralFrom(q)}
  BY Zenon DEF Plans
<1> HIDE DEF over
<1>2. PICK src \in From(q) \cup LiteralFrom(q) : p \in over(src)
  BY <1>1
<1>3. PICK r \in Aggregated(q, src) : p = Shown(q, Sorted(q, src, Filtered(r, HavingTerms(q))))
  BY <1>2, Zenon DEF over
<1>4. Tree(src.plan)
  BY <1>2, FromTrees, LiteralTrees
<1>5. Tree(r)
  BY <1>3, <1>4, AggregatedTrees
<1>6. Tree(Filtered(r, HavingTerms(q)))
  BY <1>5, FilteredTree
<1>7. Tree(Sorted(q, src, Filtered(r, HavingTerms(q))))
  BY <1>6, SortedTree
<1> QED
  BY <1>3, <1>7, ShownTree
-----------------------------------------------------------------------------
(* A call made and a call that returns.                                    *)

LEMMA NodeFacts ==
    ASSUME Tree(plan), NEW n \in DOMAIN plan
    PROVE  /\ Root \in Nat \ {0} /\ DOMAIN plan = 1..Root
           /\ n \in Nat /\ Ins(plan[n]) \subseteq 1..(n - 1)
           /\ plan[n].op \in Sources => Ins(plan[n]) = {}
           /\ plan[n].op \in Through \cup Joins => Streamed(plan[n]) \in Ins(plan[n])
           /\ plan[n].op \in Drainers => Drained(plan[n]) \in Ins(plan[n])
           /\ plan[n].op \in Through => plan[n].in[1] = Streamed(plan[n])
           /\ plan[n].op \in Sources \cup Single \cup Double
<1>1. Root \in Nat \ {0} /\ DOMAIN plan = 1..Root
  BY SeqIs DEF Tree, Root
<1>2. WellFormed(plan[n], n)
  BY DEF Tree
<1>3. n \in Nat
  BY <1>1
<1>4. Ins(plan[n]) \subseteq 1..(n - 1)
  BY <1>2, <1>3, InsAre
<1>5. plan[n].op \in Through => plan[n].in[1] = Streamed(plan[n])
  BY DEF Streamed, Through
<1>6. plan[n].op \in Sources \cup Single \cup Double
  BY <1>2 DEF WellFormed
<1>7. CASE plan[n].op \in Sources /\ plan[n].in = <<>>
  <2>1. Ins(plan[n]) = {}
    BY <1>7 DEF Ins
  <2>2. plan[n].op \notin Through \cup Joins /\ plan[n].op \notin Drainers
    BY <1>7 DEF Sources, Through, Joins, Drainers
  <2> QED
    BY <1>1, <1>3, <1>4, <1>5, <1>6, <2>1, <2>2
<1>8. ASSUME NEW a \in 1..(n - 1), plan[n].op \in Single, plan[n].in = <<a>>
      PROVE  /\ plan[n].op \notin Sources
             /\ Streamed(plan[n]) \in Ins(plan[n])
             /\ plan[n].op \in Drainers => Drained(plan[n]) \in Ins(plan[n])
  <2>1. Ins(plan[n]) = {a} /\ plan[n].in[1] = a
    BY <1>8 DEF Ins
  <2>2. plan[n].op \notin Sources /\ plan[n].op # "hash" /\ plan[n].op # "nlj"
    BY <1>8 DEF Single, Sources, Through
  <2> QED
    BY <2>1, <2>2 DEF Streamed, Drained
<1>9. ASSUME NEW a \in 1..(n - 1), NEW b \in 1..(n - 1), plan[n].op \in Double, plan[n].in = <<a, b>>
      PROVE  /\ plan[n].op \notin Sources
             /\ Streamed(plan[n]) \in Ins(plan[n]) /\ Drained(plan[n]) \in Ins(plan[n])
  <2>1. Ins(plan[n]) = {a, b} /\ plan[n].in[1] = a /\ plan[n].in[2] = b
    BY <1>9 DEF Ins
  <2>2. plan[n].op \notin Sources
    BY <1>9 DEF Double, Sources
  <2> QED
    BY <2>1, <2>2 DEF Streamed, Drained
<1>10. /\ plan[n].op \in Sources => Ins(plan[n]) = {}
       /\ plan[n].op \in Through \cup Joins => Streamed(plan[n]) \in Ins(plan[n])
       /\ plan[n].op \in Drainers => Drained(plan[n]) \in Ins(plan[n])
  BY <1>2, <1>7, <1>8, <1>9 DEF WellFormed
<1> QED
  BY <1>1, <1>3, <1>4, <1>5, <1>6, <1>10

\* No node is an input of two.
LEMMA OneReader ==
    ASSUME Tree(plan), NEW p \in DOMAIN plan, NEW r \in DOMAIN plan, NEW m, m \in Ins(plan[p]), m \in Ins(plan[r])
    PROVE  p = r
BY DEF Tree

LEMMA LinkIns ==
    ASSUME Tree(plan), NEW f, f.node \in DOMAIN plan, f.call \in Calling, NEW n, NEW call, Link(f, n, call)
    PROVE  n \in Ins(plan[f.node]) /\ n \in DOMAIN plan /\ n < f.node
<1>1. n \in Ins(plan[f.node])
  BY NodeFacts DEF Link, Streams, Calling
<1> QED
  BY <1>1, NodeFacts

\* In the middle of a call.
LEMMA InCall ==
    ASSUME IInv, stack # <<>>
    PROVE  /\ status = "running" /\ Tree(plan) /\ IsSeq(stack)
           /\ Len(stack) \in Nat \ {0} /\ DOMAIN stack = 1..Len(stack)
           /\ Top = stack[Len(stack)] /\ Top.node \in DOMAIN plan /\ Top.call \in Calling
           /\ Top.node \in OnStack
           /\ Node = plan[Top.node] /\ S = st[Top.node]
           /\ DOMAIN S = DOMAIN Idle
           /\ S.cur.pin # NoPage => Node.op \in Cursored
           /\ Answering => reply.call \in Calling /\ Link(Top, reply.node, reply.call)
           /\ reply.kind # "error"
<1>1. status = "running" /\ Tree(plan)
  BY DEF IInv, PlanInv
<1>2. IsSeq(stack) /\ Len(stack) \in Nat \ {0} /\ DOMAIN stack = 1..Len(stack)
  BY SeqIs DEF IInv, FramesInv
<1>3. Top = stack[Len(stack)] /\ Len(stack) \in DOMAIN stack
  BY <1>2 DEF Top, Last
<1>4. Top.node \in DOMAIN plan /\ Top.call \in Calling /\ Top.node \in OnStack
  BY <1>3 DEF IInv, FramesInv, OnStack
<1>5. Node = plan[Top.node] /\ S = st[Top.node]
  BY DEF Node, S
<1>6. DOMAIN S = DOMAIN Idle /\ (S.cur.pin # NoPage => Node.op \in Cursored)
  BY <1>4, <1>5 DEF IInv, HeldInv
<1>7. /\ Answering => reply.call \in Calling /\ Link(Top, reply.node, reply.call)
      /\ reply.kind # "error"
  BY DEF IInv, ReplyInv
<1> QED
  BY <1>1, <1>2, <1>3, <1>4, <1>5, <1>6, <1>7

LEMMA BelowTop ==
    ASSUME IInv, stack # <<>>, NEW m, Below(Top.node, m)
    PROVE  /\ m \in Ins(Node)
           /\ Top.call = "open" => Answering /\ reply.node = m /\ reply.call # "close"
           /\ Top.call = "next" => Streams(Top.node, m)
           /\ Top.call = "close" => ~Answering /\ Streams(Top.node, m)
BY InCall DEF Below

\* What nodes hold changes only at the node at work, and only cursors pin.
HeldStep ==
    /\ DOMAIN st' = DOMAIN st
    /\ \A n \in DOMAIN st \ {Top.node} : st'[n] = st[n]
    /\ DOMAIN st'[Top.node] = DOMAIN Idle
    /\ st'[Top.node].cur.pin # NoPage => Node.op \in Cursored

LEMMA SameHeld == ASSUME IInv, stack # <<>>, UNCHANGED st PROVE HeldStep
BY InCall DEF HeldStep

LEMMA BecomesHeld ==
    ASSUME IInv, stack # <<>>, NEW s, Becomes(s), DOMAIN s = DOMAIN Idle, s.cur.pin # NoPage => Node.op \in Cursored
    PROVE  HeldStep /\ st'[Top.node] = s
<1>1. Top.node \in DOMAIN st
  BY InCall DEF IInv, HeldInv
<1>2. st' = [st EXCEPT ![Top.node] = s]
  BY DEF Becomes
<1>3. /\ DOMAIN st' = DOMAIN st /\ st'[Top.node] = s
      /\ \A n \in DOMAIN st \ {Top.node} : st'[n] = st[n]
  BY <1>1, <1>2
<1> QED
  BY <1>3 DEF HeldStep

LEMMA HeldKept ==
    ASSUME IInv, stack # <<>>, HeldStep, plan' = plan
    PROVE  HeldInv' /\ Pinning' \subseteq Pinning \cup {Top.node}
<1>1. DOMAIN st = DOMAIN plan
  BY DEF IInv, HeldInv
<1>2. HeldInv'
  BY <1>1, InCall DEF HeldStep, HeldInv, IInv
<1>3. Pinning' \subseteq Pinning \cup {Top.node}
  BY <1>1 DEF HeldStep, Pinning
<1> QED
  BY <1>2, <1>3

\* The rest of the query stands still while its operators work.
Working == UNCHANGED <<query, status, plan>>

LEMMA CallStep ==
    ASSUME IInv, stack # <<>>, Working, HeldStep, NEW child, NEW call \in Calling, NEW max,
           Call(child, call, max), Link(Top, child, call),
           \A m : Below(Top.node, m) => m = child /\ call # "open"
    PROVE  IInv'
<1> DEFINE K == Len(stack)
           f == [node |-> child, call |-> call, max |-> max]
           t == Top.node
<1>1. /\ status = "running" /\ Tree(plan) /\ IsSeq(stack) /\ K \in Nat \ {0} /\ DOMAIN stack = 1..K
      /\ Top = stack[K] /\ t \in DOMAIN plan /\ Top.call \in Calling /\ t \in OnStack
  BY InCall
<1>2. stack' = Append(stack, f) /\ reply' = NoReply /\ plan' = plan /\ status' = status /\ query' = query
  BY DEF Call, Working
<1>3. child \in Ins(plan[t]) /\ child \in DOMAIN plan /\ child < t
  BY <1>1, LinkIns
<1>4. /\ IsSeq(stack') /\ Len(stack') = K + 1 /\ stack' # <<>> /\ Top' = f
      /\ \A i \in 1..K : stack'[i] = stack[i]
      /\ stack'[K + 1] = f
  BY <1>1, <1>2, AppendIs DEF Top
<1>5. DOMAIN stack' = 1..(K + 1)
  BY <1>4, SeqIs
<1> HIDE DEF K
<1>6. f.node = child /\ f.call = call
  OBVIOUS
<1> HIDE DEF f
<1>7. ASSUME NEW g, NEW n, NEW c PROVE Link(g, n, c)' <=> Link(g, n, c)
  BY <1>2 DEF Link, Streams
<1>8. ~Answering' /\ reply'.kind # "error"
  BY <1>2 DEF Answering, NoReply
<1>9. HeldInv' /\ Pinning' \subseteq Pinning \cup {t}
  BY <1>2, HeldKept
<1>10. FramesInv'
  <2>1. \A i \in 1..K : /\ stack[i].node \in DOMAIN plan /\ stack[i].call \in Calling
                        /\ i = 1 => stack[i].node = Root
                        /\ i > 1 => Link(stack[i - 1], stack[i].node, stack[i].call)
                        /\ \A j \in 1..(i - 1) : stack[i].node < stack[j].node
    BY <1>1 DEF IInv, FramesInv
  <2>2. Root' = Root
    BY <1>2 DEF Root
  <2> SUFFICES ASSUME NEW i \in 1..(K + 1)
               PROVE  /\ stack'[i].node \in DOMAIN plan' /\ stack'[i].call \in Calling
                      /\ i = 1 => stack'[i].node = Root'
                      /\ i > 1 => Link(stack[i - 1], stack[i].node, stack[i].call)'
                      /\ \A j \in 1..(i - 1) : stack'[i].node < stack'[j].node
    BY <1>4, <1>5, Zenon DEF FramesInv
  <2>3. CASE i \in 1..K
    <3>1. i > 1 => i - 1 \in 1..K
      BY <1>1, <2>3
    <3>2. \A j \in 1..(i - 1) : j \in 1..K
      BY <1>1, <2>3
    <3>3. stack'[i] = stack[i] /\ (i > 1 => stack'[i - 1] = stack[i - 1])
      BY <1>4, <2>3, <3>1
    <3>4. i > 1 => Link(stack[i - 1], stack[i].node, stack[i].call)'
      BY <2>1, <2>3, <3>3, <1>7
    <3>5. \A j \in 1..(i - 1) : stack'[i].node < stack'[j].node
      BY <1>4, <2>1, <2>3, <3>2, <3>3
    <3> QED
      BY <1>2, <2>1, <2>2, <2>3, <3>3, <3>4, <3>5
  <2>4. CASE i = K + 1
    <3>1. stack'[i] = f /\ i - 1 = K /\ i # 1 /\ stack'[K] = stack[K]
      BY <1>1, <1>4, <2>4
    <3>2. Link(stack[i - 1], stack[i].node, stack[i].call)'
      <4>1. Link(Top, child, call)
        OBVIOUS
      <4> QED
        BY <1>1, <1>6, <1>7, <3>1, <4>1
    <3>3. \A j \in 1..K : stack[K].node <= stack[j].node
      <4>1. \A j \in 1..K : j = K \/ j \in 1..(K - 1)
        BY <1>1
      <4>2. \A j \in 1..(K - 1) : stack[K].node < stack[j].node
        BY <1>1, <2>1
      <4>3. \A j \in 1..K : stack[j].node \in Nat
        BY <1>1, <2>1, NodeFacts
      <4> QED
        BY <1>1, <4>1, <4>2, <4>3
    <3>4. \A j \in 1..K : child < stack[j].node
      <4>1. \A j \in 1..K : stack[j].node \in Nat /\ child \in Nat
        BY <1>1, <1>3, <2>1, NodeFacts
      <4> QED
        BY <1>1, <1>3, <3>3, <4>1
    <3> QED
      BY <1>2, <1>3, <1>4, <1>6, <3>1, <3>2, <3>4
  <2> QED
    BY <1>1, <2>3, <2>4
<1>11. ReplyInv'
  BY <1>8 DEF ReplyInv
<1>12. PlanInv'
  <2>1. /\ \E d \in DOMAIN Databases : query \in Queries[d]
    BY DEF IInv, PlanInv
  <2> QED
    BY <1>1, <1>2, <2>1 DEF PlanInv, Tree
<1>13. OpenInv'
  <2>1. PICK L \in SUBSET (DOMAIN plan) : Opened(L)
    BY DEF IInv, OpenInv
  <2>2. OnStack' = OnStack \cup {child}
    <3>1. OnStack' = {stack'[i].node : i \in 1..(K + 1)} /\ OnStack = {stack[i].node : i \in 1..K}
      BY <1>1, <1>5 DEF OnStack
    <3>2. \A i \in 1..(K + 1) : i \in 1..K \/ i = K + 1
      BY <1>1
    <3>3. 1..K \subseteq 1..(K + 1) /\ K + 1 \in 1..(K + 1)
      BY <1>1
    <3> QED
      BY <1>4, <1>6, <3>1, <3>2, <3>3
  <2>3. L \cup {child} \in SUBSET (DOMAIN plan') /\ OnStack' \subseteq L \cup {child} /\ Pinning' \subseteq L \cup {child}
    BY <1>1, <1>2, <1>3, <1>9, <2>1, <2>2 DEF Opened
  <2>4. ASSUME NEW m \in L \cup {child}, m \notin OnStack'
        PROVE  \E p \in L \cup {child} : Below(p, m)'
    <3>1. m \in L /\ m \notin OnStack /\ m # child
      BY <2>2, <2>4
    <3>2. PICK p \in L : Below(p, m)
      BY <2>1, <3>1 DEF Opened
    <3>3. p \notin OnStack /\ m \in Ins(plan[p]) /\ Streams(p, m)
      <4>1. ~Below(t, m)
        BY <3>1
      <4> QED
        BY <3>2, <4>1 DEF Below
    <3>4. CASE p # child
      <4>1. p \notin OnStack'
        BY <2>2, <3>3, <3>4
      <4>2. Below(p, m)'
        BY <1>2, <3>3, <4>1 DEF Below, Streams
      <4> QED
        BY <4>2
    <3>5. CASE p = child
      <4>1. PICK r \in L : Below(r, child)
        BY <1>1, <2>1, <3>2, <3>3, <3>5 DEF Opened
      <4>2. r = t
        <5>1. r \in DOMAIN plan /\ child \in Ins(plan[r])
          BY <2>1, <4>1 DEF Below
        <5> QED
          BY <1>1, <1>3, <5>1, OneReader
      <4>3. call # "open"
        BY <4>1, <4>2
      <4>4. call \in {"next", "close"}
        BY <4>3 DEF Calling
      <4>5. Top'.node = p /\ Top'.call = call
        BY <1>4, <1>6, <3>5
      <4>6. Below(p, m)'
        BY <1>2, <1>8, <3>3, <4>4, <4>5 DEF Below, Streams
      <4> QED
        BY <4>6
    <3> QED
      BY <3>4, <3>5
  <2>5. Opened(L \cup {child})'
    BY <1>2, <2>3, <2>4 DEF Opened
  <2> QED
    BY <2>3, <2>5 DEF OpenInv
<1> QED
  BY <1>9, <1>10, <1>11, <1>12, <1>13 DEF IInv

\* The frames and the node left when a call returns.
LEMMA Popped ==
    ASSUME IInv, stack # <<>>, plan' = plan, stack' = Front(stack)
    PROVE  /\ FramesInv'
           /\ OnStack' = OnStack \ {Top.node}
           /\ stack' = <<>> => Top.node = Root
           /\ stack' # <<>> => /\ Link(Top', Top.node, Top.call) /\ Top' = stack[Len(stack) - 1]
                               /\ Top'.node \in OnStack' /\ Top'.node \in DOMAIN plan
                               /\ Top'.call \in Calling
<1> DEFINE K == Len(stack)
           t == Top.node
<1>1. /\ Tree(plan) /\ IsSeq(stack) /\ K \in Nat \ {0} /\ DOMAIN stack = 1..K
      /\ Top = stack[K] /\ t \in DOMAIN plan /\ Top.call \in Calling
  BY InCall
<1>2. /\ IsSeq(stack') /\ Len(stack') = K - 1
      /\ \A i \in 1..(K - 1) : stack'[i] = stack[i]
  BY <1>1, FrontOf
<1>3. DOMAIN stack' = 1..(K - 1) /\ (stack' = <<>> <=> K = 1)
  BY <1>1, <1>2, SeqIs
<1> HIDE DEF K
<1>4. \A i \in 1..K : /\ stack[i].node \in DOMAIN plan /\ stack[i].call \in Calling
                      /\ i = 1 => stack[i].node = Root
                      /\ i > 1 => Link(stack[i - 1], stack[i].node, stack[i].call)
                      /\ \A j \in 1..(i - 1) : stack[i].node < stack[j].node
  BY <1>1 DEF IInv, FramesInv
<1>5. ASSUME NEW g, NEW n, NEW c PROVE Link(g, n, c)' <=> Link(g, n, c)
  BY DEF Link, Streams
<1>6. FramesInv'
  <2>1. Root' = Root
    BY DEF Root
  <2> SUFFICES ASSUME NEW i \in 1..(K - 1)
               PROVE  /\ stack'[i].node \in DOMAIN plan' /\ stack'[i].call \in Calling
                      /\ i = 1 => stack'[i].node = Root'
                      /\ i > 1 => Link(stack[i - 1], stack[i].node, stack[i].call)'
                      /\ \A j \in 1..(i - 1) : stack'[i].node < stack'[j].node
    BY <1>2, <1>3, Zenon DEF FramesInv
  <2>2. i \in 1..K /\ (i > 1 => i - 1 \in 1..(K - 1)) /\ \A j \in 1..(i - 1) : j \in 1..(K - 1)
    BY <1>1
  <2>3. stack'[i] = stack[i] /\ (i > 1 => stack'[i - 1] = stack[i - 1])
    BY <1>2, <2>2
  <2>4. i > 1 => Link(stack[i - 1], stack[i].node, stack[i].call)'
    BY <1>4, <1>5, <2>2, <2>3
  <2>5. \A j \in 1..(i - 1) : stack'[i].node < stack'[j].node
    BY <1>2, <1>4, <2>2, <2>3
  <2> QED
    BY <1>4, <2>1, <2>2, <2>3, <2>4, <2>5
<1>7. OnStack' = OnStack \ {t}
  <2>1. OnStack' = {stack'[i].node : i \in 1..(K - 1)} /\ OnStack = {stack[i].node : i \in 1..K}
    BY <1>1, <1>3 DEF OnStack
  <2>2. \A i \in 1..K : i \in 1..(K - 1) \/ i = K
    BY <1>1
  <2>3. 1..(K - 1) \subseteq 1..K /\ K \in 1..K
    BY <1>1
  <2>4. \A i \in 1..(K - 1) : stack[i].node # t
    <3>1. \A i \in 1..(K - 1) : stack[K].node < stack[i].node
      BY <1>4, <2>3
    <3>2. \A i \in 1..K : stack[i].node \in Nat
      BY <1>1, <1>4, NodeFacts
    <3> QED
      BY <1>1, <2>3, <3>1, <3>2
  <2> QED
    BY <1>1, <1>2, <2>1, <2>2, <2>3, <2>4
<1>8. stack' = <<>> => t = Root
  BY <1>1, <1>3, <1>4
<1>9. ASSUME stack' # <<>>
      PROVE  /\ Link(Top', t, Top.call) /\ Top' = stack[K - 1] /\ Top'.node \in OnStack'
             /\ Top'.node \in DOMAIN plan /\ Top'.call \in Calling
  <2>1. K - 1 \in 1..(K - 1) /\ K - 1 \in 1..K /\ K > 1 /\ K \in 1..K
    BY <1>1, <1>3, <1>9
  <2>2. Top' = stack'[K - 1] /\ stack'[K - 1] = stack[K - 1]
    BY <1>2, <2>1 DEF Top, Last
  <2>3. Link(stack[K - 1], stack[K].node, stack[K].call)
    BY <1>4, <2>1
  <2>4. stack'[K - 1].node \in OnStack'
    BY <1>3, <2>1 DEF OnStack
  <2> QED
    BY <1>1, <1>4, <2>1, <2>2, <2>3, <2>4
<1> QED
  BY <1>6, <1>7, <1>8, <1>9 DEF K

\* What every return leaves, whatever stays open.
LEMMA Returned ==
    ASSUME IInv, stack # <<>>, Working, HeldStep, NEW kind \in {"done", "end", "rows"}, NEW b, Return(kind, b)
    PROVE  /\ PlanInv' /\ HeldInv' /\ FramesInv' /\ ReplyInv'
           /\ Answering' /\ reply'.node = Top.node /\ reply'.call = Top.call
           /\ stack' = Front(stack) /\ plan' = plan
<1>1. /\ stack' = Front(stack) /\ plan' = plan /\ status' = status /\ query' = query
      /\ reply' = [kind |-> kind, node |-> Top.node, call |-> Top.call, max |-> Top.max, batch |-> b]
  BY DEF Return, Working
<1>2. status = "running" /\ Tree(plan) /\ Top.call \in Calling
  BY InCall
<1>3. Answering' /\ reply'.node = Top.node /\ reply'.call = Top.call /\ reply'.kind # "error"
  BY <1>1 DEF Answering
<1>4. HeldInv'
  BY <1>1, HeldKept
<1>5. FramesInv'
  BY <1>1, Popped
<1>6. ReplyInv'
  <2>1. CASE stack' = <<>>
    <3>1. Top.node = Root /\ Root' = Root
      BY <1>1, <2>1, Popped DEF Root
    <3> QED
      BY <1>2, <1>3, <2>1, <3>1 DEF ReplyInv
  <2>2. CASE stack' # <<>>
    <3>1. Link(Top', Top.node, Top.call)
      BY <1>1, <2>2, Popped
    <3>2. Link(Top, reply.node, reply.call)'
      BY <1>1, <1>3, <3>1 DEF Link, Streams
    <3> QED
      BY <1>2, <1>3, <2>2, <3>2 DEF ReplyInv
  <2> QED
    BY <2>1, <2>2
<1>7. PlanInv'
  <2>1. \E d \in DOMAIN Databases : query \in Queries[d]
    BY DEF IInv, PlanInv
  <2> QED
    BY <1>1, <1>2, <2>1 DEF PlanInv, Tree
<1> QED
  BY <1>1, <1>3, <1>4, <1>5, <1>6, <1>7

\* A call that opens a node, or asks it, leaves it open.
LEMMA ReturnOpen ==
    ASSUME IInv, stack # <<>>, Working, HeldStep, NEW kind \in {"done", "end", "rows"}, NEW b, Return(kind, b),
           Top.call # "close", \A m : Below(Top.node, m) => Streams(Top.node, m)
    PROVE  IInv'
<1> DEFINE t == Top.node
<1>1. /\ PlanInv' /\ HeldInv' /\ FramesInv' /\ ReplyInv' /\ Answering'
      /\ reply'.node = t /\ reply'.call = Top.call /\ stack' = Front(stack) /\ plan' = plan
  BY Returned
<1>2. OpenInv'
  <2>1. PICK L \in SUBSET (DOMAIN plan) : Opened(L)
    BY DEF IInv, OpenInv
  <2>2. OnStack' = OnStack \ {t}
    BY <1>1, Popped
  <2>3. t \in OnStack /\ Tree(plan)
    BY InCall
  <2>4. L \in SUBSET (DOMAIN plan') /\ OnStack' \subseteq L /\ Pinning' \subseteq L
    BY <1>1, <2>1, <2>2, <2>3, HeldKept DEF Opened
  <2>5. ASSUME NEW m \in L, m \notin OnStack'
        PROVE  \/ m = Root' /\ stack' = <<>> /\ Answering' /\ reply'.call # "close"
               \/ \E p \in L : Below(p, m)'
    <3>1. CASE m = t /\ stack' = <<>>
      <4>1. t = Root /\ Root' = Root
        BY <1>1, <3>1, Popped DEF Root
      <4> QED
        BY <1>1, <3>1, <4>1
    <3>2. CASE m = t /\ stack' # <<>>
      <4>1. /\ Link(Top', t, Top.call) /\ Top'.node \in OnStack' /\ Top'.node \in DOMAIN plan
            /\ Top'.call \in Calling
        BY <1>1, <3>2, Popped
      <4>2. PICK p \in L : p = Top'.node
        BY <2>4, <4>1
      <4>3. m \in Ins(plan[p])
        BY <2>3, <3>2, <4>1, <4>2, LinkIns
      <4>4. Top'.call # "close" /\ (Top'.call = "next" => Streams(p, m))
        BY <3>2, <4>1, <4>2 DEF Link
      <4>5. reply'.node = m /\ reply'.call # "close"
        BY <1>1, <3>2
      <4>6. Below(p, m)'
        BY <1>1, <4>1, <4>2, <4>3, <4>4, <4>5 DEF Below, Streams
      <4> QED
        BY <4>6
    <3>3. CASE m # t
      <4>1. m \notin OnStack
        BY <2>2, <2>5, <3>3
      <4>2. PICK p \in L : Below(p, m)
        BY <2>1, <4>1 DEF Opened
      <4>3. p \notin OnStack' /\ m \in Ins(plan[p]) /\ Streams(p, m)
        BY <2>2, <4>2 DEF Below
      <4>4. Below(p, m)'
        BY <1>1, <4>3 DEF Below, Streams
      <4> QED
        BY <4>4
    <3> QED
      BY <3>1, <3>2, <3>3
  <2>6. Opened(L)'
    BY <1>1, <2>4, <2>5 DEF Opened
  <2> QED
    BY <2>4, <2>6 DEF OpenInv
<1> QED
  BY <1>1, <1>2 DEF IInv

\* A call that closes a node leaves it without a pin, and nothing open below it.
LEMMA ReturnClosed ==
    ASSUME IInv, stack # <<>>, Working, HeldStep, NEW b, Return("done", b),
           Top.call = "close", st'[Top.node].cur.pin = NoPage, \A m : ~Below(Top.node, m)
    PROVE  IInv'
<1> DEFINE t == Top.node
<1>1. /\ PlanInv' /\ HeldInv' /\ FramesInv' /\ ReplyInv' /\ stack' = Front(stack) /\ plan' = plan
  BY Returned
<1>2. OpenInv'
  <2>1. PICK L \in SUBSET (DOMAIN plan) : Opened(L)
    BY DEF IInv, OpenInv
  <2>0. PICK O : O = L \ {t}
    OBVIOUS
  <2>2. OnStack' = OnStack \ {t}
    BY <1>1, Popped
  <2>3. t \notin Pinning' /\ Pinning' \subseteq Pinning \cup {t}
    BY <1>1, HeldKept DEF Pinning
  <2>4. O \in SUBSET (DOMAIN plan') /\ OnStack' \subseteq O /\ Pinning' \subseteq O
    BY <1>1, <2>0, <2>1, <2>2, <2>3 DEF Opened
  <2>5. ASSUME NEW m \in O, m \notin OnStack'
        PROVE  \E p \in O : Below(p, m)'
    <3>1. m \in L /\ m \notin OnStack
      BY <2>0, <2>2, <2>5
    <3>2. PICK p \in L : Below(p, m)
      BY <2>1, <3>1 DEF Opened
    <3>3. p # t
      BY <3>2
    <3>4. p \notin OnStack' /\ m \in Ins(plan[p]) /\ Streams(p, m)
      BY <2>2, <3>2, <3>3 DEF Below
    <3>5. Below(p, m)'
      BY <1>1, <3>4 DEF Below, Streams
    <3> QED
      BY <2>0, <3>3, <3>5
  <2>6. Opened(O)'
    BY <1>1, <2>4, <2>5 DEF Opened
  <2> QED
    BY <2>4, <2>6 DEF OpenInv
<1> QED
  BY <1>1, <1>2 DEF IInv

\* A node that works on before it answers.
LEMMA GoOnStep ==
    ASSUME IInv, stack # <<>>, Working, HeldStep, GoOn, Top.call = "next"
    PROVE  IInv'
<1>1. stack' = stack /\ reply' = NoReply /\ plan' = plan /\ status' = status /\ query' = query
  BY DEF GoOn, Working
<1>2. status = "running" /\ Tree(plan)
  BY InCall
<1>3. HeldInv' /\ Pinning' \subseteq Pinning \cup {Top.node}
  BY <1>1, HeldKept
<1>4. Answering' = FALSE /\ reply'.kind # "error"
  BY <1>1 DEF Answering, NoReply
<1>5. PlanInv'
  <2>1. \E d \in DOMAIN Databases : query \in Queries[d]
    BY DEF IInv, PlanInv
  <2> QED
    BY <1>1, <1>2, <2>1 DEF PlanInv, Tree
<1>6. FramesInv'
  BY <1>1 DEF IInv, FramesInv, Link, Streams, Root
<1>7. ReplyInv'
  BY <1>4 DEF ReplyInv
<1>8. OpenInv'
  <2>1. PICK L \in SUBSET (DOMAIN plan) : Opened(L)
    BY DEF IInv, OpenInv
  <2>2. OnStack' = OnStack /\ Top' = Top /\ Top.node \in OnStack
    BY <1>1, InCall DEF OnStack, Top
  <2>3. L \in SUBSET (DOMAIN plan') /\ OnStack' \subseteq L /\ Pinning' \subseteq L
    BY <1>1, <1>3, <2>1, <2>2 DEF Opened
  <2>4. ASSUME NEW p, NEW m, Below(p, m) PROVE Below(p, m)'
    BY <1>1, <2>2, <2>4 DEF Below, Streams
  <2>5. \A m \in L : m \in OnStack' \/ \E p \in L : Below(p, m)'
    BY <2>1, <2>2, <2>4 DEF Opened
  <2>6. Opened(L)'
    BY <1>1, <2>3, <2>5 DEF Opened
  <2> QED
    BY <2>3, <2>6 DEF OpenInv
<1> QED
  BY <1>3, <1>5, <1>6, <1>7, <1>8 DEF IInv

\* An error leaves nothing open.
LEMMA ThrowStep == ASSUME IInv, stack # <<>>, Working, Throw PROVE IInv'
<1>1. /\ stack' = <<>> /\ reply' = [NoReply EXCEPT !.kind = "error"] /\ st' = [n \in DOMAIN st |-> Idle]
      /\ plan' = plan /\ status' = status /\ query' = query
  BY DEF Throw, Working
<1>2. status = "running" /\ Tree(plan) /\ DOMAIN st = DOMAIN plan
  BY InCall DEF IInv, HeldInv
<1>3. reply'.kind = "error" /\ ~Answering'
  BY <1>1 DEF Answering, NoReply
<1>4. Idle.cur.pin = NoPage
  BY DEF Idle, NoCursor
<1>5. Pinning' = {} /\ HeldInv'
  BY <1>1, <1>2, <1>4 DEF Pinning, HeldInv
<1>6. OnStack' = {} /\ FramesInv'
  BY <1>1, EmptyIsSeq DEF OnStack, FramesInv
<1>7. ReplyInv' /\ OpenInv'
  <2>1. Opened({})'
    BY <1>5, <1>6 DEF Opened
  <2> QED
    BY <1>1, <1>3, <1>5, <2>1 DEF ReplyInv, OpenInv
<1>8. PlanInv'
  <2>1. \E d \in DOMAIN Databases : query \in Queries[d]
    BY DEF IInv, PlanInv
  <2> QED
    BY <1>1, <1>2, <2>1 DEF PlanInv, Tree
<1> QED
  BY <1>5, <1>6, <1>7, <1>8 DEF IInv
-----------------------------------------------------------------------------
(* What may be open below the node at work, and what it may come to hold.  *)

LEMMA IdleIs ==
    /\ DOMAIN Idle = {"cur", "in", "k", "busy", "pos", "out", "rows", "slots", "given"}
    /\ Idle.cur.pin = NoPage /\ NoCursor.pin = NoPage
BY DEF Idle, NoCursor

LEMMA NoneBelow ==
    ASSUME IInv, stack # <<>>,
           \/ Node.op \in Sources
           \/ Node.op \in {"aggregate", "sort"} /\ Top.call # "open"
           \/ Top.call = "open" /\ (~Answering \/ reply.call = "close")
           \/ Top.call = "close" /\ Answering
    PROVE  \A m : ~Below(Top.node, m)
<1> SUFFICES ASSUME NEW m, Below(Top.node, m) PROVE FALSE
  OBVIOUS
<1>1. /\ m \in Ins(Node) /\ Node = plan[Top.node]
      /\ Top.call = "open" => Answering /\ reply.node = m /\ reply.call # "close"
      /\ Top.call = "next" => Streams(Top.node, m)
      /\ Top.call = "close" => ~Answering /\ Streams(Top.node, m)
  BY InCall, BelowTop
<1>2. Tree(plan) /\ Top.node \in DOMAIN plan /\ Top.call \in Calling
  BY InCall
<1>3. CASE Node.op \in Sources
  BY <1>1, <1>2, <1>3, NodeFacts
<1>4. CASE Node.op \in {"aggregate", "sort"} /\ Top.call # "open"
  <2>1. Streams(Top.node, m)
    BY <1>1, <1>2, <1>4 DEF Calling
  <2> QED
    BY <1>1, <1>4, <2>1 DEF Streams, Through, Joins
<1> QED
  BY <1>1, <1>3, <1>4

LEMMA NextBelow ==
    ASSUME IInv, stack # <<>>, Top.call = "next"
    PROVE  \A m : Below(Top.node, m) => Streams(Top.node, m)
BY BelowTop

\* A node that keeps its cursor, or drops it.
LEMMA KeepsHeld ==
    ASSUME IInv, stack # <<>>, NEW s, Becomes(s), DOMAIN s = DOMAIN Idle,
           s.cur = S.cur \/ s.cur.pin = NoPage
    PROVE  /\ HeldStep
           /\ S.cur.pin = NoPage => st'[Top.node].cur.pin = NoPage
<1>1. s.cur.pin # NoPage => Node.op \in Cursored
  BY InCall
<1>2. HeldStep /\ st'[Top.node] = s
  BY <1>1, BecomesHeld
<1> QED
  BY <1>2

LEMMA CursorHeld ==
    ASSUME IInv, stack # <<>>, Node.op \in Cursored, NEW s, Becomes(s), DOMAIN s = DOMAIN Idle
    PROVE  HeldStep
BY BecomesHeld

LEMMA OpNames ==
    /\ Sources \cap (Through \cup Joins \cup Drainers) = {}
    /\ Through \cap Drainers = {} /\ Through \cap Cursored = {} /\ Drainers \cap Cursored = {}
    /\ Through \cap Joins = {}
BY DEF Sources, Through, Joins, Drainers, Cursored
-----------------------------------------------------------------------------
(* The operators' steps: sources.                                          *)

LEMMA OpenSourceInv == ASSUME IInv, Working, OpenSource PROVE IInv'
<1>1. /\ stack # <<>> /\ Node.op \in {"seqscan", "lookup", "indexscan"} /\ Top.call = "open"
      /\ Return("done", NoRows)
  BY DEF OpenSource, Serving, Done
<1> DEFINE c == CASE Node.op = "seqscan" -> Sought(CursorOn(Node.tab, 1), 0, MaxKey)
                  [] Node.op = "indexscan" /\ Node.lo <= Node.hi ->
                         Sought(CursorOn(Node.tab, Node.col), Node.lo, Node.hi)
                  [] OTHER -> NoCursor
<1>2. Becomes([Idle EXCEPT !.cur = c])
  BY DEF OpenSource
<1> HIDE DEF c
<1>3. HeldStep
  <2>1. DOMAIN [Idle EXCEPT !.cur = c] = DOMAIN Idle
    OBVIOUS
  <2> QED
    BY <1>1, <1>2, <2>1, CursorHeld DEF Cursored
<1>4. \A m : ~Below(Top.node, m)
  BY <1>1, NoneBelow DEF Sources
<1> QED
  BY <1>1, <1>3, <1>4, ReturnOpen

LEMMA CloseSourceInv == ASSUME IInv, Working, CloseSource PROVE IInv'
<1>1. /\ stack # <<>> /\ Node.op \in {"seqscan", "lookup", "indexscan"} /\ Top.call = "close"
      /\ Becomes([S EXCEPT !.cur = NoCursor]) /\ Return("done", NoRows)
  BY DEF CloseSource, Serving, Done
<1>2. /\ DOMAIN [S EXCEPT !.cur = NoCursor] = DOMAIN Idle
      /\ [S EXCEPT !.cur = NoCursor].cur = NoCursor
  BY <1>1, InCall, IdleIs
<1>3. HeldStep /\ st'[Top.node].cur.pin = NoPage
  BY <1>1, <1>2, BecomesHeld, IdleIs
<1>4. \A m : ~Below(Top.node, m)
  BY <1>1, NoneBelow DEF Sources
<1> QED
  BY <1>1, <1>3, <1>4, ReturnClosed

LEMMA ScanInv == ASSUME IInv, Working, Scan PROVE IInv'
<1>1. stack # <<>> /\ Node.op \in {"seqscan", "indexscan"} /\ Top.call = "next"
  BY DEF Scan, Serving
<1>2. (\E c : Becomes([S EXCEPT !.cur = c])) \/ UNCHANGED st
  BY DEF Scan
<1>3. \E kind \in {"end", "rows"} : \E b : Return(kind, b)
  BY DEF Scan, End, HandUp
<1>4. HeldStep
  <2>1. ASSUME NEW c, Becomes([S EXCEPT !.cur = c]) PROVE HeldStep
    <3>1. DOMAIN [S EXCEPT !.cur = c] = DOMAIN Idle
      BY <1>1, InCall
    <3> QED
      BY <1>1, <2>1, <3>1, CursorHeld DEF Cursored
  <2> QED
    BY <1>1, <1>2, <2>1, SameHeld
<1>5. \A m : ~Below(Top.node, m)
  BY <1>1, NoneBelow DEF Sources
<1> QED
  BY <1>1, <1>3, <1>4, <1>5, ReturnOpen

LEMMA LookupInv == ASSUME IInv, Working, Lookup PROVE IInv'
<1>1. /\ stack # <<>> /\ Node.op = "lookup" /\ Top.call = "next"
      /\ Becomes([S EXCEPT !.given = 1])
  BY DEF Lookup, Serving
<1>2. \E kind \in {"end", "rows"} : \E b : Return(kind, b)
  BY DEF Lookup, End, HandUp
<1>3. DOMAIN [S EXCEPT !.given = 1] = DOMAIN Idle
  BY <1>1, InCall
<1>4. HeldStep
  BY <1>1, <1>3, CursorHeld DEF Cursored
<1>5. \A m : ~Below(Top.node, m)
  BY <1>1, NoneBelow DEF Sources
<1> QED
  BY <1>1, <1>2, <1>4, <1>5, ReturnOpen
-----------------------------------------------------------------------------
(* Filters, projections and limits.                                        *)

LEMMA PassDownInv == ASSUME IInv, Working, PassDown PROVE IInv'
<1>1. PICK call \in {"open", "close"} :
         stack # <<>> /\ Node.op \in Through /\ Top.call = call /\ Asked /\ Call(Node.in[1], call, 0)
  BY DEF PassDown, Serving
<1>2. HeldStep
  BY <1>1, SameHeld DEF PassDown
<1>3. Streams(Top.node, Node.in[1])
  BY <1>1, InCall, NodeFacts DEF Streams
<1>4. Link(Top, Node.in[1], call)
  BY <1>1, <1>3 DEF Link
<1>5. \A m : Below(Top.node, m) => m = Node.in[1] /\ call # "open"
  <2>1. ~Answering
    BY <1>1 DEF Asked, Answering
  <2> QED
    BY <1>1, <1>3, <2>1, BelowTop DEF Streams
<1>6. call \in Calling
  BY DEF Calling
<1> QED
  BY <1>1, <1>2, <1>4, <1>5, <1>6, CallStep

LEMMA PassUpInv == ASSUME IInv, Working, PassUp PROVE IInv'
<1>1. PICK call \in {"open", "close"} :
         stack # <<>> /\ Node.op \in Through /\ Top.call = call /\ Back(call, "done")
  BY DEF PassUp, Serving
<1>2. Becomes([S EXCEPT !.given = 0]) /\ Return("done", NoRows)
  BY DEF PassUp, Done
<1>3. DOMAIN [S EXCEPT !.given = 0] = DOMAIN Idle /\ [S EXCEPT !.given = 0].cur = S.cur
  BY <1>1, InCall, IdleIs
<1>4. HeldStep /\ (S.cur.pin = NoPage => st'[Top.node].cur.pin = NoPage)
  BY <1>1, <1>2, <1>3, KeepsHeld
<1>5. Answering /\ reply.call = call
  BY <1>1 DEF Answering, Back
<1>6. CASE call = "open"
  <2>1. Streams(Top.node, reply.node)
    <3>1. Link(Top, reply.node, reply.call)
      BY <1>1, <1>5, InCall
    <3>2. Node.op \notin Drainers /\ Node = plan[Top.node]
      BY <1>1, InCall, OpNames
    <3> QED
      BY <1>1, <1>6, <3>1, <3>2 DEF Link
  <2>2. \A m : Below(Top.node, m) => Streams(Top.node, m)
    BY <1>1, <1>6, <2>1, BelowTop
  <2> QED
    BY <1>1, <1>2, <1>4, <1>6, <2>2, ReturnOpen
<1>7. CASE call = "close"
  <2>1. \A m : ~Below(Top.node, m)
    BY <1>1, <1>5, <1>7, NoneBelow
  <2>2. st'[Top.node].cur.pin = NoPage
    BY <1>1, <1>4, InCall, OpNames
  <2> QED
    BY <1>1, <1>2, <1>4, <1>7, <2>1, <2>2, ReturnClosed
<1> QED
  BY <1>6, <1>7

\* A row, the end of the rows, or neither, out of a node that stays open.
LEMMA AnswersInv ==
    ASSUME IInv, Working, stack # <<>>, Top.call = "next", HeldStep,
           GoOn \/ \E kind \in {"end", "rows"} : \E b : Return(kind, b)
    PROVE  IInv'
<1>1. \A m : Below(Top.node, m) => Streams(Top.node, m)
  BY NextBelow
<1>2. CASE GoOn
  BY <1>2, GoOnStep
<1>3. ASSUME NEW kind \in {"end", "rows"}, NEW b, Return(kind, b) PROVE IInv'
  BY <1>1, <1>3, ReturnOpen
<1> QED
  BY <1>2, <1>3

\* A node that asks the input it streams.
LEMMA AsksInv ==
    ASSUME IInv, Working, stack # <<>>, Top.call = "next", Node.op \in Through \cup Joins, HeldStep,
           NEW max, Call(Streamed(Node), "next", max)
    PROVE  IInv'
<1>1. Streams(Top.node, Streamed(Node))
  BY InCall DEF Streams
<1>2. Link(Top, Streamed(Node), "next")
  BY <1>1 DEF Link
<1>3. \A m : Below(Top.node, m) => m = Streamed(Node) /\ "next" # "open"
  BY InCall, NextBelow DEF Streams
<1>4. "next" \in Calling
  BY DEF Calling
<1> QED
  BY <1>2, <1>3, <1>4, CallStep

LEMMA ThroughInput == ASSUME IInv, stack # <<>>, Node.op \in Through PROVE Node.in[1] = Streamed(Node)
BY InCall, NodeFacts

LEMMA ExhaustedInv == ASSUME IInv, Working, Exhausted PROVE IInv'
<1>1. stack # <<>> /\ Top.call = "next" /\ UNCHANGED st /\ Return("end", NoRows)
  BY DEF Exhausted, Serving, End
<1> QED
  BY <1>1, SameHeld, AnswersInv

LEMMA AskInv == ASSUME IInv, Working, Ask PROVE IInv'
<1>1. /\ stack # <<>> /\ Top.call = "next" /\ Node.op \in Through /\ UNCHANGED st
      /\ Call(Node.in[1], "next", Top.max)
  BY DEF Ask, Serving, Through
<1>2. Call(Streamed(Node), "next", Top.max)
  BY <1>1, ThroughInput
<1> QED
  BY <1>1, <1>2, SameHeld, AsksInv

LEMMA FilterRowsInv == ASSUME IInv, Working, FilterRows PROVE IInv'
<1>1. stack # <<>> /\ Top.call = "next" /\ UNCHANGED st
  BY DEF FilterRows, Serving
<1>2. GoOn \/ \E b : Return("rows", b)
  BY DEF FilterRows, HandUp
<1> QED
  BY <1>1, <1>2, SameHeld, AnswersInv

LEMMA ProjectRowsInv == ASSUME IInv, Working, ProjectRows PROVE IInv'
<1>1. stack # <<>> /\ Top.call = "next" /\ UNCHANGED st
  BY DEF ProjectRows, Serving
<1>2. \E b : Return("rows", b)
  BY DEF ProjectRows, HandUp
<1> QED
  BY <1>1, <1>2, SameHeld, AnswersInv

LEMMA LimitAsksInv == ASSUME IInv, Working, LimitAsks PROVE IInv'
<1>1. stack # <<>> /\ Top.call = "next" /\ Node.op \in Through /\ UNCHANGED st
  BY DEF LimitAsks, Serving, Through
<1>2. Return("end", NoRows) \/ \E max : Call(Node.in[1], "next", max)
  BY DEF LimitAsks, End
<1>3. CASE Return("end", NoRows)
  BY <1>1, <1>3, SameHeld, AnswersInv
<1>4. ASSUME NEW max, Call(Node.in[1], "next", max) PROVE IInv'
  <2>1. Call(Streamed(Node), "next", max)
    BY <1>1, <1>4, ThroughInput
  <2> QED
    BY <1>1, <2>1, SameHeld, AsksInv
<1> QED
  BY <1>2, <1>3, <1>4

LEMMA LimitRowsInv == ASSUME IInv, Working, LimitRows PROVE IInv'
<1> DEFINE s == [S EXCEPT !.given = @ + Count(reply.batch)]
<1>1. stack # <<>> /\ Top.call = "next" /\ Becomes(s) /\ Return("rows", reply.batch)
  BY DEF LimitRows, Serving, HandUp
<1>2. DOMAIN s = DOMAIN Idle /\ s.cur = S.cur
  BY <1>1, InCall, IdleIs
<1> HIDE DEF s
<1>3. HeldStep
  BY <1>1, <1>2, KeepsHeld
<1> QED
  BY <1>1, <1>3, AnswersInv
-----------------------------------------------------------------------------
(* Operators that read an input to its end as they open.                   *)

\* The input being read has answered, and is called again.
LEMMA DrainsInv ==
    ASSUME IInv, Working, stack # <<>>, Top.call = "open", Node.op \in Drainers, HeldStep,
           Answering, reply.call = "next" \/ reply.node = Drained(Node),
           NEW call \in {"next", "close"}, NEW max, Call(Drained(Node), call, max)
    PROVE  IInv'
<1>1. reply.node = Drained(Node)
  <2>1. Link(Top, reply.node, reply.call) /\ Node = plan[Top.node]
    BY InCall
  <2> QED
    BY <2>1 DEF Link
<1>2. Link(Top, Drained(Node), call)
  BY InCall DEF Link
<1>3. \A m : Below(Top.node, m) => m = Drained(Node) /\ call # "open"
  BY <1>1, BelowTop
<1>4. call \in Calling
  BY DEF Calling
<1> QED
  BY <1>2, <1>3, <1>4, CallStep

\* A node that opens its input with none yet open.
LEMMA OpensInv ==
    ASSUME IInv, Working, stack # <<>>, Top.call = "open", HeldStep,
           ~Answering \/ reply.call = "close", NEW child, Call(child, "open", 0),
           \/ Node.op \in Drainers /\ child = Drained(Node)
           \/ Node.op \in Joins /\ child = Streamed(Node)
    PROVE  IInv'
<1>1. Link(Top, child, "open")
  BY InCall DEF Link, Streams
<1>2. \A m : ~Below(Top.node, m)
  BY NoneBelow
<1>3. "open" \in Calling
  BY DEF Calling
<1> QED
  BY <1>1, <1>2, <1>3, CallStep

LEMMA DrainOpensInv == ASSUME IInv, Working, DrainOpens PROVE IInv'
<1>1. /\ stack # <<>> /\ Top.call = "open" /\ Node.op \in Drainers /\ Asked
      /\ Call(Drained(Node), "open", 0)
  BY DEF DrainOpens, Serving
<1> DEFINE s == IF Node.op # "aggregate" THEN Idle
                ELSE [Idle EXCEPT !.slots = EmptySlots(InitialSlots),
                                  !.rows  = IF Node.group = <<>> THEN <<NewGroup(<<>>, Node.aggs)>> ELSE <<>>]
<1>2. Becomes(s)
  BY DEF DrainOpens
<1>3. DOMAIN s = DOMAIN Idle /\ s.cur = Idle.cur
  BY IdleIs
<1> HIDE DEF s
<1>4. HeldStep
  BY <1>1, <1>2, <1>3, IdleIs, BecomesHeld
<1>5. ~Answering
  BY <1>1 DEF Asked, Answering
<1> QED
  BY <1>1, <1>4, <1>5, OpensInv

LEMMA DrainReadsInv == ASSUME IInv, Working, DrainReads PROVE IInv'
<1>1. /\ stack # <<>> /\ Top.call = "open" /\ Node.op \in Drainers /\ UNCHANGED st
      /\ Answering /\ reply.node = Drained(Node) /\ Call(Drained(Node), "next", Unbounded)
  BY DEF DrainReads, Serving, Back, Answering
<1> QED
  BY <1>1, SameHeld, DrainsInv

LEMMA DrainKeepsInv == ASSUME IInv, Working, DrainKeeps PROVE IInv'
<1>1. /\ stack # <<>> /\ Top.call = "open" /\ Node.op \in Drainers
      /\ Answering /\ reply.call = "next" /\ Call(Drained(Node), "next", Unbounded)
  BY DEF DrainKeeps, Serving, Back, Answering, Drainers
<1> DEFINE rows == Live(reply.batch)
           held == AllHeld(Node, S, rows)
           filed == Picked(rows, {i \in DOMAIN rows : ~NullKey(KeyOf(rows[i], BuildCols(Node)))})
           s == CASE Node.op = "nlj"  -> [S EXCEPT !.rows = @ \o rows]
                  [] Node.op = "hash" -> [S EXCEPT !.rows = @ \o filed]
                  [] Node.op = "sort" -> [S EXCEPT !.rows = held.rows, !.k = held.k]
<1>2. Becomes(s)
  BY DEF DrainKeeps
<1>3. Node.op \in {"nlj", "hash", "sort"}
  BY DEF DrainKeeps, Serving
<1> HIDE DEF rows, held, filed
<1>4. DOMAIN s = DOMAIN Idle /\ s.cur = S.cur
  <2>1. CASE Node.op = "nlj"
    BY <1>1, <2>1, InCall, IdleIs
  <2>2. CASE Node.op = "hash"
    BY <1>1, <2>2, InCall, IdleIs
  <2>3. CASE Node.op = "sort"
    BY <1>1, <2>3, InCall, IdleIs
  <2> QED
    BY <1>3, <2>1, <2>2, <2>3
<1> HIDE DEF s
<1>5. HeldStep
  BY <1>1, <1>2, <1>4, KeepsHeld
<1> QED
  BY <1>1, <1>5, DrainsInv

LEMMA DrainGroupsInv == ASSUME IInv, Working, DrainGroups PROVE IInv'
<1>1. /\ stack # <<>> /\ Top.call = "open" /\ Node.op \in Drainers
      /\ Answering /\ reply.call = "next"
  BY DEF DrainGroups, Serving, Back, Answering, Drainers
<1>2. \/ Throw
      \/ \E r, t : Becomes([S EXCEPT !.rows = r, !.slots = t]) /\ Call(Drained(Node), "next", Unbounded)
  BY DEF DrainGroups
<1>3. ASSUME NEW r, NEW t, Becomes([S EXCEPT !.rows = r, !.slots = t]), Call(Drained(Node), "next", Unbounded)
      PROVE  IInv'
  <2> DEFINE s == [S EXCEPT !.rows = r, !.slots = t]
  <2>1. DOMAIN s = DOMAIN Idle /\ s.cur = S.cur
    BY <1>1, InCall, IdleIs
  <2>2. HeldStep
    BY <1>1, <1>3, <2>1, KeepsHeld
  <2> QED
    BY <1>1, <1>3, <2>2, DrainsInv
<1> QED
  BY <1>1, <1>2, <1>3, ThrowStep

LEMMA DrainClosesInv == ASSUME IInv, Working, DrainCloses PROVE IInv'
<1>1. /\ stack # <<>> /\ Top.call = "open" /\ Node.op \in Drainers
      /\ Answering /\ reply.call = "next" /\ Call(Drained(Node), "close", 0)
  BY DEF DrainCloses, Serving, Back, Answering
<1> DEFINE sorted == Ordered(Node, S.rows)
           s == IF Node.op # "sort" THEN S ELSE [S EXCEPT !.rows = sorted]
<1>2. Becomes(s)
  BY DEF DrainCloses
<1> HIDE DEF sorted
<1>3. DOMAIN s = DOMAIN Idle /\ s.cur = S.cur
  BY <1>1, InCall, IdleIs
<1> HIDE DEF s
<1>4. HeldStep
  BY <1>1, <1>2, <1>3, KeepsHeld
<1> QED
  BY <1>1, <1>4, DrainsInv

LEMMA DrainEndsInv == ASSUME IInv, Working, DrainEnds PROVE IInv'
<1>1. /\ stack # <<>> /\ Top.call = "open" /\ Node.op \in Drainers /\ UNCHANGED st
      /\ Answering /\ reply.call = "close"
      /\ IF Node.op \in Joins THEN Call(Streamed(Node), "open", 0) ELSE Return("done", NoRows)
  BY DEF DrainEnds, Serving, Back, Answering, Done
<1>2. HeldStep
  BY <1>1, SameHeld
<1>3. CASE Node.op \in Joins
  BY <1>1, <1>2, <1>3, OpensInv
<1>4. CASE Node.op \notin Joins
  <2>1. \A m : ~Below(Top.node, m)
    BY <1>1, NoneBelow
  <2> QED
    BY <1>1, <1>2, <1>4, <2>1, ReturnOpen
<1> QED
  BY <1>3, <1>4

LEMMA HandOutInv == ASSUME IInv, Working, HandOut PROVE IInv'
<1>1. stack # <<>> /\ Top.call = "next"
  BY DEF HandOut, Serving
<1>2. \E n : Becomes([S EXCEPT !.given = @ + n])
  BY DEF HandOut
<1>3. \E kind \in {"end", "rows"} : \E b : Return(kind, b)
  BY DEF HandOut, End, HandUp
<1>4. HeldStep
  <2>1. PICK n : Becomes([S EXCEPT !.given = @ + n])
    BY <1>2
  <2> DEFINE s == [S EXCEPT !.given = @ + n]
  <2>2. DOMAIN s = DOMAIN Idle /\ s.cur = S.cur
    BY <1>1, InCall, IdleIs
  <2> QED
    BY <1>1, <2>1, <2>2, KeepsHeld
<1> QED
  BY <1>1, <1>3, <1>4, AnswersInv

LEMMA CloseHeldInv == ASSUME IInv, Working, CloseHeld PROVE IInv'
<1>1. /\ stack # <<>> /\ Top.call = "close" /\ Node.op \in {"aggregate", "sort", "minmax"}
      /\ UNCHANGED st /\ Return("done", NoRows)
  BY DEF CloseHeld, Serving, Done
<1>2. HeldStep
  BY <1>1, SameHeld
<1>3. \A m : ~Below(Top.node, m)
  BY <1>1, NoneBelow DEF Sources
<1>4. st'[Top.node].cur.pin = NoPage
  BY <1>1, InCall DEF Cursored
<1> QED
  BY <1>1, <1>2, <1>3, <1>4, ReturnClosed

LEMMA OpenMinMaxInv == ASSUME IInv, Working, OpenMinMax PROVE IInv'
<1>1. /\ stack # <<>> /\ Top.call = "open" /\ Node.op \in Sources /\ Return("done", NoRows)
  BY DEF OpenMinMax, Serving, Done, Sources
<1>2. \E r : Becomes([Idle EXCEPT !.rows = r])
  BY DEF OpenMinMax
<1>3. HeldStep
  <2>1. PICK r : Becomes([Idle EXCEPT !.rows = r])
    BY <1>2
  <2> DEFINE s == [Idle EXCEPT !.rows = r]
  <2>2. DOMAIN s = DOMAIN Idle /\ s.cur = Idle.cur
    BY IdleIs
  <2> QED
    BY <1>1, <2>1, <2>2, IdleIs, BecomesHeld
<1>4. \A m : ~Below(Top.node, m)
  BY <1>1, NoneBelow
<1> QED
  BY <1>1, <1>3, <1>4, ReturnOpen
-----------------------------------------------------------------------------
(* Joins.                                                                  *)

LEMMA OpenIndexJoinInv == ASSUME IInv, Working, OpenIndexJoin PROVE IInv'
<1>1. /\ stack # <<>> /\ Top.call = "open" /\ Node.op = "inlj" /\ ~Answering
      /\ Becomes([Idle EXCEPT !.cur = CursorOn(Node.tab, Node.innerCol)])
      /\ Call(Streamed(Node), "open", 0)
  BY DEF OpenIndexJoin, Serving, Asked, Answering
<1>2. DOMAIN [Idle EXCEPT !.cur = CursorOn(Node.tab, Node.innerCol)] = DOMAIN Idle
  OBVIOUS
<1>3. HeldStep
  BY <1>1, <1>2, CursorHeld DEF Cursored
<1>4. Node.op \in Joins
  BY <1>1 DEF Joins
<1> QED
  BY <1>1, <1>3, <1>4, OpensInv

LEMMA OpenedJoinInv == ASSUME IInv, Working, OpenedJoin PROVE IInv'
<1>1. /\ stack # <<>> /\ Top.call = "open" /\ Node.op \in Joins /\ UNCHANGED st
      /\ reply.node = Streamed(Node) /\ Return("done", NoRows)
  BY DEF OpenedJoin, Serving, Back, Done
<1>2. HeldStep
  BY <1>1, SameHeld
<1>3. \A m : Below(Top.node, m) => Streams(Top.node, m)
  BY <1>1, InCall, BelowTop DEF Streams
<1> QED
  BY <1>1, <1>2, <1>3, ReturnOpen

LEMMA CloseJoinInv == ASSUME IInv, Working, CloseJoin PROVE IInv'
<1>1. /\ stack # <<>> /\ Top.call = "close" /\ Node.op \in Joins /\ UNCHANGED st
      /\ Call(Streamed(Node), "close", 0)
  BY DEF CloseJoin, Serving
<1>2. HeldStep
  BY <1>1, SameHeld
<1>3. Streams(Top.node, Streamed(Node))
  BY <1>1, InCall DEF Streams
<1>4. Link(Top, Streamed(Node), "close")
  BY <1>1, <1>3 DEF Link
<1>5. \A m : Below(Top.node, m) => m = Streamed(Node) /\ "close" # "open"
  BY <1>1, InCall, BelowTop DEF Streams
<1>6. "close" \in Calling
  BY DEF Calling
<1> QED
  BY <1>1, <1>2, <1>4, <1>5, <1>6, CallStep

LEMMA ClosedJoinInv == ASSUME IInv, Working, ClosedJoin PROVE IInv'
<1>1. /\ stack # <<>> /\ Top.call = "close" /\ Answering
      /\ Becomes([S EXCEPT !.cur = NoCursor]) /\ Return("done", NoRows)
  BY DEF ClosedJoin, Serving, Back, Answering, Done
<1>2. /\ DOMAIN [S EXCEPT !.cur = NoCursor] = DOMAIN Idle
      /\ [S EXCEPT !.cur = NoCursor].cur = NoCursor
  BY <1>1, InCall, IdleIs
<1>3. HeldStep /\ st'[Top.node].cur.pin = NoPage
  BY <1>1, <1>2, BecomesHeld, IdleIs
<1>4. \A m : ~Below(Top.node, m)
  BY <1>1, NoneBelow
<1> QED
  BY <1>1, <1>3, <1>4, ReturnClosed

LEMMA PullInv == ASSUME IInv, Working, Pull PROVE IInv'
<1>1. /\ stack # <<>> /\ Top.call = "next" /\ Node.op \in Joins /\ UNCHANGED st
      /\ Call(Streamed(Node), "next", Unbounded)
  BY DEF Pull, Serving
<1> QED
  BY <1>1, SameHeld, AsksInv

LEMMA PulledInv == ASSUME IInv, Working, Pulled PROVE IInv'
<1> DEFINE s == [S EXCEPT !.in = reply.batch, !.k = 1, !.busy = FALSE]
<1>1. stack # <<>> /\ Top.call = "next" /\ Becomes(s) /\ GoOn
  BY DEF Pulled, Serving
<1>2. DOMAIN s = DOMAIN Idle /\ s.cur = S.cur
  BY <1>1, InCall, IdleIs
<1> HIDE DEF s
<1>3. HeldStep
  BY <1>1, <1>2, KeepsHeld
<1> QED
  BY <1>1, <1>3, AnswersInv

LEMMA EmptiedHeld == ASSUME IInv, stack # <<>>, Becomes([S EXCEPT !.out = <<>>]) PROVE HeldStep
<1> DEFINE s == [S EXCEPT !.out = <<>>]
<1>1. DOMAIN s = DOMAIN Idle /\ s.cur = S.cur
  BY InCall, IdleIs
<1> QED
  BY <1>1, KeepsHeld

LEMMA PulledNoneInv == ASSUME IInv, Working, PulledNone PROVE IInv'
<1>1. stack # <<>> /\ Top.call = "next" /\ Becomes([S EXCEPT !.out = <<>>])
  BY DEF PulledNone, Serving
<1>2. \E kind \in {"end", "rows"} : \E b : Return(kind, b)
  BY DEF PulledNone, End, HandUp
<1> QED
  BY <1>1, <1>2, EmptiedHeld, AnswersInv

\* Walking a row's matches moves no cursor.
LEMMA GatheredHeld ==
    ASSUME IInv, stack # <<>>, NEW joined, NEW hits, Becomes(Gathered(joined, hits))
    PROVE  HeldStep
<1> DEFINE s == Gathered(joined, hits)
<1>1. \E o, b, p, k : s = [S EXCEPT !.out = o, !.busy = b, !.pos = p, !.k = k]
  BY DEF Gathered
<1>2. DOMAIN s = DOMAIN Idle /\ s.cur = S.cur
  BY <1>1, InCall, IdleIs
<1> HIDE DEF s
<1>3. Becomes(s)
  BY DEF s
<1> QED
  BY <1>2, <1>3, KeepsHeld

LEMMA NestedLoopInv == ASSUME IInv, Working, NestedLoop PROVE IInv'
<1>1. stack # <<>> /\ Top.call = "next" /\ GoOn /\ \E joined, hits : Becomes(Gathered(joined, hits))
  BY DEF NestedLoop, Serving
<1>2. HeldStep
  BY <1>1, GatheredHeld
<1> QED
  BY <1>1, <1>2, AnswersInv

\* A row of the streamed side that has no matches.
LEMMA SkippedHeld == ASSUME IInv, stack # <<>>, Becomes([S EXCEPT !.k = @ + 1]) PROVE HeldStep
<1> DEFINE s == [S EXCEPT !.k = @ + 1]
<1>1. DOMAIN s = DOMAIN Idle /\ s.cur = S.cur
  BY InCall, IdleIs
<1> QED
  BY <1>1, KeepsHeld

LEMMA HashProbeInv == ASSUME IInv, Working, HashProbe PROVE IInv'
<1>1. stack # <<>> /\ Top.call = "next" /\ GoOn
  BY DEF HashProbe, Serving
<1>2. Becomes([S EXCEPT !.k = @ + 1]) \/ \E joined, hits : Becomes(Gathered(joined, hits))
  BY DEF HashProbe
<1>3. HeldStep
  BY <1>1, <1>2, SkippedHeld, GatheredHeld
<1> QED
  BY <1>1, <1>3, AnswersInv

LEMMA IndexSearchInv == ASSUME IInv, Working, IndexSearch PROVE IInv'
<1>1. stack # <<>> /\ Top.call = "next" /\ Node.op \in Cursored /\ GoOn
  BY DEF IndexSearch, Serving, Cursored
<1>2. \/ Becomes([S EXCEPT !.k = @ + 1])
      \/ \E c, b, k, o : Becomes([S EXCEPT !.cur = c, !.busy = b, !.k = k, !.out = o])
  BY DEF IndexSearch
<1>3. HeldStep
  <2>1. ASSUME NEW c, NEW b, NEW k, NEW o, Becomes([S EXCEPT !.cur = c, !.busy = b, !.k = k, !.out = o])
        PROVE  HeldStep
    <3>1. DOMAIN [S EXCEPT !.cur = c, !.busy = b, !.k = k, !.out = o] = DOMAIN Idle
      BY <1>1, InCall
    <3> QED
      BY <1>1, <2>1, <3>1, CursorHeld
  <2> QED
    BY <1>1, <1>2, <2>1, SkippedHeld
<1> QED
  BY <1>1, <1>3, AnswersInv

LEMMA JoinHandsInv == ASSUME IInv, Working, JoinHands PROVE IInv'
<1>1. stack # <<>> /\ Top.call = "next" /\ Becomes([S EXCEPT !.out = <<>>])
  BY DEF JoinHands, Serving
<1>2. GoOn \/ \E b : Return("rows", b)
  BY DEF JoinHands, HandUp
<1> QED
  BY <1>1, <1>2, EmptiedHeld, AnswersInv

LEMMA NestedLoopHandsInv == ASSUME IInv, Working, NestedLoopHands PROVE IInv'
<1>1. stack # <<>> /\ Top.call = "next" /\ Becomes([S EXCEPT !.out = <<>>])
  BY DEF NestedLoopHands, Serving
<1>2. \E b : Return("rows", b)
  BY DEF NestedLoopHands, HandUp
<1> QED
  BY <1>1, <1>2, EmptiedHeld, AnswersInv

LEMMA WorkInv == ASSUME IInv, Work PROVE IInv'
<1>1. OperatorStep /\ Working
  BY DEF Work, Working, OperatorStep
<1> QED
  BY <1>1, OpenSourceInv, CloseSourceInv, ScanInv, LookupInv, PassDownInv, PassUpInv, ExhaustedInv,
     AskInv, FilterRowsInv, ProjectRowsInv, LimitAsksInv, LimitRowsInv, DrainOpensInv, DrainReadsInv,
     DrainKeepsInv, DrainGroupsInv, DrainClosesInv, DrainEndsInv, HandOutInv, CloseHeldInv,
     OpenMinMaxInv, OpenIndexJoinInv, OpenedJoinInv, CloseJoinInv, ClosedJoinInv, PullInv, PulledInv,
     PulledNoneInv, NestedLoopInv, HashProbeInv, IndexSearchInv, JoinHandsInv, NestedLoopHandsInv
     DEF OperatorStep
-----------------------------------------------------------------------------
(* The query's steps.                                                      *)

LEMMA EmptyStack ==
    ASSUME stack = <<>>
    PROVE  OnStack = {} /\ FramesInv
BY EmptyIsSeq DEF OnStack, FramesInv

LEMMA RootIs == ASSUME Tree(plan) PROVE Root \in DOMAIN plan /\ Root \in Nat
BY SeqIs DEF Tree, Root

\* A query at rest pins nothing, and nothing is open.
LEMMA AtRest ==
    ASSUME stack = <<>>, reply.kind = "none", Pinning = {}
    PROVE  FramesInv /\ ReplyInv /\ Opened({}) /\ OpenInv
<1>1. OnStack = {} /\ FramesInv
  BY EmptyStack
<1>2. ReplyInv
  BY DEF ReplyInv, Answering
<1>3. Opened({})
  BY <1>1 DEF Opened
<1> QED
  BY <1>1, <1>2, <1>3 DEF OpenInv

LEMMA InitInv == Init => IInv
<1> SUFFICES ASSUME Init PROVE IInv
  OBVIOUS
<1>1. /\ stack = <<>> /\ reply.kind = "none" /\ plan = <<>> /\ st = <<>> /\ status = "new"
      /\ \E d \in DOMAIN Databases : query \in Queries[d]
  BY DEF Init, NoReply
<1>2. Pinning = {} /\ HeldInv
  BY <1>1, EmptyIsSeq DEF Pinning, HeldInv
<1> QED
  BY <1>1, <1>2, AtRest DEF IInv, PlanInv

LEMMA PlanStepInv == ASSUME IInv, Plan PROVE IInv'
<1>1. PICK p \in Plans(query) : plan' = p /\ st' = [n \in DOMAIN p |-> Idle]
  BY DEF Plan
<1>2. status = "new" /\ status' = "planned" /\ query' = query /\ stack' = stack /\ reply' = reply
  BY DEF Plan
<1>3. stack = <<>> /\ reply.kind = "none" /\ \E d \in DOMAIN Databases : query \in Queries[d]
  BY <1>2 DEF IInv, PlanInv
<1>4. query.tables \in Seq(Nat) /\ query.tables # <<>>
  <2>1. PICK d \in DOMAIN Databases : query \in Queries[d]
    BY <1>3
  <2>2. DOMAIN Databases[d] \subseteq Nat
    BY TablesHaveTrees
  <2>3. query.tables \in Seq(DOMAIN Databases[d]) /\ query.tables # <<>>
    BY <2>1, QueriesNameTables
  <2> QED
    BY <2>2, <2>3
<1>5. Tree(p)
  BY <1>4, PlansAreTrees
<1>6. Pinning' = {} /\ HeldInv'
  <2>1. DOMAIN st' = DOMAIN p /\ \A n \in DOMAIN p : st'[n] = Idle
    BY <1>1
  <2> QED
    BY <1>1, <2>1, IdleIs DEF Pinning, HeldInv
<1>7. PlanInv'
  BY <1>1, <1>2, <1>3, <1>5, <1>6 DEF PlanInv, Tree
<1>8. FramesInv' /\ ReplyInv' /\ OpenInv'
  <2>1. stack' = <<>> /\ reply'.kind = "none"
    BY <1>2, <1>3
  <2>2. OnStack' = {} /\ FramesInv'
    BY <2>1, EmptyIsSeq DEF OnStack, FramesInv
  <2>3. ReplyInv'
    BY <2>1 DEF ReplyInv, Answering
  <2>4. Opened({})'
    BY <1>6, <2>2 DEF Opened
  <2> QED
    BY <2>2, <2>3, <2>4 DEF OpenInv
<1> QED
  BY <1>6, <1>7, <1>8 DEF IInv

\* The query calls its root.
LEMMA RootCallInv ==
    ASSUME IInv, status # "new", stack = <<>>, status' = "running", UNCHANGED <<query, plan, st>>,
           NEW call \in Calling, NEW max, Call(Root, call, max), call = "open" => Pinning = {}
    PROVE  IInv'
<1> DEFINE f == [node |-> Root, call |-> call, max |-> max]
<1>1. /\ stack' = Append(stack, f) /\ reply' = NoReply /\ plan' = plan /\ query' = query /\ st' = st
  BY DEF Call
<1>2. Tree(plan) /\ (\E d \in DOMAIN Databases : query \in Queries[d])
  BY DEF IInv, PlanInv
<1>3. Root \in DOMAIN plan /\ Root' = Root
  BY <1>1, <1>2, RootIs DEF Root
<1>4. /\ IsSeq(stack') /\ Len(stack') = 1 /\ stack'[1] = f /\ Top' = f
  <2>1. IsSeq(stack) /\ Len(stack) + 1 = 1
    BY EmptyIsSeq
  <2> HIDE DEF f
  <2>2. /\ IsSeq(stack') /\ Len(stack') = Len(stack) + 1
        /\ stack'[Len(stack) + 1] = f /\ Last(stack') = f
    BY <1>1, <2>1, AppendIs
  <2> QED
    BY <2>1, <2>2 DEF Top
<1>5. DOMAIN stack' = {1} /\ stack' # <<>>
  BY <1>4, SeqIs
<1>6. f.node = Root /\ f.call = call
  OBVIOUS
<1> HIDE DEF f
<1>7. OnStack' = {Root}
  BY <1>4, <1>5, <1>6 DEF OnStack
<1>8. FramesInv'
  BY <1>1, <1>3, <1>4, <1>5, <1>6 DEF FramesInv
<1>9. ~Answering' /\ ReplyInv'
  BY <1>1 DEF Answering, ReplyInv, NoReply
<1>10. Pinning' = Pinning /\ HeldInv'
  BY <1>1 DEF Pinning, IInv, HeldInv
<1>11. PlanInv'
  BY <1>1, <1>2 DEF PlanInv, Tree
<1>12. PICK L \in SUBSET (DOMAIN plan) : Opened(L) /\ (call = "open" => L = {})
  <2>1. CASE call = "open"
    <3>1. Opened({})
      BY <2>1, EmptyStack DEF Opened
    <3> QED
      BY <3>1
  <2>2. CASE call # "open"
    BY <2>2 DEF IInv, OpenInv
  <2> QED
    BY <2>1, <2>2
<1>13. Opened(L \cup {Root})'
  <2>1. L \cup {Root} \subseteq DOMAIN plan' /\ OnStack' \subseteq L \cup {Root} /\ Pinning' \subseteq L \cup {Root}
    BY <1>1, <1>3, <1>7, <1>10, <1>12 DEF Opened
  <2>2. ASSUME NEW m \in L \cup {Root}, m # Root
        PROVE  \E p \in L \cup {Root} : Below(p, m)'
    <3>1. m \in L /\ OnStack = {}
      BY <2>2, EmptyStack
    <3>2. PICK p \in L : Below(p, m)
      BY <1>12, <2>2, <3>1 DEF Opened
    <3>3. m \in Ins(plan[p]) /\ Streams(p, m)
      BY <3>1, <3>2 DEF Below
    <3>4. call # "open"
      BY <1>12, <3>1
    <3>5. Below(p, m)'
      BY <1>1, <1>4, <1>6, <1>7, <1>9, <3>3, <3>4 DEF Below, Streams
    <3> QED
      BY <3>5
  <2> QED
    BY <1>1, <1>3, <1>7, <2>1, <2>2 DEF Opened
<1>14. OpenInv'
  BY <1>1, <1>3, <1>13 DEF OpenInv
<1> QED
  BY <1>8, <1>9, <1>10, <1>11, <1>14 DEF IInv

\* When the root has closed there is nothing open: what is open last would be below
\* another that is.
LEMMA ClosedAll ==
    ASSUME IInv, stack = <<>>, Answering, reply.call = "close", Tree(plan)
    PROVE  Pinning = {}
<1>1. PICK L \in SUBSET (DOMAIN plan) : Opened(L)
  BY DEF IInv, OpenInv
<1> SUFFICES ASSUME L # {} PROVE FALSE
  BY <1>1 DEF Opened
<1>2. Root \in Nat /\ DOMAIN plan = 1..Root
  BY RootIs, NodeFacts
<1> DEFINE T == {Root - m : m \in L}
<1>3. T \in SUBSET Nat /\ T # {}
  BY <1>2
<1>4. PICK x \in T : \A y \in T : x <= y
  BY <1>3, LeastOf
<1>5. PICK m \in L : x = Root - m
  BY <1>4
<1>6. PICK p \in L : Below(p, m)
  BY <1>1, EmptyStack DEF Opened
<1>7. m < p
  BY <1>2, <1>6, NodeFacts DEF Below
<1>8. Root - m <= Root - p
  BY <1>4, <1>5
<1> QED
  BY <1>2, <1>7, <1>8

LEMMA TakeInv == ASSUME IInv, Take PROVE IInv'
<1>1. /\ status = "running" /\ status' = status /\ stack = <<>> /\ UNCHANGED <<query, plan, st>>
      /\ Call(Root, "next", Unbounded)
  BY DEF Take
<1>2. "next" \in Calling
  BY DEF Calling
<1> QED
  BY <1>1, <1>2, RootCallInv

LEMMA CloseInv == ASSUME IInv, Close PROVE IInv'
<1>1. /\ status = "running" /\ status' = status /\ stack = <<>> /\ UNCHANGED <<query, plan, st>>
      /\ Call(Root, "close", 0)
  BY DEF Close
<1>2. "close" \in Calling
  BY DEF Calling
<1> QED
  BY <1>1, <1>2, RootCallInv

LEMMA OpenInvStep == ASSUME IInv, Open PROVE IInv'
<1>1. /\ status = "planned" /\ status' = "running" /\ UNCHANGED <<query, plan, st>>
      /\ Call(Root, "open", 0)
  BY DEF Open
<1>2. stack = <<>> /\ Pinning = {}
  BY <1>1 DEF IInv, PlanInv
<1>3. "open" \in Calling
  BY DEF Calling
<1> QED
  BY <1>1, <1>2, <1>3, RootCallInv

\* The query ends, with nothing pinned.
LEMMA EndInv ==
    ASSUME IInv, status = "running", status' \in {"done", "failed"}, stack = <<>>, Pinning = {},
           reply' = NoReply, UNCHANGED <<query, plan, st, stack>>
    PROVE  IInv'
<1>1. Tree(plan) /\ (\E d \in DOMAIN Databases : query \in Queries[d])
  BY DEF IInv, PlanInv
<1>2. Pinning' = {} /\ HeldInv' /\ reply'.kind = "none" /\ stack' = <<>>
  BY DEF Pinning, IInv, HeldInv, NoReply
<1>3. PlanInv'
  BY <1>1, <1>2 DEF PlanInv, Tree
<1>4. OnStack' = {} /\ FramesInv'
  BY <1>2, EmptyIsSeq DEF OnStack, FramesInv
<1>5. ReplyInv'
  BY <1>2 DEF ReplyInv, Answering
<1>6. Opened({})'
  BY <1>2, <1>4 DEF Opened
<1> QED
  BY <1>2, <1>3, <1>4, <1>5, <1>6 DEF IInv, OpenInv

LEMMA FinishInv == ASSUME IInv, Finish PROVE IInv'
<1>1. /\ status = "running" /\ status' = "done" /\ stack = <<>> /\ Answering /\ reply.call = "close"
      /\ reply' = NoReply /\ UNCHANGED <<query, plan, st, stack>>
  BY DEF Finish, Back, Answering
<1>2. Tree(plan)
  BY <1>1 DEF IInv, PlanInv
<1>3. Pinning = {}
  BY <1>1, <1>2, ClosedAll
<1> QED
  BY <1>1, <1>3, EndInv

LEMMA FailInv == ASSUME IInv, Fail PROVE IInv'
<1>1. /\ status = "running" /\ status' = "failed" /\ reply.kind = "error"
      /\ reply' = NoReply /\ UNCHANGED <<query, plan, st, stack>>
  BY DEF Fail
<1>2. stack = <<>> /\ Pinning = {}
  BY <1>1 DEF IInv, ReplyInv
<1> QED
  BY <1>1, <1>2, EndInv

LEMMA SameInv == ASSUME IInv, UNCHANGED vars PROVE IInv'
BY DEF vars, opVars, IInv, PlanInv, HeldInv, FramesInv, ReplyInv, OpenInv, Opened, OnStack, Pinning,
       Answering, Below, Link, Streams, Tree, Top, Root

\* The plan is a tree, and from call to call the nodes that may pin are those under way
\* and those open below them.
THEOREM QueryInductive == Spec => []IInv
<1>1. Init => IInv
  BY InitInv
<1>2. IInv /\ [Next]_vars => IInv'
  BY PlanStepInv, OpenInvStep, TakeInv, CloseInv, FinishInv, FailInv, WorkInv, SameInv DEF Next, Stopped
<1> QED
  BY <1>1, <1>2, PTL DEF Spec

\* However a query ends, its plan is kept and no page stays pinned for it (operator.cpp:
\* every close, run_select of executor.cpp).
THEOREM QueryNoPinOutlives == Spec => []NoPinOutlives
<1>1. IInv => NoPinOutlives
  BY DEF IInv, PlanInv, NoPinOutlives
<1> QED
  BY <1>1, QueryInductive, PTL
-----------------------------------------------------------------------------
(* How many pages a plan pins: what is open is a branch, with one end.     *)

\* A frame's node is read by the node of the frame below, and by no other.
LEMMA Caller ==
    ASSUME IInv, Tree(plan), NEW i \in DOMAIN stack, i # 1
    PROVE  /\ i \in Nat /\ i - 1 \in DOMAIN stack /\ stack[i - 1].node \in DOMAIN plan
           /\ stack[i].node \in Ins(plan[stack[i - 1].node])
<1>1. i \in Nat /\ i > 1 /\ i - 1 \in DOMAIN stack
  <2>1. IsSeq(stack)
    BY DEF IInv, FramesInv
  <2> QED
    BY <2>1, SeqIs
<1>2. /\ Link(stack[i - 1], stack[i].node, stack[i].call)
      /\ stack[i - 1].node \in DOMAIN plan /\ stack[i - 1].call \in Calling
  BY <1>1 DEF IInv, FramesInv
<1> QED
  BY <1>1, <1>2, LinkIns

LEMMA CallerReads ==
    ASSUME IInv, Tree(plan), NEW i \in DOMAIN stack, NEW p \in DOMAIN plan, stack[i].node \in Ins(plan[p])
    PROVE  i \in Nat /\ i - 1 \in DOMAIN stack /\ stack[i - 1].node = p
<1>1. stack[i].node # Root
  BY NodeFacts, RootIs
<1>2. i # 1
  BY <1>1 DEF IInv, FramesInv
<1> QED
  BY <1>2, Caller, OneReader

\* No node has two frames.
LEMMA OneFrame ==
    ASSUME IInv, Tree(plan), NEW i \in DOMAIN stack, NEW j \in DOMAIN stack, stack[i].node = stack[j].node
    PROVE  i = j
<1>1. Len(stack) \in Nat /\ DOMAIN stack = 1..Len(stack)
  BY SeqIs DEF IInv, FramesInv
<1>2. ASSUME NEW k \in DOMAIN stack, NEW l \in DOMAIN stack, l < k PROVE stack[k].node # stack[l].node
  <2>1. l \in 1..(k - 1)
    BY <1>1, <1>2
  <2>2. stack[k].node < stack[l].node
    BY <2>1 DEF IInv, FramesInv
  <2>3. stack[k].node \in Nat /\ stack[l].node \in Nat
    BY NodeFacts DEF IInv, FramesInv
  <2> QED
    BY <2>2, <2>3
<1>3. ~(i < j) /\ ~(j < i)
  BY <1>2
<1> QED
  BY <1>1, <1>3

\* Every node that is open, but the root, is read by one that is open.
LEMMA HasReader ==
    ASSUME IInv, Tree(plan), NEW L \in SUBSET (DOMAIN plan), Opened(L), NEW m \in L, m # Root
    PROVE  \E p \in L : m \in Ins(plan[p])
<1>1. CASE m \in OnStack
  <2>1. PICK i \in DOMAIN stack : m = stack[i].node
    BY <1>1 DEF OnStack
  <2>2. i # 1
    BY <2>1 DEF IInv, FramesInv
  <2>3. i - 1 \in DOMAIN stack /\ m \in Ins(plan[stack[i - 1].node])
    BY <2>1, <2>2, Caller
  <2>4. stack[i - 1].node \in L
    BY <2>3 DEF Opened, OnStack
  <2> QED
    BY <2>3, <2>4
<1>2. CASE m \notin OnStack
  BY <1>2 DEF Opened, Below
<1> QED
  BY <1>1, <1>2

\* No two of those that one reads are open at once.
LEMMA OneOpen ==
    ASSUME IInv, Tree(plan), NEW L \in SUBSET (DOMAIN plan), Opened(L), NEW p \in L,
           NEW m \in L, NEW n \in L, m \in Ins(plan[p]), n \in Ins(plan[p])
    PROVE  m = n
<1>1. ASSUME NEW x \in L, x \in Ins(plan[p]), x \notin OnStack PROVE Below(p, x)
  <2>1. x # Root
    BY <1>1, NodeFacts, RootIs
  <2>2. PICK r \in L : Below(r, x)
    BY <1>1, <2>1 DEF Opened
  <2>3. r = p
    BY <1>1, <2>2, OneReader DEF Below
  <2> QED
    BY <2>2, <2>3
<1>2. CASE m \in OnStack /\ n \in OnStack
  <2>1. PICK i \in DOMAIN stack : m = stack[i].node
    BY <1>2 DEF OnStack
  <2>2. PICK j \in DOMAIN stack : n = stack[j].node
    BY <1>2 DEF OnStack
  <2>3. /\ i \in Nat /\ i - 1 \in DOMAIN stack /\ stack[i - 1].node = p
        /\ j \in Nat /\ j - 1 \in DOMAIN stack /\ stack[j - 1].node = p
    BY <2>1, <2>2, CallerReads
  <2>4. i - 1 = j - 1
    BY <2>3, OneFrame
  <2> QED
    BY <2>1, <2>2, <2>3, <2>4
<1>3. ASSUME NEW x \in L, NEW y \in L, x \in Ins(plan[p]), y \in Ins(plan[p]), x \in OnStack, y \notin OnStack
      PROVE  FALSE
  <2>1. Below(p, y)
    BY <1>1, <1>3
  <2>2. PICK i \in DOMAIN stack : x = stack[i].node
    BY <1>3 DEF OnStack
  <2>3. i \in Nat /\ i - 1 \in DOMAIN stack /\ stack[i - 1].node = p
    BY <1>3, <2>2, CallerReads
  <2>4. p \in OnStack
    BY <2>3 DEF OnStack
  <2>5. stack # <<>> /\ Len(stack) \in Nat /\ DOMAIN stack = 1..Len(stack)
    BY <2>4, EmptyStack, SeqIs DEF IInv, FramesInv
  <2>6. p = stack[Len(stack)].node /\ Len(stack) \in DOMAIN stack
    BY <2>1, <2>4, <2>5, InCall DEF Below
  <2>7. i - 1 = Len(stack)
    BY <2>3, <2>6, OneFrame
  <2> QED
    BY <2>3, <2>5, <2>7
<1>4. CASE m \notin OnStack /\ n \notin OnStack
  <2>1. Below(p, m) /\ Below(p, n)
    BY <1>1, <1>4
  <2>2. CASE p \notin OnStack
    BY <2>1, <2>2 DEF Below, Streams
  <2>3. CASE p \in OnStack
    <3>1. p = Top.node /\ stack # <<>>
      BY <2>1, <2>3, EmptyStack DEF Below
    <3>2. Top.call \in Calling
      BY <3>1, InCall
    <3>3. \/ Top.call = "open" /\ reply.node = m /\ reply.node = n
          \/ Streams(p, m) /\ Streams(p, n)
      BY <2>1, <2>3, <3>2 DEF Below, Calling
    <3> QED
      BY <3>3 DEF Streams
  <2> QED
    BY <2>2, <2>3
<1> QED
  BY <1>2, <1>3, <1>4

\* Of the nodes that read none, one at most is open.
LEMMA OneEnd ==
    ASSUME IInv, Tree(plan), NEW L \in SUBSET (DOMAIN plan), Opened(L),
           NEW a \in L, NEW b \in L, Ins(plan[a]) = {}, Ins(plan[b]) = {}
    PROVE  a = b
<1> SUFFICES ASSUME a # b PROVE FALSE
  OBVIOUS
<1> DEFINE A == L \ {Root}
           B == (L \ {a}) \ {b}
           f == [m \in A |-> CHOOSE p \in L : m \in Ins(plan[p])]
<1>1. \A m \in A : f[m] \in L /\ m \in Ins(plan[f[m]])
  BY HasReader
<1>2. f \in [A -> B]
  <2>1. \A m \in A : f[m] \in B
    BY <1>1
  <2> QED
    BY <2>1
<1>3. \A m, n \in A : f[m] = f[n] => m = n
  BY <1>1, OneOpen
<1>4. IsFiniteSet(L)
  <2>1. DOMAIN plan = 1..Root /\ Root \in Nat
    BY RootIs, NodeFacts
  <2>2. IsFiniteSet(1..Root)
    BY <2>1, FS_Interval
  <2> QED
    BY <2>1, <2>2, FS_Subset
<1>5. IsFiniteSet(A) /\ Cardinality(A) >= Cardinality(L) - 1 /\ Cardinality(L) \in Nat
  <2>1. Cardinality(L) \in Nat
    BY <1>4, FS_CardinalityType
  <2>2. /\ IsFiniteSet(L \ {Root})
        /\ Cardinality(L \ {Root}) = IF Root \in L THEN Cardinality(L) - 1 ELSE Cardinality(L)
    BY <1>4, FS_RemoveElement
  <2> QED
    BY <2>1, <2>2
<1>6. IsFiniteSet(L \ {a}) /\ Cardinality(L \ {a}) = Cardinality(L) - 1
  BY <1>4, FS_RemoveElement
<1>7. b \in L \ {a}
  OBVIOUS
<1>8. IsFiniteSet(B) /\ Cardinality(B) = Cardinality(L) - 2
  <2>1. IsFiniteSet(B) /\ Cardinality(B) = Cardinality(L \ {a}) - 1
    BY <1>6, <1>7, FS_RemoveElement
  <2> HIDE DEF B
  <2> QED
    BY <1>5, <1>6, <2>1
<1>9. Cardinality(B) < Cardinality(A)
  BY <1>5, <1>8, FS_CardinalityType
<1> HIDE DEF A, B, f
<1>10. \E m, n \in A : m # n /\ f[m] = f[n]
  BY <1>2, <1>5, <1>8, <1>9, FS_PigeonHole
<1> QED
  BY <1>3, <1>10

LEMMA PinsFew == ASSUME IInv PROVE PinsBounded
<1> DEFINE I == {n \in DOMAIN plan : plan[n].op = "inlj"}
           C == Pinning \ I
<1>0. CASE plan = <<>>
  <2>1. Pinning = {} /\ I = {}
    BY <1>0, EmptyIsSeq DEF IInv, HeldInv, Pinning
  <2>2. Cardinality({}) = 0
    BY FS_EmptySet
  <2> HIDE DEF I
  <2>3. Cardinality(Pinning) <= 1 + Cardinality(I)
    BY <2>1, <2>2
  <2> QED
    BY <2>3 DEF PinsBounded, I
<1>1. CASE plan # <<>>
  <2>1. Tree(plan)
    BY <1>1 DEF IInv, PlanInv
  <2>2. PICK L \in SUBSET (DOMAIN plan) : Opened(L)
    BY DEF IInv, OpenInv
  <2>3. Pinning \subseteq L /\ Pinning \subseteq DOMAIN plan
    BY <2>2 DEF Opened
  <2>4. \A n \in C : n \in L /\ Ins(plan[n]) = {}
    <3> SUFFICES ASSUME NEW n \in C PROVE Ins(plan[n]) = {}
      BY <2>3
    <3>1. n \in DOMAIN plan /\ plan[n].op \in Cursored /\ plan[n].op # "inlj"
      BY <2>3 DEF IInv, HeldInv, Pinning
    <3>2. plan[n].op \in Sources
      BY <3>1 DEF Cursored, Sources
    <3> QED
      BY <2>1, <3>1, <3>2, NodeFacts
  <2>5. \A a, b \in C : a = b
    BY <2>1, <2>2, <2>4, OneEnd
  <2>6. IsFiniteSet(I)
    <3>1. DOMAIN plan = 1..Root /\ Root \in Nat
      BY <2>1, RootIs, NodeFacts
    <3>2. IsFiniteSet(1..Root)
      BY <3>1, FS_Interval
    <3> QED
      BY <3>1, <3>2, FS_Subset
  <2>7. \E x : Pinning \subseteq I \cup {x}
    BY <2>5
  <2>8. PICK x : Pinning \subseteq I \cup {x}
    BY <2>7
  <2> HIDE DEF I
  <2>9. IsFiniteSet(I \cup {x}) /\ Cardinality(I \cup {x}) <= 1 + Cardinality(I) /\ Cardinality(I) \in Nat
    BY <2>6, FS_AddElement, FS_CardinalityType
  <2>10. Cardinality(Pinning) <= Cardinality(I \cup {x}) /\ Cardinality(Pinning) \in Nat
    BY <2>8, <2>9, FS_Subset, FS_CardinalityType
  <2>11. Cardinality(I \cup {x}) \in Nat
    BY <2>9, FS_CardinalityType
  <2>12. Cardinality(Pinning) <= 1 + Cardinality(I)
    BY <2>9, <2>10, <2>11
  <2> QED
    BY <2>12 DEF PinsBounded, I
<1> QED
  BY <1>0, <1>1

\* A plan pins no more than one page for the scan at its end and one for each index its
\* joins search, however deep it is and whatever has been called (operator.cpp: an
\* input read to its end is closed before the next is opened).
THEOREM QueryPinsBounded == Spec => []PinsBounded
BY QueryInductive, PinsFew, PTL
-----------------------------------------------------------------------------
(* What the nodes of a plan name is there: the tables and the trees that   *)
(* they read, and the rows that a limit allows.                            *)

\* An operator that reads a tree names one of the database.
Fit(node) ==
    /\ "op" \in DOMAIN node
    /\ node.op \in {"seqscan", "lookup", "indexscan", "inlj"} => "tab" \in DOMAIN node /\ node.tab \in DOMAIN database
    /\ node.op = "indexscan" => "col" \in DOMAIN node /\ node.col \in DOMAIN database[node.tab].trees
    /\ node.op = "inlj" => "innerCol" \in DOMAIN node /\ node.innerCol \in DOMAIN database[node.tab].trees
    /\ node.op = "limit" => "n" \in DOMAIN node /\ node.n \in Nat

\* So does every operator of p, and none of them is a limit.
Fitted(p) == Tree(p) /\ \A n \in DOMAIN p : Fit(p[n]) /\ p[n].op # "limit"

LEMMA FitKept ==
    ASSUME NEW node, Fit(node), NEW w, DOMAIN node \subseteq DOMAIN w, \A f \in DOMAIN node \ {"in"} : w[f] = node[f]
    PROVE  Fit(w) /\ w.op = node.op
<1>1. w.op = node.op
  BY DEF Fit
<1>2. "tab" \in DOMAIN node => w.tab = node.tab
  OBVIOUS
<1>3. "col" \in DOMAIN node => w.col = node.col
  OBVIOUS
<1>4. "innerCol" \in DOMAIN node => w.innerCol = node.innerCol
  OBVIOUS
<1>5. "n" \in DOMAIN node => w.n = node.n
  OBVIOUS
<1> QED
  BY <1>1, <1>2, <1>3, <1>4, <1>5 DEF Fit

LEMMA ReadingFit ==
    ASSUME NEW node, Fit(node), NEW ins
    PROVE  Fit(Reading(node, ins)) /\ Reading(node, ins).op = node.op
<1> DEFINE w == Reading(node, ins)
<1>1. DOMAIN node \subseteq DOMAIN w /\ \A f \in DOMAIN node \ {"in"} : w[f] = node[f]
  BY ReadingIs
<1> HIDE DEF w
<1>2. Fit(w) /\ w.op = node.op
  BY <1>1, FitKept
<1> QED
  BY <1>2 DEF w

LEMMA OverIs ==
    ASSUME NEW p, Tree(p), NEW node
    PROVE  /\ Len(p) \in Nat \ {0} /\ DOMAIN p = 1..Len(p)
           /\ IsSeq(Over(p, node)) /\ Len(Over(p, node)) = Len(p) + 1
           /\ DOMAIN Over(p, node) = 1..(Len(p) + 1)
           /\ \A n \in 1..Len(p) : Over(p, node)[n] = p[n]
           /\ Over(p, node)[Len(p) + 1] = Reading(node, <<Len(p)>>)
<1> DEFINE N == Len(p)
           r == Reading(node, <<N>>)
           o == Over(p, node)
<1>1. IsSeq(p) /\ N \in Nat \ {0} /\ DOMAIN p = 1..N
  BY SeqIs DEF Tree
<1>2. o = Append(p, r)
  BY DEF Over
<1>3. /\ IsSeq(o) /\ o # <<>> /\ Len(o) = N + 1 /\ o[N + 1] = r
      /\ \A n \in 1..N : o[n] = p[n]
  BY <1>1, <1>2, AppendIs
<1>4. DOMAIN o = 1..Len(o)
  BY <1>3, SeqIs
<1> QED
  BY <1>1, <1>3, <1>4

LEMMA OverBelow ==
    ASSUME NEW p, Fitted(p), NEW node, Plain(node, Single), Fit(node), node.op # "limit"
    PROVE  Fitted(Over(p, node))
<1>1. Tree(p) /\ Tree(Over(p, node))
  BY OverTree DEF Fitted
<1>2. /\ DOMAIN p = 1..Len(p) /\ Len(p) \in Nat
      /\ DOMAIN Over(p, node) = 1..(Len(p) + 1)
      /\ \A n \in 1..Len(p) : Over(p, node)[n] = p[n]
      /\ Over(p, node)[Len(p) + 1] = Reading(node, <<Len(p)>>)
  BY <1>1, OverIs
<1>3. Fit(Reading(node, <<Len(p)>>)) /\ Reading(node, <<Len(p)>>).op # "limit"
  BY ReadingFit
<1>4. ASSUME NEW n \in 1..(Len(p) + 1) PROVE Fit(Over(p, node)[n]) /\ Over(p, node)[n].op # "limit"
  <2>1. n \in 1..Len(p) \/ n = Len(p) + 1
    BY <1>2
  <2> QED
    BY <1>2, <1>3, <2>1 DEF Fitted
<1> QED
  BY <1>1, <1>2, <1>4 DEF Fitted

LEMMA SourceBelow ==
    ASSUME NEW node, Plain(node, Sources), Fit(node)
    PROVE  Fitted(Source(node))
<1> DEFINE r == Reading(node, <<>>)
<1>1. Tree(Source(node)) /\ Source(node) = <<r>> /\ DOMAIN <<r>> = {1} /\ <<r>>[1] = r
  BY SourceTree DEF Source
<1>2. Fit(r) /\ r.op = node.op
  BY ReadingFit
<1>3. node.op # "limit"
  BY DEF Plain, Sources
<1> HIDE DEF r
<1> QED
  BY <1>1, <1>2, <1>3 DEF Fitted

\* What is over two plans: the first, the second moved up, and the node.
LEMMA OverTwoIs ==
    ASSUME NEW l, Tree(l), NEW r, Tree(r), NEW node
    PROVE  /\ DOMAIN l = 1..Len(l) /\ DOMAIN r = 1..Len(r) /\ Len(l) \in Nat /\ Len(r) \in Nat
           /\ DOMAIN OverTwo(l, r, node) = 1..(Len(l) + Len(r) + 1)
           /\ \A n \in 1..Len(l) : OverTwo(l, r, node)[n] = l[n]
           /\ \A n \in 1..Len(r) : OverTwo(l, r, node)[Len(l) + n] = Shifted(r[n], Len(l))
           /\ OverTwo(l, r, node)[Len(l) + Len(r) + 1] = Reading(node, <<Len(l), Len(l) + Len(r)>>)
<1> DEFINE L == Len(l)
           R == Len(r)
           N == L + R
           sh == [i \in DOMAIN r |-> Shifted(r[i], L)]
           x == Reading(node, <<L, N>>)
           o == OverTwo(l, r, node)
<1>1. /\ IsSeq(l) /\ L \in Nat /\ DOMAIN l = 1..L
      /\ IsSeq(r) /\ R \in Nat /\ DOMAIN r = 1..R
  BY SeqIs DEF Tree
<1>2. o = (l \o sh) \o <<x>>
  BY DEF OverTwo, Shifted
<1>3. IsSeq(sh) /\ Len(sh) = R /\ \A i \in 1..R : sh[i] = Shifted(r[i], L)
  <2>1. sh = [i \in 1..R |-> sh[i]] /\ \A i \in 1..R : sh[i] = Shifted(r[i], L)
    BY <1>1
  <2> HIDE DEF sh
  <2>2. sh \in Seq({sh[i] : i \in 1..R}) /\ Len(sh) = R
    BY <1>1, <2>1
  <2>3. IsSeq(sh)
    BY <2>2 DEF IsSeq
  <2> QED
    BY <2>1, <2>2, <2>3
<1>4. IsSeq(<<x>>) /\ Len(<<x>>) = 1 /\ <<x>>[1] = x
  <2>1. <<x>> \in Seq({x})
    OBVIOUS
  <2> QED
    BY <2>1 DEF IsSeq
<1> DEFINE a == l \o sh
<1>5. /\ IsSeq(a) /\ Len(a) = N
      /\ \A i \in 1..L : a[i] = l[i]
      /\ \A i \in 1..R : a[L + i] = Shifted(r[i], L)
  <2> HIDE DEF sh
  <2>1. /\ IsSeq(l \o sh) /\ Len(l \o sh) = Len(l) + Len(sh)
        /\ \A i \in 1..Len(l) : (l \o sh)[i] = l[i]
        /\ \A i \in 1..Len(sh) : (l \o sh)[Len(l) + i] = sh[i]
    BY <1>1, <1>3, ConcatIs
  <2> QED
    BY <1>3, <2>1
<1>6. /\ IsSeq(o) /\ Len(o) = N + 1
      /\ \A i \in 1..N : o[i] = a[i]
      /\ o[N + 1] = x
  <2>0. o = a \o <<x>>
    BY <1>2
  <2> HIDE DEF a, x, o, sh, L, R
  <2>2. /\ IsSeq(a \o <<x>>) /\ Len(a \o <<x>>) = Len(a) + Len(<<x>>)
        /\ \A i \in 1..Len(a) : (a \o <<x>>)[i] = a[i]
        /\ \A i \in 1..Len(<<x>>) : (a \o <<x>>)[Len(a) + i] = <<x>>[i]
    BY <1>4, <1>5, ConcatIs
  <2>3. 1 \in 1..1
    OBVIOUS
  <2> QED
    BY <1>4, <1>5, <2>0, <2>2, <2>3
<1>7. DOMAIN o = 1..(N + 1)
  BY <1>6, SeqIs
<1> HIDE DEF a, x, o, sh
<1>8. 1..L \subseteq 1..N /\ \A n \in 1..R : L + n \in 1..N
  BY <1>1
<1>9. /\ \A n \in 1..L : o[n] = l[n]
      /\ \A n \in 1..R : o[L + n] = Shifted(r[n], L)
  BY <1>5, <1>6, <1>8
<1> QED
  BY <1>1, <1>6, <1>7, <1>9 DEF x, o

LEMMA OverTwoBelow ==
    ASSUME NEW l, Fitted(l), NEW r, Fitted(r), NEW node, Plain(node, Double), Fit(node)
    PROVE  Fitted(OverTwo(l, r, node))
<1> DEFINE L == Len(l)
           R == Len(r)
           o == OverTwo(l, r, node)
<1>1. Tree(o) /\ Tree(l) /\ Tree(r)
  BY OverTwoTree DEF Fitted
<1>2. /\ DOMAIN l = 1..L /\ DOMAIN r = 1..R /\ L \in Nat /\ R \in Nat
      /\ DOMAIN o = 1..(L + R + 1)
      /\ \A n \in 1..L : o[n] = l[n]
      /\ \A n \in 1..R : o[L + n] = Shifted(r[n], L)
      /\ o[L + R + 1] = Reading(node, <<L, L + R>>)
  BY <1>1, OverTwoIs
<1>3. node.op # "limit"
  BY DEF Plain, Double
<1>4. Fit(Reading(node, <<L, L + R>>)) /\ Reading(node, <<L, L + R>>).op # "limit"
  BY <1>3, ReadingFit
<1>5. ASSUME NEW n \in 1..R PROVE Fit(Shifted(r[n], L)) /\ Shifted(r[n], L).op # "limit"
  <2> DEFINE w == Shifted(r[n], L)
  <2>1. DOMAIN r[n] \subseteq DOMAIN w /\ \A f \in DOMAIN r[n] \ {"in"} : w[f] = r[n][f]
    BY DEF Shifted
  <2>2. Fit(r[n]) /\ r[n].op # "limit"
    BY <1>2 DEF Fitted
  <2> HIDE DEF w
  <2>3. Fit(w) /\ w.op = r[n].op
    BY <2>1, <2>2, FitKept
  <2> QED
    BY <2>2, <2>3 DEF w
<1> HIDE DEF L, R, o
<1>6. ASSUME NEW n \in 1..(L + R + 1) PROVE Fit(o[n]) /\ o[n].op # "limit"
  <2>1. n \in 1..L \/ (n - L \in 1..R /\ n = L + (n - L)) \/ n = L + R + 1
    BY <1>2
  <2> QED
    BY <1>2, <1>4, <1>5, <2>1 DEF Fitted
<1>7. Fitted(o)
  BY <1>1, <1>2, <1>6 DEF Fitted
<1> QED
  BY <1>7 DEF o
-----------------------------------------------------------------------------
LEMMA FilteredFit == ASSUME NEW p, Fitted(p), NEW ts PROVE Fitted(Filtered(p, ts))
<1> DEFINE node == [op |-> "filter", terms |-> ts]
<1>1. Plain(node, Single) /\ Fit(node) /\ node.op # "limit"
  BY DEF Plain, Single, Through, Fit
<1> HIDE DEF node
<1>2. Fitted(Over(p, node))
  BY <1>1, OverBelow
<1> QED
  BY <1>2 DEF Filtered, node

LEMMA WholeTableFit == ASSUME NEW q, NEW i, q.tables[i] \in DOMAIN database PROVE Fitted(WholeTable(q, i))
<1> DEFINE node == [op |-> "seqscan", tab |-> q.tables[i]]
<1>1. Plain(node, Sources) /\ Fit(node)
  BY DEF Plain, Sources, Fit
<1> HIDE DEF node
<1>2. Fitted(Source(node))
  BY <1>1, SourceBelow
<1> QED
  BY <1>2 DEF WholeTable, node

LEMMA LookupFit ==
    ASSUME NEW tab \in DOMAIN database, NEW key
    PROVE  Fitted(Source([op |-> "lookup", tab |-> tab, key |-> key]))
<1> DEFINE node == [op |-> "lookup", tab |-> tab, key |-> key]
<1>1. Plain(node, Sources) /\ Fit(node)
  BY DEF Plain, Sources, Fit
<1> HIDE DEF node
<1>2. Fitted(Source(node))
  BY <1>1, SourceBelow
<1> QED
  BY <1>2 DEF node

LEMMA RangeFit ==
    ASSUME NEW tab \in DOMAIN database, NEW col \in DOMAIN database[tab].trees, NEW lo, NEW hi
    PROVE  Fitted(Source([op |-> "indexscan", tab |-> tab, col |-> col, lo |-> lo, hi |-> hi]))
<1> DEFINE node == [op |-> "indexscan", tab |-> tab, col |-> col, lo |-> lo, hi |-> hi]
<1>1. Plain(node, Sources) /\ Fit(node)
  BY DEF Plain, Sources, Fit
<1> HIDE DEF node
<1>2. Fitted(Source(node))
  BY <1>1, SourceBelow
<1> QED
  BY <1>2 DEF node

LEMMA ByIndexFit ==
    ASSUME NEW q, NEW i, q.tables[i] \in DOMAIN database, NEW col, Indexed(Table(q, i), col)
    PROVE  Fitted(ByIndex(q, i, col).plan)
<1> DEFINE terms == Local(q, i)
           type  == Table(q, i).types[col]
           using == SelectSeq(terms, LAMBDA c : InRange(c, col))
           keys  == RangeKeys(FoldLeft(LAMBDA r, c : Tightened(r, c), AnyValue, using), type)
           rest  == IF ExactKey(type) THEN SelectSeq(terms, LAMBDA c : ~InRange(c, col)) ELSE terms
           one   == [op |-> "lookup", tab |-> q.tables[i], key |-> keys.lo]
           many  == [op |-> "indexscan", tab |-> q.tables[i], col |-> col, lo |-> keys.lo, hi |-> keys.hi]
           read  == IF col = 1 /\ keys.lo = keys.hi THEN one ELSE many
<1>1. ByIndex(q, i, col) = [plan |-> Filtered(Source(read), rest), keyOrder |-> col = 1, bare |-> FALSE]
  BY DEF ByIndex
<1>2. Fitted(Source(one)) /\ Fitted(Source(many))
  <2> HIDE DEF keys
  <2>1. col \in DOMAIN database[q.tables[i]].trees
    BY DEF Indexed, Table
  <2> QED
    BY <2>1, LookupFit, RangeFit
<1>3. read = one \/ read = many
  OBVIOUS
<1> HIDE DEF read, one, many, rest
<1>4. Fitted(Source(read))
  BY <1>2, <1>3
<1>5. Fitted(Filtered(Source(read), rest))
  BY <1>4, FilteredFit
<1>6. ByIndex(q, i, col).plan = Filtered(Source(read), rest)
  BY <1>1
<1> QED
  BY <1>5, <1>6

LEMMA AccessFit ==
    ASSUME NEW q, NEW i, q.tables[i] \in DOMAIN database
    PROVE  \A a \in Access(q, i) : Fitted(a.plan)
<1>1. Fitted(Filtered(WholeTable(q, i), Local(q, i)))
  BY FilteredFit, WholeTableFit
<1>2. ASSUME NEW a \in Access(q, i)
      PROVE  \/ a.plan = Filtered(WholeTable(q, i), Local(q, i))
             \/ \E col : Indexed(Table(q, i), col) /\ a = ByIndex(q, i, col)
  BY DEF Access
<1> QED
  BY <1>1, <1>2, ByIndexFit

LEMMA NestedLoopFit == ASSUME NEW l, Fitted(l), NEW r, Fitted(r), NEW terms PROVE Fitted(NestedLoopOf(l, r, terms))
<1> DEFINE node == [op |-> "nlj", on |-> terms]
<1>1. Plain(node, Double) /\ Fit(node)
  BY DEF Plain, Double, Fit
<1> HIDE DEF node
<1>2. Fitted(OverTwo(l, r, node))
  BY <1>1, OverTwoBelow
<1> QED
  BY <1>2 DEF NestedLoopOf, node

LEMMA HashFit ==
    ASSUME NEW q, NEW i, NEW l, Fitted(l), NEW r, Fitted(r), NEW terms, NEW left \in BOOLEAN
    PROVE  Fitted(HashOf(q, i, l, r, terms, left))
<1> DEFINE keys  == SelectSeq(terms, LAMBDA c : IsKey(q, i, c))
           pairs == [k \in DOMAIN keys |-> KeyPair(q, i, keys[k])]
           rest  == SelectSeq(terms, LAMBDA c : ~IsKey(q, i, c))
           node  == [op |-> "hash", buildLeft |-> left, keys |-> pairs, residual |-> rest]
<1>1. Plain(node, Double) /\ Fit(node)
  <2> HIDE DEF pairs, rest
  <2> QED
    BY DEF Plain, Double, Fit
<1>2. HashOf(q, i, l, r, terms, left) = OverTwo(l, r, node)
  BY DEF HashOf
<1> HIDE DEF node
<1> QED
  BY <1>1, <1>2, OverTwoBelow

LEMMA IndexFit ==
    ASSUME NEW q, NEW j, q.tables[j] \in DOMAIN database, NEW o, Fitted(o), NEW c, NEW d, Indexed(Table(q, j), d),
           NEW terms, NEW k, NEW f
    PROVE  Fitted(IndexOf(q, j, o, c, d, terms, k, f))
<1> DEFINE node == [op |-> "inlj", tab |-> q.tables[j], outerCol |-> c, innerCol |-> d,
                    inner |-> Local(q, j), residual |-> RemoveAt(terms, k), innerFirst |-> f]
<1>1. Plain(node, Single) /\ Fit(node) /\ node.op # "limit"
  <2> DEFINE ts == Local(q, j)
             rest == RemoveAt(terms, k)
  <2> HIDE DEF ts, rest
  <2>1. d \in DOMAIN database[q.tables[j]].trees
    BY DEF Indexed, Table
  <2> QED
    BY <2>1 DEF Plain, Single, Fit
<1> HIDE DEF node
<1>2. Fitted(Over(o, node))
  BY <1>1, OverBelow
<1> QED
  BY <1>2 DEF IndexOf, node

LEMMA JoinsFit ==
    ASSUME NEW q, NEW i, q.tables[i] \in DOMAIN database, q.tables[1] \in DOMAIN database,
           NEW l, Fitted(l), NEW r, Fitted(r)
    PROVE  \A p \in JoinsOf(q, i, l, r) : Fitted(p)
<1>1. ASSUME NEW p \in JoinsOf(q, i, l, r)
      PROVE  \/ p = NestedLoopOf(l, r, Cross(q, i))
             \/ \E left \in BOOLEAN : p = HashOf(q, i, l, r, Cross(q, i), left)
             \/ \E c, d, k : Indexed(Table(q, i), d) /\ p = IndexOf(q, i, l, c, d, Cross(q, i), k, FALSE)
             \/ \E c, d, k : Indexed(Table(q, 1), d) /\ p = IndexOf(q, 1, r, c, d, Cross(q, i), k, TRUE)
  <2> DEFINE terms   == Cross(q, i)
             keys    == {k \in DOMAIN terms : IsKey(q, i, terms[k])}
             pair(k) == KeyPair(q, i, terms[k])
             other   == {j \in keys : Indexed(Table(q, i), pair(j)[2])}
             first   == {j \in keys : i = 2 /\ Indexed(Table(q, 1), pair(j)[1])}
  <2>1. \/ p \in {NestedLoopOf(l, r, terms)}
        \/ p \in {HashOf(q, i, l, r, terms, left) : left \in IF keys = {} THEN {} ELSE BOOLEAN}
        \/ p \in {IndexOf(q, i, l, pair(k)[1], pair(k)[2], terms, k, FALSE) : k \in other}
        \/ p \in {IndexOf(q, 1, r, pair(k)[2], pair(k)[1], terms, k, TRUE) : k \in first}
    BY Zenon DEF JoinsOf
  <2>2. \A left \in IF keys = {} THEN {} ELSE BOOLEAN : left \in BOOLEAN
    OBVIOUS
  <2>0. /\ \A k \in other : Indexed(Table(q, i), pair(k)[2])
        /\ \A k \in first : Indexed(Table(q, 1), pair(k)[1])
    OBVIOUS
  <2> HIDE DEF terms, keys, pair, other, first
  <2>3. p \in {HashOf(q, i, l, r, terms, left) : left \in IF keys = {} THEN {} ELSE BOOLEAN}
          => \E left \in BOOLEAN : p = HashOf(q, i, l, r, terms, left)
    BY <2>2
  <2>4. p \in {IndexOf(q, i, l, pair(k)[1], pair(k)[2], terms, k, FALSE) : k \in other}
          => \E c, d, k : Indexed(Table(q, i), d) /\ p = IndexOf(q, i, l, c, d, terms, k, FALSE)
    BY <2>0, Zenon
  <2>5. p \in {IndexOf(q, 1, r, pair(k)[2], pair(k)[1], terms, k, TRUE) : k \in first}
          => \E c, d, k : Indexed(Table(q, 1), d) /\ p = IndexOf(q, 1, r, c, d, terms, k, TRUE)
    BY <2>0, Zenon
  <2>6. \/ p = NestedLoopOf(l, r, terms)
        \/ \E left \in BOOLEAN : p = HashOf(q, i, l, r, terms, left)
        \/ \E c, d, k : Indexed(Table(q, i), d) /\ p = IndexOf(q, i, l, c, d, terms, k, FALSE)
        \/ \E c, d, k : Indexed(Table(q, 1), d) /\ p = IndexOf(q, 1, r, c, d, terms, k, TRUE)
    BY <2>1, <2>3, <2>4, <2>5, Zenon
  <2> QED
    BY <2>6 DEF terms
<1>2. SUFFICES ASSUME NEW p \in JoinsOf(q, i, l, r) PROVE Fitted(p)
  OBVIOUS
<1>3. CASE p = NestedLoopOf(l, r, Cross(q, i))
  BY <1>3, NestedLoopFit
<1>4. ASSUME NEW left \in BOOLEAN, p = HashOf(q, i, l, r, Cross(q, i), left) PROVE Fitted(p)
  BY <1>4, HashFit
<1>5. ASSUME NEW c, NEW d, NEW k, Indexed(Table(q, i), d), p = IndexOf(q, i, l, c, d, Cross(q, i), k, FALSE)
      PROVE  Fitted(p)
  BY <1>5, IndexFit
<1>6. ASSUME NEW c, NEW d, NEW k, Indexed(Table(q, 1), d), p = IndexOf(q, 1, r, c, d, Cross(q, i), k, TRUE)
      PROVE  Fitted(p)
  BY <1>6, IndexFit
<1> QED
  BY <1>1, <1>2, <1>3, <1>4, <1>5, <1>6, Zenon

LEMMA JoinedFit ==
    ASSUME NEW q, NEW N \in Nat, \A i \in 1..N : q.tables[i] \in DOMAIN database,
           NEW f, f = [i \in 1..N |-> JoinedUpTo(q, i, f[i - 1])]
    PROVE  \A i \in 1..N : \A p \in f[i] : Fitted(p)
<1> DEFINE T == {i \in 1..N : \E p \in f[i] : ~Fitted(p)}
<1>1. \A i \in 1..N : f[i] = JoinedUpTo(q, i, f[i - 1])
  BY Zenon
<1>2. T = {}
  <2> SUFFICES ASSUME T # {} PROVE FALSE
    OBVIOUS
  <2>1. T \in SUBSET Nat
    OBVIOUS
  <2> HIDE DEF T
  <2>2. PICK i \in T : \A k \in T : i <= k
    BY <2>1, LeastOf
  <2>3. i \in 1..N /\ \E p \in f[i] : ~Fitted(p)
    BY DEF T
  <2>4. PICK p \in JoinedUpTo(q, i, f[i - 1]) : ~Fitted(p)
    BY <1>1, <2>3
  <2>5. i # 1 => \A l \in f[i - 1] : Fitted(l)
    <3>1. i # 1 => i - 1 \in 1..N /\ ~(i <= i - 1)
      BY <2>3
    <3> QED
      BY <2>2, <3>1 DEF T
  <2>8. q.tables[i] \in DOMAIN database /\ q.tables[1] \in DOMAIN database
    <3>1. 1 \in 1..N
      BY <2>3
    <3> QED
      BY <2>3, <3>1
  <2>6. CASE i = 1
    <3>1. \E a \in Access(q, 1) : p = a.plan
      BY <2>4, <2>6 DEF JoinedUpTo
    <3> QED
      BY <2>4, <2>8, <3>1, AccessFit
  <2>7. CASE i # 1
    <3>1. PICK l \in f[i - 1] : p \in UNION {JoinsOf(q, i, l, r.plan) : r \in Access(q, i)}
      <4> DEFINE of(l) == UNION {JoinsOf(q, i, l, r.plan) : r \in Access(q, i)}
      <4>1. JoinedUpTo(q, i, f[i - 1]) = UNION {of(l) : l \in f[i - 1]}
        BY <2>7, Zenon DEF JoinedUpTo
      <4>2. p \in UNION {of(l) : l \in f[i - 1]}
        BY <2>4, <4>1
      <4> HIDE DEF of
      <4>3. \E l \in f[i - 1] : p \in of(l)
        BY <4>2
      <4> QED
        BY <4>3 DEF of
    <3>3. PICK r \in Access(q, i) : p \in JoinsOf(q, i, l, r.plan)
      BY <3>1, Zenon
    <3>2. Fitted(l) /\ Fitted(r.plan)
      BY <2>5, <2>7, <2>8, AccessFit
    <3> QED
      BY <2>4, <2>8, <3>2, <3>3, JoinsFit
  <2> QED
    BY <2>6, <2>7
<1> QED
  BY <1>2

LEMMA LiterallyFit ==
    ASSUME NEW q, NEW N \in Nat, \A i \in 1..N : q.tables[i] \in DOMAIN database,
           NEW f, f = [i \in 1..N |-> LiteralUpTo(q, i, f[i - 1])]
    PROVE  \A i \in 1..N : \A p \in f[i] : Fitted(p)
<1> DEFINE T == {i \in 1..N : \E p \in f[i] : ~Fitted(p)}
<1>1. \A i \in 1..N : f[i] = LiteralUpTo(q, i, f[i - 1])
  BY Zenon
<1>2. T = {}
  <2> SUFFICES ASSUME T # {} PROVE FALSE
    OBVIOUS
  <2>1. T \in SUBSET Nat
    OBVIOUS
  <2> HIDE DEF T
  <2>2. PICK i \in T : \A k \in T : i <= k
    BY <2>1, LeastOf
  <2>3. i \in 1..N /\ \E p \in f[i] : ~Fitted(p)
    BY DEF T
  <2>4. PICK p \in LiteralUpTo(q, i, f[i - 1]) : ~Fitted(p)
    BY <1>1, <2>3
  <2>5. i # 1 => \A l \in f[i - 1] : Fitted(l)
    <3>1. i # 1 => i - 1 \in 1..N /\ ~(i <= i - 1)
      BY <2>3
    <3> QED
      BY <2>2, <3>1 DEF T
  <2>8. Fitted(WholeTable(q, i)) /\ Fitted(WholeTable(q, 1))
    <3>1. 1 \in 1..N
      BY <2>3
    <3> QED
      BY <2>3, <3>1, WholeTableFit
  <2>6. CASE i = 1
    <3>1. p = WholeTable(q, 1)
      BY <2>4, <2>6 DEF LiteralUpTo
    <3> QED
      BY <2>4, <2>8, <3>1
  <2>7. CASE i # 1
    <3> DEFINE w == WholeTable(q, i)
               terms == q.on[i - 1]
               byHash == \E c \in Range(terms) : IsKey(q, i, c)
    <3>1. PICK l \in f[i - 1] : p \in {NestedLoopOf(l, w, terms)}
                                      \cup (IF byHash THEN {HashOf(q, i, l, w, terms, FALSE)} ELSE {})
      BY <2>4, <2>7, Zenon DEF LiteralUpTo
    <3> HIDE DEF byHash, terms
    <3>2. p = NestedLoopOf(l, w, terms) \/ p = HashOf(q, i, l, w, terms, FALSE)
      BY <3>1
    <3>3. Fitted(l) /\ Fitted(w)
      BY <2>5, <2>7, <2>8
    <3>4. FALSE \in BOOLEAN
      OBVIOUS
    <3> HIDE DEF w
    <3> QED
      BY <2>4, <3>2, <3>3, <3>4, NestedLoopFit, HashFit
  <2> QED
    BY <2>6, <2>7
<1> QED
  BY <1>2

LEMMA FromFit ==
    ASSUME NEW q, q.tables \in Seq(DOMAIN database), q.tables # <<>>
    PROVE  \A s \in From(q) : Fitted(s.plan)
<1> DEFINE N == Len(q.tables)
           D == DOMAIN q.tables
           joined == CHOOSE f : f = [i \in D |-> JoinedUpTo(q, i, f[i - 1])]
<1>1. N \in Nat \ {0} /\ D = 1..N /\ \A i \in 1..N : q.tables[i] \in DOMAIN database
  OBVIOUS
<1>2. From(q) = IF N = 1 THEN Access(q, 1)
                ELSE {[plan |-> p, keyOrder |-> FALSE, bare |-> FALSE] : p \in joined[N]}
  BY DEF From
<1>3. joined = [i \in 1..N |-> JoinedUpTo(q, i, joined[i - 1])]
  <2> HIDE DEF D, N
  <2>1. \E f : f = [i \in D |-> JoinedUpTo(q, i, f[i - 1])]
    <3>1. N \in Nat /\ D = 1..N
      BY <1>1
    <3>2. \E f : f = [i \in 1..N |-> JoinedUpTo(q, i, f[i - 1])]
      BY <3>1, JoinedIs
    <3> QED
      BY <3>1, <3>2, Zenon
  <2> QED
    BY <1>1, <2>1, Zenon
<1> HIDE DEF joined
<1>4. \A p \in joined[N] : Fitted(p)
  <2>1. N \in 1..N /\ N \in Nat
    BY <1>1
  <2> HIDE DEF N
  <2> QED
    BY <1>1, <1>3, <2>1, JoinedFit
<1> HIDE DEF N
<1>5. \A s \in From(q) : s \in Access(q, 1) \/ \E p \in joined[N] : s.plan = p
  BY <1>2
<1>6. q.tables[1] \in DOMAIN database
  BY <1>1
<1> QED
  BY <1>4, <1>5, <1>6, AccessFit

LEMMA LiteralFit ==
    ASSUME NEW q, q.tables \in Seq(DOMAIN database), q.tables # <<>>
    PROVE  \A s \in LiteralFrom(q) : Fitted(s.plan)
<1> DEFINE N == Len(q.tables)
           D == DOMAIN q.tables
           isLookup(c) == c.op = "eq" /\ c.right = 0 /\ c.left = 1
           k == SelectInSeq(q.where, isLookup)
           key == IF q.where[k].lit.null THEN NoKey ELSE OrderKey(q.where[k].lit)
           lookup == Source([op |-> "lookup", tab |-> q.tables[1], key |-> key])
           found == Filtered(lookup, RemoveAt(q.where, k))
           joined == CHOOSE f : f = [i \in D |-> LiteralUpTo(q, i, f[i - 1])]
<1>1. N \in Nat \ {0} /\ D = 1..N /\ \A i \in 1..N : q.tables[i] \in DOMAIN database
  OBVIOUS
<1>2. LiteralFrom(q) = {[plan |-> p, keyOrder |-> FALSE, bare |-> FALSE] :
                           p \in IF N = 1 /\ k # 0 THEN {found} ELSE {Filtered(p, q.where) : p \in joined[N]}}
  BY DEF LiteralFrom
<1>3. joined = [i \in 1..N |-> LiteralUpTo(q, i, joined[i - 1])]
  <2> HIDE DEF D, N
  <2>1. \E f : f = [i \in D |-> LiteralUpTo(q, i, f[i - 1])]
    <3>1. N \in Nat /\ D = 1..N
      BY <1>1
    <3>2. \E f : f = [i \in 1..N |-> LiteralUpTo(q, i, f[i - 1])]
      BY <3>1, LiterallyIs
    <3> QED
      BY <3>1, <3>2, Zenon
  <2> QED
    BY <1>1, <2>1, Zenon
<1> HIDE DEF joined
<1>4. \A p \in joined[N] : Fitted(p)
  <2>1. N \in 1..N /\ N \in Nat
    BY <1>1
  <2> HIDE DEF N
  <2> QED
    BY <1>1, <1>3, <2>1, LiterallyFit
<1>5. Fitted(found)
  <2> HIDE DEF key, k
  <2>1. q.tables[1] \in DOMAIN database
    BY <1>1
  <2> QED
    BY <2>1, FilteredFit, LookupFit
<1> HIDE DEF found, N, k
<1>6. \A s \in LiteralFrom(q) : s.plan = found \/ \E p \in joined[N] : s.plan = Filtered(p, q.where)
  BY <1>2
<1> QED
  BY <1>4, <1>5, <1>6, FilteredFit

LEMMA AggregatedFit == ASSUME NEW q, NEW src, Fitted(src.plan) PROVE \A p \in Aggregated(q, src) : Fitted(p)
<1> DEFINE agg  == [op |-> "aggregate", group |-> Groups(q), aggs |-> Aggs(q)]
           ends == [op |-> "minmax", tab |-> q.tables[1], aggs |-> Aggs(q)]
<1>1. Plain(agg, Single) /\ Plain(ends, Sources) /\ Fit(agg) /\ Fit(ends) /\ agg.op # "limit"
  BY DEF Plain, Single, Sources, Fit
<1>2. \A p \in Aggregated(q, src) : p = src.plan \/ p = Over(src.plan, agg) \/ p = Source(ends)
  BY DEF Aggregated
<1> HIDE DEF agg, ends
<1>3. Fitted(Over(src.plan, agg)) /\ Fitted(Source(ends))
  BY <1>1, OverBelow, SourceBelow
<1> QED
  BY <1>2, <1>3

\* Every operator is fit, and a limit is the last, or read by a projection that is.
Planned(p) ==
    /\ Tree(p)
    /\ \A n \in DOMAIN p : /\ Fit(p[n])
                           /\ p[n].op = "limit" =>
                                 n = Len(p) \/ (n = Len(p) - 1 /\ p[Len(p)].op = "project" /\ p[Len(p)].in = <<n>>)

\* The same before the projection.
Topped(p) ==
    /\ Tree(p)
    /\ \A n \in DOMAIN p : Fit(p[n]) /\ (p[n].op = "limit" => n = Len(p))

LEMMA ToppedOver ==
    ASSUME NEW p, Fitted(p), NEW node, Plain(node, Single), Fit(node)
    PROVE  Topped(Over(p, node))
<1>1. Tree(p) /\ Tree(Over(p, node))
  BY OverTree DEF Fitted
<1>2. /\ DOMAIN p = 1..Len(p) /\ Len(p) \in Nat
      /\ DOMAIN Over(p, node) = 1..(Len(p) + 1) /\ Len(Over(p, node)) = Len(p) + 1
      /\ \A n \in 1..Len(p) : Over(p, node)[n] = p[n]
      /\ Over(p, node)[Len(p) + 1] = Reading(node, <<Len(p)>>)
  BY <1>1, OverIs
<1>3. Fit(Reading(node, <<Len(p)>>))
  BY ReadingFit
<1>4. ASSUME NEW n \in 1..(Len(p) + 1)
      PROVE  Fit(Over(p, node)[n]) /\ (Over(p, node)[n].op = "limit" => n = Len(p) + 1)
  <2>1. n \in 1..Len(p) \/ n = Len(p) + 1
    BY <1>2
  <2> QED
    BY <1>2, <1>3, <2>1 DEF Fitted
<1> QED
  BY <1>1, <1>2, <1>4 DEF Topped

LEMMA FittedTopped == ASSUME NEW p, Fitted(p) PROVE Topped(p)
BY DEF Fitted, Topped

LEMMA SortedFit ==
    ASSUME NEW q, q.limit \in Nat \cup {NoLimit}, NEW src, NEW p, Fitted(p)
    PROVE  Topped(Sorted(q, src, p))
<1> DEFINE keys == [k \in DOMAIN q.order |-> [col |-> Place(q, q.order[k].item), desc |-> q.order[k].desc]]
           node == [op |-> "sort", limit |-> q.limit, keys |-> keys]
           lim  == [op |-> "limit", n |-> q.limit]
<1>1. Plain(node, Single) /\ Fit(node)
  <2> HIDE DEF keys
  <2> QED
    BY DEF Plain, Single, Fit
<1>2. Sorted(q, src, p) = Limited(p, q.limit) \/ Sorted(q, src, p) = Over(p, node)
  BY DEF Sorted
<1> HIDE DEF node
<1>3. Topped(Over(p, node))
  BY <1>1, ToppedOver
<1>4. q.limit # NoLimit => Plain(lim, Single) /\ Fit(lim)
  BY DEF Plain, Single, Through, Fit
<1>5. Limited(p, q.limit) = IF q.limit = NoLimit THEN p ELSE Over(p, lim)
  BY DEF Limited
<1> HIDE DEF lim
<1>6. Topped(Limited(p, q.limit))
  BY <1>4, <1>5, ToppedOver, FittedTopped
<1> QED
  BY <1>2, <1>3, <1>6

LEMMA ShownFit == ASSUME NEW q, NEW p, Topped(p) PROVE Planned(Shown(q, p))
<1> DEFINE cols == [k \in DOMAIN q.list |-> Place(q, q.list[k])]
           node == [op |-> "project", cols |-> cols]
           o == Over(p, node)
<1>1. Plain(node, Single) /\ Fit(node) /\ node.op = "project"
  <2> HIDE DEF cols
  <2> QED
    BY DEF Plain, Single, Through, Fit
<1>2. Shown(q, p) = p \/ Shown(q, p) = Over(p, node)
  BY DEF Shown
<1> HIDE DEF node
<1>3. Planned(p)
  BY DEF Topped, Planned
<1>4. Tree(p) /\ Tree(o)
  BY <1>1, OverTree DEF Topped
<1>5. /\ DOMAIN p = 1..Len(p) /\ Len(p) \in Nat
      /\ DOMAIN o = 1..(Len(p) + 1) /\ Len(o) = Len(p) + 1
      /\ \A n \in 1..Len(p) : o[n] = p[n]
      /\ o[Len(p) + 1] = Reading(node, <<Len(p)>>)
  BY <1>4, OverIs
<1>6. /\ Fit(Reading(node, <<Len(p)>>)) /\ Reading(node, <<Len(p)>>).op = "project"
      /\ Reading(node, <<Len(p)>>).in = <<Len(p)>>
  BY <1>1, ReadingFit, ReadingIs
<1> HIDE DEF o
<1>7. ASSUME NEW n \in 1..(Len(p) + 1)
      PROVE  /\ Fit(o[n])
             /\ o[n].op = "limit" => n = Len(o) - 1 /\ o[Len(o)].op = "project" /\ o[Len(o)].in = <<n>>
  <2>1. n \in 1..Len(p) \/ n = Len(p) + 1
    BY <1>5
  <2>2. CASE n \in 1..Len(p)
    <3>1. Fit(p[n]) /\ (p[n].op = "limit" => n = Len(p))
      BY <1>5, <2>2 DEF Topped
    <3>2. Len(p) = Len(o) - 1
      BY <1>5
    <3> QED
      BY <1>5, <1>6, <2>2, <3>1, <3>2
  <2>3. CASE n = Len(p) + 1
    BY <1>5, <1>6, <2>3
  <2> QED
    BY <2>1, <2>2, <2>3
<1>8. Planned(o)
  BY <1>4, <1>5, <1>7 DEF Planned
<1> QED
  BY <1>2, <1>3, <1>8 DEF o

LEMMA PlansFit ==
    ASSUME NEW q, q.tables \in Seq(DOMAIN database), q.tables # <<>>, q.limit \in Nat \cup {NoLimit}
    PROVE  \A p \in Plans(q) : Planned(p)
<1> SUFFICES ASSUME NEW p \in Plans(q) PROVE Planned(p)
  OBVIOUS
<1> DEFINE over(src) == {Shown(q, Sorted(q, src, Filtered(r, HavingTerms(q)))) : r \in Aggregated(q, src)}
<1>1. Plans(q) = UNION {over(src) : src \in From(q) \cup LiteralFrom(q)}
  BY Zenon DEF Plans
<1> HIDE DEF over
<1>2. PICK src \in From(q) \cup LiteralFrom(q) : p \in over(src)
  BY <1>1
<1>3. PICK r \in Aggregated(q, src) : p = Shown(q, Sorted(q, src, Filtered(r, HavingTerms(q))))
  BY <1>2, Zenon DEF over
<1>4. Fitted(src.plan)
  BY <1>2, FromFit, LiteralFit
<1>5. Fitted(Filtered(r, HavingTerms(q)))
  BY <1>3, <1>4, AggregatedFit, FilteredFit
<1>6. Topped(Sorted(q, src, Filtered(r, HavingTerms(q))))
  BY <1>5, SortedFit
<1> QED
  BY <1>3, <1>6, ShownFit
-----------------------------------------------------------------------------
(* Sequences picked, batches narrowed, and what cursors read.              *)

LEMMA SeqOver == ASSUME NEW N \in Nat, NEW f, f = [i \in 1..N |-> f[i]] PROVE IsSeq(f) /\ Len(f) = N
<1>1. f \in Seq({f[i] : i \in 1..N}) /\ Len(f) = N
  BY SMT
<1> QED
  BY <1>1 DEF IsSeq

LEMMA InTurnIs ==
    ASSUME NEW ns, IsFiniteSet(ns)
    PROVE  IsSeq(InTurn(ns)) /\ Len(InTurn(ns)) = Cardinality(ns) /\ Cardinality(ns) \in Nat
<1> DEFINE N == Cardinality(ns)
           place(k) == CHOOSE n \in ns : Cardinality({m \in ns : m <= n}) = k
           f == [k \in 1..N |-> place(k)]
<1>0. InTurn(ns) = f
  BY Zenon DEF InTurn
<1>1. N \in Nat
  BY FS_CardinalityType
<1> HIDE DEF place
<1>2. f = [k \in 1..N |-> f[k]]
  OBVIOUS
<1> HIDE DEF f
<1>3. IsSeq(f) /\ Len(f) = N
  <2> HIDE DEF N
  <2> QED
    BY <1>1, <1>2, SeqOver
<1> QED
  BY <1>0, <1>1, <1>3

LEMMA PickedIs ==
    ASSUME NEW s, NEW at, IsFiniteSet(at)
    PROVE  IsSeq(Picked(s, at)) /\ Len(Picked(s, at)) = Cardinality(at) /\ Cardinality(at) \in Nat
<1> DEFINE places == InTurn(at)
           f == [k \in DOMAIN places |-> s[places[k]]]
<1>1. IsSeq(places) /\ Len(places) = Cardinality(at) /\ Cardinality(at) \in Nat
  BY InTurnIs
<1>2. Picked(s, at) = f
  BY DEF Picked
<1>3. DOMAIN places = 1..Cardinality(at)
  BY <1>1, SeqIs
<1>4. f = [k \in 1..Cardinality(at) |-> f[k]]
  BY <1>3
<1> HIDE DEF f, places
<1>5. IsSeq(f) /\ Len(f) = Cardinality(at)
  BY <1>1, <1>4, SeqOver
<1> QED
  BY <1>1, <1>2, <1>5

\* Some of the places of a sequence.
LEMMA PlacesOf ==
    ASSUME NEW s, IsSeq(s), NEW D, D \subseteq DOMAIN s
    PROVE  IsFiniteSet(D) /\ Cardinality(D) \in Nat /\ Cardinality(D) <= Len(s)
<1>1. Len(s) \in Nat /\ DOMAIN s = 1..Len(s)
  BY SeqIs
<1>2. IsFiniteSet(1..Len(s)) /\ Cardinality(1..Len(s)) = Len(s)
  <2>1. 1 \in Int /\ Len(s) \in Int /\ (1 > Len(s) => Len(s) = 0)
    BY <1>1
  <2>2. /\ IsFiniteSet(1..Len(s))
        /\ Cardinality(1..Len(s)) = IF 1 > Len(s) THEN 0 ELSE Len(s) - 1 + 1
    BY <2>1, FS_Interval
  <2> QED
    BY <1>1, <2>1, <2>2
<1>3. IsFiniteSet(D) /\ Cardinality(D) <= Cardinality(1..Len(s))
  BY <1>1, <1>2, FS_Subset
<1> QED
  BY <1>2, <1>3, FS_CardinalityType

LEMMA RangeFinite ==
    ASSUME NEW s, IsSeq(s)
    PROVE  IsFiniteSet(Range(s)) /\ Cardinality(Range(s)) \in Nat /\ Cardinality(Range(s)) <= Len(s)
<1>1. Len(s) \in Nat /\ DOMAIN s = 1..Len(s)
  BY SeqIs
<1>2. s \in [DOMAIN s -> Range(s)]
  <2>1. PICK T : s \in Seq(T)
    BY DEF IsSeq
  <2>2. s = [i \in DOMAIN s |-> s[i]]
    BY <2>1
  <2>3. \A i \in DOMAIN s : s[i] \in Range(s)
    BY DEF Range
  <2> QED
    BY <2>2, <2>3
<1>3. \A t \in Range(s) : \E i \in DOMAIN s : s[i] = t
  BY DEF Range
<1>4. s \in Surjection(DOMAIN s, Range(s))
  BY <1>2, <1>3 DEF Surjection
<1>5. IsFiniteSet(DOMAIN s) /\ Cardinality(DOMAIN s) <= Len(s) /\ Cardinality(DOMAIN s) \in Nat
  BY PlacesOf
<1>6. IsFiniteSet(Range(s)) /\ Cardinality(Range(s)) <= Cardinality(DOMAIN s)
  BY <1>4, <1>5, FS_Surjection
<1> QED
  BY <1>1, <1>5, <1>6, FS_CardinalityType

IsBatch(b) ==
    /\ DOMAIN b = {"rows", "selected", "sel"}
    /\ IsSeq(b.rows) /\ b.selected \in BOOLEAN /\ IsSeq(b.sel)

LEMMA WholeIs == ASSUME NEW rows, IsSeq(rows) PROVE IsBatch(Whole(rows)) /\ Count(Whole(rows)) = Len(rows)
<1>1. IsBatch(Whole(rows))
  BY EmptyIsSeq DEF IsBatch, Whole
<1> QED
  BY <1>1 DEF Count, Whole

LEMMA NoRowsIs == Count(NoRows) = 0
BY EmptyIsSeq DEF Count, NoRows, Whole

LEMMA CountIs == ASSUME NEW b, IsBatch(b) PROVE Count(b) \in Nat
<1>1. Len(b.rows) \in Nat /\ Len(b.sel) \in Nat
  BY SeqIs DEF IsBatch
<1> QED
  BY <1>1 DEF Count

LEMMA LiveIs == ASSUME NEW b, IsBatch(b) PROVE IsSeq(Live(b)) /\ Len(Live(b)) = Count(b)
<1> DEFINE f == Live(b)
<1>1. Count(b) \in Nat
  BY CountIs
<1>2. f = [k \in 1..Count(b) |-> f[k]]
  BY DEF Live
<1> HIDE DEF f
<1>3. IsSeq(f) /\ Len(f) = Count(b)
  BY <1>1, <1>2, SeqOver
<1> QED
  BY <1>3 DEF f

\* What is kept of a batch is a batch, of no more rows.
LEMMA NarrowedIs ==
    ASSUME NEW cs, NEW b, IsBatch(b)
    PROVE  IsBatch(Narrowed(cs, b)) /\ Count(Narrowed(cs, b)) \in Nat /\ Count(Narrowed(cs, b)) <= Count(b)
<1> DEFINE live == IF b.selected THEN Range(b.sel) ELSE DOMAIN b.rows
           keeps(i) == EvalAll(cs, b.rows[i])
           kept == {i \in live : keeps(i)}
           n == [b EXCEPT !.selected = TRUE, !.sel = InTurn(kept)]
<1>1. Narrowed(cs, b) = IF cs = <<>> THEN b ELSE n
  BY Zenon DEF Narrowed
<1>2. Count(b) \in Nat
  BY CountIs
<1>3. IsFiniteSet(live) /\ Cardinality(live) \in Nat /\ Cardinality(live) <= Count(b)
  <2>1. /\ IsFiniteSet(Range(b.sel)) /\ Cardinality(Range(b.sel)) \in Nat /\ Cardinality(Range(b.sel)) <= Len(b.sel)
    BY RangeFinite DEF IsBatch
  <2>2. /\ IsFiniteSet(DOMAIN b.rows) /\ Cardinality(DOMAIN b.rows) \in Nat /\ Cardinality(DOMAIN b.rows) <= Len(b.rows)
    BY PlacesOf DEF IsBatch
  <2> QED
    BY <2>1, <2>2 DEF Count
<1> HIDE DEF keeps
<1>4. kept \in SUBSET live
  OBVIOUS
<1> HIDE DEF live, kept
<1>5. IsFiniteSet(kept) /\ Cardinality(kept) <= Cardinality(live) /\ Cardinality(kept) \in Nat
  BY <1>3, <1>4, FS_Subset, FS_CardinalityType
<1>6. IsSeq(InTurn(kept)) /\ Len(InTurn(kept)) = Cardinality(kept)
  BY <1>5, InTurnIs
<1>7. /\ DOMAIN n = {"rows", "selected", "sel"}
      /\ n.rows = b.rows /\ n.selected = TRUE /\ n.sel = InTurn(kept)
  BY DEF IsBatch
<1> HIDE DEF n
<1>8. IsBatch(n) /\ Count(n) = Cardinality(kept)
  BY <1>6, <1>7 DEF IsBatch, Count
<1> QED
  BY <1>1, <1>2, <1>3, <1>5, <1>8

LEMMA MinTwo == ASSUME NEW a \in Int, NEW b \in Int PROVE Min({a, b}) = IF a <= b THEN a ELSE b
<1> DEFINE m == IF a <= b THEN a ELSE b
<1>1. m \in {a, b} /\ \A y \in {a, b} : m <= y
  OBVIOUS
<1>2. \A x \in {a, b} : (\A y \in {a, b} : x <= y) => x = m
  OBVIOUS
<1> HIDE DEF m
<1>3. (CHOOSE x \in {a, b} : \A y \in {a, b} : x <= y) = m
  BY <1>1, <1>2
<1> QED
  BY <1>3 DEF Min, m
-----------------------------------------------------------------------------
(* The database, which no query changes, and cursors on its trees.         *)

Entries == Seq([key : Int, rid : Nat \ {0}])

DbInv ==
    /\ \E d \in DOMAIN Databases : database = Databases[d] /\ query \in Queries[d]
    /\ batch \in Nat
    /\ status # "new" => Planned(plan)

\* A cursor that names a tree.
Placed(cur) ==
    /\ DOMAIN cur = {"tab", "col", "next", "hi", "pin"}
    /\ cur.tab \in DOMAIN database /\ cur.col \in DOMAIN database[cur.tab].trees
    /\ cur.next \in Nat

LEMMA TreesOf ==
    ASSUME DbInv, NEW tab \in DOMAIN database
    PROVE  /\ tab \in Nat \ {0} /\ 1 \in DOMAIN database[tab].trees
           /\ DOMAIN database[tab].trees \subseteq Nat
           /\ \A col \in DOMAIN database[tab].trees : database[tab].trees[col] \in Entries
<1>1. PICK d \in DOMAIN Databases : database = Databases[d]
  BY DEF DbInv
<1>2. Databases[d] \in Seq(Range(Databases[d]))
  BY TablesHaveTrees
<1>3. tab \in Nat \ {0}
  BY <1>1, <1>2
<1>4. /\ 1 \in DOMAIN database[tab].trees /\ DOMAIN database[tab].trees \subseteq Nat
      /\ \A col \in DOMAIN database[tab].trees : database[tab].trees[col] \in Seq([key : Int, rid : Nat \ {0}])
  <2>1. \A t \in DOMAIN Databases[d] :
            /\ 1 \in DOMAIN Databases[d][t].trees /\ DOMAIN Databases[d][t].trees \subseteq Nat
            /\ \A col \in DOMAIN Databases[d][t].trees : Databases[d][t].trees[col] \in Seq([key : Int, rid : Nat \ {0}])
    BY TablesHaveTrees, Zenon
  <2> QED
    BY <1>1, <2>1, Zenon
<1> QED
  BY <1>3, <1>4 DEF Entries

LEMMA CursorOnIs ==
    ASSUME DbInv, NEW tab \in DOMAIN database, NEW col \in DOMAIN database[tab].trees
    PROVE  Placed(CursorOn(tab, col)) /\ CursorOn(tab, col) # NoCursor
<1> DEFINE c == CursorOn(tab, col)
<1>1. /\ DOMAIN c = {"tab", "col", "next", "hi", "pin"}
      /\ c.tab = tab /\ c.col = col /\ c.next = 0
  BY DEF CursorOn, NoCursor
<1>2. tab # 0
  BY TreesOf
<1>3. NoCursor.tab = 0
  BY DEF NoCursor
<1> HIDE DEF c
<1>5. c # NoCursor
  BY <1>1, <1>2, <1>3
<1>6. Placed(c)
  BY <1>1 DEF Placed
<1> QED
  BY <1>5, <1>6 DEF c

LEMMA PlacedIs == ASSUME DbInv, NEW cur, Placed(cur) PROVE List(cur) \in Entries /\ IsSeq(List(cur)) /\ cur # NoCursor
<1>1. List(cur) \in Entries
  BY TreesOf DEF Placed, List
<1>2. cur.tab # 0
  BY TreesOf DEF Placed
<1>3. NoCursor.tab = 0
  BY DEF NoCursor
<1> QED
  BY <1>1, <1>2, <1>3 DEF IsSeq, Entries

LEMMA SoughtIs ==
    ASSUME DbInv, NEW cur, Placed(cur), NEW lo, NEW hi
    PROVE  Placed(Sought(cur, lo, hi)) /\ Sought(cur, lo, hi).next \in Nat \ {0}
<1> DEFINE below == {i \in DOMAIN List(cur) : List(cur)[i].key < lo}
           c == [cur EXCEPT !.next = 1 + Cardinality(below), !.hi = hi]
<1>1. Cardinality(below) \in Nat
  <2>1. below \subseteq DOMAIN List(cur)
    OBVIOUS
  <2> HIDE DEF below
  <2> QED
    BY <2>1, PlacedIs, PlacesOf
<1>2. Sought(cur, lo, hi) = c
  BY DEF Sought
<1> HIDE DEF below
<1>3. Placed(c) /\ c.next \in Nat \ {0}
  BY <1>1 DEF Placed
<1> QED
  BY <1>2, <1>3

LEMMA AheadIs ==
    ASSUME DbInv, NEW cur, Placed(cur), NEW max \in Nat
    PROVE  IsSeq(Ahead(cur, max)) /\ Len(Ahead(cur, max)) <= max
<1> DEFINE within == {i \in DOMAIN List(cur) : List(cur)[i].key <= cur.hi}
           W == Cardinality(within)
           m == Min({cur.next + max - 1, W})
           taken == SubSeq(List(cur), cur.next, m)
<1>1. W \in Nat
  <2>1. within \subseteq DOMAIN List(cur)
    OBVIOUS
  <2> HIDE DEF within
  <2> QED
    BY <2>1, PlacedIs, PlacesOf
<1>2. Ahead(cur, max) = taken
  BY DEF Ahead
<1>3. cur.next \in Nat
  BY DEF Placed
<1> HIDE DEF within, W
<1>4. m \in Int /\ m <= cur.next + max - 1
  BY <1>1, <1>3, MinTwo
<1>5. List(cur) \in Entries
  BY PlacedIs
<1> HIDE DEF m
<1>6. taken = [i \in 1..(1 + m - cur.next) |-> List(cur)[cur.next + i - 1]]
  BY <1>3, <1>4, <1>5
<1> DEFINE N == IF m < cur.next THEN 0 ELSE 1 + m - cur.next
<1>7. N \in Nat /\ N <= max /\ 1..(1 + m - cur.next) = 1..N
  BY <1>3, <1>4
<1> HIDE DEF taken, N
<1>8. taken = [i \in 1..N |-> taken[i]]
  BY <1>6, <1>7
<1>9. IsSeq(taken) /\ Len(taken) = N
  BY <1>7, <1>8, SeqOver
<1> QED
  BY <1>2, <1>7, <1>9
-----------------------------------------------------------------------------
\* The entries read one after the other are a function.
RunFun(f, N, t, taken, a) == \A i \in 0..N : f[i] = IF i = 0 THEN a ELSE WithEntry(t, f[i - 1], taken[i])

LEMMA RunIs ==
    ASSUME NEW N \in Nat, NEW t, NEW taken, NEW a
    PROVE  \E f : f = [i \in 0..N |-> f[i]] /\ RunFun(f, N, t, taken, a)
<1> DEFINE Def(m, f) == f = [i \in 0..m |-> IF i = 0 THEN a ELSE WithEntry(t, f[i - 1], taken[i])]
           T == {m \in Nat : ~ \E f : Def(m, f)}
<1>1. T = {}
  <2> SUFFICES ASSUME T # {} PROVE FALSE
    OBVIOUS
  <2>1. T \in SUBSET Nat
    OBVIOUS
  <2> HIDE DEF T
  <2>2. PICK m \in T : \A k \in T : m <= k
    BY <2>1, LeastOf
  <2>3. m \in Nat /\ ~ \E f : Def(m, f)
    BY DEF T
  <2>4. CASE m = 0
    <3> DEFINE z == [i \in 0..0 |-> a]
    <3>1. z = [i \in 0..0 |-> IF i = 0 THEN a ELSE WithEntry(t, z[i - 1], taken[i])]
      OBVIOUS
    <3>2. Def(0, z)
      BY <3>1, Zenon
    <3> HIDE DEF Def, z
    <3> QED
      BY <2>3, <2>4, <3>2
  <2>5. CASE m # 0
    <3>1. m - 1 \in Nat /\ m - 1 \notin T
      <4>1. m - 1 \in Nat /\ ~(m <= m - 1)
        BY <2>3, <2>5
      <4> QED
        BY <2>2, <4>1
    <3>2. PICK f : Def(m - 1, f)
      BY <3>1 DEF T
    <3> DEFINE g == [i \in 0..m |-> IF i = m THEN WithEntry(t, f[m - 1], taken[m]) ELSE f[i]]
    <3>3. \A i \in 0..(m - 1) : f[i] = IF i = 0 THEN a ELSE WithEntry(t, f[i - 1], taken[i])
      BY <3>2, Zenon
    <3>4. ASSUME NEW i \in 0..m PROVE g[i] = IF i = 0 THEN a ELSE WithEntry(t, g[i - 1], taken[i])
      <4>1. /\ g[i] = IF i = m THEN WithEntry(t, f[m - 1], taken[m]) ELSE f[i]
            /\ i # 0 => g[i - 1] = f[i - 1]
        BY <2>3
      <4>2. i # m => i \in 0..(m - 1)
        BY <2>3
      <4> HIDE DEF g
      <4> QED
        BY <2>5, <3>3, <4>1, <4>2
    <3>5. g = [i \in 0..m |-> g[i]]
      OBVIOUS
    <3> HIDE DEF g
    <3>6. Def(m, g)
      BY <3>4, <3>5, Zenon
    <3> HIDE DEF Def
    <3> QED
      BY <2>3, <3>6
  <2> QED
    BY <2>4, <2>5
<1>2. PICK f : Def(N, f)
  BY <1>1
<1>3. f = [i \in 0..N |-> f[i]]
  <2>1. f = [i \in 0..N |-> IF i = 0 THEN a ELSE WithEntry(t, f[i - 1], taken[i])]
    BY <1>2
  <2> DEFINE of(i) == IF i = 0 THEN a ELSE WithEntry(t, f[i - 1], taken[i])
  <2>2. f = [i \in 0..N |-> of(i)]
    BY <2>1, Zenon
  <2> HIDE DEF of
  <2> QED
    BY <2>2
<1>4. \A i \in 0..N : f[i] = IF i = 0 THEN a ELSE WithEntry(t, f[i - 1], taken[i])
  BY <1>2, Zenon
<1> QED
  BY <1>3, <1>4, Zenon DEF RunFun

LEMMA DecodedRunIs ==
    ASSUME NEW t, NEW rids, IsSeq(rids), NEW pin
    PROVE  IsSeq(DecodedRun(t, rids, pin)) /\ Len(DecodedRun(t, rids, pin)) = Len(rids)
<1> DEFINE f == DecodedRun(t, rids, pin)
<1>1. Len(rids) \in Nat /\ DOMAIN rids = 1..Len(rids)
  BY SeqIs
<1>2. f = [i \in 1..Len(rids) |-> f[i]]
  <2> DEFINE of(i) == IF PageOf(rids[i]) = pin THEN Decoded(t.layout, t.heap[rids[i]])
                      ELSE [c \in DOMAIN t.types |-> Null(t.types[c])]
  <2>1. f = [i \in 1..Len(rids) |-> of(i)]
    BY <1>1, Zenon DEF DecodedRun
  <2> HIDE DEF of, f
  <2> QED
    BY <2>1
<1> HIDE DEF f
<1>3. IsSeq(f) /\ Len(f) = Len(rids)
  BY <1>1, <1>2, SeqOver
<1> QED
  BY <1>3 DEF f

\* What has been read of a cursor's entries: rows, and a run not yet decoded.
IsRun(acc, n) ==
    /\ DOMAIN acc = {"rows", "run", "pin"}
    /\ IsSeq(acc.rows) /\ IsSeq(acc.run) /\ Len(acc.rows) + Len(acc.run) = n

LEMMA WithEntryIs ==
    ASSUME NEW t, NEW acc, NEW n \in Nat, IsRun(acc, n), NEW e
    PROVE  IsRun(WithEntry(t, acc, e), n + 1)
<1> DEFINE more == [acc EXCEPT !.run = Append(@, e.rid)]
           turned == [rows |-> acc.rows \o DecodedRun(t, acc.run, acc.pin),
                      run  |-> <<e.rid>>, pin |-> PageOf(e.rid)]
<1>1. WithEntry(t, acc, e) = IF PageOf(e.rid) = acc.pin THEN more ELSE turned
  BY DEF WithEntry
<1>2. /\ IsSeq(acc.rows) /\ Len(acc.rows) \in Nat /\ IsSeq(acc.run) /\ Len(acc.run) \in Nat
      /\ Len(acc.rows) + Len(acc.run) = n
  BY SeqIs DEF IsRun
<1>3. IsRun(more, n + 1)
  <2> DEFINE a == Append(acc.run, e.rid)
  <2>1. IsSeq(a) /\ Len(a) = Len(acc.run) + 1
    BY <1>2, AppendIs
  <2> HIDE DEF a
  <2>2. more = [acc EXCEPT !.run = a]
    BY DEF a
  <2> HIDE DEF more
  <2>3. DOMAIN more = {"rows", "run", "pin"} /\ more.rows = acc.rows /\ more.run = a
    BY <2>2 DEF IsRun
  <2> QED
    BY <1>2, <2>1, <2>3 DEF IsRun
<1>4. IsRun(turned, n + 1)
  <2> DEFINE d == DecodedRun(t, acc.run, acc.pin)
             c == acc.rows \o d
             one == <<e.rid>>
  <2>1. IsSeq(d) /\ Len(d) = Len(acc.run)
    BY <1>2, DecodedRunIs
  <2> HIDE DEF d
  <2>2. IsSeq(c) /\ Len(c) = Len(acc.rows) + Len(d)
    BY <1>2, <2>1, ConcatIs
  <2>3. IsSeq(one) /\ Len(one) = 1
    <3>1. one \in Seq({e.rid})
      OBVIOUS
    <3> QED
      BY <3>1 DEF IsSeq
  <2>4. DOMAIN turned = {"rows", "run", "pin"} /\ turned.rows = c /\ turned.run = one
    BY DEF d
  <2> HIDE DEF turned, c, one
  <2> QED
    BY <1>2, <2>1, <2>2, <2>3, <2>4 DEF IsRun
<1> QED
  BY <1>1, <1>3, <1>4

LEMMA RunsOf ==
    ASSUME NEW N \in Nat, NEW t, NEW taken, NEW a, IsRun(a, 0),
           NEW f, \A i \in 0..N : f[i] = IF i = 0 THEN a ELSE WithEntry(t, f[i - 1], taken[i])
    PROVE  \A i \in 0..N : IsRun(f[i], i)
<1> DEFINE T == {i \in 0..N : ~IsRun(f[i], i)}
<1>2. T = {}
  <2> SUFFICES ASSUME T # {} PROVE FALSE
    OBVIOUS
  <2>1. T \in SUBSET Nat
    OBVIOUS
  <2> HIDE DEF T
  <2>2. PICK i \in T : \A k \in T : i <= k
    BY <2>1, LeastOf
  <2>3. i \in 0..N /\ ~IsRun(f[i], i)
    BY DEF T
  <2>4. CASE i = 0
    BY <2>3, <2>4
  <2>5. CASE i # 0
    <3>1. i - 1 \in 0..N /\ i - 1 \in Nat /\ ~(i <= i - 1) /\ (i - 1) + 1 = i
      BY <2>3, <2>5
    <3>2. IsRun(f[i - 1], i - 1)
      BY <2>2, <3>1 DEF T
    <3>3. IsRun(WithEntry(t, f[i - 1], taken[i]), (i - 1) + 1)
      BY <3>1, <3>2, WithEntryIs
    <3> QED
      BY <2>3, <2>5, <3>1, <3>3
  <2> QED
    BY <2>4, <2>5
<1> QED
  BY <1>2

\* A fill reads a row for each of the entries ahead, and moves the cursor past them.
LEMMA FilledIs ==
    ASSUME DbInv, NEW cur, Placed(cur), NEW max \in Nat
    PROVE  /\ IsSeq(Filled(cur, max).rows) /\ Len(Filled(cur, max).rows) <= max
           /\ Placed(Filled(cur, max).cur)
<1> DEFINE t == database[cur.tab]
           taken == Ahead(cur, max)
           N == Len(taken)
           a == [rows |-> <<>>, run |-> <<>>, pin |-> cur.pin]
           upTo == CHOOSE f : f = [i \in 0..N |-> IF i = 0 THEN a ELSE WithEntry(t, f[i - 1], taken[i])]
           acc == upTo[Len(taken)]
           d == DecodedRun(t, acc.run, acc.pin)
           c == [cur EXCEPT !.next = @ + Len(taken), !.pin = acc.pin]
<1>1. Filled(cur, max) = [rows |-> acc.rows \o d, cur |-> c]
  BY DEF Filled
<1>2. IsSeq(taken) /\ N <= max /\ N \in Nat
  BY AheadIs, SeqIs
<1>3. IsRun(a, 0)
  BY EmptyIsSeq DEF IsRun
<1> HIDE DEF a, t, taken
<1>4. \A i \in 0..N : upTo[i] = IF i = 0 THEN a ELSE WithEntry(t, upTo[i - 1], taken[i])
  <2>1. \E f : f = [i \in 0..N |-> IF i = 0 THEN a ELSE WithEntry(t, f[i - 1], taken[i])]
    <3> HIDE DEF N
    <3>1. PICK f : f = [i \in 0..N |-> f[i]] /\ RunFun(f, N, t, taken, a)
      BY <1>2, RunIs
    <3>2. f = [i \in 0..N |-> IF i = 0 THEN a ELSE WithEntry(t, f[i - 1], taken[i])]
      BY <3>1, Zenon DEF RunFun
    <3> QED
      BY <3>2, Zenon
  <2> HIDE DEF N
  <2>2. upTo = [i \in 0..N |-> IF i = 0 THEN a ELSE WithEntry(t, upTo[i - 1], taken[i])]
    BY <2>1, Zenon
  <2> QED
    BY <2>2, Zenon
<1> HIDE DEF upTo
<1>5. IsRun(acc, N)
  <2>1. \A i \in 0..N : IsRun(upTo[i], i)
    <3> HIDE DEF N
    <3> QED
      BY <1>2, <1>3, <1>4, RunsOf
  <2> QED
    BY <1>2, <2>1
<1> HIDE DEF acc
<1>6. IsSeq(d) /\ Len(d) = Len(acc.run) /\ Len(d) \in Nat
  BY <1>5, DecodedRunIs, SeqIs DEF IsRun
<1> HIDE DEF d
<1>7. IsSeq(acc.rows \o d) /\ Len(acc.rows \o d) = N
  <2>1. IsSeq(acc.rows) /\ Len(acc.rows) \in Nat /\ Len(acc.rows) + Len(acc.run) = N
    BY <1>5, SeqIs DEF IsRun
  <2>2. IsSeq(acc.rows \o d) /\ Len(acc.rows \o d) = Len(acc.rows) + Len(d)
    BY <1>6, <2>1, ConcatIs
  <2> QED
    BY <1>6, <2>1, <2>2
<1>8. Placed(c)
  <2>1. cur.next + Len(taken) \in Nat
    BY <1>2 DEF Placed
  <2> QED
    BY <2>1 DEF Placed
<1> HIDE DEF c
<1> QED
  BY <1>1, <1>2, <1>7, <1>8

LEMMA FilledByPageIs ==
    ASSUME DbInv, NEW cur, Placed(cur), NEW max \in Nat
    PROVE  /\ IsSeq(FilledByPage(cur, max).rows) /\ Len(FilledByPage(cur, max).rows) <= max
           /\ Placed(FilledByPage(cur, max).cur)
<1> DEFINE t == database[cur.tab]
           taken == Ahead(cur, max)
           page(i) == PageOf(taken[i].rid)
           read(i) == DecodedRun(t, <<taken[i].rid>>, page(i))[1]
           rows == [i \in DOMAIN taken |-> read(i)]
           pin == IF taken = <<>> THEN cur.pin ELSE page(Len(taken))
           c == [cur EXCEPT !.next = @ + Len(taken), !.pin = IF taken = <<>> THEN @ ELSE page(Len(taken))]
<1>1. FilledByPage(cur, max) = [rows |-> rows, cur |-> c]
  BY DEF FilledByPage
<1>2. IsSeq(taken) /\ Len(taken) <= max /\ Len(taken) \in Nat /\ DOMAIN taken = 1..Len(taken)
  BY AheadIs, SeqIs
<1> HIDE DEF read, taken
<1>3. IsSeq(rows) /\ Len(rows) = Len(taken)
  <2>1. rows = [i \in 1..Len(taken) |-> rows[i]]
    BY <1>2
  <2> HIDE DEF rows
  <2> QED
    BY <1>2, <2>1, SeqOver
<1>4. Placed(c)
  <2>1. cur.next + Len(taken) \in Nat
    BY <1>2 DEF Placed
  <2> HIDE DEF page
  <2> QED
    BY <2>1 DEF Placed
<1> HIDE DEF c, rows
<1> QED
  BY <1>1, <1>2, <1>3, <1>4

LEMMA ByKeyIs ==
    ASSUME DbInv, NEW tab \in DOMAIN database, NEW key
    PROVE  IsSeq(ByKey(tab, key)) /\ Len(ByKey(tab, key)) <= 1
<1> DEFINE c == Sought(CursorOn(tab, 1), key, key)
<1>1. Placed(c)
  BY TreesOf, CursorOnIs, SoughtIs
<1>2. ByKey(tab, key) = Filled(c, 1).rows
  BY DEF ByKey
<1> HIDE DEF c
<1> QED
  BY <1>1, <1>2, FilledIs
-----------------------------------------------------------------------------
(* What a drain holds of the rows read: no fewer entries than before.      *)

LEMMA ExceptIs ==
    ASSUME NEW s, IsSeq(s), NEW w, NEW x
    PROVE  /\ IsSeq([s EXCEPT ![w] = x]) /\ Len([s EXCEPT ![w] = x]) = Len(s)
           /\ \A i \in 1..Len(s) : [s EXCEPT ![w] = x][i] = IF i = w THEN x ELSE s[i]
<1> DEFINE e == [s EXCEPT ![w] = x]
<1>1. Len(s) \in Nat /\ DOMAIN s = 1..Len(s)
  BY SeqIs
<1>2. DOMAIN e = 1..Len(s) /\ \A i \in 1..Len(s) : e[i] = IF i = w THEN x ELSE s[i]
  BY <1>1
<1>3. e = [i \in 1..Len(s) |-> e[i]]
  BY <1>1
<1> HIDE DEF e
<1>4. IsSeq(e) /\ Len(e) = Len(s)
  BY <1>1, <1>3, SeqOver
<1> QED
  BY <1>2, <1>4 DEF e

\* What a sort holds after each of the rows read is a function.
HeldFun(f, N, n, s, rows) == \A i \in 0..N : f[i] = IF i = 0 THEN s ELSE Held(n, f[i - 1], rows[i])

LEMMA AllHeldIs ==
    ASSUME NEW N \in Nat, NEW n, NEW s, NEW rows
    PROVE  \E f : f = [i \in 0..N |-> f[i]] /\ HeldFun(f, N, n, s, rows)
<1> DEFINE Def(m, f) == f = [i \in 0..m |-> IF i = 0 THEN s ELSE Held(n, f[i - 1], rows[i])]
           T == {m \in Nat : ~ \E f : Def(m, f)}
<1>1. T = {}
  <2> SUFFICES ASSUME T # {} PROVE FALSE
    OBVIOUS
  <2>1. T \in SUBSET Nat
    OBVIOUS
  <2> HIDE DEF T
  <2>2. PICK m \in T : \A k \in T : m <= k
    BY <2>1, LeastOf
  <2>3. m \in Nat /\ ~ \E f : Def(m, f)
    BY DEF T
  <2>4. CASE m = 0
    <3> DEFINE z == [i \in 0..0 |-> s]
    <3>1. z = [i \in 0..0 |-> IF i = 0 THEN s ELSE Held(n, z[i - 1], rows[i])]
      OBVIOUS
    <3>2. Def(0, z)
      BY <3>1, Zenon
    <3> HIDE DEF Def, z
    <3> QED
      BY <2>3, <2>4, <3>2
  <2>5. CASE m # 0
    <3>1. m - 1 \in Nat /\ m - 1 \notin T
      <4>1. m - 1 \in Nat /\ ~(m <= m - 1)
        BY <2>3, <2>5
      <4> QED
        BY <2>2, <4>1
    <3>2. PICK f : Def(m - 1, f)
      BY <3>1 DEF T
    <3> DEFINE g == [i \in 0..m |-> IF i = m THEN Held(n, f[m - 1], rows[m]) ELSE f[i]]
    <3>3. \A i \in 0..(m - 1) : f[i] = IF i = 0 THEN s ELSE Held(n, f[i - 1], rows[i])
      BY <3>2, Zenon
    <3>4. ASSUME NEW i \in 0..m PROVE g[i] = IF i = 0 THEN s ELSE Held(n, g[i - 1], rows[i])
      <4>1. /\ g[i] = IF i = m THEN Held(n, f[m - 1], rows[m]) ELSE f[i]
            /\ i # 0 => g[i - 1] = f[i - 1]
        BY <2>3
      <4>2. i # m => i \in 0..(m - 1)
        BY <2>3
      <4> HIDE DEF g
      <4> QED
        BY <2>5, <3>3, <4>1, <4>2
    <3>5. g = [i \in 0..m |-> g[i]]
      OBVIOUS
    <3> HIDE DEF g
    <3>6. Def(m, g)
      BY <3>4, <3>5, Zenon
    <3> HIDE DEF Def
    <3> QED
      BY <2>3, <3>6
  <2> QED
    BY <2>4, <2>5
<1>2. PICK f : Def(N, f)
  BY <1>1
<1>3. f = [i \in 0..N |-> f[i]]
  <2>1. f = [i \in 0..N |-> IF i = 0 THEN s ELSE Held(n, f[i - 1], rows[i])]
    BY <1>2
  <2> DEFINE of(i) == IF i = 0 THEN s ELSE Held(n, f[i - 1], rows[i])
  <2>2. f = [i \in 0..N |-> of(i)]
    BY <2>1, Zenon
  <2> HIDE DEF of
  <2> QED
    BY <2>2
<1>4. \A i \in 0..N : f[i] = IF i = 0 THEN s ELSE Held(n, f[i - 1], rows[i])
  BY <1>2, Zenon
<1> QED
  BY <1>3, <1>4, Zenon DEF HeldFun

\* A sort's state that holds at least m entries.
Holding(s, m) == DOMAIN s = DOMAIN Idle /\ IsSeq(s.rows) /\ Len(s.rows) >= m

LEMMA HeldOne ==
    ASSUME NEW n, NEW s, NEW m \in Nat, Holding(s, m), NEW row
    PROVE  Holding(Held(n, s, row), m)
<1> DEFINE e     == [prefix |-> Prefix(n, row), row |-> row, seq |-> s.k]
           read  == [s EXCEPT !.k = @ + 1]
           w     == CHOOSE i \in DOMAIN s.rows : \A j \in DOMAIN s.rows \ {i} : EntryBefore(n, s.rows[j], s.rows[i])
           worst == s.rows[w]
           more  == [read EXCEPT !.rows = Append(@, e)]
           other == [read EXCEPT !.rows[w] = e]
<1>1. Held(n, s, row) \in {read, more, other}
  BY Zenon DEF Held
<1>2. /\ DOMAIN read = DOMAIN Idle /\ read.rows = s.rows /\ "rows" \in DOMAIN read
  BY IdleIs DEF Holding
<1> HIDE DEF e, w, read
<1>3. IsSeq(s.rows) /\ Len(s.rows) \in Nat /\ Len(s.rows) >= m
  BY SeqIs DEF Holding
<1>4. IsSeq(Append(s.rows, e)) /\ Len(Append(s.rows, e)) = Len(s.rows) + 1
  BY <1>3, AppendIs
<1>5. IsSeq([s.rows EXCEPT ![w] = e]) /\ Len([s.rows EXCEPT ![w] = e]) = Len(s.rows)
  BY <1>3, ExceptIs
<1>6. DOMAIN more = DOMAIN Idle /\ more.rows = Append(s.rows, e)
  BY <1>2
<1>7. DOMAIN other = DOMAIN Idle /\ other.rows = [s.rows EXCEPT ![w] = e]
  BY <1>2
<1> HIDE DEF more, other
<1>8. Holding(read, m)
  BY <1>2, <1>3 DEF Holding
<1>9. Holding(more, m)
  BY <1>3, <1>4, <1>6 DEF Holding
<1>10. Holding(other, m)
  BY <1>3, <1>5, <1>7 DEF Holding
<1> QED
  BY <1>1, <1>8, <1>9, <1>10

LEMMA HoldsMore ==
    ASSUME NEW N \in Nat, NEW n, NEW s, NEW rows, NEW m \in Nat, Holding(s, m),
           NEW f, HeldFun(f, N, n, s, rows)
    PROVE  \A i \in 0..N : Holding(f[i], m)
<1> DEFINE T == {i \in 0..N : ~Holding(f[i], m)}
<1>1. T = {}
  <2> SUFFICES ASSUME T # {} PROVE FALSE
    OBVIOUS
  <2>1. T \in SUBSET Nat
    OBVIOUS
  <2> HIDE DEF T
  <2>2. PICK i \in T : \A k \in T : i <= k
    BY <2>1, LeastOf
  <2>3. i \in 0..N /\ ~Holding(f[i], m)
    BY DEF T
  <2>4. CASE i = 0
    BY <2>3, <2>4 DEF HeldFun
  <2>5. CASE i # 0
    <3>1. i - 1 \in 0..N /\ ~(i <= i - 1)
      BY <2>3, <2>5
    <3>2. Holding(f[i - 1], m)
      BY <2>2, <3>1 DEF T
    <3>3. Holding(Held(n, f[i - 1], rows[i]), m)
      BY <3>2, HeldOne
    <3> QED
      BY <2>3, <2>5, <3>3 DEF HeldFun
  <2> QED
    BY <2>4, <2>5
<1> QED
  BY <1>1

LEMMA AllHeldHolds ==
    ASSUME NEW n, NEW s, NEW m \in Nat, Holding(s, m), NEW rows, IsSeq(rows)
    PROVE  Holding(AllHeld(n, s, rows), m)
<1> DEFINE N == Len(rows)
           upTo == CHOOSE f : f = [i \in 0..N |-> IF i = 0 THEN s ELSE Held(n, f[i - 1], rows[i])]
<1>1. AllHeld(n, s, rows) = upTo[N]
  BY DEF AllHeld
<1>2. N \in Nat
  BY SeqIs
<1> HIDE DEF N
<1>3. HeldFun(upTo, N, n, s, rows)
  <2>1. PICK f : f = [i \in 0..N |-> f[i]] /\ HeldFun(f, N, n, s, rows)
    BY <1>2, AllHeldIs
  <2>2. f = [i \in 0..N |-> IF i = 0 THEN s ELSE Held(n, f[i - 1], rows[i])]
    BY <2>1, Zenon DEF HeldFun
  <2>3. upTo = [i \in 0..N |-> IF i = 0 THEN s ELSE Held(n, upTo[i - 1], rows[i])]
    BY <2>2, Zenon
  <2> QED
    BY <2>3, Zenon DEF HeldFun
<1> HIDE DEF upTo
<1>4. Holding(upTo[N], m)
  BY <1>2, <1>3, HoldsMore
<1> QED
  BY <1>1, <1>4

\* The groups after each of the rows read are a function.
GroupedFun(f, N, n, a, rows) == \A i \in 0..N : f[i] = IF i = 0 THEN a ELSE Grouped(n, f[i - 1], rows[i])

LEMMA AllGroupedIs ==
    ASSUME NEW N \in Nat, NEW n, NEW a, NEW rows
    PROVE  \E f : f = [i \in 0..N |-> f[i]] /\ GroupedFun(f, N, n, a, rows)
<1> DEFINE Def(m, f) == f = [i \in 0..m |-> IF i = 0 THEN a ELSE Grouped(n, f[i - 1], rows[i])]
           T == {m \in Nat : ~ \E f : Def(m, f)}
<1>1. T = {}
  <2> SUFFICES ASSUME T # {} PROVE FALSE
    OBVIOUS
  <2>1. T \in SUBSET Nat
    OBVIOUS
  <2> HIDE DEF T
  <2>2. PICK m \in T : \A k \in T : m <= k
    BY <2>1, LeastOf
  <2>3. m \in Nat /\ ~ \E f : Def(m, f)
    BY DEF T
  <2>4. CASE m = 0
    <3> DEFINE z == [i \in 0..0 |-> a]
    <3>1. z = [i \in 0..0 |-> IF i = 0 THEN a ELSE Grouped(n, z[i - 1], rows[i])]
      OBVIOUS
    <3>2. Def(0, z)
      BY <3>1, Zenon
    <3> HIDE DEF Def, z
    <3> QED
      BY <2>3, <2>4, <3>2
  <2>5. CASE m # 0
    <3>1. m - 1 \in Nat /\ m - 1 \notin T
      <4>1. m - 1 \in Nat /\ ~(m <= m - 1)
        BY <2>3, <2>5
      <4> QED
        BY <2>2, <4>1
    <3>2. PICK f : Def(m - 1, f)
      BY <3>1 DEF T
    <3> DEFINE g == [i \in 0..m |-> IF i = m THEN Grouped(n, f[m - 1], rows[m]) ELSE f[i]]
    <3>3. \A i \in 0..(m - 1) : f[i] = IF i = 0 THEN a ELSE Grouped(n, f[i - 1], rows[i])
      BY <3>2, Zenon
    <3>4. ASSUME NEW i \in 0..m PROVE g[i] = IF i = 0 THEN a ELSE Grouped(n, g[i - 1], rows[i])
      <4>1. /\ g[i] = IF i = m THEN Grouped(n, f[m - 1], rows[m]) ELSE f[i]
            /\ i # 0 => g[i - 1] = f[i - 1]
        BY <2>3
      <4>2. i # m => i \in 0..(m - 1)
        BY <2>3
      <4> HIDE DEF g
      <4> QED
        BY <2>5, <3>3, <4>1, <4>2
    <3>5. g = [i \in 0..m |-> g[i]]
      OBVIOUS
    <3> HIDE DEF g
    <3>6. Def(m, g)
      BY <3>4, <3>5, Zenon
    <3> HIDE DEF Def
    <3> QED
      BY <2>3, <3>6
  <2> QED
    BY <2>4, <2>5
<1>2. PICK f : Def(N, f)
  BY <1>1
<1>3. f = [i \in 0..N |-> f[i]]
  <2>1. f = [i \in 0..N |-> IF i = 0 THEN a ELSE Grouped(n, f[i - 1], rows[i])]
    BY <1>2
  <2> DEFINE of(i) == IF i = 0 THEN a ELSE Grouped(n, f[i - 1], rows[i])
  <2>2. f = [i \in 0..N |-> of(i)]
    BY <2>1, Zenon
  <2> HIDE DEF of
  <2> QED
    BY <2>2
<1>4. \A i \in 0..N : f[i] = IF i = 0 THEN a ELSE Grouped(n, f[i - 1], rows[i])
  BY <1>2, Zenon
<1> QED
  BY <1>3, <1>4, Zenon DEF GroupedFun

\* Groups as AllGrouped carries them along, at least m of them.
Grouping(s, m) ==
    /\ DOMAIN s = {"rows", "slots", "g", "over"}
    /\ IsSeq(s.rows) /\ Len(s.rows) >= m

LEMMA FoundGroups ==
    ASSUME NEW s, NEW m \in Nat, Grouping(s, m), NEW key, NEW aggs
    PROVE  Grouping(FoundOrAdded(s, key, aggs), m)
<1> DEFINE h    == Hash(key)
           same == {g \in DOMAIN s.rows : Hash(s.rows[g].key) = h /\ SameKey(key, s.rows[g].key)}
           i    == FirstSlot(s.slots, h, same)
           rows == Append(s.rows, NewGroup(key, aggs))
           filed == [s.slots EXCEPT ![i] = Len(rows)]
           slots == IF Len(rows) * 2 > Len(filed) THEN Grown(rows, filed) ELSE filed
           found == [s EXCEPT !.g = s.slots[i]]
           added == [s EXCEPT !.g = Len(rows), !.rows = rows, !.slots = slots]
<1>1. FoundOrAdded(s, key, aggs) = IF s.slots[i] # 0 THEN found ELSE added
  BY Zenon DEF FoundOrAdded
<1>2. IsSeq(s.rows) /\ Len(s.rows) \in Nat /\ Len(s.rows) >= m
  BY SeqIs DEF Grouping
<1>3. IsSeq(rows) /\ Len(rows) = Len(s.rows) + 1
  <2> DEFINE x == NewGroup(key, aggs)
  <2> HIDE DEF x
  <2>1. IsSeq(Append(s.rows, x)) /\ Len(Append(s.rows, x)) = Len(s.rows) + 1
    BY <1>2, AppendIs
  <2> QED
    BY <2>1 DEF x
<1> HIDE DEF slots, rows, i
<1>4. DOMAIN found = {"rows", "slots", "g", "over"} /\ found.rows = s.rows
  BY DEF Grouping
<1>5. DOMAIN added = {"rows", "slots", "g", "over"} /\ added.rows = rows
  BY DEF Grouping
<1> HIDE DEF found, added
<1> QED
  BY <1>1, <1>2, <1>3, <1>4, <1>5 DEF Grouping

LEMMA GroupedOne ==
    ASSUME NEW n, NEW s, NEW m \in Nat, Grouping(s, m), NEW row
    PROVE  Grouping(Grouped(n, s, row), m)
<1> DEFINE first == [s EXCEPT !.g = 1]
           found == FoundOrAdded(s, KeyOf(row, n.group), n.aggs)
           t  == IF n.group = <<>> THEN first ELSE found
           of == t.rows[t.g].states
           x  == [a \in DOMAIN n.aggs |-> Updated(n.aggs[a], of[a], row[n.aggs[a].col])]
           y  == t.over \/ \E a \in DOMAIN n.aggs : Overflows(n.aggs[a], of[a], row[n.aggs[a].col])
           u  == [t EXCEPT !.rows[t.g].states = x, !.over = y]
<1>1. Grouped(n, s, row) = u
  BY Zenon DEF Grouped
<1>2. Grouping(first, m)
  BY DEF Grouping
<1>3. Grouping(found, m)
  BY FoundGroups
<1> HIDE DEF first, found
<1>4. Grouping(t, m)
  BY <1>2, <1>3
<1> HIDE DEF t, x, y
<1> DEFINE r == [t.rows EXCEPT ![t.g] = [t.rows[t.g] EXCEPT !.states = x]]
<1>5. DOMAIN u = {"rows", "slots", "g", "over"} /\ u.rows = r
  BY <1>4 DEF Grouping
<1>6. IsSeq(r) /\ Len(r) = Len(t.rows)
  <2> DEFINE z == [t.rows[t.g] EXCEPT !.states = x]
  <2> HIDE DEF z
  <2>1. IsSeq([t.rows EXCEPT ![t.g] = z]) /\ Len([t.rows EXCEPT ![t.g] = z]) = Len(t.rows)
    BY <1>4, ExceptIs DEF Grouping
  <2> QED
    BY <2>1 DEF z
<1> HIDE DEF u, r
<1> QED
  BY <1>1, <1>4, <1>5, <1>6 DEF Grouping

LEMMA GroupsMore ==
    ASSUME NEW N \in Nat, NEW n, NEW a, NEW rows, NEW m \in Nat, Grouping(a, m),
           NEW f, GroupedFun(f, N, n, a, rows)
    PROVE  \A i \in 0..N : Grouping(f[i], m)
<1> DEFINE T == {i \in 0..N : ~Grouping(f[i], m)}
<1>1. T = {}
  <2> SUFFICES ASSUME T # {} PROVE FALSE
    OBVIOUS
  <2>1. T \in SUBSET Nat
    OBVIOUS
  <2> HIDE DEF T
  <2>2. PICK i \in T : \A k \in T : i <= k
    BY <2>1, LeastOf
  <2>3. i \in 0..N /\ ~Grouping(f[i], m)
    BY DEF T
  <2>4. CASE i = 0
    BY <2>3, <2>4 DEF GroupedFun
  <2>5. CASE i # 0
    <3>1. i - 1 \in 0..N /\ ~(i <= i - 1)
      BY <2>3, <2>5
    <3>2. Grouping(f[i - 1], m)
      BY <2>2, <3>1 DEF T
    <3>3. Grouping(Grouped(n, f[i - 1], rows[i]), m)
      BY <3>2, GroupedOne
    <3> QED
      BY <2>3, <2>5, <3>3 DEF GroupedFun
  <2> QED
    BY <2>4, <2>5
<1> QED
  BY <1>1

\* The groups before any of the rows, and after all of them.
Before(s) == [rows |-> s.rows, slots |-> s.slots, g |-> 0, over |-> FALSE]

LEMMA AllGroupedIsLast ==
    ASSUME NEW n, NEW s, NEW rows, IsSeq(rows)
    PROVE  \E f : /\ AllGrouped(n, s, rows) = f[Len(rows)]
                 /\ GroupedFun(f, Len(rows), n, Before(s), rows)
<1> DEFINE N == Len(rows)
           a == [rows |-> s.rows, slots |-> s.slots, g |-> 0, over |-> FALSE]
           upTo == CHOOSE f : f = [i \in 0..N |-> IF i = 0 THEN a ELSE Grouped(n, f[i - 1], rows[i])]
<1>1. AllGrouped(n, s, rows) = upTo[N]
  BY DEF AllGrouped
<1>2. N \in Nat
  BY SeqIs
<1>3. a = Before(s)
  BY DEF Before
<1> HIDE DEF a
<1>4. GroupedFun(upTo, N, n, a, rows)
  <2> HIDE DEF N
  <2>1. PICK f : f = [i \in 0..N |-> f[i]] /\ GroupedFun(f, N, n, a, rows)
    BY <1>2, AllGroupedIs
  <2>2. f = [i \in 0..N |-> IF i = 0 THEN a ELSE Grouped(n, f[i - 1], rows[i])]
    BY <2>1, Zenon DEF GroupedFun
  <2>3. upTo = [i \in 0..N |-> IF i = 0 THEN a ELSE Grouped(n, upTo[i - 1], rows[i])]
    BY <2>2, Zenon
  <2> QED
    BY <2>3, Zenon DEF GroupedFun
<1> HIDE DEF upTo
<1> QED
  BY <1>1, <1>3, <1>4

LEMMA AllGroupedHolds ==
    ASSUME NEW n, NEW s, IsSeq(s.rows), NEW rows, IsSeq(rows)
    PROVE  IsSeq(AllGrouped(n, s, rows).rows) /\ Len(AllGrouped(n, s, rows).rows) >= Len(s.rows)
<1>1. PICK f : /\ AllGrouped(n, s, rows) = f[Len(rows)]
               /\ GroupedFun(f, Len(rows), n, Before(s), rows)
  BY AllGroupedIsLast
<1>2. Len(rows) \in Nat /\ Len(s.rows) \in Nat
  BY SeqIs
<1>3. Grouping(Before(s), Len(s.rows))
  BY <1>2 DEF Before, Grouping
<1>4. \A i \in 0..Len(rows) : Grouping(f[i], Len(s.rows))
  BY <1>1, <1>2, <1>3, GroupsMore
<1>5. Len(rows) \in 0..Len(rows)
  BY <1>2
<1> QED
  BY <1>1, <1>4, <1>5 DEF Grouping
-----------------------------------------------------------------------------
(* How many rows a call hands up: what each node holds, what each frame    *)
(* may ask for, and which nodes are ready to be asked.                     *)

\* What a node holds suits its operator.
Fits(node, s) ==
    /\ IsSeq(s.rows)
    /\ node.op \in {"aggregate", "sort", "minmax"} => s.given \in Nat /\ s.given <= Len(s.rows)
    /\ node.op = "limit" => s.given \in Nat
    /\ node.op \in Joins => IsSeq(s.out)
    /\ s.cur = NoCursor \/ Placed(s.cur)

NodesInv == \A n \in DOMAIN plan : Fits(plan[n], st[n])

\* A call for rows asks for some; one made through a filter, a projection or a limit for
\* no more than those were asked for.
AskedInv ==
    \A i \in DOMAIN stack : stack[i].call = "next" =>
        /\ stack[i].max \in Nat \ {0}
        /\ i > 1 /\ plan[stack[i - 1].node].op \in Through => stack[i].max <= stack[i - 1].max

\* The rows that the frame f may hand up.
Room(f) == IF batch = 0 THEN 1 ELSE Least(f.max, batch)
Cap     == IF batch = 0 THEN 1 ELSE batch

\* A join gathers only while it is asked, and no more than its caller has room for.
OutInv ==
    \A n \in DOMAIN plan : plan[n].op \in Joins /\ st[n].out # <<>> =>
        \E i \in DOMAIN stack : stack[i].node = n /\ stack[i].call = "next" /\ Len(st[n].out) <= Room(stack[i])

RowsInv ==
    reply.kind = "rows" =>
        /\ reply.call = "next" /\ reply.max \in Nat \ {0}
        /\ IsBatch(reply.batch) /\ Count(reply.batch) \in 1..Least(reply.max, Cap)
        /\ stack # <<>> /\ Node.op \in Through => reply.max <= Top.max

\* The nodes of A are open, as are those they stream: they may be asked for rows.
Ready(A) ==
    /\ \A i \in DOMAIN stack : stack[i].node \in A <=> stack[i].call = "next"
    /\ Answering /\ reply.call # "close" => reply.node \in A
    /\ \A p \in A : \A m : Streams(p, m) => m \in A
    /\ \A n \in A : plan[n].op = "inlj" => st[n].cur # NoCursor

ReadyInv == \E A \in SUBSET (DOMAIN plan) : Ready(A)

\* An index join that is opening has its cursor by the time its input opens.
SearchInv ==
    \A i \in DOMAIN stack :
        /\ stack[i].call = "open" /\ plan[stack[i].node].op = "inlj"
        /\ i < Len(stack) \/ Answering
        => st[stack[i].node].cur # NoCursor

SInv == DbInv /\ NodesInv /\ AskedInv /\ OutInv /\ RowsInv /\ ReadyInv /\ SearchInv
-----------------------------------------------------------------------------
(* A step of an operator changes what its own node holds.                  *)

Still == Working /\ UNCHANGED <<database, batch>>

Alters(s) ==
    /\ DOMAIN st' = DOMAIN st /\ st'[Top.node] = s
    /\ \A n \in DOMAIN st \ {Top.node} : st'[n] = st[n]

LEMMA BecomesAlters == ASSUME IInv, stack # <<>>, NEW s, Becomes(s) PROVE Alters(s)
<1>1. Top.node \in DOMAIN st
  BY InCall DEF IInv, HeldInv
<1>2. st' = [st EXCEPT ![Top.node] = s]
  BY DEF Becomes
<1> QED
  BY <1>1, <1>2 DEF Alters

LEMMA SameAlters == ASSUME IInv, stack # <<>>, UNCHANGED st PROVE Alters(S)
BY DEF Alters, S

LEMMA StillDb == ASSUME IInv, DbInv, status = "running", Still PROVE DbInv'
<1>1. /\ database' = database /\ batch' = batch /\ query' = query /\ status' = status /\ plan' = plan
  BY DEF Still, Working
<1>2. Planned(plan)
  BY DEF DbInv
<1>3. Planned(plan)'
  BY <1>1, <1>2 DEF Planned, Fit, Tree
<1> QED
  BY <1>1, <1>3 DEF DbInv

LEMMA StillFits ==
    ASSUME UNCHANGED database, NEW node, NEW s, Fits(node, s)
    PROVE  Fits(node, s)'
BY DEF Fits, Placed

\* What is known in the middle of a call.
LEMMA Now ==
    ASSUME IInv, SInv, stack # <<>>
    PROVE  /\ Fits(Node, S) /\ Fit(Node) /\ DOMAIN S = DOMAIN Idle /\ Top.call \in Calling
           /\ batch \in Nat
           /\ Top.call = "next" => /\ Top.max \in Nat \ {0} /\ Want \in Nat \ {0}
                                   /\ Want <= Least(Top.max, Cap) /\ Want <= Top.max
           /\ Node.op \in Joins => /\ IsSeq(S.out)
                                   /\ Top.call = "next" => Len(S.out) <= Want
                                   /\ Top.call # "next" => S.out = <<>>
           /\ Node.op = "inlj" /\ (Top.call = "next" \/ (Top.call = "open" /\ Answering))
                 => S.cur # NoCursor /\ Placed(S.cur)
<1> DEFINE K == Len(stack)
<1>1. /\ status = "running" /\ Tree(plan) /\ IsSeq(stack) /\ K \in Nat \ {0} /\ DOMAIN stack = 1..K
      /\ Top = stack[K] /\ Top.node \in DOMAIN plan /\ Top.call \in Calling
      /\ Node = plan[Top.node] /\ S = st[Top.node] /\ DOMAIN S = DOMAIN Idle
  BY InCall
<1>2. Fits(Node, S) /\ Fit(Node) /\ batch \in Nat
  BY <1>1 DEF SInv, NodesInv, DbInv, Planned
<1>3. K \in DOMAIN stack
  BY <1>1
<1> HIDE DEF K
<1>4. Top.call = "next" => Top.max \in Nat \ {0}
  BY <1>1, <1>3 DEF SInv, AskedInv
<1>5. Top.call = "next" => Want \in Nat \ {0} /\ Want <= Least(Top.max, Cap) /\ Want <= Top.max
  BY <1>2, <1>4 DEF Want, Least, Cap
<1>6. Node.op \in Joins /\ S.out # <<>> => Top.call = "next" /\ Len(S.out) <= Want
  <2> SUFFICES ASSUME Node.op \in Joins, S.out # <<>> PROVE Top.call = "next" /\ Len(S.out) <= Want
    OBVIOUS
  <2>1. PICK i \in DOMAIN stack : stack[i].node = Top.node /\ stack[i].call = "next" /\ Len(S.out) <= Room(stack[i])
    BY <1>1 DEF SInv, OutInv
  <2>2. i = K
    BY <1>1, <1>3, <2>1, OneFrame
  <2>3. Room(Top) = Want
    BY DEF Room, Want
  <2> QED
    BY <1>1, <2>1, <2>2, <2>3
<1>7. Node.op \in Joins => /\ IsSeq(S.out)
                           /\ Top.call = "next" => Len(S.out) <= Want
                           /\ Top.call # "next" => S.out = <<>>
  <2>1. S.out = <<>> => Len(S.out) = 0
    BY EmptyIsSeq
  <2> QED
    BY <1>2, <1>5, <1>6, <2>1 DEF Fits
<1>8. Node.op = "inlj" /\ (Top.call = "next" \/ (Top.call = "open" /\ Answering)) => S.cur # NoCursor
  <2>1. PICK A \in SUBSET (DOMAIN plan) : Ready(A)
    BY DEF SInv, ReadyInv
  <2>2. CASE Top.call = "next"
    <3>1. Top.node \in A
      BY <1>1, <1>3, <2>1, <2>2 DEF Ready
    <3> QED
      BY <1>1, <2>1, <3>1 DEF Ready
  <2>3. CASE Top.call = "open"
    BY <1>1, <1>3, <2>3 DEF SInv, SearchInv
  <2> QED
    BY <2>2, <2>3
<1>9. S.cur # NoCursor => Placed(S.cur)
  BY <1>2 DEF Fits
<1> QED
  BY <1>1, <1>2, <1>4, <1>5, <1>7, <1>8, <1>9

LEMMA NodesKept ==
    ASSUME IInv, SInv, stack # <<>>, Still, NEW s, Alters(s), Fits(Node, s)
    PROVE  NodesInv'
<1>1. plan' = plan /\ UNCHANGED database
  BY DEF Still, Working
<1>2. DOMAIN st = DOMAIN plan /\ Top.node \in DOMAIN plan /\ Node = plan[Top.node]
  BY InCall DEF IInv, HeldInv
<1>3. ASSUME NEW n \in DOMAIN plan PROVE Fits(plan[n], st'[n])
  BY <1>2 DEF Alters, SInv, NodesInv
<1>4. ASSUME NEW n \in DOMAIN plan PROVE Fits(plan[n], st[n])'
  BY <1>1, <1>3 DEF Fits, Placed
<1> QED
  BY <1>1, <1>4 DEF NodesInv

\* The frames below the top are of other nodes.
LEMMA OthersBelow ==
    ASSUME IInv, stack # <<>>, NEW i \in DOMAIN stack, i # Len(stack)
    PROVE  stack[i].node # Top.node /\ i < Len(stack) /\ i \in 1..(Len(stack) - 1)
<1>1. /\ Tree(plan) /\ Len(stack) \in Nat \ {0} /\ DOMAIN stack = 1..Len(stack) /\ Top = stack[Len(stack)]
  BY InCall
<1>2. Len(stack) \in DOMAIN stack
  BY <1>1
<1>3. stack[i].node # Top.node
  BY <1>1, <1>2, OneFrame
<1> QED
  BY <1>1, <1>3
-----------------------------------------------------------------------------
(* Calls, returns and pauses keep the invariant.                           *)

LEMMA Unmoved ==
    ASSUME IInv, stack # <<>>, NEW s, Alters(s), NEW n \in DOMAIN plan
    PROVE  /\ n = Top.node => st'[n] = s
           /\ n # Top.node => st'[n] = st[n]
BY DEF Alters, IInv, HeldInv

LEMMA CallSize ==
    ASSUME IInv, SInv, stack # <<>>, Still, NEW s, Alters(s), Fits(Node, s),
           NEW child, NEW call \in Calling, NEW max, Call(child, call, max), Link(Top, child, call),
           call = "next" => max \in Nat \ {0} /\ (Node.op \in Through => max <= Top.max),
           call = "next" /\ Top.call = "open" => Answering /\ reply.call # "close" /\ reply.node = child,
           Node.op \in Joins => s.out = <<>> \/ (Top.call = "next" /\ Len(s.out) <= Want),
           Node.op = "inlj" /\ Top.call # "close" => s.cur # NoCursor
    PROVE  SInv'
<1> DEFINE K == Len(stack)
           f == [node |-> child, call |-> call, max |-> max]
           t == Top.node
<1>1. /\ status = "running" /\ Tree(plan) /\ IsSeq(stack) /\ K \in Nat \ {0} /\ DOMAIN stack = 1..K
      /\ Top = stack[K] /\ t \in DOMAIN plan /\ Top.call \in Calling /\ Node = plan[t]
  BY InCall
<1>2. stack' = Append(stack, f) /\ reply' = NoReply /\ plan' = plan /\ batch' = batch /\ database' = database
  BY DEF Call, Still, Working
<1>3. /\ IsSeq(stack') /\ Len(stack') = K + 1
      /\ \A i \in 1..K : stack'[i] = stack[i]
      /\ stack'[K + 1] = f
  BY <1>1, <1>2, AppendIs
<1>4. DOMAIN stack' = 1..(K + 1)
  BY <1>3, SeqIs
<1>5. ASSUME NEW i \in 1..K, i # K PROVE i < K /\ stack[i].node # t /\ i \in DOMAIN stack
  BY <1>1, <1>5, OthersBelow
<1>6. child \in Ins(plan[t]) /\ child \in DOMAIN plan /\ child < t
  BY <1>1, LinkIns
<1>7. \A i \in 1..K : stack[i].node # child
  <2> SUFFICES ASSUME NEW i \in 1..K PROVE stack[i].node # child
    OBVIOUS
  <2>0. t \in Nat /\ child \in Nat
    BY <1>1, <1>6, NodeFacts
  <2> HIDE DEF K
  <2>1. CASE i = K
    BY <1>1, <1>6, <2>0, <2>1
  <2>2. CASE i # K
    <3>1. K \in DOMAIN stack /\ i \in 1..(K - 1)
      BY <1>1, <2>2
    <3>2. stack[K].node < stack[i].node /\ stack[i].node \in DOMAIN plan
      BY <1>1, <3>1 DEF IInv, FramesInv
    <3>3. stack[i].node \in Nat
      BY <1>1, <3>2, NodeFacts
    <3> QED
      BY <1>1, <1>6, <2>0, <3>2, <3>3
  <2> QED
    BY <2>1, <2>2
<1>8. f.node = child /\ f.call = call /\ f.max = max
  OBVIOUS
<1>9. K \in DOMAIN stack
  BY <1>1
<1>10. ~Answering' /\ reply'.kind # "rows"
  BY <1>2 DEF Answering, NoReply
<1> HIDE DEF f, K
<1>11. DbInv' /\ NodesInv'
  BY <1>1, StillDb, NodesKept DEF SInv
<1>12. AskedInv'
  <2> SUFFICES ASSUME NEW i \in 1..(K + 1), stack'[i].call = "next"
               PROVE  /\ stack'[i].max \in Nat \ {0}
                      /\ i > 1 /\ plan[stack'[i - 1].node].op \in Through => stack'[i].max <= stack'[i - 1].max
    BY <1>2, <1>4 DEF AskedInv
  <2>1. CASE i \in 1..K
    <3>1. stack'[i] = stack[i] /\ (i > 1 => stack'[i - 1] = stack[i - 1])
      BY <1>1, <1>3, <2>1
    <3> QED
      BY <1>1, <2>1, <3>1 DEF SInv, AskedInv
  <2>2. CASE i = K + 1
    <3>1. stack'[i] = f /\ stack'[i - 1] = Top
      BY <1>1, <1>3, <2>2
    <3> QED
      BY <1>1, <1>8, <3>1
  <2> QED
    BY <1>1, <2>1, <2>2
<1>13. OutInv'
  <2> SUFFICES ASSUME NEW n \in DOMAIN plan, plan[n].op \in Joins, st'[n].out # <<>>
               PROVE  \E i \in 1..(K + 1) : /\ stack'[i].node = n /\ stack'[i].call = "next"
                                            /\ Len(st'[n].out) <= Room(stack'[i])
    BY <1>2, <1>4 DEF OutInv, Room
  <2>1. CASE n = t
    <3>1. Top.call = "next" /\ Len(s.out) <= Want /\ st'[n] = s
      BY <1>1, <2>1, Unmoved
    <3>2. Room(Top) = Want
      BY DEF Room, Want
    <3>3. K \in 1..(K + 1) /\ stack'[K] = Top
      BY <1>1, <1>3
    <3> QED
      BY <2>1, <3>1, <3>2, <3>3
  <2>2. CASE n # t
    <3>1. st'[n] = st[n]
      BY <2>2, Unmoved
    <3>2. PICK i \in DOMAIN stack : stack[i].node = n /\ stack[i].call = "next" /\ Len(st[n].out) <= Room(stack[i])
      BY <3>1 DEF SInv, OutInv
    <3>3. i \in 1..(K + 1) /\ stack'[i] = stack[i]
      BY <1>1, <1>3
    <3> QED
      BY <3>1, <3>2, <3>3
  <2> QED
    BY <2>1, <2>2
<1>14. RowsInv'
  BY <1>10 DEF RowsInv
<1>15. ReadyInv'
  <2>1. PICK A \in SUBSET (DOMAIN plan) : Ready(A)
    BY DEF SInv, ReadyInv
  <2>2. t \in A <=> Top.call = "next"
    BY <1>1, <1>9, <2>1 DEF Ready
  <2>0. PICK B : B = IF call = "next" THEN A ELSE A \ {child}
    OBVIOUS
  <2>3. ASSUME NEW i \in 1..(K + 1) PROVE stack'[i].node \in B <=> stack'[i].call = "next"
    <3>1. CASE i \in 1..K
      <4>1. stack'[i] = stack[i] /\ stack[i].node # child /\ i \in DOMAIN stack
        BY <1>1, <1>3, <1>7, <3>1
      <4> QED
        BY <2>0, <2>1, <4>1 DEF Ready
    <3>2. CASE i = K + 1
      <4>1. stack'[i].node = child /\ stack'[i].call = call
        BY <1>3, <1>8, <3>2
      <4>2. call = "next" => child \in A
        <5> SUFFICES ASSUME call = "next" PROVE child \in A
          OBVIOUS
        <5>1. CASE Top.call = "next"
          BY <2>1, <2>2, <5>1 DEF Link, Ready
        <5>2. CASE Top.call = "open"
          BY <2>1, <5>2 DEF Ready
        <5>3. Top.call # "close"
          BY DEF Link
        <5> QED
          BY <1>1, <5>1, <5>2, <5>3 DEF Calling
      <4> QED
        BY <2>0, <4>1, <4>2
    <3> QED
      BY <1>1, <3>1, <3>2
  <2>4. ASSUME NEW p \in B, NEW m, Streams(p, m) PROVE m \in B
    <3>1. p \in A /\ m \in A
      BY <2>0, <2>1, <2>4 DEF Ready
    <3>2. CASE call # "next" /\ m = child
      <4>1. m \in Ins(plan[p])
        BY <1>1, <2>4, <3>1, NodeFacts DEF Streams
      <4>2. p = t
        BY <1>1, <1>6, <3>1, <3>2, <4>1, OneReader
      <4> QED
        BY <2>2, <3>1, <3>2, <4>2 DEF Link
    <3> QED
      BY <2>0, <3>1, <3>2
  <2>5. ASSUME NEW n \in B, plan[n].op = "inlj" PROVE st'[n].cur # NoCursor
    <3>1. n \in A /\ n \in DOMAIN plan
      BY <2>0
    <3>2. CASE n = t
      <4>1. Top.call = "next" /\ st'[n] = s
        BY <2>2, <3>1, <3>2, Unmoved
      <4> QED
        BY <1>1, <2>5, <3>2, <4>1
    <3>3. CASE n # t
      <4>1. st'[n] = st[n]
        BY <3>1, <3>3, Unmoved
      <4> QED
        BY <2>1, <2>5, <3>1, <4>1 DEF Ready
    <3> QED
      BY <3>2, <3>3
  <2>6. Ready(B)'
    BY <1>2, <1>4, <1>10, <2>3, <2>4, <2>5 DEF Ready, Streams
  <2>7. B \in SUBSET (DOMAIN plan')
    BY <1>2, <2>0
  <2> QED
    BY <2>6, <2>7 DEF ReadyInv
<1>16. SearchInv'
  <2> SUFFICES ASSUME NEW i \in 1..(K + 1), stack'[i].call = "open", plan[stack'[i].node].op = "inlj", i < K + 1
               PROVE  st'[stack'[i].node].cur # NoCursor
    BY <1>2, <1>3, <1>4, <1>10 DEF SearchInv
  <2>1. i \in 1..K /\ stack'[i] = stack[i]
    BY <1>1, <1>3
  <2>2. CASE i = K
    <3>1. stack[i] = Top /\ st'[t] = s
      BY <1>1, <2>2, Unmoved
    <3> QED
      BY <1>1, <2>1, <3>1
  <2>3. CASE i # K
    <3>1. i < K /\ stack[i].node # t /\ i \in DOMAIN stack
      BY <1>5, <2>1, <2>3
    <3>2. stack[i].node \in DOMAIN plan
      BY <3>1 DEF IInv, FramesInv
    <3>3. st'[stack[i].node] = st[stack[i].node]
      BY <3>1, <3>2, Unmoved
    <3> QED
      BY <2>1, <3>1, <3>3 DEF SInv, SearchInv, K
  <2> QED
    BY <2>2, <2>3
<1> QED
  BY <1>11, <1>12, <1>13, <1>14, <1>15, <1>16 DEF SInv

LEMMA ReturnSize ==
    ASSUME IInv, SInv, stack # <<>>, Still, NEW s, Alters(s), Fits(Node, s),
           NEW kind \in {"done", "end", "rows"}, NEW b, Return(kind, b),
           kind = "rows" => Top.call = "next" /\ IsBatch(b) /\ Count(b) \in 1..Want,
           Top.call = "open" => \A m : Streams(Top.node, m) => Answering /\ reply.call # "close" /\ reply.node = m,
           Node.op \in Joins => s.out = <<>>,
           Node.op = "inlj" /\ Top.call # "close" => s.cur # NoCursor
    PROVE  SInv'
<1> DEFINE K == Len(stack)
           t == Top.node
<1>1. /\ status = "running" /\ Tree(plan) /\ IsSeq(stack) /\ K \in Nat \ {0} /\ DOMAIN stack = 1..K
      /\ Top = stack[K] /\ t \in DOMAIN plan /\ Top.call \in Calling /\ Node = plan[t]
  BY InCall
<1>2. /\ stack' = Front(stack) /\ plan' = plan /\ batch' = batch /\ database' = database
      /\ reply' = [kind |-> kind, node |-> t, call |-> Top.call, max |-> Top.max, batch |-> b]
  BY DEF Return, Still, Working
<1>3. /\ IsSeq(stack') /\ Len(stack') = K - 1
      /\ \A i \in 1..(K - 1) : stack'[i] = stack[i]
  BY <1>1, <1>2, FrontOf
<1>4. DOMAIN stack' = 1..(K - 1)
  BY <1>3, SeqIs
<1>5. ASSUME NEW i \in 1..(K - 1) PROVE i < K /\ stack[i].node # t /\ i \in DOMAIN stack /\ stack[i].node \in DOMAIN plan
  <2>1. i \in DOMAIN stack /\ i # K
    <3> HIDE DEF K
    <3> QED
      BY <1>1
  <2>2. stack[i].node # t /\ i < K
    BY <1>1, <2>1, OthersBelow
  <2> QED
    BY <2>1, <2>2 DEF IInv, FramesInv
<1>6. K \in DOMAIN stack
  BY <1>1
<1> HIDE DEF K
<1>11. DbInv' /\ NodesInv'
  BY <1>1, StillDb, NodesKept DEF SInv
<1>12. AskedInv'
  <2> SUFFICES ASSUME NEW i \in 1..(K - 1), stack'[i].call = "next"
               PROVE  /\ stack'[i].max \in Nat \ {0}
                      /\ i > 1 /\ plan[stack'[i - 1].node].op \in Through => stack'[i].max <= stack'[i - 1].max
    BY <1>2, <1>4 DEF AskedInv
  <2>1. stack'[i] = stack[i] /\ (i > 1 => stack'[i - 1] = stack[i - 1])
    BY <1>1, <1>3
  <2> QED
    BY <1>1, <1>5, <2>1 DEF SInv, AskedInv
<1>13. OutInv'
  <2> SUFFICES ASSUME NEW n \in DOMAIN plan, plan[n].op \in Joins, st'[n].out # <<>>
               PROVE  \E i \in 1..(K - 1) : /\ stack'[i].node = n /\ stack'[i].call = "next"
                                            /\ Len(st'[n].out) <= Room(stack'[i])
    BY <1>2, <1>4 DEF OutInv, Room
  <2>1. n # t
    BY <1>1, Unmoved
  <2>2. st'[n] = st[n]
    BY <2>1, Unmoved
  <2>3. PICK i \in DOMAIN stack : stack[i].node = n /\ stack[i].call = "next" /\ Len(st[n].out) <= Room(stack[i])
    BY <2>2 DEF SInv, OutInv
  <2>4. i \in 1..(K - 1)
    BY <1>1, <2>1, <2>3
  <2>5. stack'[i] = stack[i]
    BY <1>3, <2>4
  <2> QED
    BY <2>2, <2>3, <2>4, <2>5
<1>14. RowsInv'
  <2> SUFFICES ASSUME kind = "rows"
               PROVE  /\ Top.call = "next" /\ Top.max \in Nat \ {0}
                      /\ IsBatch(b) /\ Count(b) \in 1..Least(Top.max, Cap)
                      /\ stack' # <<>> /\ plan[Top'.node].op \in Through => Top.max <= Top'.max
    <3>1. reply'.call = Top.call /\ reply'.max = Top.max /\ reply'.batch = b /\ reply'.kind = kind
      BY <1>2
    <3>2. Node' = plan[Top'.node] /\ Cap' = Cap
      BY <1>2 DEF Node, Cap
    <3> QED
      BY <3>1, <3>2 DEF RowsInv, Least
  <2>1. Top.max \in Nat \ {0} /\ Want \in Nat \ {0} /\ Want <= Least(Top.max, Cap) /\ batch \in Nat
    BY Now
  <2>2. Count(b) \in 1..Least(Top.max, Cap)
    <3>1. Least(Top.max, Cap) \in Nat
      BY <2>1 DEF Least, Cap
    <3> QED
      BY <2>1, <3>1
  <2>3. stack' # <<>> /\ plan[Top'.node].op \in Through => Top.max <= Top'.max
    <3> SUFFICES ASSUME stack' # <<>>, plan[Top'.node].op \in Through PROVE Top.max <= Top'.max
      OBVIOUS
    <3>1. Top' = stack[K - 1]
      BY <1>2, Popped DEF K
    <3>2. K > 1
      BY <1>1, <1>3, SeqIs
    <3> QED
      BY <1>1, <1>6, <3>1, <3>2 DEF SInv, AskedInv
  <2> QED
    BY <2>1, <2>2, <2>3
<1>15. ReadyInv'
  <2>1. PICK A \in SUBSET (DOMAIN plan) : Ready(A)
    BY DEF SInv, ReadyInv
  <2>2. t \in A <=> Top.call = "next"
    BY <1>1, <1>6, <2>1 DEF Ready
  <2>0. PICK B : B = IF Top.call = "open" THEN A \cup {t} ELSE A
    OBVIOUS
  <2>3. ASSUME NEW i \in 1..(K - 1) PROVE stack'[i].node \in B <=> stack'[i].call = "next"
    <3>1. stack'[i] = stack[i] /\ stack[i].node # t /\ i \in DOMAIN stack
      BY <1>3, <1>5
    <3> QED
      BY <2>0, <2>1, <3>1 DEF Ready
  <2>4. ASSUME NEW p \in B, NEW m, Streams(p, m) PROVE m \in B
    <3>1. CASE p \in A
      BY <2>0, <2>1, <2>4, <3>1 DEF Ready
    <3>2. CASE p \notin A
      <4>1. Top.call = "open" /\ p = t
        BY <2>0, <3>2
      <4>2. Answering /\ reply.call # "close" /\ reply.node = m
        BY <2>4, <4>1
      <4> QED
        BY <2>0, <2>1, <4>2 DEF Ready
    <3> QED
      BY <3>1, <3>2
  <2>5. ASSUME NEW n \in B, plan[n].op = "inlj" PROVE st'[n].cur # NoCursor
    <3>1. n \in DOMAIN plan
      BY <1>1, <2>0
    <3>2. CASE n = t
      <4>1. Top.call # "close" /\ st'[n] = s
        BY <2>0, <2>2, <3>1, <3>2, Unmoved
      <4> QED
        BY <1>1, <2>5, <3>2, <4>1
    <3>3. CASE n # t
      <4>1. st'[n] = st[n] /\ n \in A
        BY <2>0, <3>1, <3>3, Unmoved
      <4> QED
        BY <2>1, <2>5, <4>1 DEF Ready
    <3> QED
      BY <3>2, <3>3
  <2>6. reply'.call # "close" => reply'.node \in B
    BY <1>1, <1>2, <2>0, <2>2 DEF Calling
  <2>7. Ready(B)'
    BY <1>2, <1>4, <2>3, <2>4, <2>5, <2>6 DEF Ready, Streams
  <2>8. B \in SUBSET (DOMAIN plan')
    BY <1>1, <1>2, <2>0
  <2> QED
    BY <2>7, <2>8 DEF ReadyInv
<1>16. SearchInv'
  <2> SUFFICES ASSUME NEW i \in 1..(K - 1), stack'[i].call = "open", plan[stack'[i].node].op = "inlj"
               PROVE  st'[stack'[i].node].cur # NoCursor
    BY <1>2, <1>4 DEF SearchInv
  <2>1. stack'[i] = stack[i] /\ i < K /\ i \in DOMAIN stack /\ stack[i].node # t /\ stack[i].node \in DOMAIN plan
    BY <1>3, <1>5
  <2>2. st'[stack[i].node] = st[stack[i].node]
    BY <2>1, Unmoved
  <2> QED
    BY <2>1, <2>2 DEF SInv, SearchInv, K
<1> QED
  BY <1>11, <1>12, <1>13, <1>14, <1>15, <1>16 DEF SInv

LEMMA GoOnSize ==
    ASSUME IInv, SInv, stack # <<>>, Still, NEW s, Alters(s), Fits(Node, s), GoOn, Top.call = "next",
           Node.op \in Joins => Len(s.out) <= Want,
           Node.op = "inlj" => s.cur # NoCursor
    PROVE  SInv'
<1> DEFINE t == Top.node
<1>1. /\ status = "running" /\ IsSeq(stack) /\ Len(stack) \in DOMAIN stack
      /\ Top = stack[Len(stack)] /\ t \in DOMAIN plan /\ Node = plan[t]
  <2>1. Len(stack) \in DOMAIN stack
    BY InCall
  <2> QED
    BY <2>1, InCall
<1>2. stack' = stack /\ reply' = NoReply /\ plan' = plan /\ batch' = batch /\ database' = database
  BY DEF GoOn, Still, Working
<1>3. ~Answering' /\ reply'.kind # "rows"
  BY <1>2 DEF Answering, NoReply
<1>11. DbInv' /\ NodesInv'
  BY <1>1, StillDb, NodesKept DEF SInv
<1>12. AskedInv'
  BY <1>2 DEF SInv, AskedInv
<1>13. OutInv'
  <2> SUFFICES ASSUME NEW n \in DOMAIN plan, plan[n].op \in Joins, st'[n].out # <<>>
               PROVE  \E i \in DOMAIN stack : /\ stack[i].node = n /\ stack[i].call = "next"
                                              /\ Len(st'[n].out) <= Room(stack[i])
    BY <1>2 DEF OutInv, Room
  <2>1. CASE n = t
    <3>1. Room(Top) = Want
      BY DEF Room, Want
    <3>2. st'[n] = s
      BY <2>1, Unmoved
    <3> QED
      BY <1>1, <2>1, <3>1, <3>2
  <2>2. CASE n # t
    <3>1. st'[n] = st[n]
      BY <2>2, Unmoved
    <3> QED
      BY <3>1 DEF SInv, OutInv
  <2> QED
    BY <2>1, <2>2
<1>14. RowsInv'
  BY <1>3 DEF RowsInv
<1>15. ReadyInv'
  <2>1. PICK A \in SUBSET (DOMAIN plan) : Ready(A)
    BY DEF SInv, ReadyInv
  <2>2. ASSUME NEW n \in A, plan[n].op = "inlj" PROVE st'[n].cur # NoCursor
    <3>1. n \in DOMAIN plan
      OBVIOUS
    <3> QED
      BY <1>1, <2>1, <2>2, <3>1, Unmoved DEF Ready
  <2>3. Ready(A)'
    BY <1>2, <1>3, <2>1, <2>2 DEF Ready, Streams
  <2> QED
    BY <1>2, <2>3 DEF ReadyInv
<1>16. SearchInv'
  <2> SUFFICES ASSUME NEW i \in DOMAIN stack, stack[i].call = "open", plan[stack[i].node].op = "inlj", i < Len(stack)
               PROVE  st'[stack[i].node].cur # NoCursor
    BY <1>2, <1>3 DEF SearchInv
  <2>1. i # Len(stack)
    BY <1>1
  <2>2. stack[i].node # t /\ stack[i].node \in DOMAIN plan
    BY <2>1, OthersBelow DEF IInv, FramesInv
  <2>3. st'[stack[i].node] = st[stack[i].node]
    BY <2>2, Unmoved
  <2> QED
    BY <2>3 DEF SInv, SearchInv
<1> QED
  BY <1>11, <1>12, <1>13, <1>14, <1>15, <1>16 DEF SInv

\* What is idle suits every operator.
LEMMA IdleFits == ASSUME NEW node PROVE Fits(node, Idle)
<1>1. Idle.rows = <<>> /\ Idle.given = 0 /\ Idle.out = <<>> /\ Idle.cur = NoCursor
  BY DEF Idle
<1> QED
  BY <1>1, EmptyIsSeq DEF Fits

LEMMA ThrowSize == ASSUME IInv, SInv, stack # <<>>, Still, Throw PROVE SInv'
<1>1. /\ stack' = <<>> /\ reply' = [NoReply EXCEPT !.kind = "error"] /\ st' = [n \in DOMAIN st |-> Idle]
      /\ plan' = plan /\ batch' = batch /\ database' = database
  BY DEF Throw, Still, Working
<1>2. status = "running" /\ DOMAIN st = DOMAIN plan
  BY InCall DEF IInv, HeldInv
<1>3. reply'.kind = "error" /\ ~Answering' /\ DOMAIN stack' = {}
  BY <1>1, EmptyIsSeq DEF Answering, NoReply
<1>4. DbInv'
  BY <1>2, StillDb DEF SInv
<1>5. \A n \in DOMAIN plan : st'[n] = Idle
  BY <1>1, <1>2
<1>6. NodesInv'
  <2>1. ASSUME NEW n \in DOMAIN plan PROVE Fits(plan[n], st[n])'
    <3>1. Fits(plan[n], Idle)
      BY IdleFits
    <3>2. Fits(plan[n], Idle)'
      BY <1>1, <3>1 DEF Fits, Placed
    <3> QED
      BY <1>1, <1>5, <3>2 DEF Fits, Placed
  <2> QED
    BY <1>1, <2>1 DEF NodesInv
<1>7. Idle.out = <<>>
  BY DEF Idle
<1>8. OutInv'
  BY <1>1, <1>5, <1>7 DEF OutInv
<1>9. AskedInv' /\ RowsInv' /\ SearchInv'
  BY <1>3 DEF AskedInv, RowsInv, SearchInv
<1>10. ReadyInv'
  <2>1. Ready({})'
    BY <1>3 DEF Ready
  <2> QED
    BY <2>1 DEF ReadyInv
<1> QED
  BY <1>4, <1>6, <1>8, <1>9, <1>10 DEF SInv
-----------------------------------------------------------------------------
(* The operators' steps: sources.                                          *)

LEMMA NoneStreamed ==
    ASSUME IInv, stack # <<>>, Node.op \notin Through \cup Joins
    PROVE  \A m : ~Streams(Top.node, m)
BY InCall DEF Streams

LEMMA SourceFits ==
    ASSUME NEW node, node.op \in {"seqscan", "lookup", "indexscan"}, NEW s, IsSeq(s.rows), s.cur = NoCursor \/ Placed(s.cur)
    PROVE  Fits(node, s)
BY DEF Fits, Joins

LEMMA OpenSourceSize == ASSUME IInv, SInv, Still, OpenSource PROVE SInv'
<1>1. /\ stack # <<>> /\ Node.op \in {"seqscan", "lookup", "indexscan"} /\ Top.call = "open"
      /\ Return("done", NoRows)
  BY DEF OpenSource, Serving, Done
<1> DEFINE c == CASE Node.op = "seqscan" -> Sought(CursorOn(Node.tab, 1), 0, MaxKey)
                  [] Node.op = "indexscan" /\ Node.lo <= Node.hi ->
                         Sought(CursorOn(Node.tab, Node.col), Node.lo, Node.hi)
                  [] OTHER -> NoCursor
           s == [Idle EXCEPT !.cur = c]
<1>2. Becomes(s)
  BY DEF OpenSource
<1>3. DbInv /\ Fit(Node)
  BY <1>1, Now DEF SInv
<1>4. c = NoCursor \/ Placed(c)
  <2>1. Node.op = "seqscan" => Placed(Sought(CursorOn(Node.tab, 1), 0, MaxKey))
    BY <1>3, TreesOf, CursorOnIs, SoughtIs DEF Fit
  <2>2. Node.op = "indexscan" => Placed(Sought(CursorOn(Node.tab, Node.col), Node.lo, Node.hi))
    BY <1>3, TreesOf, CursorOnIs, SoughtIs DEF Fit
  <2> QED
    BY <2>1, <2>2
<1> HIDE DEF c
<1>5. s.cur = c /\ s.rows = <<>>
  BY DEF Idle
<1> HIDE DEF s
<1>6. Fits(Node, s)
  BY <1>1, <1>4, <1>5, EmptyIsSeq, SourceFits
<1>7. Alters(s)
  BY <1>1, <1>2, BecomesAlters
<1>8. Node.op \notin Through \cup Joins /\ Node.op # "inlj"
  BY <1>1 DEF Through, Joins
<1>9. \A m : ~Streams(Top.node, m)
  BY <1>1, <1>8, NoneStreamed
<1> QED
  BY <1>1, <1>6, <1>7, <1>8, <1>9, ReturnSize

LEMMA CloseSourceSize == ASSUME IInv, SInv, Still, CloseSource PROVE SInv'
<1> DEFINE s == [S EXCEPT !.cur = NoCursor]
<1>1. /\ stack # <<>> /\ Node.op \in {"seqscan", "lookup", "indexscan"} /\ Top.call = "close"
      /\ Becomes(s) /\ Return("done", NoRows)
  BY DEF CloseSource, Serving, Done
<1>2. s.cur = NoCursor /\ s.rows = S.rows /\ IsSeq(S.rows)
  BY <1>1, Now, IdleIs DEF Fits
<1>3. Alters(s)
  BY <1>1, BecomesAlters
<1> HIDE DEF s
<1>4. Fits(Node, s)
  BY <1>1, <1>2, SourceFits
<1>5. Node.op \notin Through \cup Joins /\ Node.op # "inlj"
  BY <1>1 DEF Through, Joins
<1> QED
  BY <1>1, <1>3, <1>4, <1>5, ReturnSize

\* Some rows, no more than are wanted, or the end of them.
LEMMA SomeSize ==
    ASSUME IInv, SInv, stack # <<>>, Still, NEW s, Alters(s), Fits(Node, s), Top.call = "next", Node.op \notin Joins,
           NEW rows, IsSeq(rows), Len(rows) <= Want, IF rows = <<>> THEN End ELSE HandUp(Whole(rows))
    PROVE  SInv'
<1>1. Node.op # "inlj"
  BY DEF Joins
<1>2. CASE rows = <<>>
  <2>1. Return("end", NoRows)
    BY <1>2 DEF End
  <2> QED
    BY <1>1, <2>1, ReturnSize
<1>3. CASE rows # <<>>
  <2>1. Return("rows", Whole(rows))
    BY <1>3 DEF HandUp
  <2>2. IsBatch(Whole(rows)) /\ Count(Whole(rows)) = Len(rows) /\ Len(rows) \in Nat /\ Len(rows) # 0 /\ Want \in Nat
    BY <1>3, WholeIs, SeqIs, Now
  <2>3. Count(Whole(rows)) \in 1..Want
    BY <2>2
  <2> QED
    BY <1>1, <2>1, <2>2, <2>3, ReturnSize
<1> QED
  BY <1>2, <1>3

LEMMA ScanSize == ASSUME IInv, SInv, Still, Scan PROVE SInv'
<1>1. stack # <<>> /\ Node.op \in {"seqscan", "indexscan"} /\ Top.call = "next"
  BY DEF Scan, Serving
<1>2. Node.op \notin Joins /\ Node.op # "inlj"
  BY <1>1 DEF Joins
<1>3. Fits(Node, S) /\ Want \in Nat /\ DbInv /\ DOMAIN S = DOMAIN Idle
  BY <1>1, Now DEF SInv
<1>4. CASE S.cur = NoCursor
  <2>1. UNCHANGED st /\ Return("end", NoRows)
    BY <1>4 DEF Scan, End
  <2>2. Alters(S)
    BY <1>1, <2>1, SameAlters
  <2> QED
    BY <1>1, <1>2, <1>3, <2>1, <2>2, ReturnSize
<1>5. CASE S.cur # NoCursor
  <2> DEFINE filled == IF Node.op = "seqscan" THEN FilledByPage(S.cur, Want) ELSE Filled(S.cur, Want)
             s == [S EXCEPT !.cur = filled.cur]
  <2>1. Becomes(s) /\ IF filled.rows = <<>> THEN End ELSE HandUp(Whole(filled.rows))
    BY <1>5 DEF Scan
  <2>2. IsSeq(filled.rows) /\ Len(filled.rows) <= Want /\ Placed(filled.cur)
    BY <1>3, <1>5, FilledIs, FilledByPageIs DEF Fits
  <2> HIDE DEF filled
  <2>3. s.cur = filled.cur /\ s.rows = S.rows
    BY <1>3, IdleIs
  <2>4. Alters(s)
    BY <1>1, <2>1, BecomesAlters
  <2> HIDE DEF s
  <2>5. Fits(Node, s)
    BY <1>1, <1>3, <2>2, <2>3, SourceFits DEF Fits
  <2> QED
    BY <1>1, <1>2, <2>1, <2>2, <2>4, <2>5, SomeSize
<1> QED
  BY <1>4, <1>5

LEMMA LookupSize == ASSUME IInv, SInv, Still, Lookup PROVE SInv'
<1> DEFINE s == [S EXCEPT !.given = 1]
           rows == IF S.given = 1 \/ Node.key = NoKey THEN <<>> ELSE ByKey(Node.tab, Node.key)
<1>1. /\ stack # <<>> /\ Node.op = "lookup" /\ Top.call = "next" /\ Becomes(s)
      /\ IF rows = <<>> THEN End ELSE HandUp(Whole(rows))
  BY DEF Lookup, Serving
<1>2. Fits(Node, S) /\ Fit(Node) /\ Want \in Nat \ {0} /\ DbInv /\ DOMAIN S = DOMAIN Idle
  BY <1>1, Now DEF SInv
<1>3. IsSeq(rows) /\ Len(rows) <= 1
  BY <1>1, <1>2, ByKeyIs, EmptyIsSeq DEF Fit
<1>4. s.cur = S.cur /\ s.rows = S.rows
  BY <1>2, IdleIs
<1>5. Alters(s)
  BY <1>1, BecomesAlters
<1> HIDE DEF s, rows
<1>6. Fits(Node, s)
  BY <1>1, <1>2, <1>4, SourceFits DEF Fits
<1>7. Len(rows) <= Want /\ Node.op \notin Joins
  <2>1. Len(rows) \in Nat
    BY <1>3, SeqIs
  <2> QED
    BY <1>1, <1>2, <1>3, <2>1 DEF Joins
<1> QED
  BY <1>1, <1>3, <1>5, <1>6, <1>7, SomeSize
-----------------------------------------------------------------------------
(* Filters, projections and limits.                                        *)

LEMMA ThroughNames == Through \cap Joins = {} /\ Through \cap {"aggregate", "sort", "minmax", "inlj"} = {} /\ "inlj" \in Joins
BY DEF Through, Joins

LEMMA PassDownSize == ASSUME IInv, SInv, Still, PassDown PROVE SInv'
<1>1. PICK call \in {"open", "close"} :
         stack # <<>> /\ Node.op \in Through /\ Top.call = call /\ Call(Node.in[1], call, 0) /\ UNCHANGED st
  BY DEF PassDown, Serving
<1>2. Alters(S) /\ Fits(Node, S) /\ call \in Calling
  BY <1>1, SameAlters, Now DEF Calling
<1>3. Streams(Top.node, Node.in[1])
  BY <1>1, InCall, NodeFacts DEF Streams
<1>4. Link(Top, Node.in[1], call)
  BY <1>1, <1>3 DEF Link
<1>5. Node.op \notin Joins /\ Node.op # "inlj"
  BY <1>1, ThroughNames
<1> QED
  BY <1>1, <1>2, <1>4, <1>5, CallSize

LEMMA PassUpSize == ASSUME IInv, SInv, Still, PassUp PROVE SInv'
<1> DEFINE s == [S EXCEPT !.given = 0]
<1>1. PICK call \in {"open", "close"} :
         /\ stack # <<>> /\ Node.op \in Through /\ Top.call = call /\ Back(call, "done")
         /\ Becomes(s) /\ Return("done", NoRows)
  BY DEF PassUp, Serving, Done
<1>2. Fits(Node, S) /\ DOMAIN S = DOMAIN Idle
  BY <1>1, Now
<1>3. s.cur = S.cur /\ s.rows = S.rows /\ s.given = 0
  BY <1>2, IdleIs
<1>4. Alters(s)
  BY <1>1, BecomesAlters
<1> HIDE DEF s
<1>5. Node.op \notin Joins /\ Node.op # "inlj" /\ Node.op \notin {"aggregate", "sort", "minmax"}
  BY <1>1, ThroughNames
<1>6. Fits(Node, s)
  BY <1>2, <1>3, <1>5 DEF Fits
<1>7. Top.call = "open" => \A m : Streams(Top.node, m) => Answering /\ reply.call # "close" /\ reply.node = m
  <2> SUFFICES ASSUME Top.call = "open", NEW m, Streams(Top.node, m)
               PROVE  Answering /\ reply.call # "close" /\ reply.node = m
    OBVIOUS
  <2>1. Answering /\ reply.call = "open"
    BY <1>1 DEF Answering, Back
  <2>2. Link(Top, reply.node, reply.call) /\ Node = plan[Top.node]
    BY <1>1, <2>1, InCall
  <2>3. Node.op \notin Drainers
    BY <1>1, OpNames
  <2> QED
    BY <2>1, <2>2, <2>3 DEF Link, Streams
<1> QED
  BY <1>1, <1>4, <1>5, <1>6, <1>7, ReturnSize

\* What its input hands to a node of one input is no more than is wanted of it.
LEMMA GivenRows ==
    ASSUME IInv, SInv, stack # <<>>, Top.call = "next", Node.op \in Through, reply.kind = "rows"
    PROVE  IsBatch(reply.batch) /\ Count(reply.batch) \in 1..Want
<1>1. /\ reply.max \in Nat \ {0} /\ IsBatch(reply.batch) /\ Count(reply.batch) \in 1..Least(reply.max, Cap)
      /\ reply.max <= Top.max
  BY DEF SInv, RowsInv
<1>2. batch \in Nat /\ Top.max \in Nat \ {0} /\ Want \in Nat \ {0}
  BY Now
<1>3. Least(reply.max, Cap) <= Want /\ Least(reply.max, Cap) \in Nat
  BY <1>1, <1>2 DEF Least, Cap, Want
<1> QED
  BY <1>1, <1>2, <1>3

LEMMA ExhaustedSize == ASSUME IInv, SInv, Still, Exhausted PROVE SInv'
<1>1. stack # <<>> /\ Top.call = "next" /\ Node.op \in Through /\ UNCHANGED st /\ Return("end", NoRows)
  BY DEF Exhausted, Serving, End
<1>2. Alters(S) /\ Fits(Node, S) /\ Node.op \notin Joins /\ Node.op # "inlj"
  BY <1>1, SameAlters, Now, ThroughNames
<1> QED
  BY <1>1, <1>2, ReturnSize

\* A node asks the input it streams.
LEMMA AskSize ==
    ASSUME IInv, SInv, Still, stack # <<>>, Top.call = "next", Node.op \in Through \cup Joins, UNCHANGED st,
           NEW max \in Nat \ {0}, Node.op \in Through => max <= Top.max, Call(Streamed(Node), "next", max)
    PROVE  SInv'
<1>1. Link(Top, Streamed(Node), "next")
  BY InCall DEF Link, Streams
<1>2. Alters(S) /\ Fits(Node, S) /\ "next" \in Calling
  BY SameAlters, Now DEF Calling
<1>3. /\ Node.op \in Joins => Len(S.out) <= Want
      /\ Node.op = "inlj" => S.cur # NoCursor
  BY Now
<1> QED
  BY <1>1, <1>2, <1>3, CallSize

LEMMA AskStepSize == ASSUME IInv, SInv, Still, Ask PROVE SInv'
<1>1. /\ stack # <<>> /\ Top.call = "next" /\ Node.op \in Through /\ UNCHANGED st
      /\ Call(Node.in[1], "next", Top.max)
  BY DEF Ask, Serving, Through
<1>2. Call(Streamed(Node), "next", Top.max) /\ Top.max \in Nat \ {0}
  BY <1>1, ThroughInput, Now
<1>3. Top.max <= Top.max
  BY <1>2
<1> QED
  BY <1>1, <1>2, <1>3, AskSize

LEMMA FilterRowsSize == ASSUME IInv, SInv, Still, FilterRows PROVE SInv'
<1> DEFINE kept == Narrowed(Node.terms, reply.batch)
<1>1. /\ stack # <<>> /\ Top.call = "next" /\ Node.op \in Through /\ UNCHANGED st /\ reply.kind = "rows"
      /\ IF Count(kept) > 0 THEN Return("rows", kept) ELSE GoOn
  BY DEF FilterRows, Serving, Through, Back, HandUp
<1>2. Alters(S) /\ Fits(Node, S) /\ Node.op \notin Joins /\ Node.op # "inlj" /\ Want \in Nat
  BY <1>1, SameAlters, Now, ThroughNames
<1>3. IsBatch(reply.batch) /\ Count(reply.batch) \in 1..Want
  BY <1>1, GivenRows
<1>4. IsBatch(kept) /\ Count(kept) \in Nat /\ Count(kept) <= Count(reply.batch)
  BY <1>3, NarrowedIs
<1> HIDE DEF kept
<1>5. CASE Count(kept) > 0
  <2>1. Count(kept) \in 1..Want
    BY <1>2, <1>3, <1>4, <1>5
  <2> QED
    BY <1>1, <1>2, <1>4, <1>5, <2>1, ReturnSize
<1>6. CASE ~(Count(kept) > 0)
  BY <1>1, <1>2, <1>6, GoOnSize
<1> QED
  BY <1>5, <1>6

LEMMA ProjectRowsSize == ASSUME IInv, SInv, Still, ProjectRows PROVE SInv'
<1> DEFINE shown(row) == [i \in DOMAIN Node.cols |-> row[Node.cols[i]]]
           b == [reply.batch EXCEPT !.rows = [r \in DOMAIN @ |-> shown(@[r])]]
<1>1. /\ stack # <<>> /\ Top.call = "next" /\ Node.op \in Through /\ UNCHANGED st /\ reply.kind = "rows"
      /\ Return("rows", b)
  BY DEF ProjectRows, Serving, Through, Back, HandUp
<1>2. Alters(S) /\ Fits(Node, S) /\ Node.op \notin Joins /\ Node.op # "inlj"
  BY <1>1, SameAlters, Now, ThroughNames
<1>3. IsBatch(reply.batch) /\ Count(reply.batch) \in 1..Want
  BY <1>1, GivenRows
<1>4. IsBatch(b) /\ Count(b) = Count(reply.batch)
  <2> DEFINE rows == [r \in DOMAIN reply.batch.rows |-> shown(reply.batch.rows[r])]
  <2>1. b = [reply.batch EXCEPT !.rows = rows]
    OBVIOUS
  <2>2. /\ Len(reply.batch.rows) \in Nat /\ DOMAIN reply.batch.rows = 1..Len(reply.batch.rows)
    BY <1>3, SeqIs DEF IsBatch
  <2>3. rows = [r \in 1..Len(reply.batch.rows) |-> rows[r]]
    BY <2>2, Zenon
  <2> HIDE DEF rows, shown, b
  <2>4. IsSeq(rows) /\ Len(rows) = Len(reply.batch.rows)
    BY <2>2, <2>3, SeqOver
  <2>5. /\ DOMAIN b = DOMAIN reply.batch /\ b.rows = rows /\ b.selected = reply.batch.selected
        /\ b.sel = reply.batch.sel
    BY <1>3, <2>1 DEF IsBatch
  <2> QED
    BY <1>3, <2>4, <2>5 DEF IsBatch, Count
<1> HIDE DEF b
<1>5. Count(b) \in 1..Want
  BY <1>3, <1>4
<1> QED
  BY <1>1, <1>2, <1>4, <1>5, ReturnSize

LEMMA LimitAsksSize == ASSUME IInv, SInv, Still, LimitAsks PROVE SInv'
<1>1. stack # <<>> /\ Top.call = "next" /\ Node.op \in Through /\ Node.op = "limit" /\ UNCHANGED st
  BY DEF LimitAsks, Serving, Through
<1>2. Alters(S) /\ Fits(Node, S) /\ Fit(Node) /\ Node.op \notin Joins /\ Node.op # "inlj" /\ Top.max \in Nat \ {0}
  BY <1>1, SameAlters, Now, ThroughNames
<1>3. CASE S.given >= Node.n
  <2>1. Return("end", NoRows)
    BY <1>3 DEF LimitAsks, End
  <2> QED
    BY <1>1, <1>2, <2>1, ReturnSize
<1>4. CASE ~(S.given >= Node.n)
  <2>1. Call(Streamed(Node), "next", Least(Top.max, Node.n - S.given))
    BY <1>1, <1>4, ThroughInput DEF LimitAsks
  <2>2. S.given \in Nat /\ Node.n \in Nat
    BY <1>1, <1>2 DEF Fits, Fit
  <2>3. Least(Top.max, Node.n - S.given) \in Nat \ {0} /\ Least(Top.max, Node.n - S.given) <= Top.max
    BY <1>2, <1>4, <2>2 DEF Least
  <2> QED
    BY <1>1, <2>1, <2>3, AskSize
<1> QED
  BY <1>3, <1>4

LEMMA LimitRowsSize == ASSUME IInv, SInv, Still, LimitRows PROVE SInv'
<1> DEFINE s == [S EXCEPT !.given = @ + Count(reply.batch)]
<1>1. /\ stack # <<>> /\ Top.call = "next" /\ Node.op \in Through /\ Node.op = "limit" /\ reply.kind = "rows"
      /\ Becomes(s) /\ Return("rows", reply.batch)
  BY DEF LimitRows, Serving, Through, Back, HandUp
<1>2. Fits(Node, S) /\ Node.op \notin Joins /\ Node.op # "inlj" /\ DOMAIN S = DOMAIN Idle
  BY <1>1, Now, ThroughNames
<1>3. IsBatch(reply.batch) /\ Count(reply.batch) \in 1..Want
  BY <1>1, GivenRows
<1>4. s.cur = S.cur /\ s.rows = S.rows /\ s.given = S.given + Count(reply.batch)
  BY <1>2, IdleIs
<1>5. Alters(s)
  BY <1>1, BecomesAlters
<1>6. S.given \in Nat /\ Count(reply.batch) \in Nat
  BY <1>1, <1>2, <1>3, CountIs DEF Fits
<1> HIDE DEF s
<1>7. Fits(Node, s)
  BY <1>1, <1>2, <1>4, <1>6 DEF Fits
<1> QED
  BY <1>1, <1>2, <1>3, <1>5, <1>7, ReturnSize
-----------------------------------------------------------------------------
(* Operators that read an input to its end as they open.                   *)

LEMMA DrainerNames == Drainers \cap Through = {} /\ "inlj" \notin Drainers /\ "minmax" \notin Drainers /\ "limit" \notin Drainers
BY DEF Drainers, Through

LEMMA DrainOpensSize == ASSUME IInv, SInv, Still, DrainOpens PROVE SInv'
<1>1. /\ stack # <<>> /\ Top.call = "open" /\ Node.op \in Drainers
      /\ Call(Drained(Node), "open", 0)
  BY DEF DrainOpens, Serving
<1> DEFINE r == IF Node.group = <<>> THEN <<NewGroup(<<>>, Node.aggs)>> ELSE <<>>
           e == EmptySlots(InitialSlots)
           s == IF Node.op # "aggregate" THEN Idle ELSE [Idle EXCEPT !.slots = e, !.rows = r]
<1>2. Becomes(s)
  BY DEF DrainOpens
<1>3. IsSeq(r) /\ 0 <= Len(r)
  <2>1. <<NewGroup(<<>>, Node.aggs)>> \in Seq({NewGroup(<<>>, Node.aggs)})
    OBVIOUS
  <2>2. IsSeq(r)
    BY <2>1, EmptyIsSeq DEF IsSeq
  <2> HIDE DEF r
  <2> QED
    BY <2>2, SeqIs
<1> HIDE DEF r, e
<1>4. /\ s.cur = NoCursor /\ s.given = 0 /\ s.out = <<>>
      /\ IsSeq(s.rows) /\ 0 <= Len(s.rows)
  BY <1>3, EmptyIsSeq DEF Idle
<1>5. Alters(s)
  BY <1>1, <1>2, BecomesAlters
<1> HIDE DEF s
<1>6. Fits(Node, s)
  BY <1>4, EmptyIsSeq DEF Fits
<1>7. Link(Top, Drained(Node), "open") /\ "open" \in Calling /\ Node.op # "inlj" /\ Node.op \notin Through
  BY <1>1, InCall, DrainerNames DEF Link, Calling
<1> QED
  BY <1>1, <1>4, <1>5, <1>6, <1>7, CallSize

\* The input being read is asked again, or closed.
LEMMA DrainSize ==
    ASSUME IInv, SInv, Still, stack # <<>>, Top.call = "open", Node.op \in Drainers, NEW s, Alters(s), Fits(Node, s),
           Answering, reply.call # "close", reply.call = "next" \/ reply.node = Drained(Node),
           Node.op \in Joins => s.out = <<>>,
           NEW call \in {"next", "close"}, NEW max, call = "next" => max = Unbounded, Call(Drained(Node), call, max)
    PROVE  SInv'
<1>1. reply.node = Drained(Node)
  <2>1. Link(Top, reply.node, reply.call) /\ Node = plan[Top.node]
    BY InCall
  <2> QED
    BY <2>1 DEF Link
<1>2. Link(Top, Drained(Node), call) /\ call \in Calling
  BY InCall DEF Link, Calling
<1>3. call = "next" => max \in Nat \ {0}
  BY CountsArePositive
<1>4. Node.op # "inlj" /\ Node.op \notin Through
  BY DrainerNames
<1> QED
  BY <1>1, <1>2, <1>3, <1>4, CallSize

LEMMA DrainReadsSize == ASSUME IInv, SInv, Still, DrainReads PROVE SInv'
<1>1. /\ stack # <<>> /\ Top.call = "open" /\ Node.op \in Drainers /\ UNCHANGED st
      /\ Answering /\ reply.call = "open" /\ reply.node = Drained(Node) /\ Call(Drained(Node), "next", Unbounded)
  BY DEF DrainReads, Serving, Back, Answering
<1>2. Alters(S) /\ Fits(Node, S) /\ (Node.op \in Joins => S.out = <<>>)
  BY <1>1, SameAlters, Now
<1> QED
  BY <1>1, <1>2, DrainSize

\* The rows of a batch that was handed up.
LEMMA RowsHeld ==
    ASSUME SInv, reply.kind = "rows"
    PROVE  IsSeq(Live(reply.batch)) /\ IsBatch(reply.batch)
<1>1. IsBatch(reply.batch)
  BY DEF SInv, RowsInv
<1> QED
  BY <1>1, LiveIs

LEMMA DrainKeepsSize == ASSUME IInv, SInv, Still, DrainKeeps PROVE SInv'
<1>1. /\ stack # <<>> /\ Top.call = "open" /\ Node.op \in Drainers /\ Node.op \in {"nlj", "hash", "sort"}
      /\ Answering /\ reply.kind = "rows" /\ reply.call = "next" /\ Call(Drained(Node), "next", Unbounded)
  BY DEF DrainKeeps, Serving, Back, Answering, Drainers
<1> DEFINE rows == Live(reply.batch)
           held == AllHeld(Node, S, rows)
           places == {i \in DOMAIN rows : ~NullKey(KeyOf(rows[i], BuildCols(Node)))}
           filed == Picked(rows, places)
           s == CASE Node.op = "nlj"  -> [S EXCEPT !.rows = @ \o rows]
                  [] Node.op = "hash" -> [S EXCEPT !.rows = @ \o filed]
                  [] Node.op = "sort" -> [S EXCEPT !.rows = held.rows, !.k = held.k]
<1>2. Becomes(s)
  BY DEF DrainKeeps
<1>3. Fits(Node, S) /\ DOMAIN S = DOMAIN Idle /\ (Node.op \in Joins => S.out = <<>>)
  BY <1>1, Now
<1>4. IsSeq(rows)
  BY <1>1, RowsHeld
<1>5. IsSeq(filed)
  <2>1. places \subseteq DOMAIN rows
    OBVIOUS
  <2> HIDE DEF places, rows
  <2> QED
    BY <1>4, <2>1, PlacesOf, PickedIs
<1>6. Node.op = "sort" => IsSeq(held.rows) /\ S.given <= Len(held.rows)
  <2> SUFFICES ASSUME Node.op = "sort" PROVE IsSeq(held.rows) /\ S.given <= Len(held.rows)
    OBVIOUS
  <2>1. S.given \in Nat /\ S.given <= Len(S.rows)
    BY <1>3 DEF Fits
  <2>2. Holding(S, S.given)
    BY <1>3, <2>1, SeqIs DEF Holding, Fits
  <2> HIDE DEF rows
  <2>3. Holding(held, S.given)
    BY <1>4, <2>1, <2>2, AllHeldHolds
  <2>4. Len(held.rows) \in Nat
    BY <2>3, SeqIs DEF Holding
  <2> QED
    BY <2>1, <2>3, <2>4 DEF Holding
<1> HIDE DEF rows, held, filed, places
<1>7. /\ s.cur = S.cur /\ s.out = S.out /\ s.given = S.given
      /\ Node.op = "nlj" => s.rows = S.rows \o rows
      /\ Node.op = "hash" => s.rows = S.rows \o filed
      /\ Node.op = "sort" => s.rows = held.rows
  <2>1. CASE Node.op = "nlj"
    BY <1>3, <2>1, IdleIs
  <2>2. CASE Node.op = "hash"
    BY <1>3, <2>2, IdleIs
  <2>3. CASE Node.op = "sort"
    BY <1>3, <2>3, IdleIs
  <2> QED
    BY <1>1, <2>1, <2>2, <2>3
<1>8. Alters(s)
  BY <1>1, <1>2, BecomesAlters
<1> HIDE DEF s
<1>9. IsSeq(s.rows)
  <2>1. IsSeq(S.rows)
    BY <1>3 DEF Fits
  <2>2. IsSeq(S.rows \o rows) /\ IsSeq(S.rows \o filed)
    BY <1>4, <1>5, <2>1, ConcatIs
  <2> QED
    BY <1>1, <1>6, <1>7, <2>2
<1>10. Fits(Node, s)
  BY <1>1, <1>3, <1>6, <1>7, <1>9 DEF Fits
<1> QED
  BY <1>1, <1>3, <1>7, <1>8, <1>10, DrainSize

LEMMA DrainGroupsSize == ASSUME IInv, SInv, Still, DrainGroups PROVE SInv'
<1> DEFINE all == AllGrouped(Node, S, Live(reply.batch))
           s == [S EXCEPT !.rows = all.rows, !.slots = all.slots]
<1>1. /\ stack # <<>> /\ Top.call = "open" /\ Node.op \in Drainers /\ Node.op = "aggregate"
      /\ Answering /\ reply.kind = "rows" /\ reply.call = "next"
  BY DEF DrainGroups, Serving, Back, Answering, Drainers
<1>2. CASE all.over
  <2>1. Throw
    BY <1>2 DEF DrainGroups
  <2> QED
    BY <1>1, <2>1, ThrowSize
<1>3. CASE ~all.over
  <2>1. Becomes(s) /\ Call(Drained(Node), "next", Unbounded)
    BY <1>3 DEF DrainGroups
  <2>2. Fits(Node, S) /\ DOMAIN S = DOMAIN Idle
    BY <1>1, Now
  <2>3. IsSeq(Live(reply.batch)) /\ IsSeq(S.rows) /\ S.given \in Nat /\ S.given <= Len(S.rows)
    BY <1>1, <2>2, RowsHeld DEF Fits
  <2>4. IsSeq(all.rows) /\ Len(all.rows) >= Len(S.rows)
    BY <2>3, AllGroupedHolds
  <2> HIDE DEF all
  <2>5. s.cur = S.cur /\ s.given = S.given /\ s.rows = all.rows
    BY <2>2, IdleIs
  <2>6. S.given <= Len(all.rows)
    BY <2>3, <2>4, SeqIs
  <2>7. Alters(s)
    BY <1>1, <2>1, BecomesAlters
  <2> HIDE DEF s
  <2>8. Node.op \notin Joins
    BY <1>1 DEF Joins
  <2>9. Fits(Node, s)
    BY <1>1, <2>2, <2>3, <2>4, <2>5, <2>6, <2>8 DEF Fits
  <2> QED
    BY <1>1, <2>1, <2>7, <2>8, <2>9, DrainSize
<1> QED
  BY <1>2, <1>3

LEMMA OrderedIs == ASSUME NEW n, NEW es, IsSeq(es) PROVE IsSeq(Ordered(n, es)) /\ Len(Ordered(n, es)) = Len(es)
<1> DEFINE before(i) == {j \in DOMAIN es : EntryBefore(n, es[j], es[i])}
           at(k) == es[CHOOSE i \in DOMAIN es : Cardinality(before(i)) = k - 1]
           f == [k \in DOMAIN es |-> at(k)]
<1>1. Ordered(n, es) = f
  BY Zenon DEF Ordered
<1>2. Len(es) \in Nat /\ DOMAIN es = 1..Len(es)
  BY SeqIs
<1> HIDE DEF at
<1>3. f = [k \in 1..Len(es) |-> f[k]]
  BY <1>2
<1> HIDE DEF f
<1>4. IsSeq(f) /\ Len(f) = Len(es)
  BY <1>2, <1>3, SeqOver
<1> QED
  BY <1>1, <1>4

LEMMA DrainClosesSize == ASSUME IInv, SInv, Still, DrainCloses PROVE SInv'
<1> DEFINE sorted == Ordered(Node, S.rows)
           s == IF Node.op # "sort" THEN S ELSE [S EXCEPT !.rows = sorted]
<1>1. /\ stack # <<>> /\ Top.call = "open" /\ Node.op \in Drainers
      /\ Answering /\ reply.call = "next" /\ Call(Drained(Node), "close", 0) /\ Becomes(s)
  BY DEF DrainCloses, Serving, Back, Answering
<1>2. Fits(Node, S) /\ DOMAIN S = DOMAIN Idle /\ (Node.op \in Joins => S.out = <<>>)
  BY <1>1, Now
<1>3. IsSeq(sorted) /\ Len(sorted) = Len(S.rows)
  BY <1>2, OrderedIs DEF Fits
<1> HIDE DEF sorted
<1>4. /\ s.cur = S.cur /\ s.out = S.out /\ s.given = S.given
      /\ IsSeq(s.rows) /\ Len(s.rows) = Len(S.rows)
  BY <1>2, <1>3, IdleIs DEF Fits
<1>5. Alters(s)
  BY <1>1, BecomesAlters
<1> HIDE DEF s
<1>6. Fits(Node, s)
  BY <1>2, <1>4 DEF Fits
<1> QED
  BY <1>1, <1>2, <1>4, <1>5, <1>6, DrainSize

LEMMA DrainEndsSize == ASSUME IInv, SInv, Still, DrainEnds PROVE SInv'
<1>1. /\ stack # <<>> /\ Top.call = "open" /\ Node.op \in Drainers /\ UNCHANGED st
      /\ IF Node.op \in Joins THEN Call(Streamed(Node), "open", 0) ELSE Return("done", NoRows)
  BY DEF DrainEnds, Serving, Done
<1>2. /\ Alters(S) /\ Fits(Node, S) /\ (Node.op \in Joins => S.out = <<>>)
      /\ Node.op # "inlj" /\ Node.op \notin Through
  BY <1>1, SameAlters, Now, DrainerNames
<1>3. CASE Node.op \in Joins
  <2>1. Link(Top, Streamed(Node), "open") /\ "open" \in Calling
    BY <1>1, <1>3, InCall DEF Link, Streams, Calling
  <2> QED
    BY <1>1, <1>2, <1>3, <2>1, CallSize
<1>4. CASE Node.op \notin Joins
  <2>1. \A m : ~Streams(Top.node, m)
    BY <1>1, <1>2, <1>4, NoneStreamed
  <2> QED
    BY <1>1, <1>2, <1>4, <2>1, ReturnSize
<1> QED
  BY <1>3, <1>4

LEMMA HandOutSize == ASSUME IInv, SInv, Still, HandOut PROVE SInv'
<1> DEFINE n == Least(Want, Len(S.rows) - S.given)
           row(x) == CASE Node.op = "aggregate" ->
                              x.key \o [a \in DOMAIN Node.aggs |-> Result(Node.aggs[a], x.states[a])]
                       [] Node.op = "sort"   -> x.row
                       [] Node.op = "minmax" -> x
           out == [i \in 1..n |-> row(S.rows[S.given + i])]
           s == [S EXCEPT !.given = @ + n]
<1>1. /\ stack # <<>> /\ Top.call = "next" /\ Node.op \in {"aggregate", "sort", "minmax"}
      /\ Becomes(s)
  BY DEF HandOut, Serving
<1>2. IF n = 0 THEN End ELSE HandUp(Whole(out))
  BY Zenon DEF HandOut
<1>3. Fits(Node, S) /\ DOMAIN S = DOMAIN Idle /\ Want \in Nat \ {0}
  BY <1>1, Now
<1>4. S.given \in Nat /\ S.given <= Len(S.rows) /\ Len(S.rows) \in Nat /\ IsSeq(S.rows)
  BY <1>1, <1>3, SeqIs DEF Fits
<1>5. n \in Nat /\ n <= Want /\ S.given + n <= Len(S.rows)
  BY <1>3, <1>4 DEF Least
<1> HIDE DEF n, row
<1>6. out = [i \in 1..n |-> out[i]]
  OBVIOUS
<1>7. s.cur = S.cur /\ s.rows = S.rows /\ s.given = S.given + n
  BY <1>3, IdleIs
<1>8. Alters(s)
  BY <1>1, BecomesAlters
<1> HIDE DEF out, s
<1>9. IsSeq(out) /\ Len(out) = n /\ (n = 0 <=> out = <<>>)
  <2>1. IsSeq(out) /\ Len(out) = n
    BY <1>5, <1>6, SeqOver
  <2> QED
    BY <2>1, SeqIs
<1>10. Node.op \notin Joins /\ Node.op # "limit"
  BY <1>1 DEF Joins
<1>11. Fits(Node, s)
  BY <1>3, <1>4, <1>5, <1>7, <1>10 DEF Fits
<1> QED
  BY <1>1, <1>2, <1>5, <1>8, <1>9, <1>10, <1>11, SomeSize

LEMMA CloseHeldSize == ASSUME IInv, SInv, Still, CloseHeld PROVE SInv'
<1>1. /\ stack # <<>> /\ Top.call = "close" /\ Node.op \in {"aggregate", "sort", "minmax"}
      /\ UNCHANGED st /\ Return("done", NoRows)
  BY DEF CloseHeld, Serving, Done
<1>2. Alters(S) /\ Fits(Node, S) /\ Node.op \notin Joins /\ Node.op # "inlj"
  BY <1>1, SameAlters, Now DEF Joins
<1> QED
  BY <1>1, <1>2, ReturnSize

LEMMA OpenMinMaxSize == ASSUME IInv, SInv, Still, OpenMinMax PROVE SInv'
<1> DEFINE r == [a \in DOMAIN Node.aggs |-> EndValue(Node.tab, Node.aggs[a])]
           s == [Idle EXCEPT !.rows = <<r>>]
<1>1. /\ stack # <<>> /\ Top.call = "open" /\ Node.op = "minmax" /\ Return("done", NoRows) /\ Becomes(s)
  BY DEF OpenMinMax, Serving, Done
<1>2. Alters(s)
  BY <1>1, BecomesAlters
<1> HIDE DEF r
<1>3. s.cur = NoCursor /\ s.rows = <<r>> /\ s.given = 0
  BY DEF Idle
<1>4. IsSeq(<<r>>) /\ 0 <= Len(<<r>>)
  <2>1. <<r>> \in Seq({r})
    OBVIOUS
  <2>2. IsSeq(<<r>>)
    BY <2>1 DEF IsSeq
  <2> QED
    BY <2>2, SeqIs
<1> HIDE DEF s
<1>5. Node.op \notin Joins /\ Node.op # "inlj" /\ Node.op # "limit" /\ Node.op \notin Through \cup Joins
  BY <1>1 DEF Joins, Through
<1>6. Fits(Node, s)
  BY <1>3, <1>4, <1>5 DEF Fits
<1>7. \A m : ~Streams(Top.node, m)
  BY <1>1, <1>5, NoneStreamed
<1> QED
  BY <1>1, <1>2, <1>5, <1>6, <1>7, ReturnSize
-----------------------------------------------------------------------------
(* Joins.                                                                  *)

LEMMA JoinNames == Joins = {"nlj", "hash", "inlj"} /\ Joins \cap {"aggregate", "sort", "minmax", "limit"} = {} /\ Joins \cap Through = {}
BY DEF Joins, Through

\* What suits a join.
LEMMA JoinFits ==
    ASSUME NEW node, node.op \in Joins, NEW s, IsSeq(s.rows), IsSeq(s.out), s.cur = NoCursor \/ Placed(s.cur)
    PROVE  Fits(node, s)
BY DEF Fits, Joins

\* In the middle of a call of a join.
LEMMA JoinNow ==
    ASSUME IInv, SInv, stack # <<>>, Node.op \in Joins
    PROVE  /\ IsSeq(S.rows) /\ IsSeq(S.out) /\ (S.cur = NoCursor \/ Placed(S.cur)) /\ DOMAIN S = DOMAIN Idle
           /\ Top.call = "next" => /\ Want \in Nat \ {0} /\ Len(S.out) \in Nat /\ Len(S.out) <= Want
                                   /\ Node.op = "inlj" => S.cur # NoCursor /\ Placed(S.cur)
           /\ Top.call # "next" => S.out = <<>>
           /\ Node.op \notin {"aggregate", "sort", "minmax", "limit"} /\ Node.op \notin Through
<1>1. Fits(Node, S) /\ DOMAIN S = DOMAIN Idle
  BY Now
<1>2. Top.call = "next" => Want \in Nat \ {0} /\ Len(S.out) <= Want
  BY Now
<1>3. Node.op = "inlj" /\ Top.call = "next" => S.cur # NoCursor /\ Placed(S.cur)
  BY Now
<1>4. Top.call # "next" => S.out = <<>>
  BY Now
<1>5. IsSeq(S.rows) /\ IsSeq(S.out) /\ (S.cur = NoCursor \/ Placed(S.cur))
  BY <1>1 DEF Fits
<1>6. Len(S.out) \in Nat
  BY <1>5, SeqIs
<1> QED
  BY <1>1, <1>2, <1>3, <1>4, <1>5, <1>6, JoinNames

LEMMA OpenIndexJoinSize == ASSUME IInv, SInv, Still, OpenIndexJoin PROVE SInv'
<1> DEFINE c == CursorOn(Node.tab, Node.innerCol)
           s == [Idle EXCEPT !.cur = c]
<1>1. /\ stack # <<>> /\ Top.call = "open" /\ Node.op = "inlj" /\ Becomes(s) /\ Call(Streamed(Node), "open", 0)
  BY DEF OpenIndexJoin, Serving
<1>2. Node.op \in Joins
  BY <1>1, JoinNames
<1>3. Placed(c) /\ c # NoCursor
  BY <1>1, Now, CursorOnIs DEF SInv, Fit
<1> HIDE DEF c
<1>4. s.cur = c /\ s.rows = <<>> /\ s.out = <<>>
  BY DEF Idle
<1>5. Alters(s)
  BY <1>1, BecomesAlters
<1> HIDE DEF s
<1>6. Fits(Node, s)
  BY <1>2, <1>3, <1>4, EmptyIsSeq, JoinFits
<1>7. Link(Top, Streamed(Node), "open") /\ "open" \in Calling
  BY <1>1, <1>2, InCall DEF Link, Streams, Calling
<1> QED
  BY <1>1, <1>3, <1>4, <1>5, <1>6, <1>7, CallSize

LEMMA OpenedJoinSize == ASSUME IInv, SInv, Still, OpenedJoin PROVE SInv'
<1>1. /\ stack # <<>> /\ Top.call = "open" /\ Node.op \in Joins /\ UNCHANGED st
      /\ Answering /\ reply.call = "open" /\ reply.node = Streamed(Node) /\ Return("done", NoRows)
  BY DEF OpenedJoin, Serving, Back, Done, Answering
<1>2. Alters(S) /\ Fits(Node, S) /\ S.out = <<>>
  BY <1>1, SameAlters, Now
<1>3. Node.op = "inlj" => S.cur # NoCursor
  BY <1>1, Now
<1>4. \A m : Streams(Top.node, m) => Answering /\ reply.call # "close" /\ reply.node = m
  BY <1>1, InCall DEF Streams
<1> QED
  BY <1>1, <1>2, <1>3, <1>4, ReturnSize

LEMMA CloseJoinSize == ASSUME IInv, SInv, Still, CloseJoin PROVE SInv'
<1>1. /\ stack # <<>> /\ Top.call = "close" /\ Node.op \in Joins /\ UNCHANGED st
      /\ Call(Streamed(Node), "close", 0)
  BY DEF CloseJoin, Serving
<1>2. Alters(S) /\ Fits(Node, S) /\ S.out = <<>>
  BY <1>1, SameAlters, Now
<1>3. Link(Top, Streamed(Node), "close") /\ "close" \in Calling
  BY <1>1, InCall DEF Link, Streams, Calling
<1> QED
  BY <1>1, <1>2, <1>3, CallSize

LEMMA ClosedJoinSize == ASSUME IInv, SInv, Still, ClosedJoin PROVE SInv'
<1> DEFINE s == [S EXCEPT !.cur = NoCursor]
<1>1. /\ stack # <<>> /\ Top.call = "close" /\ Node.op \in Joins
      /\ Becomes(s) /\ Return("done", NoRows)
  BY DEF ClosedJoin, Serving, Done
<1>2. IsSeq(S.rows) /\ IsSeq(S.out) /\ S.out = <<>> /\ DOMAIN S = DOMAIN Idle
  BY <1>1, JoinNow
<1>3. s.cur = NoCursor /\ s.rows = S.rows /\ s.out = S.out
  BY <1>2, IdleIs
<1>4. Alters(s)
  BY <1>1, BecomesAlters
<1> HIDE DEF s
<1>5. Fits(Node, s)
  BY <1>1, <1>2, <1>3, JoinFits
<1> QED
  BY <1>1, <1>2, <1>3, <1>4, <1>5, ReturnSize

LEMMA PullSize == ASSUME IInv, SInv, Still, Pull PROVE SInv'
<1>1. /\ stack # <<>> /\ Top.call = "next" /\ Node.op \in Joins /\ UNCHANGED st
      /\ Call(Streamed(Node), "next", Unbounded)
  BY DEF Pull, Serving
<1>2. Unbounded \in Nat \ {0} /\ Node.op \notin Through
  BY <1>1, CountsArePositive, JoinNow
<1> QED
  BY <1>1, <1>2, AskSize

\* A join that works on, its cursor kept or moved.
LEMMA JoinGoesOn ==
    ASSUME IInv, SInv, Still, stack # <<>>, Top.call = "next", Node.op \in Joins, GoOn,
           NEW s, Becomes(s), s.rows = S.rows, s.cur = S.cur \/ Placed(s.cur),
           IsSeq(s.out), Len(s.out) <= Want
    PROVE  SInv'
<1>1. Alters(s)
  BY BecomesAlters
<1>2. Placed(s.cur) => s.cur # NoCursor
  BY PlacedIs DEF SInv
<1>3. s.cur = NoCursor \/ Placed(s.cur)
  BY JoinNow
<1>4. Fits(Node, s)
  BY <1>3, JoinNow, JoinFits
<1>5. Node.op = "inlj" => s.cur # NoCursor
  BY <1>2, JoinNow
<1> QED
  BY <1>1, <1>4, <1>5, GoOnSize

LEMMA PulledSize == ASSUME IInv, SInv, Still, Pulled PROVE SInv'
<1> DEFINE s == [S EXCEPT !.in = reply.batch, !.k = 1, !.busy = FALSE]
<1>1. stack # <<>> /\ Top.call = "next" /\ Node.op \in Joins /\ Becomes(s) /\ GoOn
  BY DEF Pulled, Serving
<1>2. IsSeq(S.out) /\ Len(S.out) <= Want /\ DOMAIN S = DOMAIN Idle
  BY <1>1, JoinNow
<1>3. s.rows = S.rows /\ s.cur = S.cur /\ s.out = S.out
  BY <1>2, IdleIs
<1> HIDE DEF s
<1> QED
  BY <1>1, <1>2, <1>3, JoinGoesOn

\* What was gathered is handed up, or some of it.
LEMMA EmptiedSize ==
    ASSUME IInv, SInv, Still, stack # <<>>, Top.call = "next", Node.op \in Joins, Becomes([S EXCEPT !.out = <<>>]),
           \/ GoOn
           \/ Return("end", NoRows)
           \/ \E b : Return("rows", b) /\ IsBatch(b) /\ Count(b) \in 1..Want
    PROVE  SInv'
<1> DEFINE s == [S EXCEPT !.out = <<>>]
<1>1. s.rows = S.rows /\ s.cur = S.cur /\ s.out = <<>>
  BY JoinNow, IdleIs
<1>2. Alters(s)
  BY BecomesAlters
<1> HIDE DEF s
<1>3. Fits(Node, s)
  BY <1>1, JoinNow, JoinFits, EmptyIsSeq
<1>4. Node.op = "inlj" => s.cur # NoCursor
  BY <1>1, JoinNow
<1>5. CASE GoOn
  <2>1. Len(s.out) <= Want
    BY <1>1, JoinNow, EmptyIsSeq
  <2> QED
    BY <1>2, <1>3, <1>4, <1>5, <2>1, GoOnSize
<1>6. CASE Return("end", NoRows)
  BY <1>1, <1>2, <1>3, <1>4, <1>6, ReturnSize
<1>7. ASSUME NEW b, Return("rows", b), IsBatch(b), Count(b) \in 1..Want PROVE SInv'
  BY <1>1, <1>2, <1>3, <1>4, <1>7, ReturnSize
<1> QED
  BY <1>5, <1>6, <1>7

LEMMA PulledNoneSize == ASSUME IInv, SInv, Still, PulledNone PROVE SInv'
<1>1. /\ stack # <<>> /\ Top.call = "next" /\ Node.op \in Joins /\ Becomes([S EXCEPT !.out = <<>>])
      /\ IF S.out = <<>> THEN Return("end", NoRows) ELSE Return("rows", Whole(S.out))
  BY DEF PulledNone, Serving, End, HandUp
<1>2. IsSeq(S.out) /\ Len(S.out) <= Want /\ Len(S.out) \in Nat /\ Want \in Nat
  BY <1>1, JoinNow
<1>3. S.out # <<>> => Count(Whole(S.out)) \in 1..Want /\ IsBatch(Whole(S.out))
  BY <1>2, WholeIs, SeqIs
<1> QED
  BY <1>1, <1>3, EmptiedSize

\* Of the walk of a row's matches there is never more than there was room for.
LEMMA GatheredSize ==
    ASSUME IInv, SInv, stack # <<>>, Top.call = "next", Node.op \in Joins,
           NEW joined, NEW hits, IsFiniteSet(hits)
    PROVE  LET s == Gathered(joined, hits)
           IN  s.rows = S.rows /\ s.cur = S.cur /\ IsSeq(s.out) /\ Len(s.out) <= Want
<1> DEFINE left == {j \in hits : ~S.busy \/ j >= S.pos}
           ahead == InTurn(left)
           room  == Want - Len(S.out)
           next  == IF Len(ahead) < room THEN Len(joined) + 1 ELSE ahead[room] + 1
           over  == next > Len(joined)
           m     == Least(room, Len(ahead))
           more  == [i \in 1..m |-> joined[ahead[i]]]
           k     == IF over THEN S.k + 1 ELSE S.k
           s     == [S EXCEPT !.out = S.out \o more, !.busy = ~over, !.pos = next, !.k = k]
<1>1. Gathered(joined, hits) = s
  BY DEF Gathered
<1>2. /\ IsSeq(S.out) /\ Len(S.out) \in Nat /\ Len(S.out) <= Want /\ Want \in Nat /\ DOMAIN S = DOMAIN Idle
  BY JoinNow
<1>3. IsFiniteSet(left)
  <2>1. left \subseteq hits
    OBVIOUS
  <2> HIDE DEF left
  <2> QED
    BY <2>1, FS_Subset
<1> HIDE DEF left
<1>4. Len(ahead) \in Nat
  BY <1>3, InTurnIs
<1> HIDE DEF ahead
<1>5. m \in Nat /\ m <= room
  <2>1. room \in Nat
    BY <1>2
  <2> HIDE DEF room
  <2> QED
    BY <1>4, <2>1 DEF Least
<1> HIDE DEF next, over, k, m
<1>6. more = [i \in 1..m |-> more[i]]
  OBVIOUS
<1> HIDE DEF more
<1>7. IsSeq(more) /\ Len(more) = m
  BY <1>5, <1>6, SeqOver
<1>8. s.rows = S.rows /\ s.cur = S.cur /\ s.out = S.out \o more
  BY <1>2, IdleIs
<1>9. IsSeq(S.out \o more) /\ Len(S.out \o more) = Len(S.out) + m
  BY <1>2, <1>7, ConcatIs
<1>10. Len(S.out) + m <= Want
  BY <1>2, <1>5
<1> HIDE DEF s
<1> QED
  BY <1>1, <1>8, <1>9, <1>10

LEMMA GatheredGoesOn ==
    ASSUME IInv, SInv, Still, stack # <<>>, Top.call = "next", Node.op \in Joins, GoOn,
           NEW joined, NEW hits, IsFiniteSet(hits), Becomes(Gathered(joined, hits))
    PROVE  SInv'
<1> DEFINE s == Gathered(joined, hits)
<1>1. s.rows = S.rows /\ s.cur = S.cur /\ IsSeq(s.out) /\ Len(s.out) <= Want
  BY GatheredSize
<1>2. Becomes(s)
  OBVIOUS
<1> HIDE DEF s
<1> QED
  BY <1>1, <1>2, JoinGoesOn

LEMMA NestedLoopSize == ASSUME IInv, SInv, Still, NestedLoop PROVE SInv'
<1> DEFINE joined == [j \in DOMAIN S.rows |-> Row \o S.rows[j]]
           hits == {j \in DOMAIN joined : EvalAll(Node.on, joined[j])}
<1>1. stack # <<>> /\ Top.call = "next" /\ Node.op \in Joins /\ GoOn /\ Becomes(Gathered(joined, hits))
  BY JoinNames DEF NestedLoop, Serving
<1>2. IsFiniteSet(hits)
  <2>1. hits \subseteq DOMAIN S.rows
    OBVIOUS
  <2>2. IsSeq(S.rows)
    BY <1>1, JoinNow
  <2> HIDE DEF hits
  <2> QED
    BY <2>1, <2>2, PlacesOf
<1> HIDE DEF hits, joined
<1> QED
  BY <1>1, <1>2, GatheredGoesOn

\* A row of the streamed side that has no matches.
LEMMA SkippedGoesOn ==
    ASSUME IInv, SInv, Still, stack # <<>>, Top.call = "next", Node.op \in Joins, GoOn,
           Becomes([S EXCEPT !.k = @ + 1])
    PROVE  SInv'
<1> DEFINE s == [S EXCEPT !.k = @ + 1]
<1>1. IsSeq(S.out) /\ Len(S.out) <= Want /\ DOMAIN S = DOMAIN Idle
  BY JoinNow
<1>2. s.rows = S.rows /\ s.cur = S.cur /\ s.out = S.out
  BY <1>1, IdleIs
<1>3. Becomes(s)
  OBVIOUS
<1> HIDE DEF s
<1> QED
  BY <1>1, <1>2, <1>3, JoinGoesOn

LEMMA HashProbeSize == ASSUME IInv, SInv, Still, HashProbe PROVE SInv'
<1> DEFINE key    == KeyOf(Row, ProbeCols(Node))
           bucket == Bucket(Hash(key))
           joined == [j \in DOMAIN bucket |-> IF Node.buildLeft THEN bucket[j] \o Row ELSE Row \o bucket[j]]
           equal(k) == Hash(k) = Hash(key) /\ \A i \in DOMAIN k : Compare(k[i], key[i]) = 0
           hits == {j \in DOMAIN bucket : equal(KeyOf(bucket[j], BuildCols(Node)))}
<1>1. /\ stack # <<>> /\ Top.call = "next" /\ Node.op \in Joins /\ GoOn
      /\ Becomes(IF NullKey(key) THEN [S EXCEPT !.k = @ + 1] ELSE Gathered(joined, hits))
  BY JoinNames DEF HashProbe, Serving
<1>2. IsSeq(bucket)
  <2> DEFINE buckets == TwoPower(Len(S.rows))
             of(h)   == Mix(h) % buckets
             at == {i \in DOMAIN S.rows : of(Hash(KeyOf(S.rows[i], BuildCols(Node)))) = of(Hash(key))}
  <2>1. bucket = Picked(S.rows, at)
    BY DEF Bucket
  <2>2. at \subseteq DOMAIN S.rows
    OBVIOUS
  <2>3. IsSeq(S.rows)
    BY <1>1, JoinNow
  <2> HIDE DEF at
  <2> QED
    BY <2>1, <2>2, <2>3, PlacesOf, PickedIs
<1>3. IsFiniteSet(hits)
  <2>1. hits \subseteq DOMAIN bucket
    OBVIOUS
  <2> HIDE DEF hits, bucket
  <2> QED
    BY <1>2, <2>1, PlacesOf
<1> HIDE DEF key, bucket, joined, hits
<1>4. CASE NullKey(key)
  BY <1>1, <1>4, SkippedGoesOn
<1>5. CASE ~NullKey(key)
  BY <1>1, <1>3, <1>5, GatheredGoesOn
<1> QED
  BY <1>4, <1>5

LEMMA IndexSearchSize == ASSUME IInv, SInv, Still, IndexSearch PROVE SInv'
<1> DEFINE key    == Row[Node.outerCol]
           cur    == IF S.busy THEN S.cur ELSE Sought(S.cur, OrderKey(key), OrderKey(key))
           room   == Want - Len(S.out)
           filled == Filled(cur, room)
           over   == Len(filled.rows) < room
           found  == [i \in DOMAIN filled.rows |-> <<Row, filled.rows[i]>>]
           s == [S EXCEPT !.cur = filled.cur, !.busy = ~over, !.k = IF over THEN @ + 1 ELSE @,
                          !.out = @ \o found]
<1>1. /\ stack # <<>> /\ Top.call = "next" /\ Node.op \in Joins /\ Node.op = "inlj" /\ GoOn
      /\ Becomes(IF key.null THEN [S EXCEPT !.k = @ + 1] ELSE s)
  BY JoinNames DEF IndexSearch, Serving
<1>2. /\ IsSeq(S.out) /\ Len(S.out) \in Nat /\ Len(S.out) <= Want /\ Want \in Nat /\ DOMAIN S = DOMAIN Idle
      /\ Placed(S.cur) /\ DbInv
  BY <1>1, JoinNow DEF SInv
<1>3. CASE key.null
  BY <1>1, <1>3, SkippedGoesOn
<1>4. CASE ~key.null
  <2>1. Placed(cur)
    BY <1>2, SoughtIs
  <2> HIDE DEF cur
  <2>2. room \in Nat
    BY <1>2
  <2>3. IsSeq(filled.rows) /\ Len(filled.rows) <= room /\ Placed(filled.cur)
    <3> HIDE DEF room
    <3> QED
      BY <1>2, <2>1, <2>2, FilledIs
  <2> HIDE DEF filled
  <2>4. Len(filled.rows) \in Nat /\ DOMAIN filled.rows = 1..Len(filled.rows)
    BY <2>3, SeqIs
  <2>5. found = [i \in 1..Len(filled.rows) |-> found[i]]
    BY <2>4
  <2> HIDE DEF found
  <2>6. IsSeq(found) /\ Len(found) = Len(filled.rows)
    BY <2>4, <2>5, SeqOver
  <2>7. IsSeq(S.out \o found) /\ Len(S.out \o found) = Len(S.out) + Len(filled.rows)
    <3>1. Len(S.out \o found) = Len(S.out) + Len(found) /\ IsSeq(S.out \o found)
      BY <1>2, <2>6, ConcatIs
    <3> QED
      BY <2>6, <3>1
  <2>8. Len(S.out) + Len(filled.rows) <= Want
    <3> DEFINE F == Len(filled.rows)
               L == Len(S.out)
    <3>1. F \in Nat /\ F <= Want - L /\ L \in Nat /\ Want \in Nat
      BY <1>2, <2>3, <2>4
    <3> HIDE DEF F, L
    <3>2. L + F <= Want
      BY <3>1
    <3> QED
      BY <3>2 DEF F, L
  <2> HIDE DEF over
  <2>9. s.rows = S.rows /\ s.cur = filled.cur /\ s.out = S.out \o found
    BY <1>2, IdleIs
  <2>10. Becomes(s)
    BY <1>1, <1>4
  <2> HIDE DEF s
  <2> QED
    BY <1>1, <2>3, <2>7, <2>8, <2>9, <2>10, JoinGoesOn
<1> QED
  BY <1>3, <1>4

LEMMA IndexMatchesIs ==
    ASSUME IsSeq(S.out)
    PROVE  IsSeq(IndexMatches) /\ Len(IndexMatches) <= Len(S.out) /\ Len(IndexMatches) \in Nat
<1> DEFINE matches(p) == /\ Compare(p[2][Node.innerCol], p[1][Node.outerCol]) = 0
                         /\ EvalAll(Node.inner, p[2])
           places == {i \in DOMAIN S.out : matches(S.out[i])}
           kept == Picked(S.out, places)
           row(i) == IF Node.innerFirst THEN kept[i][2] \o kept[i][1] ELSE kept[i][1] \o kept[i][2]
           f == [i \in DOMAIN kept |-> row(i)]
<1>1. IndexMatches = f
  BY Zenon DEF IndexMatches
<1>2. places \subseteq DOMAIN S.out
  OBVIOUS
<1> HIDE DEF places, row
<1>3. IsFiniteSet(places) /\ Cardinality(places) <= Len(S.out)
  BY <1>2, PlacesOf
<1>4. IsSeq(kept) /\ Len(kept) = Cardinality(places) /\ Cardinality(places) \in Nat
  BY <1>3, PickedIs
<1> HIDE DEF kept
<1>5. DOMAIN kept = 1..Cardinality(places)
  BY <1>4, SeqIs
<1>6. f = [i \in 1..Cardinality(places) |-> f[i]]
  BY <1>5
<1> HIDE DEF f
<1>7. IsSeq(f) /\ Len(f) = Cardinality(places)
  BY <1>4, <1>6, SeqOver
<1> QED
  BY <1>1, <1>3, <1>4, <1>7

LEMMA JoinHandsSize == ASSUME IInv, SInv, Still, JoinHands PROVE SInv'
<1> DEFINE rows == IF Node.op = "hash" THEN S.out ELSE IndexMatches
           kept == Narrowed(Node.residual, Whole(rows))
<1>1. /\ stack # <<>> /\ Top.call = "next" /\ Node.op \in Joins /\ Becomes([S EXCEPT !.out = <<>>])
      /\ IF Count(kept) > 0 THEN Return("rows", kept) ELSE GoOn
  BY JoinNames DEF JoinHands, Serving, HandUp
<1>2. IsSeq(S.out) /\ Len(S.out) <= Want /\ Len(S.out) \in Nat /\ Want \in Nat
  BY <1>1, JoinNow
<1>3. IsSeq(rows) /\ Len(rows) \in Nat /\ Len(rows) <= Want
  BY <1>2, IndexMatchesIs
<1> HIDE DEF rows
<1>4. IsBatch(Whole(rows)) /\ Count(Whole(rows)) = Len(rows)
  BY <1>3, WholeIs
<1>5. IsBatch(kept) /\ Count(kept) \in Nat /\ Count(kept) <= Len(rows)
  BY <1>4, NarrowedIs
<1> HIDE DEF kept
<1>6. Count(kept) > 0 => Count(kept) \in 1..Want
  BY <1>2, <1>3, <1>5
<1> QED
  BY <1>1, <1>5, <1>6, EmptiedSize

LEMMA NestedLoopHandsSize == ASSUME IInv, SInv, Still, NestedLoopHands PROVE SInv'
<1>1. /\ stack # <<>> /\ Top.call = "next" /\ Node.op \in Joins /\ Becomes([S EXCEPT !.out = <<>>])
      /\ Return("rows", Whole(S.out)) /\ Len(S.out) = Want
  BY JoinNames DEF NestedLoopHands, Serving, HandUp, Full
<1>2. IsSeq(S.out) /\ Want \in Nat \ {0}
  BY <1>1, JoinNow
<1>3. IsBatch(Whole(S.out)) /\ Count(Whole(S.out)) \in 1..Want
  BY <1>1, <1>2, WholeIs
<1> QED
  BY <1>1, <1>3, EmptiedSize

LEMMA WorkSize == ASSUME IInv, SInv, Work PROVE SInv'
<1>1. OperatorStep /\ Still
  BY DEF Work, Working, Still, OperatorStep
<1> QED
  BY <1>1, OpenSourceSize, CloseSourceSize, ScanSize, LookupSize, PassDownSize, PassUpSize, ExhaustedSize,
     AskStepSize, FilterRowsSize, ProjectRowsSize, LimitAsksSize, LimitRowsSize, DrainOpensSize, DrainReadsSize,
     DrainKeepsSize, DrainGroupsSize, DrainClosesSize, DrainEndsSize, HandOutSize, CloseHeldSize,
     OpenMinMaxSize, OpenIndexJoinSize, OpenedJoinSize, CloseJoinSize, ClosedJoinSize, PullSize, PulledSize,
     PulledNoneSize, NestedLoopSize, HashProbeSize, IndexSearchSize, JoinHandsSize, NestedLoopHandsSize
     DEF OperatorStep
-----------------------------------------------------------------------------
(* The steps of the query itself.                                          *)

\* Between calls of the root no join holds rows not yet handed up.
LEMMA NoneHeld ==
    ASSUME SInv, stack = <<>>
    PROVE  \A n \in DOMAIN plan : plan[n].op \in Joins => st[n].out = <<>>
BY EmptyIsSeq DEF SInv, OutInv

\* At rest, what the calls must keep is kept.
LEMMA RestSize ==
    ASSUME stack = <<>>, reply.kind = "none", \A n \in DOMAIN plan : plan[n].op \in Joins => st[n].out = <<>>
    PROVE  AskedInv /\ OutInv /\ RowsInv /\ ReadyInv /\ SearchInv
<1>1. DOMAIN stack = {}
  BY EmptyIsSeq
<1>2. ~Answering /\ reply.kind # "rows"
  BY DEF Answering
<1>3. Ready({})
  BY <1>1, <1>2 DEF Ready
<1> QED
  BY <1>1, <1>2, <1>3 DEF AskedInv, OutInv, RowsInv, ReadyInv, SearchInv

LEMMA InitSize == Init => SInv
<1> SUFFICES ASSUME Init PROVE SInv
  OBVIOUS
<1>1. /\ stack = <<>> /\ reply.kind = "none" /\ plan = <<>> /\ st = <<>> /\ status = "new" /\ batch \in BatchRows
      /\ \E d \in DOMAIN Databases : database = Databases[d] /\ query \in Queries[d]
  BY DEF Init, NoReply
<1>2. DbInv
  BY <1>1, CountsArePositive DEF DbInv
<1>3. DOMAIN plan = {}
  BY <1>1, EmptyIsSeq
<1>4. NodesInv
  BY <1>3 DEF NodesInv
<1> QED
  BY <1>1, <1>2, <1>3, <1>4, RestSize DEF SInv

LEMMA PlanSize == ASSUME IInv, SInv, Plan PROVE SInv'
<1>1. PICK p \in Plans(query) : plan' = p /\ st' = [n \in DOMAIN p |-> Idle]
  BY DEF Plan
<1>2. /\ status = "new" /\ status' = "planned" /\ query' = query /\ database' = database /\ batch' = batch
      /\ stack' = stack /\ reply' = reply
  BY DEF Plan
<1>3. stack = <<>> /\ reply.kind = "none"
  BY <1>2 DEF IInv, PlanInv
<1>4. Planned(p)
  <2>1. PICK d \in DOMAIN Databases : database = Databases[d] /\ query \in Queries[d]
    BY DEF SInv, DbInv
  <2>2. query.tables \in Seq(DOMAIN database) /\ query.tables # <<>> /\ query.limit \in Nat \cup {NoLimit}
    BY <2>1, QueriesNameTables
  <2> QED
    BY <2>2, PlansFit
<1>5. DbInv'
  <2>1. Planned(plan)'
    BY <1>1, <1>2, <1>4 DEF Planned, Fit, Tree
  <2> QED
    BY <1>2, <2>1 DEF DbInv, SInv
<1>6. \A n \in DOMAIN plan' : st'[n] = Idle
  BY <1>1
<1>7. NodesInv'
  <2> SUFFICES ASSUME NEW n \in DOMAIN plan' PROVE Fits(plan[n], st[n])'
    BY DEF NodesInv
  <2>1. Fits(plan'[n], Idle)
    BY IdleFits
  <2> QED
    BY <1>2, <1>6, <2>1 DEF Fits, Placed
<1>8. Idle.out = <<>>
  BY DEF Idle
<1>9. (AskedInv /\ OutInv /\ RowsInv /\ ReadyInv /\ SearchInv)'
  <2>1. DOMAIN stack' = {} /\ ~Answering' /\ reply'.kind # "rows"
    BY <1>2, <1>3, EmptyIsSeq DEF Answering
  <2>2. Ready({})'
    BY <2>1 DEF Ready
  <2> QED
    BY <1>6, <1>8, <2>1, <2>2 DEF AskedInv, OutInv, RowsInv, ReadyInv, SearchInv
<1> QED
  BY <1>5, <1>7, <1>9 DEF SInv

\* What the query leaves alone.
LEMMA KeptSize ==
    ASSUME SInv, status # "new", UNCHANGED <<database, query, plan, batch, st>>
    PROVE  DbInv' /\ NodesInv'
<1>1. Planned(plan)'
  BY DEF SInv, DbInv, Planned, Fit, Tree
<1>2. DbInv'
  BY <1>1 DEF SInv, DbInv
<1>3. ASSUME NEW n \in DOMAIN plan PROVE Fits(plan[n], st[n])'
  BY DEF SInv, NodesInv, Fits, Placed
<1> QED
  BY <1>2, <1>3 DEF NodesInv

\* The query calls its root.
LEMMA RootCallSize ==
    ASSUME IInv, SInv, status # "new", stack = <<>>, UNCHANGED <<database, query, plan, batch, st>>,
           NEW call \in Calling, NEW max, Call(Root, call, max),
           call = "next" => max \in Nat \ {0} /\ Answering /\ reply.call # "close"
    PROVE  SInv'
<1> DEFINE f == [node |-> Root, call |-> call, max |-> max]
<1>1. stack' = Append(stack, f) /\ reply' = NoReply
  BY DEF Call
<1>2. IsSeq(stack') /\ Len(stack') = 1 /\ stack'[1] = f
  <2>1. IsSeq(stack) /\ Len(stack) + 1 = 1
    BY EmptyIsSeq
  <2> HIDE DEF f
  <2>2. IsSeq(stack') /\ Len(stack') = Len(stack) + 1 /\ stack'[Len(stack) + 1] = f
    BY <1>1, <2>1, AppendIs
  <2> QED
    BY <2>1, <2>2
<1>3. f.node = Root /\ f.call = call /\ f.max = max
  OBVIOUS
<1> HIDE DEF f
<1>4. DOMAIN stack' = {1}
  BY <1>2, SeqIs
<1>5. ~Answering' /\ reply'.kind # "rows"
  BY <1>1 DEF Answering, NoReply
<1>6. DbInv' /\ NodesInv'
  BY KeptSize
<1>7. AskedInv' /\ RowsInv' /\ SearchInv'
  BY <1>2, <1>3, <1>4, <1>5 DEF AskedInv, RowsInv, SearchInv
<1>8. OutInv'
  BY NoneHeld DEF OutInv
<1>9. ReadyInv'
  <2>1. CASE call = "next"
    <3>1. PICK A \in SUBSET (DOMAIN plan) : Ready(A)
      BY DEF SInv, ReadyInv
    <3>2. Root \in A
      BY <2>1, <3>1 DEF Ready, IInv, ReplyInv
    <3>3. Ready(A)'
      BY <1>2, <1>3, <1>4, <1>5, <2>1, <3>1, <3>2 DEF Ready, Streams
    <3> QED
      BY <3>3 DEF ReadyInv
  <2>2. CASE call # "next"
    <3>1. Ready({})'
      BY <1>2, <1>3, <1>4, <1>5, <2>2 DEF Ready
    <3> QED
      BY <3>1 DEF ReadyInv
  <2> QED
    BY <2>1, <2>2
<1> QED
  BY <1>6, <1>7, <1>8, <1>9 DEF SInv

\* The query ends.
LEMMA EndSize ==
    ASSUME IInv, SInv, status = "running", stack = <<>>, reply' = NoReply,
           UNCHANGED <<database, query, plan, batch, st, stack>>
    PROVE  SInv'
<1>1. DbInv' /\ NodesInv'
  BY KeptSize
<1>2. /\ DOMAIN stack' = {} /\ ~Answering' /\ reply'.kind # "rows"
  BY EmptyIsSeq DEF Answering, NoReply
<1>3. Ready({})'
  BY <1>2 DEF Ready
<1>4. (AskedInv /\ OutInv /\ RowsInv /\ ReadyInv /\ SearchInv)'
  BY <1>2, <1>3, NoneHeld DEF AskedInv, OutInv, RowsInv, ReadyInv, SearchInv
<1> QED
  BY <1>1, <1>4 DEF SInv

LEMMA OpenSize == ASSUME IInv, SInv, Open PROVE SInv'
<1>1. /\ status = "planned" /\ UNCHANGED <<database, query, plan, batch, st>> /\ Call(Root, "open", 0)
  BY DEF Open
<1>2. stack = <<>> /\ "open" \in Calling
  BY <1>1 DEF IInv, PlanInv, Calling
<1> QED
  BY <1>1, <1>2, RootCallSize

LEMMA TakeSize == ASSUME IInv, SInv, Take PROVE SInv'
<1>1. /\ status = "running" /\ stack = <<>> /\ UNCHANGED <<database, query, plan, batch, st>>
      /\ Call(Root, "next", Unbounded) /\ Answering /\ reply.call # "close"
  BY DEF Take, Back, Answering
<1>2. "next" \in Calling /\ Unbounded \in Nat \ {0}
  BY CountsArePositive DEF Calling
<1> QED
  BY <1>1, <1>2, RootCallSize

LEMMA CloseSize == ASSUME IInv, SInv, Close PROVE SInv'
<1>1. /\ status = "running" /\ stack = <<>> /\ UNCHANGED <<database, query, plan, batch, st>>
      /\ Call(Root, "close", 0)
  BY DEF Close
<1>2. "close" \in Calling
  BY DEF Calling
<1> QED
  BY <1>1, <1>2, RootCallSize

LEMMA FinishSize == ASSUME IInv, SInv, Finish PROVE SInv'
BY EndSize DEF Finish

LEMMA FailSize == ASSUME IInv, SInv, Fail PROVE SInv'
<1>1. stack = <<>>
  BY DEF Fail, IInv, ReplyInv
<1> QED
  BY <1>1, EndSize DEF Fail

LEMMA SameSize == ASSUME SInv, UNCHANGED vars PROVE SInv'
<1>1. UNCHANGED <<database, query, status, plan, batch, st, stack, reply>>
  BY DEF vars, opVars
<1>2. Planned(plan)' <=> Planned(plan)
  BY <1>1 DEF Planned, Fit, Tree
<1>3. DbInv' /\ AskedInv' /\ OutInv' /\ SearchInv'
  BY <1>1, <1>2 DEF SInv, DbInv, AskedInv, OutInv, SearchInv, Room, Answering
<1>4. NodesInv'
  BY <1>1 DEF SInv, NodesInv, Fits, Placed
<1>5. RowsInv'
  BY <1>1 DEF SInv, RowsInv, Cap, Top, Node
<1>6. ReadyInv'
  BY <1>1 DEF SInv, ReadyInv, Ready, Streams, Answering
<1> QED
  BY <1>3, <1>4, <1>5, <1>6 DEF SInv

LEMMA NextSize == ASSUME IInv, SInv, [Next]_vars PROVE SInv'
BY PlanSize, OpenSize, TakeSize, CloseSize, FinishSize, FailSize, WorkSize, SameSize DEF Next, Stopped

\* At every moment of every query what each node holds and each call asks for is in
\* bounds (open, next_batch and close of every operator in operator.cpp).
THEOREM QuerySizes == Spec => []SInv
<1>1. Init => IInv /\ SInv
  BY InitInv, InitSize
<1>2. IInv /\ [Next]_vars => IInv'
  BY PlanStepInv, OpenInvStep, TakeInv, CloseInv, FinishInv, FailInv, WorkInv, SameInv DEF Next, Stopped
<1>3. IInv /\ SInv /\ [Next]_vars => SInv'
  BY NextSize
<1> QED
  BY <1>1, <1>2, <1>3, PTL DEF Spec

\* Every batch handed up holds a row and no more than were asked for, whatever the plan,
\* the rows and the size of a batch: what next_batch checks of produce_batch
\* (operator.hpp), and an empty batch would be taken for the end.
THEOREM QueryBatchesHold == Spec => []BatchesHold
<1>1. SInv => BatchesHold
  BY DEF SInv, RowsInv, BatchesHold, Cap
<1> QED
  BY <1>1, QuerySizes, PTL
-----------------------------------------------------------------------------
(* What a limit reads.                                                     *)

\* The ways a step of an operator other than a limit can go.
Moves ==
    /\ stack # <<>>
    /\ \/ \E child, call, max : Call(child, call, max)
       \/ \E kind, b : Return(kind, b) /\ (kind = "rows" \/ b = NoRows)
       \/ GoOn
       \/ Throw

Aside == Throw \/ UNCHANGED st \/ \E s : Becomes(s)

Elsewhere == Node.op # "limit" /\ Moves /\ Aside

LEMMA OpenSourceMoves == OpenSource => Elsewhere
BY Zenon DEF OpenSource, Elsewhere, Moves, Aside, Serving, Back, Asked, Done, End, HandUp, Joins, Drainers

LEMMA CloseSourceMoves == CloseSource => Elsewhere
BY Zenon DEF CloseSource, Elsewhere, Moves, Aside, Serving, Back, Asked, Done, End, HandUp, Joins, Drainers

LEMMA ScanMoves == Scan => Elsewhere
BY Zenon DEF Scan, Elsewhere, Moves, Aside, Serving, Back, Asked, Done, End, HandUp, Joins, Drainers

LEMMA LookupMoves == Lookup => Elsewhere
BY Zenon DEF Lookup, Elsewhere, Moves, Aside, Serving, Back, Asked, Done, End, HandUp, Joins, Drainers

LEMMA DrainOpensMoves == DrainOpens => Elsewhere
BY Zenon DEF DrainOpens, Elsewhere, Moves, Aside, Serving, Back, Asked, Done, End, HandUp, Joins, Drainers

LEMMA DrainReadsMoves == DrainReads => Elsewhere
BY Zenon DEF DrainReads, Elsewhere, Moves, Aside, Serving, Back, Asked, Done, End, HandUp, Joins, Drainers

LEMMA DrainKeepsMoves == DrainKeeps => Elsewhere
BY Zenon DEF DrainKeeps, Elsewhere, Moves, Aside, Serving, Back, Asked, Done, End, HandUp, Joins, Drainers

LEMMA DrainGroupsMoves == DrainGroups => Elsewhere
BY Zenon DEF DrainGroups, Elsewhere, Moves, Aside, Serving, Back, Asked, Done, End, HandUp, Joins, Drainers

LEMMA DrainClosesMoves == DrainCloses => Elsewhere
BY Zenon DEF DrainCloses, Elsewhere, Moves, Aside, Serving, Back, Asked, Done, End, HandUp, Joins, Drainers

LEMMA DrainEndsMoves == DrainEnds => Elsewhere
BY Zenon DEF DrainEnds, Elsewhere, Moves, Aside, Serving, Back, Asked, Done, End, HandUp, Joins, Drainers

LEMMA HandOutMoves == HandOut => Elsewhere
BY Zenon DEF HandOut, Elsewhere, Moves, Aside, Serving, Back, Asked, Done, End, HandUp, Joins, Drainers

LEMMA CloseHeldMoves == CloseHeld => Elsewhere
BY Zenon DEF CloseHeld, Elsewhere, Moves, Aside, Serving, Back, Asked, Done, End, HandUp, Joins, Drainers

LEMMA OpenMinMaxMoves == OpenMinMax => Elsewhere
BY Zenon DEF OpenMinMax, Elsewhere, Moves, Aside, Serving, Back, Asked, Done, End, HandUp, Joins, Drainers

LEMMA OpenIndexJoinMoves == OpenIndexJoin => Elsewhere
BY Zenon DEF OpenIndexJoin, Elsewhere, Moves, Aside, Serving, Back, Asked, Done, End, HandUp, Joins, Drainers

LEMMA OpenedJoinMoves == OpenedJoin => Elsewhere
BY Zenon DEF OpenedJoin, Elsewhere, Moves, Aside, Serving, Back, Asked, Done, End, HandUp, Joins, Drainers

LEMMA CloseJoinMoves == CloseJoin => Elsewhere
BY Zenon DEF CloseJoin, Elsewhere, Moves, Aside, Serving, Back, Asked, Done, End, HandUp, Joins, Drainers

LEMMA ClosedJoinMoves == ClosedJoin => Elsewhere
BY Zenon DEF ClosedJoin, Elsewhere, Moves, Aside, Serving, Back, Asked, Done, End, HandUp, Joins, Drainers

LEMMA PullMoves == Pull => Elsewhere
BY Zenon DEF Pull, Elsewhere, Moves, Aside, Serving, Back, Asked, Done, End, HandUp, Joins, Drainers

LEMMA PulledMoves == Pulled => Elsewhere
BY Zenon DEF Pulled, Elsewhere, Moves, Aside, Serving, Back, Asked, Done, End, HandUp, Joins, Drainers

LEMMA PulledNoneMoves == PulledNone => Elsewhere
BY Zenon DEF PulledNone, Elsewhere, Moves, Aside, Serving, Back, Asked, Done, End, HandUp, Joins, Drainers

LEMMA NestedLoopMoves == NestedLoop => Elsewhere
BY Zenon DEF NestedLoop, Elsewhere, Moves, Aside, Serving, Back, Asked, Done, End, HandUp, Joins, Drainers

LEMMA HashProbeMoves == HashProbe => Elsewhere
BY Zenon DEF HashProbe, Elsewhere, Moves, Aside, Serving, Back, Asked, Done, End, HandUp, Joins, Drainers

LEMMA IndexSearchMoves == IndexSearch => Elsewhere
BY Zenon DEF IndexSearch, Elsewhere, Moves, Aside, Serving, Back, Asked, Done, End, HandUp, Joins, Drainers

LEMMA JoinHandsMoves == JoinHands => Elsewhere
BY Zenon DEF JoinHands, Elsewhere, Moves, Aside, Serving, Back, Asked, Done, End, HandUp, Joins, Drainers

LEMMA NestedLoopHandsMoves == NestedLoopHands => Elsewhere
BY Zenon DEF NestedLoopHands, Elsewhere, Moves, Aside, Serving, Back, Asked, Done, End, HandUp, Joins, Drainers

LEMMA AskMoves == Ask => Elsewhere
BY Zenon DEF Ask, Elsewhere, Moves, Aside, Serving, Back, Asked, Done, End, HandUp, Joins, Drainers

LEMMA FilterRowsMoves == FilterRows => Elsewhere
BY Zenon DEF FilterRows, Elsewhere, Moves, Aside, Serving, Back, Asked, Done, End, HandUp, Joins, Drainers

LEMMA ProjectRowsMoves == ProjectRows => Elsewhere
BY Zenon DEF ProjectRows, Elsewhere, Moves, Aside, Serving, Back, Asked, Done, End, HandUp, Joins, Drainers

LEMMA PassDownMoves == PassDown /\ Node.op # "limit" => Elsewhere
BY Zenon DEF PassDown, Elsewhere, Moves, Aside, Serving, Asked

LEMMA PassUpMoves == PassUp /\ Node.op # "limit" => Elsewhere
BY Zenon DEF PassUp, Elsewhere, Moves, Aside, Serving, Back, Done

LEMMA ExhaustedMoves == Exhausted /\ Node.op # "limit" => Elsewhere
BY Zenon DEF Exhausted, Elsewhere, Moves, Aside, Serving, Back, End

LEMMA LimitMoves == PassDown \/ PassUp \/ Exhausted \/ LimitAsks \/ LimitRows => Moves
<1>1. PassDown => Moves
  BY Zenon DEF PassDown, Moves, Serving
<1>2. PassUp => Moves
  BY Zenon DEF PassUp, Moves, Serving, Done
<1>3. Exhausted => Moves
  BY Zenon DEF Exhausted, Moves, Serving, End
<1>4. LimitAsks => Moves
  BY Zenon DEF LimitAsks, Moves, Serving, End
<1>5. LimitRows => Moves
  BY Zenon DEF LimitRows, Moves, Serving, HandUp
<1> QED
  BY <1>1, <1>2, <1>3, <1>4, <1>5

LEMMA LimitAsksOnly == LimitAsks \/ LimitRows => Node.op = "limit"
BY DEF LimitAsks, LimitRows, Serving

LEMMA WorkMoves ==
    OperatorStep => /\ Moves
                    /\ \/ Node.op # "limit" /\ Aside
                       \/ Node.op = "limit" /\ (PassDown \/ PassUp \/ Exhausted \/ LimitAsks \/ LimitRows)
BY LimitMoves, PassDownMoves, PassUpMoves, ExhaustedMoves, LimitAsksOnly,
     OpenSourceMoves, CloseSourceMoves, ScanMoves, LookupMoves, DrainOpensMoves, DrainReadsMoves,
     DrainKeepsMoves, DrainGroupsMoves, DrainClosesMoves, DrainEndsMoves, HandOutMoves, CloseHeldMoves,
     OpenMinMaxMoves, OpenIndexJoinMoves, OpenedJoinMoves, CloseJoinMoves, ClosedJoinMoves, PullMoves,
     PulledMoves, PulledNoneMoves, NestedLoopMoves, HashProbeMoves, IndexSearchMoves, JoinHandsMoves,
     NestedLoopHandsMoves, AskMoves, FilterRowsMoves, ProjectRowsMoves
   DEF OperatorStep, Elsewhere
-----------------------------------------------------------------------------
\* Every node counts its rows.
CountsInv == DOMAIN rowsOut = DOMAIN plan /\ \A n \in DOMAIN plan : rowsOut[n] \in Nat

\* Which of its calls the query has made of the root.
Phase == IF stack # <<>> THEN stack[1].call
         ELSE IF status \in {"new", "planned"} THEN "open"
         ELSE IF Answering THEN reply.call ELSE "close"

\* The rows of c that its reader has yet to take.
Pending(c) == IF reply.kind = "rows" /\ reply.node = c THEN Count(reply.batch) ELSE 0

\* The limit l has handed up all it has had read, but for what is on its way, and asks
\* for no more than it has left.
Metered(l) ==
    LET c     == plan[l].in[1]
        given == st[l].given
    IN  /\ rowsOut[c] <= plan[l].n
        /\ Phase = "open" => rowsOut[c] = 0 /\ given = 0
        /\ Phase = "next" => rowsOut[c] = given + Pending(c)
        /\ \A i \in DOMAIN stack : stack[i].node = c /\ stack[i].call = "next" => stack[i].max <= plan[l].n - given

MeterInv == CountsInv /\ \A l \in DOMAIN plan : plan[l].op = "limit" => Metered(l)

\* A limit is at the root, or right below a projection there.
LEMMA LimitIs ==
    ASSUME IInv, SInv, NEW l \in DOMAIN plan, plan[l].op = "limit"
    PROVE  /\ Tree(plan) /\ l \in Nat /\ Root \in Nat
           /\ plan[l].in[1] \in DOMAIN plan /\ plan[l].in[1] \in Nat
           /\ plan[l].in[1] < l /\ l <= Root /\ plan[l].in[1] \in Ins(plan[l])
           /\ plan[l].op \in Through /\ plan[l].op \notin Drainers /\ Streamed(plan[l]) = plan[l].in[1]
           /\ plan[l].n \in Nat /\ st[l].given \in Nat
           /\ l # Root => l \in Ins(plan[Root]) /\ plan[Root].op \notin Drainers
<1>1. status # "new" /\ Tree(plan)
  <2>1. plan # <<>>
    BY EmptyIsSeq
  <2> QED
    BY <2>1 DEF IInv, PlanInv
<1>2. plan[l].op \in Through /\ plan[l].op \notin Drainers
  BY DEF Through, Drainers
<1>3. /\ Root \in Nat \ {0} /\ DOMAIN plan = 1..Root /\ l \in Nat /\ Ins(plan[l]) \subseteq 1..(l - 1)
      /\ Streamed(plan[l]) \in Ins(plan[l]) /\ plan[l].in[1] = Streamed(plan[l])
  BY <1>1, <1>2, NodeFacts
<1>4. plan[l].n \in Nat /\ st[l].given \in Nat
  BY <1>1 DEF SInv, DbInv, Planned, Fit, NodesInv, Fits
<1>5. l # Root => l \in Ins(plan[Root]) /\ plan[Root].op \notin Drainers
  <2> SUFFICES ASSUME l # Root PROVE l \in Ins(plan[Root]) /\ plan[Root].op \notin Drainers
    OBVIOUS
  <2>1. plan[Root].op = "project" /\ plan[Root].in = <<l>>
    BY <1>1 DEF SInv, DbInv, Planned, Root
  <2> QED
    BY <2>1 DEF Ins, Drainers
<1> QED
  BY <1>1, <1>2, <1>3, <1>4, <1>5

\* A node that reads as it is asked is called by a frame as that frame was.
LEMMA SameCallBelow ==
    ASSUME IInv, Tree(plan), NEW i \in DOMAIN stack, NEW p \in DOMAIN plan, stack[i].node \in Ins(plan[p]),
           plan[p].op \notin Drainers
    PROVE  i \in Nat /\ i - 1 \in DOMAIN stack /\ stack[i - 1].node = p /\ stack[i - 1].call = stack[i].call
<1>1. i \in Nat /\ i - 1 \in DOMAIN stack /\ stack[i - 1].node = p
  BY CallerReads
<1>2. i > 1
  <2>1. DOMAIN stack = 1..Len(stack) /\ Len(stack) \in Nat
    BY SeqIs DEF IInv, FramesInv
  <2> QED
    BY <1>1, <2>1
<1>3. Link(stack[i - 1], stack[i].node, stack[i].call) /\ stack[i - 1].call \in Calling
  BY <1>1, <1>2 DEF IInv, FramesInv
<1> QED
  BY <1>1, <1>3 DEF Link, Calling

\* The calls of a limit are the calls of the root.
LEMMA LimitCall ==
    ASSUME IInv, SInv, NEW l \in DOMAIN plan, plan[l].op = "limit", NEW i \in DOMAIN stack, stack[i].node = l
    PROVE  stack[i].call = stack[1].call
<1>0. Tree(plan) /\ Root \in DOMAIN plan /\ 1 \in DOMAIN stack /\ stack[1].node = Root
  <2>1. Tree(plan) /\ Root \in DOMAIN plan
    BY LimitIs, RootIs
  <2>2. DOMAIN stack = 1..Len(stack) /\ Len(stack) \in Nat
    BY SeqIs DEF IInv, FramesInv
  <2> QED
    BY <2>1, <2>2 DEF IInv, FramesInv
<1>1. CASE l = Root
  BY <1>0, <1>1, OneFrame
<1>2. CASE l # Root
  <2>1. i - 1 \in DOMAIN stack /\ stack[i - 1].node = Root /\ stack[i - 1].call = stack[i].call
    BY <1>0, <1>2, LimitIs, SameCallBelow
  <2>2. i - 1 = 1
    BY <1>0, <2>1, OneFrame
  <2> QED
    BY <2>1, <2>2
<1> QED
  BY <1>1, <1>2

\* So are those of the node a limit reads.
LEMMA LimitReads ==
    ASSUME IInv, SInv, NEW l \in DOMAIN plan, plan[l].op = "limit", NEW i \in DOMAIN stack,
           stack[i].node = plan[l].in[1]
    PROVE  i \in Nat /\ i - 1 \in DOMAIN stack /\ stack[i - 1].node = l /\ stack[i].call = stack[1].call
<1>1. i \in Nat /\ i - 1 \in DOMAIN stack /\ stack[i - 1].node = l /\ stack[i - 1].call = stack[i].call
  BY LimitIs, SameCallBelow
<1> QED
  BY <1>1, LimitCall
-----------------------------------------------------------------------------
LEMMA PhaseKept ==
    ASSUME IInv, Working, Moves
    PROVE  Phase' \in {Phase, "close"}
<1>1. /\ stack # <<>> /\ IsSeq(stack) /\ Len(stack) \in Nat \ {0} /\ DOMAIN stack = 1..Len(stack)
      /\ Top = stack[Len(stack)] /\ status = "running" /\ status' = status
  BY InCall DEF Moves, Working
<1>2. Phase = stack[1].call
  BY <1>1 DEF Phase
<1>3. ASSUME NEW child, NEW call, NEW max, Call(child, call, max) PROVE Phase' = Phase
  <2>1. stack' # <<>> /\ stack'[1] = stack[1]
    BY <1>1, <1>3, AppendIs DEF Call
  <2> QED
    BY <1>2, <2>1 DEF Phase
<1>4. ASSUME NEW kind, NEW b, Return(kind, b) PROVE Phase' \in {Phase, "close"}
  <2>1. IsSeq(stack') /\ Len(stack') = Len(stack) - 1 /\ \A i \in 1..(Len(stack) - 1) : stack'[i] = stack[i]
    BY <1>1, <1>4, FrontOf DEF Return
  <2>2. CASE stack' = <<>>
    <3>0. Len(stack') = 0
      BY <2>2, EmptyIsSeq
    <3>1. Len(stack) = 1
      <4> DEFINE K == Len(stack)
      <4>1. K \in Nat /\ 0 = K - 1
        BY <1>1, <2>1, <3>0
      <4> HIDE DEF K
      <4>2. K = 1
        BY <4>1
      <4> QED
        BY <4>2 DEF K
    <3>2. reply'.call = Top.call
      BY <1>4 DEF Return
    <3> QED
      BY <1>1, <1>2, <2>2, <3>1, <3>2 DEF Phase
  <2>3. CASE stack' # <<>>
    <3>1. Len(stack') # 0 /\ Len(stack') \in Nat
      BY <2>1, <2>3, SeqIs
    <3>2. stack'[1] = stack[1]
      BY <1>1, <2>1, <3>1
    <3> QED
      BY <1>2, <2>3, <3>2 DEF Phase
  <2> QED
    BY <2>2, <2>3
<1>5. CASE GoOn
  BY <1>1, <1>5 DEF GoOn, Phase
<1>6. CASE Throw
  <2>1. stack' = <<>> /\ reply'.kind = "error"
    BY <1>6 DEF Throw, NoReply
  <2> QED
    BY <1>1, <2>1 DEF Phase, Answering
<1> QED
  BY <1>3, <1>4, <1>5, <1>6 DEF Moves

\* A step calls nodes that the node at work reads.
LEMMA NewFrames ==
    ASSUME IInv, IInv', Working, Moves, NEW i \in DOMAIN stack'
    PROVE  \/ i \in DOMAIN stack /\ stack'[i] = stack[i]
           \/ stack'[i].node \in Ins(Node) /\ \E child, call, max : Call(child, call, max) /\ stack'[i].max = max
<1>1. /\ stack # <<>> /\ IsSeq(stack) /\ Len(stack) \in Nat \ {0} /\ DOMAIN stack = 1..Len(stack)
      /\ Top = stack[Len(stack)] /\ Top.node \in DOMAIN plan /\ Top.call \in Calling /\ Tree(plan)
      /\ Node = plan[Top.node] /\ plan' = plan
  BY InCall DEF Moves, Working
<1>3. ASSUME NEW child, NEW call, NEW max, Call(child, call, max)
      PROVE \/ i \in DOMAIN stack /\ stack'[i] = stack[i]
            \/ stack'[i].node \in Ins(Node) /\ stack'[i].max = max
  <2> DEFINE f == [node |-> child, call |-> call, max |-> max]
  <2>0. f.max = max
    OBVIOUS
  <2> HIDE DEF f
  <2>1. /\ IsSeq(stack') /\ Len(stack') = Len(stack) + 1 /\ \A j \in 1..Len(stack) : stack'[j] = stack[j]
        /\ stack'[Len(stack) + 1] = f
    BY <1>1, <1>3, AppendIs DEF Call, f
  <2>2. DOMAIN stack' = 1..(Len(stack) + 1)
    BY <2>1, SeqIs
  <2>3. CASE i = Len(stack) + 1
    <3>1. i > 1 /\ i - 1 = Len(stack)
      BY <1>1, <2>3
    <3>2. Link(stack[i - 1], stack[i].node, stack[i].call)'
      BY <3>1 DEF IInv, FramesInv
    <3>3. stack'[i - 1] = Top
      BY <1>1, <2>1, <3>1
    <3>4. Link(Top, stack'[i].node, stack'[i].call)
      BY <1>1, <3>2, <3>3 DEF Link, Streams
    <3> QED
      BY <1>1, <2>0, <2>1, <2>3, <3>4, LinkIns
  <2>4. CASE i # Len(stack) + 1
    BY <1>1, <2>1, <2>2, <2>4
  <2> QED
    BY <2>3, <2>4
<1>4. ASSUME NEW kind, NEW b, Return(kind, b) PROVE i \in DOMAIN stack /\ stack'[i] = stack[i]
  <2>1. IsSeq(stack') /\ Len(stack') = Len(stack) - 1 /\ \A j \in 1..(Len(stack) - 1) : stack'[j] = stack[j]
    BY <1>1, <1>4, FrontOf DEF Return
  <2>2. DOMAIN stack' = 1..(Len(stack) - 1)
    BY <2>1, SeqIs
  <2> QED
    BY <1>1, <2>1, <2>2
<1>5. CASE GoOn
  BY <1>5 DEF GoOn
<1>6. CASE Throw
  BY <1>6, EmptyIsSeq DEF Throw
<1> QED
  BY <1>3, <1>4, <1>5, <1>6 DEF Moves

\* What a step hands up is counted.
LEMMA MovesCount ==
    ASSUME IInv, SInv', CountsInv, Working, Moves
    PROVE  /\ CountsInv'
           /\ \A n \in DOMAIN plan : /\ rowsOut'[n] = rowsOut[n] + Pending(n)' /\ Pending(n)' \in Nat
                                     /\ n # Top.node => Pending(n)' = 0
           /\ reply'.kind = "rows" => reply'.node = Top.node /\ reply'.call = Top.call /\ reply'.max = Top.max
<1>0. stack # <<>> /\ Top.node \in DOMAIN plan /\ plan' = plan
  BY InCall DEF Moves, Working
<1> SUFFICES /\ DOMAIN rowsOut' = DOMAIN rowsOut
             /\ \A n \in DOMAIN plan : /\ rowsOut'[n] = rowsOut[n] + Pending(n)' /\ Pending(n)' \in Nat
                                       /\ n # Top.node => Pending(n)' = 0
             /\ reply'.kind = "rows" => reply'.node = Top.node /\ reply'.call = Top.call /\ reply'.max = Top.max
  BY <1>0 DEF CountsInv
<1>1. CASE UNCHANGED rowsOut /\ reply'.kind # "rows"
  BY <1>1 DEF CountsInv, Pending
<1>2. ASSUME NEW kind, NEW b, Return(kind, b), kind = "rows" \/ b = NoRows
      PROVE  /\ DOMAIN rowsOut' = DOMAIN rowsOut
             /\ \A n \in DOMAIN plan : /\ rowsOut'[n] = rowsOut[n] + Pending(n)' /\ Pending(n)' \in Nat
                                       /\ n # Top.node => Pending(n)' = 0
             /\ reply'.kind = "rows" => reply'.node = Top.node /\ reply'.call = Top.call /\ reply'.max = Top.max
  <2>1. /\ rowsOut' = [rowsOut EXCEPT ![Top.node] = @ + Count(b)]
        /\ reply'.kind = kind /\ reply'.node = Top.node /\ reply'.call = Top.call /\ reply'.max = Top.max
        /\ reply'.batch = b
    BY <1>2 DEF Return
  <2>2. CASE kind = "rows"
    <3>1. Count(b) \in Nat
      BY <2>1, <2>2, CountIs DEF SInv, RowsInv
    <3>2. ASSUME NEW n PROVE Pending(n)' = IF n = Top.node THEN Count(b) ELSE 0
      BY <2>1, <2>2 DEF Pending
    <3> QED
      BY <1>0, <2>1, <3>1, <3>2 DEF CountsInv
  <2>3. CASE kind # "rows"
    <3>1. Count(b) = 0
      BY <1>2, <2>3, NoRowsIs
    <3>2. ASSUME NEW n PROVE Pending(n)' = 0
      BY <2>1, <2>3 DEF Pending
    <3> QED
      BY <1>0, <2>1, <2>3, <3>1, <3>2 DEF CountsInv
  <2> QED
    BY <2>2, <2>3
<1>3. ASSUME NEW child, NEW call, NEW max, Call(child, call, max) PROVE UNCHANGED rowsOut /\ reply'.kind # "rows"
  BY <1>3 DEF Call, NoReply
<1>4. GoOn => UNCHANGED rowsOut /\ reply'.kind # "rows"
  BY DEF GoOn, NoReply
<1>5. Throw => UNCHANGED rowsOut /\ reply'.kind # "rows"
  BY DEF Throw, NoReply
<1> QED
  BY <1>1, <1>2, <1>3, <1>4, <1>5 DEF Moves

\* What waits for a node has been handed up by one it reads.
LEMMA PendingBelow ==
    ASSUME IInv, stack # <<>>, NEW c \in DOMAIN plan, NEW l \in DOMAIN plan, c \in Ins(plan[l]), Top.node # l
    PROVE  Pending(c) = 0
<1> SUFFICES ASSUME reply.kind = "rows", reply.node = c PROVE FALSE
  BY DEF Pending
<1>1. Link(Top, c, reply.call) /\ Tree(plan) /\ Top.node \in DOMAIN plan /\ Top.call \in Calling
  BY InCall DEF Answering
<1>2. c \in Ins(plan[Top.node])
  BY <1>1, LinkIns
<1> QED
  BY <1>1, <1>2, OneReader
-----------------------------------------------------------------------------
\* A step of another node, or of the one the limit reads.
LEMMA OtherMeter ==
    ASSUME IInv, SInv, IInv', SInv', CountsInv, Working, Moves, Aside, NEW l \in DOMAIN plan, plan[l].op = "limit",
           Metered(l), Top.node # l
    PROVE  Metered(l)'
<1> PICK c : c = plan[l].in[1]
  OBVIOUS
<1>1. /\ Tree(plan) /\ l \in Nat /\ c \in DOMAIN plan /\ c \in Ins(plan[l]) /\ plan[l].n \in Nat
      /\ st[l].given \in Nat /\ plan' = plan
  BY LimitIs DEF Working
<1>2. /\ stack # <<>> /\ Top = stack[Len(stack)] /\ Len(stack) \in DOMAIN stack /\ Top.node \in DOMAIN plan
      /\ Node = plan[Top.node] /\ DOMAIN st = DOMAIN plan
  <2>1. Len(stack) \in DOMAIN stack
    BY InCall DEF Moves
  <2> QED
    BY <2>1, InCall DEF Moves, IInv, HeldInv
<1>3. /\ rowsOut[c] \in Nat /\ rowsOut[c] <= plan[l].n
      /\ Phase = "open" => rowsOut[c] = 0 /\ st[l].given = 0
      /\ Phase = "next" => rowsOut[c] = st[l].given + Pending(c)
      /\ \A i \in DOMAIN stack : stack[i].node = c /\ stack[i].call = "next" => stack[i].max <= plan[l].n - st[l].given
  BY <1>1 DEF Metered, CountsInv
<1>4. Pending(c) = 0
  BY <1>1, <1>2, PendingBelow
<1>5. /\ rowsOut'[c] = rowsOut[c] + Pending(c)' /\ Pending(c)' \in Nat
      /\ c # Top.node => Pending(c)' = 0
      /\ reply'.kind = "rows" => reply'.node = Top.node /\ reply'.call = Top.call /\ reply'.max = Top.max
  BY <1>1, MovesCount
<1>6. Phase' \in {Phase, "close"}
  BY PhaseKept
<1>7. Pending(c)' # 0 => Phase = "next" /\ Pending(c)' <= plan[l].n - st[l].given
  <2> SUFFICES ASSUME Pending(c)' # 0 PROVE Phase = "next" /\ Pending(c)' <= plan[l].n - st[l].given
    OBVIOUS
  <2>1. c = Top.node /\ reply'.kind = "rows" /\ Pending(c)' = Count(reply'.batch)
    BY <1>5 DEF Pending
  <2>2. reply'.call = "next" /\ Count(reply'.batch) \in 1..Least(reply'.max, Cap') /\ reply'.max \in Nat /\ batch' \in Nat
    BY <2>1 DEF SInv, RowsInv, DbInv
  <2>3. Top.call = "next" /\ Count(reply'.batch) \in Nat /\ Count(reply'.batch) <= Top.max /\ Top.max \in Nat
    BY <1>5, <2>1, <2>2 DEF Least, Cap
  <2>4. stack[1].call = "next"
    BY <1>2, <2>1, <2>3, LimitReads
  <2>5. Top.max <= plan[l].n - st[l].given
    BY <1>2, <1>3, <2>1, <2>3
  <2> QED
    BY <1>1, <1>2, <2>1, <2>3, <2>4, <2>5 DEF Phase
<1>8. CASE Throw
  <2>1. Phase' = "close" /\ DOMAIN stack' = {} /\ UNCHANGED rowsOut
    <3>1. stack' = <<>> /\ reply'.kind = "error" /\ UNCHANGED rowsOut /\ status' = "running"
      BY <1>2, <1>8, InCall DEF Throw, NoReply, Working
    <3> QED
      BY <3>1, EmptyIsSeq DEF Phase, Answering
  <2> QED
    BY <1>1, <1>3, <2>1 DEF Metered
<1>9. CASE UNCHANGED st \/ \E s : Becomes(s)
  <2>1. st'[l] = st[l]
    BY <1>1, <1>2, <1>9 DEF Becomes
  <2>2. rowsOut'[c] <= plan[l].n
    BY <1>1, <1>3, <1>4, <1>5, <1>7
  <2>3. Phase' = "open" => rowsOut'[c] = 0 /\ st[l].given = 0
    BY <1>3, <1>5, <1>6, <1>7
  <2>4. Phase' = "next" => rowsOut'[c] = st[l].given + Pending(c)'
    BY <1>1, <1>3, <1>4, <1>5, <1>6
  <2>5. ASSUME NEW i \in DOMAIN stack', stack'[i].node = c, stack'[i].call = "next"
        PROVE  stack'[i].max <= plan[l].n - st[l].given
    <3>1. stack'[i].node \notin Ins(Node)
      BY <1>1, <1>2, <2>5, OneReader
    <3>2. i \in DOMAIN stack /\ stack'[i] = stack[i]
      BY <3>1, NewFrames
    <3> QED
      BY <1>3, <2>5, <3>2
  <2> QED
    BY <1>1, <2>1, <2>2, <2>3, <2>4, <2>5 DEF Metered
<1> QED
  BY <1>8, <1>9 DEF Aside

\* A step of the limit itself.
LEMMA OwnMeter ==
    ASSUME IInv, SInv, IInv', SInv', CountsInv, Working, Moves, NEW l \in DOMAIN plan, plan[l].op = "limit",
           Metered(l), Top.node = l, PassDown \/ PassUp \/ Exhausted \/ LimitAsks \/ LimitRows
    PROVE  Metered(l)'
<1> PICK c : c = plan[l].in[1]
  OBVIOUS
<1>1. /\ Tree(plan) /\ l \in Nat /\ c \in DOMAIN plan /\ c \in Nat /\ c < l /\ plan[l].n \in Nat
      /\ st[l].given \in Nat /\ plan' = plan
  BY LimitIs DEF Working
<1>2. /\ stack # <<>> /\ Top = stack[Len(stack)] /\ Len(stack) \in DOMAIN stack /\ DOMAIN stack = 1..Len(stack)
      /\ Len(stack) \in Nat /\ Node = plan[l] /\ S = st[l] /\ DOMAIN S = DOMAIN Idle /\ DOMAIN st = DOMAIN plan
  <2>1. Len(stack) \in DOMAIN stack
    BY InCall DEF Moves
  <2> QED
    BY <2>1, InCall DEF Moves, IInv, HeldInv
<1>3. /\ rowsOut[c] \in Nat /\ rowsOut[c] <= plan[l].n
      /\ Phase = "open" => rowsOut[c] = 0 /\ st[l].given = 0
      /\ Phase = "next" => rowsOut[c] = st[l].given + Pending(c)
  BY <1>1 DEF Metered, CountsInv
<1>4. rowsOut'[c] = rowsOut[c] /\ Pending(c)' = 0
  BY <1>1, <1>3, MovesCount
<1>5. Phase' \in {Phase, "close"} /\ Phase = Top.call
  <2>1. Phase = Top.call
    BY <1>2, LimitCall DEF Phase
  <2> QED
    BY <2>1, PhaseKept
<1>6. \A i \in DOMAIN stack : stack[i].node # c
  <2> SUFFICES ASSUME NEW i \in DOMAIN stack, stack[i].node = c PROVE FALSE
    OBVIOUS
  <2>1. i \in Nat /\ i - 1 \in DOMAIN stack /\ stack[i - 1].node = l
    BY LimitReads
  <2>2. i - 1 = Len(stack)
    BY <1>1, <1>2, <2>1, OneFrame
  <2> QED
    BY <1>2, <2>1, <2>2
<1>7. ASSUME NEW i \in DOMAIN stack', stack'[i].node = c
      PROVE  \E child, call, max : Call(child, call, max) /\ stack'[i].max = max
  BY <1>6, <1>7, NewFrames
<1>8. ASSUME UNCHANGED st, Phase = "next" => Pending(c) = 0,
             \A i \in DOMAIN stack' : stack'[i].node = c /\ stack'[i].call = "next" =>
                 stack'[i].max <= plan[l].n - st[l].given
      PROVE  Metered(l)'
  BY <1>1, <1>3, <1>4, <1>5, <1>8 DEF Metered
<1>9. ASSUME NEW call, NEW child, NEW max, Call(child, call, max), NEW i \in DOMAIN stack', stack'[i].node = c
      PROVE  stack'[i].call = call /\ stack'[i].max = max
  <2> DEFINE f == [node |-> child, call |-> call, max |-> max]
  <2>0. f.max = max /\ f.call = call
    OBVIOUS
  <2> HIDE DEF f
  <2>1. /\ IsSeq(stack') /\ Len(stack') = Len(stack) + 1 /\ \A j \in 1..Len(stack) : stack'[j] = stack[j]
        /\ stack'[Len(stack) + 1] = f
    BY <1>2, <1>9, AppendIs DEF Call, f, IInv, FramesInv
  <2>2. DOMAIN stack' = 1..(Len(stack) + 1)
    BY <2>1, SeqIs
  <2>3. i \notin DOMAIN stack
    BY <1>2, <1>6, <1>9, <2>1
  <2>4. i = Len(stack) + 1
    BY <1>2, <2>2, <2>3
  <2> QED
    BY <2>0, <2>1, <2>4
<1>10. ASSUME NEW kind, NEW b, Return(kind, b), NEW i \in DOMAIN stack' PROVE stack'[i].node # c
  <2>1. /\ IsSeq(stack') /\ Len(stack') = Len(stack) - 1 /\ \A j \in 1..(Len(stack) - 1) : stack'[j] = stack[j]
    BY <1>2, <1>10, FrontOf DEF Return, IInv, FramesInv
  <2>2. DOMAIN stack' = 1..(Len(stack) - 1)
    BY <2>1, SeqIs
  <2>3. i \in DOMAIN stack /\ stack'[i] = stack[i]
    BY <1>2, <2>1, <2>2
  <2> QED
    BY <1>6, <2>3
<1>11. CASE PassDown
  <2>1. PICK call \in {"open", "close"} : reply.kind = "none" /\ Call(Node.in[1], call, 0) /\ UNCHANGED st
    BY <1>11 DEF PassDown, Asked
  <2>2. \A i \in DOMAIN stack' : stack'[i].node = c => stack'[i].call # "next"
    BY <1>9, <2>1
  <2> QED
    BY <1>8, <2>1, <2>2 DEF Pending
<1>12. CASE PassUp
  <2> DEFINE s == [S EXCEPT !.given = 0]
  <2>1. Top.call \in {"open", "close"} /\ Becomes(s) /\ Return("done", NoRows)
    BY <1>12 DEF PassUp, Serving, Done
  <2>2. s.given = 0
    BY <1>2, IdleIs
  <2> HIDE DEF s
  <2>3. st'[l] = s
    BY <1>1, <1>2, <2>1 DEF Becomes
  <2>4. Phase' # "next"
    BY <1>5, <2>1
  <2>5. \A i \in DOMAIN stack' : stack'[i].node # c
    BY <1>10, <2>1
  <2> QED
    BY <1>1, <1>3, <1>4, <1>5, <2>2, <2>3, <2>4, <2>5 DEF Metered
<1>13. CASE Exhausted
  <2>1. reply.kind = "end" /\ Return("end", NoRows) /\ UNCHANGED st
    BY <1>13 DEF Exhausted, Back, End
  <2> QED
    BY <1>8, <1>10, <2>1 DEF Pending
<1>14. CASE LimitAsks
  <2>1. /\ reply.kind = "none" /\ UNCHANGED st
        /\ IF S.given >= Node.n THEN Return("end", NoRows)
           ELSE Call(Node.in[1], "next", Least(Top.max, Node.n - S.given))
    BY <1>14 DEF LimitAsks, Asked, End
  <2>2. CASE S.given >= Node.n
    BY <1>8, <1>10, <2>1, <2>2 DEF Pending
  <2>3. CASE ~(S.given >= Node.n)
    <3>1. Top.max \in Nat
      BY <1>14, <1>2, Now DEF LimitAsks, Serving
    <3>2. Least(Top.max, Node.n - S.given) <= plan[l].n - st[l].given
      BY <1>1, <1>2, <3>1 DEF Least
    <3>3. \A i \in DOMAIN stack' : stack'[i].node = c => stack'[i].max = Least(Top.max, Node.n - S.given)
      BY <1>9, <2>1, <2>3
    <3> QED
      BY <1>8, <2>1, <3>2, <3>3 DEF Pending
  <2> QED
    BY <2>2, <2>3
<1>15. CASE LimitRows
  <2> DEFINE s == [S EXCEPT !.given = @ + Count(reply.batch)]
  <2>1. Top.call = "next" /\ reply.kind = "rows" /\ reply.call = "next" /\ Becomes(s) /\ Return("rows", reply.batch)
    BY <1>15 DEF LimitRows, Serving, Back, HandUp
  <2>2. s.given = S.given + Count(reply.batch)
    BY <1>2, IdleIs
  <2> HIDE DEF s
  <2>3. st'[l] = s
    BY <1>1, <1>2, <2>1 DEF Becomes
  <2>4. reply.node = c
    <3>1. Link(Top, reply.node, "next")
      BY <1>2, <2>1, InCall DEF Answering
    <3> QED
      BY <2>1, <3>1, LimitIs DEF Link, Streams
  <2>5. Pending(c) = Count(reply.batch)
    BY <2>1, <2>4 DEF Pending
  <2>6. rowsOut[c] = s.given
    BY <1>2, <1>3, <1>5, <2>1, <2>2, <2>5
  <2>7. \A i \in DOMAIN stack' : stack'[i].node # c
    BY <1>10, <2>1
  <2>8. Phase' # "open"
    BY <1>5, <2>1
  <2>9. s.given + 0 = s.given
    BY <1>3, <2>6
  <2> QED
    BY <1>1, <1>3, <1>4, <2>3, <2>6, <2>7, <2>8, <2>9 DEF Metered
<1> QED
  BY <1>11, <1>12, <1>13, <1>14, <1>15

LEMMA WorkMeter == ASSUME IInv, SInv, MeterInv, Work, IInv', SInv' PROVE MeterInv'
<1>1. OperatorStep /\ Working
  BY DEF Work, Working, OperatorStep
<1>2. /\ Moves /\ stack # <<>>
      /\ \/ Node.op # "limit" /\ Aside
         \/ Node.op = "limit" /\ (PassDown \/ PassUp \/ Exhausted \/ LimitAsks \/ LimitRows)
  BY <1>1, WorkMoves DEF Moves
<1>3. CountsInv'
  BY <1>1, <1>2, MovesCount DEF MeterInv
<1>4. plan' = plan /\ Node = plan[Top.node] /\ Top.node \in DOMAIN plan /\ DOMAIN st = DOMAIN plan
  BY <1>1, <1>2, InCall DEF Working, IInv, HeldInv
<1>5. Node.op = "limit" => Aside
  <2>1. PassDown \/ Exhausted \/ LimitAsks => UNCHANGED st
    BY DEF PassDown, Exhausted, LimitAsks
  <2>2. PassUp \/ LimitRows => \E s : Becomes(s)
    BY Zenon DEF PassUp, LimitRows
  <2> QED
    BY <1>2, <2>1, <2>2 DEF Aside
<1>6. ASSUME NEW l \in DOMAIN plan, plan[l].op = "limit" PROVE Metered(l)'
  <2>1. Metered(l) /\ CountsInv
    BY <1>6 DEF MeterInv
  <2>2. CASE Top.node = l
    BY <1>1, <1>2, <1>4, <1>6, <2>1, <2>2, OwnMeter
  <2>3. CASE Top.node # l
    BY <1>1, <1>2, <1>5, <1>6, <2>1, <2>3, OtherMeter
  <2> QED
    BY <2>2, <2>3
<1> QED
  BY <1>3, <1>4, <1>6 DEF MeterInv
-----------------------------------------------------------------------------
LEMMA InitMeter == Init => MeterInv
<1> SUFFICES ASSUME Init PROVE MeterInv
  OBVIOUS
<1>1. plan = <<>> /\ rowsOut = <<>>
  BY DEF Init
<1> QED
  BY <1>1, EmptyIsSeq DEF MeterInv, CountsInv

LEMMA PlanMeter == ASSUME IInv, SInv, Plan, IInv', SInv' PROVE MeterInv'
<1>1. PICK p \in Plans(query) : plan' = p /\ st' = [n \in DOMAIN p |-> Idle] /\ rowsOut' = [n \in DOMAIN p |-> 0]
  BY DEF Plan
<1>2. status' = "planned" /\ stack' = <<>>
  BY DEF Plan, IInv, PlanInv
<1>3. CountsInv'
  BY <1>1 DEF CountsInv
<1>4. ASSUME NEW l \in DOMAIN plan', plan'[l].op = "limit" PROVE Metered(l)'
  <2>1. plan'[l].n \in Nat /\ plan'[l].in[1] \in DOMAIN plan'
    <3>1. Tree(plan)' /\ Planned(plan)'
      BY <1>2 DEF IInv, PlanInv, SInv, DbInv
    <3>2. Fit(plan[l])'
      BY <3>1 DEF Planned
    <3>3. plan'[l].n \in Nat
      BY <1>4, <3>2 DEF Fit
    <3>4. DOMAIN plan' = 1..Len(plan') /\ Len(plan') \in Nat /\ WellFormed(plan'[l], l)
      BY <3>1, SeqIs DEF Tree
    <3>5. plan'[l].op \in Single /\ plan'[l].op \notin Sources /\ plan'[l].op \notin Double
      BY <1>4 DEF Single, Through, Sources, Double
    <3>6. PICK a \in 1..(l - 1) : plan'[l].in = <<a>>
      BY <3>4, <3>5 DEF WellFormed
    <3> QED
      BY <3>3, <3>4, <3>6
  <2>2. DOMAIN stack' = {} /\ Phase' = "open"
    BY <1>2, EmptyIsSeq DEF Phase
  <2>3. rowsOut'[plan'[l].in[1]] = 0
    BY <1>1, <2>1
  <2>4. st'[l].given = 0
    BY <1>1 DEF Idle
  <2> QED
    BY <2>1, <2>2, <2>3, <2>4 DEF Metered
<1> QED
  BY <1>3, <1>4 DEF MeterInv

\* The query calls its root, which a limit does not read.
LEMMA RootCallMeter ==
    ASSUME IInv, SInv, MeterInv, stack = <<>>, UNCHANGED <<plan, st>>, NEW call, NEW max, Call(Root, call, max),
           call = "open" => Phase = "open",
           call = "next" => Phase \in {"open", "next"},
           Answering => reply.node = Root
    PROVE  MeterInv'
<1> DEFINE f == [node |-> Root, call |-> call, max |-> max]
<1>1. stack' = Append(stack, f) /\ reply' = NoReply /\ rowsOut' = rowsOut
  BY DEF Call
<1>2. IsSeq(stack') /\ Len(stack') = 1 /\ stack'[1] = f /\ stack' # <<>>
  <2>1. IsSeq(stack) /\ Len(stack) + 1 = 1
    BY EmptyIsSeq
  <2> HIDE DEF f
  <2>2. IsSeq(stack') /\ Len(stack') = Len(stack) + 1 /\ stack'[Len(stack) + 1] = f /\ stack' # <<>>
    BY <1>1, <2>1, AppendIs
  <2> QED
    BY <2>1, <2>2
<1>3. f.node = Root /\ f.call = call
  OBVIOUS
<1> HIDE DEF f
<1>4. DOMAIN stack' = {1} /\ Phase' = call
  BY <1>2, <1>3, SeqIs DEF Phase
<1>5. ASSUME NEW l \in DOMAIN plan, plan[l].op = "limit" PROVE Metered(l)'
  <2> PICK c : c = plan[l].in[1]
    OBVIOUS
  <2>1. c \in DOMAIN plan /\ c \in Nat /\ c < l /\ l \in Nat /\ l <= Root /\ Root \in Nat /\ st[l].given \in Nat
    BY <1>5, LimitIs
  <2>2. c # Root
    BY <2>1
  <2>3. Pending(c) = 0 /\ Pending(c)' = 0
    BY <1>1, <2>2 DEF Pending, Answering, NoReply
  <2>4. /\ rowsOut[c] <= plan[l].n /\ rowsOut[c] \in Nat
        /\ Phase = "open" => rowsOut[c] = 0 /\ st[l].given = 0
        /\ Phase = "next" => rowsOut[c] = st[l].given + Pending(c)
    BY <1>5, <2>1 DEF MeterInv, Metered, CountsInv
  <2>5. call = "next" => rowsOut[c] = st[l].given + 0
    <3>1. CASE Phase = "open"
      BY <2>4, <3>1
    <3>2. CASE Phase = "next"
      BY <2>3, <2>4, <3>2
    <3> QED
      BY <3>1, <3>2
  <2>6. \A i \in DOMAIN stack' : stack'[i].node # c
    BY <1>2, <1>3, <1>4, <2>2
  <2> QED
    BY <1>1, <1>4, <2>3, <2>4, <2>5, <2>6 DEF Metered
<1> QED
  BY <1>1, <1>5 DEF MeterInv, CountsInv

\* The query has ended.
LEMMA EndMeter ==
    ASSUME MeterInv, UNCHANGED <<plan, st, rowsOut>>, stack' = <<>>, reply' = NoReply, status' \in {"done", "failed"}
    PROVE  MeterInv'
<1>1. Phase' = "close" /\ DOMAIN stack' = {}
  BY EmptyIsSeq DEF Phase, Answering, NoReply
<1>2. ASSUME NEW l \in DOMAIN plan, plan[l].op = "limit" PROVE Metered(l)'
  BY <1>1, <1>2 DEF MeterInv, Metered
<1> QED
  BY <1>2 DEF MeterInv, CountsInv

LEMMA OpenMeter == ASSUME IInv, SInv, MeterInv, Open PROVE MeterInv'
<1>1. status = "planned" /\ stack = <<>> /\ ~Answering /\ UNCHANGED <<plan, st>> /\ Call(Root, "open", 0)
  BY DEF Open, IInv, PlanInv, Answering
<1>2. Phase = "open"
  BY <1>1 DEF Phase
<1> QED
  BY <1>1, <1>2, RootCallMeter

LEMMA TakeMeter == ASSUME IInv, SInv, MeterInv, Take PROVE MeterInv'
<1>1. /\ status = "running" /\ stack = <<>> /\ Answering /\ reply.call \in {"open", "next"} /\ UNCHANGED <<plan, st>>
      /\ Call(Root, "next", Unbounded)
  BY DEF Take, Back, Answering
<1>2. Phase \in {"open", "next"} /\ reply.node = Root
  BY <1>1 DEF Phase, IInv, ReplyInv
<1> QED
  BY <1>1, <1>2, RootCallMeter

LEMMA CloseMeter == ASSUME IInv, SInv, MeterInv, Close PROVE MeterInv'
<1>1. /\ stack = <<>> /\ Answering /\ UNCHANGED <<plan, st>> /\ Call(Root, "close", 0)
  BY DEF Close, Back, Answering
<1>2. reply.node = Root
  BY <1>1 DEF IInv, ReplyInv
<1> QED
  BY <1>1, <1>2, RootCallMeter

LEMMA FinishMeter == ASSUME MeterInv, Finish PROVE MeterInv'
BY EndMeter DEF Finish

LEMMA FailMeter == ASSUME IInv, MeterInv, Fail PROVE MeterInv'
<1>1. stack = <<>>
  BY DEF Fail, IInv, ReplyInv
<1> QED
  BY <1>1, EndMeter DEF Fail

LEMMA SameMeter == ASSUME MeterInv, UNCHANGED vars PROVE MeterInv'
<1>1. UNCHANGED <<status, plan, st, stack, reply, rowsOut>>
  BY DEF vars, opVars
<1>2. Phase' = Phase
  BY <1>1 DEF Phase, Answering
<1>3. ASSUME NEW l \in DOMAIN plan, Metered(l) PROVE Metered(l)'
  BY <1>1, <1>2, <1>3 DEF Metered, Pending
<1> QED
  BY <1>1, <1>3 DEF MeterInv, CountsInv

\* A limit has no more rows read from its input than it may hand up, in whatever batches
\* they come and wherever in the plan it stands (Limit::produce and produce_batch of
\* operator.hpp, which ask for what is left of n and no more).
THEOREM QueryLimitReadsNoMore == Spec => []LimitReadsNoMore
<1>1. Init => MeterInv
  BY InitMeter
<1>2. IInv /\ IInv' /\ SInv /\ SInv' /\ MeterInv /\ [Next]_vars => MeterInv'
  BY PlanMeter, OpenMeter, TakeMeter, CloseMeter, FinishMeter, FailMeter, WorkMeter, SameMeter DEF Next, Stopped
<1>3. MeterInv => LimitReadsNoMore
  BY DEF MeterInv, Metered, LimitReadsNoMore
<1> QED
  BY <1>1, <1>2, <1>3, QueryInductive, QuerySizes, PTL DEF Spec
-----------------------------------------------------------------------------
(* An aggregate's table: every group is found from the slot of its hash.   *)

\* What mix64 makes of a hash is a number.
HashesAreNumbers == \A key : Mix(Hash(key)) \in Nat

LEMMA Remainder ==
    \A a \in Nat, b \in Nat \ {0} : a % b \in 0..(b - 1) /\ a = b * (a \div b) + (a % b) /\ a \div b \in Nat
OBVIOUS

LEMMA OfMultiple == \A b \in Nat \ {0} : \A q \in Nat : \A c \in 0..(b - 1) : (b * q + c) % b = c
OBVIOUS

\* The slot that a probe for hash looks at after d others, of N.
ProbeAt(hash, d, N) == 1 + ((Mix(hash) + d) % N)

\* A probe looks at every slot.
LEMMA ProbeReaches ==
    ASSUME NEW hash, Mix(hash) \in Nat, NEW N \in Nat \ {0}
    PROVE  /\ \A d \in Nat : ProbeAt(hash, d, N) \in 1..N
           /\ \A i \in 1..N : \E d \in 0..(N - 1) : ProbeAt(hash, d, N) = i
<1> DEFINE m == Mix(hash)
           q == m \div N
           r == m % N
<1>1. ASSUME NEW d \in Nat PROVE ProbeAt(hash, d, N) \in 1..N
  <2>1. m + d \in Nat
    OBVIOUS
  <2>2. (m + d) % N \in 0..(N - 1)
    BY <2>1, Remainder
  <2> QED
    BY <2>2 DEF ProbeAt
<1>2. r \in 0..(N - 1) /\ m = N * q + r /\ q \in Nat /\ m \in Nat
  BY Remainder
<1> HIDE DEF q, r, m
<1>3. ASSUME NEW j \in 0..(N - 1) PROVE \E d \in 0..(N - 1) : (m + d) % N = j
  <2>1. CASE j >= r
    <3>1. m + (j - r) = N * q + j
      BY <1>2
    <3>2. (N * q + j) % N = j
      BY <1>2, OfMultiple
    <3>3. j - r \in 0..(N - 1)
      BY <1>2, <2>1
    <3> QED
      BY <3>1, <3>2, <3>3
  <2>2. CASE j < r
    <3>1. m + (N + j - r) = N * (q + 1) + j
      <4>1. N * (q + 1) = N * q + N
        BY <1>2
      <4> QED
        BY <1>2, <4>1
    <3>2. (N * (q + 1) + j) % N = j
      BY <1>2, OfMultiple
    <3>3. N + j - r \in 0..(N - 1)
      BY <1>2, <2>2
    <3> QED
      BY <3>1, <3>2, <3>3
  <2> QED
    BY <1>2, <2>1, <2>2
<1>4. ASSUME NEW i \in 1..N PROVE \E d \in 0..(N - 1) : ProbeAt(hash, d, N) = i
  <2>1. i - 1 \in 0..(N - 1)
    OBVIOUS
  <2>2. PICK d \in 0..(N - 1) : (m + d) % N = i - 1
    BY <1>3, <2>1
  <2> QED
    BY <2>2 DEF ProbeAt, m
<1> QED
  BY <1>1, <1>4

\* Probing from its hash, the group g is met before an empty slot is.
Reached(slots, hash, g) ==
    \E d \in 0..(Len(slots) - 1) : /\ slots[ProbeAt(hash, d, Len(slots))] = g
                                   /\ \A e \in 0..(d - 1) : slots[ProbeAt(hash, e, Len(slots))] \notin {0, g}

\* The first n of groups are in slots, each once and reached from its hash.
Tabled(groups, n, slots) ==
    /\ IsSeq(slots) /\ Len(slots) # 0 /\ n \in Nat
    /\ \A i \in 1..Len(slots) : slots[i] \in 0..n
    /\ \A i, j \in 1..Len(slots) : slots[i] = slots[j] /\ slots[i] # 0 => i = j
    /\ \A g \in 1..n : Reached(slots, Hash(groups[g].key), g)

\* A table with more slots than groups has an empty one.
LEMMA FreeSlot ==
    ASSUME NEW groups, NEW n, NEW slots, Tabled(groups, n, slots), n < Len(slots)
    PROVE  \E i \in 1..Len(slots) : slots[i] = 0
<1> SUFFICES ASSUME \A i \in 1..Len(slots) : slots[i] # 0 PROVE FALSE
  OBVIOUS
<1> DEFINE N == Len(slots)
<1>1. N \in Nat /\ n \in Nat /\ n < N /\ DOMAIN slots = 1..N
  BY SeqIs DEF Tabled
<1>2. slots = [i \in 1..N |-> slots[i]]
  <2>1. PICK T : slots \in Seq(T)
    BY DEF Tabled, IsSeq
  <2> QED
    BY <2>1
<1>3. \A i \in 1..N : slots[i] \in 1..n
  BY <1>1 DEF Tabled
<1> HIDE DEF N
<1>4. slots \in [1..N -> 1..n]
  BY <1>2, <1>3
<1>5. /\ IsFiniteSet(1..N) /\ Cardinality(1..N) = N
      /\ IsFiniteSet(1..n) /\ Cardinality(1..n) = n
  <2>1. \A k \in Nat : IsFiniteSet(1..k) /\ Cardinality(1..k) = IF 1 > k THEN 0 ELSE k - 1 + 1
    BY FS_Interval
  <2>2. \A k \in Nat : (IF 1 > k THEN 0 ELSE k - 1 + 1) = k
    OBVIOUS
  <2> QED
    BY <1>1, <2>1, <2>2
<1>6. PICK i \in 1..N, j \in 1..N : i # j /\ slots[i] = slots[j]
  BY <1>1, <1>4, <1>5, FS_PigeonHole
<1> QED
  BY <1>6 DEF Tabled, N

\* FirstSlot finds the first slot on its way that is empty or holds one of gs.
LEMMA FirstSlotIs ==
    ASSUME NEW slots, IsSeq(slots), Len(slots) # 0, NEW hash, NEW gs,
           \E d \in 0..(Len(slots) - 1) : slots[ProbeAt(hash, d, Len(slots))] \in gs \cup {0}
    PROVE  \E d \in 0..(Len(slots) - 1) :
               /\ FirstSlot(slots, hash, gs) = ProbeAt(hash, d, Len(slots))
               /\ slots[ProbeAt(hash, d, Len(slots))] \in gs \cup {0}
               /\ \A e \in 0..(d - 1) : slots[ProbeAt(hash, e, Len(slots))] \notin gs \cup {0}
<1> DEFINE N == Len(slots)
           at(d) == ProbeAt(hash, d, N)
           D == {d \in 0..(N - 1) : slots[at(d)] \in gs \cup {0}}
<1>1. N \in Nat
  BY SeqIs
<1>2. FirstSlot(slots, hash, gs) = at(Min(D))
  BY Zenon DEF FirstSlot, ProbeAt
<1>3. D # {} /\ D \in SUBSET Nat
  BY <1>1
<1>4. \A d \in D : d \in 0..(N - 1) /\ slots[at(d)] \in gs \cup {0}
  OBVIOUS
<1>5. \A d \in 0..(N - 1) : d \notin D => slots[at(d)] \notin gs \cup {0}
  OBVIOUS
<1> HIDE DEF at, D
<1>6. PICK d \in D : \A e \in D : d <= e
  BY <1>3, LeastOf
<1>7. Min(D) = d
  <2>1. \A x \in D : (\A y \in D : x <= y) => x = d
    BY <1>3, <1>6
  <2>2. (CHOOSE x \in D : \A y \in D : x <= y) = d
    BY <1>6, <2>1
  <2> QED
    BY <2>2 DEF Min
<1>8. \A e \in 0..(d - 1) : slots[at(e)] \notin gs \cup {0}
  <2> SUFFICES ASSUME NEW e \in 0..(d - 1) PROVE slots[at(e)] \notin gs \cup {0}
    OBVIOUS
  <2>1. d \in 0..(N - 1)
    BY <1>4
  <2>2. e \in 0..(N - 1) /\ ~(d <= e)
    BY <1>1, <2>1
  <2> QED
    BY <1>5, <1>6, <2>2
<1> QED
  BY <1>2, <1>4, <1>6, <1>7, <1>8 DEF at

\* A table with an empty slot is probed to an end.
LEMMA ProbeEnds ==
    ASSUME HashesAreNumbers, NEW groups, NEW n, NEW slots, Tabled(groups, n, slots), n < Len(slots), NEW key, NEW gs
    PROVE  \E d \in 0..(Len(slots) - 1) :
               /\ FirstSlot(slots, Hash(key), gs) = ProbeAt(Hash(key), d, Len(slots))
               /\ ProbeAt(Hash(key), d, Len(slots)) \in 1..Len(slots)
               /\ slots[ProbeAt(Hash(key), d, Len(slots))] \in gs \cup {0}
               /\ \A e \in 0..(d - 1) : slots[ProbeAt(Hash(key), e, Len(slots))] \notin gs \cup {0}
<1>1. PICK i \in 1..Len(slots) : slots[i] = 0
  BY FreeSlot
<1>2. Len(slots) \in Nat \ {0} /\ IsSeq(slots) /\ Mix(Hash(key)) \in Nat
  BY SeqIs DEF Tabled, HashesAreNumbers
<1>3. /\ \A d \in Nat : ProbeAt(Hash(key), d, Len(slots)) \in 1..Len(slots)
      /\ \E d \in 0..(Len(slots) - 1) : ProbeAt(Hash(key), d, Len(slots)) = i
  BY <1>2, ProbeReaches
<1>4. \E d \in 0..(Len(slots) - 1) : slots[ProbeAt(Hash(key), d, Len(slots))] \in gs \cup {0}
  BY <1>1, <1>3
<1>5. PICK d \in 0..(Len(slots) - 1) :
               /\ FirstSlot(slots, Hash(key), gs) = ProbeAt(Hash(key), d, Len(slots))
               /\ slots[ProbeAt(Hash(key), d, Len(slots))] \in gs \cup {0}
               /\ \A e \in 0..(d - 1) : slots[ProbeAt(Hash(key), e, Len(slots))] \notin gs \cup {0}
  BY <1>2, <1>4, FirstSlotIs
<1>6. d \in Nat
  BY <1>2
<1> QED
  BY <1>3, <1>5, <1>6

LEMMA FiledIs ==
    ASSUME NEW slots, IsSeq(slots), NEW w, NEW y, NEW filed, filed = [slots EXCEPT ![w] = y]
    PROVE  /\ IsSeq(filed) /\ Len(filed) = Len(slots)
           /\ \A j \in 1..Len(slots) : filed[j] = IF j = w THEN y ELSE slots[j]
<1>1. Len(slots) \in Nat /\ DOMAIN slots = 1..Len(slots)
  BY SeqIs
<1>2. DOMAIN filed = 1..Len(slots) /\ \A j \in 1..Len(slots) : filed[j] = IF j = w THEN y ELSE slots[j]
  BY <1>1
<1>3. filed = [j \in 1..Len(slots) |-> filed[j]]
  BY <1>2
<1>4. IsSeq(filed) /\ Len(filed) = Len(slots)
  BY <1>1, <1>2, <1>3, SeqOver
<1> QED
  BY <1>2, <1>4

\* The group after those filed is filed in the empty slot that its probe ends in.
LEMMA FiledNext ==
    ASSUME HashesAreNumbers, NEW groups, NEW n, NEW slots, Tabled(groups, n, slots), n < Len(slots), NEW gs,
           slots[FirstSlot(slots, Hash(groups[n + 1].key), gs)] = 0
    PROVE  LET filed == [slots EXCEPT ![FirstSlot(slots, Hash(groups[n + 1].key), gs)] = n + 1]
           IN  Tabled(groups, n + 1, filed) /\ Len(filed) = Len(slots)
<1> DEFINE N == Len(slots)
           hash == Hash(groups[n + 1].key)
           i == FirstSlot(slots, hash, gs)
           filed == [slots EXCEPT ![i] = n + 1]
<1>1. PICK d \in 0..(N - 1) :
               /\ i = ProbeAt(hash, d, N) /\ i \in 1..N
               /\ \A e \in 0..(d - 1) : slots[ProbeAt(hash, e, N)] \notin gs \cup {0}
  BY ProbeEnds
<1>2. slots[i] = 0
  OBVIOUS
<1>3. N \in Nat \ {0} /\ n \in Nat /\ IsSeq(slots) /\ \A j \in 1..N : slots[j] \in 0..n
  BY SeqIs DEF Tabled
<1>4. Mix(hash) \in Nat /\ \A g : Mix(Hash(groups[g].key)) \in Nat
  BY DEF HashesAreNumbers
<1> HIDE DEF i
<1>5. IsSeq(filed) /\ Len(filed) = N /\ \A j \in 1..N : filed[j] = IF j = i THEN n + 1 ELSE slots[j]
  <2> DEFINE y == n + 1
  <2>1. filed = [slots EXCEPT ![i] = y]
    OBVIOUS
  <2>2. y = n + 1
    OBVIOUS
  <2>0. IsSeq(slots)
    BY <1>3
  <2> HIDE DEF y, hash, filed, N
  <2>3. IsSeq(filed) /\ Len(filed) = Len(slots)
    BY <2>0, <2>1, FiledIs
  <2>4. \A j \in 1..Len(slots) : filed[j] = IF j = i THEN y ELSE slots[j]
    BY <2>0, <2>1, FiledIs
  <2> QED
    BY <2>2, <2>3, <2>4 DEF N
<1> HIDE DEF filed, hash, N
<1>6. ASSUME NEW j \in 1..N PROVE filed[j] \in 0..(n + 1)
  <2>1. slots[j] \in 0..n /\ n \in Nat
    BY <1>3
  <2>2. \A x \in 0..n : x \in 0..(n + 1)
    BY <2>1
  <2>3. n + 1 \in 0..(n + 1)
    BY <2>1
  <2> QED
    BY <1>5, <2>1, <2>2, <2>3
<1>7. ASSUME NEW j \in 1..N, NEW k \in 1..N, filed[j] = filed[k], filed[j] # 0 PROVE j = k
  <2>1. \A a, b \in 1..N : slots[a] = slots[b] /\ slots[a] # 0 => a = b
    BY DEF Tabled, N
  <2>2. slots[j] # n + 1 /\ slots[k] # n + 1
    BY <1>3
  <2> QED
    BY <1>5, <1>7, <2>1, <2>2
<1>8. ASSUME NEW g \in 1..(n + 1) PROVE Reached(filed, Hash(groups[g].key), g)
  <2>1. CASE g = n + 1
    <3>1. ASSUME NEW e \in 0..(d - 1) PROVE ProbeAt(hash, e, N) \in 1..N
      <4>1. e \in Nat
        OBVIOUS
      <4> QED
        BY <1>3, <1>4, <4>1, ProbeReaches
    <3>2. ASSUME NEW e \in 0..(d - 1) PROVE filed[ProbeAt(hash, e, N)] \notin {0, n + 1}
      <4>1. ProbeAt(hash, e, N) # i /\ slots[ProbeAt(hash, e, N)] # 0 /\ ProbeAt(hash, e, N) \in 1..N
        BY <1>1, <1>2, <3>1
      <4>2. slots[ProbeAt(hash, e, N)] \in 0..n
        BY <1>3, <4>1
      <4> QED
        BY <1>3, <1>5, <4>1, <4>2
    <3>3. filed[ProbeAt(hash, d, N)] = n + 1
      BY <1>1, <1>5
    <3> QED
      BY <1>1, <1>5, <2>1, <3>2, <3>3 DEF Reached, hash
  <2>2. CASE g # n + 1
    <3> DEFINE h == Hash(groups[g].key)
    <3>1. g \in 1..n
      BY <1>3, <2>2
    <3>2. PICK c \in 0..(N - 1) : /\ slots[ProbeAt(h, c, N)] = g
                                  /\ \A e \in 0..(c - 1) : slots[ProbeAt(h, e, N)] \notin {0, g}
      BY <3>1 DEF Tabled, Reached, N
    <3>3. ASSUME NEW e \in 0..c PROVE ProbeAt(h, e, N) \in 1..N
      <4>1. e \in Nat /\ Mix(h) \in Nat
        BY <1>4
      <4> QED
        BY <1>3, <4>1, ProbeReaches
    <3> HIDE DEF h
    <3>4. ASSUME NEW e \in 0..c PROVE filed[ProbeAt(h, e, N)] = slots[ProbeAt(h, e, N)]
      <4>1. e = c \/ e \in 0..(c - 1)
        BY <1>3
      <4>2. slots[ProbeAt(h, e, N)] # 0
        BY <3>1, <3>2, <4>1
      <4> QED
        BY <1>2, <1>5, <3>3, <4>2
    <3>5. c \in 0..c /\ \A e \in 0..(c - 1) : e \in 0..c
      BY <1>3
    <3>6. filed[ProbeAt(h, c, N)] = g /\ \A e \in 0..(c - 1) : filed[ProbeAt(h, e, N)] \notin {0, g}
      BY <3>2, <3>4, <3>5
    <3> QED
      BY <1>5, <3>6 DEF Reached, h
  <2> QED
    BY <2>1, <2>2
<1>9. Tabled(groups, n + 1, filed)
  BY <1>3, <1>5, <1>6, <1>7, <1>8 DEF Tabled
<1> QED
  BY <1>5, <1>9 DEF filed, i, N, hash
-----------------------------------------------------------------------------
LEMMA KeptTabled ==
    ASSUME NEW groups, NEW n, NEW slots, Tabled(groups, n, slots), NEW others,
           \A g \in 1..n : others[g].key = groups[g].key
    PROVE  Tabled(others, n, slots)
<1>1. ASSUME NEW g \in 1..n PROVE Reached(slots, Hash(others[g].key), g)
  BY DEF Tabled
<1> QED
  BY <1>1 DEF Tabled

LEMMA EmptyTabled ==
    ASSUME NEW N \in Nat \ {0}, NEW groups
    PROVE  Tabled(groups, 0, EmptySlots(N)) /\ Len(EmptySlots(N)) = N
<1> DEFINE e == EmptySlots(N)
<1>1. DOMAIN e = 1..N /\ \A i \in 1..N : e[i] = 0
  BY DEF EmptySlots
<1>2. e = [i \in 1..N |-> e[i]]
  BY DEF EmptySlots
<1> HIDE DEF e
<1>3. IsSeq(e) /\ Len(e) = N
  BY <1>2, SeqOver
<1>4. Tabled(groups, 0, e)
  <2>1. \A i \in 1..Len(e) : e[i] = 0 /\ 0 \in 0..0
    BY <1>1, <1>3
  <2>2. \A g \in 1..0 : FALSE
    OBVIOUS
  <2> QED
    BY <1>3, <2>1, <2>2 DEF Tabled
<1> QED
  BY <1>3, <1>4 DEF e

\* The slots after each of the groups placed again are a function.
GrownFun(f, N, groups, a) == \A i \in 0..N : f[i] = IF i = 0 THEN a ELSE Replaced(groups, i, f[i - 1])

LEMMA GrownFunIs ==
    ASSUME NEW N \in Nat, NEW groups, NEW a
    PROVE  \E f : f = [i \in 0..N |-> f[i]] /\ GrownFun(f, N, groups, a)
<1> DEFINE Def(m, f) == f = [i \in 0..m |-> IF i = 0 THEN a ELSE Replaced(groups, i, f[i - 1])]
           T == {m \in Nat : ~ \E f : Def(m, f)}
<1>1. T = {}
  <2> SUFFICES ASSUME T # {} PROVE FALSE
    OBVIOUS
  <2>1. T \in SUBSET Nat
    OBVIOUS
  <2> HIDE DEF T
  <2>2. PICK m \in T : \A k \in T : m <= k
    BY <2>1, LeastOf
  <2>3. m \in Nat /\ ~ \E f : Def(m, f)
    BY DEF T
  <2>4. CASE m = 0
    <3> DEFINE z == [i \in 0..0 |-> a]
    <3>1. z = [i \in 0..0 |-> IF i = 0 THEN a ELSE Replaced(groups, i, z[i - 1])]
      OBVIOUS
    <3>2. Def(0, z)
      BY <3>1, Zenon
    <3> HIDE DEF Def, z
    <3> QED
      BY <2>3, <2>4, <3>2
  <2>5. CASE m # 0
    <3>1. m - 1 \in Nat /\ m - 1 \notin T
      <4>1. m - 1 \in Nat /\ ~(m <= m - 1)
        BY <2>3, <2>5
      <4> QED
        BY <2>2, <4>1
    <3>2. PICK f : Def(m - 1, f)
      BY <3>1 DEF T
    <3> DEFINE g == [i \in 0..m |-> IF i = m THEN Replaced(groups, m, f[m - 1]) ELSE f[i]]
    <3>3. \A i \in 0..(m - 1) : f[i] = IF i = 0 THEN a ELSE Replaced(groups, i, f[i - 1])
      BY <3>2, Zenon
    <3>4. ASSUME NEW i \in 0..m PROVE g[i] = IF i = 0 THEN a ELSE Replaced(groups, i, g[i - 1])
      <4>1. /\ g[i] = IF i = m THEN Replaced(groups, m, f[m - 1]) ELSE f[i]
            /\ i # 0 => g[i - 1] = f[i - 1]
        BY <2>3
      <4>2. i # m => i \in 0..(m - 1)
        BY <2>3
      <4> HIDE DEF g
      <4> QED
        BY <2>5, <3>3, <4>1, <4>2
    <3>5. g = [i \in 0..m |-> g[i]]
      OBVIOUS
    <3> HIDE DEF g
    <3>6. Def(m, g)
      BY <3>4, <3>5, Zenon
    <3> HIDE DEF Def
    <3> QED
      BY <2>3, <3>6
  <2> QED
    BY <2>4, <2>5
<1>2. PICK f : Def(N, f)
  BY <1>1
<1>3. f = [i \in 0..N |-> f[i]]
  <2>1. f = [i \in 0..N |-> IF i = 0 THEN a ELSE Replaced(groups, i, f[i - 1])]
    BY <1>2
  <2> DEFINE of(i) == IF i = 0 THEN a ELSE Replaced(groups, i, f[i - 1])
  <2>2. f = [i \in 0..N |-> of(i)]
    BY <2>1, Zenon
  <2> HIDE DEF of
  <2> QED
    BY <2>2
<1>4. \A i \in 0..N : f[i] = IF i = 0 THEN a ELSE Replaced(groups, i, f[i - 1])
  BY <1>2, Zenon
<1> QED
  BY <1>3, <1>4, Zenon DEF GrownFun

LEMMA GrownIsLast ==
    ASSUME NEW groups, NEW slots, Len(groups) \in Nat
    PROVE  \E f : /\ Grown(groups, slots) = f[Len(groups)]
                 /\ GrownFun(f, Len(groups), groups, EmptySlots(2 * Len(slots)))
<1> DEFINE N == Len(groups)
           a == EmptySlots(2 * Len(slots))
           upTo == CHOOSE f : f = [g \in 0..N |-> IF g = 0 THEN a ELSE Replaced(groups, g, f[g - 1])]
<1>1. Grown(groups, slots) = upTo[N]
  BY DEF Grown
<1> HIDE DEF a
<1>2. GrownFun(upTo, N, groups, a)
  <2> HIDE DEF N
  <2>1. PICK f : f = [i \in 0..N |-> f[i]] /\ GrownFun(f, N, groups, a)
    BY GrownFunIs DEF N
  <2>2. f = [g \in 0..N |-> IF g = 0 THEN a ELSE Replaced(groups, g, f[g - 1])]
    BY <2>1, Zenon DEF GrownFun
  <2>3. upTo = [g \in 0..N |-> IF g = 0 THEN a ELSE Replaced(groups, g, upTo[g - 1])]
    BY <2>2, Zenon
  <2> QED
    BY <2>3, Zenon DEF GrownFun
<1> HIDE DEF upTo
<1> QED
  BY <1>1, <1>2 DEF a

\* Placing a group again files it.
LEMMA ReplacedTabled ==
    ASSUME HashesAreNumbers, NEW groups, NEW n \in Nat, NEW slots, Tabled(groups, n, slots), n < Len(slots)
    PROVE  Tabled(groups, n + 1, Replaced(groups, n + 1, slots)) /\ Len(Replaced(groups, n + 1, slots)) = Len(slots)
<1> DEFINE key == groups[n + 1].key
<1>1. slots[FirstSlot(slots, Hash(key), {})] = 0
  <2> HIDE DEF key
  <2>1. PICK d \in 0..(Len(slots) - 1) :
               /\ FirstSlot(slots, Hash(key), {}) = ProbeAt(Hash(key), d, Len(slots))
               /\ slots[ProbeAt(Hash(key), d, Len(slots))] \in {} \cup {0}
    BY ProbeEnds
  <2> QED
    BY <2>1
<1>2. Replaced(groups, n + 1, slots) = [slots EXCEPT ![FirstSlot(slots, Hash(key), {})] = n + 1]
  BY Zenon DEF Replaced
<1>3. LET filed == [slots EXCEPT ![FirstSlot(slots, Hash(groups[n + 1].key), {})] = n + 1]
      IN  Tabled(groups, n + 1, filed) /\ Len(filed) = Len(slots)
  <2>1. slots[FirstSlot(slots, Hash(groups[n + 1].key), {})] = 0
    BY <1>1
  <2> QED
    BY <2>1, FiledNext
<1> QED
  BY <1>2, <1>3, Zenon

LEMMA GrownMore ==
    ASSUME HashesAreNumbers, NEW groups, NEW N \in Nat, NEW M \in Nat, N < M,
           NEW f, GrownFun(f, N, groups, EmptySlots(M))
    PROVE  \A i \in 0..N : Tabled(groups, i, f[i]) /\ Len(f[i]) = M
<1> DEFINE ok(i) == Tabled(groups, i, f[i]) /\ Len(f[i]) = M
           T == {i \in 0..N : ~ok(i)}
<1>1. T = {}
  <2> SUFFICES ASSUME T # {} PROVE FALSE
    OBVIOUS
  <2>1. T \in SUBSET Nat
    OBVIOUS
  <2> HIDE DEF T
  <2>2. PICK i \in T : \A k \in T : i <= k
    BY <2>1, LeastOf
  <2>3. i \in 0..N /\ ~ok(i)
    BY DEF T
  <2>4. CASE i = 0
    <3>1. f[0] = EmptySlots(M)
      BY DEF GrownFun
    <3>2. M \in Nat \ {0}
      OBVIOUS
    <3> QED
      BY <2>3, <2>4, <3>1, <3>2, EmptyTabled
  <2>5. CASE i # 0
    <3> DEFINE n == i - 1
    <3>1. n \in 0..N /\ n \in Nat /\ ~(i <= n) /\ n < M /\ i = n + 1
      BY <2>3, <2>5
    <3>2. f[i] = Replaced(groups, i, f[n])
      BY <2>3, <2>5 DEF GrownFun
    <3> HIDE DEF n
    <3>3. ok(n)
      BY <2>2, <3>1 DEF T
    <3>4. Tabled(groups, n + 1, Replaced(groups, n + 1, f[n])) /\ Len(Replaced(groups, n + 1, f[n])) = Len(f[n])
      BY <3>1, <3>3, ReplacedTabled
    <3> QED
      BY <2>3, <3>1, <3>2, <3>3, <3>4
  <2> QED
    BY <2>4, <2>5
<1> QED
  BY <1>1

\* However full the table, in twice its slots there is room for every group.
LEMMA GrownIs ==
    ASSUME HashesAreNumbers, NEW groups, NEW slots, Len(groups) \in Nat, Len(slots) \in Nat,
           Len(groups) < 2 * Len(slots)
    PROVE  Tabled(groups, Len(groups), Grown(groups, slots)) /\ Len(Grown(groups, slots)) = 2 * Len(slots)
<1> DEFINE N == Len(groups)
           M == 2 * Len(slots)
<1>1. PICK f : Grown(groups, slots) = f[N] /\ GrownFun(f, N, groups, EmptySlots(M))
  BY GrownIsLast
<1>2. N \in Nat /\ M \in Nat /\ N < M /\ N \in 0..N
  OBVIOUS
<1> HIDE DEF N, M
<1>3. \A i \in 0..N : Tabled(groups, i, f[i]) /\ Len(f[i]) = M
  BY <1>1, <1>2, GrownMore
<1>4. Tabled(groups, N, Grown(groups, slots)) /\ Len(Grown(groups, slots)) = M
  BY <1>1, <1>2, <1>3
<1> QED
  BY <1>4 DEF N, M
-----------------------------------------------------------------------------
\* Every group has a key, and no two the same.
Keyed(groups) ==
    /\ IsSeq(groups)
    /\ \A g \in 1..Len(groups) : "key" \in DOMAIN groups[g]
    /\ \A g, h \in 1..Len(groups) : groups[g].key = groups[h].key => g = h

SoundTable(groups, slots) ==
    /\ Keyed(groups)
    /\ Tabled(groups, Len(groups), slots)
    /\ 2 * Len(groups) <= Len(slots)

LEMMA KeptSound ==
    ASSUME NEW groups, NEW slots, SoundTable(groups, slots), NEW others, IsSeq(others), Len(others) = Len(groups),
           \A g \in 1..Len(groups) : "key" \in DOMAIN others[g] /\ others[g].key = groups[g].key
    PROVE  SoundTable(others, slots)
<1>1. Keyed(others)
  BY DEF SoundTable, Keyed
<1>2. Tabled(others, Len(groups), slots)
  BY KeptTabled DEF SoundTable
<1> QED
  BY <1>1, <1>2 DEF SoundTable

LEMMA EmptySound == ASSUME NEW N \in Nat \ {0} PROVE SoundTable(<<>>, EmptySlots(N))
<1>1. IsSeq(<<>>) /\ Len(<<>>) = 0
  BY EmptyIsSeq
<1>2. Tabled(<<>>, 0, EmptySlots(N)) /\ Len(EmptySlots(N)) = N
  BY EmptyTabled
<1>3. Keyed(<<>>)
  BY <1>1 DEF Keyed
<1> QED
  BY <1>1, <1>2, <1>3 DEF SoundTable

LEMMA SameAsItself == ASSUME NEW key PROVE SameKey(key, key)
BY DEF SameKey, Compare

\* A probe stops before an empty slot at a group whose key is the one looked for.
LEMMA ProbeFinds ==
    ASSUME HashesAreNumbers, NEW groups, NEW n, NEW slots, Tabled(groups, n, slots), n < Len(slots),
           NEW key, NEW gs, NEW g \in 1..n, groups[g].key = key, g \in gs
    PROVE  slots[FirstSlot(slots, Hash(key), gs)] # 0
<1> DEFINE N == Len(slots)
           at(d) == ProbeAt(Hash(key), d, N)
<1>1. PICK d \in 0..(N - 1) :
               /\ FirstSlot(slots, Hash(key), gs) = at(d)
               /\ \A e \in 0..(d - 1) : slots[at(e)] \notin gs \cup {0}
  BY ProbeEnds
<1>2. PICK c \in 0..(N - 1) : slots[at(c)] = g /\ \A e \in 0..(c - 1) : slots[at(e)] \notin {0, g}
  BY DEF Tabled, Reached
<1>3. N \in Nat /\ g # 0
  <2>1. n \in Nat /\ N \in Nat
    BY SeqIs DEF Tabled
  <2> QED
    BY <2>1
<1> HIDE DEF at, N
<1>4. CASE c < d
  <2>1. c \in 0..(d - 1)
    BY <1>3, <1>4
  <2> QED
    BY <1>1, <1>2, <2>1
<1>5. CASE d < c
  <2>1. d \in 0..(c - 1)
    BY <1>3, <1>5
  <2> QED
    BY <1>1, <1>2, <2>1
<1>6. CASE c = d
  BY <1>1, <1>2, <1>3, <1>6
<1> QED
  BY <1>3, <1>4, <1>5, <1>6

\* Groups and slots as AllGrouped carries them along.
SoundGrouping(s) == DOMAIN s = {"rows", "slots", "g", "over"} /\ SoundTable(s.rows, s.slots)

LEMMA SoundAdded ==
    ASSUME HashesAreNumbers, NEW groups, NEW slots, SoundTable(groups, slots), NEW x, "key" \in DOMAIN x,
           NEW gs, \A g \in 1..Len(groups) : groups[g].key = x.key => g \in gs,
           slots[FirstSlot(slots, Hash(x.key), gs)] = 0
    PROVE  LET rows  == Append(groups, x)
               filed == [slots EXCEPT ![FirstSlot(slots, Hash(x.key), gs)] = Len(rows)]
           IN  SoundTable(rows, IF Len(rows) * 2 > Len(filed) THEN Grown(rows, filed) ELSE filed)
<1> DEFINE n == Len(groups)
           rows  == Append(groups, x)
           filed == [slots EXCEPT ![FirstSlot(slots, Hash(x.key), gs)] = Len(rows)]
<1>1. IsSeq(groups) /\ n \in Nat /\ Tabled(groups, n, slots) /\ Len(slots) \in Nat /\ 2 * n <= Len(slots) /\ n < Len(slots)
  <2>1. IsSeq(groups) /\ Tabled(groups, n, slots) /\ 2 * n <= Len(slots)
    BY DEF SoundTable, Keyed
  <2>2. n \in Nat /\ Len(slots) \in Nat /\ Len(slots) # 0
    BY <2>1, SeqIs DEF Tabled
  <2> HIDE DEF n
  <2> QED
    BY <2>1, <2>2
<1>2. IsSeq(rows) /\ Len(rows) = n + 1 /\ rows[n + 1] = x
  BY <1>1, AppendIs
<1>3. \A g \in 1..n : rows[g] = groups[g]
  BY <1>1, AppendIs
<1>4. ASSUME NEW g \in 1..n PROVE groups[g].key # x.key
  <2> SUFFICES ASSUME groups[g].key = x.key PROVE FALSE
    OBVIOUS
  <2>1. g \in gs
    OBVIOUS
  <2>2. slots[FirstSlot(slots, Hash(x.key), gs)] # 0
    <3> DEFINE key == x.key
    <3>1. groups[g].key = key
      OBVIOUS
    <3> HIDE DEF key, n
    <3>2. slots[FirstSlot(slots, Hash(key), gs)] # 0
      BY <1>1, <2>1, <3>1, ProbeFinds
    <3> QED
      BY <3>2 DEF key
  <2> QED
    BY <2>2
<1> HIDE DEF rows, n
<1>5. Keyed(rows)
  <2>1. ASSUME NEW g \in 1..(n + 1) PROVE "key" \in DOMAIN rows[g]
    <3>1. g = n + 1 \/ g \in 1..n
      BY <1>1
    <3> QED
      BY <1>2, <1>3, <3>1 DEF SoundTable, Keyed, n
  <2>2. ASSUME NEW g \in 1..(n + 1), NEW h \in 1..(n + 1), rows[g].key = rows[h].key PROVE g = h
    <3>1. (g = n + 1 \/ g \in 1..n) /\ (h = n + 1 \/ h \in 1..n)
      BY <1>1
    <3>2. \A a, b \in 1..n : groups[a].key = groups[b].key => a = b
      BY DEF SoundTable, Keyed, n
    <3> QED
      BY <1>2, <1>3, <1>4, <2>2, <3>1, <3>2
  <2> QED
    BY <1>2, <2>1, <2>2 DEF Keyed
<1>6. Tabled(rows, n, slots)
  BY <1>1, <1>3, KeptTabled
<1>7. Tabled(rows, n + 1, filed) /\ Len(filed) = Len(slots)
  <2>1. filed = [slots EXCEPT ![FirstSlot(slots, Hash(rows[n + 1].key), gs)] = n + 1]
    BY <1>2
  <2>2. slots[FirstSlot(slots, Hash(rows[n + 1].key), gs)] = 0
    BY <1>2
  <2>3. LET y == [slots EXCEPT ![FirstSlot(slots, Hash(rows[n + 1].key), gs)] = n + 1]
        IN  Tabled(rows, n + 1, y) /\ Len(y) = Len(slots)
    BY <1>1, <1>6, <2>2, FiledNext
  <2> HIDE DEF filed
  <2> QED
    BY <2>1, <2>3
<1> HIDE DEF filed
<1>8. CASE Len(rows) * 2 > Len(filed)
  <2>1. Len(rows) \in Nat /\ Len(filed) \in Nat /\ Len(rows) < 2 * Len(filed) /\ 2 * Len(rows) <= 2 * Len(filed)
    BY <1>1, <1>2, <1>7
  <2>2. Tabled(rows, Len(rows), Grown(rows, filed)) /\ Len(Grown(rows, filed)) = 2 * Len(filed)
    BY <2>1, GrownIs
  <2>3. SoundTable(rows, Grown(rows, filed))
    BY <1>5, <2>1, <2>2 DEF SoundTable
  <2> QED
    BY <1>8, <2>3 DEF rows, filed
<1>9. CASE ~(Len(rows) * 2 > Len(filed))
  <2>1. 2 * Len(rows) <= Len(filed)
    BY <1>1, <1>2, <1>7, <1>9
  <2>2. SoundTable(rows, filed)
    BY <1>2, <1>5, <1>7, <2>1 DEF SoundTable
  <2> QED
    BY <1>9, <2>2 DEF rows, filed
<1> QED
  BY <1>8, <1>9

\* The group of a key is found, or filed and then found.
LEMMA FoundSound ==
    ASSUME HashesAreNumbers, NEW s, SoundGrouping(s), NEW key, NEW aggs
    PROVE  LET t == FoundOrAdded(s, key, aggs)
           IN  SoundGrouping(t) /\ t.g \in 1..Len(t.rows)
<1> DEFINE h    == Hash(key)
           same == {g \in DOMAIN s.rows : Hash(s.rows[g].key) = h /\ SameKey(key, s.rows[g].key)}
           i    == FirstSlot(s.slots, h, same)
           new  == NewGroup(key, aggs)
           rows == Append(s.rows, new)
           filed == [s.slots EXCEPT ![i] = Len(rows)]
           slots == IF Len(rows) * 2 > Len(filed) THEN Grown(rows, filed) ELSE filed
           found == [s EXCEPT !.g = s.slots[i]]
           added == [s EXCEPT !.g = Len(rows), !.rows = rows, !.slots = slots]
<1>1. FoundOrAdded(s, key, aggs) = IF s.slots[i] # 0 THEN found ELSE added
  BY Zenon DEF FoundOrAdded
<1>2. SoundTable(s.rows, s.slots) /\ IsSeq(s.rows) /\ DOMAIN s.rows = 1..Len(s.rows) /\ Len(s.rows) \in Nat
  BY SeqIs DEF SoundGrouping, SoundTable, Keyed
<1>3. CASE s.slots[i] # 0
  <2>1. Tabled(s.rows, Len(s.rows), s.slots) /\ Len(s.rows) < Len(s.slots)
    <3>1. Tabled(s.rows, Len(s.rows), s.slots) /\ 2 * Len(s.rows) <= Len(s.slots)
      BY <1>2 DEF SoundTable
    <3>2. Len(s.slots) \in Nat /\ Len(s.slots) # 0
      BY <3>1, SeqIs DEF Tabled
    <3> QED
      BY <1>2, <3>1, <3>2
  <2>2. s.slots[i] \in same \cup {0}
    <3> HIDE DEF same
    <3>1. PICK d \in 0..(Len(s.slots) - 1) :
               /\ FirstSlot(s.slots, Hash(key), same) = ProbeAt(Hash(key), d, Len(s.slots))
               /\ s.slots[ProbeAt(Hash(key), d, Len(s.slots))] \in same \cup {0}
      BY <2>1, ProbeEnds
    <3> QED
      BY <3>1
  <2>3. s.slots[i] \in 1..Len(s.rows)
    BY <1>2, <1>3, <2>2
  <2> HIDE DEF i
  <2>4. DOMAIN found = {"rows", "slots", "g", "over"} /\ found.rows = s.rows /\ found.slots = s.slots /\ found.g = s.slots[i]
    BY DEF SoundGrouping
  <2> HIDE DEF found
  <2>5. FoundOrAdded(s, key, aggs) = found
    BY <1>1, <1>3 DEF i
  <2> QED
    BY <1>2, <2>3, <2>4, <2>5 DEF SoundGrouping
<1>4. CASE s.slots[i] = 0
  <2>1. new.key = key /\ "key" \in DOMAIN new
    BY DEF NewGroup
  <2>2. ASSUME NEW g \in 1..Len(s.rows), s.rows[g].key = new.key PROVE g \in same
    BY <1>2, <2>1, <2>2, SameAsItself
  <2>3. s.slots[FirstSlot(s.slots, Hash(new.key), same)] = 0
    BY <1>4, <2>1
  <2>4. filed = [s.slots EXCEPT ![FirstSlot(s.slots, Hash(new.key), same)] = Len(rows)]
    BY <2>1
  <2> HIDE DEF new, same, filed
  <2>5. LET y == [s.slots EXCEPT ![FirstSlot(s.slots, Hash(new.key), same)] = Len(rows)]
        IN  SoundTable(rows, IF Len(rows) * 2 > Len(y) THEN Grown(rows, y) ELSE y)
    BY <1>2, <2>1, <2>2, <2>3, SoundAdded
  <2>6. SoundTable(rows, slots)
    BY <2>4, <2>5
  <2>7. Len(rows) \in 1..Len(rows)
    <3>1. Len(Append(s.rows, new)) = Len(s.rows) + 1
      BY <1>2, AppendIs
    <3> QED
      BY <1>2, <3>1
  <2> HIDE DEF rows, slots
  <2>8. DOMAIN added = {"rows", "slots", "g", "over"} /\ added.rows = rows /\ added.slots = slots /\ added.g = Len(rows)
    BY DEF SoundGrouping
  <2> HIDE DEF added
  <2>9. FoundOrAdded(s, key, aggs) = added
    BY <1>1, <1>4
  <2> QED
    BY <2>6, <2>7, <2>8, <2>9 DEF SoundGrouping
<1> QED
  BY <1>3, <1>4

LEMMA GroupedSound ==
    ASSUME HashesAreNumbers, NEW n, n.group # <<>>, NEW s, SoundGrouping(s), NEW row
    PROVE  SoundGrouping(Grouped(n, s, row))
<1> DEFINE t  == FoundOrAdded(s, KeyOf(row, n.group), n.aggs)
           of == t.rows[t.g].states
           x  == [a \in DOMAIN n.aggs |-> Updated(n.aggs[a], of[a], row[n.aggs[a].col])]
           y  == t.over \/ \E a \in DOMAIN n.aggs : Overflows(n.aggs[a], of[a], row[n.aggs[a].col])
           u  == [t EXCEPT !.rows[t.g].states = x, !.over = y]
<1>1. Grouped(n, s, row) = u
  <2>1. Grouped(n, s, row) = LET t0 == IF n.group = <<>> THEN [s EXCEPT !.g = 1] ELSE t
                                 of0 == t0.rows[t0.g].states
                             IN  [t0 EXCEPT !.rows[t0.g].states = [a \in DOMAIN n.aggs |-> Updated(n.aggs[a], of0[a], row[n.aggs[a].col])],
                                            !.over = @ \/ \E a \in DOMAIN n.aggs : Overflows(n.aggs[a], of0[a], row[n.aggs[a].col])]
    BY Zenon DEF Grouped
  <2>2. (IF n.group = <<>> THEN [s EXCEPT !.g = 1] ELSE t) = t
    OBVIOUS
  <2> HIDE DEF t
  <2> QED
    BY <2>1, <2>2, Zenon
<1>2. SoundGrouping(t) /\ t.g \in 1..Len(t.rows)
  BY FoundSound, Zenon
<1> HIDE DEF t, x, y
<1> DEFINE z == [t.rows[t.g] EXCEPT !.states = x]
           r == [t.rows EXCEPT ![t.g] = z]
<1>3. DOMAIN u = {"rows", "slots", "g", "over"} /\ u.rows = r /\ u.slots = t.slots
  BY <1>2 DEF SoundGrouping
<1>4. SoundTable(t.rows, t.slots) /\ IsSeq(t.rows) /\ Len(t.rows) \in Nat
  BY <1>2, SeqIs DEF SoundGrouping, SoundTable, Keyed
<1>5. "key" \in DOMAIN t.rows[t.g]
  BY <1>2, <1>4 DEF SoundTable, Keyed
<1>6. "key" \in DOMAIN z /\ z.key = t.rows[t.g].key
  BY <1>5
<1> HIDE DEF z
<1>7. IsSeq(r) /\ Len(r) = Len(t.rows)
  BY <1>4, ExceptIs
<1>8. \A g \in 1..Len(t.rows) : r[g] = IF g = t.g THEN z ELSE t.rows[g]
  BY <1>4, FiledIs
<1> HIDE DEF u, r
<1>9. SoundTable(r, t.slots)
  <2>1. \A g \in 1..Len(t.rows) : "key" \in DOMAIN r[g] /\ r[g].key = t.rows[g].key
    BY <1>4, <1>6, <1>8 DEF SoundTable, Keyed
  <2> QED
    BY <1>4, <1>7, <2>1, KeptSound
<1> QED
  BY <1>1, <1>3, <1>9 DEF SoundGrouping

LEMMA GroupedSoundAll ==
    ASSUME HashesAreNumbers, NEW N \in Nat, NEW n, n.group # <<>>, NEW a, NEW rows, SoundGrouping(a),
           NEW f, GroupedFun(f, N, n, a, rows)
    PROVE  \A i \in 0..N : SoundGrouping(f[i])
<1> DEFINE T == {i \in 0..N : ~SoundGrouping(f[i])}
<1>1. T = {}
  <2> SUFFICES ASSUME T # {} PROVE FALSE
    OBVIOUS
  <2>1. T \in SUBSET Nat
    OBVIOUS
  <2> HIDE DEF T
  <2>2. PICK i \in T : \A k \in T : i <= k
    BY <2>1, LeastOf
  <2>3. i \in 0..N /\ ~SoundGrouping(f[i])
    BY DEF T
  <2>4. CASE i = 0
    BY <2>3, <2>4 DEF GroupedFun
  <2>5. CASE i # 0
    <3>1. i - 1 \in 0..N /\ ~(i <= i - 1)
      BY <2>3, <2>5
    <3>2. SoundGrouping(f[i - 1])
      BY <2>2, <3>1 DEF T
    <3>3. SoundGrouping(Grouped(n, f[i - 1], rows[i]))
      BY <3>2, GroupedSound
    <3> QED
      BY <2>3, <2>5, <3>3 DEF GroupedFun
  <2> QED
    BY <2>4, <2>5
<1> QED
  BY <1>1

LEMMA AllGroupedSound ==
    ASSUME HashesAreNumbers, NEW n, n.group # <<>>, NEW s, SoundTable(s.rows, s.slots), NEW rows, IsSeq(rows)
    PROVE  SoundTable(AllGrouped(n, s, rows).rows, AllGrouped(n, s, rows).slots)
<1>1. PICK f : /\ AllGrouped(n, s, rows) = f[Len(rows)]
               /\ GroupedFun(f, Len(rows), n, Before(s), rows)
  BY AllGroupedIsLast
<1>2. Len(rows) \in Nat
  BY SeqIs
<1>3. SoundGrouping(Before(s))
  BY DEF Before, SoundGrouping
<1>4. \A i \in 0..Len(rows) : SoundGrouping(f[i])
  BY <1>1, <1>2, <1>3, GroupedSoundAll
<1>5. Len(rows) \in 0..Len(rows)
  BY <1>2
<1> QED
  BY <1>1, <1>4, <1>5 DEF SoundGrouping
-----------------------------------------------------------------------------
\* An aggregate with a GROUP BY, whose groups have a table.
Grouper(n) == plan[n].op = "aggregate" /\ plan[n].group # <<>>

\* What the node n holds is no group and no table, or a sound table.
Kept(n) == (st[n].rows = <<>> /\ st[n].slots = <<>>) \/ SoundTable(st[n].rows, st[n].slots)

\* Every aggregate's table is sound, and is there from its open's first step on.
TableInv ==
    \A n \in DOMAIN plan : Grouper(n) =>
        /\ Kept(n)
        /\ \A i \in DOMAIN stack : /\ stack[i].node = n /\ stack[i].call = "open"
                                   /\ i # Len(stack) \/ Answering
                                   => st[n].slots # <<>>

LEMMA SoundHasSlots == ASSUME NEW groups, NEW slots, SoundTable(groups, slots) PROVE slots # <<>>
BY EmptyIsSeq DEF SoundTable, Tabled

\* In a sound table every group is found.
LEMMA SoundFinds ==
    ASSUME HashesAreNumbers, NEW groups, NEW slots, SoundTable(groups, slots)
    PROVE  /\ 2 * Len(groups) <= Len(slots)
           /\ \A g \in DOMAIN groups : slots[FirstSlot(slots, Hash(groups[g].key), {g})] = g
           /\ \A g, h \in DOMAIN groups : groups[g].key = groups[h].key => g = h
<1>1. IsSeq(groups) /\ DOMAIN groups = 1..Len(groups) /\ Len(groups) \in Nat
  BY SeqIs DEF SoundTable, Keyed
<1>2. Tabled(groups, Len(groups), slots) /\ Len(groups) < Len(slots)
  <2>1. Tabled(groups, Len(groups), slots) /\ 2 * Len(groups) <= Len(slots)
    BY DEF SoundTable
  <2>2. Len(slots) \in Nat /\ Len(slots) # 0
    BY <2>1, SeqIs DEF Tabled
  <2> QED
    BY <1>1, <2>1, <2>2
<1>3. ASSUME NEW g \in DOMAIN groups PROVE slots[FirstSlot(slots, Hash(groups[g].key), {g})] = g
  <2> DEFINE key == groups[g].key
             i == FirstSlot(slots, Hash(key), {g})
  <2>0. groups[g].key = key /\ g \in 1..Len(groups)
    BY <1>1
  <2> HIDE DEF key
  <2>1. slots[i] # 0
    BY <1>2, <2>0, ProbeFinds
  <2>2. PICK d \in 0..(Len(slots) - 1) :
               /\ FirstSlot(slots, Hash(key), {g}) = ProbeAt(Hash(key), d, Len(slots))
               /\ slots[ProbeAt(Hash(key), d, Len(slots))] \in {g} \cup {0}
    BY <1>2, ProbeEnds
  <2>3. slots[i] = g
    BY <2>1, <2>2
  <2> QED
    BY <2>3 DEF key
<1> QED
  BY <1>1, <1>3 DEF SoundTable, Keyed

LEMMA TablesAreSound == ASSUME HashesAreNumbers, TableInv PROVE TablesSound
<1> SUFFICES ASSUME NEW n \in DOMAIN plan, Grouper(n)
             PROVE  /\ 2 * Len(st[n].rows) <= Len(st[n].slots)
                    /\ \A g \in DOMAIN st[n].rows : st[n].slots[FirstSlot(st[n].slots, Hash(st[n].rows[g].key), {g})] = g
                    /\ \A g, h \in DOMAIN st[n].rows : st[n].rows[g].key = st[n].rows[h].key => g = h
  BY Zenon DEF TablesSound, Grouper
<1>1. CASE st[n].rows = <<>> /\ st[n].slots = <<>>
  <2>1. Len(st[n].rows) = 0 /\ Len(st[n].slots) = 0 /\ DOMAIN st[n].rows = {}
    BY <1>1, EmptyIsSeq
  <2> QED
    BY <2>1
<1>2. CASE SoundTable(st[n].rows, st[n].slots)
  BY <1>2, SoundFinds
<1> QED
  BY <1>1, <1>2 DEF TableInv, Kept
-----------------------------------------------------------------------------
(* The steps of an aggregate, and of the other nodes.                      *)

Others ==
    \/ OpenSource \/ CloseSource \/ Scan \/ Lookup
    \/ PassDown \/ PassUp \/ Exhausted \/ Ask \/ FilterRows \/ ProjectRows \/ LimitAsks \/ LimitRows
    \/ DrainKeeps \/ OpenMinMax
    \/ OpenIndexJoin \/ OpenedJoin \/ CloseJoin \/ ClosedJoin
    \/ Pull \/ Pulled \/ PulledNone \/ NestedLoop \/ HashProbe \/ IndexSearch
    \/ JoinHands \/ NestedLoopHands

LEMMA OthersAre == ASSUME Others PROVE Node.op # "aggregate"
<1>1. OpenSource \/ CloseSource \/ Scan \/ Lookup => Node.op # "aggregate"
  BY DEF OpenSource, CloseSource, Scan, Lookup, Serving
<1>2. PassDown \/ PassUp \/ Exhausted \/ Ask => Node.op # "aggregate"
  BY DEF PassDown, PassUp, Exhausted, Ask, Serving, Through
<1>3. FilterRows \/ ProjectRows \/ LimitAsks \/ LimitRows => Node.op # "aggregate"
  BY DEF FilterRows, ProjectRows, LimitAsks, LimitRows, Serving
<1>4. DrainKeeps \/ OpenMinMax \/ OpenIndexJoin => Node.op # "aggregate"
  BY DEF DrainKeeps, OpenMinMax, OpenIndexJoin, Serving
<1>5. OpenedJoin \/ CloseJoin \/ ClosedJoin \/ Pull => Node.op # "aggregate"
  BY DEF OpenedJoin, CloseJoin, ClosedJoin, Pull, Serving, Joins
<1>6. Pulled \/ PulledNone => Node.op # "aggregate"
  BY DEF Pulled, PulledNone, Serving, Joins
<1>7. NestedLoop \/ HashProbe \/ IndexSearch => Node.op # "aggregate"
  BY Zenon DEF NestedLoop, HashProbe, IndexSearch, Serving
<1>8. JoinHands \/ NestedLoopHands => Node.op # "aggregate"
  BY Zenon DEF JoinHands, NestedLoopHands, Serving
<1> QED
  BY <1>1, <1>2, <1>3, <1>4, <1>5, <1>6, <1>7, <1>8 DEF Others

\* The table of the node at work is as it was, or sound anew; while the node opens, a
\* call it makes leaves it with a table.
AtWork ==
    LET t == Top.node
    IN  /\ (st'[t].rows = S.rows /\ st'[t].slots = S.slots) \/ SoundTable(st'[t].rows, st'[t].slots)
        /\ Top.call = "open" /\ (\E child, call, max : Call(child, call, max)) => st'[t].slots # <<>>

\* The table of an aggregate that is called back as it opens.
LEMMA OpenHasSlots ==
    ASSUME IInv, TableInv, stack # <<>>, Grouper(Top.node), Top.call = "open", Answering
    PROVE  S.slots # <<>> /\ SoundTable(S.rows, S.slots)
<1>1. /\ Top.node \in DOMAIN plan /\ Top = stack[Len(stack)] /\ Len(stack) \in DOMAIN stack /\ S = st[Top.node]
  BY InCall
<1>2. S.slots # <<>>
  BY <1>1 DEF TableInv
<1>3. Kept(Top.node)
  BY <1>1 DEF TableInv
<1> QED
  BY <1>1, <1>2, <1>3 DEF Kept

LEMMA KeptAtWork ==
    ASSUME IInv, TableInv, stack # <<>>, Grouper(Top.node), Top.call = "open" => Answering, NEW s,
           Alters(s), s.rows = S.rows, s.slots = S.slots
    PROVE  AtWork
<1>1. st'[Top.node] = s
  BY DEF Alters
<1>2. Top.call = "open" => S.slots # <<>>
  BY OpenHasSlots
<1> QED
  BY <1>1, <1>2 DEF AtWork

LEMMA DrainOpensAtWork == ASSUME IInv, TableInv, DrainOpens, Grouper(Top.node) PROVE AtWork
<1> DEFINE s == [Idle EXCEPT !.slots = EmptySlots(InitialSlots), !.rows = <<>>]
<1>1. stack # <<>> /\ Node.op = "aggregate" /\ Node.group # <<>>
  <2>1. stack # <<>>
    BY DEF DrainOpens, Serving
  <2> QED
    BY <2>1, InCall DEF Grouper
<1>2. Becomes(s)
  BY <1>1, Zenon DEF DrainOpens
<1>3. s.rows = <<>> /\ s.slots = EmptySlots(InitialSlots)
  BY IdleIs
<1> HIDE DEF s
<1>4. st'[Top.node] = s
  BY <1>1, <1>2, BecomesAlters DEF Alters
<1>5. SoundTable(<<>>, EmptySlots(InitialSlots))
  BY CountsArePositive, EmptySound
<1> QED
  BY <1>3, <1>4, <1>5, SoundHasSlots DEF AtWork

LEMMA DrainReadsAtWork == ASSUME IInv, TableInv, DrainReads, Grouper(Top.node) PROVE AtWork
<1>1. stack # <<>> /\ Answering /\ UNCHANGED st
  BY DEF DrainReads, Serving, Back, Answering
<1> QED
  BY <1>1, SameAlters, KeptAtWork

LEMMA DrainGroupsAtWork ==
    ASSUME HashesAreNumbers, IInv, SInv, TableInv, DrainGroups, Grouper(Top.node), ~Throw
    PROVE  AtWork
<1> DEFINE all == AllGrouped(Node, S, Live(reply.batch))
           s == [S EXCEPT !.rows = all.rows, !.slots = all.slots]
<1>1. stack # <<>> /\ Top.call = "open" /\ Answering /\ reply.kind = "rows"
  BY DEF DrainGroups, Serving, Back, Answering
<1>2. Becomes(s)
  BY DEF DrainGroups
<1>3. Node.group # <<>> /\ DOMAIN S = DOMAIN Idle
  BY <1>1, InCall DEF Grouper
<1>4. IsSeq(Live(reply.batch)) /\ SoundTable(S.rows, S.slots)
  BY <1>1, RowsHeld, OpenHasSlots
<1>5. SoundTable(all.rows, all.slots)
  BY <1>3, <1>4, AllGroupedSound
<1> HIDE DEF all
<1>6. s.rows = all.rows /\ s.slots = all.slots
  BY <1>3, IdleIs
<1> HIDE DEF s
<1>7. st'[Top.node] = s
  BY <1>1, <1>2, BecomesAlters DEF Alters
<1> QED
  BY <1>5, <1>6, <1>7, SoundHasSlots DEF AtWork

LEMMA DrainClosesAtWork == ASSUME IInv, TableInv, DrainCloses, Grouper(Top.node) PROVE AtWork
<1>1. stack # <<>> /\ Answering
  BY DEF DrainCloses, Serving, Back, Answering
<1>2. Node.op # "sort"
  BY <1>1, InCall DEF Grouper
<1>3. Becomes(S)
  BY <1>2 DEF DrainCloses
<1> QED
  BY <1>1, <1>3, BecomesAlters, KeptAtWork

LEMMA DrainEndsAtWork == ASSUME IInv, TableInv, DrainEnds, Grouper(Top.node) PROVE AtWork
<1>1. stack # <<>> /\ Answering /\ UNCHANGED st
  BY DEF DrainEnds, Serving, Back, Answering
<1> QED
  BY <1>1, SameAlters, KeptAtWork

LEMMA HandOutAtWork == ASSUME IInv, TableInv, HandOut, Grouper(Top.node) PROVE AtWork
<1> DEFINE n == Least(Want, Len(S.rows) - S.given)
           s == [S EXCEPT !.given = S.given + n]
<1>1. stack # <<>> /\ Top.call = "next"
  BY DEF HandOut, Serving
<1>2. Becomes(s)
  BY Zenon DEF HandOut
<1>3. s.rows = S.rows /\ s.slots = S.slots
  OBVIOUS
<1> HIDE DEF s
<1> QED
  BY <1>1, <1>2, <1>3, BecomesAlters, KeptAtWork

LEMMA CloseHeldAtWork == ASSUME IInv, TableInv, CloseHeld, Grouper(Top.node) PROVE AtWork
<1>1. stack # <<>> /\ Top.call = "close" /\ UNCHANGED st
  BY DEF CloseHeld, Serving
<1> QED
  BY <1>1, SameAlters, KeptAtWork

LEMMA GrouperAtWork ==
    ASSUME HashesAreNumbers, IInv, SInv, TableInv, OperatorStep, stack # <<>>, Grouper(Top.node), ~Throw
    PROVE  AtWork
<1>1. Node.op = "aggregate"
  BY InCall DEF Grouper
<1>2. DrainOpens \/ DrainReads \/ DrainGroups \/ DrainCloses \/ DrainEnds \/ HandOut \/ CloseHeld \/ Others
  BY Zenon DEF OperatorStep, Others
<1> QED
  BY <1>1, <1>2, OthersAre, DrainOpensAtWork, DrainReadsAtWork, DrainGroupsAtWork, DrainClosesAtWork,
     DrainEndsAtWork, HandOutAtWork, CloseHeldAtWork
-----------------------------------------------------------------------------
LEMMA LimitAside == PassDown \/ PassUp \/ Exhausted \/ LimitAsks \/ LimitRows => Aside
BY Zenon DEF PassDown, PassUp, Exhausted, LimitAsks, LimitRows, Aside

\* After a step, a frame that waits for an answer or has got one was there before, and
\* was waiting then, or has just made its call.
LEMMA FramesAfter ==
    ASSUME IInv, Working, Moves, NEW i \in DOMAIN stack', i # Len(stack') \/ Answering'
    PROVE  /\ i \in DOMAIN stack /\ stack'[i] = stack[i]
           /\ i # Len(stack) \/ \E child, call, max : Call(child, call, max)
<1> DEFINE K == Len(stack)
<1>1. /\ stack # <<>> /\ IsSeq(stack) /\ K \in Nat \ {0} /\ DOMAIN stack = 1..K
  BY InCall DEF Moves
<1>2. ASSUME NEW child, NEW call, NEW max, Call(child, call, max) PROVE i \in DOMAIN stack /\ stack'[i] = stack[i]
  <2> DEFINE f == [node |-> child, call |-> call, max |-> max]
  <2>0. stack' = Append(stack, f) /\ ~Answering'
    BY <1>2 DEF Call, Answering, NoReply
  <2> HIDE DEF f
  <2>1. IsSeq(stack') /\ Len(stack') = K + 1 /\ \A j \in 1..K : stack'[j] = stack[j]
    BY <1>1, <2>0, AppendIs
  <2>2. DOMAIN stack' = 1..Len(stack')
    BY <2>1, SeqIs
  <2>3. i # Len(stack')
    BY <2>0
  <2> HIDE DEF K
  <2>4. i \in 1..(K + 1) /\ i # K + 1
    BY <2>1, <2>2, <2>3
  <2> QED
    BY <1>1, <2>1, <2>4
<1>3. ASSUME NEW kind, NEW b, Return(kind, b) PROVE i \in DOMAIN stack /\ stack'[i] = stack[i] /\ i # K
  <2>1. IsSeq(stack') /\ Len(stack') = K - 1 /\ \A j \in 1..(K - 1) : stack'[j] = stack[j]
    BY <1>1, <1>3, FrontOf DEF Return
  <2>2. DOMAIN stack' = 1..Len(stack')
    BY <2>1, SeqIs
  <2> HIDE DEF K
  <2>3. i \in 1..(K - 1)
    BY <2>1, <2>2
  <2>4. i \in 1..K /\ i # K
    BY <1>1, <2>3
  <2> QED
    BY <1>1, <2>1, <2>3, <2>4
<1>4. CASE GoOn
  BY <1>4 DEF GoOn, Answering, NoReply
<1>5. CASE Throw
  BY <1>5, EmptyIsSeq DEF Throw
<1> QED
  BY <1>2, <1>3, <1>4, <1>5 DEF Moves

LEMMA WorkTable ==
    ASSUME HashesAreNumbers, IInv, SInv, TableInv, Work
    PROVE  TableInv'
<1>1. OperatorStep /\ Working
  BY DEF Work, Working, OperatorStep
<1>2. Moves /\ stack # <<>> /\ Aside
  BY <1>1, WorkMoves, LimitAside DEF Moves
<1>3. plan' = plan /\ Top = stack[Len(stack)] /\ Len(stack) \in DOMAIN stack /\ Tree(plan) /\ DOMAIN st = DOMAIN plan
      /\ S = st[Top.node]
  <2>1. Len(stack) \in DOMAIN stack
    BY <1>2, InCall
  <2> QED
    BY <1>1, <1>2, <2>1, InCall DEF Working, IInv, HeldInv
<1>4. CASE Throw
  <2>1. DOMAIN stack' = {}
    BY <1>4, EmptyIsSeq DEF Throw
  <2>2. \A n \in DOMAIN plan : st'[n].rows = <<>> /\ st'[n].slots = <<>>
    BY <1>3, <1>4 DEF Throw, Idle
  <2> QED
    BY <1>3, <2>1, <2>2 DEF TableInv, Kept
<1>5. CASE ~Throw
  <2> SUFFICES ASSUME NEW n \in DOMAIN plan, Grouper(n)
               PROVE  /\ Kept(n)'
                      /\ \A i \in DOMAIN stack' : /\ stack'[i].node = n /\ stack'[i].call = "open"
                                                  /\ i # Len(stack') \/ Answering'
                                                  => st'[n].slots # <<>>
    BY <1>3 DEF TableInv, Grouper
  <2>1. /\ Kept(n)
        /\ \A i \in DOMAIN stack : /\ stack[i].node = n /\ stack[i].call = "open"
                                   /\ i # Len(stack) \/ Answering
                                   => st[n].slots # <<>>
    BY DEF TableInv
  <2>2. CASE n = Top.node
    <3>1. AtWork
      BY <1>1, <1>2, <1>5, <2>2, GrouperAtWork
    <3>2. Kept(n)'
      BY <1>3, <2>1, <2>2, <3>1 DEF AtWork, Kept
    <3>3. ASSUME NEW i \in DOMAIN stack', stack'[i].node = n, stack'[i].call = "open", i # Len(stack') \/ Answering'
          PROVE  st'[n].slots # <<>>
      <4>1. /\ i \in DOMAIN stack /\ stack'[i] = stack[i]
            /\ i # Len(stack) \/ \E child, call, max : Call(child, call, max)
        BY <1>1, <1>2, <3>3, FramesAfter
      <4>2. i = Len(stack)
        BY <1>3, <2>2, <3>3, <4>1, OneFrame
      <4> QED
        BY <1>3, <2>2, <3>1, <3>3, <4>1, <4>2 DEF AtWork
    <3> QED
      BY <3>2, <3>3
  <2>3. CASE n # Top.node
    <3>1. st'[n] = st[n]
      BY <1>2, <1>3, <1>5, <2>3 DEF Aside, Becomes
    <3>2. ASSUME NEW i \in DOMAIN stack', stack'[i].node = n, stack'[i].call = "open", i # Len(stack') \/ Answering'
          PROVE  st'[n].slots # <<>>
      <4>1. i \in DOMAIN stack /\ stack'[i] = stack[i]
        BY <1>1, <1>2, <3>2, FramesAfter
      <4>2. i # Len(stack)
        BY <1>3, <2>3, <3>2, <4>1
      <4> QED
        BY <2>1, <3>1, <3>2, <4>1, <4>2
    <3> QED
      BY <2>1, <3>1, <3>2 DEF Kept
  <2> QED
    BY <2>2, <2>3
<1> QED
  BY <1>4, <1>5

LEMMA InitTable == Init => TableInv
<1> SUFFICES ASSUME Init PROVE TableInv
  OBVIOUS
<1>1. plan = <<>>
  BY DEF Init
<1> QED
  BY <1>1, EmptyIsSeq DEF TableInv

LEMMA PlanTable == ASSUME IInv, Plan PROVE TableInv'
<1>1. PICK p \in Plans(query) : plan' = p /\ st' = [n \in DOMAIN p |-> Idle]
  BY DEF Plan
<1>2. stack' = <<>>
  BY DEF Plan, IInv, PlanInv
<1>3. DOMAIN stack' = {}
  BY <1>2, EmptyIsSeq
<1>4. \A n \in DOMAIN plan' : st'[n].rows = <<>> /\ st'[n].slots = <<>>
  BY <1>1 DEF Idle
<1> QED
  BY <1>3, <1>4 DEF TableInv, Kept

\* The query calls its root.
LEMMA RootCallTable ==
    ASSUME TableInv, stack = <<>>, UNCHANGED <<plan, st>>, NEW call, NEW max, Call(Root, call, max)
    PROVE  TableInv'
<1> DEFINE f == [node |-> Root, call |-> call, max |-> max]
<1>1. stack' = Append(stack, f) /\ ~Answering'
  BY DEF Call, Answering, NoReply
<1> HIDE DEF f
<1>2. IsSeq(stack) /\ Len(stack) = 0
  BY EmptyIsSeq
<1>3. IsSeq(stack') /\ Len(stack') = Len(stack) + 1
  BY <1>1, <1>2, AppendIs
<1>4. Len(stack') = 1 /\ DOMAIN stack' = 1..Len(stack')
  BY <1>2, <1>3, SeqIs
<1>5. \A i \in DOMAIN stack' : i = Len(stack')
  BY <1>4
<1> QED
  BY <1>1, <1>5 DEF TableInv, Kept, Grouper

LEMMA SameTable ==
    ASSUME TableInv, UNCHANGED <<plan, st, stack>>, stack = <<>> \/ UNCHANGED reply
    PROVE  TableInv'
<1>1. CASE stack = <<>>
  <2>1. DOMAIN stack' = {}
    BY <1>1, EmptyIsSeq
  <2> QED
    BY <2>1 DEF TableInv, Kept, Grouper
<1>2. CASE UNCHANGED reply
  BY <1>2 DEF TableInv, Kept, Grouper, Answering
<1> QED
  BY <1>1, <1>2

LEMMA OtherTable == ASSUME IInv, TableInv, Open \/ Take \/ Close \/ Finish \/ Fail \/ UNCHANGED vars PROVE TableInv'
<1>1. CASE Open
  <2>1. stack = <<>>
    BY <1>1 DEF Open, IInv, PlanInv
  <2> QED
    BY <1>1, <2>1, RootCallTable DEF Open
<1>2. CASE Take
  BY <1>2, RootCallTable DEF Take
<1>3. CASE Close
  BY <1>3, RootCallTable DEF Close
<1>4. CASE Finish
  BY <1>4, SameTable DEF Finish
<1>5. CASE Fail
  <2>1. stack = <<>>
    BY <1>5 DEF Fail, IInv, ReplyInv
  <2> QED
    BY <1>5, <2>1, SameTable DEF Fail
<1>6. CASE UNCHANGED vars
  BY <1>6, SameTable DEF vars, opVars
<1> QED
  BY <1>1, <1>2, <1>3, <1>4, <1>5, <1>6

\* Whatever the rows and their hashes (mix64 makes each a machine integer), a table is at
\* most half full, and every group is found in it, once, from the slot its hash names
\* (HashAggregate::find_or_add and grow of operator.cpp).
THEOREM QueryTablesSound == ASSUME HashesAreNumbers PROVE Spec => []TablesSound
<1>1. Init => TableInv
  BY InitTable
<1>2. IInv /\ SInv /\ TableInv /\ [Next]_vars => TableInv'
  BY PlanTable, OtherTable, WorkTable DEF Next, Stopped
<1>3. TableInv => TablesSound
  BY TablesAreSound
<1> QED
  BY <1>1, <1>2, <1>3, QueryInductive, QuerySizes, PTL DEF Spec
=============================================================================
