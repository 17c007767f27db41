-------------------------- MODULE BTreeOrder_proofs --------------------------
(***************************************************************************)
(* Theorems about the order of a unique B+Tree (BTree): that it is the     *)
(* ordered list it promises (OrderedList), and that its reads find their   *)
(* places.  They hold for every size of leaf and internal node, and any    *)
(* keys, values and number of pages.                                       *)
(*                                                                         *)
(* Every page p is for the keys from lo[p] on and below hi[p].  A page's   *)
(* separators divide its keys between its children, a leaf's entries are   *)
(* its own, in ascending order, and each leaf is followed in the chain by  *)
(* the one whose keys are next.  A rotation moves the bound between two    *)
(* neighbours, a merge drops one, a split sets one; in the middle of an    *)
(* insertion a page split off has bounds that the pages above do not know  *)
(* yet.  What a call does to the entries held is then what it does to one  *)
(* leaf.                                                                   *)
(***************************************************************************)
EXTENDS BTree_proofs, FiniteSetTheorems

USE BTreeAssumption
-----------------------------------------------------------------------------
(* The order of a unique tree.                                             *)

\* The entries of a leaf: in the order of their keys, from l and below h.
Ascending(es) == \A i, j \in DOMAIN es : i < j => es[i].key < es[j].key

Within(es, l, h) == \A i \in DOMAIN es : l <= es[i].key /\ es[i].key < h

\* What the keys ks of a page divide l and up to h into: child i is for the keys
\* from bound i - 1 and below bound i.
Bound(ks, l, h, i) == IF i = 0 THEN l ELSE IF i = Len(ks) + 1 THEN h ELSE ks[i]

Divides(ks, cs, l, h, lo, hi) ==
    \A i \in 1..Len(ks)+1 : lo[cs[i]] = Bound(ks, l, h, i - 1) /\ hi[cs[i]] = Bound(ks, l, h, i)

LeavesOf(f) == {p \in DOMAIN f : f[p].kind = "leaf"}

\* Page p is for the keys from lo[p] and below hi[p].
Spanned(P, lo, hi) ==
    \A p \in P : lo[p] \in Nat /\ hi[p] \in Nat /\ lo[p] < hi[p] /\ hi[p] <= MaxKey + 1

Spans(f, lo, hi) ==
    lo \in [DOMAIN f -> Nat] /\ hi \in [DOMAIN f -> Nat] /\ Spanned(DOMAIN f, lo, hi)

\* The leaves are of keys of their own, each linked to the one for the next keys.
OwnKeys(P, lo, hi) == \A p, q \in P : p # q => hi[p] <= lo[q] \/ hi[q] <= lo[p]

Chained(f, lo, hi) ==
    \A p \in LeavesOf(f) :
        /\ Ascending(f[p].entries) /\ Within(f[p].entries, lo[p], hi[p])
        /\ f[p].next = NoPage => hi[p] = MaxKey + 1
        /\ f[p].next # NoPage => f[p].next \in LeavesOf(f) /\ lo[f[p].next] = hi[p]

Leaves(f, lo, hi) ==
    Spanned(LeavesOf(f), lo, hi) /\ OwnKeys(LeavesOf(f), lo, hi) /\ Chained(f, lo, hi)

Branches(f, lo, hi, wide) ==
    \A p \in DOMAIN f \ LeavesOf(f) : Divides(f[p].keys, f[p].children, lo[p], hi[p], lo, wide)

\* wide is hi, but for a page that has split: what its parent still takes for its end.
Ordered(f, r, lo, hi, wide) ==
    /\ Spans(f, lo, hi)
    /\ Leaves(f, lo, hi) /\ Branches(f, lo, hi, wide)
    /\ r \in DOMAIN f /\ lo[r] = 0 /\ wide[r] = MaxKey + 1

Wide(hi) == IF pc = "split" THEN [hi EXCEPT ![at] = hi[split.right]] ELSE hi

Placed(lo, hi) ==
    /\ Ordered(node, root, lo, hi, Wide(hi))
    /\ pc = "split" => hi[at] = split.key /\ lo[split.right] = split.key
    /\ pc \in {"insert", "erase"} => lo[at] <= arg.key /\ arg.key < hi[at]

OrderInv == unique => \E lo, hi \in [DOMAIN node -> Nat] : Placed(lo, hi)
-----------------------------------------------------------------------------
(* What the chain and the way down come to.                                *)

\* The chain in n steps, when before is what it is in one less.
Chain(f, n, before) ==
    [q \in Pages \cup {NoPage} |->
        IF q \notin DOMAIN f \/ n = 0 THEN <<>>
        ELSE f[q].entries \o before[f[q].next]]

Walk(f) == CHOOSE w : w = [n \in 0..MaxPage |-> Chain(f, n, w[n-1])]

Way(f, via, n, before) ==
    [p \in DOMAIN f |->
        IF f[p].kind = "leaf" \/ n = 0 THEN p
        ELSE before[f[p].children[via[p]]]]

Down(f, via) == CHOOSE d : d = [n \in 0..MaxPage |-> Way(f, via, n, d[n-1])]

LEMMA WalkSolves == ASSUME NEW f PROVE \E w : w = [n \in 0..MaxPage |-> Chain(f, n, w[n-1])]
<1> DEFINE Def(m, w) == w = [n \in 0..m |-> Chain(f, n, w[n-1])]
           T == {m \in Nat : ~ \E w : Def(m, w)}
<1>1. ASSUME NEW before, NEW after PROVE Chain(f, 0, before) = Chain(f, 0, after)
  BY DEF Chain
<1>2. T = {}
  <2> SUFFICES ASSUME T # {} PROVE FALSE
    OBVIOUS
  <2>1. T \in SUBSET Nat
    OBVIOUS
  <2> HIDE DEF T
  <2>2. PICK m \in T : \A k \in T : m <= k
    BY <2>1, LeastElement
  <2>3. m \in Nat /\ ~ \E w : Def(m, w)
    BY DEF T
  <2>4. CASE m = 0
    <3> DEFINE g == [n \in 0..0 |-> Chain(f, 0, {})]
    <3>1. \A n \in 0..0 : n = 0 /\ g[n] = Chain(f, 0, {})
      OBVIOUS
    <3>2. g = [n \in 0..0 |-> g[n]]
      OBVIOUS
    <3> HIDE DEF g
    <3>3. \A n \in 0..0 : g[n] = Chain(f, n, g[n-1])
      BY <3>1, <1>1, Zenon
    <3>4. Def(0, g)
      BY <3>2, <3>3, Zenon
    <3> HIDE DEF Def
    <3> QED
      BY <2>3, <2>4, <3>4
  <2>5. CASE m # 0
    <3>1. m - 1 \in Nat /\ m - 1 \notin T
      <4>1. m - 1 \in Nat /\ ~(m <= m - 1)
        BY <2>3, <2>5
      <4> QED
        BY <2>2, <4>1
    <3>2. PICK w : Def(m - 1, w)
      BY <3>1 DEF T
    <3> DEFINE g == [n \in 0..m |-> IF n = m THEN Chain(f, m, w[m - 1]) ELSE w[n]]
    <3>3. \A n \in 0..(m - 1) : w[n] = Chain(f, n, w[n - 1])
      BY <3>2, Zenon
    <3>4. ASSUME NEW n \in 0..m PROVE g[n] = Chain(f, n, g[n - 1])
      <4>1. /\ g[n] = IF n = m THEN Chain(f, m, w[m - 1]) ELSE w[n]
            /\ n # 0 => g[n - 1] = w[n - 1]
        BY <2>3
      <4>2. n # m => n \in 0..(m - 1)
        BY <2>3
      <4>3. g[n] = Chain(f, n, w[n - 1])
        BY <3>3, <4>1, <4>2
      <4> HIDE DEF g
      <4>4. CASE n = 0
        BY <1>1, <4>3, <4>4
      <4>5. CASE n # 0
        BY <4>1, <4>3, <4>5
      <4> QED
        BY <4>4, <4>5
    <3>5. g = [n \in 0..m |-> g[n]]
      OBVIOUS
    <3> HIDE DEF g
    <3>6. Def(m, g)
      BY <3>4, <3>5, Zenon
    <3> HIDE DEF Def
    <3> QED
      BY <2>3, <3>6
  <2> QED
    BY <2>4, <2>5
<1>3. MaxPage \in Nat
  OBVIOUS
<1>4. \E w : Def(MaxPage, w)
  BY <1>2, <1>3
<1> QED
  BY <1>4

LEMMA WalkIs ==
    ASSUME NEW f
    PROVE  \A n \in 0..MaxPage : Walk(f)[n] = Chain(f, n, Walk(f)[n-1])
<1>1. Walk(f) = [n \in 0..MaxPage |-> Chain(f, n, Walk(f)[n-1])]
  BY WalkSolves, Zenon DEF Walk
<1> DEFINE w == Walk(f)
<1> HIDE DEF w
<1>2. w = [n \in 0..MaxPage |-> Chain(f, n, w[n-1])]
  BY <1>1 DEF w
<1> QED
  BY <1>2, Zenon DEF w

LEMMA FromIs == ASSUME NEW p PROVE From(p) = Walk(node)[MaxPage][p]
  BY Zenon DEF From, Walk, Chain

LEMMA LeafByIs == ASSUME NEW via PROVE LeafBy(via) = Down(node, via)[MaxPage][root]
  BY Zenon DEF LeafBy, Down, Way

LEMMA FromIsNext == ASSUME NEW p PROVE From(p)' = Walk(node')[MaxPage][p]
  BY Zenon DEF From, Walk, Chain

LEMMA DownSolves ==
    ASSUME NEW f, NEW via PROVE \E d : d = [n \in 0..MaxPage |-> Way(f, via, n, d[n-1])]
<1> DEFINE Def(m, w) == w = [n \in 0..m |-> Way(f, via, n, w[n-1])]
           T == {m \in Nat : ~ \E w : Def(m, w)}
<1>1. ASSUME NEW before, NEW after PROVE Way(f, via, 0, before) = Way(f, via, 0, after)
  BY DEF Way
<1>2. T = {}
  <2> SUFFICES ASSUME T # {} PROVE FALSE
    OBVIOUS
  <2>1. T \in SUBSET Nat
    OBVIOUS
  <2> HIDE DEF T
  <2>2. PICK m \in T : \A k \in T : m <= k
    BY <2>1, LeastElement
  <2>3. m \in Nat /\ ~ \E w : Def(m, w)
    BY DEF T
  <2>4. CASE m = 0
    <3> DEFINE g == [n \in 0..0 |-> Way(f, via, 0, {})]
    <3>1. \A n \in 0..0 : n = 0 /\ g[n] = Way(f, via, 0, {})
      OBVIOUS
    <3>2. g = [n \in 0..0 |-> g[n]]
      OBVIOUS
    <3> HIDE DEF g
    <3>3. \A n \in 0..0 : g[n] = Way(f, via, n, g[n-1])
      BY <3>1, <1>1, Zenon
    <3>4. Def(0, g)
      BY <3>2, <3>3, Zenon
    <3> HIDE DEF Def
    <3> QED
      BY <2>3, <2>4, <3>4
  <2>5. CASE m # 0
    <3>1. m - 1 \in Nat /\ m - 1 \notin T
      <4>1. m - 1 \in Nat /\ ~(m <= m - 1)
        BY <2>3, <2>5
      <4> QED
        BY <2>2, <4>1
    <3>2. PICK w : Def(m - 1, w)
      BY <3>1 DEF T
    <3> DEFINE g == [n \in 0..m |-> IF n = m THEN Way(f, via, m, w[m - 1]) ELSE w[n]]
    <3>3. \A n \in 0..(m - 1) : w[n] = Way(f, via, n, w[n - 1])
      BY <3>2, Zenon
    <3>4. ASSUME NEW n \in 0..m PROVE g[n] = Way(f, via, n, g[n - 1])
      <4>1. /\ g[n] = IF n = m THEN Way(f, via, m, w[m - 1]) ELSE w[n]
            /\ n # 0 => g[n - 1] = w[n - 1]
        BY <2>3
      <4>2. n # m => n \in 0..(m - 1)
        BY <2>3
      <4>3. g[n] = Way(f, via, n, w[n - 1])
        BY <3>3, <4>1, <4>2
      <4> HIDE DEF g
      <4>4. CASE n = 0
        BY <1>1, <4>3, <4>4
      <4>5. CASE n # 0
        BY <4>1, <4>3, <4>5
      <4> QED
        BY <4>4, <4>5
    <3>5. g = [n \in 0..m |-> g[n]]
      OBVIOUS
    <3> HIDE DEF g
    <3>6. Def(m, g)
      BY <3>4, <3>5, Zenon
    <3> HIDE DEF Def
    <3> QED
      BY <2>3, <3>6
  <2> QED
    BY <2>4, <2>5
<1>3. MaxPage \in Nat
  OBVIOUS
<1>4. \E w : Def(MaxPage, w)
  BY <1>2, <1>3
<1> QED
  BY <1>4

LEMMA DownIs ==
    ASSUME NEW f, NEW via
    PROVE  \A n \in 0..MaxPage : Down(f, via)[n] = Way(f, via, n, Down(f, via)[n-1])
<1>0. \E d : d = [n \in 0..MaxPage |-> Way(f, via, n, d[n-1])]
  BY DownSolves
<1>1. Down(f, via) = [n \in 0..MaxPage |-> Way(f, via, n, Down(f, via)[n-1])]
  BY <1>0, Zenon DEF Down
<1> DEFINE w == Down(f, via)
<1> HIDE DEF w
<1>2. w = [n \in 0..MaxPage |-> Way(f, via, n, w[n-1])]
  BY <1>1 DEF w
<1> QED
  BY <1>2, Zenon DEF w

\* A way on which each page is a level below the one before it ends in a leaf,
\* and never leaves a set that each page's next is in when the page is.
LEMMA DownReaches ==
    ASSUME NEW f, NEW via, NEW h \in [DOMAIN f -> Nat], NEW S \in SUBSET DOMAIN f,
           \A p \in S : f[p].kind # "leaf" => /\ f[p].children[via[p]] \in S
                                              /\ h[f[p].children[via[p]]] + 1 = h[p],
           NEW r \in S, h[r] <= MaxPage
    PROVE  Down(f, via)[MaxPage][r] \in S /\ f[Down(f, via)[MaxPage][r]].kind = "leaf"
<1> DEFINE d == Down(f, via)
           Reaches(n) == \A p \in S : h[p] <= n => d[n][p] \in S /\ f[d[n][p]].kind = "leaf"
           T == {n \in 0..MaxPage : ~Reaches(n)}
<1>0. MaxPage \in Nat
  OBVIOUS
<1>1. \A n \in 0..MaxPage : d[n] = Way(f, via, n, d[n-1])
  BY DownIs
<1> HIDE DEF d
<1>2. \A n \in 0..MaxPage : \A p \in S :
         d[n][p] = IF f[p].kind = "leaf" \/ n = 0 THEN p ELSE d[n-1][f[p].children[via[p]]]
  <2> SUFFICES ASSUME NEW n \in 0..MaxPage, NEW p \in S
               PROVE  d[n][p] = IF f[p].kind = "leaf" \/ n = 0 THEN p ELSE d[n-1][f[p].children[via[p]]]
    OBVIOUS
  <2>1. d[n] = Way(f, via, n, d[n-1])
    BY <1>1
  <2>2. ASSUME NEW before
        PROVE  Way(f, via, n, before)[p] = IF f[p].kind = "leaf" \/ n = 0 THEN p ELSE before[f[p].children[via[p]]]
    BY DEF Way
  <2> QED
    BY <2>1, <2>2
<1>3. T = {}
  <2> SUFFICES ASSUME T # {} PROVE FALSE
    OBVIOUS
  <2>1. T \in SUBSET Nat
    OBVIOUS
  <2>2. PICK n \in T : \A m \in T : n <= m
    BY <2>1, LeastElement, Zenon
  <2>3. n \in 0..MaxPage /\ ~Reaches(n)
    OBVIOUS
  <2>4. PICK p \in S : h[p] <= n /\ ~(d[n][p] \in S /\ f[d[n][p]].kind = "leaf")
    BY <2>3
  <2>5. f[p].kind # "leaf"
    BY <1>2, <2>3, <2>4
  <2> DEFINE c == f[p].children[via[p]]
  <2>6. c \in S /\ h[c] + 1 = h[p] /\ h[c] \in Nat /\ h[p] \in Nat
    BY <2>5
  <2> HIDE DEF c
  <2>7. n # 0 /\ n - 1 \in 0..MaxPage /\ h[c] <= n - 1
    BY <2>3, <2>4, <2>6
  <2>8. Reaches(n - 1)
    <3>1. ~(n <= n - 1)
      BY <2>3
    <3> QED
      BY <2>2, <2>7, <3>1
  <2>9. d[n][p] = d[n-1][c]
    BY <1>2, <2>3, <2>5, <2>7 DEF c
  <2> QED
    BY <2>4, <2>6, <2>7, <2>8, <2>9
<1>4. Reaches(MaxPage)
  BY <1>0, <1>3
<1> QED
  BY <1>4 DEF d

LEMMA PagesFinite == IsFiniteSet(Pages) /\ Cardinality(Pages) = MaxPage
<1>1. 1 \in Int /\ MaxPage \in Int /\ ~(1 > MaxPage) /\ MaxPage - 1 + 1 = MaxPage
  OBVIOUS
<1> QED
  BY <1>1, FS_Interval DEF Pages

\* There is a page of each level.
LEMMA HeightBound ==
    ASSUME NEW f, Nodes(f), NEW h \in [DOMAIN f -> Nat], NEW T, NEW top,
           Forest(KidsIn(f), h, T, top), Levels(f, h), \A p \in DOMAIN f : Fits(f[p])
    PROVE  h[top] <= MaxPage
<1> DEFINE N == h[top]
           At(m) == \E p \in DOMAIN f : h[p] + m = N
           Z == {m \in 0..N : ~At(m)}
<1>0. top \in DOMAIN f /\ N \in Nat
  BY KidsInIs DEF Forest
<1>1. Z = {}
  <2> SUFFICES ASSUME Z # {} PROVE FALSE
    OBVIOUS
  <2>1. Z \in SUBSET Nat
    BY <1>0
  <2>2. PICK m \in Z : \A k \in Z : m <= k
    BY <2>1, LeastElement, Zenon
  <2>3. m \in 0..N /\ ~At(m)
    OBVIOUS
  <2>4. m # 0
    <3>1. h[top] + 0 = N
      BY <1>0
    <3> QED
      BY <1>0, <2>3, <3>1
  <2>5. m - 1 \in 0..N /\ ~(m <= m - 1)
    BY <1>0, <2>3, <2>4
  <2>6. PICK p \in DOMAIN f : h[p] + (m - 1) = N
    BY <2>2, <2>5
  <2>7. h[p] \in Nat /\ h[p] # 0
    <3> HIDE DEF N
    <3> QED
      BY <1>0, <2>3, <2>6
  <2>8. f[p].kind = "internal" /\ f[p] \in Internal
    BY <2>7, NodesAre DEF Levels
  <2>9. 1 \in DOMAIN f[p].children
    <3>1. f[p].children \in Seq(Pages) /\ f[p].keys \in Seq(Keys) /\ Len(f[p].children) = Len(f[p].keys) + 1
      BY <2>8, InternalIs
    <3> QED
      BY <3>1, SeqIs
  <2> DEFINE c == f[p].children[1]
  <2>10. c \in DOMAIN f \ T /\ h[c] + 1 = h[p]
    BY <2>8, <2>9, ChildIs
  <2> HIDE DEF c
  <2>11. h[c] + m = N
    <3>1. h[c] \in Nat
      BY <2>10
    <3> HIDE DEF N
    <3> QED
      BY <1>0, <2>3, <2>6, <2>7, <2>10, <3>1
  <2> QED
    BY <2>3, <2>10, <2>11
<1> DEFINE g == [m \in 0..N |-> CHOOSE p \in DOMAIN f : h[p] + m = N]
<1>2. \A m \in 0..N : g[m] \in DOMAIN f /\ h[g[m]] + m = N
  BY <1>1
<1> HIDE DEF N
<1>3. \A m, n \in 0..N : g[m] = g[n] => m = n
  <2> SUFFICES ASSUME NEW m \in 0..N, NEW n \in 0..N, g[m] = g[n] PROVE m = n
    OBVIOUS
  <2>1. h[g[m]] \in Nat /\ h[g[m]] + m = N /\ h[g[m]] + n = N
    BY <1>2
  <2> HIDE DEF g
  <2> QED
    BY <1>0, <2>1
<1>4. g \in [0..N -> Pages]
  <2>1. \A m \in 0..N : g[m] \in Pages
    BY <1>2, NodesAre
  <2> QED
    BY <2>1
<1>5. g \in Injection(0..N, Pages)
  BY <1>3, <1>4 DEF Injection, IsInjective
<1>6. Cardinality(0..N) <= Cardinality(Pages)
  BY <1>5, PagesFinite, FS_Injection
<1>7. Cardinality(0..N) = N - 0 + 1
  <2>1. 0 \in Int /\ N \in Int /\ ~(0 > N)
    BY <1>0
  <2> QED
    BY <2>1, FS_Interval
<1> QED
  BY <1>0, <1>6, <1>7, PagesFinite DEF N
-----------------------------------------------------------------------------
(* Entries in the order of their keys.                                     *)

LEMMA EntryKeys ==
    ASSUME NEW es \in Seq(Entry)
    PROVE  /\ DOMAIN es = 1..Len(es) /\ Len(es) \in Nat
           /\ \A i \in 1..Len(es) : /\ es[i] \in Entry /\ es[i].key \in Nat
                                    /\ 1 <= es[i].key /\ es[i].key <= MaxKey
           /\ \A e \in ToSet(es) : \E i \in 1..Len(es) : e = es[i]
           /\ \A i \in 1..Len(es) : es[i] \in ToSet(es)
<1>1. DOMAIN es = 1..Len(es) /\ Len(es) \in Nat /\ \A i \in 1..Len(es) : es[i] \in Entry
  BY SeqIs
<1>2. \A e \in Entry : e.key \in Nat /\ 1 <= e.key /\ e.key <= MaxKey
  BY Minima DEF Entry
<1>3. ToSet(es) = {es[i] : i \in 1..Len(es)}
  BY ToSetIs
<1> QED
  BY <1>1, <1>2, <1>3

LEMMA SamePrefix ==
    ASSUME NEW s \in Seq(Entry), NEW t \in Seq(Entry), Ascending(s), Ascending(t), ToSet(s) = ToSet(t)
    PROVE  \A i \in 1..Len(s) : i \in 1..Len(t) /\ s[i] = t[i]
<1> DEFINE T == {i \in 1..Len(s) : ~(i \in 1..Len(t) /\ s[i] = t[i])}
<1>1. /\ DOMAIN s = 1..Len(s) /\ Len(s) \in Nat /\ \A i \in 1..Len(s) : s[i].key \in Nat
      /\ DOMAIN t = 1..Len(t) /\ Len(t) \in Nat /\ \A i \in 1..Len(t) : t[i].key \in Nat
  BY EntryKeys
<1>2. T = {}
  <2> SUFFICES ASSUME T # {} PROVE FALSE
    OBVIOUS
  <2>1. T \in SUBSET Nat
    OBVIOUS
  <2>2. PICK i \in T : \A j \in T : i <= j
    BY <2>1, LeastElement, Zenon
  <2>3. i \in 1..Len(s) /\ ~(i \in 1..Len(t) /\ s[i] = t[i])
    OBVIOUS
  <2>4. \A j \in 1..Len(s) : j < i => j \in 1..Len(t) /\ s[j] = t[j]
    <3> SUFFICES ASSUME NEW j \in 1..Len(s), j < i PROVE j \in 1..Len(t) /\ s[j] = t[j]
      OBVIOUS
    <3>1. ~(i <= j)
      BY <1>1, <2>3
    <3> QED
      BY <2>2, <3>1
  <2> HIDE DEF T
  <2>5. PICK m \in 1..Len(t) : t[m] = s[i]
    BY <2>3, EntryKeys
  <2>6. ~(m < i)
    <3> SUFFICES ASSUME m < i PROVE FALSE
      OBVIOUS
    <3>1. m \in 1..Len(s)
      BY <1>1, <2>3
    <3>2. s[m] = s[i] /\ s[m].key < s[i].key
      BY <1>1, <2>3, <2>4, <2>5, <3>1 DEF Ascending
    <3> QED
      BY <1>1, <2>3, <3>2
  <2>7. i \in 1..Len(t) /\ s[i] # t[i] /\ i < m
    <3>1. i \in 1..Len(t)
      BY <1>1, <2>3, <2>6
    <3> QED
      BY <1>1, <2>3, <2>5, <2>6, <3>1
  <2>8. t[i].key < s[i].key
    BY <1>1, <2>5, <2>7 DEF Ascending
  <2>9. PICK n \in 1..Len(s) : s[n] = t[i]
    BY <2>7, EntryKeys
  <2>10. ~(n < i)
    <3> SUFFICES ASSUME n < i PROVE FALSE
      OBVIOUS
    <3>1. n \in 1..Len(t) /\ t[n] = t[i]
      BY <2>4, <2>9
    <3>2. t[n].key < t[i].key
      BY <1>1, <2>7, <3>1 DEF Ascending
    <3> QED
      BY <1>1, <2>7, <3>1, <3>2
  <2>11. i < n
    BY <1>1, <2>3, <2>7, <2>9, <2>10
  <2>12. s[i].key < t[i].key
    BY <1>1, <2>3, <2>9, <2>11 DEF Ascending
  <2> QED
    BY <1>1, <2>3, <2>7, <2>8, <2>12
<1> QED
  BY <1>2

\* One list has the entries of a set in the order of their keys.
LEMMA SameList ==
    ASSUME NEW s \in Seq(Entry), NEW t \in Seq(Entry), Ascending(s), Ascending(t), ToSet(s) = ToSet(t)
    PROVE  s = t
<1>1. \A i \in 1..Len(s) : i \in 1..Len(t) /\ s[i] = t[i]
  BY SamePrefix
<1>2. \A i \in 1..Len(t) : i \in 1..Len(s)
  BY SamePrefix
<1>3. Len(s) \in Nat /\ Len(t) \in Nat
  BY EntryKeys
<1>4. Len(s) = Len(t)
  <2>1. Len(s) <= Len(t)
    <3>1. Len(s) = 0 \/ Len(s) \in 1..Len(s)
      BY <1>3
    <3> QED
      BY <1>1, <1>3, <3>1
  <2>2. Len(t) <= Len(s)
    <3>1. Len(t) = 0 \/ Len(t) \in 1..Len(t)
      BY <1>3
    <3> QED
      BY <1>2, <1>3, <3>1
  <2> QED
    BY <1>3, <2>1, <2>2
<1> QED
  BY <1>1, <1>4, SeqEqual

\* Entries followed by entries of higher keys.
LEMMA AscendingJoined ==
    ASSUME NEW s \in Seq(Entry), NEW t \in Seq(Entry), Ascending(s), Ascending(t),
           \A d \in ToSet(s), e \in ToSet(t) : d.key < e.key
    PROVE  s \o t \in Seq(Entry) /\ Ascending(s \o t) /\ ToSet(s \o t) = ToSet(s) \cup ToSet(t)
<1> DEFINE u == s \o t
<1>1. /\ DOMAIN s = 1..Len(s) /\ Len(s) \in Nat
      /\ DOMAIN t = 1..Len(t) /\ Len(t) \in Nat
  BY EntryKeys
<1>2. /\ u \in Seq(Entry) /\ Len(u) = Len(s) + Len(t)
      /\ \A j \in 1..Len(s)+Len(t) : u[j] = IF j <= Len(s) THEN s[j] ELSE t[j-Len(s)]
  BY ConcatIs
<1> HIDE DEF u
<1>3. ASSUME NEW i \in 1..Len(s)+Len(t), NEW j \in 1..Len(s)+Len(t), i < j
      PROVE  u[i].key < u[j].key
  <2>1. CASE j <= Len(s)
    <3>1. i \in 1..Len(s) /\ j \in 1..Len(s) /\ u[i] = s[i] /\ u[j] = s[j]
      BY <1>1, <1>2, <1>3, <2>1
    <3> QED
      BY <1>1, <1>3, <3>1 DEF Ascending
  <2>2. CASE Len(s) < i
    <3>1. /\ i - Len(s) \in 1..Len(t) /\ j - Len(s) \in 1..Len(t) /\ i - Len(s) < j - Len(s)
          /\ u[i] = t[i-Len(s)] /\ u[j] = t[j-Len(s)]
      BY <1>1, <1>2, <1>3, <2>2
    <3> QED
      BY <1>1, <3>1 DEF Ascending
  <2>3. CASE i <= Len(s) /\ Len(s) < j
    <3>1. i \in 1..Len(s) /\ j - Len(s) \in 1..Len(t) /\ u[i] = s[i] /\ u[j] = t[j-Len(s)]
      BY <1>1, <1>2, <1>3, <2>3
    <3>2. s[i] \in ToSet(s) /\ t[j-Len(s)] \in ToSet(t)
      BY <3>1, EntryKeys
    <3> QED
      BY <3>1, <3>2
  <2> QED
    BY <1>1, <2>1, <2>2, <2>3
<1>4. Ascending(u)
  <2>1. DOMAIN u = 1..Len(s)+Len(t)
    BY <1>2, EntryKeys
  <2> QED
    BY <1>3, <2>1 DEF Ascending
<1>5. ToSet(u) = ToSet(s) \cup ToSet(t)
  <2>1. ASSUME NEW e \in ToSet(u) PROVE e \in ToSet(s) \cup ToSet(t)
    <3>1. PICK j \in 1..Len(s)+Len(t) : e = u[j]
      BY <1>2, EntryKeys
    <3>2. CASE j <= Len(s)
      <4>1. j \in 1..Len(s) /\ e = s[j]
        BY <1>1, <1>2, <3>1, <3>2
      <4> QED
        BY <4>1, EntryKeys
    <3>3. CASE ~(j <= Len(s))
      <4>1. j - Len(s) \in 1..Len(t) /\ e = t[j-Len(s)]
        BY <1>1, <1>2, <3>1, <3>3
      <4> QED
        BY <4>1, EntryKeys
    <3> QED
      BY <3>2, <3>3
  <2>2. ASSUME NEW e \in ToSet(s) PROVE e \in ToSet(u)
    <3>1. PICK j \in 1..Len(s) : e = s[j]
      BY EntryKeys
    <3>2. j \in 1..Len(s)+Len(t) /\ u[j] = e
      BY <1>1, <1>2, <3>1
    <3> QED
      BY <1>2, <3>2, EntryKeys
  <2>3. ASSUME NEW e \in ToSet(t) PROVE e \in ToSet(u)
    <3>1. PICK j \in 1..Len(t) : e = t[j]
      BY EntryKeys
    <3>2. j + Len(s) \in 1..Len(s)+Len(t) /\ u[j + Len(s)] = e
      <4>1. j + Len(s) \in 1..Len(s)+Len(t) /\ ~(j + Len(s) <= Len(s)) /\ j + Len(s) - Len(s) = j
        BY <1>1
      <4> QED
        BY <1>2, <3>1, <4>1
    <3> QED
      BY <1>2, <3>2, EntryKeys
  <2> QED
    BY <2>1, <2>2, <2>3
<1> QED
  BY <1>2, <1>4, <1>5 DEF u

\* What the leaves of keys from k on hold.
HeldFrom(f, lo, k) == UNION {ToSet(f[q].entries) : q \in {p \in LeavesOf(f) : lo[p] >= k}}

Held(f) == UNION {ToSet(f[q].entries) : q \in LeavesOf(f)}

LEMMA LeafOf ==
    ASSUME NEW f, Nodes(f), NEW p \in LeavesOf(f)
    PROVE  /\ p \in DOMAIN f /\ p \in Pages /\ f[p] \in Leaf /\ f[p].entries \in Seq(Entry)
           /\ f[p].next \in Pages \cup {NoPage}
<1>1. p \in DOMAIN f /\ f[p].kind = "leaf"
  BY DEF LeavesOf
<1>2. f[p] \in Leaf /\ p \in Pages
  BY <1>1, NodesAre
<1> QED
  BY <1>1, <1>2, LeafIs

\* The chain from a leaf on is the entries from its first key on, in their order.
LEMMA WalkedFrom ==
    ASSUME NEW f, Nodes(f), NEW lo, NEW hi, Leaves(f, lo, hi), NEW p \in LeavesOf(f)
    PROVE  LET w == Walk(f)[MaxPage][p]
           IN  w \in Seq(Entry) /\ Ascending(w) /\ ToSet(w) = HeldFrom(f, lo, lo[p])
<1> DEFINE L         == LeavesOf(f)
           Later(k)  == {q \in L : lo[q] >= k}
           W         == Walk(f)
           Walked(n) == \A q \in L : Cardinality(Later(lo[q])) <= n =>
                           /\ W[n][q] \in Seq(Entry) /\ Ascending(W[n][q])
                           /\ ToSet(W[n][q]) = HeldFrom(f, lo, lo[q])
           T         == {n \in 0..MaxPage : ~Walked(n)}
<1>0. MaxPage \in Nat /\ MaxKey \in Nat
  OBVIOUS
<1>1. \A q \in L : lo[q] \in Nat /\ hi[q] \in Nat /\ lo[q] < hi[q] /\ hi[q] <= MaxKey + 1
  BY DEF Leaves, Spanned
<1>2. L \subseteq DOMAIN f /\ L \subseteq Pages
  BY LeafOf DEF LeavesOf
<1>3. \A n \in 0..MaxPage : W[n] = Chain(f, n, W[n-1])
  BY WalkIs
<1> HIDE DEF W
<1>4. ASSUME NEW n \in 0..MaxPage, NEW q \in Pages \cup {NoPage}
      PROVE  W[n][q] = IF q \notin DOMAIN f \/ n = 0 THEN <<>> ELSE f[q].entries \o W[n-1][f[q].next]
  <2>1. W[n] = Chain(f, n, W[n-1])
    BY <1>3
  <2>2. ASSUME NEW before
        PROVE  Chain(f, n, before)[q] = IF q \notin DOMAIN f \/ n = 0 THEN <<>> ELSE f[q].entries \o before[f[q].next]
    BY DEF Chain
  <2> QED
    BY <2>1, <2>2
<1>5. \A k : Later(k) \in SUBSET Pages /\ IsFiniteSet(Later(k)) /\ Cardinality(Later(k)) \in Nat
             /\ Cardinality(Later(k)) <= MaxPage
  <2> SUFFICES ASSUME NEW k
               PROVE  /\ Later(k) \in SUBSET Pages /\ IsFiniteSet(Later(k)) /\ Cardinality(Later(k)) \in Nat
                      /\ Cardinality(Later(k)) <= MaxPage
    OBVIOUS
  <2>1. Later(k) \in SUBSET Pages
    BY <1>2
  <2> QED
    BY <2>1, PagesFinite, FS_Subset, FS_CardinalityType
<1>6. ASSUME NEW q \in L
      PROVE  /\ f[q].next = NoPage => Later(lo[q]) = {q}
             /\ f[q].next # NoPage => /\ f[q].next \in L /\ lo[f[q].next] = hi[q]
                                      /\ Later(lo[q]) = {q} \cup Later(lo[f[q].next])
                                      /\ q \notin Later(lo[f[q].next])
  <2>1. /\ f[q].next = NoPage => hi[q] = MaxKey + 1
        /\ f[q].next # NoPage => f[q].next \in L /\ lo[f[q].next] = hi[q]
    BY DEF Leaves, Chained
  <2>2. \A r \in L : r # q => hi[q] <= lo[r] \/ hi[r] <= lo[q]
    BY DEF Leaves, OwnKeys
  <2>3. \A r \in L : r \in Later(lo[q]) <=> (r = q \/ hi[q] <= lo[r])
    BY <1>1, <1>2, <2>2
  <2>4. ~(hi[q] <= lo[q])
    BY <1>1, <1>2
  <2>5. hi[q] = MaxKey + 1 => \A r \in L : ~(hi[q] <= lo[r])
    BY <1>0, <1>1, <1>2
  <2> QED
    BY <2>1, <2>3, <2>4, <2>5
<1>7. \A q \in L : Cardinality(Later(lo[q])) >= 1
  <2> SUFFICES ASSUME NEW q \in L PROVE Cardinality(Later(lo[q])) >= 1
    OBVIOUS
  <2>1. q \in Later(lo[q])
    BY <1>1, <1>2
  <2>2. Cardinality(Later(lo[q])) # 0
    BY <1>5, <2>1, FS_EmptySet
  <2>3. Cardinality(Later(lo[q])) \in Nat
    BY <1>5
  <2> HIDE DEF Later
  <2> QED
    BY <2>2, <2>3
<1>8. \A k : HeldFrom(f, lo, k) = UNION {ToSet(f[q].entries) : q \in Later(k)}
  BY DEF HeldFrom
<1>9. T = {}
  <2> SUFFICES ASSUME T # {} PROVE FALSE
    OBVIOUS
  <2>1. T \in SUBSET Nat
    OBVIOUS
  <2>2. PICK n \in T : \A m \in T : n <= m
    BY <2>1, LeastElement, Zenon
  <2>3. n \in 0..MaxPage /\ ~Walked(n)
    OBVIOUS
  <2>4. PICK q \in L : /\ Cardinality(Later(lo[q])) <= n
                       /\ ~(/\ W[n][q] \in Seq(Entry) /\ Ascending(W[n][q])
                            /\ ToSet(W[n][q]) = HeldFrom(f, lo, lo[q]))
    BY <2>3
  <2>5. n # 0 /\ n - 1 \in 0..MaxPage /\ ~(n <= n - 1)
    <3>1. PICK c \in Nat : c = Cardinality(Later(lo[q])) /\ c >= 1 /\ c <= n
      BY <1>5, <1>7, <2>4
    <3> QED
      BY <2>3, <3>1
  <2>6. Walked(n - 1)
    BY <2>2, <2>5
  <2> HIDE DEF T, Walked
  <2> DEFINE es == f[q].entries
             r  == f[q].next
  <2>7. q \in DOMAIN f /\ q \in Pages /\ es \in Seq(Entry) /\ r \in Pages \cup {NoPage}
    BY LeafOf
  <2>8. Ascending(es) /\ Within(es, lo[q], hi[q])
    BY DEF Leaves, Chained
  <2>9. W[n][q] = es \o W[n-1][r]
    BY <1>4, <2>3, <2>5, <2>7
  <2>10. CASE r = NoPage
    <3>1. W[n-1][r] = <<>>
      <4>1. NoPage \notin DOMAIN f
        BY NoPageIs DEF Nodes
      <4> QED
        BY <1>4, <2>5, <2>10, <4>1
    <3>2. W[n][q] = es
      BY <2>7, <2>9, <3>1
    <3>3. HeldFrom(f, lo, lo[q]) = ToSet(es)
      <4>1. Later(lo[q]) = {q}
        BY <1>6, <2>10
      <4> HIDE DEF Later
      <4>2. HeldFrom(f, lo, lo[q]) = UNION {ToSet(f[s].entries) : s \in {q}}
        BY <1>8, <4>1
      <4> QED
        BY <4>2
    <3> QED
      BY <2>4, <2>7, <2>8, <3>2, <3>3
  <2>11. CASE r # NoPage
    <3>1. /\ r \in L /\ lo[r] = hi[q] /\ Later(lo[q]) = {q} \cup Later(lo[r]) /\ q \notin Later(lo[r])
      BY <1>6, <2>11
    <3>2. Cardinality(Later(lo[r])) <= n - 1
      <4>1. Cardinality(Later(lo[q])) = Cardinality(Later(lo[r])) + 1
        <5>1. Later(lo[r]) \cup {q} = Later(lo[q]) /\ IsFiniteSet(Later(lo[r]))
          BY <1>5, <3>1
        <5> HIDE DEF Later
        <5> QED
          BY <3>1, <5>1, FS_AddElement
      <4>2. PICK c \in Nat, k \in Nat : c = Cardinality(Later(lo[q])) /\ k = Cardinality(Later(lo[r]))
        BY <1>5
      <4>3. c = k + 1 /\ c <= n
        BY <2>4, <4>1, <4>2
      <4>4. k <= n - 1
        BY <2>3, <4>3
      <4> QED
        BY <4>2, <4>4
    <3> DEFINE rest == W[n-1][r]
    <3>3. rest \in Seq(Entry) /\ Ascending(rest) /\ ToSet(rest) = HeldFrom(f, lo, lo[r])
      BY <2>6, <3>1, <3>2 DEF Walked
    <3> HIDE DEF rest
    <3>4. ASSUME NEW d \in ToSet(es), NEW e \in ToSet(rest) PROVE d.key < e.key
      <4>1. PICK i \in 1..Len(es) : d = es[i]
        BY <2>7, EntryKeys
      <4>2. d.key \in Nat /\ d.key < hi[q]
        BY <2>7, <2>8, <4>1, EntryKeys DEF Within
      <4>3. PICK s \in L : lo[s] >= lo[r] /\ e \in ToSet(f[s].entries)
        BY <3>3, <1>8
      <4>4. f[s].entries \in Seq(Entry) /\ Within(f[s].entries, lo[s], hi[s])
        BY LeafOf DEF Leaves, Chained
      <4>5. PICK j \in 1..Len(f[s].entries) : e = f[s].entries[j]
        BY <4>3, <4>4, EntryKeys
      <4>6. e.key \in Nat /\ lo[s] <= e.key
        BY <4>4, <4>5, EntryKeys DEF Within
      <4> QED
        BY <1>1, <1>2, <3>1, <4>2, <4>3, <4>6
    <3>5. /\ es \o rest \in Seq(Entry) /\ Ascending(es \o rest)
          /\ ToSet(es \o rest) = ToSet(es) \cup ToSet(rest)
      BY <2>7, <2>8, <3>3, <3>4, AscendingJoined
    <3>6. HeldFrom(f, lo, lo[q]) = ToSet(es) \cup HeldFrom(f, lo, lo[r])
      <4> HIDE DEF Later
      <4> QED
        BY <1>8, <3>1
    <3> QED
      BY <2>4, <2>9, <3>3, <3>5, <3>6 DEF rest
  <2> QED
    BY <2>10, <2>11
<1>10. Walked(MaxPage)
  BY <1>0, <1>9
<1>11. Cardinality(Later(lo[p])) <= MaxPage
  BY <1>5
<1> QED
  BY <1>10, <1>11 DEF W
-----------------------------------------------------------------------------
(* The keys of a node, as the operations of its arrays leave them.         *)

\* Every span of children that is not empty: the bounds are in ascending order.
LEMMA BoundsAscend ==
    ASSUME NEW ks \in Seq(Nat), NEW cs, NEW l \in Nat, NEW h \in Nat, NEW lo, NEW hi,
           Divides(ks, cs, l, h, lo, hi), \A i \in 1..Len(ks)+1 : lo[cs[i]] < hi[cs[i]]
    PROVE  /\ \A i \in 0..Len(ks)+1 : Bound(ks, l, h, i) \in Nat
           /\ \A i, j \in 0..Len(ks)+1 : i < j => Bound(ks, l, h, i) < Bound(ks, l, h, j)
<1> DEFINE B(i) == Bound(ks, l, h, i)
<1>1. Len(ks) \in Nat /\ \A i \in 1..Len(ks) : ks[i] \in Nat
  BY SeqIs
<1>2. \A i \in 0..Len(ks)+1 : B(i) \in Nat
  BY <1>1 DEF Bound
<1>3. \A i \in 1..Len(ks)+1 : B(i - 1) < B(i)
  BY DEF Divides
<1> HIDE DEF B
<1>4. ASSUME NEW i \in 0..Len(ks)+1, NEW j \in 0..Len(ks)+1, i < j PROVE B(i) < B(j)
  <2> DEFINE T == {k \in 0..Len(ks)+1 : i < k /\ ~(B(i) < B(k))}
  <2>1. T = {}
    <3> SUFFICES ASSUME T # {} PROVE FALSE
      OBVIOUS
    <3>1. T \in SUBSET Nat
      BY <1>1
    <3>2. PICK k \in T : \A m \in T : k <= m
      BY <3>1, LeastElement, Zenon
    <3>3. k \in 0..Len(ks)+1 /\ i < k /\ ~(B(i) < B(k))
      OBVIOUS
    <3>4. k \in 1..Len(ks)+1 /\ k - 1 \in 0..Len(ks)+1 /\ ~(k <= k - 1)
      BY <1>1, <3>3
    <3>5. k - 1 \notin T
      BY <3>2, <3>4
    <3>6. B(i) < B(k - 1) \/ i = k - 1
      BY <1>1, <3>3, <3>4, <3>5
    <3>7. B(k - 1) < B(k)
      BY <1>3, <3>4
    <3>8. B(i) \in Nat /\ B(k) \in Nat /\ B(k - 1) \in Nat
      BY <1>2, <3>3, <3>4
    <3>9. PICK a \in Nat, b \in Nat, c \in Nat : a = B(i) /\ b = B(k - 1) /\ c = B(k)
      BY <3>8
    <3>10. ~(a < c) /\ b < c /\ (a < b \/ a = b)
      BY <3>3, <3>6, <3>7, <3>9
    <3> QED
      BY <3>10
  <2> QED
    BY <1>4, <2>1
<1> QED
  BY <1>2, <1>4 DEF B

\* The child a search goes on with is the one its key belongs to.
LEMMA ChildFor ==
    ASSUME NEW ks \in Seq(Keys), NEW cs, NEW l \in Nat, NEW h \in Nat, NEW lo, NEW hi,
           Divides(ks, cs, l, h, lo, hi), NEW k \in Nat, l <= k, k < h
    PROVE  /\ UpperBound(ks, k) \in 1..Len(ks)+1
           /\ lo[cs[UpperBound(ks, k)]] <= k /\ k < hi[cs[UpperBound(ks, k)]]
<1>1. ks \in Seq(Nat)
  BY NaturalKeys
<1> DEFINE u == UpperBound(ks, k)
<1>2. /\ u \in 1..Len(ks)+1
      /\ u > 1 => ks[u - 1] <= k
      /\ u <= Len(ks) => ks[u] > k
  BY <1>1, BoundsIn
<1> HIDE DEF u
<1>3. Len(ks) \in Nat /\ \A i \in 1..Len(ks) : ks[i] \in Nat
  BY <1>1, SeqIs
<1>4. Bound(ks, l, h, u - 1) <= k /\ k < Bound(ks, l, h, u)
  BY <1>2, <1>3 DEF Bound
<1>5. lo[cs[u]] = Bound(ks, l, h, u - 1) /\ hi[cs[u]] = Bound(ks, l, h, u)
  BY <1>2 DEF Divides
<1> QED
  BY <1>2, <1>4, <1>5 DEF u

\* A key belongs to one child.
LEMMA OneChild ==
    ASSUME NEW ks \in Seq(Keys), NEW cs, NEW l \in Nat, NEW h \in Nat, NEW lo, NEW hi,
           Divides(ks, cs, l, h, lo, hi), \A i \in 1..Len(ks)+1 : lo[cs[i]] < hi[cs[i]],
           NEW k \in Nat,
           NEW i \in 1..Len(ks)+1, lo[cs[i]] <= k, k < hi[cs[i]],
           NEW j \in 1..Len(ks)+1, lo[cs[j]] <= k, k < hi[cs[j]]
    PROVE  i = j
<1>1. ks \in Seq(Nat)
  BY NaturalKeys
<1>2. Len(ks) \in Nat
  BY SeqIs
<1>3. /\ \A m \in 0..Len(ks)+1 : Bound(ks, l, h, m) \in Nat
      /\ \A m, n \in 0..Len(ks)+1 : m < n => Bound(ks, l, h, m) < Bound(ks, l, h, n)
  BY <1>1, BoundsAscend
<1>4. /\ i \in 0..Len(ks)+1 /\ i - 1 \in 0..Len(ks)+1
      /\ j \in 0..Len(ks)+1 /\ j - 1 \in 0..Len(ks)+1
  BY <1>2
<1>5. /\ lo[cs[i]] = Bound(ks, l, h, i - 1) /\ hi[cs[i]] = Bound(ks, l, h, i)
      /\ lo[cs[j]] = Bound(ks, l, h, j - 1) /\ hi[cs[j]] = Bound(ks, l, h, j)
  BY DEF Divides
<1>6. CASE i < j
  <2>1. i <= j - 1 /\ (i = j - 1 \/ i < j - 1)
    BY <1>2, <1>6
  <2>2. Bound(ks, l, h, i) <= Bound(ks, l, h, j - 1)
    <3>1. CASE i = j - 1
      <4>1. Bound(ks, l, h, i) \in Nat /\ Bound(ks, l, h, i) = Bound(ks, l, h, j - 1)
        BY <1>3, <1>4, <3>1
      <4> QED
        BY <4>1
    <3>2. CASE i < j - 1
      <4>1. /\ Bound(ks, l, h, i) \in Nat /\ Bound(ks, l, h, j - 1) \in Nat
            /\ Bound(ks, l, h, i) < Bound(ks, l, h, j - 1)
        BY <1>3, <1>4, <3>2
      <4> QED
        BY <4>1
    <3> QED
      BY <2>1, <3>1, <3>2
  <2> QED
    BY <1>3, <1>4, <1>5, <2>2
<1>7. CASE j < i
  <2>1. j <= i - 1 /\ (j = i - 1 \/ j < i - 1)
    BY <1>2, <1>7
  <2>2. Bound(ks, l, h, j) <= Bound(ks, l, h, i - 1)
    <3>1. CASE j = i - 1
      <4>1. Bound(ks, l, h, j) \in Nat /\ Bound(ks, l, h, j) = Bound(ks, l, h, i - 1)
        BY <1>3, <1>4, <3>1
      <4> QED
        BY <4>1
    <3>2. CASE j < i - 1
      <4>1. /\ Bound(ks, l, h, j) \in Nat /\ Bound(ks, l, h, i - 1) \in Nat
            /\ Bound(ks, l, h, j) < Bound(ks, l, h, i - 1)
        BY <1>3, <1>4, <3>2
      <4> QED
        BY <4>1
    <3> QED
      BY <2>1, <3>1, <3>2
  <2> QED
    BY <1>3, <1>4, <1>5, <2>2
<1> QED
  BY <1>2, <1>6, <1>7

\* Nothing changes for the children of a node.
LEMMA DividesKept ==
    ASSUME NEW ks, Len(ks) \in Nat, NEW cs, NEW l, NEW h, NEW lo, NEW hi, Divides(ks, cs, l, h, lo, hi),
           NEW lo2, NEW hi2,
           \A i \in 1..Len(ks)+1 : lo2[cs[i]] = lo[cs[i]] /\ hi2[cs[i]] = hi[cs[i]]
    PROVE  Divides(ks, cs, l, h, lo2, hi2)
  BY DEF Divides

LEMMA KidInserted ==
    ASSUME NEW cs \in Seq(Pages), NEW c \in 1..Len(cs)+1, NEW r \in Pages
    PROVE  \A j \in 1..Len(cs)+1 :
              InsertAt(cs, c, r)[j] = IF j < c THEN cs[j] ELSE IF j = c THEN r ELSE cs[j-1]
<1>1. /\ InsertAt(cs, c, r) \in Seq(Pages)
      /\ Len(InsertAt(cs, c, r)) = Len(cs) + 1
      /\ \A j \in 1..Len(cs)+1 :
            InsertAt(cs, c, r)[j] = IF j < c THEN cs[j] ELSE IF j = c THEN r ELSE cs[j-1]
  BY InsertAtIs
<1> QED
  BY <1>1

\* insert_child_at, of a page that child ci has split off at key k.
Takes(ks, cs, l, h, lo, hi, ci, k, r, lo2, hi2) ==
    /\ ks \in Seq(Keys) /\ cs \in Seq(Pages) /\ Len(cs) = Len(ks) + 1 /\ NoRepeat(cs)
    /\ Divides(ks, cs, l, h, lo, hi) /\ ci \in 1..Len(ks)+1 /\ k \in Keys /\ r \in Pages
    /\ \A i \in 1..Len(ks)+1 : lo2[cs[i]] = lo[cs[i]] /\ (i # ci => hi2[cs[i]] = hi[cs[i]])
    /\ hi2[cs[ci]] = k /\ lo2[r] = k /\ hi2[r] = hi[cs[ci]]

LEMMA DividesWith ==
    ASSUME NEW ks, NEW cs, NEW l, NEW h, NEW lo, NEW hi, NEW ci, NEW k, NEW r, NEW lo2, NEW hi2,
           Takes(ks, cs, l, h, lo, hi, ci, k, r, lo2, hi2)
    PROVE  Divides(InsertAt(ks, ci, k), InsertAt(cs, ci + 1, r), l, h, lo2, hi2)
<1>a. /\ ks \in Seq(Keys) /\ cs \in Seq(Pages) /\ Len(cs) = Len(ks) + 1 /\ NoRepeat(cs)
      /\ Divides(ks, cs, l, h, lo, hi) /\ ci \in 1..Len(ks)+1 /\ k \in Keys /\ r \in Pages
      /\ \A i \in 1..Len(ks)+1 : lo2[cs[i]] = lo[cs[i]] /\ (i # ci => hi2[cs[i]] = hi[cs[i]])
      /\ hi2[cs[ci]] = k /\ lo2[r] = k /\ hi2[r] = hi[cs[ci]]
  BY DEF Takes
<1> USE <1>a
<1> DEFINE js == InsertAt(ks, ci, k)
           ds == InsertAt(cs, ci + 1, r)
           n  == Len(ks)
<1>1. n \in Nat /\ ci + 1 \in 1..Len(cs)+1
  BY SeqIs
<1>2. Len(js) = n + 1 /\ \A j \in 1..n+1 : js[j] = IF j < ci THEN ks[j] ELSE IF j = ci THEN k ELSE ks[j-1]
  BY InsertAtIs
<1>3. \A j \in 1..n+2 : ds[j] = IF j < ci + 1 THEN cs[j] ELSE IF j = ci + 1 THEN r ELSE cs[j-1]
  <2>1. PICK c \in 1..Len(cs)+1 : c = ci + 1
    BY <1>1
  <2>2. \A j \in 1..Len(cs)+1 : InsertAt(cs, c, r)[j] = IF j < c THEN cs[j] ELSE IF j = c THEN r ELSE cs[j-1]
    BY KidInserted
  <2>3. 1..n+2 = 1..Len(cs)+1
    BY <1>1
  <2> QED
    BY <2>1, <2>2, <2>3
<1> HIDE DEF js, ds
<1>4. \A j \in 0..n+2 : Bound(js, l, h, j) = IF j < ci THEN Bound(ks, l, h, j)
                                             ELSE IF j = ci THEN k ELSE Bound(ks, l, h, j - 1)
  BY <1>1, <1>2 DEF Bound
<1>5. \A i \in 1..n+1 : lo[cs[i]] = Bound(ks, l, h, i - 1) /\ hi[cs[i]] = Bound(ks, l, h, i)
  BY DEF Divides
<1> SUFFICES ASSUME NEW i \in 1..n+2
             PROVE  lo2[ds[i]] = Bound(js, l, h, i - 1) /\ hi2[ds[i]] = Bound(js, l, h, i)
  BY <1>1, <1>2 DEF Divides, js, ds
<1>6. CASE i < ci
  <2>1. /\ ds[i] = cs[i] /\ i \in 1..n+1 /\ i # ci
        /\ Bound(js, l, h, i - 1) = Bound(ks, l, h, i - 1) /\ Bound(js, l, h, i) = Bound(ks, l, h, i)
    BY <1>1, <1>3, <1>4, <1>6
  <2> QED
    BY <1>5, <2>1
<1>7. CASE i = ci
  <2>1. /\ ds[i] = cs[ci] /\ i \in 1..n+1
        /\ Bound(js, l, h, i - 1) = Bound(ks, l, h, i - 1) /\ Bound(js, l, h, i) = k
    BY <1>1, <1>3, <1>4, <1>7
  <2> QED
    BY <1>5, <1>7, <2>1
<1>8. CASE i = ci + 1
  <2>1. /\ ds[i] = r /\ Bound(js, l, h, i - 1) = k /\ Bound(js, l, h, i) = Bound(ks, l, h, ci)
    BY <1>1, <1>3, <1>4, <1>8
  <2> QED
    BY <1>5, <2>1
<1>9. CASE i > ci + 1
  <2>1. /\ ds[i] = cs[i - 1] /\ i - 1 \in 1..n+1 /\ i - 1 # ci
        /\ Bound(js, l, h, i - 1) = Bound(ks, l, h, i - 1 - 1) /\ Bound(js, l, h, i) = Bound(ks, l, h, i - 1)
    BY <1>1, <1>3, <1>4, <1>9
  <2> QED
    BY <1>5, <2>1
<1> QED
  BY <1>1, <1>6, <1>7, <1>8, <1>9

\* erase_key_child_at, when child i has taken over the keys of the next.
Yields(ks, cs, l, h, lo, hi, i, lo2, hi2) ==
    /\ ks \in Seq(Keys) /\ cs \in Seq(Pages) /\ Len(cs) = Len(ks) + 1
    /\ Divides(ks, cs, l, h, lo, hi) /\ i \in 1..Len(ks)
    /\ \A j \in 1..Len(ks)+1 : j # i + 1 => /\ lo2[cs[j]] = lo[cs[j]]
                                            /\ j # i => hi2[cs[j]] = hi[cs[j]]
    /\ hi2[cs[i]] = hi[cs[i+1]]

LEMMA DividesWithout ==
    ASSUME NEW ks, NEW cs, NEW l, NEW h, NEW lo, NEW hi, NEW i, NEW lo2, NEW hi2,
           Yields(ks, cs, l, h, lo, hi, i, lo2, hi2)
    PROVE  Divides(RemoveAt(ks, i), RemoveAt(cs, i + 1), l, h, lo2, hi2)
<1>a. /\ ks \in Seq(Keys) /\ cs \in Seq(Pages) /\ Len(cs) = Len(ks) + 1
      /\ Divides(ks, cs, l, h, lo, hi) /\ i \in 1..Len(ks)
      /\ \A j \in 1..Len(ks)+1 : j # i + 1 => /\ lo2[cs[j]] = lo[cs[j]]
                                              /\ j # i => hi2[cs[j]] = hi[cs[j]]
      /\ hi2[cs[i]] = hi[cs[i+1]]
  BY DEF Yields
<1> USE <1>a
<1> DEFINE js == RemoveAt(ks, i)
           ds == RemoveAt(cs, i + 1)
           n  == Len(ks)
<1>1. n \in Nat /\ i + 1 \in 1..Len(cs) /\ Len(cs) - 1 = n
  BY SeqIs
<1>2. Len(js) = n - 1 /\ \A j \in 1..n-1 : js[j] = IF j < i THEN ks[j] ELSE ks[j+1]
  BY RemoveAtIs
<1>3. \A j \in 1..n : ds[j] = IF j < i + 1 THEN cs[j] ELSE cs[j+1]
  <2>1. \A j \in 1..Len(cs)-1 : ds[j] = IF j < i + 1 THEN cs[j] ELSE cs[j+1]
    BY <1>1, RemoveAtIs
  <2> QED
    BY <1>1, <2>1
<1>0. n = Len(ks) /\ n \in Nat /\ i \in Nat /\ 1 <= i /\ i <= n /\ Len(js) + 1 = n
  BY <1>1, <1>2
<1> HIDE DEF js, ds, n
<1>4. \A j \in 0..n : Bound(js, l, h, j) = IF j < i THEN Bound(ks, l, h, j) ELSE Bound(ks, l, h, j + 1)
  <2> SUFFICES ASSUME NEW j \in 0..n
               PROVE  Bound(js, l, h, j) = IF j < i THEN Bound(ks, l, h, j) ELSE Bound(ks, l, h, j + 1)
    OBVIOUS
  <2>1. Len(js) + 1 = n
    BY <1>0
  <2>2. CASE j = 0
    BY <1>0, <2>1, <2>2 DEF Bound
  <2>3. CASE j = n
    <3>1. j # 0 /\ ~(j < i) /\ j + 1 # 0
      BY <1>0, <2>3
    <3> QED
      BY <1>0, <2>1, <2>3, <3>1 DEF Bound
  <2>4. CASE j \in 1..n-1
    <3>1. j # 0 /\ j # n /\ j # n + 1 /\ j + 1 # 0 /\ j + 1 # n + 1
      BY <1>0, <2>4
    <3>2. Bound(js, l, h, j) = js[j] /\ Bound(ks, l, h, j) = ks[j] /\ Bound(ks, l, h, j + 1) = ks[j+1]
      BY <1>0, <2>1, <3>1 DEF Bound
    <3> QED
      BY <1>2, <2>4, <3>2
  <2> QED
    BY <1>0, <2>2, <2>3, <2>4
<1>5. \A j \in 1..n+1 : lo[cs[j]] = Bound(ks, l, h, j - 1) /\ hi[cs[j]] = Bound(ks, l, h, j)
  BY <1>0 DEF Divides
<1> SUFFICES ASSUME NEW j \in 1..n
             PROVE  lo2[ds[j]] = Bound(js, l, h, j - 1) /\ hi2[ds[j]] = Bound(js, l, h, j)
  BY <1>0, <1>2 DEF Divides, js, ds, n
<1>6. CASE j < i
  <2>1. /\ ds[j] = cs[j] /\ j \in 1..n+1 /\ j # i /\ j # i + 1
        /\ Bound(js, l, h, j - 1) = Bound(ks, l, h, j - 1) /\ Bound(js, l, h, j) = Bound(ks, l, h, j)
    BY <1>0, <1>3, <1>4, <1>6
  <2> QED
    BY <1>0, <1>5, <2>1
<1>7. CASE j = i
  <2>1. /\ ds[j] = cs[i] /\ j \in 1..n+1 /\ j # i + 1 /\ i + 1 \in 1..n+1
        /\ Bound(js, l, h, j - 1) = Bound(ks, l, h, i - 1) /\ Bound(js, l, h, j) = Bound(ks, l, h, i + 1)
    <3>1. /\ j < i + 1 /\ j \in 1..n+1 /\ j # i + 1 /\ i + 1 \in 1..n+1
          /\ j - 1 \in 0..n /\ j - 1 < i /\ j \in 0..n /\ ~(j < i)
      BY <1>0, <1>7
    <3> QED
      BY <1>3, <1>4, <1>7, <3>1
  <2> QED
    BY <1>0, <1>5, <1>7, <2>1
<1>8. CASE j > i
  <2>1. /\ ds[j] = cs[j + 1] /\ j + 1 \in 1..n+1 /\ j + 1 # i /\ j + 1 # i + 1 /\ j + 1 - 1 = j
        /\ Bound(js, l, h, j - 1) = Bound(ks, l, h, j) /\ Bound(js, l, h, j) = Bound(ks, l, h, j + 1)
    <3>1. /\ ~(j < i + 1) /\ j + 1 \in 1..n+1 /\ j + 1 # i /\ j + 1 # i + 1 /\ j + 1 - 1 = j
          /\ j - 1 \in 0..n /\ ~(j - 1 < i) /\ j - 1 + 1 = j /\ j \in 0..n /\ ~(j < i)
      BY <1>0, <1>8
    <3>2. Bound(js, l, h, j - 1) = Bound(ks, l, h, j - 1 + 1) /\ Bound(js, l, h, j) = Bound(ks, l, h, j + 1)
      BY <1>4, <3>1
    <3>3. Bound(ks, l, h, j - 1 + 1) = Bound(ks, l, h, j)
      BY <3>1
    <3> QED
      BY <1>3, <3>1, <3>2, <3>3
  <2>2. lo[cs[j+1]] = Bound(ks, l, h, j + 1 - 1) /\ hi[cs[j+1]] = Bound(ks, l, h, j + 1)
    BY <1>5, <2>1
  <2>3. lo2[cs[j+1]] = lo[cs[j+1]] /\ hi2[cs[j+1]] = hi[cs[j+1]]
    BY <1>0, <2>1
  <2> QED
    BY <2>1, <2>2, <2>3
<1> QED
  BY <1>0, <1>6, <1>7, <1>8

\* The separator of children i and i + 1 is another.
Moves(ks, cs, l, h, lo, hi, i, k, lo2, hi2) ==
    /\ ks \in Seq(Keys) /\ Divides(ks, cs, l, h, lo, hi) /\ i \in 1..Len(ks)
    /\ \A j \in 1..Len(ks)+1 : /\ j # i + 1 => lo2[cs[j]] = lo[cs[j]]
                               /\ j # i => hi2[cs[j]] = hi[cs[j]]
    /\ hi2[cs[i]] = k /\ lo2[cs[i+1]] = k

LEMMA DividesMoved ==
    ASSUME NEW ks, NEW cs, NEW l, NEW h, NEW lo, NEW hi, NEW i, NEW k, NEW lo2, NEW hi2,
           Moves(ks, cs, l, h, lo, hi, i, k, lo2, hi2)
    PROVE  Divides([ks EXCEPT ![i] = k], cs, l, h, lo2, hi2)
<1>a. /\ ks \in Seq(Keys) /\ Divides(ks, cs, l, h, lo, hi) /\ i \in 1..Len(ks)
      /\ \A j \in 1..Len(ks)+1 : /\ j # i + 1 => lo2[cs[j]] = lo[cs[j]]
                                 /\ j # i => hi2[cs[j]] = hi[cs[j]]
      /\ hi2[cs[i]] = k /\ lo2[cs[i+1]] = k
  BY DEF Moves
<1> USE <1>a
<1> DEFINE js == [ks EXCEPT ![i] = k]
           n  == Len(ks)
<1>1. n \in Nat /\ Len(js) = n /\ \A j \in 1..n : js[j] = IF j = i THEN k ELSE ks[j]
  BY SeqIs
<1> HIDE DEF js
<1>2. \A j \in 0..n+1 : Bound(js, l, h, j) = IF j = i THEN k ELSE Bound(ks, l, h, j)
  BY <1>1 DEF Bound
<1>3. \A j \in 1..n+1 : lo[cs[j]] = Bound(ks, l, h, j - 1) /\ hi[cs[j]] = Bound(ks, l, h, j)
  BY DEF Divides
<1> SUFFICES ASSUME NEW j \in 1..n+1
             PROVE  lo2[cs[j]] = Bound(js, l, h, j - 1) /\ hi2[cs[j]] = Bound(js, l, h, j)
  BY <1>1 DEF Divides, js
<1>4. Bound(js, l, h, j - 1) = (IF j = i + 1 THEN k ELSE Bound(ks, l, h, j - 1))
  BY <1>1, <1>2
<1>5. Bound(js, l, h, j) = (IF j = i THEN k ELSE Bound(ks, l, h, j))
  BY <1>1, <1>2
<1> QED
  BY <1>3, <1>4, <1>5

\* A node halved around its median.
LEMMA DividesHalved ==
    ASSUME NEW ks \in Seq(Keys), NEW cs \in Seq(Pages), Len(cs) = Len(ks) + 1,
           NEW l, NEW h, NEW lo, NEW hi, Divides(ks, cs, l, h, lo, hi), NEW mid \in 0..Len(ks)-1
    PROVE  /\ Divides(SubSeq(ks, 1, mid), SubSeq(cs, 1, mid + 1), l, ks[mid + 1], lo, hi)
           /\ Divides(SubSeq(ks, mid + 2, Len(ks)), SubSeq(cs, mid + 2, Len(cs)), ks[mid + 1], h, lo, hi)
<1> DEFINE n  == Len(ks)
           k  == ks[mid + 1]
           ka == SubSeq(ks, 1, mid)
           ca == SubSeq(cs, 1, mid + 1)
           kb == SubSeq(ks, mid + 2, Len(ks))
           cb == SubSeq(cs, mid + 2, Len(cs))
<1>0. n = Len(ks) /\ n \in Nat /\ Len(cs) = n + 1 /\ mid \in Nat /\ mid <= n - 1
  BY SeqIs
<1>1. /\ n \in Nat /\ mid \in Nat /\ mid <= n - 1
      /\ 1 \in 1..Len(ks)+1 /\ mid \in 1-1..Len(ks) /\ mid - 1 + 1 = mid
      /\ 1 \in 1..Len(cs)+1 /\ mid + 1 \in 1-1..Len(cs) /\ mid + 1 - 1 + 1 = mid + 1
      /\ mid + 2 \in 1..Len(ks)+1 /\ Len(ks) \in mid+2-1..Len(ks) /\ n - (mid + 2) + 1 = n - mid - 1
      /\ mid + 2 \in 1..Len(cs)+1 /\ Len(cs) \in mid+2-1..Len(cs) /\ Len(cs) - (mid + 2) + 1 = n - mid
  BY SeqIs
<1>2. Len(ka) = mid /\ \A j \in 1..mid : ka[j] = ks[1+j-1]
  <2>1. Len(ka) = mid - 1 + 1 /\ \A j \in 1..mid-1+1 : ka[j] = ks[1+j-1]
    BY <1>1, SubSeqIs
  <2> QED
    BY <1>1, <2>1
<1>3. \A j \in 1..mid+1 : ca[j] = cs[1+j-1]
  <2>1. \A j \in 1..mid+1-1+1 : ca[j] = cs[1+j-1]
    BY <1>1, SubSeqIs
  <2> QED
    BY <1>1, <2>1
<1>4. Len(kb) = n - mid - 1 /\ \A j \in 1..n-mid-1 : kb[j] = ks[mid+2+j-1]
  <2>0. PICK a \in 1..Len(ks)+1 : a = mid + 2
    BY <1>1
  <2>9. PICK b \in a-1..Len(ks) : b = Len(ks)
    <3>1. Len(ks) \in a-1..Len(ks)
      BY <1>1, <2>0
    <3> QED
      BY <3>1
  <2>1. Len(SubSeq(ks, a, b)) = b - a + 1 /\ \A j \in 1..b-a+1 : SubSeq(ks, a, b)[j] = ks[a+j-1]
    BY SubSeqIs
  <2>2. b - a + 1 = n - mid - 1
    BY <1>1, <2>0, <2>9
  <2> QED
    BY <2>0, <2>1, <2>2, <2>9
<1>5. \A j \in 1..n-mid : cb[j] = cs[mid+2+j-1]
  <2>0. PICK a \in 1..Len(cs)+1 : a = mid + 2
    BY <1>1
  <2>9. PICK b \in a-1..Len(cs) : b = Len(cs)
    BY <1>1, <2>0
  <2>1. \A j \in 1..b-a+1 : SubSeq(cs, a, b)[j] = cs[a+j-1]
    BY SubSeqIs
  <2>2. b - a + 1 = n - mid
    BY <1>1, <2>0, <2>9
  <2> QED
    BY <2>0, <2>1, <2>2, <2>9
<1> HIDE DEF ka, ca, kb, cb, n
<1>6. \A j \in 1..n+1 : lo[cs[j]] = Bound(ks, l, h, j - 1) /\ hi[cs[j]] = Bound(ks, l, h, j)
  BY <1>0 DEF Divides
<1>7. Divides(ka, ca, l, k, lo, hi)
  <2>1. \A j \in 0..mid+1 : Bound(ka, l, k, j) = Bound(ks, l, h, j)
    BY <1>0, <1>2 DEF Bound
  <2> SUFFICES ASSUME NEW j \in 1..mid+1
               PROVE  lo[ca[j]] = Bound(ka, l, k, j - 1) /\ hi[ca[j]] = Bound(ka, l, k, j)
    BY <1>0, <1>2 DEF Divides
  <2>2. ca[j] = cs[j] /\ j \in 1..n+1 /\ j \in 0..mid+1 /\ j - 1 \in 0..mid+1
    BY <1>0, <1>3
  <2> QED
    BY <1>6, <2>1, <2>2
<1>8. Divides(kb, cb, k, h, lo, hi)
  <2>1. ASSUME NEW j \in 0..n-mid PROVE Bound(kb, k, h, j) = Bound(ks, l, h, j + mid + 1)
    <3>1. Len(kb) + 1 = n - mid /\ j + mid + 1 # 0
      BY <1>0, <1>4
    <3>2. CASE j = 0
      <4>1. j # n - mid /\ j + mid + 1 = mid + 1 /\ mid + 1 # n + 1
        BY <1>0, <3>2
      <4> QED
        BY <1>0, <3>1, <3>2, <4>1 DEF Bound
    <3>3. CASE j = n - mid
      <4>1. j # 0 /\ j + mid + 1 = n + 1
        BY <1>0, <3>3
      <4> QED
        BY <1>0, <3>1, <3>3, <4>1 DEF Bound
    <3>4. CASE j # 0 /\ j # n - mid
      <4>1. j \in 1..n-mid-1 /\ j + mid + 1 # n + 1 /\ mid + 2 + j - 1 = j + mid + 1
        BY <1>0, <3>4
      <4>2. kb[j] = ks[j + mid + 1]
        BY <1>4, <4>1
      <4> QED
        BY <1>0, <3>1, <3>4, <4>1, <4>2 DEF Bound
    <3> QED
      BY <3>2, <3>3, <3>4
  <2> SUFFICES ASSUME NEW j \in 1..n-mid
               PROVE  lo[cb[j]] = Bound(kb, k, h, j - 1) /\ hi[cb[j]] = Bound(kb, k, h, j)
    BY <1>0, <1>4 DEF Divides
  <2>2. /\ cb[j] = cs[j + mid + 1] /\ j + mid + 1 \in 1..n+1 /\ j \in 0..n-mid /\ j - 1 \in 0..n-mid
        /\ j - 1 + mid + 1 = j + mid + 1 - 1
    <3>1. /\ mid + 2 + j - 1 = j + mid + 1 /\ j + mid + 1 \in 1..n+1 /\ j \in 0..n-mid /\ j - 1 \in 0..n-mid
          /\ j - 1 + mid + 1 = j + mid + 1 - 1
      BY <1>0
    <3>2. cb[j] = cs[mid + 2 + j - 1]
      BY <1>5
    <3> QED
      BY <3>1, <3>2
  <2>3. Bound(kb, k, h, j - 1) = Bound(ks, l, h, j + mid + 1 - 1) /\ Bound(kb, k, h, j) = Bound(ks, l, h, j + mid + 1)
    BY <2>1, <2>2
  <2> QED
    BY <1>6, <2>2, <2>3
<1> QED
  BY <1>7, <1>8 DEF ka, ca, kb, cb, n

\* Two neighbours in one, with the separator between them.
LEMMA DividesJoined ==
    ASSUME NEW ks \in Seq(Keys), NEW cs \in Seq(Pages), Len(cs) = Len(ks) + 1,
           NEW js \in Seq(Keys), NEW ds \in Seq(Pages), Len(ds) = Len(js) + 1,
           NEW l, NEW k \in Keys, NEW h, NEW lo, NEW hi,
           Divides(ks, cs, l, k, lo, hi), Divides(js, ds, k, h, lo, hi)
    PROVE  Divides(ks \o <<k>> \o js, cs \o ds, l, h, lo, hi)
<1> DEFINE m  == Len(ks)
           n  == Len(js)
           ka == ks \o <<k>>
           ga == ka \o js
           ca == cs \o ds
<1>1. m \in Nat /\ n \in Nat
  BY SeqIs
<1>2. ka \in Seq(Keys) /\ Len(ka) = m + 1 /\ \A j \in 1..m+1 : ka[j] = IF j <= m THEN ks[j] ELSE k
  <2>1. <<k>> \in Seq(Keys) /\ Len(<<k>>) = 1 /\ <<k>>[1] = k
    BY OneIs
  <2>2. PICK o \in Seq(Keys) : o = <<k>> /\ Len(o) = 1 /\ o[1] = k
    BY <2>1
  <2>3. /\ ks \o o \in Seq(Keys) /\ Len(ks \o o) = m + 1
        /\ \A j \in 1..m+1 : (ks \o o)[j] = IF j <= m THEN ks[j] ELSE o[j-m]
    BY <2>2, ConcatIs
  <2>4. \A j \in 1..m+1 : ~(j <= m) => j - m = 1
    BY <1>1
  <2> QED
    BY <2>2, <2>3, <2>4
<1> HIDE DEF ka
<1>3. Len(ga) = m + 1 + n /\ \A j \in 1..m+1+n : ga[j] = IF j <= m + 1 THEN ka[j] ELSE js[j-(m+1)]
  <2>1. /\ Len(ka \o js) = Len(ka) + Len(js)
        /\ \A j \in 1..Len(ka)+Len(js) : (ka \o js)[j] = IF j <= Len(ka) THEN ka[j] ELSE js[j-Len(ka)]
    BY <1>2, ConcatIs
  <2> QED
    BY <1>2, <2>1
<1>4. \A j \in 1..m+1+(n+1) : ca[j] = IF j <= m + 1 THEN cs[j] ELSE ds[j-(m+1)]
  BY ConcatIs
<1> HIDE DEF ga, ca
<1>5. \A j \in 0..m+n+2 : Bound(ga, l, h, j) = IF j <= m + 1 THEN Bound(ks, l, k, j) ELSE Bound(js, k, h, j-(m+1))
  <2> SUFFICES ASSUME NEW j \in 0..m+n+2
               PROVE  Bound(ga, l, h, j) = IF j <= m + 1 THEN Bound(ks, l, k, j) ELSE Bound(js, k, h, j-(m+1))
    OBVIOUS
  <2>1. Len(ga) + 1 = m + n + 2
    BY <1>1, <1>3
  <2>2. CASE j = 0
    BY <1>1, <2>1, <2>2 DEF Bound
  <2>3. CASE j \in 1..m
    <3>1. j # 0 /\ j # m + 1 /\ j <= m + 1 /\ j # m + n + 2 /\ j \in 1..m+1+n /\ j \in 1..m+1
      BY <1>1, <2>3
    <3>2. ga[j] = ks[j]
      BY <1>2, <1>3, <2>3, <3>1
    <3> QED
      BY <2>1, <3>1, <3>2 DEF Bound
  <2>4. CASE j = m + 1
    <3>1. j # 0 /\ j <= m + 1 /\ j # m + n + 2 /\ j \in 1..m+1+n /\ j \in 1..m+1 /\ ~(j <= m)
      BY <1>1, <2>4
    <3>2. ga[j] = k
      BY <1>2, <1>3, <3>1
    <3> QED
      BY <2>1, <2>4, <3>1, <3>2 DEF Bound
  <2>5. CASE j \in m+2..m+n+1
    <3>1. /\ j # 0 /\ ~(j <= m + 1) /\ j # m + n + 2 /\ j \in 1..m+1+n
          /\ j - (m + 1) # 0 /\ j - (m + 1) # n + 1
      BY <1>1, <2>5
    <3>2. ga[j] = js[j-(m+1)]
      BY <1>3, <3>1
    <3> QED
      BY <2>1, <3>1, <3>2 DEF Bound
  <2>6. CASE j = m + n + 2
    <3>1. j # 0 /\ ~(j <= m + 1) /\ j - (m + 1) = n + 1 /\ n + 1 # 0
      BY <1>1, <2>6
    <3> QED
      BY <2>1, <2>6, <3>1 DEF Bound
  <2> HIDE DEF m, n
  <2>7. j = 0 \/ j \in 1..m \/ j = m + 1 \/ j \in m+2..m+n+1 \/ j = m + n + 2
    BY <1>1
  <2> QED
    BY <2>2, <2>3, <2>4, <2>5, <2>6, <2>7, Zenon
<1>6. /\ \A j \in 1..m+1 : lo[cs[j]] = Bound(ks, l, k, j - 1) /\ hi[cs[j]] = Bound(ks, l, k, j)
      /\ \A j \in 1..n+1 : lo[ds[j]] = Bound(js, k, h, j - 1) /\ hi[ds[j]] = Bound(js, k, h, j)
  BY DEF Divides
<1>7. Bound(ks, l, k, m + 1) = k /\ Bound(js, k, h, 0) = k
  BY <1>1 DEF Bound
<1> SUFFICES ASSUME NEW j \in 1..m+n+2
             PROVE  lo[ca[j]] = Bound(ga, l, h, j - 1) /\ hi[ca[j]] = Bound(ga, l, h, j)
  <2>1. Len(ga) + 1 = m + n + 2
    BY <1>1, <1>3
  <2> QED
    BY <2>1 DEF Divides, ga, ca, ka
<1>8. CASE j <= m + 1
  <2>1. /\ ca[j] = cs[j] /\ j \in 1..m+1
        /\ Bound(ga, l, h, j - 1) = Bound(ks, l, k, j - 1) /\ Bound(ga, l, h, j) = Bound(ks, l, k, j)
    BY <1>1, <1>4, <1>5, <1>8
  <2> QED
    BY <1>6, <2>1
<1>9. CASE j > m + 1
  <2>1. /\ ca[j] = ds[j-(m+1)] /\ j-(m+1) \in 1..n+1 /\ Bound(ga, l, h, j) = Bound(js, k, h, j-(m+1))
    BY <1>1, <1>4, <1>5, <1>9
  <2>2. Bound(ga, l, h, j - 1) = Bound(js, k, h, j-(m+1)-1)
    <3>1. CASE j = m + 2
      <4>1. j - 1 = m + 1 /\ j - (m + 1) - 1 = 0 /\ m + 1 \in 0..m+n+2 /\ m + 1 <= m + 1
        BY <1>1, <3>1
      <4> QED
        BY <1>5, <1>7, <4>1
    <3>2. CASE j # m + 2
      <4>1. j - 1 \in 0..m+n+2 /\ ~(j - 1 <= m + 1) /\ j - 1 - (m + 1) = j - (m + 1) - 1
        BY <1>1, <1>9, <3>2
      <4> QED
        BY <1>5, <4>1
    <3> QED
      BY <3>1, <3>2
  <2> QED
    BY <1>6, <2>1, <2>2
<1> QED
  BY <1>1, <1>8, <1>9
-----------------------------------------------------------------------------
(* The entries of a leaf, as the operations of its array leave them.       *)

LEMMA AscendingOnce == ASSUME NEW es \in Seq(Entry), Ascending(es) PROVE NoRepeat(es)
<1>1. DOMAIN es = 1..Len(es) /\ \A i \in 1..Len(es) : es[i].key \in Nat
  BY EntryKeys
<1>2. ASSUME NEW i \in 1..Len(es), NEW j \in 1..Len(es), es[i] = es[j] PROVE i = j
  <2>1. CASE i < j
    <3>1. es[i].key < es[j].key
      BY <1>1, <2>1 DEF Ascending
    <3> QED
      BY <1>1, <1>2, <3>1
  <2>2. CASE j < i
    <3>1. es[j].key < es[i].key
      BY <1>1, <2>2 DEF Ascending
    <3> QED
      BY <1>1, <1>2, <3>1
  <2> QED
    BY <2>1, <2>2
<1> QED
  BY <1>1, <1>2 DEF NoRepeat

LEMMA WithinIs ==
    ASSUME NEW es \in Seq(Entry), NEW l, NEW h
    PROVE  Within(es, l, h) <=> \A e \in ToSet(es) : l <= e.key /\ e.key < h
<1>1. DOMAIN es = 1..Len(es) /\ \A i \in 1..Len(es) : es[i] \in ToSet(es)
  BY EntryKeys
<1>2. \A e \in ToSet(es) : \E i \in 1..Len(es) : e = es[i]
  BY EntryKeys
<1> QED
  BY <1>1, <1>2 DEF Within

\* An entry of a key is the one of it.
LEMMA OneOfKey ==
    ASSUME NEW es \in Seq(Entry), Ascending(es), NEW d \in ToSet(es), NEW e \in ToSet(es), d.key = e.key
    PROVE  d = e
<1>1. PICK i \in 1..Len(es) : d = es[i]
  BY EntryKeys
<1>2. PICK j \in 1..Len(es) : e = es[j]
  BY EntryKeys
<1>3. DOMAIN es = 1..Len(es) /\ es[i].key \in Nat /\ es[j].key \in Nat
  BY EntryKeys
<1>4. ~(i < j) /\ ~(j < i)
  BY <1>1, <1>2, <1>3 DEF Ascending
<1> QED
  BY <1>1, <1>2, <1>4

\* t is es with entry e put in at i.
PutIn(es, i, e, t) ==
    /\ t \in Seq(Entry) /\ Len(t) = Len(es) + 1
    /\ \A j \in 1..Len(es)+1 : t[j] = IF j < i THEN es[j] ELSE IF j = i THEN e ELSE es[j-1]

LEMMA EntryInsertedAt ==
    ASSUME NEW es \in Seq(Entry), NEW i \in 1..Len(es)+1, NEW e \in Entry
    PROVE  PutIn(es, i, e, InsertAt(es, i, e))
<1>1. /\ InsertAt(es, i, e) \in Seq(Entry)
      /\ Len(InsertAt(es, i, e)) = Len(es) + 1
      /\ \A j \in 1..Len(es)+1 :
            InsertAt(es, i, e)[j] = IF j < i THEN es[j] ELSE IF j = i THEN e ELSE es[j-1]
  BY InsertAtIs
<1> QED
  BY <1>1 DEF PutIn

LEMMA AscendingInserted ==
    ASSUME unique, NEW es \in Seq(Entry), Ascending(es), NEW e \in Entry, ~HasKey(es, e.key)
    PROVE  Ascending(Inserted(es, e)) /\ ToSet(Inserted(es, e)) = ToSet(es) \cup {e}
<1> DEFINE k  == e.key
           p  == LowerBound(KeysOf(es), k)
           ks == KeysOf(es)
           n  == Len(es)
           t  == Inserted(es, e)
<1>1. DOMAIN es = 1..n /\ n \in Nat /\ \A i \in 1..n : es[i].key \in Nat
  BY EntryKeys
<1>2. k \in Nat /\ k \in Keys
  BY KeysAre DEF Entry, Keys
<1>3. ks \in Seq(Nat) /\ Len(ks) = n /\ \A i \in 1..n : ks[i] = es[i].key
  <2>1. \A i \in DOMAIN es : KeysOf(es)[i] = es[i].key
    BY DEF KeysOf
  <2> QED
    BY <1>1, <2>1, KeysOfIs
<1>4. /\ p \in 1..n+1
      /\ p > 1 => ks[p - 1] < k
      /\ p <= n => ks[p] >= k
  BY <1>2, <1>3, BoundsIn
<1>5. t = InsertAt(es, p, e)
  BY DEF Inserted, Position
<1> HIDE DEF p, ks, n, t
<1>6. p \in 1..Len(es)+1
  BY <1>4 DEF n
<1>7. /\ t \in Seq(Entry) /\ Len(t) = n + 1
      /\ \A j \in 1..n+1 : t[j] = IF j < p THEN es[j] ELSE IF j = p THEN e ELSE es[j-1]
  <2>1. PutIn(es, p, e, t)
    BY <1>5, <1>6, EntryInsertedAt
  <2>2. Len(es) = n
    BY DEF n
  <2> QED
    BY <2>1, <2>2 DEF PutIn
<1>8. DOMAIN t = 1..n+1
  BY <1>7, SeqIs
<1>9. \A i \in 1..n : i < p => es[i].key < k
  <2> SUFFICES ASSUME NEW i \in 1..n, i < p PROVE es[i].key < k
    OBVIOUS
  <2>1. p - 1 \in 1..n /\ p > 1 /\ (i < p - 1 \/ i = p - 1)
    BY <1>1, <1>4
  <2>2. es[p-1].key < k
    BY <1>3, <1>4, <2>1
  <2>3. CASE i = p - 1
    BY <2>2, <2>3
  <2>4. CASE i < p - 1
    <3>1. es[i].key < es[p-1].key
      BY <1>1, <2>1, <2>4 DEF Ascending
    <3> QED
      BY <1>1, <1>2, <2>1, <2>2, <3>1
  <2> QED
    BY <2>1, <2>3, <2>4
<1>10. \A i \in 1..n : i >= p => k < es[i].key
  <2> SUFFICES ASSUME NEW i \in 1..n, i >= p PROVE k < es[i].key
    OBVIOUS
  <2>1. p \in 1..n /\ p <= n /\ (p < i \/ p = i)
    BY <1>1, <1>4
  <2>2. k <= es[p].key /\ es[p].key # k
    <3>1. es[p].key # k
      BY <1>1, <2>1 DEF HasKey
    <3> QED
      BY <1>1, <1>2, <1>3, <1>4, <2>1, <3>1
  <2>3. CASE i = p
    BY <1>1, <1>2, <2>2, <2>3
  <2>4. CASE p < i
    <3>1. es[p].key < es[i].key
      BY <1>1, <2>1, <2>4 DEF Ascending
    <3> QED
      BY <1>1, <1>2, <2>1, <2>2, <3>1
  <2> QED
    BY <2>1, <2>3, <2>4
<1>11. ASSUME NEW i \in 1..n+1, NEW j \in 1..n+1, i < j PROVE t[i].key < t[j].key
  <2>1. CASE j < p
    <3>1. t[i] = es[i] /\ t[j] = es[j] /\ i \in 1..n /\ j \in 1..n
      BY <1>1, <1>4, <1>7, <1>11, <2>1
    <3> QED
      BY <1>1, <1>11, <3>1 DEF Ascending
  <2>2. CASE j = p
    <3>1. t[i] = es[i] /\ t[j] = e /\ i \in 1..n /\ i < p
      BY <1>1, <1>4, <1>7, <1>11, <2>2
    <3> QED
      BY <1>9, <3>1
  <2>3. CASE i = p
    <3>1. t[i] = e /\ t[j] = es[j-1] /\ j - 1 \in 1..n /\ j - 1 >= p
      BY <1>1, <1>4, <1>7, <1>11, <2>3
    <3> QED
      BY <1>10, <3>1
  <2>4. CASE i < p /\ p < j
    <3>1. t[i] = es[i] /\ t[j] = es[j-1] /\ i \in 1..n /\ j - 1 \in 1..n /\ j - 1 >= p
      BY <1>1, <1>4, <1>7, <1>11, <2>4
    <3>2. es[i].key < k /\ k < es[j-1].key
      BY <1>9, <1>10, <2>4, <3>1
    <3> QED
      BY <1>1, <1>2, <3>1, <3>2
  <2>5. CASE p < i
    <3>1. t[i] = es[i-1] /\ t[j] = es[j-1] /\ i - 1 \in 1..n /\ j - 1 \in 1..n /\ i - 1 < j - 1
      BY <1>1, <1>4, <1>7, <1>11, <2>5
    <3> QED
      BY <1>1, <3>1 DEF Ascending
  <2> QED
    BY <1>1, <1>4, <1>11, <2>1, <2>2, <2>3, <2>4, <2>5
<1>12. Ascending(t)
  BY <1>8, <1>11 DEF Ascending
<1>13. ToSet(t) = ToSet(es) \cup {e}
  <2>1. ASSUME NEW d \in ToSet(t) PROVE d \in ToSet(es) \cup {e}
    <3>1. PICK j \in 1..n+1 : d = t[j]
      BY <1>7, EntryKeys
    <3>2. CASE j < p
      <4>1. j \in 1..Len(es) /\ d = es[j]
        BY <1>1, <1>4, <1>7, <3>1, <3>2 DEF n
      <4> QED
        BY <4>1, EntryKeys
    <3>3. CASE j = p
      BY <1>7, <3>1, <3>3
    <3>4. CASE j > p
      <4>1. j - 1 \in 1..Len(es) /\ d = es[j-1]
        BY <1>1, <1>4, <1>7, <3>1, <3>4 DEF n
      <4> QED
        BY <4>1, EntryKeys
    <3> QED
      BY <1>4, <3>2, <3>3, <3>4
  <2>2. e \in ToSet(t)
    <3>1. p \in 1..Len(t) /\ t[p] = e
      BY <1>1, <1>4, <1>7
    <3> QED
      BY <1>7, <3>1, EntryKeys
  <2>3. ASSUME NEW d \in ToSet(es) PROVE d \in ToSet(t)
    <3>1. PICK j \in 1..n : d = es[j]
      BY EntryKeys DEF n
    <3>2. CASE j < p
      <4>1. j \in 1..Len(t) /\ t[j] = d
        BY <1>1, <1>7, <3>1, <3>2
      <4> QED
        BY <1>7, <4>1, EntryKeys
    <3>3. CASE j >= p
      <4>1. j + 1 \in 1..n+1 /\ ~(j + 1 < p) /\ j + 1 # p /\ j + 1 - 1 = j
        BY <1>1, <1>4, <3>3
      <4>2. j + 1 \in 1..Len(t) /\ t[j+1] = d
        BY <1>7, <3>1, <4>1
      <4> QED
        BY <1>7, <4>2, EntryKeys
    <3> QED
      BY <1>4, <3>2, <3>3
  <2> QED
    BY <2>1, <2>2, <2>3
<1> QED
  BY <1>12, <1>13 DEF t

LEMMA AscendingRemoved ==
    ASSUME NEW es \in Seq(Entry), Ascending(es), NEW i \in 1..Len(es)
    PROVE  /\ RemoveAt(es, i) \in Seq(Entry) /\ Ascending(RemoveAt(es, i))
           /\ ToSet(RemoveAt(es, i)) = {e \in ToSet(es) : e.key # es[i].key}
<1> DEFINE t == RemoveAt(es, i)
           n == Len(es)
<1>1. DOMAIN es = 1..n /\ n \in Nat /\ \A j \in 1..n : es[j].key \in Nat
  BY EntryKeys
<1>2. /\ t \in Seq(Entry) /\ Len(t) = n - 1
      /\ \A j \in 1..n-1 : t[j] = IF j < i THEN es[j] ELSE es[j+1]
  BY RemoveAtIs
<1>3. NoRepeat(es)
  BY AscendingOnce
<1>4. ToSet(t) = ToSet(es) \ {es[i]}
  BY <1>3, RemovedKids
<1> HIDE DEF t
<1>5. DOMAIN t = 1..n-1
  BY <1>2, SeqIs
<1> HIDE DEF n
<1>6. Ascending(t)
  <2> SUFFICES ASSUME NEW j \in 1..n-1, NEW m \in 1..n-1, j < m PROVE t[j].key < t[m].key
    BY <1>5 DEF Ascending
  <2>1. CASE m < i
    <3>1. t[j] = es[j] /\ t[m] = es[m] /\ j \in 1..n /\ m \in 1..n
      BY <1>1, <1>2, <2>1
    <3> QED
      BY <1>1, <3>1 DEF Ascending
  <2>2. CASE j < i /\ ~(m < i)
    <3>1. t[j] = es[j] /\ t[m] = es[m+1] /\ j \in 1..n /\ m + 1 \in 1..n /\ j < m + 1
      BY <1>1, <1>2, <2>2
    <3> QED
      BY <1>1, <3>1 DEF Ascending
  <2>3. CASE ~(j < i) /\ ~(m < i)
    <3>1. t[j] = es[j+1] /\ t[m] = es[m+1] /\ j + 1 \in 1..n /\ m + 1 \in 1..n /\ j + 1 < m + 1
      BY <1>1, <1>2, <2>3
    <3> QED
      BY <1>1, <3>1 DEF Ascending
  <2> QED
    BY <1>1, <2>1, <2>2, <2>3
<1>7. es[i] \in ToSet(es)
  BY EntryKeys
<1>8. \A e \in ToSet(es) : e.key = es[i].key => e = es[i]
  BY <1>7, OneOfKey
<1> QED
  BY <1>2, <1>4, <1>6, <1>8 DEF t

\* The array cut in two.
LEMMA AscendingHalves ==
    ASSUME NEW es \in Seq(Entry), Ascending(es), NEW m \in 0..Len(es)
    PROVE  LET a == SubSeq(es, 1, m)
               b == SubSeq(es, m + 1, Len(es))
           IN  /\ a \in Seq(Entry) /\ Len(a) = m /\ Ascending(a)
               /\ b \in Seq(Entry) /\ Len(b) = Len(es) - m /\ Ascending(b)
               /\ ToSet(es) = ToSet(a) \cup ToSet(b)
               /\ \A d \in ToSet(a), e \in ToSet(b) : d.key < e.key
               /\ \A j \in 1..m : a[j] = es[j]
               /\ \A j \in 1..Len(es)-m : b[j] = es[m+j]
<1> DEFINE n == Len(es)
           a == SubSeq(es, 1, m)
           b == SubSeq(es, m + 1, n)
<1>1. DOMAIN es = 1..n /\ n \in Nat /\ \A j \in 1..n : es[j].key \in Nat
  BY EntryKeys
<1>2. a \in Seq(Entry) /\ Len(a) = m /\ \A j \in 1..m : a[j] = es[j]
  <2>1. 1 \in 1..Len(es)+1 /\ m \in 1-1..Len(es) /\ m - 1 + 1 = m /\ \A j \in 1..m : 1 + j - 1 = j
    BY <1>1
  <2>2. a \in Seq(Entry) /\ Len(a) = m - 1 + 1 /\ \A j \in 1..m-1+1 : a[j] = es[1+j-1]
    BY <2>1, SubSeqIs
  <2> HIDE DEF a, n
  <2> QED
    BY <2>1, <2>2
<1>3. b \in Seq(Entry) /\ Len(b) = n - m /\ \A j \in 1..n-m : b[j] = es[m+j]
  <2>1. PICK c \in 1..Len(es)+1 : c = m + 1
    BY <1>1
  <2>2. PICK z \in c-1..Len(es) : z = n
    <3>1. n \in c-1..Len(es)
      BY <1>1, <2>1
    <3> QED
      BY <3>1
  <2>3. /\ SubSeq(es, c, z) \in Seq(Entry) /\ Len(SubSeq(es, c, z)) = z - c + 1
        /\ \A j \in 1..z-c+1 : SubSeq(es, c, z)[j] = es[c+j-1]
    BY SubSeqIs
  <2>4. z - c + 1 = n - m /\ \A j \in 1..n-m : c + j - 1 = m + j
    BY <1>1, <2>1, <2>2
  <2> HIDE DEF n
  <2>5. /\ b \in Seq(Entry) /\ Len(b) = n - m /\ \A j \in 1..n-m : b[j] = es[c+j-1]
    BY <2>1, <2>2, <2>3, <2>4
  <2> HIDE DEF b
  <2> QED
    BY <2>4, <2>5
<1>4. ToSet(a) \cup ToSet(b) = ToSet(es)
  BY AscendingOnce, HalvedKids
<1> HIDE DEF a, b
<1>5. DOMAIN a = 1..m /\ DOMAIN b = 1..n-m /\ m \in Nat
  BY <1>2, <1>3, SeqIs
<1>0. n = Len(es)
  OBVIOUS
<1> HIDE DEF n
<1>6. Ascending(a)
  <2> SUFFICES ASSUME NEW i \in 1..m, NEW j \in 1..m, i < j PROVE a[i].key < a[j].key
    BY <1>5 DEF Ascending
  <2>1. i \in 1..n /\ j \in 1..n /\ a[i] = es[i] /\ a[j] = es[j]
    BY <1>0, <1>1, <1>2, <1>5
  <2> QED
    BY <1>1, <2>1 DEF Ascending
<1>7. Ascending(b)
  <2> SUFFICES ASSUME NEW i \in 1..n-m, NEW j \in 1..n-m, i < j PROVE b[i].key < b[j].key
    BY <1>5 DEF Ascending
  <2>1. m + i \in 1..n /\ m + j \in 1..n /\ m + i < m + j /\ b[i] = es[m+i] /\ b[j] = es[m+j]
    BY <1>0, <1>1, <1>3, <1>5
  <2> QED
    BY <1>1, <2>1 DEF Ascending
<1>8. ASSUME NEW d \in ToSet(a), NEW e \in ToSet(b) PROVE d.key < e.key
  <2>1. PICK i \in 1..m : d = a[i]
    BY <1>2, EntryKeys
  <2>2. PICK j \in 1..n-m : e = b[j]
    BY <1>3, EntryKeys
  <2>3. i \in 1..n /\ m + j \in 1..n /\ i < m + j /\ d = es[i] /\ e = es[m+j]
    BY <1>0, <1>1, <1>2, <1>3, <1>5, <2>1, <2>2
  <2> QED
    BY <1>1, <2>3 DEF Ascending
<1> QED
  BY <1>0, <1>2, <1>3, <1>4, <1>6, <1>7, <1>8 DEF a, b

LEMMA AscendingUpdated ==
    ASSUME NEW es \in Seq(Entry), Ascending(es), NEW i \in 1..Len(es), NEW v \in Values
    PROVE  LET t == [es EXCEPT ![i].val = v]
           IN  /\ t \in Seq(Entry) /\ Ascending(t)
               /\ ToSet(t) = {e \in ToSet(es) : e.key # es[i].key} \cup {[key |-> es[i].key, val |-> v]}
<1> DEFINE t == [es EXCEPT ![i].val = v]
           n == Len(es)
           w == [key |-> es[i].key, val |-> v]
<1>1. /\ DOMAIN es = 1..n /\ n \in Nat /\ \A j \in 1..n : es[j].key \in Nat /\ es[j] \in Entry
  BY EntryKeys
<1>2. i \in Nat
  OBVIOUS
<1>3. t \in Seq(Entry) /\ Len(t) = Len(es)
  BY <1>2, EntryUpdated
<1>4. \A j \in 1..n : t[j] = IF j = i THEN w ELSE es[j]
  <2>1. [es[i] EXCEPT !.val = v] = w
    BY <1>1 DEF Entry
  <2>2. \A j \in 1..n : t[j] = IF j = i THEN [es[j] EXCEPT !.val = v] ELSE es[j]
    BY <1>1
  <2> QED
    BY <2>1, <2>2
<1>5. w.key = es[i].key
  OBVIOUS
<1>0. n = Len(es)
  OBVIOUS
<1> HIDE DEF t, w, n
<1>6. DOMAIN t = 1..n /\ \A j \in 1..n : t[j].key = es[j].key
  BY <1>0, <1>3, <1>4, <1>5, SeqIs
<1>7. Ascending(t)
  BY <1>1, <1>6 DEF Ascending
<1>8. \A j \in 1..n : j # i => es[j].key # es[i].key
  <2> SUFFICES ASSUME NEW j \in 1..n, j # i PROVE es[j].key # es[i].key
    OBVIOUS
  <2>1. j < i \/ i < j
    BY <1>0, <1>1
  <2>2. es[j].key < es[i].key \/ es[i].key < es[j].key
    BY <1>0, <1>1, <2>1 DEF Ascending
  <2> QED
    BY <1>0, <1>1, <2>2
<1>9. ASSUME NEW e \in ToSet(t) PROVE (e \in ToSet(es) /\ e.key # es[i].key) \/ e = w
  <2>1. PICK j \in 1..n : e = t[j]
    BY <1>0, <1>3, EntryKeys
  <2>2. j # i => e = es[j] /\ es[j] \in ToSet(es)
    BY <1>0, <1>4, <2>1, EntryKeys
  <2> QED
    BY <1>4, <1>8, <2>1, <2>2
<1>10. ASSUME NEW e \in ToSet(es), e.key # es[i].key PROVE e \in ToSet(t)
  <2>1. PICK j \in 1..n : e = es[j]
    BY <1>0, EntryKeys
  <2>2. j # i /\ t[j] = e
    BY <1>4, <1>10, <2>1
  <2> QED
    BY <1>0, <1>3, <2>1, <2>2, EntryKeys
<1>11. w \in ToSet(t)
  <2>1. t[i] = w /\ i \in 1..Len(t)
    BY <1>0, <1>3, <1>4
  <2> QED
    BY <1>3, <2>1, EntryKeys
<1>12. ToSet(t) = {e \in ToSet(es) : e.key # es[i].key} \cup {w}
  BY <1>9, <1>10, <1>11
<1> QED
  BY <1>3, <1>7, <1>12 DEF t, w
-----------------------------------------------------------------------------
(* What a rotation moves.                                                  *)

\* The end of the left array and the rest of it.
LEMMA LastMoves ==
    ASSUME NEW s \in Seq(Entry), NEW t \in Seq(Entry), Ascending(s), Ascending(t), Len(s) >= 1,
           \A d \in ToSet(s), e \in ToSet(t) : d.key < e.key
    PROVE  LET a == Front(s)
               b == Before(Last(s), t)
           IN  /\ a \in Seq(Entry) /\ Ascending(a) /\ b \in Seq(Entry) /\ Ascending(b)
               /\ ToSet(a) \cup ToSet(b) = ToSet(s) \cup ToSet(t)
               /\ Last(s) \in ToSet(s)
               /\ \A d \in ToSet(a) : d.key < Last(s).key
               /\ \A e \in ToSet(b) : Last(s).key <= e.key
<1> DEFINE n == Len(s)
           m == n - 1
           a == SubSeq(s, 1, m)
           c == SubSeq(s, m + 1, n)
           o == <<Last(s)>>
<1>1. n \in Nat /\ m \in 0..n /\ n - m = 1 /\ m + 1 = n /\ n \in 1..n
  BY SeqIs
<1>2. /\ a \in Seq(Entry) /\ Ascending(a) /\ c \in Seq(Entry) /\ Len(c) = n - m /\ Ascending(c)
      /\ ToSet(s) = ToSet(a) \cup ToSet(c)
      /\ \A d \in ToSet(a), e \in ToSet(c) : d.key < e.key
      /\ \A j \in 1..n-m : c[j] = s[m+j]
  <2> HIDE DEF m
  <2> QED
    BY <1>1, AscendingHalves
<1>3. Last(s) = s[n] /\ Front(s) = a
  BY DEF Last, Front
<1> HIDE DEF a, c
<1>4. s[n] \in Entry /\ s[n].key \in Nat /\ s[n] \in ToSet(s)
  BY <1>1, EntryKeys
<1>5. c[1] = s[n] /\ Len(c) = 1
  BY <1>1, <1>2
<1> HIDE DEF n, m
<1>6. ToSet(c) = {Last(s)}
  <2>0. c \in Seq(Entry)
    BY <1>2
  <2>1. DOMAIN c = {1}
    BY <1>5, <2>0, SeqIs
  <2> QED
    BY <1>3, <1>5, <2>1 DEF ToSet
<1>7. o \in Seq(Entry) /\ Len(o) = 1 /\ ToSet(o) = {Last(s)} /\ o[1] = Last(s)
  <2>1. o \in Seq(Entry) /\ Len(o) = 1 /\ ToSet(o) = {Last(s)}
    BY <1>3, <1>4, OneKid
  <2> QED
    BY <2>1
<1> HIDE DEF o
<1>8. Ascending(o)
  <2>1. DOMAIN o = {1}
    BY <1>7, SeqIs
  <2> QED
    BY <2>1 DEF Ascending
<1>9. \A d \in ToSet(o), e \in ToSet(t) : d.key < e.key
  BY <1>3, <1>4, <1>7
<1>10. o \o t \in Seq(Entry) /\ Ascending(o \o t) /\ ToSet(o \o t) = ToSet(o) \cup ToSet(t)
  BY <1>7, <1>8, <1>9, AscendingJoined
<1>11. Before(Last(s), t) = o \o t
  BY DEF Before, o
<1>12. \A e \in ToSet(t) : Last(s).key < e.key /\ e.key \in Nat
  <2>1. \A e \in ToSet(t) : e.key \in Nat
    BY EntryKeys
  <2> QED
    BY <1>3, <1>4, <2>1
<1>13. \A e \in ToSet(o \o t) : Last(s).key <= e.key
  BY <1>3, <1>4, <1>7, <1>10, <1>12
<1> QED
  BY <1>2, <1>3, <1>4, <1>6, <1>7, <1>10, <1>11, <1>13

\* The head of the right one and the rest of that.
LEMMA HeadMoves ==
    ASSUME NEW s \in Seq(Entry), NEW t \in Seq(Entry), Ascending(s), Ascending(t), Len(t) >= 2,
           \A d \in ToSet(s), e \in ToSet(t) : d.key < e.key
    PROVE  LET a == After(s, Head(t))
               b == Tail(t)
           IN  /\ a \in Seq(Entry) /\ Ascending(a) /\ b \in Seq(Entry) /\ Ascending(b)
               /\ ToSet(a) \cup ToSet(b) = ToSet(s) \cup ToSet(t)
               /\ t[2] \in ToSet(t)
               /\ \A d \in ToSet(a) : d.key < t[2].key
               /\ \A e \in ToSet(b) : t[2].key <= e.key
<1> DEFINE n == Len(t)
           b == SubSeq(t, 1 + 1, n)
           c == SubSeq(t, 1, 1)
           o == <<Head(t)>>
           k == t[2].key
<1>1. n \in Nat /\ n >= 2 /\ 1 \in 0..n /\ 1 \in 1..n /\ 2 \in 1..n /\ t # <<>> /\ 1 \in 1..1
  BY SeqIs
<1>2. /\ c \in Seq(Entry) /\ Len(c) = 1 /\ b \in Seq(Entry) /\ Len(b) = n - 1 /\ Ascending(b)
      /\ ToSet(t) = ToSet(c) \cup ToSet(b)
      /\ \A d \in ToSet(c), e \in ToSet(b) : d.key < e.key
      /\ \A j \in 1..1 : c[j] = t[j]
      /\ \A j \in 1..n-1 : b[j] = t[1+j]
  BY <1>1, AscendingHalves
<1>3. Head(t) = t[1] /\ Tail(t) = b
  <2>1. Tail(t) = SubSeq(t, 2, n)
    BY <1>1, TailIsSubSeq
  <2>2. 1 + 1 = 2
    OBVIOUS
  <2> QED
    BY <1>1, <2>1, <2>2, HeadTailProperties
<1> HIDE DEF b, c
<1>4. /\ t[1] \in Entry /\ t[1].key \in Nat /\ t[1] \in ToSet(t)
      /\ t[2] \in ToSet(t) /\ k \in Nat
  BY <1>1, EntryKeys
<1>5. ToSet(c) = {Head(t)}
  <2>1. DOMAIN c = {1} /\ c[1] = Head(t)
    BY <1>1, <1>2, <1>3, SeqIs
  <2> QED
    BY <2>1 DEF ToSet
<1>6. t[1].key < k
  <2>1. DOMAIN t = 1..n
    BY EntryKeys
  <2> QED
    BY <1>1, <2>1 DEF Ascending
<1>7. \A e \in ToSet(b) : k <= e.key
  <2> SUFFICES ASSUME NEW e \in ToSet(b) PROVE k <= e.key
    OBVIOUS
  <2>1. PICK j \in 1..n-1 : e = b[j]
    BY <1>2, EntryKeys
  <2>2. e = t[1+j] /\ 1 + j \in 1..n /\ (1 + j = 2 \/ 2 < 1 + j)
    BY <1>1, <1>2, <2>1
  <2>3. DOMAIN t = 1..n /\ t[1+j].key \in Nat
    BY <2>2, EntryKeys
  <2>4. CASE 1 + j = 2
    BY <1>4, <2>2, <2>4
  <2>5. CASE 2 < 1 + j
    <3>1. k < t[1+j].key
      BY <1>1, <2>2, <2>3, <2>5 DEF Ascending
    <3> QED
      BY <1>4, <2>2, <2>3, <3>1
  <2> QED
    BY <2>2, <2>4, <2>5
<1> HIDE DEF n
<1>8. o \in Seq(Entry) /\ Len(o) = 1 /\ ToSet(o) = {Head(t)}
  BY <1>3, <1>4, OneKid
<1> HIDE DEF o
<1>9. Ascending(o)
  <2>1. DOMAIN o = {1}
    BY <1>8, SeqIs
  <2> QED
    BY <2>1 DEF Ascending
<1>10. \A d \in ToSet(s), e \in ToSet(o) : d.key < e.key
  BY <1>3, <1>4, <1>8
<1>11. s \o o \in Seq(Entry) /\ Ascending(s \o o) /\ ToSet(s \o o) = ToSet(s) \cup ToSet(o)
  BY <1>8, <1>9, <1>10, AscendingJoined
<1>12. After(s, Head(t)) = s \o o
  BY AppendIsConcat, <1>3, <1>4 DEF After, o
<1>13. \A d \in ToSet(s \o o) : d.key < k
  <2>1. \A d \in ToSet(s) : d.key < k
    BY <1>4
  <2> QED
    BY <1>3, <1>6, <1>8, <1>11, <2>1
<1>14. ToSet(s \o o) \cup ToSet(b) = ToSet(s) \cup ToSet(t)
  BY <1>2, <1>5, <1>8, <1>11
<1> QED
  BY <1>2, <1>3, <1>4, <1>7, <1>11, <1>12, <1>13, <1>14

\* The same of internal nodes: the last child of the left one.
LEMMA DividesFront ==
    ASSUME NEW ks \in Seq(Keys), NEW cs \in Seq(Pages), Len(cs) = Len(ks) + 1, Len(ks) >= 1,
           NEW l, NEW h, NEW lo, NEW hi, Divides(ks, cs, l, h, lo, hi)
    PROVE  /\ Divides(Front(ks), Front(cs), l, Last(ks), lo, hi)
           /\ Last(ks) \in Keys /\ Last(cs) \in Pages
           /\ lo[Last(cs)] = Last(ks) /\ hi[Last(cs)] = h
<1> DEFINE n == Len(ks)
           m == n - 1
<1>0. n \in Nat
  BY SeqIs
<1>1. n \in Nat /\ n >= 1 /\ m \in 0..Len(ks)-1 /\ m + 1 = n /\ Len(cs) - 1 = m + 1 /\ n + 1 \in 1..n+1 /\ n \in 1..n
  BY SeqIs
<1>2. Front(ks) = SubSeq(ks, 1, m) /\ Last(ks) = ks[m+1]
  BY <1>1 DEF Front, Last
<1>3. Front(cs) = SubSeq(cs, 1, m + 1) /\ Last(cs) = cs[n+1]
  <2>1. Front(cs) = SubSeq(cs, 1, Len(cs) - 1) /\ Last(cs) = cs[Len(cs)]
    BY DEF Front, Last
  <2> QED
    BY <1>1, <2>1
<1>4. Divides(SubSeq(ks, 1, m), SubSeq(cs, 1, m + 1), l, ks[m + 1], lo, hi)
  <2> HIDE DEF m
  <2> QED
    BY <1>1, DividesHalved
<1>5. lo[cs[n+1]] = Bound(ks, l, h, n + 1 - 1) /\ hi[cs[n+1]] = Bound(ks, l, h, n + 1)
  BY <1>1 DEF Divides
<1>6. Bound(ks, l, h, n + 1 - 1) = ks[n] /\ Bound(ks, l, h, n + 1) = h
  <2>1. n + 1 - 1 = n /\ n # 0 /\ n + 1 # 0 /\ n # n + 1
    <3>1. n \in Nat /\ n >= 1
      BY <1>0
    <3> HIDE DEF n
    <3> QED
      BY <3>1
  <2> QED
    BY <2>1 DEF Bound
<1>7. ks[n] \in Keys /\ cs[n+1] \in Pages
  BY <1>1, SeqIs
<1> QED
  BY <1>1, <1>2, <1>3, <1>4, <1>5, <1>6, <1>7

\* The first child of the right one.
LEMMA DividesTail ==
    ASSUME NEW ks \in Seq(Keys), NEW cs \in Seq(Pages), Len(cs) = Len(ks) + 1, Len(ks) >= 1,
           NEW l, NEW h, NEW lo, NEW hi, Divides(ks, cs, l, h, lo, hi)
    PROVE  /\ Divides(Tail(ks), Tail(cs), Head(ks), h, lo, hi)
           /\ Head(ks) \in Keys /\ Head(cs) \in Pages
           /\ lo[Head(cs)] = l /\ hi[Head(cs)] = Head(ks)
<1> DEFINE n == Len(ks)
<1>1. n \in Nat /\ n >= 1 /\ 0 \in 0..Len(ks)-1 /\ ks # <<>> /\ cs # <<>> /\ 1 \in 1..n+1 /\ 1 \in 1..n
  BY SeqIs
<1>2. /\ Divides(SubSeq(ks, 0 + 2, Len(ks)), SubSeq(cs, 0 + 2, Len(cs)), ks[0 + 1], h, lo, hi)
  BY <1>1, DividesHalved
<1>3. /\ Tail(ks) = SubSeq(ks, 2, Len(ks)) /\ Head(ks) = ks[1]
      /\ Tail(cs) = SubSeq(cs, 2, Len(cs)) /\ Head(cs) = cs[1]
  BY <1>1, TailIsSubSeq, HeadTailProperties
<1>4. 0 + 2 = 2 /\ 0 + 1 = 1
  OBVIOUS
<1>5. lo[cs[1]] = Bound(ks, l, h, 1 - 1) /\ hi[cs[1]] = Bound(ks, l, h, 1)
  BY <1>1 DEF Divides
<1>6. Bound(ks, l, h, 1 - 1) = l /\ Bound(ks, l, h, 1) = ks[1]
  BY <1>1 DEF Bound
<1>7. ks[1] \in Keys /\ cs[1] \in Pages
  BY <1>1, SeqIs
<1> QED
  BY <1>2, <1>3, <1>4, <1>5, <1>6, <1>7

\* And the node it comes to.
LEMMA DividesBefore ==
    ASSUME NEW ks \in Seq(Keys), NEW cs \in Seq(Pages), Len(cs) = Len(ks) + 1,
           NEW l, NEW k \in Keys, NEW h, NEW lo, NEW hi, Divides(ks, cs, k, h, lo, hi),
           NEW c \in Pages, lo[c] = l, hi[c] = k
    PROVE  Divides(Before(k, ks), Before(c, cs), l, h, lo, hi)
<1> DEFINE n  == Len(ks)
           ok == <<k>>
           oc == <<c>>
           js == ok \o ks
           ds == oc \o cs
<1>1. n \in Nat
  BY SeqIs
<1>2. ok \in Seq(Keys) /\ Len(ok) = 1 /\ ok[1] = k /\ oc \in Seq(Pages) /\ Len(oc) = 1 /\ oc[1] = c
  BY OneIs
<1>3. Before(k, ks) = js /\ Before(c, cs) = ds
  BY DEF Before
<1> HIDE DEF ok, oc
<1>4. Len(js) = 1 + n /\ \A j \in 1..1+n : js[j] = IF j <= 1 THEN ok[j] ELSE ks[j-1]
  <2>1. Len(js) = Len(ok) + Len(ks) /\ \A j \in 1..Len(ok)+Len(ks) : js[j] = IF j <= Len(ok) THEN ok[j] ELSE ks[j-Len(ok)]
    BY <1>2, ConcatIs
  <2> QED
    BY <1>2, <2>1
<1>5. \A j \in 1..1+(n+1) : ds[j] = IF j <= 1 THEN oc[j] ELSE cs[j-1]
  <2>1. \A j \in 1..Len(oc)+Len(cs) : ds[j] = IF j <= Len(oc) THEN oc[j] ELSE cs[j-Len(oc)]
    BY <1>2, ConcatIs
  <2> QED
    BY <1>2, <2>1
<1> HIDE DEF js, ds
<1>0. n = Len(ks)
  OBVIOUS
<1> HIDE DEF n
<1>6. Bound(js, l, h, 0) = l
  BY DEF Bound
<1>7. \A j \in 1..n+2 : Bound(js, l, h, j) = Bound(ks, k, h, j - 1)
  <2> SUFFICES ASSUME NEW j \in 1..n+2 PROVE Bound(js, l, h, j) = Bound(ks, k, h, j - 1)
    OBVIOUS
  <2>1. j # 0 /\ Len(js) + 1 = n + 2
    BY <1>1, <1>4
  <2>2. CASE j = 1
    <3>1. j # n + 2 /\ js[j] = k /\ j - 1 = 0
      BY <1>1, <1>2, <1>4, <2>2
    <3> QED
      BY <2>1, <3>1 DEF Bound
  <2>3. CASE j = n + 2
    <3>1. j - 1 = n + 1 /\ j - 1 # 0
      BY <1>1, <2>3
    <3> QED
      BY <1>0, <2>1, <2>3, <3>1 DEF Bound
  <2>4. CASE j # 1 /\ j # n + 2
    <3>1. j \in 1..1+n /\ ~(j <= 1) /\ j - 1 # 0 /\ j - 1 # n + 1
      BY <1>1, <2>4
    <3>2. js[j] = ks[j-1]
      BY <1>4, <3>1
    <3> QED
      BY <1>0, <2>1, <2>4, <3>1, <3>2 DEF Bound
  <2> QED
    BY <2>2, <2>3, <2>4
<1>8. \A j \in 1..n+1 : lo[cs[j]] = Bound(ks, k, h, j - 1) /\ hi[cs[j]] = Bound(ks, k, h, j)
  BY <1>0 DEF Divides
<1> SUFFICES ASSUME NEW j \in 1..n+2
             PROVE  lo[ds[j]] = Bound(js, l, h, j - 1) /\ hi[ds[j]] = Bound(js, l, h, j)
  <2>1. Len(js) + 1 = n + 2
    BY <1>1, <1>4
  <2> QED
    BY <1>3, <2>1 DEF Divides
<1>9. CASE j = 1
  <2>1. ds[j] = c /\ j - 1 = 0
    BY <1>1, <1>2, <1>5, <1>9
  <2>2. Bound(js, l, h, j) = k
    <3>1. js[j] = k /\ j # 0 /\ j # Len(js) + 1
      BY <1>1, <1>2, <1>4, <1>9
    <3> QED
      BY <3>1 DEF Bound
  <2> QED
    BY <1>6, <2>1, <2>2
<1>10. CASE j # 1
  <2>1. /\ j \in 1..1+(n+1) /\ ~(j <= 1) /\ j - 1 \in 1..n+1 /\ j - 1 \in 1..n+2
    BY <1>1, <1>10
  <2>2. ds[j] = cs[j-1]
    BY <1>5, <2>1
  <2>3. Bound(js, l, h, j) = Bound(ks, k, h, j - 1) /\ Bound(js, l, h, j - 1) = Bound(ks, k, h, j - 1 - 1)
    BY <1>7, <2>1
  <2>4. lo[cs[j-1]] = Bound(ks, k, h, j - 1 - 1) /\ hi[cs[j-1]] = Bound(ks, k, h, j - 1)
    BY <1>8, <2>1
  <2> QED
    BY <2>2, <2>3, <2>4
<1> QED
  BY <1>9, <1>10

LEMMA DividesAfter ==
    ASSUME NEW ks \in Seq(Keys), NEW cs \in Seq(Pages), Len(cs) = Len(ks) + 1,
           NEW l, NEW k \in Keys, NEW h, NEW lo, NEW hi, Divides(ks, cs, l, k, lo, hi),
           NEW c \in Pages, lo[c] = k, hi[c] = h
    PROVE  Divides(After(ks, k), After(cs, c), l, h, lo, hi)
<1> DEFINE n  == Len(ks)
           js == Append(ks, k)
           ds == Append(cs, c)
<1>1. n \in Nat
  BY SeqIs
<1>2. Len(js) = n + 1 /\ \A j \in 1..n+1 : js[j] = IF j = n + 1 THEN k ELSE ks[j]
  BY <1>1, SeqIs
<1>3. \A j \in 1..n+2 : ds[j] = IF j = n + 2 THEN c ELSE cs[j]
  <2>1. \A j \in 1..Len(cs)+1 : ds[j] = IF j = Len(cs) + 1 THEN c ELSE cs[j]
    BY SeqIs
  <2>2. Len(cs) + 1 = n + 2
    BY <1>1
  <2> HIDE DEF n, ds
  <2> QED
    BY <2>1, <2>2
<1>4. After(ks, k) = js /\ After(cs, c) = ds
  BY DEF After
<1> HIDE DEF js, ds
<1>0. n = Len(ks)
  OBVIOUS
<1> HIDE DEF n
<1>5. Bound(js, l, h, n + 2) = h
  <2>1. n + 2 # 0 /\ Len(js) + 1 = n + 2
    BY <1>1, <1>2
  <2> QED
    BY <2>1 DEF Bound
<1>6. \A j \in 0..n+1 : Bound(js, l, h, j) = Bound(ks, l, k, j)
  <2> SUFFICES ASSUME NEW j \in 0..n+1 PROVE Bound(js, l, h, j) = Bound(ks, l, k, j)
    OBVIOUS
  <2>1. Len(js) + 1 = n + 2 /\ j # n + 2
    BY <1>1, <1>2
  <2>2. CASE j = 0
    BY <2>2 DEF Bound
  <2>3. CASE j = n + 1
    <3>1. j # 0 /\ js[j] = k
      BY <1>1, <1>2, <2>3
    <3> QED
      BY <1>0, <2>1, <2>3, <3>1 DEF Bound
  <2>4. CASE j # 0 /\ j # n + 1
    <3>1. j \in 1..n+1
      BY <1>1, <2>4
    <3>2. js[j] = ks[j]
      BY <1>2, <2>4, <3>1
    <3> QED
      BY <1>0, <2>1, <2>4, <3>2 DEF Bound
  <2> QED
    BY <2>2, <2>3, <2>4
<1>7. \A j \in 1..n+1 : lo[cs[j]] = Bound(ks, l, k, j - 1) /\ hi[cs[j]] = Bound(ks, l, k, j)
  BY <1>0 DEF Divides
<1>8. Bound(ks, l, k, n + 1) = k
  <2>1. n + 1 # 0
    BY <1>1
  <2> QED
    BY <1>0, <2>1 DEF Bound
<1> SUFFICES ASSUME NEW j \in 1..n+2
             PROVE  lo[ds[j]] = Bound(js, l, h, j - 1) /\ hi[ds[j]] = Bound(js, l, h, j)
  <2>1. Len(js) + 1 = n + 2
    BY <1>1, <1>2
  <2> QED
    BY <1>4, <2>1 DEF Divides
<1>9. CASE j = n + 2
  <2>1. ds[j] = c /\ j - 1 = n + 1 /\ n + 1 \in 0..n+1
    BY <1>1, <1>3, <1>9
  <2> QED
    BY <1>5, <1>6, <1>8, <1>9, <2>1
<1>10. CASE j # n + 2
  <2>1. j \in 1..n+1 /\ j \in 0..n+1 /\ j - 1 \in 0..n+1
    BY <1>1, <1>10
  <2>2. ds[j] = cs[j]
    BY <1>3, <1>10
  <2> QED
    BY <1>6, <1>7, <2>1, <2>2
<1> QED
  BY <1>9, <1>10
-----------------------------------------------------------------------------
(* The chain of leaves, and what the calls do to it.                       *)

HeldBut(f, P) == UNION {ToSet(f[q].entries) : q \in LeavesOf(f) \ P}

Stored(n, l, h) == n.entries \in Seq(Entry) /\ Ascending(n.entries) /\ Within(n.entries, l, h)

LEMMA HeldIs ==
    ASSUME NEW f, NEW P, NEW p \in LeavesOf(f) \ P
    PROVE  HeldBut(f, P) = HeldBut(f, P \cup {p}) \cup ToSet(f[p].entries)
<1>1. LeavesOf(f) \ P = (LeavesOf(f) \ (P \cup {p})) \cup {p}
  OBVIOUS
<1> QED
  BY <1>1 DEF HeldBut

LEMMA HeldAll == ASSUME NEW f PROVE Held(f) = HeldBut(f, {})
  BY DEF Held, HeldBut

LEMMA HeldSame ==
    ASSUME NEW f, NEW g, NEW P, NEW Q, LeavesOf(f) \ P = LeavesOf(g) \ Q,
           \A q \in LeavesOf(f) \ P : g[q].entries = f[q].entries
    PROVE  HeldBut(g, Q) = HeldBut(f, P)
  BY DEF HeldBut

LEMMA HeldOne ==
    ASSUME NEW f, NEW p \in LeavesOf(f)
    PROVE  Held(f) = HeldBut(f, {p}) \cup ToSet(f[p].entries)
<1>1. HeldBut(f, {}) = HeldBut(f, {} \cup {p}) \cup ToSet(f[p].entries)
  BY HeldIs
<1>2. {} \cup {p} = {p}
  OBVIOUS
<1> QED
  BY <1>1, <1>2, HeldAll

LEMMA HeldTwo ==
    ASSUME NEW f, NEW p \in LeavesOf(f), NEW r \in LeavesOf(f), p # r
    PROVE  Held(f) = HeldBut(f, {p, r}) \cup (ToSet(f[p].entries) \cup ToSet(f[r].entries))
<1>0. r \in LeavesOf(f) \ {p}
  OBVIOUS
<1>1. HeldBut(f, {p}) = HeldBut(f, {p} \cup {r}) \cup ToSet(f[r].entries)
  BY <1>0, HeldIs
<1>2. {p} \cup {r} = {p, r}
  OBVIOUS
<1>3. HeldBut(f, {p}) = HeldBut(f, {p, r}) \cup ToSet(f[r].entries)
  BY <1>1, <1>2
<1>4. Held(f) = HeldBut(f, {p}) \cup ToSet(f[p].entries)
  BY HeldOne
<1> QED
  BY <1>3, <1>4

\* The other leaves have none of a leaf's keys.
LEMMA HeldElsewhere ==
    ASSUME NEW f, Nodes(f), NEW lo, NEW hi, Leaves(f, lo, hi), NEW p \in LeavesOf(f),
           NEW e \in HeldBut(f, {p})
    PROVE  e \in Entry /\ (e.key < lo[p] \/ hi[p] <= e.key)
<1>1. PICK q \in LeavesOf(f) : q # p /\ e \in ToSet(f[q].entries)
  BY DEF HeldBut
<1>2. f[q].entries \in Seq(Entry)
  BY LeafOf
<1>3. PICK j \in 1..Len(f[q].entries) : e = f[q].entries[j]
  BY <1>1, <1>2, EntryKeys
<1>4. e.key \in Nat /\ e \in Entry /\ lo[q] <= e.key /\ e.key < hi[q]
  <2>1. Within(f[q].entries, lo[q], hi[q])
    BY DEF Leaves, Chained
  <2> QED
    BY <1>2, <1>3, <2>1, EntryKeys DEF Within
<1>5. hi[p] <= lo[q] \/ hi[q] <= lo[p]
  BY <1>1 DEF Leaves, OwnKeys
<1>6. lo[p] \in Nat /\ hi[p] \in Nat /\ lo[q] \in Nat /\ hi[q] \in Nat
  BY DEF Leaves, Spanned
<1> QED
  BY <1>4, <1>5, <1>6

LEMMA HeldEntries == ASSUME NEW f, Nodes(f) PROVE Held(f) \subseteq Entry
<1> SUFFICES ASSUME NEW e \in Held(f) PROVE e \in Entry
  OBVIOUS
<1>1. PICK q \in LeavesOf(f) : e \in ToSet(f[q].entries)
  BY DEF Held
<1>2. f[q].entries \in Seq(Entry)
  BY LeafOf
<1> QED
  BY <1>1, <1>2, EntryKeys

\* An entry held whose key is one of a leaf's is in that leaf.
LEMMA HeldHere ==
    ASSUME NEW f, Nodes(f), NEW lo, NEW hi, Leaves(f, lo, hi), NEW p \in LeavesOf(f),
           NEW e \in Held(f), lo[p] <= e.key, e.key < hi[p]
    PROVE  e \in ToSet(f[p].entries)
<1>0. Held(f) = HeldBut(f, {p}) \cup ToSet(f[p].entries)
  BY HeldOne
<1> SUFFICES ASSUME e \in HeldBut(f, {p}) PROVE FALSE
  BY <1>0
<1>1. e \in Entry /\ (e.key < lo[p] \/ hi[p] <= e.key)
  BY HeldElsewhere
<1>2. e.key \in Nat /\ lo[p] \in Nat /\ hi[p] \in Nat
  <2>1. e.key \in Nat
    BY <1>1, KeysAre DEF Entry, Keys
  <2> QED
    BY <2>1 DEF Leaves, Spanned
<1> QED
  BY <1>1, <1>2

\* The leaf next to another in the order of keys is next to it in the chain.
LEMMA NextIs ==
    ASSUME NEW f, NEW lo, NEW hi, Leaves(f, lo, hi),
           NEW l \in LeavesOf(f), NEW r \in LeavesOf(f), hi[l] = lo[r]
    PROVE  /\ l # r /\ f[l].next = r /\ f[l].next # NoPage
           /\ \A q \in LeavesOf(f) : f[q].next # NoPage /\ f[q].next = r => q = l
<1>1. \A q \in LeavesOf(f) : lo[q] \in Nat /\ hi[q] \in Nat /\ lo[q] < hi[q] /\ hi[q] <= MaxKey + 1
  BY DEF Leaves, Spanned
<1>2. \A p, q \in LeavesOf(f) : p # q => hi[p] <= lo[q] \/ hi[q] <= lo[p]
  BY DEF Leaves, OwnKeys
<1>3. \A q \in LeavesOf(f) : /\ f[q].next = NoPage => hi[q] = MaxKey + 1
                             /\ f[q].next # NoPage => f[q].next \in LeavesOf(f) /\ lo[f[q].next] = hi[q]
  BY DEF Leaves, Chained
<1>4. l # r
  BY <1>1
<1>5. f[l].next # NoPage
  BY <1>1, <1>3
<1>6. ASSUME NEW s \in LeavesOf(f), lo[s] = lo[r] PROVE s = r
  BY <1>1, <1>2, <1>6
<1>7. f[l].next = r
  BY <1>3, <1>5, <1>6
<1>8. ASSUME NEW q \in LeavesOf(f), f[q].next # NoPage, f[q].next = r PROVE q = l
  <2>1. hi[q] = hi[l]
    BY <1>3, <1>8
  <2> QED
    BY <1>1, <1>2, <2>1
<1> QED
  BY <1>4, <1>5, <1>7, <1>8

\* Nothing changes in the leaves.
LEMMA LeavesKept ==
    ASSUME NEW f, NEW lo, NEW hi, Leaves(f, lo, hi), NEW g, NEW lo2, NEW hi2,
           LeavesOf(g) = LeavesOf(f),
           \A q \in LeavesOf(f) : g[q] = f[q] /\ lo2[q] = lo[q] /\ hi2[q] = hi[q]
    PROVE  Leaves(g, lo2, hi2) /\ Held(g) = Held(f)
<1>1. Spanned(LeavesOf(g), lo2, hi2)
  BY DEF Leaves, Spanned
<1>2. OwnKeys(LeavesOf(g), lo2, hi2)
  BY DEF Leaves, OwnKeys
<1>3. Chained(g, lo2, hi2)
  <2> SUFFICES ASSUME NEW p \in LeavesOf(f)
               PROVE  /\ Ascending(g[p].entries) /\ Within(g[p].entries, lo2[p], hi2[p])
                      /\ g[p].next = NoPage => hi2[p] = MaxKey + 1
                      /\ g[p].next # NoPage => g[p].next \in LeavesOf(g) /\ lo2[g[p].next] = hi2[p]
    BY DEF Chained
  <2>1. g[p] = f[p] /\ lo2[p] = lo[p] /\ hi2[p] = hi[p]
    OBVIOUS
  <2>2. /\ Ascending(f[p].entries) /\ Within(f[p].entries, lo[p], hi[p])
        /\ f[p].next = NoPage => hi[p] = MaxKey + 1
        /\ f[p].next # NoPage => f[p].next \in LeavesOf(f) /\ lo[f[p].next] = hi[p]
    BY DEF Leaves, Chained
  <2> QED
    BY <2>1, <2>2
<1>4. Held(g) = Held(f)
  BY DEF Held
<1> QED
  BY <1>1, <1>2, <1>3, <1>4 DEF Leaves

\* The entries of a leaf change.
LEMMA LeafRewritten ==
    ASSUME NEW f, NEW lo, NEW hi, Leaves(f, lo, hi), NEW g, LeavesOf(g) = LeavesOf(f),
           NEW p \in LeavesOf(f), \A q \in LeavesOf(f) : q # p => g[q] = f[q],
           g[p].next = f[p].next, Stored(g[p], lo[p], hi[p])
    PROVE  Leaves(g, lo, hi) /\ Held(g) = HeldBut(f, {p}) \cup ToSet(g[p].entries)
<1>1. Spanned(LeavesOf(g), lo, hi) /\ OwnKeys(LeavesOf(g), lo, hi)
  BY DEF Leaves
<1>2. Chained(g, lo, hi)
  <2> SUFFICES ASSUME NEW q \in LeavesOf(f)
               PROVE  /\ Ascending(g[q].entries) /\ Within(g[q].entries, lo[q], hi[q])
                      /\ g[q].next = NoPage => hi[q] = MaxKey + 1
                      /\ g[q].next # NoPage => g[q].next \in LeavesOf(g) /\ lo[g[q].next] = hi[q]
    BY DEF Chained
  <2>1. g[q].next = f[q].next
    OBVIOUS
  <2>2. q # p => g[q].entries = f[q].entries
    OBVIOUS
  <2>3. /\ Ascending(f[q].entries) /\ Within(f[q].entries, lo[q], hi[q])
        /\ f[q].next = NoPage => hi[q] = MaxKey + 1
        /\ f[q].next # NoPage => f[q].next \in LeavesOf(f) /\ lo[f[q].next] = hi[q]
    BY DEF Leaves, Chained
  <2> QED
    BY <2>1, <2>2, <2>3 DEF Stored
<1>3. HeldBut(g, {p}) = HeldBut(f, {p})
  BY HeldSame
<1>4. Held(g) = HeldBut(g, {p}) \cup ToSet(g[p].entries)
  BY HeldOne
<1> QED
  BY <1>1, <1>2, <1>3, <1>4 DEF Leaves

\* A leaf is cut in two at key k.
Cut(f, lo, hi, g, lo2, hi2, p, r, k) ==
    /\ Leaves(f, lo, hi) /\ p \in LeavesOf(f) /\ r \notin LeavesOf(f) /\ r # NoPage
    /\ LeavesOf(g) = LeavesOf(f) \cup {r}
    /\ \A q \in LeavesOf(f) \ {p} : g[q] = f[q] /\ lo2[q] = lo[q] /\ hi2[q] = hi[q]
    /\ k \in Nat /\ lo[p] < k /\ k < hi[p]
    /\ lo2[p] = lo[p] /\ hi2[p] = k /\ lo2[r] = k /\ hi2[r] = hi[p]
    /\ g[p].next = r /\ g[r].next = f[p].next
    /\ Stored(g[p], lo[p], k) /\ Stored(g[r], k, hi[p])

LEMMA LeafCut ==
    ASSUME NEW f, NEW lo, NEW hi, NEW g, NEW lo2, NEW hi2, NEW p, NEW r, NEW k,
           Cut(f, lo, hi, g, lo2, hi2, p, r, k)
    PROVE  /\ Leaves(g, lo2, hi2)
           /\ Held(g) = HeldBut(f, {p}) \cup (ToSet(g[p].entries) \cup ToSet(g[r].entries))
<1> DEFINE L == LeavesOf(f)
<1>1. \A q \in L : lo[q] \in Nat /\ hi[q] \in Nat /\ lo[q] < hi[q] /\ hi[q] <= MaxKey + 1
  BY DEF Cut, Leaves, Spanned
<1>2. \A q, s \in L : q # s => hi[q] <= lo[s] \/ hi[s] <= lo[q]
  BY DEF Cut, Leaves, OwnKeys
<1>3. \A q \in L : /\ Ascending(f[q].entries) /\ Within(f[q].entries, lo[q], hi[q])
                   /\ f[q].next = NoPage => hi[q] = MaxKey + 1
                   /\ f[q].next # NoPage => f[q].next \in L /\ lo[f[q].next] = hi[q]
  BY DEF Cut, Leaves, Chained
<1>4. /\ p \in L /\ r \notin L /\ LeavesOf(g) = L \cup {r} /\ r # NoPage /\ p # r
      /\ \A q \in L \ {p} : g[q] = f[q] /\ lo2[q] = lo[q] /\ hi2[q] = hi[q]
      /\ k \in Nat /\ lo[p] < k /\ k < hi[p]
      /\ lo2[p] = lo[p] /\ hi2[p] = k /\ lo2[r] = k /\ hi2[r] = hi[p]
      /\ g[p].next = r /\ g[r].next = f[p].next
      /\ Stored(g[p], lo[p], k) /\ Stored(g[r], k, hi[p])
  BY DEF Cut
<1> HIDE DEF L
<1>5. \A q \in L : lo2[q] = lo[q]
  BY <1>4
<1>6. Spanned(LeavesOf(g), lo2, hi2)
  <2> SUFFICES ASSUME NEW q \in L \cup {r}
               PROVE  lo2[q] \in Nat /\ hi2[q] \in Nat /\ lo2[q] < hi2[q] /\ hi2[q] <= MaxKey + 1
    BY <1>4 DEF Spanned
  <2>1. CASE q \in L \ {p}
    BY <1>1, <1>4, <2>1
  <2>2. CASE q = p
    BY <1>1, <1>4, <2>2
  <2>3. CASE q = r
    BY <1>1, <1>4, <2>3
  <2> QED
    BY <2>1, <2>2, <2>3
<1>7. OwnKeys(LeavesOf(g), lo2, hi2)
  <2> SUFFICES ASSUME NEW q \in L \cup {r}, NEW s \in L \cup {r}, q # s
               PROVE  hi2[q] <= lo2[s] \/ hi2[s] <= lo2[q]
    BY <1>4 DEF OwnKeys
  <2>1. CASE q \in L \ {p} /\ s \in L \ {p}
    BY <1>2, <1>4, <2>1
  <2>2. ASSUME NEW a \in L \ {p}, NEW b \in {p, r} PROVE hi2[a] <= lo2[b] \/ hi2[b] <= lo2[a]
    <3>1. hi[a] <= lo[p] \/ hi[p] <= lo[a]
      BY <1>2, <1>4
    <3>2. lo2[a] = lo[a] /\ hi2[a] = hi[a]
      BY <1>4
    <3>3. CASE b = p
      BY <1>1, <1>4, <3>1, <3>2, <3>3
    <3>4. CASE b = r
      BY <1>1, <1>4, <3>1, <3>2, <3>4
    <3> QED
      BY <3>3, <3>4
  <2>3. CASE q \in {p, r} /\ s \in {p, r}
    <3>1. hi2[p] <= lo2[r]
      BY <1>4
    <3> QED
      BY <2>3, <3>1
  <2> QED
    BY <1>4, <2>1, <2>2, <2>3
<1>8. Chained(g, lo2, hi2)
  <2> SUFFICES ASSUME NEW q \in L \cup {r}
               PROVE  /\ Ascending(g[q].entries) /\ Within(g[q].entries, lo2[q], hi2[q])
                      /\ g[q].next = NoPage => hi2[q] = MaxKey + 1
                      /\ g[q].next # NoPage => g[q].next \in LeavesOf(g) /\ lo2[g[q].next] = hi2[q]
    BY <1>4 DEF Chained
  <2>1. CASE q \in L \ {p}
    BY <1>3, <1>4, <1>5, <2>1
  <2>2. CASE q = p
    BY <1>4, <2>2 DEF Stored
  <2>3. CASE q = r
    BY <1>3, <1>4, <1>5, <2>3 DEF Stored
  <2> QED
    BY <2>1, <2>2, <2>3
<1>9. HeldBut(g, {p, r}) = HeldBut(f, {p})
  <2>1. LeavesOf(f) \ {p} = LeavesOf(g) \ {p, r}
    BY <1>4 DEF L
  <2>2. \A q \in LeavesOf(f) \ {p} : g[q].entries = f[q].entries
    BY <1>4 DEF L
  <2> QED
    BY <2>1, <2>2, HeldSame
<1>10. Held(g) = HeldBut(g, {p, r}) \cup (ToSet(g[p].entries) \cup ToSet(g[r].entries))
  <2>1. p \in LeavesOf(g) /\ r \in LeavesOf(g) /\ p # r
    BY <1>4
  <2> QED
    BY <2>1, HeldTwo
<1> QED
  BY <1>6, <1>7, <1>8, <1>9, <1>10 DEF Leaves

\* The boundary between two neighbours is moved to key k.
Shifted(f, lo, hi, g, lo2, hi2, l, r, k) ==
    /\ Leaves(f, lo, hi) /\ l \in LeavesOf(f) /\ r \in LeavesOf(f) /\ hi[l] = lo[r]
    /\ LeavesOf(g) = LeavesOf(f)
    /\ \A q \in LeavesOf(f) \ {l, r} : g[q] = f[q] /\ lo2[q] = lo[q] /\ hi2[q] = hi[q]
    /\ k \in Nat /\ lo[l] < k /\ k < hi[r]
    /\ lo2[l] = lo[l] /\ hi2[l] = k /\ lo2[r] = k /\ hi2[r] = hi[r]
    /\ g[l].next = f[l].next /\ g[r].next = f[r].next
    /\ Stored(g[l], lo[l], k) /\ Stored(g[r], k, hi[r])

LEMMA LeafShifted ==
    ASSUME NEW f, NEW lo, NEW hi, NEW g, NEW lo2, NEW hi2, NEW l, NEW r, NEW k,
           Shifted(f, lo, hi, g, lo2, hi2, l, r, k)
    PROVE  /\ Leaves(g, lo2, hi2)
           /\ Held(g) = HeldBut(f, {l, r}) \cup (ToSet(g[l].entries) \cup ToSet(g[r].entries))
<1> DEFINE L == LeavesOf(f)
<1>1. \A q \in L : lo[q] \in Nat /\ hi[q] \in Nat /\ lo[q] < hi[q] /\ hi[q] <= MaxKey + 1
  BY DEF Shifted, Leaves, Spanned
<1>2. \A q, s \in L : q # s => hi[q] <= lo[s] \/ hi[s] <= lo[q]
  BY DEF Shifted, Leaves, OwnKeys
<1>3. \A q \in L : /\ Ascending(f[q].entries) /\ Within(f[q].entries, lo[q], hi[q])
                   /\ f[q].next = NoPage => hi[q] = MaxKey + 1
                   /\ f[q].next # NoPage => f[q].next \in L /\ lo[f[q].next] = hi[q]
  BY DEF Shifted, Leaves, Chained
<1>4. /\ l \in L /\ r \in L /\ LeavesOf(g) = L /\ hi[l] = lo[r]
      /\ \A q \in L \ {l, r} : g[q] = f[q] /\ lo2[q] = lo[q] /\ hi2[q] = hi[q]
      /\ k \in Nat /\ lo[l] < k /\ k < hi[r]
      /\ lo2[l] = lo[l] /\ hi2[l] = k /\ lo2[r] = k /\ hi2[r] = hi[r]
      /\ g[l].next = f[l].next /\ g[r].next = f[r].next
      /\ Stored(g[l], lo[l], k) /\ Stored(g[r], k, hi[r])
  BY DEF Shifted
<1>5. /\ l # r /\ f[l].next = r /\ f[l].next # NoPage
      /\ \A q \in L : f[q].next # NoPage /\ f[q].next = r => q = l
  BY NextIs DEF Shifted
<1> HIDE DEF L
<1>6. Spanned(LeavesOf(g), lo2, hi2)
  <2> SUFFICES ASSUME NEW q \in L
               PROVE  lo2[q] \in Nat /\ hi2[q] \in Nat /\ lo2[q] < hi2[q] /\ hi2[q] <= MaxKey + 1
    BY <1>4 DEF Spanned
  <2>1. CASE q \in L \ {l, r}
    BY <1>1, <1>4, <2>1
  <2>2. CASE q = l
    <3>1. hi[r] \in Nat /\ hi[r] <= MaxKey + 1 /\ lo[l] \in Nat
      BY <1>1, <1>4
    <3>2. MaxKey \in Nat
      OBVIOUS
    <3> QED
      BY <1>4, <2>2, <3>1, <3>2
  <2>3. CASE q = r
    BY <1>1, <1>4, <2>3
  <2> QED
    BY <2>1, <2>2, <2>3
<1>7. OwnKeys(LeavesOf(g), lo2, hi2)
  <2> SUFFICES ASSUME NEW q \in L, NEW s \in L, q # s
               PROVE  hi2[q] <= lo2[s] \/ hi2[s] <= lo2[q]
    BY <1>4 DEF OwnKeys
  <2>1. CASE q \in L \ {l, r} /\ s \in L \ {l, r}
    BY <1>2, <1>4, <2>1
  <2>2. ASSUME NEW a \in L \ {l, r}, NEW b \in {l, r} PROVE hi2[a] <= lo2[b] \/ hi2[b] <= lo2[a]
    <3>1. /\ hi[a] <= lo[l] \/ hi[l] <= lo[a]
          /\ hi[a] <= lo[r] \/ hi[r] <= lo[a]
      BY <1>2, <1>4
    <3>2. lo2[a] = lo[a] /\ hi2[a] = hi[a] /\ lo[a] \in Nat /\ hi[a] \in Nat /\ lo[a] < hi[a]
      BY <1>1, <1>4
    <3>3. /\ lo[l] \in Nat /\ lo[r] \in Nat /\ hi[r] \in Nat /\ lo[l] < hi[l] /\ lo[r] < hi[r]
      BY <1>1, <1>4
    <3>4. hi[a] <= lo[l] \/ hi[r] <= lo[a]
      BY <1>4, <3>1, <3>2, <3>3
    <3>5. CASE b = l
      BY <1>4, <3>2, <3>3, <3>4, <3>5
    <3>6. CASE b = r
      BY <1>4, <3>2, <3>3, <3>4, <3>6
    <3> QED
      BY <3>5, <3>6
  <2>3. CASE q \in {l, r} /\ s \in {l, r}
    <3>1. hi2[l] <= lo2[r]
      BY <1>4
    <3> QED
      BY <2>3, <3>1
  <2> QED
    BY <1>4, <2>1, <2>2, <2>3
<1>8. Chained(g, lo2, hi2)
  <2> SUFFICES ASSUME NEW q \in L
               PROVE  /\ Ascending(g[q].entries) /\ Within(g[q].entries, lo2[q], hi2[q])
                      /\ g[q].next = NoPage => hi2[q] = MaxKey + 1
                      /\ g[q].next # NoPage => g[q].next \in LeavesOf(g) /\ lo2[g[q].next] = hi2[q]
    BY <1>4 DEF Chained
  <2>0. \A s \in L : s # r => lo2[s] = lo[s]
    BY <1>4
  <2>1. CASE q \in L \ {l, r}
    <3>1. g[q] = f[q] /\ lo2[q] = lo[q] /\ hi2[q] = hi[q]
      BY <1>4, <2>1
    <3>2. f[q].next # NoPage => f[q].next \in L /\ f[q].next # r
      BY <1>3, <1>5, <2>1
    <3> QED
      BY <1>3, <1>4, <2>0, <3>1, <3>2
  <2>2. CASE q = l
    BY <1>4, <1>5, <2>2 DEF Stored
  <2>3. CASE q = r
    <3>1. f[r].next # NoPage => f[r].next \in L /\ f[r].next # r
      BY <1>3, <1>4, <1>5
    <3>2. /\ f[r].next = NoPage => hi[r] = MaxKey + 1
          /\ f[r].next # NoPage => lo[f[r].next] = hi[r]
      BY <1>3, <1>4
    <3> QED
      BY <1>4, <2>0, <2>3, <3>1, <3>2 DEF Stored
  <2> QED
    BY <2>1, <2>2, <2>3
<1>9. HeldBut(g, {l, r}) = HeldBut(f, {l, r})
  <2>1. LeavesOf(f) \ {l, r} = LeavesOf(g) \ {l, r}
    BY <1>4 DEF L
  <2>2. \A q \in LeavesOf(f) \ {l, r} : g[q].entries = f[q].entries
    BY <1>4 DEF L
  <2> QED
    BY <2>1, <2>2, HeldSame
<1>10. Held(g) = HeldBut(g, {l, r}) \cup (ToSet(g[l].entries) \cup ToSet(g[r].entries))
  <2>1. l \in LeavesOf(g) /\ r \in LeavesOf(g) /\ l # r
    BY <1>4, <1>5
  <2> QED
    BY <2>1, HeldTwo
<1> QED
  BY <1>6, <1>7, <1>8, <1>9, <1>10 DEF Leaves

\* A leaf takes over what its right neighbour has.
Absorbed(f, lo, hi, g, lo2, hi2, l, r) ==
    /\ Leaves(f, lo, hi) /\ l \in LeavesOf(f) /\ r \in LeavesOf(f) /\ hi[l] = lo[r]
    /\ LeavesOf(g) = LeavesOf(f) \ {r} /\ \A q \in LeavesOf(g) : lo2[q] = lo[q]
    /\ \A q \in LeavesOf(f) \ {l, r} : g[q] = f[q] /\ hi2[q] = hi[q]
    /\ hi2[l] = hi[r]
    /\ g[l].next = f[r].next /\ Stored(g[l], lo[l], hi[r])

LEMMA LeafAbsorbed ==
    ASSUME NEW f, NEW lo, NEW hi, NEW g, NEW lo2, NEW hi2, NEW l, NEW r,
           Absorbed(f, lo, hi, g, lo2, hi2, l, r)
    PROVE  /\ Leaves(g, lo2, hi2)
           /\ Held(g) = HeldBut(f, {l, r}) \cup ToSet(g[l].entries)
<1> DEFINE L == LeavesOf(f)
<1>1. \A q \in L : lo[q] \in Nat /\ hi[q] \in Nat /\ lo[q] < hi[q] /\ hi[q] <= MaxKey + 1
  BY DEF Absorbed, Leaves, Spanned
<1>2. \A q, s \in L : q # s => hi[q] <= lo[s] \/ hi[s] <= lo[q]
  BY DEF Absorbed, Leaves, OwnKeys
<1>3. \A q \in L : /\ Ascending(f[q].entries) /\ Within(f[q].entries, lo[q], hi[q])
                   /\ f[q].next = NoPage => hi[q] = MaxKey + 1
                   /\ f[q].next # NoPage => f[q].next \in L /\ lo[f[q].next] = hi[q]
  BY DEF Absorbed, Leaves, Chained
<1>4. /\ l \in L /\ r \in L /\ LeavesOf(g) = L \ {r} /\ hi[l] = lo[r]
      /\ \A q \in L \ {l, r} : g[q] = f[q] /\ hi2[q] = hi[q]
      /\ hi2[l] = hi[r] /\ g[l].next = f[r].next /\ Stored(g[l], lo[l], hi[r])
      /\ \A q \in L \ {r} : lo2[q] = lo[q]
  BY DEF Absorbed
<1>5. /\ l # r /\ \A q \in L : f[q].next # NoPage /\ f[q].next = r => q = l
  BY NextIs DEF Absorbed
<1> HIDE DEF L
<1>6. Spanned(LeavesOf(g), lo2, hi2)
  <2> SUFFICES ASSUME NEW q \in L \ {r}
               PROVE  lo2[q] \in Nat /\ hi2[q] \in Nat /\ lo2[q] < hi2[q] /\ hi2[q] <= MaxKey + 1
    BY <1>4 DEF Spanned
  <2>1. CASE q \in L \ {l, r}
    BY <1>1, <1>4, <2>1
  <2>2. CASE q = l
    BY <1>1, <1>4, <1>5, <2>2
  <2> QED
    BY <2>1, <2>2
<1>7. OwnKeys(LeavesOf(g), lo2, hi2)
  <2> SUFFICES ASSUME NEW q \in L \ {r}, NEW s \in L \ {r}, q # s
               PROVE  hi2[q] <= lo2[s] \/ hi2[s] <= lo2[q]
    BY <1>4 DEF OwnKeys
  <2>1. CASE q \in L \ {l, r} /\ s \in L \ {l, r}
    BY <1>2, <1>4, <2>1
  <2>2. ASSUME NEW a \in L \ {l, r} PROVE hi2[a] <= lo2[l] \/ hi2[l] <= lo2[a]
    <3>1. /\ hi[a] <= lo[l] \/ hi[l] <= lo[a]
          /\ hi[a] <= lo[r] \/ hi[r] <= lo[a]
      BY <1>2, <1>4
    <3>2. lo2[a] = lo[a] /\ hi2[a] = hi[a] /\ lo[a] \in Nat /\ hi[a] \in Nat /\ lo[a] < hi[a]
      BY <1>1, <1>4
    <3>3. /\ lo[l] \in Nat /\ lo[r] \in Nat /\ hi[r] \in Nat /\ lo[l] < hi[l] /\ lo[r] < hi[r]
          /\ lo2[l] = lo[l]
      BY <1>1, <1>4, <1>5
    <3> QED
      BY <1>4, <3>1, <3>2, <3>3
  <2> QED
    BY <1>4, <1>5, <2>1, <2>2
<1>8. Chained(g, lo2, hi2)
  <2> SUFFICES ASSUME NEW q \in L \ {r}
               PROVE  /\ Ascending(g[q].entries) /\ Within(g[q].entries, lo2[q], hi2[q])
                      /\ g[q].next = NoPage => hi2[q] = MaxKey + 1
                      /\ g[q].next # NoPage => g[q].next \in LeavesOf(g) /\ lo2[g[q].next] = hi2[q]
    BY <1>4 DEF Chained
  <2>1. CASE q \in L \ {l, r}
    <3>1. g[q] = f[q] /\ lo2[q] = lo[q] /\ hi2[q] = hi[q]
      BY <1>4, <2>1
    <3>2. f[q].next # NoPage => f[q].next \in L \ {r}
      BY <1>3, <1>5, <2>1
    <3> QED
      BY <1>3, <1>4, <3>1, <3>2
  <2>2. CASE q = l
    <3>1. f[r].next # NoPage => f[r].next \in L \ {r} /\ lo[f[r].next] = hi[r]
      BY <1>3, <1>4, <1>5
    <3>2. f[r].next = NoPage => hi[r] = MaxKey + 1
      BY <1>3, <1>4
    <3>3. lo2[l] = lo[l]
      BY <1>4, <1>5
    <3> QED
      BY <1>4, <2>2, <3>1, <3>2, <3>3 DEF Stored
  <2> QED
    BY <2>1, <2>2
<1>9. HeldBut(g, {l}) = HeldBut(f, {l, r})
  <2>1. LeavesOf(f) \ {l, r} = LeavesOf(g) \ {l}
    BY <1>4 DEF L
  <2>2. \A q \in LeavesOf(f) \ {l, r} : g[q].entries = f[q].entries
    BY <1>4 DEF L
  <2> QED
    BY <2>1, <2>2, HeldSame
<1>10. Held(g) = HeldBut(g, {l}) \cup ToSet(g[l].entries)
  <2>1. l \in LeavesOf(g)
    BY <1>4, <1>5
  <2> QED
    BY <2>1, HeldOne
<1> QED
  BY <1>6, <1>7, <1>8, <1>9, <1>10 DEF Leaves

\* A node of which no child changes.
LEMMA BranchKept ==
    ASSUME NEW f, Nodes(f), NEW p \in DOMAIN f \ LeavesOf(f), Fits(f[p]), NEW lo, NEW hi, NEW wide,
           Divides(f[p].keys, f[p].children, lo[p], hi[p], lo, wide),
           NEW lo2, NEW hi2, NEW wide2, lo2[p] = lo[p], hi2[p] = hi[p],
           \A c \in ToSet(Kids(f[p])) : lo2[c] = lo[c] /\ wide2[c] = wide[c]
    PROVE  Divides(f[p].keys, f[p].children, lo2[p], hi2[p], lo2, wide2)
<1>1. f[p] \in Internal /\ f[p].children \in Seq(Pages) /\ f[p].keys \in Seq(Keys)
      /\ Kids(f[p]) = f[p].children /\ Len(f[p].children) = Len(f[p].keys) + 1
  <2>1. f[p].kind # "leaf" /\ f[p] \in Leaf \cup Internal
    BY NodesAre DEF LeavesOf
  <2>2. f[p] \in Internal
    BY <2>1, LeafIs
  <2> QED
    BY <2>2, InternalIs
<1>2. Len(f[p].keys) \in Nat
  BY <1>1, SeqIs
<1>3. \A i \in 1..Len(f[p].keys)+1 : f[p].children[i] \in ToSet(Kids(f[p]))
  BY <1>1, ToSetIs
<1> QED
  BY <1>2, <1>3, DividesKept
-----------------------------------------------------------------------------
(* The nodes above the leaves, and what the calls do to them.              *)

\* Each page has its own children, of the pages there are.
Related(f) ==
    /\ Nodes(f)
    /\ \A p \in DOMAIN f : Fits(f[p]) /\ ToSet(Kids(f[p])) \subseteq DOMAIN f
    /\ \A p, q \in DOMAIN f : p # q => Apart(Kids(f[p]), Kids(f[q]))

\* The nodes but those of X are as they were, their children too.
Elsewhere(f, lo, hi, wide, g, lo2, hi2, wide2, X) ==
    \A p \in (DOMAIN g \ LeavesOf(g)) \ X :
        /\ p \in DOMAIN f \ LeavesOf(f) /\ g[p] = f[p] /\ lo2[p] = lo[p] /\ hi2[p] = hi[p]
        /\ \A c \in ToSet(Kids(f[p])) : lo2[c] = lo[c] /\ wide2[c] = wide[c]

LEMMA BranchesKept ==
    ASSUME NEW f, Related(f), NEW lo, NEW hi, NEW wide, Branches(f, lo, hi, wide),
           NEW g, NEW lo2, NEW hi2, NEW wide2, NEW X,
           Elsewhere(f, lo, hi, wide, g, lo2, hi2, wide2, X),
           \A p \in X : Divides(g[p].keys, g[p].children, lo2[p], hi2[p], lo2, wide2)
    PROVE  Branches(g, lo2, hi2, wide2)
<1> SUFFICES ASSUME NEW p \in DOMAIN g \ LeavesOf(g)
             PROVE  Divides(g[p].keys, g[p].children, lo2[p], hi2[p], lo2, wide2)
  BY DEF Branches
<1>1. CASE p \in X
  BY <1>1
<1>2. CASE p \notin X
  <2>1. /\ p \in DOMAIN f \ LeavesOf(f) /\ g[p] = f[p] /\ lo2[p] = lo[p] /\ hi2[p] = hi[p]
        /\ \A c \in ToSet(Kids(f[p])) : lo2[c] = lo[c] /\ wide2[c] = wide[c]
    BY <1>2 DEF Elsewhere
  <2>2. Nodes(f) /\ Fits(f[p]) /\ Divides(f[p].keys, f[p].children, lo[p], hi[p], lo, wide)
    BY <2>1 DEF Related, Branches
  <2>3. Divides(f[p].keys, f[p].children, lo2[p], hi2[p], lo2, wide2)
    BY <2>1, <2>2, BranchKept
  <2> QED
    BY <2>1, <2>3
<1> QED
  BY <1>1, <1>2

\* A leaf with other entries, of the keys it is for.
Rewriting(f, r, lo, hi, wide, p, g) ==
    /\ Related(f) /\ Ordered(f, r, lo, hi, wide) /\ p \in LeavesOf(f)
    /\ DOMAIN g = DOMAIN f /\ \A q \in DOMAIN f : q # p => g[q] = f[q]
    /\ g[p].kind = "leaf" /\ g[p].next = f[p].next /\ Stored(g[p], lo[p], hi[p])

LEMMA OrderRewritten ==
    ASSUME NEW f, NEW r, NEW lo, NEW hi, NEW wide, NEW p, NEW g,
           Rewriting(f, r, lo, hi, wide, p, g)
    PROVE  Ordered(g, r, lo, hi, wide) /\ Held(g) = HeldBut(f, {p}) \cup ToSet(g[p].entries)
<1>1. /\ Related(f) /\ Ordered(f, r, lo, hi, wide) /\ p \in LeavesOf(f) /\ DOMAIN g = DOMAIN f
      /\ \A q \in DOMAIN f : q # p => g[q] = f[q]
      /\ g[p].kind = "leaf" /\ g[p].next = f[p].next /\ Stored(g[p], lo[p], hi[p])
  BY DEF Rewriting
<1>2. LeavesOf(g) = LeavesOf(f)
  BY <1>1 DEF LeavesOf
<1>3. \A q \in LeavesOf(f) : q # p => g[q] = f[q]
  BY <1>1 DEF LeavesOf
<1>4. Leaves(f, lo, hi) /\ Branches(f, lo, hi, wide)
  BY <1>1 DEF Ordered
<1>5. Leaves(g, lo, hi) /\ Held(g) = HeldBut(f, {p}) \cup ToSet(g[p].entries)
  BY <1>1, <1>2, <1>3, <1>4, LeafRewritten
<1>6. Elsewhere(f, lo, hi, wide, g, lo, hi, wide, {})
  BY <1>1, <1>2 DEF Elsewhere
<1>7. Branches(g, lo, hi, wide)
  BY <1>1, <1>4, <1>6, BranchesKept
<1> QED
  BY <1>1, <1>5, <1>7 DEF Ordered, Spans

\* The end of a page is that of the one split off it.
Widened(hi, p, s) == [hi EXCEPT ![p] = hi[s]]

\* A page, p, is cut in two at k; the second, s, is a new one.
CutAt(D, lo, hi, p, s, k) ==
    /\ lo \in [D -> Nat] /\ hi \in [D -> Nat] /\ Spanned(D, lo, hi)
    /\ p \in D /\ s \notin D /\ k \in Nat /\ lo[p] < k /\ k < hi[p]

CutBounds(D, lo, hi, p, s, k, lo2, hi2) ==
    /\ lo2 \in [D \cup {s} -> Nat] /\ hi2 \in [D \cup {s} -> Nat] /\ Spanned(D \cup {s}, lo2, hi2)
    /\ lo2[s] = k /\ \A q \in D : lo2[q] = lo[q]
    /\ hi2[s] = hi[p] /\ hi2[p] = k /\ \A q \in D : q # p => hi2[q] = hi[q]
    /\ Widened(hi2, p, s)[s] = hi[p] /\ \A q \in D : Widened(hi2, p, s)[q] = hi[q]

LEMMA BoundsCut ==
    ASSUME NEW D, NEW lo, NEW hi, NEW p, NEW s, NEW k, CutAt(D, lo, hi, p, s, k)
    PROVE  \E lo2, hi2 : CutBounds(D, lo, hi, p, s, k, lo2, hi2)
<1>0. /\ lo \in [D -> Nat] /\ hi \in [D -> Nat] /\ Spanned(D, lo, hi)
      /\ p \in D /\ s \notin D /\ k \in Nat /\ lo[p] < k /\ k < hi[p]
  BY DEF CutAt
<1> DEFINE lo2 == [q \in D \cup {s} |-> IF q = s THEN k ELSE lo[q]]
           hi2 == [q \in D \cup {s} |-> IF q = s THEN hi[p] ELSE IF q = p THEN k ELSE hi[q]]
<1>1. lo2 \in [D \cup {s} -> Nat] /\ lo2[s] = k /\ \A q \in D : lo2[q] = lo[q]
  BY <1>0
<1>2. hi[p] \in Nat
  BY <1>0
<1>3. hi2 \in [D \cup {s} -> Nat] /\ hi2[s] = hi[p]
  BY <1>0, <1>2
<1>4. hi2[p] = k /\ \A q \in D : q # p => hi2[q] = hi[q]
  BY <1>0
<1> HIDE DEF lo2, hi2
<1>5. Spanned(D \cup {s}, lo2, hi2)
  <2> SUFFICES ASSUME NEW q \in D \cup {s}
               PROVE  lo2[q] \in Nat /\ hi2[q] \in Nat /\ lo2[q] < hi2[q] /\ hi2[q] <= MaxKey + 1
    BY DEF Spanned
  <2>1. /\ lo[p] \in Nat /\ hi[p] \in Nat /\ hi[p] <= MaxKey + 1 /\ MaxKey \in Nat
    BY <1>0 DEF Spanned
  <2>2. CASE q = s
    BY <1>0, <1>1, <1>3, <2>1, <2>2
  <2>3. CASE q = p
    BY <1>0, <1>1, <1>4, <2>1, <2>3
  <2>4. CASE q \in D /\ q # p
    <3>1. lo[q] \in Nat /\ hi[q] \in Nat /\ lo[q] < hi[q] /\ hi[q] <= MaxKey + 1
      BY <1>0, <2>4 DEF Spanned
    <3> QED
      BY <1>1, <1>4, <2>4, <3>1
  <2> QED
    BY <2>2, <2>3, <2>4
<1>6. Widened(hi2, p, s)[s] = hi[p] /\ \A q \in D : Widened(hi2, p, s)[q] = hi[q]
  BY <1>0, <1>3, <1>4 DEF Widened
<1>7. CutBounds(D, lo, hi, p, s, k, lo2, hi2)
  BY <1>1, <1>3, <1>4, <1>5, <1>6 DEF CutBounds
<1> QED
  BY <1>7

\* What a page is split into, for the page above: the key between the two.
SplitOrder(g, r, p, s, k) ==
    \E lo, hi \in [DOMAIN g -> Nat] :
        Ordered(g, r, lo, hi, Widened(hi, p, s)) /\ hi[p] = k /\ lo[s] = k

\* A leaf is cut in two at k: page s is a new one.
CutOrder(f, r, lo, hi, p, s, g, k) ==
    /\ Related(f) /\ Ordered(f, r, lo, hi, hi)
    /\ p \in LeavesOf(f) /\ s \notin DOMAIN f /\ s # NoPage
    /\ DOMAIN g = DOMAIN f \cup {s} /\ \A q \in DOMAIN f : q # p => g[q] = f[q]
    /\ g[p].kind = "leaf" /\ g[p].next = s /\ g[s].kind = "leaf" /\ g[s].next = f[p].next
    /\ k \in Nat /\ lo[p] < k /\ k < hi[p] /\ Stored(g[p], lo[p], k) /\ Stored(g[s], k, hi[p])

LEMMA OrderCut ==
    ASSUME NEW f, NEW r, NEW lo, NEW hi, NEW p, NEW s, NEW g, NEW k,
           CutOrder(f, r, lo, hi, p, s, g, k)
    PROVE  /\ SplitOrder(g, r, p, s, k)
           /\ Held(g) = HeldBut(f, {p}) \cup (ToSet(g[p].entries) \cup ToSet(g[s].entries))
<1> DEFINE D == DOMAIN f
<1>1. /\ lo \in [D -> Nat] /\ hi \in [D -> Nat] /\ Spanned(D, lo, hi)
      /\ Leaves(f, lo, hi) /\ Branches(f, lo, hi, hi) /\ r \in D /\ lo[r] = 0 /\ hi[r] = MaxKey + 1
  BY DEF Ordered, Spans, CutOrder
<1>2. p \in D /\ s \notin D /\ p # s
  BY DEF LeavesOf, CutOrder
<1>3. k \in Nat /\ lo[p] < k /\ k < hi[p]
  BY DEF CutOrder
<1>4. PICK lo2, hi2 : CutBounds(D, lo, hi, p, s, k, lo2, hi2)
  <2>1. CutAt(D, lo, hi, p, s, k)
    BY <1>1, <1>2, <1>3 DEF CutAt
  <2> QED
    BY <2>1, BoundsCut
<1>5. /\ lo2 \in [D \cup {s} -> Nat] /\ hi2 \in [D \cup {s} -> Nat] /\ Spanned(D \cup {s}, lo2, hi2)
      /\ lo2[s] = k /\ \A q \in D : lo2[q] = lo[q]
      /\ hi2[s] = hi[p] /\ hi2[p] = k /\ \A q \in D : q # p => hi2[q] = hi[q]
      /\ Widened(hi2, p, s)[s] = hi[p] /\ \A q \in D : Widened(hi2, p, s)[q] = hi[q]
  BY <1>4 DEF CutBounds
<1>6. LeavesOf(g) = LeavesOf(f) \cup {s}
  <2>1. /\ \A q \in D : q # p => g[q].kind = f[q].kind
        /\ f[p].kind = "leaf" /\ g[p].kind = "leaf" /\ g[s].kind = "leaf" /\ DOMAIN g = D \cup {s}
    BY DEF LeavesOf, CutOrder
  <2> QED
    BY <1>2, <2>1 DEF LeavesOf
<1>7. \A q \in D : q # p => g[q] = f[q]
  BY DEF CutOrder
<1>8. Cut(f, lo, hi, g, lo2, hi2, p, s, k)
  <2>1. \A q \in LeavesOf(f) \ {p} : g[q] = f[q] /\ lo2[q] = lo[q] /\ hi2[q] = hi[q]
    BY <1>5, <1>7 DEF LeavesOf
  <2>2. s \notin LeavesOf(f)
    BY <1>2 DEF LeavesOf
  <2>3. /\ p \in LeavesOf(f) /\ s # NoPage /\ g[p].next = s /\ g[s].next = f[p].next
        /\ Stored(g[p], lo[p], k) /\ Stored(g[s], k, hi[p])
    BY DEF CutOrder
  <2> QED
    BY <1>1, <1>2, <1>3, <1>5, <1>6, <2>1, <2>2, <2>3 DEF Cut
<1>9. Elsewhere(f, lo, hi, hi, g, lo2, hi2, Widened(hi2, p, s), {})
  <2> SUFFICES ASSUME NEW q \in DOMAIN g \ LeavesOf(g)
               PROVE  /\ q \in D \ LeavesOf(f) /\ g[q] = f[q] /\ lo2[q] = lo[q] /\ hi2[q] = hi[q]
                      /\ \A c \in ToSet(Kids(f[q])) : lo2[c] = lo[c] /\ Widened(hi2, p, s)[c] = hi[c]
    BY DEF Elsewhere
  <2>1. q \in D \ LeavesOf(f) /\ q # p
    BY <1>6 DEF CutOrder
  <2>2. ToSet(Kids(f[q])) \subseteq D
    BY <2>1 DEF Related, CutOrder
  <2> QED
    BY <1>5, <1>7, <2>1, <2>2
<1>10. DOMAIN g = D \cup {s} /\ Related(f)
  BY DEF CutOrder
<1> HIDE DEF D
<1>11. /\ Leaves(g, lo2, hi2)
       /\ Held(g) = HeldBut(f, {p}) \cup (ToSet(g[p].entries) \cup ToSet(g[s].entries))
  BY <1>8, LeafCut
<1>12. Branches(g, lo2, hi2, Widened(hi2, p, s))
  BY <1>1, <1>9, <1>10, BranchesKept
<1>13. /\ lo2 \in [DOMAIN g -> Nat] /\ hi2 \in [DOMAIN g -> Nat] /\ Spans(g, lo2, hi2)
       /\ hi2[p] = k /\ lo2[s] = k
  BY <1>5, <1>10, Zenon DEF Spans
<1>14. r \in DOMAIN g /\ lo2[r] = 0 /\ Widened(hi2, p, s)[r] = MaxKey + 1
  <2>1. r \in D /\ lo[r] = 0 /\ hi[r] = MaxKey + 1
    BY <1>1
  <2>2. (\A q \in D : lo2[q] = lo[q]) /\ \A q \in D : Widened(hi2, p, s)[q] = hi[q]
    BY <1>5
  <2> QED
    BY <1>10, <2>1, <2>2
<1>15. Ordered(g, r, lo2, hi2, Widened(hi2, p, s))
  BY <1>11, <1>12, <1>13, <1>14 DEF Ordered
<1>16. SplitOrder(g, r, p, s, k)
  BY <1>13, <1>15, Zenon DEF SplitOrder
<1> QED
  BY <1>11, <1>16

\* A node of the tree: what its parts are.
LEMMA BranchIs ==
    ASSUME NEW f, Related(f), NEW p \in DOMAIN f, f[p].kind # "leaf"
    PROVE  /\ p \in DOMAIN f \ LeavesOf(f) /\ f[p] \in Internal /\ f[p].kind = "internal"
           /\ f[p].keys \in Seq(Keys) /\ f[p].children \in Seq(Pages)
           /\ Len(f[p].keys) \in Nat /\ Len(f[p].children) = Len(f[p].keys) + 1
           /\ NoRepeat(f[p].children) /\ Kids(f[p]) = f[p].children
           /\ ToSet(f[p].children) \subseteq DOMAIN f
           /\ \A i \in 1..Len(f[p].keys)+1 : f[p].children[i] \in ToSet(f[p].children)
<1>1. /\ f[p] \in Leaf \cup Internal /\ NoRepeat(Kids(f[p])) /\ Fits(f[p])
      /\ ToSet(Kids(f[p])) \subseteq DOMAIN f
  BY NodesAre DEF Related
<1>2. f[p] \in Internal
  BY <1>1, LeafIs
<1>3. /\ f[p].kind = "internal" /\ f[p].keys \in Seq(Keys) /\ f[p].children \in Seq(Pages)
      /\ Kids(f[p]) = f[p].children /\ Len(f[p].children) = Len(f[p].keys) + 1
  BY <1>1, <1>2, InternalIs
<1>4. Len(f[p].keys) \in Nat
  BY <1>3, SeqIs
<1>5. \A i \in 1..Len(f[p].keys)+1 : f[p].children[i] \in ToSet(f[p].children)
  BY <1>3, ToSetIs
<1> QED
  BY <1>1, <1>2, <1>3, <1>4, <1>5 DEF LeavesOf

\* The children of a node are inside its own bounds.
LEMMA InsideBounds ==
    ASSUME NEW ks \in Seq(Keys), NEW cs, NEW l \in Nat, NEW h \in Nat, NEW lo, NEW hi,
           Divides(ks, cs, l, h, lo, hi), \A i \in 1..Len(ks)+1 : lo[cs[i]] < hi[cs[i]],
           NEW i \in 1..Len(ks)+1
    PROVE  lo[cs[i]] \in Nat /\ hi[cs[i]] \in Nat /\ l <= lo[cs[i]] /\ hi[cs[i]] <= h
<1>1. ks \in Seq(Nat) /\ Len(ks) \in Nat
  BY NaturalKeys, SeqIs
<1> DEFINE n == Len(ks)
<1>2. /\ \A j \in 0..n+1 : Bound(ks, l, h, j) \in Nat
      /\ \A j, m \in 0..n+1 : j < m => Bound(ks, l, h, j) < Bound(ks, l, h, m)
  BY <1>1, BoundsAscend
<1>3. lo[cs[i]] = Bound(ks, l, h, i - 1) /\ hi[cs[i]] = Bound(ks, l, h, i)
  BY DEF Divides
<1>4. Bound(ks, l, h, 0) = l /\ Bound(ks, l, h, n + 1) = h
  <2>1. n + 1 # 0
    BY <1>1
  <2> QED
    BY <2>1 DEF Bound
<1> HIDE DEF n
<1>5. n \in Nat /\ i \in 1..n+1
  BY <1>1 DEF n
<1>6. /\ i - 1 \in 0..n+1 /\ i \in 0..n+1 /\ 0 \in 0..n+1 /\ n + 1 \in 0..n+1
      /\ i - 1 = 0 \/ 0 < i - 1
      /\ i = n + 1 \/ i < n + 1
  BY <1>5
<1>7. l <= Bound(ks, l, h, i - 1)
  <2>1. i - 1 = 0 \/ Bound(ks, l, h, 0) < Bound(ks, l, h, i - 1)
    BY <1>2, <1>6
  <2>2. Bound(ks, l, h, i - 1) \in Nat
    BY <1>2, <1>6
  <2> QED
    BY <1>4, <2>1, <2>2
<1>8. Bound(ks, l, h, i) <= h
  <2>1. i = n + 1 \/ Bound(ks, l, h, i) < Bound(ks, l, h, n + 1)
    BY <1>2, <1>6
  <2>2. Bound(ks, l, h, i) \in Nat
    BY <1>2, <1>6
  <2> QED
    BY <1>4, <2>1, <2>2
<1> QED
  BY <1>2, <1>3, <1>6, <1>7, <1>8

LEMMA WithChildParts ==
    ASSUME NEW n \in Internal, NEW ci, NEW s
    PROVE  /\ WithChild(n, ci, s).keys = InsertAt(n.keys, ci, s.key)
           /\ WithChild(n, ci, s).children = InsertAt(n.children, ci + 1, s.right)
           /\ WithChild(n, ci, s).kind = "internal"
<1> DEFINE ks == InsertAt(n.keys, ci, s.key)
           cs == InsertAt(n.children, ci + 1, s.right)
<1>1. WithChild(n, ci, s) = [n EXCEPT !.keys = ks, !.children = cs]
  BY DEF WithChild
<1> HIDE DEF ks, cs
<1>2. WithChild(n, ci, s).keys = ks /\ WithChild(n, ci, s).children = cs /\ WithChild(n, ci, s).kind = "internal"
  BY <1>1 DEF Internal
<1> QED
  BY <1>2 DEF ks, cs

\* Child a of page q has split, into itself and s.
Splitting(f, r, lo, hi, q, ci, s) ==
    /\ Related(f) /\ Ordered(f, r, lo, hi, Widened(hi, f[q].children[ci], s.right))
    /\ q \in DOMAIN f /\ f[q].kind # "leaf" /\ ci \in 1..Len(f[q].keys)+1
    /\ f[q].children[ci] # r /\ s.right # r /\ s.right \in DOMAIN f /\ s.key \in Keys
    /\ \A p \in DOMAIN f : s.right \notin ToSet(Kids(f[p]))
    /\ hi[f[q].children[ci]] = s.key /\ lo[s.right] = s.key

\* The children of q, as q still takes them.
LEMMA SplittingIs ==
    ASSUME NEW f, NEW r, NEW lo, NEW hi, NEW q, NEW ci, NEW s, Splitting(f, r, lo, hi, q, ci, s),
           NEW a, a = f[q].children[ci], NEW wide, wide = Widened(hi, a, s.right)
    PROVE  /\ a \in DOMAIN f /\ a # s.right /\ a \in ToSet(f[q].children)
           /\ wide[a] = hi[s.right] /\ \A p \in DOMAIN f : p # a => wide[p] = hi[p]
           /\ Divides(f[q].keys, f[q].children, lo[q], hi[q], lo, wide)
           /\ \A i \in 1..Len(f[q].keys)+1 : lo[f[q].children[i]] < wide[f[q].children[i]]
           /\ \A i \in 1..Len(f[q].keys)+1 : i # ci => f[q].children[i] # a
           /\ lo[q] \in Nat /\ hi[q] \in Nat
           /\ lo[a] < s.key /\ s.key < wide[a]
           /\ \A p \in DOMAIN f : p # q => a \notin ToSet(Kids(f[p]))
<1>1. /\ Related(f) /\ Ordered(f, r, lo, hi, wide)
      /\ q \in DOMAIN f /\ f[q].kind # "leaf" /\ ci \in 1..Len(f[q].keys)+1
      /\ s.right \in DOMAIN f /\ s.key \in Keys
      /\ \A p \in DOMAIN f : s.right \notin ToSet(Kids(f[p]))
      /\ hi[a] = s.key /\ lo[s.right] = s.key
  BY DEF Splitting
<1>2. /\ q \in DOMAIN f \ LeavesOf(f) /\ Kids(f[q]) = f[q].children /\ NoRepeat(f[q].children)
      /\ f[q].children \in Seq(Pages) /\ Len(f[q].children) = Len(f[q].keys) + 1
      /\ ToSet(f[q].children) \subseteq DOMAIN f
      /\ \A i \in 1..Len(f[q].keys)+1 : f[q].children[i] \in ToSet(f[q].children)
  BY <1>1, BranchIs
<1>3. a \in DOMAIN f /\ a \in ToSet(f[q].children) /\ a # s.right
  BY <1>1, <1>2
<1>4. hi \in [DOMAIN f -> Nat] /\ Spanned(DOMAIN f, lo, hi) /\ Branches(f, lo, hi, wide)
  BY <1>1 DEF Ordered, Spans
<1>5. wide[a] = hi[s.right] /\ \A p \in DOMAIN f : p # a => wide[p] = hi[p]
  BY <1>3, <1>4 DEF Widened
<1>6. Divides(f[q].keys, f[q].children, lo[q], hi[q], lo, wide)
  BY <1>2, <1>4 DEF Branches
<1>7. \A p \in DOMAIN f : lo[p] \in Nat /\ hi[p] \in Nat /\ lo[p] < hi[p] /\ hi[p] <= MaxKey + 1
  BY <1>4 DEF Spanned
<1>8. lo[a] < s.key /\ s.key < wide[a]
  BY <1>1, <1>3, <1>5, <1>7
<1>9. lo[a] < wide[a]
  BY <1>1, <1>3, <1>5, <1>7
<1>10. \A i \in 1..Len(f[q].keys)+1 : lo[f[q].children[i]] < wide[f[q].children[i]]
  BY <1>2, <1>5, <1>7, <1>9
<1>11. \A i \in 1..Len(f[q].keys)+1 : i # ci => f[q].children[i] # a
  <2>1. DOMAIN f[q].children = 1..Len(f[q].keys)+1
    BY <1>2, SeqIs
  <2> QED
    BY <1>1, <1>2, <2>1 DEF NoRepeat
<1>12. \A p \in DOMAIN f : p # q => a \notin ToSet(Kids(f[p]))
  BY <1>1, <1>2, <1>3 DEF Related, Apart
<1> QED
  BY <1>1, <1>3, <1>5, <1>6, <1>7, <1>8, <1>10, <1>11, <1>12

\* It takes the page split off as a child.
LEMMA OrderAbsorbed ==
    ASSUME NEW f, NEW r, NEW lo, NEW hi, NEW q, NEW ci, NEW s, Splitting(f, r, lo, hi, q, ci, s),
           NEW g, DOMAIN g = DOMAIN f, \A p \in DOMAIN f : p # q => g[p] = f[p],
           g[q] = WithChild(f[q], ci, s)
    PROVE  Ordered(g, r, lo, hi, hi) /\ Held(g) = Held(f)
<1> DEFINE a    == f[q].children[ci]
           wide == Widened(hi, a, s.right)
           n    == f[q]
<1>1. /\ Related(f) /\ Ordered(f, r, lo, hi, wide)
      /\ q \in DOMAIN f /\ n.kind # "leaf" /\ ci \in 1..Len(n.keys)+1
      /\ a # r /\ s.right \in DOMAIN f /\ s.key \in Keys /\ hi[a] = s.key /\ lo[s.right] = s.key
  BY DEF Splitting
<1>2. /\ n \in Internal /\ q \in DOMAIN f \ LeavesOf(f) /\ n.keys \in Seq(Keys) /\ n.children \in Seq(Pages)
      /\ Len(n.keys) \in Nat /\ Len(n.children) = Len(n.keys) + 1 /\ NoRepeat(n.children)
      /\ ToSet(n.children) \subseteq DOMAIN f
      /\ \A i \in 1..Len(n.keys)+1 : n.children[i] \in ToSet(n.children)
  BY <1>1, BranchIs
<1>3. /\ a \in DOMAIN f
      /\ wide[a] = hi[s.right] /\ \A p \in DOMAIN f : p # a => wide[p] = hi[p]
      /\ Divides(n.keys, n.children, lo[q], hi[q], lo, wide)
      /\ \A i \in 1..Len(n.keys)+1 : i # ci => n.children[i] # a
      /\ \A p \in DOMAIN f : p # q => a \notin ToSet(Kids(f[p]))
  BY SplittingIs
<1>4. /\ g[q].keys = InsertAt(n.keys, ci, s.key) /\ g[q].children = InsertAt(n.children, ci + 1, s.right)
      /\ g[q].kind = "internal"
  BY <1>2, WithChildParts
<1>5. s.right \in Pages
  BY <1>1, NodesAre DEF Related
<1> HIDE DEF wide, a, n
<1>6. Divides(InsertAt(n.keys, ci, s.key), InsertAt(n.children, ci + 1, s.right), lo[q], hi[q], lo, hi)
  <2>1. \A i \in 1..Len(n.keys)+1 : i # ci => hi[n.children[i]] = wide[n.children[i]]
    BY <1>2, <1>3
  <2>2. hi[n.children[ci]] = s.key /\ hi[s.right] = wide[n.children[ci]]
    BY <1>1, <1>3 DEF a, n
  <2>3. Takes(n.keys, n.children, lo[q], hi[q], lo, wide, ci, s.key, s.right, lo, hi)
    BY <1>1, <1>2, <1>3, <1>5, <2>1, <2>2 DEF Takes
  <2> QED
    BY <2>3, DividesWith
<1>7. LeavesOf(g) = LeavesOf(f)
  BY <1>1, <1>2, <1>4 DEF LeavesOf
<1>8. Leaves(f, lo, hi) /\ Branches(f, lo, hi, wide)
  BY <1>1 DEF Ordered
<1>9. \A p \in LeavesOf(f) : g[p] = f[p]
  BY <1>2 DEF LeavesOf
<1>10. Elsewhere(f, lo, hi, wide, g, lo, hi, hi, {q})
  <2> SUFFICES ASSUME NEW p \in (DOMAIN g \ LeavesOf(g)) \ {q}
               PROVE  /\ p \in DOMAIN f \ LeavesOf(f) /\ g[p] = f[p]
                      /\ \A c \in ToSet(Kids(f[p])) : hi[c] = wide[c]
    BY DEF Elsewhere
  <2>1. p \in DOMAIN f \ LeavesOf(f) /\ g[p] = f[p] /\ p # q
    BY <1>7
  <2>2. ToSet(Kids(f[p])) \subseteq DOMAIN f /\ a \notin ToSet(Kids(f[p]))
    BY <1>1, <1>3, <2>1 DEF Related
  <2> QED
    BY <1>3, <2>1, <2>2
<1>11. Branches(g, lo, hi, hi)
  <2>1. \A p \in {q} : Divides(g[p].keys, g[p].children, lo[p], hi[p], lo, hi)
    BY <1>4, <1>6
  <2> QED
    BY <1>1, <1>8, <1>10, <2>1, BranchesKept
<1>12. Leaves(g, lo, hi) /\ Held(g) = Held(f)
  BY <1>7, <1>8, <1>9, LeavesKept
<1>13. hi[r] = MaxKey + 1 /\ lo[r] = 0 /\ r \in DOMAIN g /\ Spans(g, lo, hi)
  <2>1. r \in DOMAIN f /\ lo[r] = 0 /\ wide[r] = MaxKey + 1 /\ Spans(f, lo, hi)
    BY <1>1 DEF Ordered
  <2>2. hi[r] = MaxKey + 1
    BY <1>1, <1>3, <2>1
  <2> QED
    BY <2>1, <2>2 DEF Spans
<1> QED
  BY <1>11, <1>12, <1>13 DEF Ordered

\* A node whose child ci is for key k.
Keyed(ks, cs, l, h, lo, hi, ci, k) ==
    /\ ks \in Seq(Keys) /\ cs \in Seq(Pages) /\ Len(cs) = Len(ks) + 1
    /\ l \in Nat /\ h \in Nat /\ Divides(ks, cs, l, h, lo, hi)
    /\ \A i \in 1..Len(ks)+1 : lo[cs[i]] < hi[cs[i]]
    /\ ci \in 1..Len(ks)+1 /\ k \in Nat /\ lo[cs[ci]] <= k /\ k < hi[cs[ci]]

LEMMA KeyedOnce ==
    ASSUME NEW ks, NEW cs, NEW l, NEW h, NEW lo, NEW hi, NEW ci, NEW k, Keyed(ks, cs, l, h, lo, hi, ci, k)
    PROVE  /\ \A j \in 1..Len(ks)+1 : lo[cs[j]] <= k /\ k < hi[cs[j]] => j = ci
           /\ l <= k /\ k < h
<1>1. /\ ks \in Seq(Keys) /\ l \in Nat /\ h \in Nat /\ Divides(ks, cs, l, h, lo, hi)
      /\ \A i \in 1..Len(ks)+1 : lo[cs[i]] < hi[cs[i]]
      /\ ci \in 1..Len(ks)+1 /\ k \in Nat /\ lo[cs[ci]] <= k /\ k < hi[cs[ci]]
  BY DEF Keyed
<1>2. \A j \in 1..Len(ks)+1 : lo[cs[j]] <= k /\ k < hi[cs[j]] => j = ci
  BY <1>1, OneChild
<1>3. lo[cs[ci]] \in Nat /\ hi[cs[ci]] \in Nat /\ l <= lo[cs[ci]] /\ hi[cs[ci]] <= h
  BY <1>1, InsideBounds
<1>4. l <= k /\ k < h
  BY <1>1, <1>3
<1> QED
  BY <1>2, <1>4

LEMMA MedianInside ==
    ASSUME NEW ks, NEW cs, NEW l, NEW h, NEW lo, NEW hi, NEW ci, NEW k, Keyed(ks, cs, l, h, lo, hi, ci, k),
           NEW mid \in 0..Len(ks)-1
    PROVE  ks[mid+1] \in Nat /\ l < ks[mid+1] /\ ks[mid+1] < h
<1>1. /\ ks \in Seq(Keys) /\ l \in Nat /\ h \in Nat /\ Divides(ks, cs, l, h, lo, hi)
      /\ \A i \in 1..Len(ks)+1 : lo[cs[i]] < hi[cs[i]]
  BY DEF Keyed
<1>2. ks \in Seq(Nat) /\ Len(ks) \in Nat
  BY <1>1, NaturalKeys, SeqIs
<1> DEFINE n == Len(ks)
<1>3. /\ \A j \in 0..n+1 : Bound(ks, l, h, j) \in Nat
      /\ \A j, m \in 0..n+1 : j < m => Bound(ks, l, h, j) < Bound(ks, l, h, m)
  BY <1>1, <1>2, BoundsAscend
<1>4. n = Len(ks) /\ n \in Nat /\ mid \in 0..n-1
  BY <1>2
<1> HIDE DEF n
<1>5. /\ 0 \in 0..n+1 /\ mid + 1 \in 0..n+1 /\ n + 1 \in 0..n+1 /\ 0 < mid + 1 /\ mid + 1 < n + 1
      /\ mid + 1 # 0 /\ mid + 1 # n + 1 /\ n + 1 # 0
  BY <1>4
<1>6. Bound(ks, l, h, 0) = l /\ Bound(ks, l, h, mid + 1) = ks[mid+1] /\ Bound(ks, l, h, n + 1) = h
  BY <1>4, <1>5 DEF Bound
<1> QED
  BY <1>3, <1>5, <1>6

\* A half of the node goes on with the same child.
Routes(ks, cs, l, h, lo, hi, ci, k, mid) ==
    LET m  == ks[mid+1]
        ka == SubSeq(ks, 1, mid)
        ca == SubSeq(cs, 1, mid + 1)
        kb == SubSeq(ks, mid + 2, Len(ks))
        cb == SubSeq(cs, mid + 2, Len(cs))
    IN  /\ Divides(ka, ca, l, m, lo, hi) /\ Divides(kb, cb, m, h, lo, hi)
        /\ k < m => UpperBound(ka, k) \in 1..Len(ka)+1 /\ ca[UpperBound(ka, k)] = cs[ci]
        /\ ~(k < m) => UpperBound(kb, k) \in 1..Len(kb)+1 /\ cb[UpperBound(kb, k)] = cs[ci]

LEMMA HalfRouted ==
    ASSUME NEW ks, NEW cs, NEW l, NEW h, NEW lo, NEW hi, NEW ci, NEW k, Keyed(ks, cs, l, h, lo, hi, ci, k),
           NEW mid, mid \in 0..Len(ks)-1
    PROVE  Routes(ks, cs, l, h, lo, hi, ci, k, mid)
<1> DEFINE n  == Len(ks)
           m  == ks[mid+1]
           ka == SubSeq(ks, 1, mid)
           ca == SubSeq(cs, 1, mid + 1)
           kb == SubSeq(ks, mid + 2, Len(ks))
           cb == SubSeq(cs, mid + 2, Len(cs))
<1>1. /\ ks \in Seq(Keys) /\ cs \in Seq(Pages) /\ Len(cs) = Len(ks) + 1
      /\ l \in Nat /\ h \in Nat /\ Divides(ks, cs, l, h, lo, hi) /\ k \in Nat
  BY DEF Keyed
<1>2. /\ \A j \in 1..n+1 : lo[cs[j]] <= k /\ k < hi[cs[j]] => j = ci
      /\ l <= k /\ k < h
  BY KeyedOnce
<1>3. m \in Nat /\ l < m /\ m < h
  BY MedianInside
<1>4. Divides(ka, ca, l, m, lo, hi) /\ Divides(kb, cb, m, h, lo, hi)
  BY <1>1, DividesHalved
<1>5. n = Len(ks) /\ n \in Nat /\ mid \in Nat /\ mid <= n - 1 /\ Len(cs) = n + 1
  BY <1>1, SeqIs
<1> HIDE DEF n
<1>6. ka \in Seq(Keys) /\ Len(ka) = mid
  <2>1. 1 \in 1..Len(ks)+1 /\ mid \in 1-1..Len(ks) /\ mid - 1 + 1 = mid
    BY <1>5
  <2> QED
    BY <1>1, <2>1, SubSeqIs
<1>7. \A j \in 1..mid+1 : ca[j] = cs[j]
  <2>1. 1 \in 1..Len(cs)+1 /\ mid + 1 \in 1-1..Len(cs) /\ mid + 1 - 1 + 1 = mid + 1
    BY <1>5
  <2>2. \A j \in 1..mid+1-1+1 : SubSeq(cs, 1, mid + 1)[j] = cs[1+j-1]
    BY <1>1, <2>1, SubSeqIs
  <2> QED
    BY <1>5, <2>2
<1>8. kb \in Seq(Keys) /\ Len(kb) = n - mid - 1
  <2>1. PICK u \in 1..Len(ks)+1 : u = mid + 2
    BY <1>5
  <2>2. Len(ks) \in u-1..Len(ks) /\ n - u + 1 = n - mid - 1
    BY <1>5, <2>1
  <2>3. SubSeq(ks, u, Len(ks)) \in Seq(Keys) /\ Len(SubSeq(ks, u, Len(ks))) = Len(ks) - u + 1
    BY <1>1, <2>2, SubSeqIs
  <2> QED
    BY <1>5, <2>1, <2>2, <2>3
<1>9. \A j \in 1..n-mid : cb[j] = cs[mid+1+j]
  <2>1. PICK u \in 1..Len(cs)+1 : u = mid + 2
    BY <1>5
  <2>2. Len(cs) \in u-1..Len(cs) /\ Len(cs) - u + 1 = n - mid /\ \A j \in 1..n-mid : u + j - 1 = mid + 1 + j
    BY <1>5, <2>1
  <2>3. \A j \in 1..Len(cs)-u+1 : SubSeq(cs, u, Len(cs))[j] = cs[u+j-1]
    BY <1>1, <2>2, SubSeqIs
  <2> QED
    BY <2>1, <2>2, <2>3
<1> HIDE DEF ka, ca, kb, cb, m
<1>10. ASSUME k < m PROVE UpperBound(ka, k) \in 1..Len(ka)+1 /\ ca[UpperBound(ka, k)] = cs[ci]
  <2> DEFINE j == UpperBound(ka, k)
  <2>1. j \in 1..Len(ka)+1 /\ lo[ca[j]] <= k /\ k < hi[ca[j]]
    BY <1>1, <1>2, <1>3, <1>4, <1>6, <1>10, ChildFor
  <2> HIDE DEF j
  <2>2. j \in 1..mid+1 /\ j \in 1..n+1
    BY <1>5, <1>6, <2>1
  <2> QED
    BY <1>2, <1>7, <2>1, <2>2 DEF j
<1>11. ASSUME ~(k < m) PROVE UpperBound(kb, k) \in 1..Len(kb)+1 /\ cb[UpperBound(kb, k)] = cs[ci]
  <2> DEFINE j == UpperBound(kb, k)
  <2>0. m <= k
    BY <1>1, <1>3, <1>11
  <2>1. j \in 1..Len(kb)+1 /\ lo[cb[j]] <= k /\ k < hi[cb[j]]
    BY <1>1, <1>2, <1>3, <1>4, <1>8, <2>0, ChildFor
  <2> HIDE DEF j
  <2>2. j \in 1..n-mid /\ mid + 1 + j \in 1..n+1
    BY <1>5, <1>8, <2>1
  <2> QED
    BY <1>2, <1>9, <2>1, <2>2 DEF j
<1> QED
  BY <1>4, <1>10, <1>11 DEF Routes, ka, ca, kb, cb, m

\* A half that does not take the page split off below.
LEMMA HalfKept ==
    ASSUME NEW ks, Len(ks) \in Nat, NEW cs, NEW l, NEW h, NEW lo, NEW hi, Divides(ks, cs, l, h, lo, hi),
           NEW lo2, NEW hi2,
           \A c \in ToSet(cs) : lo2[c] = lo[c] /\ hi2[c] = hi[c],
           \A i \in 1..Len(ks)+1 : cs[i] \in ToSet(cs)
    PROVE  Divides(ks, cs, l, h, lo2, hi2)
<1>1. \A i \in 1..Len(ks)+1 : lo2[cs[i]] = lo[cs[i]] /\ hi2[cs[i]] = hi[cs[i]]
  OBVIOUS
<1> QED
  BY <1>1, DividesKept

\* Bounds before and after page a's split is known above: wide took it for all.
Rewidened(D, lo, hi, wide, a, s, lo2, wide2) ==
    /\ \A p \in D : lo2[p] = lo[p] /\ wide2[p] = hi[p] /\ (p # a => wide[p] = hi[p])
    /\ a \in D /\ s.right \in D /\ s.key \in Keys /\ s.right \in Pages
    /\ hi[a] = s.key /\ lo[s.right] = s.key /\ wide[a] = hi[s.right]

\* A half, or a node, with its parts.
Parts(ks, cs, D) ==
    /\ ks \in Seq(Keys) /\ cs \in Seq(Pages) /\ Len(cs) = Len(ks) + 1 /\ NoRepeat(cs)
    /\ ToSet(cs) \subseteq D

LEMMA HalfTakes ==
    ASSUME NEW D, NEW lo, NEW hi, NEW wide, NEW a, NEW s, NEW lo2, NEW wide2,
           Rewidened(D, lo, hi, wide, a, s, lo2, wide2),
           NEW ks, NEW cs, Parts(ks, cs, D), NEW l, NEW h, Divides(ks, cs, l, h, lo, wide),
           NEW j \in 1..Len(ks)+1, cs[j] = a
    PROVE  Divides(InsertAt(ks, j, s.key), InsertAt(cs, j + 1, s.right), l, h, lo2, wide2)
<1>1. /\ \A p \in D : lo2[p] = lo[p] /\ wide2[p] = hi[p] /\ (p # a => wide[p] = hi[p])
      /\ a \in D /\ s.right \in D /\ s.key \in Keys /\ s.right \in Pages
      /\ hi[a] = s.key /\ lo[s.right] = s.key /\ wide[a] = hi[s.right]
  BY DEF Rewidened
<1>2. /\ ks \in Seq(Keys) /\ cs \in Seq(Pages) /\ Len(cs) = Len(ks) + 1 /\ NoRepeat(cs)
      /\ ToSet(cs) \subseteq D
  BY DEF Parts
<1>3. DOMAIN cs = 1..Len(ks)+1 /\ \A i \in 1..Len(ks)+1 : cs[i] \in D
  <2>1. DOMAIN cs = 1..Len(cs) /\ \A i \in 1..Len(cs) : cs[i] \in ToSet(cs)
    BY <1>2, SeqIs, ToSetIs
  <2> QED
    BY <1>2, <2>1
<1>4. \A i \in 1..Len(ks)+1 : i # j => cs[i] # a
  BY <1>2, <1>3 DEF NoRepeat
<1>5. \A i \in 1..Len(ks)+1 : lo2[cs[i]] = lo[cs[i]] /\ (i # j => wide2[cs[i]] = wide[cs[i]])
  BY <1>1, <1>3, <1>4
<1>6. wide2[cs[j]] = s.key /\ lo2[s.right] = s.key /\ wide2[s.right] = wide[cs[j]]
  BY <1>1
<1>7. Takes(ks, cs, l, h, lo, wide, j, s.key, s.right, lo2, wide2)
  BY <1>1, <1>2, <1>5, <1>6 DEF Takes
<1> QED
  BY <1>7, DividesWith

\* The other half.
LEMMA HalfStays ==
    ASSUME NEW D, NEW lo, NEW hi, NEW wide, NEW a, NEW s, NEW lo2, NEW wide2,
           Rewidened(D, lo, hi, wide, a, s, lo2, wide2),
           NEW ks, NEW cs, Parts(ks, cs, D), NEW l, NEW h, Divides(ks, cs, l, h, lo, wide),
           a \notin ToSet(cs)
    PROVE  Divides(ks, cs, l, h, lo2, wide2)
<1>1. \A p \in D : lo2[p] = lo[p] /\ wide2[p] = hi[p] /\ (p # a => wide[p] = hi[p])
  BY DEF Rewidened
<1>2. /\ ks \in Seq(Keys) /\ cs \in Seq(Pages) /\ Len(cs) = Len(ks) + 1 /\ ToSet(cs) \subseteq D
  BY DEF Parts
<1>3. \A c \in ToSet(cs) : lo2[c] = lo[c] /\ wide2[c] = wide[c]
  BY <1>1, <1>2
<1>4. Len(ks) \in Nat /\ \A i \in 1..Len(ks)+1 : cs[i] \in ToSet(cs)
  BY <1>2, SeqIs, ToSetIs
<1> QED
  BY <1>3, <1>4, HalfKept

MidOf(n)    == Len(n.keys) \div 2
MedianOf(n) == n.keys[MidOf(n) + 1]
LowerOf(n)  == [n EXCEPT !.keys = SubSeq(@, 1, MidOf(n)), !.children = SubSeq(@, 1, MidOf(n) + 1)]
UpperOf(n)  == [n EXCEPT !.keys = SubSeq(@, MidOf(n) + 2, Len(@)),
                         !.children = SubSeq(@, MidOf(n) + 2, Len(@))]
RoutedOf(half, s) == WithChild(half, ChildIndexFor(half, s.key), s)

\* The halves of a full node and what is in them.
HalvesAre(n, D, l, h, lo, wide, a, k) ==
    LET lower == LowerOf(n)
        upper == UpperOf(n)
        m     == MedianOf(n)
    IN  /\ lower \in Internal /\ Parts(lower.keys, lower.children, D)
        /\ upper \in Internal /\ Parts(upper.keys, upper.children, D)
        /\ ToSet(lower.children) \cap ToSet(upper.children) = {}
        /\ m \in Keys /\ m \in Nat /\ l < m /\ m < h
        /\ Divides(lower.keys, lower.children, l, m, lo, wide)
        /\ Divides(upper.keys, upper.children, m, h, lo, wide)
        /\ k < m => LET j == ChildIndexFor(lower, k)
                    IN  j \in 1..Len(lower.keys)+1 /\ lower.children[j] = a
        /\ ~(k < m) => LET j == ChildIndexFor(upper, k)
                       IN  j \in 1..Len(upper.keys)+1 /\ upper.children[j] = a

LEMMA HalvesOf ==
    ASSUME NEW n \in Internal, Len(n.keys) = InternalMax, NEW D, Parts(n.keys, n.children, D),
           NEW l, NEW h, NEW lo, NEW wide, NEW ci, NEW k,
           Keyed(n.keys, n.children, l, h, lo, wide, ci, k)
    PROVE  HalvesAre(n, D, l, h, lo, wide, n.children[ci], k)
<1> DEFINE mid   == MidOf(n)
           m     == MedianOf(n)
           lower == LowerOf(n)
           upper == UpperOf(n)
           ka == SubSeq(n.keys, 1, mid)
           ca == SubSeq(n.children, 1, mid + 1)
           kb == SubSeq(n.keys, mid + 2, Len(n.keys))
           cb == SubSeq(n.children, mid + 2, Len(n.children))
<1>1. /\ n.keys \in Seq(Keys) /\ n.children \in Seq(Pages) /\ Len(n.children) = Len(n.keys) + 1
      /\ NoRepeat(n.children) /\ ToSet(n.children) \subseteq D
  BY DEF Parts
<1>2. Halved(lower, upper, n) /\ m \in Keys
  BY <1>1, InternalHalves DEF LowerOf, UpperOf, MidOf, MedianOf
<1>3. /\ lower \in Internal /\ Len(lower.children) = Len(lower.keys) + 1 /\ NoRepeat(lower.children)
      /\ upper \in Internal /\ Len(upper.children) = Len(upper.keys) + 1 /\ NoRepeat(upper.children)
      /\ ToSet(lower.children) \cup ToSet(upper.children) = ToSet(n.children)
      /\ ToSet(lower.children) \cap ToSet(upper.children) = {}
  BY <1>2 DEF Halved
<1>4. lower = [n EXCEPT !.keys = ka, !.children = ca] /\ upper = [n EXCEPT !.keys = kb, !.children = cb]
  BY DEF LowerOf, UpperOf
<1>5. mid \in 0..Len(n.keys)-1
  BY Minima DEF MidOf
<1>6. n.keys[mid + 1] = m
  BY DEF MedianOf
<1> HIDE DEF lower, upper, mid, m
<1>7. /\ Divides(ka, ca, l, m, lo, wide) /\ Divides(kb, cb, m, h, lo, wide)
      /\ k < m => UpperBound(ka, k) \in 1..Len(ka)+1 /\ ca[UpperBound(ka, k)] = n.children[ci]
      /\ ~(k < m) => UpperBound(kb, k) \in 1..Len(kb)+1 /\ cb[UpperBound(kb, k)] = n.children[ci]
  <2> DEFINE x == n.keys[mid + 1]
  <2>0. Routes(n.keys, n.children, l, h, lo, wide, ci, k, mid)
    BY <1>5, HalfRouted
  <2>1. /\ Divides(ka, ca, l, x, lo, wide) /\ Divides(kb, cb, x, h, lo, wide)
        /\ k < x => UpperBound(ka, k) \in 1..Len(ka)+1 /\ ca[UpperBound(ka, k)] = n.children[ci]
        /\ ~(k < x) => UpperBound(kb, k) \in 1..Len(kb)+1 /\ cb[UpperBound(kb, k)] = n.children[ci]
    BY <2>0 DEF Routes
  <2>2. x = m
    BY <1>6
  <2> HIDE DEF ka, ca, kb, cb, x
  <2> QED
    BY <2>1, <2>2
<1>8. m \in Nat /\ l < m /\ m < h
  BY <1>5, <1>6, MedianInside
<1> HIDE DEF ka, ca, kb, cb
<1>9. /\ lower.keys = ka /\ lower.children = ca /\ upper.keys = kb /\ upper.children = cb
  BY <1>4 DEF Internal
<1>10. Parts(lower.keys, lower.children, D) /\ Parts(upper.keys, upper.children, D)
  <2>1. /\ lower.keys \in Seq(Keys) /\ lower.children \in Seq(Pages)
        /\ upper.keys \in Seq(Keys) /\ upper.children \in Seq(Pages)
    BY <1>3, InternalIs
  <2> QED
    BY <1>1, <1>3, <2>1 DEF Parts
<1>11. /\ k < m => LET j == ChildIndexFor(lower, k)
                   IN  j \in 1..Len(lower.keys)+1 /\ lower.children[j] = n.children[ci]
       /\ ~(k < m) => LET j == ChildIndexFor(upper, k)
                      IN  j \in 1..Len(upper.keys)+1 /\ upper.children[j] = n.children[ci]
  BY <1>7, <1>9 DEF ChildIndexFor
<1>12. Divides(lower.keys, lower.children, l, m, lo, wide) /\ Divides(upper.keys, upper.children, m, h, lo, wide)
  BY <1>7, <1>9
<1> QED
  BY <1>2, <1>3, <1>8, <1>10, <1>11, <1>12 DEF HalvesAre, lower, upper, m

\* One half of a node that splits: the page split off below goes into it, or not.
Settles(half, j, s, D, a, into, n) ==
    /\ half \in Internal /\ Parts(half.keys, half.children, D)
    /\ into => /\ j \in 1..Len(half.keys)+1 /\ half.children[j] = a
               /\ n = WithChild(half, j, s)
    /\ ~into => a \notin ToSet(half.children) /\ n = half

LEMMA HalfSettled ==
    ASSUME NEW D, NEW lo, NEW hi, NEW wide, NEW a, NEW s, NEW lo2, NEW wide2,
           Rewidened(D, lo, hi, wide, a, s, lo2, wide2),
           NEW half, NEW j, NEW into, NEW n, Settles(half, j, s, D, a, into, n),
           NEW l, NEW h, Divides(half.keys, half.children, l, h, lo, wide)
    PROVE  n.kind = "internal" /\ Divides(n.keys, n.children, l, h, lo2, wide2)
<1>1. half \in Internal /\ Parts(half.keys, half.children, D)
  BY DEF Settles
<1>2. CASE into
  <2>1. j \in 1..Len(half.keys)+1 /\ half.children[j] = a /\ n = WithChild(half, j, s)
    BY <1>2 DEF Settles
  <2>2. /\ n.keys = InsertAt(half.keys, j, s.key) /\ n.kind = "internal"
        /\ n.children = InsertAt(half.children, j + 1, s.right)
    BY <1>1, <2>1, WithChildParts
  <2>3. Divides(InsertAt(half.keys, j, s.key), InsertAt(half.children, j + 1, s.right), l, h, lo2, wide2)
    BY <1>1, <2>1, HalfTakes
  <2> QED
    BY <2>2, <2>3
<1>3. CASE ~into
  <2>1. a \notin ToSet(half.children) /\ n = half
    BY <1>3 DEF Settles
  <2>2. Divides(half.keys, half.children, l, h, lo2, wide2)
    BY <1>1, <2>1, HalfStays
  <2>3. half.kind = "internal"
    BY <1>1, InternalIs
  <2> QED
    BY <2>1, <2>2, <2>3
<1> QED
  BY <1>2, <1>3

\* A full node, q, splits, and one of the halves takes the page split off below:
\* t is a new page.
Parting(f, r, lo, hi, q, ci, s, t, g) ==
    /\ Splitting(f, r, lo, hi, q, ci, s) /\ Len(f[q].keys) = InternalMax
    /\ t \in Pages /\ t \notin DOMAIN f
    /\ DOMAIN g = DOMAIN f \cup {t} /\ \A p \in DOMAIN f : p # q => g[p] = f[p]
    /\ g[q] = IF s.key < MedianOf(f[q]) THEN RoutedOf(LowerOf(f[q]), s) ELSE LowerOf(f[q])
    /\ g[t] = IF s.key < MedianOf(f[q]) THEN UpperOf(f[q]) ELSE RoutedOf(UpperOf(f[q]), s)

LEMMA OrderParted ==
    ASSUME NEW f, NEW r, NEW lo, NEW hi, NEW q, NEW ci, NEW s, NEW t, NEW g,
           Parting(f, r, lo, hi, q, ci, s, t, g)
    PROVE  SplitOrder(g, r, q, t, MedianOf(f[q])) /\ Held(g) = Held(f)
<1> DEFINE D    == DOMAIN f
           n    == f[q]
           a    == n.children[ci]
           wide == Widened(hi, a, s.right)
           m    == MedianOf(n)
           lower == LowerOf(n)
           upper == UpperOf(n)
<1>1. /\ Splitting(f, r, lo, hi, q, ci, s) /\ Len(n.keys) = InternalMax
      /\ t \in Pages /\ t \notin D
      /\ DOMAIN g = D \cup {t} /\ \A p \in D : p # q => g[p] = f[p]
  BY DEF Parting
<1>2. /\ Related(f) /\ Ordered(f, r, lo, hi, wide)
      /\ q \in D /\ n.kind # "leaf" /\ ci \in 1..Len(n.keys)+1
      /\ a # r /\ s.right \in D /\ s.key \in Keys /\ hi[a] = s.key /\ lo[s.right] = s.key
  BY <1>1 DEF Splitting
<1>3. /\ n \in Internal /\ q \in D \ LeavesOf(f) /\ n.keys \in Seq(Keys) /\ n.children \in Seq(Pages)
      /\ Len(n.children) = Len(n.keys) + 1 /\ NoRepeat(n.children) /\ ToSet(n.children) \subseteq D
  BY <1>2, BranchIs
<1>4. /\ a \in D /\ wide[a] = hi[s.right] /\ \A p \in D : p # a => wide[p] = hi[p]
      /\ Divides(n.keys, n.children, lo[q], hi[q], lo, wide)
      /\ \A i \in 1..Len(n.keys)+1 : lo[n.children[i]] < wide[n.children[i]]
      /\ lo[q] \in Nat /\ hi[q] \in Nat /\ lo[a] < s.key /\ s.key < wide[a]
      /\ \A p \in D : p # q => a \notin ToSet(Kids(f[p]))
  BY <1>1, SplittingIs
<1>5. s.key \in Nat /\ s.right \in Pages
  BY <1>2, NodesAre, KeysAre DEF Related
<1>6. /\ lo \in [D -> Nat] /\ hi \in [D -> Nat] /\ Spanned(D, lo, hi)
      /\ Leaves(f, lo, hi) /\ Branches(f, lo, hi, wide)
      /\ r \in D /\ lo[r] = 0 /\ wide[r] = MaxKey + 1
  BY <1>2 DEF Ordered, Spans
<1>7. Parts(n.keys, n.children, D)
  BY <1>3 DEF Parts
<1>8. Keyed(n.keys, n.children, lo[q], hi[q], lo, wide, ci, s.key)
  <2>1. lo[a] \in Nat /\ wide[a] \in Nat
    BY <1>2, <1>4, <1>6
  <2>2. lo[a] <= s.key
    BY <1>4, <1>5, <2>1
  <2> HIDE DEF wide, n
  <2> QED
    BY <1>2, <1>3, <1>4, <1>5, <2>2 DEF Keyed
<1>9. HalvesAre(n, D, lo[q], hi[q], lo, wide, a, s.key)
  BY <1>1, <1>3, <1>7, <1>8, HalvesOf
<1>10. /\ lower \in Internal /\ Parts(lower.keys, lower.children, D)
       /\ upper \in Internal /\ Parts(upper.keys, upper.children, D)
       /\ ToSet(lower.children) \cap ToSet(upper.children) = {}
       /\ m \in Keys /\ m \in Nat /\ lo[q] < m /\ m < hi[q]
       /\ Divides(lower.keys, lower.children, lo[q], m, lo, wide)
       /\ Divides(upper.keys, upper.children, m, hi[q], lo, wide)
       /\ s.key < m => LET j == ChildIndexFor(lower, s.key)
                       IN  j \in 1..Len(lower.keys)+1 /\ lower.children[j] = a
       /\ ~(s.key < m) => LET j == ChildIndexFor(upper, s.key)
                          IN  j \in 1..Len(upper.keys)+1 /\ upper.children[j] = a
  BY <1>9 DEF HalvesAre
<1>11. /\ g[q] = IF s.key < m THEN RoutedOf(lower, s) ELSE lower
       /\ g[t] = IF s.key < m THEN upper ELSE RoutedOf(upper, s)
  BY DEF Parting
<1>12. PICK lo2, hi2 : CutBounds(D, lo, hi, q, t, m, lo2, hi2)
  <2>1. CutAt(D, lo, hi, q, t, m)
    BY <1>1, <1>2, <1>6, <1>10 DEF CutAt
  <2> QED
    BY <2>1, BoundsCut
<1> DEFINE wide2 == Widened(hi2, q, t)
<1>13. /\ lo2 \in [D \cup {t} -> Nat] /\ hi2 \in [D \cup {t} -> Nat] /\ Spanned(D \cup {t}, lo2, hi2)
       /\ lo2[t] = m /\ \A p \in D : lo2[p] = lo[p]
       /\ hi2[t] = hi[q] /\ hi2[q] = m /\ \A p \in D : p # q => hi2[p] = hi[p]
       /\ wide2[t] = hi[q] /\ \A p \in D : wide2[p] = hi[p]
  BY <1>12 DEF CutBounds
<1> HIDE DEF wide, wide2, lower, upper, m, a, n, D
<1>14. Rewidened(D, lo, hi, wide, a, s, lo2, wide2)
  BY <1>2, <1>4, <1>5, <1>13 DEF Rewidened
<1>15. \A h \in {lower, upper} : \A j \in 1..Len(h.keys)+1 : h.children[j] = a => a \in ToSet(h.children)
  <2>1. ASSUME NEW h \in {lower, upper}, NEW j \in 1..Len(h.keys)+1
        PROVE  h.children[j] \in ToSet(h.children)
    <3>1. Parts(h.keys, h.children, D)
      BY <1>10
    <3>2. h.children \in Seq(Pages) /\ Len(h.children) = Len(h.keys) + 1
      BY <3>1 DEF Parts
    <3> QED
      BY <3>2, ToSetIs
  <2> QED
    BY <2>1
<1>16. Settles(lower, ChildIndexFor(lower, s.key), s, D, a, s.key < m, g[q])
  <2>1. s.key < m => g[q] = WithChild(lower, ChildIndexFor(lower, s.key), s)
    BY <1>11 DEF RoutedOf
  <2>2. ~(s.key < m) => g[q] = lower
    BY <1>11
  <2>3. ~(s.key < m) => a \in ToSet(upper.children)
    BY <1>10, <1>15
  <2> QED
    BY <1>10, <2>1, <2>2, <2>3 DEF Settles
<1> DEFINE above == ~(s.key < m)
<1>17. Settles(upper, ChildIndexFor(upper, s.key), s, D, a, above, g[t])
  <2>1. ~(s.key < m) => g[t] = WithChild(upper, ChildIndexFor(upper, s.key), s)
    BY <1>11 DEF RoutedOf
  <2>2. s.key < m => g[t] = upper
    BY <1>11
  <2>3. s.key < m => a \in ToSet(lower.children)
    BY <1>10, <1>15
  <2> QED
    BY <1>10, <2>1, <2>2, <2>3 DEF Settles
<1> HIDE DEF above
<1>18. g[q].kind = "internal" /\ Divides(g[q].keys, g[q].children, lo[q], m, lo2, wide2)
  BY <1>10, <1>14, <1>16, HalfSettled
<1>19. g[t].kind = "internal" /\ Divides(g[t].keys, g[t].children, m, hi[q], lo2, wide2)
  <2>1. Divides(upper.keys, upper.children, m, hi[q], lo, wide)
    BY <1>10
  <2> QED
    BY <1>14, <1>17, <2>1, HalfSettled
<1>20. LeavesOf(g) = LeavesOf(f)
  <2>1. \A p \in D : p # q => g[p].kind = f[p].kind
    BY <1>1
  <2> QED
    BY <1>1, <1>3, <1>18, <1>19, <2>1 DEF LeavesOf, D
<1>21. \A p \in LeavesOf(f) : p \in D /\ p # q
  BY <1>3 DEF LeavesOf, D
<1>22. Leaves(g, lo2, hi2) /\ Held(g) = Held(f)
  <2>1. \A p \in LeavesOf(f) : g[p] = f[p] /\ lo2[p] = lo[p] /\ hi2[p] = hi[p]
    BY <1>1, <1>13, <1>21
  <2> QED
    BY <1>6, <1>20, <2>1, LeavesKept
<1>23. Elsewhere(f, lo, hi, wide, g, lo2, hi2, wide2, {q, t})
  <2> SUFFICES ASSUME NEW p \in (DOMAIN g \ LeavesOf(g)) \ {q, t}
               PROVE  /\ p \in DOMAIN f \ LeavesOf(f) /\ g[p] = f[p] /\ lo2[p] = lo[p] /\ hi2[p] = hi[p]
                      /\ \A c \in ToSet(Kids(f[p])) : lo2[c] = lo[c] /\ wide2[c] = wide[c]
    BY DEF Elsewhere
  <2>1. p \in D \ LeavesOf(f) /\ p # q
    BY <1>1, <1>20
  <2>2. ToSet(Kids(f[p])) \subseteq D /\ a \notin ToSet(Kids(f[p]))
    BY <1>2, <1>4, <2>1 DEF Related, D
  <2>3. g[p] = f[p] /\ lo2[p] = lo[p] /\ hi2[p] = hi[p]
    BY <1>1, <1>13, <2>1
  <2>4. \A c \in ToSet(Kids(f[p])) : lo2[c] = lo[c] /\ wide2[c] = wide[c]
    BY <1>4, <1>13, <2>2
  <2> QED
    BY <2>1, <2>3, <2>4 DEF D
<1>24. Branches(g, lo2, hi2, wide2)
  <2>1. lo2[q] = lo[q] /\ hi2[q] = m /\ lo2[t] = m /\ hi2[t] = hi[q]
    BY <1>2, <1>13
  <2>2. \A p \in {q, t} : Divides(g[p].keys, g[p].children, lo2[p], hi2[p], lo2, wide2)
    BY <1>18, <1>19, <2>1
  <2> QED
    BY <1>2, <1>6, <1>23, <2>2, BranchesKept
<1>25. r \in DOMAIN g /\ lo2[r] = 0 /\ wide2[r] = MaxKey + 1
  <2>1. hi[r] = wide[r]
    BY <1>2, <1>4, <1>6
  <2> QED
    BY <1>1, <1>6, <1>13, <2>1
<1>26. Ordered(g, r, lo2, hi2, wide2)
  BY <1>1, <1>13, <1>22, <1>24, <1>25 DEF Ordered, Spans
<1>27. SplitOrder(g, r, q, t, m)
  <2>1. /\ lo2 \in [DOMAIN g -> Nat] /\ hi2 \in [DOMAIN g -> Nat] /\ Ordered(g, r, lo2, hi2, Widened(hi2, q, t))
        /\ hi2[q] = m /\ lo2[t] = m
    BY <1>1, <1>13, <1>26 DEF wide2
  <2> QED
    BY <2>1, Zenon DEF SplitOrder
<1> QED
  BY <1>22, <1>27 DEF m, n

\* The pages have bounds, with no split under way.
InOrder(f, r) == \E lo, hi \in [DOMAIN f -> Nat] : Ordered(f, r, lo, hi, hi)

\* A new root, t, over the old one and the page split off it.
Growing(f, r, s, k, t, g) ==
    /\ Related(f) /\ SplitOrder(f, r, r, s, k) /\ k \in Keys
    /\ s \in DOMAIN f /\ r # s /\ t \notin DOMAIN f
    /\ \A p \in DOMAIN f : r \notin ToSet(Kids(f[p])) /\ s \notin ToSet(Kids(f[p]))
    /\ DOMAIN g = DOMAIN f \cup {t} /\ \A p \in DOMAIN f : g[p] = f[p]
    /\ g[t] = [kind |-> "internal", keys |-> <<k>>, children |-> <<r, s>>]

LEMMA OrderGrown ==
    ASSUME NEW f, NEW r, NEW s, NEW k, NEW t, NEW g, Growing(f, r, s, k, t, g)
    PROVE  InOrder(g, t) /\ Held(g) = Held(f)
<1> DEFINE D == DOMAIN f
<1>1. /\ Related(f) /\ SplitOrder(f, r, r, s, k) /\ k \in Keys
      /\ s \in D /\ r # s /\ t \notin D
      /\ \A p \in D : r \notin ToSet(Kids(f[p])) /\ s \notin ToSet(Kids(f[p]))
      /\ DOMAIN g = D \cup {t} /\ \A p \in D : g[p] = f[p]
      /\ g[t] = [kind |-> "internal", keys |-> <<k>>, children |-> <<r, s>>]
  BY DEF Growing
<1>2. PICK lo, hi \in [D -> Nat] : Ordered(f, r, lo, hi, Widened(hi, r, s)) /\ hi[r] = k /\ lo[s] = k
  BY <1>1, Zenon DEF SplitOrder
<1> DEFINE wide == Widened(hi, r, s)
           lo2  == [p \in D \cup {t} |-> IF p = t THEN 0 ELSE lo[p]]
           hi2  == [p \in D \cup {t} |-> IF p = t THEN MaxKey + 1 ELSE hi[p]]
<1>3. /\ Spanned(D, lo, hi) /\ Leaves(f, lo, hi) /\ Branches(f, lo, hi, wide)
      /\ r \in D /\ lo[r] = 0 /\ wide[r] = MaxKey + 1
  BY <1>2 DEF Ordered, Spans
<1>4. wide[r] = hi[s] /\ \A p \in D : p # r => wide[p] = hi[p]
  BY <1>2, <1>3 DEF Widened
<1>5. MaxKey + 1 \in Nat /\ 0 < MaxKey + 1 /\ MaxKey + 1 <= MaxKey + 1
  BY Minima
<1>6. lo2 \in [D \cup {t} -> Nat] /\ lo2[t] = 0 /\ \A p \in D : lo2[p] = lo[p]
  BY <1>1
<1>7. hi2 \in [D \cup {t} -> Nat] /\ hi2[t] = MaxKey + 1 /\ \A p \in D : hi2[p] = hi[p]
  BY <1>1, <1>5
<1> HIDE DEF wide, lo2, hi2
<1>8. Spanned(D \cup {t}, lo2, hi2)
  <2> SUFFICES ASSUME NEW p \in D \cup {t}
               PROVE  lo2[p] \in Nat /\ hi2[p] \in Nat /\ lo2[p] < hi2[p] /\ hi2[p] <= MaxKey + 1
    BY DEF Spanned
  <2>1. CASE p = t
    BY <1>5, <1>6, <1>7, <2>1
  <2>2. CASE p \in D
    <3>1. lo[p] \in Nat /\ hi[p] \in Nat /\ lo[p] < hi[p] /\ hi[p] <= MaxKey + 1
      BY <1>3, <2>2 DEF Spanned
    <3> QED
      BY <1>6, <1>7, <2>2, <3>1
  <2> QED
    BY <2>1, <2>2
<1>9. g[t].kind = "internal" /\ g[t].keys = <<k>> /\ g[t].children = <<r, s>>
  BY <1>1
<1>10. Divides(g[t].keys, g[t].children, lo2[t], hi2[t], lo2, hi2)
  <2>1. /\ lo2[r] = 0 /\ hi2[r] = k /\ lo2[s] = k /\ hi2[s] = MaxKey + 1
    BY <1>1, <1>2, <1>3, <1>4, <1>6, <1>7
  <2> DEFINE ks == <<k>>
             cs == <<r, s>>
  <2>2. Len(ks) = 1 /\ ks[1] = k /\ cs[1] = r /\ cs[2] = s
    OBVIOUS
  <2> HIDE DEF ks, cs
  <2>3. Bound(ks, 0, MaxKey + 1, 0) = 0 /\ Bound(ks, 0, MaxKey + 1, 1) = k /\ Bound(ks, 0, MaxKey + 1, 2) = MaxKey + 1
    BY <2>2 DEF Bound
  <2>4. Divides(ks, cs, 0, MaxKey + 1, lo2, hi2)
    <3> SUFFICES ASSUME NEW i \in 1..2
                 PROVE  /\ lo2[cs[i]] = Bound(ks, 0, MaxKey + 1, i - 1)
                        /\ hi2[cs[i]] = Bound(ks, 0, MaxKey + 1, i)
      BY <2>2 DEF Divides
    <3>1. CASE i = 1
      BY <2>1, <2>2, <2>3, <3>1
    <3>2. CASE i = 2
      BY <2>1, <2>2, <2>3, <3>2
    <3> QED
      BY <3>1, <3>2
  <2> QED
    BY <1>6, <1>7, <1>9, <2>4 DEF ks, cs
<1>11. LeavesOf(g) = LeavesOf(f)
  BY <1>1, <1>9 DEF LeavesOf
<1>12. Leaves(g, lo2, hi2) /\ Held(g) = Held(f)
  <2>1. \A p \in LeavesOf(f) : g[p] = f[p] /\ lo2[p] = lo[p] /\ hi2[p] = hi[p]
    BY <1>1, <1>6, <1>7 DEF LeavesOf
  <2> QED
    BY <1>3, <1>11, <2>1, LeavesKept
<1>13. Elsewhere(f, lo, hi, wide, g, lo2, hi2, hi2, {t})
  <2> SUFFICES ASSUME NEW p \in (DOMAIN g \ LeavesOf(g)) \ {t}
               PROVE  /\ p \in DOMAIN f \ LeavesOf(f) /\ g[p] = f[p] /\ lo2[p] = lo[p] /\ hi2[p] = hi[p]
                      /\ \A c \in ToSet(Kids(f[p])) : lo2[c] = lo[c] /\ hi2[c] = wide[c]
    BY DEF Elsewhere
  <2>1. p \in D \ LeavesOf(f)
    BY <1>1, <1>11
  <2>2. ToSet(Kids(f[p])) \subseteq D /\ r \notin ToSet(Kids(f[p]))
    BY <1>1, <2>1 DEF Related
  <2> QED
    BY <1>1, <1>4, <1>6, <1>7, <2>1, <2>2
<1>14. Branches(g, lo2, hi2, hi2)
  <2>1. \A p \in {t} : Divides(g[p].keys, g[p].children, lo2[p], hi2[p], lo2, hi2)
    BY <1>10
  <2> QED
    BY <1>1, <1>3, <1>13, <2>1, BranchesKept
<1>15. Ordered(g, t, lo2, hi2, hi2)
  BY <1>1, <1>6, <1>7, <1>8, <1>12, <1>14 DEF Ordered, Spans
<1>16. InOrder(g, t)
  <2>1. lo2 \in [DOMAIN g -> Nat] /\ hi2 \in [DOMAIN g -> Nat]
    BY <1>1, <1>6, <1>7
  <2> QED
    BY <1>15, <2>1, Zenon DEF InOrder
<1> QED
  BY <1>12, <1>16

\* A root, r, with a single child, c, gives way to it.
Shrinking(f, r, c, g) ==
    /\ Related(f) /\ InOrder(f, r)
    /\ r \in DOMAIN f /\ f[r].kind # "leaf" /\ f[r].keys = <<>> /\ c = f[r].children[1]
    /\ \A p \in DOMAIN f : r \notin ToSet(Kids(f[p]))
    /\ DOMAIN g = DOMAIN f \ {r} /\ \A p \in DOMAIN g : g[p] = f[p]

LEMMA OrderShrunk ==
    ASSUME NEW f, NEW r, NEW c, NEW g, Shrinking(f, r, c, g)
    PROVE  InOrder(g, c) /\ Held(g) = Held(f)
<1> DEFINE D == DOMAIN f
<1>1. /\ Related(f) /\ InOrder(f, r)
      /\ r \in D /\ f[r].kind # "leaf" /\ f[r].keys = <<>> /\ c = f[r].children[1]
      /\ \A p \in D : r \notin ToSet(Kids(f[p]))
      /\ DOMAIN g = D \ {r} /\ \A p \in DOMAIN g : g[p] = f[p]
  BY DEF Shrinking
<1>2. PICK lo, hi \in [D -> Nat] : Ordered(f, r, lo, hi, hi)
  BY <1>1, Zenon DEF InOrder
<1> DEFINE lo2  == [p \in D \ {r} |-> lo[p]]
           hi2  == [p \in D \ {r} |-> hi[p]]
<1>3. /\ Spanned(D, lo, hi) /\ Leaves(f, lo, hi) /\ Branches(f, lo, hi, hi)
      /\ r \in D /\ lo[r] = 0 /\ hi[r] = MaxKey + 1
  BY <1>2 DEF Ordered, Spans
<1>4. /\ r \in D \ LeavesOf(f) /\ Kids(f[r]) = f[r].children /\ ToSet(f[r].children) \subseteq D
      /\ \A i \in 1..Len(f[r].keys)+1 : f[r].children[i] \in ToSet(f[r].children)
  BY <1>1, BranchIs
<1>5. Len(f[r].keys) = 0
  BY <1>1
<1>6. c \in D \ {r}
  <2>1. 1 \in 1..Len(f[r].keys)+1
    BY <1>5
  <2> QED
    BY <1>1, <1>4, <2>1
<1>7. lo[c] = 0 /\ hi[c] = MaxKey + 1
  <2>1. Divides(f[r].keys, f[r].children, lo[r], hi[r], lo, hi)
    BY <1>3, <1>4 DEF Branches
  <2>2. 1 \in 1..Len(f[r].keys)+1
    BY <1>5
  <2>3. lo[c] = Bound(f[r].keys, lo[r], hi[r], 0) /\ hi[c] = Bound(f[r].keys, lo[r], hi[r], 1)
    <3>1. lo[c] = Bound(f[r].keys, lo[r], hi[r], 1 - 1) /\ hi[c] = Bound(f[r].keys, lo[r], hi[r], 1)
      BY <1>1, <2>1, <2>2 DEF Divides
    <3>2. 1 - 1 = 0
      OBVIOUS
    <3> QED
      BY <3>1, <3>2
  <2> QED
    BY <1>3, <1>5, <2>3 DEF Bound
<1>8. lo2 \in [DOMAIN g -> Nat] /\ hi2 \in [DOMAIN g -> Nat] /\ \A p \in D \ {r} : lo2[p] = lo[p] /\ hi2[p] = hi[p]
  BY <1>1
<1> HIDE DEF lo2, hi2
<1>9. LeavesOf(g) = LeavesOf(f) /\ \A p \in LeavesOf(f) : p \in D \ {r}
  BY <1>1, <1>4 DEF LeavesOf
<1>10. Leaves(g, lo2, hi2) /\ Held(g) = Held(f)
  <2>1. \A p \in LeavesOf(f) : g[p] = f[p] /\ lo2[p] = lo[p] /\ hi2[p] = hi[p]
    BY <1>1, <1>8, <1>9
  <2> QED
    BY <1>3, <1>9, <2>1, LeavesKept
<1>11. Elsewhere(f, lo, hi, hi, g, lo2, hi2, hi2, {})
  <2> SUFFICES ASSUME NEW p \in DOMAIN g \ LeavesOf(g)
               PROVE  /\ p \in DOMAIN f \ LeavesOf(f) /\ g[p] = f[p] /\ lo2[p] = lo[p] /\ hi2[p] = hi[p]
                      /\ \A d \in ToSet(Kids(f[p])) : lo2[d] = lo[d] /\ hi2[d] = hi[d]
    BY DEF Elsewhere
  <2>1. p \in D \ LeavesOf(f) /\ p # r
    BY <1>1, <1>9
  <2>2. ToSet(Kids(f[p])) \subseteq D \ {r}
    BY <1>1, <2>1 DEF Related
  <2> QED
    BY <1>1, <1>8, <2>1, <2>2
<1>12. Branches(g, lo2, hi2, hi2)
  BY <1>1, <1>3, <1>11, BranchesKept
<1>13. Spanned(DOMAIN g, lo2, hi2)
  BY <1>1, <1>3, <1>8 DEF Spanned
<1>14. Ordered(g, c, lo2, hi2, hi2)
  BY <1>1, <1>6, <1>7, <1>8, <1>10, <1>12, <1>13 DEF Ordered, Spans
<1>15. InOrder(g, c)
  BY <1>8, <1>14, Zenon DEF InOrder
<1> QED
  BY <1>10, <1>15
-----------------------------------------------------------------------------
(* Two neighbours that trade, and two that become one.                     *)

\* The parts of a node that divide its keys, none of them empty.
Parceled(ks, cs, l, h, lo, hi) ==
    /\ ks \in Seq(Keys) /\ l \in Nat /\ h \in Nat /\ Divides(ks, cs, l, h, lo, hi)
    /\ \A i \in 1..Len(ks)+1 : lo[cs[i]] < hi[cs[i]]

LEMMA KeyInside ==
    ASSUME NEW ks, NEW cs, NEW l, NEW h, NEW lo, NEW hi, Parceled(ks, cs, l, h, lo, hi),
           NEW j \in 1..Len(ks)
    PROVE  /\ l < ks[j] /\ ks[j] < h /\ ks[j] \in Keys
           /\ hi[cs[j]] = ks[j] /\ lo[cs[j+1]] = ks[j]
<1>0. /\ ks \in Seq(Keys) /\ l \in Nat /\ h \in Nat /\ Divides(ks, cs, l, h, lo, hi)
      /\ \A i \in 1..Len(ks)+1 : lo[cs[i]] < hi[cs[i]]
  BY DEF Parceled
<1> USE <1>0
<1>1. ks \in Seq(Nat) /\ Len(ks) \in Nat /\ ks[j] \in Keys
  BY NaturalKeys, SeqIs
<1> DEFINE n == Len(ks)
<1>2. /\ \A i \in 0..n+1 : Bound(ks, l, h, i) \in Nat
      /\ \A i, m \in 0..n+1 : i < m => Bound(ks, l, h, i) < Bound(ks, l, h, m)
  BY <1>1, BoundsAscend
<1>3. \A i \in 1..n+1 : lo[cs[i]] = Bound(ks, l, h, i - 1) /\ hi[cs[i]] = Bound(ks, l, h, i)
  BY DEF Divides
<1>4. n = Len(ks) /\ n \in Nat /\ j \in 1..n
  BY <1>1
<1> HIDE DEF n
<1>5. /\ 0 \in 0..n+1 /\ j \in 0..n+1 /\ n + 1 \in 0..n+1 /\ 0 < j /\ j < n + 1
      /\ j # 0 /\ j # n + 1 /\ n + 1 # 0 /\ j \in 1..n+1 /\ j + 1 \in 1..n+1 /\ j + 1 - 1 = j
  BY <1>4
<1>6. Bound(ks, l, h, 0) = l /\ Bound(ks, l, h, j) = ks[j] /\ Bound(ks, l, h, n + 1) = h
  BY <1>4, <1>5 DEF Bound
<1>7. lo[cs[j+1]] = Bound(ks, l, h, j + 1 - 1) /\ hi[cs[j]] = Bound(ks, l, h, j)
  BY <1>3, <1>5
<1> QED
  BY <1>1, <1>2, <1>5, <1>6, <1>7

\* Children i and i + 1 of page q.
Neighbours(f, top, lo, hi, q, i, l, r) ==
    /\ Related(f) /\ Ordered(f, top, lo, hi, hi)
    /\ q \in DOMAIN f /\ f[q].kind # "leaf" /\ i \in 1..Len(f[q].keys)
    /\ l = f[q].children[i] /\ r = f[q].children[i+1]
    /\ l # q /\ r # q /\ l # r /\ l # top /\ r # top /\ f[l].kind = f[r].kind

LEMMA NeighboursAre ==
    ASSUME NEW f, NEW top, NEW lo, NEW hi, NEW q, NEW i, NEW l, NEW r,
           Neighbours(f, top, lo, hi, q, i, l, r)
    PROVE  /\ l \in DOMAIN f /\ r \in DOMAIN f
           /\ f[q].keys[i] \in Keys /\ hi[l] = f[q].keys[i] /\ lo[r] = f[q].keys[i]
           /\ \A j \in 1..Len(f[q].keys)+1 : /\ j # i => f[q].children[j] # l
                                             /\ j # i + 1 => f[q].children[j] # r
           /\ \A p \in DOMAIN f : p # q => l \notin ToSet(Kids(f[p])) /\ r \notin ToSet(Kids(f[p]))
           /\ \A p \in DOMAIN f : lo[p] \in Nat /\ hi[p] \in Nat /\ lo[p] < hi[p] /\ hi[p] <= MaxKey + 1
           /\ Divides(f[q].keys, f[q].children, lo[q], hi[q], lo, hi)
           /\ q \in DOMAIN f \ LeavesOf(f)
<1> DEFINE n == f[q]
<1>1. /\ Related(f) /\ Ordered(f, top, lo, hi, hi)
      /\ q \in DOMAIN f /\ n.kind # "leaf" /\ i \in 1..Len(n.keys)
      /\ l = n.children[i] /\ r = n.children[i+1]
  BY DEF Neighbours
<1>2. /\ q \in DOMAIN f \ LeavesOf(f) /\ Kids(n) = n.children /\ NoRepeat(n.children)
      /\ n.keys \in Seq(Keys) /\ n.children \in Seq(Pages)
      /\ Len(n.keys) \in Nat /\ Len(n.children) = Len(n.keys) + 1
      /\ ToSet(n.children) \subseteq DOMAIN f
      /\ \A j \in 1..Len(n.keys)+1 : n.children[j] \in ToSet(n.children)
  BY <1>1, BranchIs
<1>3. i \in 1..Len(n.keys)+1 /\ i + 1 \in 1..Len(n.keys)+1
  BY <1>1, <1>2
<1>4. /\ l \in DOMAIN f /\ r \in DOMAIN f /\ l \in ToSet(Kids(n)) /\ r \in ToSet(Kids(n))
  BY <1>1, <1>2, <1>3
<1>5. Spanned(DOMAIN f, lo, hi) /\ Branches(f, lo, hi, hi)
  BY <1>1 DEF Ordered, Spans
<1>6. Divides(n.keys, n.children, lo[q], hi[q], lo, hi)
  BY <1>2, <1>5 DEF Branches
<1>7. \A p \in DOMAIN f : lo[p] \in Nat /\ hi[p] \in Nat /\ lo[p] < hi[p] /\ hi[p] <= MaxKey + 1
  BY <1>5 DEF Spanned
<1>8. \A j \in 1..Len(n.keys)+1 : lo[n.children[j]] < hi[n.children[j]]
  BY <1>2, <1>7
<1>9. lo[q] \in Nat /\ hi[q] \in Nat
  BY <1>1, <1>7
<1>10. \A p \in DOMAIN f : p # q => l \notin ToSet(Kids(f[p])) /\ r \notin ToSet(Kids(f[p]))
  BY <1>1, <1>4 DEF Related, Apart
<1>11. \A j \in 1..Len(n.keys)+1 : (j # i => n.children[j] # l) /\ (j # i + 1 => n.children[j] # r)
  <2>1. DOMAIN n.children = 1..Len(n.keys)+1
    BY <1>2, SeqIs
  <2> QED
    BY <1>1, <1>2, <1>3, <2>1 DEF NoRepeat
<1> HIDE DEF n
<1>12. n.keys[i] \in Keys /\ hi[n.children[i]] = n.keys[i] /\ lo[n.children[i+1]] = n.keys[i]
  <2>1. Parceled(n.keys, n.children, lo[q], hi[q], lo, hi)
    BY <1>2, <1>6, <1>8, <1>9 DEF Parceled
  <2> QED
    BY <1>1, <2>1, KeyInside DEF n
<1> QED
  BY <1>1, <1>2, <1>4, <1>6, <1>7, <1>10, <1>11, <1>12 DEF n

\* The boundary between two pages, l and r, is moved to k.
Bordered(D, lo, hi, l, r, k) ==
    /\ lo \in [D -> Nat] /\ hi \in [D -> Nat] /\ Spanned(D, lo, hi)
    /\ l \in D /\ r \in D /\ l # r /\ k \in Nat /\ lo[l] < k /\ k < hi[r]

MovedBounds(D, lo, hi, l, r, k, lo2, hi2) ==
    /\ lo2 \in [D -> Nat] /\ hi2 \in [D -> Nat] /\ Spanned(D, lo2, hi2)
    /\ lo2[r] = k /\ \A p \in D : p # r => lo2[p] = lo[p]
    /\ hi2[l] = k /\ \A p \in D : p # l => hi2[p] = hi[p]

LEMMA BoundsMoved ==
    ASSUME NEW D, NEW lo, NEW hi, NEW l, NEW r, NEW k, Bordered(D, lo, hi, l, r, k)
    PROVE  \E lo2, hi2 : MovedBounds(D, lo, hi, l, r, k, lo2, hi2)
<1>0. /\ lo \in [D -> Nat] /\ hi \in [D -> Nat] /\ Spanned(D, lo, hi)
      /\ l \in D /\ r \in D /\ l # r /\ k \in Nat /\ lo[l] < k /\ k < hi[r]
  BY DEF Bordered
<1> DEFINE lo2 == [lo EXCEPT ![r] = k]
           hi2 == [hi EXCEPT ![l] = k]
<1>1. lo2 \in [D -> Nat] /\ lo2[r] = k /\ \A p \in D : p # r => lo2[p] = lo[p]
  BY <1>0
<1>2. hi2 \in [D -> Nat] /\ hi2[l] = k /\ \A p \in D : p # l => hi2[p] = hi[p]
  BY <1>0
<1> HIDE DEF lo2, hi2
<1>3. Spanned(D, lo2, hi2)
  <2> SUFFICES ASSUME NEW p \in D
               PROVE  lo2[p] \in Nat /\ hi2[p] \in Nat /\ lo2[p] < hi2[p] /\ hi2[p] <= MaxKey + 1
    BY DEF Spanned
  <2>1. \A s \in D : lo[s] \in Nat /\ hi[s] \in Nat /\ lo[s] < hi[s] /\ hi[s] <= MaxKey + 1
    BY <1>0 DEF Spanned
  <2>2. CASE p = l
    <3>1. lo2[p] = lo[l] /\ hi2[p] = k
      BY <1>0, <1>1, <1>2, <2>2
    <3>2. k <= MaxKey + 1
      BY <1>0, <2>1, Minima
    <3> QED
      BY <1>0, <2>1, <3>1, <3>2
  <2>3. CASE p = r
    <3>1. lo2[p] = k /\ hi2[p] = hi[r]
      BY <1>0, <1>1, <1>2, <2>3
    <3> QED
      BY <1>0, <2>1, <3>1
  <2>4. CASE p # l /\ p # r
    BY <1>1, <1>2, <2>1, <2>4
  <2> QED
    BY <2>2, <2>3, <2>4
<1>4. MovedBounds(D, lo, hi, l, r, k, lo2, hi2)
  BY <1>1, <1>2, <1>3 DEF MovedBounds
<1> QED
  BY <1>4

\* What two neighbours are after an entry or a child has moved between them.
Traded(l, r, ll, lh, rh, lo, hi, k, nl, nr) ==
    /\ k \in Keys /\ ll < k /\ k < rh
    /\ nl.kind = l.kind /\ nr.kind = r.kind
    /\ l.kind = "leaf" => /\ nl.next = l.next /\ nr.next = r.next
                          /\ Stored(nl, ll, k) /\ Stored(nr, k, rh)
                          /\ ToSet(nl.entries) \cup ToSet(nr.entries) = ToSet(l.entries) \cup ToSet(r.entries)
    /\ l.kind # "leaf" => /\ nl.keys \in Seq(Keys) /\ nl.children \in Seq(Pages) /\ Len(nl.children) = Len(nl.keys) + 1
                          /\ nr.keys \in Seq(Keys) /\ nr.children \in Seq(Pages) /\ Len(nr.children) = Len(nr.keys) + 1
                          /\ ToSet(nl.children) \cup ToSet(nr.children) = ToSet(Kids(l)) \cup ToSet(Kids(r))
                          /\ Divides(nl.keys, nl.children, ll, k, lo, hi)
                          /\ Divides(nr.keys, nr.children, k, rh, lo, hi)

Trading(f, top, lo, hi, q, i, l, r, k, g) ==
    /\ Neighbours(f, top, lo, hi, q, i, l, r)
    /\ Traded(f[l], f[r], lo[l], hi[l], hi[r], lo, hi, k, g[l], g[r])
    /\ DOMAIN g = DOMAIN f /\ \A p \in DOMAIN f : p # q /\ p # l /\ p # r => g[p] = f[p]
    /\ g[q] = [f[q] EXCEPT !.keys[i] = k]

LEMMA OrderTraded ==
    ASSUME NEW f, NEW top, NEW lo, NEW hi, NEW q, NEW i, NEW l, NEW r, NEW k, NEW g,
           Trading(f, top, lo, hi, q, i, l, r, k, g)
    PROVE  InOrder(g, top) /\ Held(g) = Held(f)
<1> DEFINE D == DOMAIN f
           n == f[q]
<1>1. /\ Neighbours(f, top, lo, hi, q, i, l, r)
      /\ Traded(f[l], f[r], lo[l], hi[l], hi[r], lo, hi, k, g[l], g[r])
      /\ DOMAIN g = D /\ \A p \in D : p # q /\ p # l /\ p # r => g[p] = f[p]
      /\ g[q] = [n EXCEPT !.keys[i] = k]
  BY DEF Trading
<1>2. /\ Related(f) /\ Ordered(f, top, lo, hi, hi)
      /\ q \in D /\ n.kind # "leaf" /\ i \in 1..Len(n.keys)
      /\ l = n.children[i] /\ r = n.children[i+1]
      /\ l # q /\ r # q /\ l # r /\ l # top /\ r # top /\ f[l].kind = f[r].kind
  BY <1>1 DEF Neighbours
<1>3. /\ l \in D /\ r \in D /\ hi[l] = n.keys[i] /\ lo[r] = n.keys[i]
      /\ \A j \in 1..Len(n.keys)+1 : (j # i => n.children[j] # l) /\ (j # i + 1 => n.children[j] # r)
      /\ \A p \in D : p # q => l \notin ToSet(Kids(f[p])) /\ r \notin ToSet(Kids(f[p]))
      /\ Divides(n.keys, n.children, lo[q], hi[q], lo, hi)
      /\ q \in D \ LeavesOf(f)
  BY <1>1, NeighboursAre
<1>4. /\ n \in Internal /\ n.keys \in Seq(Keys) /\ Len(n.keys) \in Nat
      /\ ToSet(n.children) \subseteq D
      /\ \A j \in 1..Len(n.keys)+1 : n.children[j] \in ToSet(n.children)
  BY <1>2, BranchIs
<1>5. k \in Keys /\ k \in Nat /\ lo[l] < k /\ k < hi[r] /\ g[l].kind = f[l].kind /\ g[r].kind = f[r].kind
  BY <1>1, KeysAre DEF Traded
<1>6. /\ lo \in [D -> Nat] /\ hi \in [D -> Nat] /\ Spanned(D, lo, hi)
      /\ Leaves(f, lo, hi) /\ Branches(f, lo, hi, hi)
      /\ top \in D /\ lo[top] = 0 /\ hi[top] = MaxKey + 1
  BY <1>2 DEF Ordered, Spans
<1>7. PICK lo2, hi2 : MovedBounds(D, lo, hi, l, r, k, lo2, hi2)
  <2>1. Bordered(D, lo, hi, l, r, k)
    BY <1>2, <1>3, <1>5, <1>6 DEF Bordered
  <2> QED
    BY <2>1, BoundsMoved
<1>8. /\ lo2 \in [D -> Nat] /\ hi2 \in [D -> Nat] /\ Spanned(D, lo2, hi2)
      /\ lo2[r] = k /\ \A p \in D : p # r => lo2[p] = lo[p]
      /\ hi2[l] = k /\ \A p \in D : p # l => hi2[p] = hi[p]
  BY <1>7 DEF MovedBounds
<1>9. g[q].kind = "internal" /\ g[q].keys = [n.keys EXCEPT ![i] = k] /\ g[q].children = n.children
  <2>1. PICK ks : ks = [n.keys EXCEPT ![i] = k]
    OBVIOUS
  <2>2. g[q] = [n EXCEPT !.keys = ks]
    BY <1>1, <2>1
  <2>3. g[q].kind = "internal" /\ g[q].keys = ks /\ g[q].children = n.children
    BY <1>4, <2>2 DEF Internal
  <2> QED
    BY <2>1, <2>3
<1> HIDE DEF n, D
<1>10. LeavesOf(g) = LeavesOf(f) /\ \A p \in LeavesOf(f) : p \in D /\ p # q
  <2>1. \A p \in D : p # q => g[p].kind = f[p].kind
    BY <1>1, <1>5
  <2> QED
    BY <1>1, <1>2, <1>9, <2>1 DEF LeavesOf, D, n
<1>11. Divides(g[q].keys, g[q].children, lo2[q], hi2[q], lo2, hi2)
  <2>1. \A j \in 1..Len(n.keys)+1 : /\ j # i + 1 => lo2[n.children[j]] = lo[n.children[j]]
                                    /\ j # i => hi2[n.children[j]] = hi[n.children[j]]
    BY <1>3, <1>4, <1>8
  <2>2. Moves(n.keys, n.children, lo[q], hi[q], lo, hi, i, k, lo2, hi2)
    BY <1>2, <1>3, <1>4, <1>8, <2>1 DEF Moves
  <2>3. Divides([n.keys EXCEPT ![i] = k], n.children, lo[q], hi[q], lo2, hi2)
    BY <2>2, DividesMoved
  <2> QED
    BY <1>2, <1>8, <1>9, <2>3
<1>12. ASSUME NEW p \in D, p # q
       PROVE  \A c \in ToSet(Kids(f[p])) : c \in D /\ lo2[c] = lo[c] /\ hi2[c] = hi[c]
  <2>1. ToSet(Kids(f[p])) \subseteq D /\ l \notin ToSet(Kids(f[p])) /\ r \notin ToSet(Kids(f[p]))
    BY <1>2, <1>3, <1>12 DEF Related, D
  <2> QED
    BY <1>8, <2>1
<1>13. ASSUME Leaves(g, lo2, hi2) /\ Branches(g, lo2, hi2, hi2) PROVE InOrder(g, top)
  <2>1. top \in DOMAIN g /\ lo2[top] = 0 /\ hi2[top] = MaxKey + 1
    BY <1>1, <1>2, <1>6, <1>8
  <2>2. lo2 \in [DOMAIN g -> Nat] /\ hi2 \in [DOMAIN g -> Nat] /\ Spanned(DOMAIN g, lo2, hi2)
    BY <1>1, <1>8
  <2>3. Ordered(g, top, lo2, hi2, hi2)
    BY <1>13, <2>1, <2>2 DEF Ordered, Spans
  <2> QED
    BY <2>2, <2>3, Zenon DEF InOrder
<1>14. CASE f[l].kind = "leaf"
  <2>1. l \in LeavesOf(f) /\ r \in LeavesOf(f)
    BY <1>2, <1>3, <1>14 DEF LeavesOf, D
  <2>2. /\ g[l].next = f[l].next /\ g[r].next = f[r].next
        /\ Stored(g[l], lo[l], k) /\ Stored(g[r], k, hi[r])
        /\ ToSet(g[l].entries) \cup ToSet(g[r].entries) = ToSet(f[l].entries) \cup ToSet(f[r].entries)
    BY <1>1, <1>14 DEF Traded
  <2>3. \A p \in LeavesOf(f) \ {l, r} : g[p] = f[p] /\ lo2[p] = lo[p] /\ hi2[p] = hi[p]
    BY <1>1, <1>8, <1>10
  <2>4. Shifted(f, lo, hi, g, lo2, hi2, l, r, k)
    BY <1>2, <1>3, <1>5, <1>6, <1>8, <1>10, <2>1, <2>2, <2>3 DEF Shifted
  <2>5. /\ Leaves(g, lo2, hi2)
        /\ Held(g) = HeldBut(f, {l, r}) \cup (ToSet(g[l].entries) \cup ToSet(g[r].entries))
    BY <2>4, LeafShifted
  <2>6. Held(f) = HeldBut(f, {l, r}) \cup (ToSet(f[l].entries) \cup ToSet(f[r].entries))
    BY <1>2, <2>1, HeldTwo
  <2>7. Elsewhere(f, lo, hi, hi, g, lo2, hi2, hi2, {q})
    <3> SUFFICES ASSUME NEW p \in (DOMAIN g \ LeavesOf(g)) \ {q}
                 PROVE  /\ p \in DOMAIN f \ LeavesOf(f) /\ g[p] = f[p] /\ lo2[p] = lo[p] /\ hi2[p] = hi[p]
                        /\ \A c \in ToSet(Kids(f[p])) : lo2[c] = lo[c] /\ hi2[c] = hi[c]
      BY DEF Elsewhere
    <3>1. p \in D \ LeavesOf(f) /\ p # q /\ p # l /\ p # r
      BY <1>1, <1>10, <2>1
    <3> QED
      BY <1>1, <1>8, <1>12, <3>1 DEF D
  <2>8. Branches(g, lo2, hi2, hi2)
    <3>1. \A p \in {q} : Divides(g[p].keys, g[p].children, lo2[p], hi2[p], lo2, hi2)
      BY <1>11
    <3> QED
      BY <1>2, <1>6, <2>7, <3>1, BranchesKept
  <2>10. Held(g) = Held(f)
    BY <2>2, <2>5, <2>6
  <2>11. Leaves(g, lo2, hi2) /\ Branches(g, lo2, hi2, hi2)
    BY <2>5, <2>8
  <2> QED
    BY <1>13, <2>10, <2>11
<1>15. CASE f[l].kind # "leaf"
  <2>1. /\ g[l].keys \in Seq(Keys) /\ g[l].children \in Seq(Pages) /\ Len(g[l].children) = Len(g[l].keys) + 1
        /\ g[r].keys \in Seq(Keys) /\ g[r].children \in Seq(Pages) /\ Len(g[r].children) = Len(g[r].keys) + 1
        /\ ToSet(g[l].children) \cup ToSet(g[r].children) = ToSet(Kids(f[l])) \cup ToSet(Kids(f[r]))
        /\ Divides(g[l].keys, g[l].children, lo[l], k, lo, hi)
        /\ Divides(g[r].keys, g[r].children, k, hi[r], lo, hi)
    BY <1>1, <1>15 DEF Traded
  <2>2. \A c \in ToSet(g[l].children) \cup ToSet(g[r].children) : lo2[c] = lo[c] /\ hi2[c] = hi[c]
    BY <1>2, <1>3, <1>12, <2>1
  <2>3. /\ Len(g[l].keys) \in Nat /\ \A j \in 1..Len(g[l].keys)+1 : g[l].children[j] \in ToSet(g[l].children)
        /\ Len(g[r].keys) \in Nat /\ \A j \in 1..Len(g[r].keys)+1 : g[r].children[j] \in ToSet(g[r].children)
    BY <2>1, SeqIs, ToSetIs
  <2>4. Divides(g[l].keys, g[l].children, lo[l], k, lo2, hi2)
    <3>1. \A j \in 1..Len(g[l].keys)+1 : /\ lo2[g[l].children[j]] = lo[g[l].children[j]]
                                         /\ hi2[g[l].children[j]] = hi[g[l].children[j]]
      BY <2>2, <2>3
    <3> QED
      BY <2>1, <2>3, <3>1, DividesKept
  <2>5. Divides(g[r].keys, g[r].children, k, hi[r], lo2, hi2)
    <3>1. \A j \in 1..Len(g[r].keys)+1 : /\ lo2[g[r].children[j]] = lo[g[r].children[j]]
                                         /\ hi2[g[r].children[j]] = hi[g[r].children[j]]
      BY <2>2, <2>3
    <3> QED
      BY <2>1, <2>3, <3>1, DividesKept
  <2>6. \A p \in LeavesOf(f) : p # l /\ p # r
    BY <1>2, <1>15 DEF LeavesOf
  <2>7. Leaves(g, lo2, hi2) /\ Held(g) = Held(f)
    <3>1. \A p \in LeavesOf(f) : g[p] = f[p] /\ lo2[p] = lo[p] /\ hi2[p] = hi[p]
      BY <1>1, <1>8, <1>10, <2>6
    <3> QED
      BY <1>6, <1>10, <3>1, LeavesKept
  <2>8. Elsewhere(f, lo, hi, hi, g, lo2, hi2, hi2, {q, l, r})
    <3> SUFFICES ASSUME NEW p \in (DOMAIN g \ LeavesOf(g)) \ {q, l, r}
                 PROVE  /\ p \in DOMAIN f \ LeavesOf(f) /\ g[p] = f[p] /\ lo2[p] = lo[p] /\ hi2[p] = hi[p]
                        /\ \A c \in ToSet(Kids(f[p])) : lo2[c] = lo[c] /\ hi2[c] = hi[c]
      BY DEF Elsewhere
    <3>1. p \in D \ LeavesOf(f) /\ p # q /\ p # l /\ p # r
      BY <1>1, <1>10
    <3> QED
      BY <1>1, <1>8, <1>12, <3>1 DEF D
  <2>9. Branches(g, lo2, hi2, hi2)
    <3>1. lo2[l] = lo[l] /\ hi2[l] = k /\ lo2[r] = k /\ hi2[r] = hi[r]
      BY <1>2, <1>3, <1>8
    <3>2. \A p \in {q, l, r} : Divides(g[p].keys, g[p].children, lo2[p], hi2[p], lo2, hi2)
      BY <1>11, <2>4, <2>5, <3>1
    <3> QED
      BY <1>2, <1>6, <2>8, <3>2, BranchesKept
  <2>10. Held(g) = Held(f)
    BY <2>7
  <2>11. Leaves(g, lo2, hi2) /\ Branches(g, lo2, hi2, hi2)
    BY <2>7, <2>9
  <2> QED
    BY <1>13, <2>10, <2>11
<1> QED
  BY <1>14, <1>15

\* Entries of one leaf, then of the next.
InTurn(s, t, l, m, h) ==
    /\ s \in Seq(Entry) /\ Ascending(s) /\ Within(s, l, m)
    /\ t \in Seq(Entry) /\ Ascending(t) /\ Within(t, m, h)
    /\ l \in Nat /\ m \in Nat /\ h \in Nat /\ l < m /\ m < h

LEMMA InTurnIs ==
    ASSUME NEW s, NEW t, NEW l, NEW m, NEW h, InTurn(s, t, l, m, h)
    PROVE  /\ \A d \in ToSet(s), e \in ToSet(t) : d.key < e.key
           /\ \A d \in ToSet(s) \cup ToSet(t) : d \in Entry /\ d.key \in Nat /\ l <= d.key /\ d.key < h
           /\ \A d \in ToSet(s) : d.key < m
           /\ \A e \in ToSet(t) : m <= e.key
<1>1. /\ s \in Seq(Entry) /\ Within(s, l, m) /\ t \in Seq(Entry) /\ Within(t, m, h)
      /\ l \in Nat /\ m \in Nat /\ h \in Nat /\ l < m /\ m < h
  BY DEF InTurn
<1>2. /\ \A d \in ToSet(s) : d \in Entry /\ d.key \in Nat /\ l <= d.key /\ d.key < m
      /\ \A e \in ToSet(t) : e \in Entry /\ e.key \in Nat /\ m <= e.key /\ e.key < h
  <2>1. \A d \in Entry : d.key \in Nat
    BY Minima DEF Entry
  <2>2. ToSet(s) \subseteq Entry /\ ToSet(t) \subseteq Entry
    BY <1>1, ToSetIs
  <2> QED
    BY <1>1, <2>1, <2>2, WithinIs
<1> QED
  BY <1>1, <1>2

\* What is kept in two leaves whose boundary moves to k.
Reparted(s, t, a, b, l, k, h) ==
    /\ k \in Keys /\ l < k /\ k < h
    /\ a \in Seq(Entry) /\ Ascending(a) /\ Within(a, l, k)
    /\ b \in Seq(Entry) /\ Ascending(b) /\ Within(b, k, h)
    /\ ToSet(a) \cup ToSet(b) = ToSet(s) \cup ToSet(t)

LEMMA RepartedIs ==
    ASSUME NEW s, NEW t, NEW l, NEW m, NEW h, InTurn(s, t, l, m, h),
           NEW a, NEW b, NEW k, k \in Keys, l < k, k < h,
           a \in Seq(Entry), Ascending(a), b \in Seq(Entry), Ascending(b),
           ToSet(a) \cup ToSet(b) = ToSet(s) \cup ToSet(t),
           \A d \in ToSet(a) : d.key < k, \A e \in ToSet(b) : k <= e.key
    PROVE  Reparted(s, t, a, b, l, k, h)
<1>1. \A d \in ToSet(a) \cup ToSet(b) : l <= d.key /\ d.key < h
  BY InTurnIs
<1>2. Within(a, l, k) /\ Within(b, k, h)
  BY <1>1, WithinIs
<1> QED
  BY <1>2 DEF Reparted

LEMMA EntriesRight ==
    ASSUME NEW s, NEW t, NEW l, NEW m, NEW h, InTurn(s, t, l, m, h), Len(s) >= 2
    PROVE  Reparted(s, t, Front(s), Before(Last(s), t), l, Last(s).key, h)
<1> DEFINE k == Last(s).key
           a == Front(s)
           b == Before(Last(s), t)
<1>1. /\ s \in Seq(Entry) /\ Ascending(s) /\ t \in Seq(Entry) /\ Ascending(t)
      /\ l \in Nat /\ m \in Nat /\ h \in Nat /\ m < h
  BY DEF InTurn
<1>2. /\ \A d \in ToSet(s), e \in ToSet(t) : d.key < e.key
      /\ \A d \in ToSet(s) : d.key < m /\ l <= d.key
  BY InTurnIs
<1>3. Len(s) \in Nat /\ Len(s) >= 1 /\ 1 \in 1..Len(s) /\ Len(s) \in 1..Len(s) /\ 1 < Len(s)
  BY <1>1, SeqIs
<1>4. /\ a \in Seq(Entry) /\ Ascending(a) /\ b \in Seq(Entry) /\ Ascending(b)
      /\ ToSet(a) \cup ToSet(b) = ToSet(s) \cup ToSet(t)
      /\ Last(s) \in ToSet(s)
      /\ \A d \in ToSet(a) : d.key < k
      /\ \A e \in ToSet(b) : k <= e.key
  BY <1>1, <1>2, <1>3, LastMoves
<1>5. k \in Keys /\ k \in Nat
  <2>1. Last(s) \in Entry
    BY <1>1, <1>4, ToSetIs
  <2> QED
    BY <2>1, KeysAre DEF Entry, Keys
<1>6. l < k
  <2>1. s[1].key < s[Len(s)].key /\ l <= s[1].key /\ s[1].key \in Nat
    BY <1>1, <1>2, <1>3, EntryKeys DEF Ascending
  <2>2. Last(s) = s[Len(s)]
    BY DEF Last
  <2> QED
    BY <1>1, <1>5, <2>1, <2>2
<1>7. k < h
  BY <1>1, <1>2, <1>4, <1>5
<1> HIDE DEF k, a, b
<1> QED
  BY <1>4, <1>5, <1>6, <1>7, RepartedIs DEF k, a, b

LEMMA EntriesLeft ==
    ASSUME NEW s, NEW t, NEW l, NEW m, NEW h, InTurn(s, t, l, m, h), Len(t) >= 2
    PROVE  Reparted(s, t, After(s, Head(t)), Tail(t), l, t[2].key, h)
<1> DEFINE k == t[2].key
           a == After(s, Head(t))
           b == Tail(t)
<1>1. /\ s \in Seq(Entry) /\ Ascending(s) /\ t \in Seq(Entry) /\ Ascending(t)
      /\ l \in Nat /\ m \in Nat /\ h \in Nat /\ l < m
  BY DEF InTurn
<1>2. /\ \A d \in ToSet(s), e \in ToSet(t) : d.key < e.key
      /\ \A d \in ToSet(s) \cup ToSet(t) : d.key < h
      /\ \A e \in ToSet(t) : m <= e.key
  BY InTurnIs
<1>3. /\ a \in Seq(Entry) /\ Ascending(a) /\ b \in Seq(Entry) /\ Ascending(b)
      /\ ToSet(a) \cup ToSet(b) = ToSet(s) \cup ToSet(t)
      /\ t[2] \in ToSet(t)
      /\ \A d \in ToSet(a) : d.key < k
      /\ \A e \in ToSet(b) : k <= e.key
  BY <1>1, <1>2, HeadMoves
<1>4. k \in Keys /\ k \in Nat
  <2>1. t[2] \in Entry
    BY <1>1, <1>3, ToSetIs
  <2> QED
    BY <2>1, KeysAre DEF Entry, Keys
<1>5. l < k /\ k < h
  BY <1>1, <1>2, <1>3, <1>4
<1> HIDE DEF k, a, b
<1> QED
  BY <1>3, <1>4, <1>5, RepartedIs DEF k, a, b

\* Two neighbours, of the keys from al and below bh.
Pair(a, b, al, ah, bh, lo, hi) ==
    /\ a \in Leaf \cup Internal /\ b \in Leaf \cup Internal /\ a.kind = b.kind
    /\ Paired(a) /\ Paired(b) /\ ah \in Keys
    /\ a.kind = "leaf" => InTurn(a.entries, b.entries, al, ah, bh)
    /\ a.kind # "leaf" => /\ Parceled(a.keys, a.children, al, ah, lo, hi)
                          /\ Parceled(b.keys, b.children, ah, bh, lo, hi)

\* The nodes above the leaves after a rotation.
LEMMA NodesTraded ==
    ASSUME NEW a \in Internal, NEW b \in Internal, NEW x, Exchange(x, a, b)
    PROVE  /\ x.left.keys \in Seq(Keys) /\ x.left.children \in Seq(Pages)
           /\ Len(x.left.children) = Len(x.left.keys) + 1
           /\ x.right.keys \in Seq(Keys) /\ x.right.children \in Seq(Pages)
           /\ Len(x.right.children) = Len(x.right.keys) + 1
           /\ ToSet(x.left.children) \cup ToSet(x.right.children) = ToSet(Kids(a)) \cup ToSet(Kids(b))
<1>1. a.kind = "internal" /\ b.kind = "internal"
  BY InternalIs
<1>2. /\ x.left \in Leaf \cup Internal /\ x.left.kind = a.kind /\ Paired(x.left)
      /\ x.right \in Leaf \cup Internal /\ x.right.kind = b.kind /\ Paired(x.right)
      /\ ToSet(Kids(x.left)) \cup ToSet(Kids(x.right)) = ToSet(Kids(a)) \cup ToSet(Kids(b))
  BY DEF Exchange, Sibling
<1>3. x.left \in Internal /\ x.right \in Internal
  BY <1>1, <1>2, NodeIs
<1> QED
  BY <1>1, <1>2, <1>3, InternalIs DEF Paired

LEMMA TradedRight ==
    ASSUME NEW a, NEW b, NEW al, NEW ah, NEW bh, NEW lo, NEW hi, Pair(a, b, al, ah, bh, lo, hi),
           NEW x, x = RotateRight(a, b, ah), Exchange(x, a, b), Size(a) >= 2
    PROVE  Traded(a, b, al, ah, bh, lo, hi, x.sep, x.left, x.right)
<1>1. /\ a \in Leaf \cup Internal /\ b \in Leaf \cup Internal /\ a.kind = b.kind
      /\ Paired(a) /\ Paired(b) /\ ah \in Keys
  BY DEF Pair
<1>2. CASE a.kind = "leaf"
  <2>1. a \in Leaf /\ b \in Leaf
    BY <1>1, <1>2, NodeIs
  <2>2. InTurn(a.entries, b.entries, al, ah, bh) /\ Len(a.entries) >= 2
    BY <1>2, <2>1, LeafIs DEF Pair
  <2> DEFINE es == Front(a.entries)
             fs == Before(Last(a.entries), b.entries)
             k  == Last(a.entries).key
  <2>3. Reparted(a.entries, b.entries, es, fs, al, k, bh)
    BY <2>2, EntriesRight
  <2>4. x.left = [a EXCEPT !.entries = es] /\ x.right = [b EXCEPT !.entries = fs] /\ x.sep = k
    BY <1>1, <1>2 DEF RotateRight, Before
  <2> HIDE DEF es, fs, k
  <2>5. /\ x.left.kind = a.kind /\ x.left.entries = es /\ x.left.next = a.next
        /\ x.right.kind = b.kind /\ x.right.entries = fs /\ x.right.next = b.next
    BY <2>1, <2>4 DEF Leaf
  <2> QED
    BY <1>2, <2>3, <2>4, <2>5 DEF Traded, Reparted, Stored
<1>3. CASE a.kind # "leaf"
  <2>1. a \in Internal /\ b \in Internal
    BY <1>1, <1>3, NodeIs
  <2>2. /\ a.kind = "internal" /\ a.keys \in Seq(Keys) /\ a.children \in Seq(Pages)
        /\ b.keys \in Seq(Keys) /\ b.children \in Seq(Pages)
        /\ Len(a.children) = Len(a.keys) + 1 /\ Len(b.children) = Len(b.keys) + 1
        /\ Len(a.keys) >= 1 /\ Len(a.keys) \in Nat
    BY <1>1, <2>1, InternalIs, SeqIs DEF Paired
  <2>3. Parceled(a.keys, a.children, al, ah, lo, hi) /\ Parceled(b.keys, b.children, ah, bh, lo, hi)
    BY <1>3 DEF Pair
  <2>4. Divides(a.keys, a.children, al, ah, lo, hi) /\ Divides(b.keys, b.children, ah, bh, lo, hi)
    BY <2>3 DEF Parceled
  <2> DEFINE k == Last(a.keys)
             c == Last(a.children)
             ka == Front(a.keys)
             ca == Front(a.children)
             kb == Before(ah, b.keys)
             cb == Before(c, b.children)
  <2>5. /\ Divides(ka, ca, al, k, lo, hi) /\ k \in Keys /\ c \in Pages /\ lo[c] = k /\ hi[c] = ah
    BY <2>2, <2>4, DividesFront
  <2>6. Divides(kb, cb, k, bh, lo, hi)
    BY <1>1, <2>2, <2>4, <2>5, DividesBefore
  <2>7. al < k /\ k < bh
    <3>1. PICK j \in 1..Len(a.keys) : j = Len(a.keys)
      BY <2>2
    <3>2. k = a.keys[j]
      BY <3>1 DEF Last
    <3>3. al < k /\ k < ah
      BY <2>3, <3>2, KeyInside
    <3>4. /\ ah < bh /\ ah \in Nat /\ bh \in Nat
      <4>1. ah \in Nat /\ bh \in Nat /\ b.keys \in Seq(Keys)
            /\ \A i \in 1..Len(b.keys)+1 : lo[b.children[i]] < hi[b.children[i]]
        BY <2>3 DEF Parceled
      <4>2. Len(b.keys) \in Nat /\ 1 \in 1..Len(b.keys)+1
        BY <2>2, SeqIs
      <4>3. /\ lo[b.children[1]] \in Nat /\ hi[b.children[1]] \in Nat
            /\ ah <= lo[b.children[1]] /\ hi[b.children[1]] <= bh
        BY <2>4, <4>1, <4>2, InsideBounds
      <4> QED
        BY <4>1, <4>2, <4>3
    <3>5. k \in Nat
      BY <2>5, KeysAre
    <3> HIDE DEF k
    <3> QED
      BY <3>3, <3>4, <3>5
  <2>8. /\ x.left = [a EXCEPT !.keys = ka, !.children = ca]
        /\ x.right = [b EXCEPT !.keys = kb, !.children = cb] /\ x.sep = k
    BY <1>1, <1>3 DEF RotateRight, Before
  <2> HIDE DEF ka, ca, kb, cb, k, c
  <2>9. /\ x.left.kind = a.kind /\ x.left.keys = ka /\ x.left.children = ca
        /\ x.right.kind = b.kind /\ x.right.keys = kb /\ x.right.children = cb
    BY <2>1, <2>8 DEF Internal
  <2>10. /\ x.left.keys \in Seq(Keys) /\ x.left.children \in Seq(Pages)
         /\ Len(x.left.children) = Len(x.left.keys) + 1
         /\ x.right.keys \in Seq(Keys) /\ x.right.children \in Seq(Pages)
         /\ Len(x.right.children) = Len(x.right.keys) + 1
         /\ ToSet(x.left.children) \cup ToSet(x.right.children) = ToSet(Kids(a)) \cup ToSet(Kids(b))
    BY <2>1, NodesTraded
  <2> QED
    BY <1>3, <2>5, <2>6, <2>7, <2>8, <2>9, <2>10 DEF Traded
<1> QED
  BY <1>2, <1>3

LEMMA TradedLeft ==
    ASSUME NEW a, NEW b, NEW al, NEW ah, NEW bh, NEW lo, NEW hi, Pair(a, b, al, ah, bh, lo, hi),
           NEW x, x = RotateLeft(a, b, ah), Exchange(x, a, b), Size(b) >= 2
    PROVE  Traded(a, b, al, ah, bh, lo, hi, x.sep, x.left, x.right)
<1>1. /\ a \in Leaf \cup Internal /\ b \in Leaf \cup Internal /\ a.kind = b.kind
      /\ Paired(a) /\ Paired(b) /\ ah \in Keys
  BY DEF Pair
<1>2. CASE a.kind = "leaf"
  <2>1. a \in Leaf /\ b \in Leaf
    BY <1>1, <1>2, NodeIs
  <2>2. InTurn(a.entries, b.entries, al, ah, bh) /\ Len(b.entries) >= 2
    BY <1>2, <2>1, LeafIs DEF Pair
  <2> DEFINE es == After(a.entries, Head(b.entries))
             fs == Tail(b.entries)
             k  == b.entries[2].key
  <2>3. Reparted(a.entries, b.entries, es, fs, al, k, bh)
    BY <2>2, EntriesLeft
  <2>4. x.left = [a EXCEPT !.entries = es] /\ x.right = [b EXCEPT !.entries = fs] /\ x.sep = k
    BY <1>1, <1>2 DEF RotateLeft, After
  <2> HIDE DEF es, fs, k
  <2>5. /\ x.left.kind = a.kind /\ x.left.entries = es /\ x.left.next = a.next
        /\ x.right.kind = b.kind /\ x.right.entries = fs /\ x.right.next = b.next
    BY <2>1, <2>4 DEF Leaf
  <2> QED
    BY <1>2, <2>3, <2>4, <2>5 DEF Traded, Reparted, Stored
<1>3. CASE a.kind # "leaf"
  <2>1. a \in Internal /\ b \in Internal
    BY <1>1, <1>3, NodeIs
  <2>2. /\ a.kind = "internal" /\ a.keys \in Seq(Keys) /\ a.children \in Seq(Pages)
        /\ b.keys \in Seq(Keys) /\ b.children \in Seq(Pages)
        /\ Len(a.children) = Len(a.keys) + 1 /\ Len(b.children) = Len(b.keys) + 1
        /\ Len(b.keys) >= 1 /\ Len(b.keys) \in Nat
    BY <1>1, <2>1, InternalIs, SeqIs DEF Paired
  <2>3. Parceled(a.keys, a.children, al, ah, lo, hi) /\ Parceled(b.keys, b.children, ah, bh, lo, hi)
    BY <1>3 DEF Pair
  <2>4. Divides(a.keys, a.children, al, ah, lo, hi) /\ Divides(b.keys, b.children, ah, bh, lo, hi)
    BY <2>3 DEF Parceled
  <2> DEFINE k == Head(b.keys)
             c == Head(b.children)
             kb == Tail(b.keys)
             cb == Tail(b.children)
             ka == After(a.keys, ah)
             ca == After(a.children, c)
  <2>5. /\ Divides(kb, cb, k, bh, lo, hi) /\ k \in Keys /\ c \in Pages /\ lo[c] = ah /\ hi[c] = k
    BY <2>2, <2>4, DividesTail
  <2>6. Divides(ka, ca, al, k, lo, hi)
    BY <1>1, <2>2, <2>4, <2>5, DividesAfter
  <2>7. al < k /\ k < bh
    <3>1. PICK j \in 1..Len(b.keys) : j = 1
      BY <2>2
    <3>2. k = b.keys[j]
      BY <2>2, <3>1
    <3>3. ah < k /\ k < bh
      BY <2>3, <3>2, KeyInside
    <3>4. /\ al < ah /\ al \in Nat /\ ah \in Nat
      <4>1. al \in Nat /\ ah \in Nat /\ a.keys \in Seq(Keys)
            /\ \A i \in 1..Len(a.keys)+1 : lo[a.children[i]] < hi[a.children[i]]
        BY <2>3 DEF Parceled
      <4>2. Len(a.keys) \in Nat /\ 1 \in 1..Len(a.keys)+1
        BY <2>2, SeqIs
      <4>3. /\ lo[a.children[1]] \in Nat /\ hi[a.children[1]] \in Nat
            /\ al <= lo[a.children[1]] /\ hi[a.children[1]] <= ah
        BY <2>4, <4>1, <4>2, InsideBounds
      <4> QED
        BY <4>1, <4>2, <4>3
    <3>5. k \in Nat
      BY <2>5, KeysAre
    <3> HIDE DEF k
    <3> QED
      BY <3>3, <3>4, <3>5
  <2>8. /\ x.left = [a EXCEPT !.keys = ka, !.children = ca]
        /\ x.right = [b EXCEPT !.keys = kb, !.children = cb] /\ x.sep = k
    BY <1>1, <1>3 DEF RotateLeft, After
  <2> HIDE DEF ka, ca, kb, cb, k, c
  <2>9. /\ x.left.kind = a.kind /\ x.left.keys = ka /\ x.left.children = ca
        /\ x.right.kind = b.kind /\ x.right.keys = kb /\ x.right.children = cb
    BY <2>1, <2>8 DEF Internal
  <2>10. /\ x.left.keys \in Seq(Keys) /\ x.left.children \in Seq(Pages)
         /\ Len(x.left.children) = Len(x.left.keys) + 1
         /\ x.right.keys \in Seq(Keys) /\ x.right.children \in Seq(Pages)
         /\ Len(x.right.children) = Len(x.right.keys) + 1
         /\ ToSet(x.left.children) \cup ToSet(x.right.children) = ToSet(Kids(a)) \cup ToSet(Kids(b))
    BY <2>1, NodesTraded
  <2> QED
    BY <1>3, <2>5, <2>6, <2>7, <2>8, <2>9, <2>10 DEF Traded
<1> QED
  BY <1>2, <1>3

LEMMA PairOf ==
    ASSUME NEW f, NEW top, NEW lo, NEW hi, NEW q, NEW i, NEW l, NEW r,
           Neighbours(f, top, lo, hi, q, i, l, r)
    PROVE  Pair(f[l], f[r], lo[l], hi[l], hi[r], lo, hi)
<1>1. Related(f) /\ Ordered(f, top, lo, hi, hi) /\ f[l].kind = f[r].kind
  BY DEF Neighbours
<1>2. /\ l \in DOMAIN f /\ r \in DOMAIN f /\ hi[l] \in Keys /\ hi[l] = lo[r]
      /\ \A p \in DOMAIN f : lo[p] \in Nat /\ hi[p] \in Nat /\ lo[p] < hi[p]
  BY NeighboursAre
<1>3. Leaves(f, lo, hi) /\ Branches(f, lo, hi, hi)
  BY <1>1 DEF Ordered
<1>4. /\ f[l] \in Leaf \cup Internal /\ f[r] \in Leaf \cup Internal /\ Fits(f[l]) /\ Fits(f[r])
  BY <1>1, <1>2, NodesAre DEF Related
<1>5. Paired(f[l]) /\ Paired(f[r])
  BY <1>4 DEF Fits, Paired
<1>6. ASSUME f[l].kind = "leaf" PROVE InTurn(f[l].entries, f[r].entries, lo[l], hi[l], hi[r])
  <2>1. f[l].entries \in Seq(Entry) /\ f[r].entries \in Seq(Entry)
    BY <1>1, <1>4, <1>6, NodeIs, LeafIs
  <2>2. l \in LeavesOf(f) /\ r \in LeavesOf(f)
    BY <1>1, <1>2, <1>6 DEF LeavesOf
  <2>3. /\ Ascending(f[l].entries) /\ Within(f[l].entries, lo[l], hi[l])
        /\ Ascending(f[r].entries) /\ Within(f[r].entries, lo[r], hi[r])
    BY <1>3, <2>2 DEF Leaves, Chained
  <2>4. lo[l] \in Nat /\ hi[l] \in Nat /\ hi[r] \in Nat /\ lo[l] < hi[l] /\ hi[l] < hi[r]
    BY <1>2
  <2> QED
    BY <1>2, <2>1, <2>3, <2>4 DEF InTurn
<1>7. ASSUME f[l].kind # "leaf"
      PROVE  Parceled(f[l].keys, f[l].children, lo[l], hi[l], lo, hi) /\ Parceled(f[r].keys, f[r].children, hi[l], hi[r], lo, hi)
  <2>1. ASSUME NEW p \in {l, r}
        PROVE  Parceled(f[p].keys, f[p].children, lo[p], hi[p], lo, hi)
    <3>1. p \in DOMAIN f /\ f[p].kind # "leaf"
      BY <1>1, <1>2, <1>7
    <3>2. /\ p \in DOMAIN f \ LeavesOf(f) /\ f[p].keys \in Seq(Keys) /\ ToSet(f[p].children) \subseteq DOMAIN f
          /\ \A j \in 1..Len(f[p].keys)+1 : f[p].children[j] \in ToSet(f[p].children)
      BY <1>1, <3>1, BranchIs
    <3>3. Divides(f[p].keys, f[p].children, lo[p], hi[p], lo, hi)
      BY <1>3, <3>2 DEF Branches
    <3> QED
      BY <1>2, <3>1, <3>2, <3>3 DEF Parceled
  <2> QED
    BY <1>2, <2>1
<1> QED
  BY <1>1, <1>2, <1>4, <1>5, <1>6, <1>7 DEF Pair

\* A rotation between two children of q.
Turning(f, top, q, i, l, r, x, g) ==
    /\ \E lo, hi \in [DOMAIN f -> Nat] : Neighbours(f, top, lo, hi, q, i, l, r)
    /\ Exchange(x, f[l], f[r])
    /\ \/ x = RotateRight(f[l], f[r], f[q].keys[i]) /\ Size(f[l]) >= 2
       \/ x = RotateLeft(f[l], f[r], f[q].keys[i]) /\ Size(f[r]) >= 2
    /\ g = Put(Put(Put(f, l, x.left), r, x.right), q, [f[q] EXCEPT !.keys[i] = x.sep])

LEMMA OrderTurned ==
    ASSUME NEW f, NEW top, NEW q, NEW i, NEW l, NEW r, NEW x, NEW g, Turning(f, top, q, i, l, r, x, g)
    PROVE  InOrder(g, top) /\ Held(g) = Held(f)
<1>1. PICK lo, hi \in [DOMAIN f -> Nat] : Neighbours(f, top, lo, hi, q, i, l, r)
  BY DEF Turning
<1>2. Exchange(x, f[l], f[r])
  BY DEF Turning
<1>3. Pair(f[l], f[r], lo[l], hi[l], hi[r], lo, hi)
  BY <1>1, PairOf
<1>4. hi[l] = f[q].keys[i] /\ l \in DOMAIN f /\ r \in DOMAIN f
  BY <1>1, NeighboursAre
<1>5. q \in DOMAIN f /\ l # r /\ l # q /\ r # q
  BY <1>1 DEF Neighbours
<1>6. Traded(f[l], f[r], lo[l], hi[l], hi[r], lo, hi, x.sep, x.left, x.right)
  <2>1. CASE x = RotateRight(f[l], f[r], f[q].keys[i]) /\ Size(f[l]) >= 2
    <3>1. x = RotateRight(f[l], f[r], hi[l])
      BY <1>4, <2>1
    <3> QED
      BY <1>2, <1>3, <2>1, <3>1, TradedRight
  <2>2. CASE x = RotateLeft(f[l], f[r], f[q].keys[i]) /\ Size(f[r]) >= 2
    <3>1. x = RotateLeft(f[l], f[r], hi[l])
      BY <1>4, <2>2
    <3> QED
      BY <1>2, <1>3, <2>2, <3>1, TradedLeft
  <2> QED
    BY <2>1, <2>2 DEF Turning
<1> DEFINE m == [f[q] EXCEPT !.keys[i] = x.sep]
<1>7. g = Put(Put(Put(f, l, x.left), r, x.right), q, m)
  BY DEF Turning
<1> HIDE DEF m
<1>8. /\ DOMAIN g = DOMAIN f /\ g[l] = x.left /\ g[r] = x.right /\ g[q] = m
      /\ \A p \in DOMAIN f : p # q /\ p # l /\ p # r => g[p] = f[p]
  BY <1>4, <1>5, <1>7 DEF Put
<1>9. Trading(f, top, lo, hi, q, i, l, r, x.sep, g)
  BY <1>1, <1>6, <1>8 DEF Trading, m
<1> QED
  BY <1>9, OrderTraded

LEMMA WithoutChildParts ==
    ASSUME NEW n \in Internal, NEW i
    PROVE  /\ WithoutChild(n, i).keys = RemoveAt(n.keys, i)
           /\ WithoutChild(n, i).children = RemoveAt(n.children, i + 1)
           /\ WithoutChild(n, i).kind = "internal"
<1> DEFINE ks == RemoveAt(n.keys, i)
           cs == RemoveAt(n.children, i + 1)
<1>1. WithoutChild(n, i) = [n EXCEPT !.keys = ks, !.children = cs]
  BY DEF WithoutChild
<1> HIDE DEF ks, cs
<1>2. WithoutChild(n, i).keys = ks /\ WithoutChild(n, i).children = cs /\ WithoutChild(n, i).kind = "internal"
  BY <1>1 DEF Internal
<1> QED
  BY <1>2 DEF ks, cs

\* Page l takes over the keys of r, which goes.
JoinedBounds(D, lo, hi, l, r, lo2, hi2) ==
    /\ lo2 \in [D \ {r} -> Nat] /\ hi2 \in [D \ {r} -> Nat] /\ Spanned(D \ {r}, lo2, hi2)
    /\ \A p \in D \ {r} : lo2[p] = lo[p]
    /\ hi2[l] = hi[r] /\ \A p \in D \ {r} : p # l => hi2[p] = hi[p]

Touching(D, lo, hi, l, r) ==
    /\ lo \in [D -> Nat] /\ hi \in [D -> Nat] /\ Spanned(D, lo, hi)
    /\ l \in D /\ r \in D /\ l # r /\ hi[l] = lo[r]

LEMMA BoundsJoined ==
    ASSUME NEW D, NEW lo, NEW hi, NEW l, NEW r, Touching(D, lo, hi, l, r)
    PROVE  \E lo2, hi2 : JoinedBounds(D, lo, hi, l, r, lo2, hi2)
<1>0. /\ lo \in [D -> Nat] /\ hi \in [D -> Nat] /\ Spanned(D, lo, hi)
      /\ l \in D /\ r \in D /\ l # r /\ hi[l] = lo[r]
  BY DEF Touching
<1> DEFINE lo2 == [p \in D \ {r} |-> lo[p]]
           hi2 == [p \in D \ {r} |-> IF p = l THEN hi[r] ELSE hi[p]]
<1>1. lo2 \in [D \ {r} -> Nat] /\ \A p \in D \ {r} : lo2[p] = lo[p]
  BY <1>0
<1>2. hi2 \in [D \ {r} -> Nat] /\ hi2[l] = hi[r] /\ \A p \in D \ {r} : p # l => hi2[p] = hi[p]
  BY <1>0
<1> HIDE DEF lo2, hi2
<1>3. Spanned(D \ {r}, lo2, hi2)
  <2> SUFFICES ASSUME NEW p \in D \ {r}
               PROVE  lo2[p] \in Nat /\ hi2[p] \in Nat /\ lo2[p] < hi2[p] /\ hi2[p] <= MaxKey + 1
    BY DEF Spanned
  <2>1. \A s \in D : lo[s] \in Nat /\ hi[s] \in Nat /\ lo[s] < hi[s] /\ hi[s] <= MaxKey + 1
    BY <1>0 DEF Spanned
  <2>2. CASE p = l
    <3>1. lo2[p] = lo[l] /\ hi2[p] = hi[r]
      BY <1>0, <1>1, <1>2, <2>2
    <3> QED
      BY <1>0, <2>1, <3>1
  <2>3. CASE p # l
    BY <1>1, <1>2, <2>1, <2>3
  <2> QED
    BY <2>2, <2>3
<1>4. JoinedBounds(D, lo, hi, l, r, lo2, hi2)
  BY <1>1, <1>2, <1>3 DEF JoinedBounds
<1> QED
  BY <1>4

\* Two neighbours in one.
Coalesced(a, b, al, ah, bh, lo, hi, m) ==
    /\ m.kind = a.kind
    /\ a.kind = "leaf" => m.next = b.next /\ Stored(m, al, bh) /\ ToSet(m.entries) = ToSet(a.entries) \cup ToSet(b.entries)
    /\ a.kind # "leaf" => /\ m.keys \in Seq(Keys) /\ m.children \in Seq(Pages) /\ Len(m.children) = Len(m.keys) + 1
                          /\ ToSet(m.children) = ToSet(Kids(a)) \cup ToSet(Kids(b))
                          /\ Divides(m.keys, m.children, al, bh, lo, hi)

LEMMA CoalescedIs ==
    ASSUME NEW a, NEW b, NEW al, NEW ah, NEW bh, NEW lo, NEW hi, Pair(a, b, al, ah, bh, lo, hi),
           NEW m, m = Joined(a, b, ah), Sibling(a, m), ToSet(Kids(m)) = ToSet(Kids(a)) \cup ToSet(Kids(b))
    PROVE  Coalesced(a, b, al, ah, bh, lo, hi, m)
<1>1. /\ a \in Leaf \cup Internal /\ b \in Leaf \cup Internal /\ a.kind = b.kind
      /\ Paired(a) /\ Paired(b) /\ ah \in Keys
  BY DEF Pair
<1>2. m \in Leaf \cup Internal /\ m.kind = a.kind /\ Paired(m)
  BY DEF Sibling
<1>3. CASE a.kind = "leaf"
  <2>1. a \in Leaf /\ b \in Leaf
    BY <1>1, <1>3, NodeIs
  <2>2. InTurn(a.entries, b.entries, al, ah, bh)
    BY <1>3 DEF Pair
  <2> DEFINE es == a.entries \o b.entries
  <2>3. m = [a EXCEPT !.entries = es, !.next = b.next]
    BY <1>3 DEF Joined
  <2>4. a.entries \in Seq(Entry) /\ Ascending(a.entries) /\ b.entries \in Seq(Entry) /\ Ascending(b.entries)
    BY <2>2 DEF InTurn
  <2>5. /\ \A d \in ToSet(a.entries), e \in ToSet(b.entries) : d.key < e.key
        /\ \A d \in ToSet(a.entries) \cup ToSet(b.entries) : al <= d.key /\ d.key < bh
    BY <2>2, InTurnIs
  <2>6. es \in Seq(Entry) /\ Ascending(es) /\ ToSet(es) = ToSet(a.entries) \cup ToSet(b.entries)
    BY <2>4, <2>5, AscendingJoined
  <2> HIDE DEF es
  <2>7. Within(es, al, bh)
    BY <2>5, <2>6, WithinIs
  <2>8. m.entries = es /\ m.next = b.next
    BY <2>1, <2>3 DEF Leaf
  <2> QED
    BY <1>2, <1>3, <2>6, <2>7, <2>8 DEF Coalesced, Stored
<1>4. CASE a.kind # "leaf"
  <2>1. a \in Internal /\ b \in Internal /\ m \in Internal
    BY <1>1, <1>2, <1>4, NodeIs
  <2>2. /\ a.keys \in Seq(Keys) /\ a.children \in Seq(Pages)
        /\ b.keys \in Seq(Keys) /\ b.children \in Seq(Pages)
        /\ Len(a.children) = Len(a.keys) + 1 /\ Len(b.children) = Len(b.keys) + 1
    BY <1>1, <2>1, InternalIs DEF Paired
  <2>3. /\ Divides(a.keys, a.children, al, ah, lo, hi) /\ Divides(b.keys, b.children, ah, bh, lo, hi)
    BY <1>4 DEF Pair, Parceled
  <2> DEFINE ks == a.keys \o <<ah>> \o b.keys
             cs == a.children \o b.children
  <2>4. Divides(ks, cs, al, bh, lo, hi)
    BY <1>1, <2>2, <2>3, DividesJoined
  <2>5. m = [a EXCEPT !.keys = ks, !.children = cs]
    BY <1>4 DEF Joined
  <2> HIDE DEF ks, cs
  <2>6. m.keys = ks /\ m.children = cs
    BY <2>1, <2>5 DEF Internal
  <2>7. /\ m.keys \in Seq(Keys) /\ m.children \in Seq(Pages) /\ Len(m.children) = Len(m.keys) + 1
        /\ Kids(m) = m.children
    BY <1>2, <2>1, InternalIs DEF Paired
  <2> QED
    BY <1>2, <1>4, <2>4, <2>6, <2>7 DEF Coalesced
<1> QED
  BY <1>3, <1>4

\* A merge of two children of q.
Joining(f, top, q, i, l, r, m, g) ==
    /\ \E lo, hi \in [DOMAIN f -> Nat] : Neighbours(f, top, lo, hi, q, i, l, r)
    /\ m = Joined(f[l], f[r], f[q].keys[i]) /\ Sibling(f[l], m)
    /\ ToSet(Kids(m)) = ToSet(Kids(f[l])) \cup ToSet(Kids(f[r]))
    /\ g = Without(Put(Put(f, l, m), q, WithoutChild(f[q], i)), r)

LEMMA OrderJoined ==
    ASSUME NEW f, NEW top, NEW q, NEW i, NEW l, NEW r, NEW m, NEW g, Joining(f, top, q, i, l, r, m, g)
    PROVE  InOrder(g, top) /\ Held(g) = Held(f)
<1> DEFINE D == DOMAIN f
           n == f[q]
           w == WithoutChild(n, i)
<1>1. PICK lo, hi \in [D -> Nat] : Neighbours(f, top, lo, hi, q, i, l, r)
  BY DEF Joining
<1>2. /\ Related(f) /\ Ordered(f, top, lo, hi, hi)
      /\ q \in D /\ n.kind # "leaf" /\ i \in 1..Len(n.keys)
      /\ l = n.children[i] /\ r = n.children[i+1]
      /\ l # q /\ r # q /\ l # r /\ l # top /\ r # top /\ f[l].kind = f[r].kind
  BY <1>1 DEF Neighbours
<1>3. /\ l \in D /\ r \in D /\ hi[l] = n.keys[i] /\ lo[r] = n.keys[i]
      /\ \A j \in 1..Len(n.keys)+1 : (j # i => n.children[j] # l) /\ (j # i + 1 => n.children[j] # r)
      /\ \A p \in D : p # q => l \notin ToSet(Kids(f[p])) /\ r \notin ToSet(Kids(f[p]))
      /\ Divides(n.keys, n.children, lo[q], hi[q], lo, hi)
      /\ q \in D \ LeavesOf(f)
  BY <1>1, NeighboursAre
<1>4. /\ n \in Internal /\ n.keys \in Seq(Keys) /\ n.children \in Seq(Pages)
      /\ Len(n.keys) \in Nat /\ Len(n.children) = Len(n.keys) + 1
      /\ ToSet(n.children) \subseteq D
      /\ \A j \in 1..Len(n.keys)+1 : n.children[j] \in ToSet(n.children)
  BY <1>2, BranchIs
<1>5. Coalesced(f[l], f[r], lo[l], hi[l], hi[r], lo, hi, m)
  <2>1. Pair(f[l], f[r], lo[l], hi[l], hi[r], lo, hi)
    BY <1>1, PairOf
  <2>2. m = Joined(f[l], f[r], hi[l]) /\ Sibling(f[l], m) /\ ToSet(Kids(m)) = ToSet(Kids(f[l])) \cup ToSet(Kids(f[r]))
    BY <1>3 DEF Joining
  <2> QED
    BY <2>1, <2>2, CoalescedIs
<1>6. m.kind = f[l].kind
  BY <1>5 DEF Coalesced
<1>7. g = Without(Put(Put(f, l, m), q, w), r)
  BY DEF Joining
<1>8. w.kind = "internal" /\ w.keys = RemoveAt(n.keys, i) /\ w.children = RemoveAt(n.children, i + 1)
  BY <1>4, WithoutChildParts
<1> HIDE DEF n, w, D
<1>9. /\ DOMAIN g = D \ {r} /\ g[l] = m /\ g[q] = w
      /\ \A p \in D \ {r} : p # q /\ p # l => g[p] = f[p]
  BY <1>2, <1>3, <1>7 DEF Without, Put, D
<1>10. /\ lo \in [D -> Nat] /\ hi \in [D -> Nat] /\ Spanned(D, lo, hi)
       /\ Leaves(f, lo, hi) /\ Branches(f, lo, hi, hi)
       /\ top \in D /\ lo[top] = 0 /\ hi[top] = MaxKey + 1
  BY <1>2 DEF Ordered, Spans, D
<1>11. PICK lo2, hi2 : JoinedBounds(D, lo, hi, l, r, lo2, hi2)
  <2>1. Touching(D, lo, hi, l, r)
    BY <1>2, <1>3, <1>10 DEF Touching
  <2> QED
    BY <2>1, BoundsJoined
<1>12. /\ lo2 \in [D \ {r} -> Nat] /\ hi2 \in [D \ {r} -> Nat] /\ Spanned(D \ {r}, lo2, hi2)
       /\ \A p \in D \ {r} : lo2[p] = lo[p]
       /\ hi2[l] = hi[r] /\ \A p \in D \ {r} : p # l => hi2[p] = hi[p]
  BY <1>11 DEF JoinedBounds
<1>13. LeavesOf(g) = LeavesOf(f) \ {r} /\ \A p \in LeavesOf(f) : p \in D /\ p # q
  <2>1. \A p \in D \ {r} : p # q => g[p].kind = f[p].kind
    BY <1>6, <1>9
  <2> QED
    BY <1>2, <1>8, <1>9, <2>1 DEF LeavesOf, D, n
<1>14. Divides(g[q].keys, g[q].children, lo2[q], hi2[q], lo2, hi2)
  <2>1. \A j \in 1..Len(n.keys)+1 : j # i + 1 => /\ lo2[n.children[j]] = lo[n.children[j]]
                                                 /\ j # i => hi2[n.children[j]] = hi[n.children[j]]
    BY <1>3, <1>4, <1>12
  <2>2. hi2[n.children[i]] = hi[n.children[i+1]]
    BY <1>2, <1>12
  <2>3. Yields(n.keys, n.children, lo[q], hi[q], lo, hi, i, lo2, hi2)
    BY <1>2, <1>3, <1>4, <2>1, <2>2 DEF Yields
  <2>4. Divides(RemoveAt(n.keys, i), RemoveAt(n.children, i + 1), lo[q], hi[q], lo2, hi2)
    BY <2>3, DividesWithout
  <2> QED
    BY <1>2, <1>8, <1>9, <1>12, <2>4
<1>15. ASSUME NEW p \in D, p # q
       PROVE  \A c \in ToSet(Kids(f[p])) : c \in D /\ lo2[c] = lo[c] /\ hi2[c] = hi[c]
  <2>1. ToSet(Kids(f[p])) \subseteq D /\ l \notin ToSet(Kids(f[p])) /\ r \notin ToSet(Kids(f[p]))
    BY <1>2, <1>3, <1>15 DEF Related, D
  <2> QED
    BY <1>12, <2>1
<1>16. ASSUME Leaves(g, lo2, hi2) /\ Branches(g, lo2, hi2, hi2) PROVE InOrder(g, top)
  <2>1. top \in DOMAIN g /\ lo2[top] = 0 /\ hi2[top] = MaxKey + 1
    BY <1>2, <1>9, <1>10, <1>12
  <2>2. lo2 \in [DOMAIN g -> Nat] /\ hi2 \in [DOMAIN g -> Nat] /\ Spanned(DOMAIN g, lo2, hi2)
    BY <1>9, <1>12
  <2>3. Ordered(g, top, lo2, hi2, hi2)
    BY <1>16, <2>1, <2>2 DEF Ordered, Spans
  <2> QED
    BY <2>2, <2>3, Zenon DEF InOrder
<1>17. CASE f[l].kind = "leaf"
  <2>1. l \in LeavesOf(f) /\ r \in LeavesOf(f)
    BY <1>2, <1>3, <1>17 DEF LeavesOf, D
  <2>2. /\ m.next = f[r].next /\ Stored(m, lo[l], hi[r])
        /\ ToSet(m.entries) = ToSet(f[l].entries) \cup ToSet(f[r].entries)
    BY <1>5, <1>17 DEF Coalesced
  <2>3. \A p \in LeavesOf(f) \ {l, r} : g[p] = f[p] /\ hi2[p] = hi[p]
    BY <1>9, <1>12, <1>13
  <2>5. \A p \in LeavesOf(g) : lo2[p] = lo[p]
    BY <1>12, <1>13
  <2>4. Absorbed(f, lo, hi, g, lo2, hi2, l, r)
    BY <1>3, <1>9, <1>10, <1>12, <1>13, <2>1, <2>2, <2>3, <2>5 DEF Absorbed
  <2>6. Leaves(g, lo2, hi2) /\ Held(g) = HeldBut(f, {l, r}) \cup ToSet(g[l].entries)
    BY <2>4, LeafAbsorbed
  <2>7. Held(f) = HeldBut(f, {l, r}) \cup (ToSet(f[l].entries) \cup ToSet(f[r].entries))
    BY <1>2, <2>1, HeldTwo
  <2>8. Held(g) = Held(f)
    BY <1>9, <2>2, <2>6, <2>7
  <2>9. Elsewhere(f, lo, hi, hi, g, lo2, hi2, hi2, {q})
    <3> SUFFICES ASSUME NEW p \in (DOMAIN g \ LeavesOf(g)) \ {q}
                 PROVE  /\ p \in DOMAIN f \ LeavesOf(f) /\ g[p] = f[p] /\ lo2[p] = lo[p] /\ hi2[p] = hi[p]
                        /\ \A c \in ToSet(Kids(f[p])) : lo2[c] = lo[c] /\ hi2[c] = hi[c]
      BY DEF Elsewhere
    <3>1. p \in D \ LeavesOf(f) /\ p # q /\ p # l /\ p # r
      BY <1>2, <1>9, <1>13, <2>1
    <3> QED
      BY <1>9, <1>12, <1>15, <3>1 DEF D
  <2>10. Branches(g, lo2, hi2, hi2)
    <3>1. \A p \in {q} : Divides(g[p].keys, g[p].children, lo2[p], hi2[p], lo2, hi2)
      BY <1>14
    <3> QED
      BY <1>2, <1>10, <2>9, <3>1, BranchesKept
  <2> QED
    BY <1>16, <2>6, <2>8, <2>10
<1>18. CASE f[l].kind # "leaf"
  <2>1. /\ m.keys \in Seq(Keys) /\ m.children \in Seq(Pages) /\ Len(m.children) = Len(m.keys) + 1
        /\ ToSet(m.children) = ToSet(Kids(f[l])) \cup ToSet(Kids(f[r]))
        /\ Divides(m.keys, m.children, lo[l], hi[r], lo, hi)
    BY <1>5, <1>18 DEF Coalesced
  <2>2. \A c \in ToSet(m.children) : lo2[c] = lo[c] /\ hi2[c] = hi[c]
    BY <1>2, <1>3, <1>15, <2>1
  <2>3. Len(m.keys) \in Nat /\ \A j \in 1..Len(m.keys)+1 : m.children[j] \in ToSet(m.children)
    BY <2>1, SeqIs, ToSetIs
  <2>4. Divides(m.keys, m.children, lo[l], hi[r], lo2, hi2)
    BY <2>1, <2>2, <2>3, HalfKept
  <2>5. \A p \in LeavesOf(f) : p # l /\ p # r
    BY <1>2, <1>18 DEF LeavesOf
  <2>6. Leaves(g, lo2, hi2) /\ Held(g) = Held(f)
    <3>1. \A p \in LeavesOf(f) : g[p] = f[p] /\ lo2[p] = lo[p] /\ hi2[p] = hi[p]
      BY <1>9, <1>12, <1>13, <2>5
    <3>2. LeavesOf(g) = LeavesOf(f)
      BY <1>13, <2>5
    <3> QED
      BY <1>10, <3>1, <3>2, LeavesKept
  <2>7. Elsewhere(f, lo, hi, hi, g, lo2, hi2, hi2, {q, l})
    <3> SUFFICES ASSUME NEW p \in (DOMAIN g \ LeavesOf(g)) \ {q, l}
                 PROVE  /\ p \in DOMAIN f \ LeavesOf(f) /\ g[p] = f[p] /\ lo2[p] = lo[p] /\ hi2[p] = hi[p]
                        /\ \A c \in ToSet(Kids(f[p])) : lo2[c] = lo[c] /\ hi2[c] = hi[c]
      BY DEF Elsewhere
    <3>1. p \in D \ LeavesOf(f) /\ p # q /\ p # l /\ p # r
      BY <1>9, <1>13
    <3> QED
      BY <1>9, <1>12, <1>15, <3>1 DEF D
  <2>8. Branches(g, lo2, hi2, hi2)
    <3>1. lo2[l] = lo[l] /\ hi2[l] = hi[r]
      BY <1>2, <1>3, <1>12
    <3>2. \A p \in {q, l} : Divides(g[p].keys, g[p].children, lo2[p], hi2[p], lo2, hi2)
      BY <1>9, <1>14, <2>4, <3>1
    <3> QED
      BY <1>2, <1>10, <2>7, <3>2, BranchesKept
  <2> QED
    BY <1>16, <2>6, <2>8
<1> QED
  BY <1>17, <1>18
-----------------------------------------------------------------------------
(* The order of a unique tree at every step.                               *)

LEMMA RelatedNow == ASSUME IInv PROVE Related(node)
<1>1. Nodes(node)
  BY DEF IInv, NodeInv
<1>2. \A p \in DOMAIN node : Fits(node[p])
  BY DEF IInv, SizeInv, Stocked
<1>3. PICK h \in [DOMAIN node -> Nat] : Forest(KidsIn(node), h, Tops, root)
  BY DEF IInv, ShapeInv
<1>4. DOMAIN KidsIn(node) = DOMAIN node /\ \A p \in DOMAIN node : KidsIn(node)[p] = ToSet(Kids(node[p]))
  BY DEF KidsIn
<1>5. \A p \in DOMAIN node : KidsIn(node)[p] \subseteq DOMAIN node
  BY <1>3, <1>4 DEF Forest
<1>6. \A p, q \in DOMAIN node : p # q => KidsIn(node)[p] \cap KidsIn(node)[q] = {}
  BY <1>3, <1>4 DEF Forest
<1>7. \A p, q \in DOMAIN node : p # q => Apart(Kids(node[p]), Kids(node[q]))
  BY <1>4, <1>6, Zenon DEF Apart
<1> QED
  BY <1>1, <1>2, <1>4, <1>5, <1>7 DEF Related

\* The root is nobody's child.
LEMMA RootFree == ASSUME IInv PROVE root \in DOMAIN node /\ \A p \in DOMAIN node : root \notin ToSet(Kids(node[p]))
<1>1. PICK h \in [DOMAIN node -> Nat] : Forest(KidsIn(node), h, Tops, root)
  BY DEF IInv, ShapeInv
<1>2. DOMAIN KidsIn(node) = DOMAIN node /\ \A p \in DOMAIN node : KidsIn(node)[p] = ToSet(Kids(node[p]))
  BY DEF KidsIn
<1>3. root \in Tops
  BY DEF Tops
<1>4. \A p \in DOMAIN node : root \notin KidsIn(node)[p]
  BY <1>1, <1>2, <1>3 DEF Forest
<1>5. root \in DOMAIN node
  BY DEF IInv, NodeInv
<1> QED
  BY <1>2, <1>4, <1>5

\* What holds of the bounds where no page has just been split.
Bounded(lo, hi) ==
    /\ lo \in [DOMAIN node -> Nat] /\ hi \in [DOMAIN node -> Nat]
    /\ Ordered(node, root, lo, hi, hi)
    /\ pc \in {"insert", "erase"} => lo[at] <= arg.key /\ arg.key < hi[at]

LEMMA OrderNow ==
    ASSUME OrderInv, unique, pc # "split" PROVE \E lo, hi : Bounded(lo, hi)
<1>1. PICK lo \in [DOMAIN node -> Nat], hi \in [DOMAIN node -> Nat] : Placed(lo, hi)
  BY DEF OrderInv
<1>2. Wide(hi) = hi
  BY DEF Wide
<1>3. Bounded(lo, hi)
  BY <1>1, <1>2 DEF Placed, Bounded
<1> QED
  BY <1>3

LEMMA InOrderNow ==
    ASSUME OrderInv, unique, pc # "split" PROVE InOrder(node, root)
<1>1. PICK lo, hi : Bounded(lo, hi)
  BY OrderNow
<1>2. lo \in [DOMAIN node -> Nat] /\ hi \in [DOMAIN node -> Nat] /\ Ordered(node, root, lo, hi, hi)
  BY <1>1 DEF Bounded
<1> QED
  BY <1>2, Zenon DEF InOrder

LEMMA SplitNow ==
    ASSUME OrderInv, unique, pc = "split" PROVE SplitOrder(node, root, at, split.right, split.key)
<1>1. PICK lo \in [DOMAIN node -> Nat], hi \in [DOMAIN node -> Nat] : Placed(lo, hi)
  BY DEF OrderInv
<1>2. Wide(hi) = Widened(hi, at, split.right)
  BY DEF Wide, Widened
<1>3. /\ Ordered(node, root, lo, hi, Widened(hi, at, split.right))
      /\ hi[at] = split.key /\ lo[split.right] = split.key
  BY <1>1, <1>2 DEF Placed
<1> QED
  BY <1>3, Zenon DEF SplitOrder

LEMMA OrderAfter ==
    ASSUME pc' \in {"idle", "erased"}, InOrder(node', root') PROVE OrderInv'
<1>1. PICK lo \in [DOMAIN node' -> Nat], hi \in [DOMAIN node' -> Nat] : Ordered(node', root', lo, hi, hi)
  BY DEF InOrder
<1>2. pc' # "split" /\ pc' # "insert" /\ pc' # "erase"
  OBVIOUS
<1>3. \E lo2, hi2 \in [DOMAIN node' -> Nat] :
         /\ Ordered(node', root', lo2, hi2, hi2) /\ pc' # "split" /\ pc' \notin {"insert", "erase"}
  BY <1>1, <1>2
<1> QED
  BY <1>3 DEF OrderInv, Placed, Wide

LEMMA OrderAfterSplit ==
    ASSUME pc' = "split", SplitOrder(node', root', at', split'.right, split'.key) PROVE OrderInv'
<1>1. \E lo, hi \in [DOMAIN node' -> Nat] :
         /\ Ordered(node', root', lo, hi, [hi EXCEPT ![at'] = hi[split'.right]])
         /\ hi[at'] = split'.key /\ lo[split'.right] = split'.key
  BY DEF SplitOrder, Widened
<1>2. pc' # "insert" /\ pc' # "erase"
  OBVIOUS
<1> QED
  BY <1>1, <1>2 DEF OrderInv, Placed, Wide

\* The way down goes on at a page that the key of the call belongs to.
LEMMA OrderOnward ==
    ASSUME pc' \in {"insert", "erase"}, node' = node, root' = root, NEW lo, NEW hi, Bounded(lo, hi),
           lo[at'] <= arg'.key, arg'.key < hi[at']
    PROVE  OrderInv'
<1>1. /\ lo \in [DOMAIN node -> Nat] /\ hi \in [DOMAIN node -> Nat]
      /\ Ordered(node', root', lo, hi, hi)
  BY DEF Bounded
<1>2. pc' # "split"
  OBVIOUS
<1>3. \E lo2, hi2 \in [DOMAIN node' -> Nat] :
         /\ Ordered(node', root', lo2, hi2, hi2) /\ lo2[at'] <= arg'.key /\ arg'.key < hi2[at']
  BY <1>1
<1> QED
  BY <1>2, <1>3 DEF OrderInv, Placed, Wide

LEMMA CallOrder ==
    ASSUME IInv, OrderInv, unique, NEW k \in tree.keys,
           Erase(k) \/ \E v \in tree.vals, o \in BOOLEAN : Insert(k, v, o)
    PROVE  OrderInv'
<1>1. /\ pc = "idle" /\ tree' = tree /\ node' = node /\ root' = root /\ at' = root
      /\ arg'.key = k /\ pc' \in {"insert", "erase"}
  <2>1. CASE Erase(k)
    BY <2>1 DEF Erase, NoArg
  <2>2. CASE \E v \in tree.vals, o \in BOOLEAN : Insert(k, v, o)
    BY <2>2 DEF Insert
  <2> QED
    BY <2>1, <2>2
<1>2. k \in 1..MaxKey
  BY <1>1, Resting
<1>3. PICK lo, hi : Bounded(lo, hi)
  BY <1>1, OrderNow
<1>4. lo[root] = 0 /\ hi[root] = MaxKey + 1
  BY <1>3 DEF Bounded, Ordered
<1>5. lo[at'] <= arg'.key /\ arg'.key < hi[at']
  BY <1>1, <1>2, <1>4
<1> QED
  BY <1>1, <1>3, <1>5, OrderOnward

LEMMA DescendOrder == ASSUME IInv, OrderInv, unique, Descend PROVE OrderInv'
<1> DEFINE ci == ChildIndexFor(node[at], arg.key)
           n  == node[at]
<1>1. /\ pc \in {"insert", "erase"} /\ n.kind = "internal" /\ at' = n.children[ci]
      /\ node' = node /\ root' = root /\ pc' = pc /\ arg' = arg
  BY DEF Descend
<1>2. arg.key \in Keys /\ at \in DOMAIN node
  BY <1>1, Working
<1>3. PICK lo, hi : Bounded(lo, hi)
  BY <1>1, OrderNow
<1>4. /\ lo[at] <= arg.key /\ arg.key < hi[at] /\ Branches(node, lo, hi, hi) /\ Spans(node, lo, hi)
  BY <1>1, <1>3 DEF Bounded, Ordered
<1>5. n.keys \in Seq(Keys) /\ at \in DOMAIN node \ LeavesOf(node)
  <2>1. Related(node) /\ n.kind # "leaf"
    BY <1>1, RelatedNow
  <2> QED
    BY <1>2, <2>1, BranchIs
<1>6. Divides(n.keys, n.children, lo[at], hi[at], lo, hi)
  BY <1>4, <1>5 DEF Branches
<1>7. lo[at] \in Nat /\ hi[at] \in Nat /\ arg.key \in Nat
  BY <1>2, <1>4, KeysAre DEF Spans
<1>8. ci = UpperBound(n.keys, arg.key)
  BY DEF ChildIndexFor
<1> HIDE DEF ci, n
<1>9. lo[n.children[ci]] <= arg.key /\ arg.key < hi[n.children[ci]]
  BY <1>4, <1>5, <1>6, <1>7, <1>8, ChildFor
<1>10. lo[at'] <= arg'.key /\ arg'.key < hi[at'] /\ pc' \in {"insert", "erase"}
  BY <1>1, <1>9
<1> QED
  BY <1>1, <1>3, <1>10, OrderOnward
-----------------------------------------------------------------------------
(* Where the entries are written.                                          *)

\* The first entry of a key or above it: those before it are below the key.
LEMMA LowerSplits ==
    ASSUME NEW es \in Seq(Entry), Ascending(es), NEW k \in Keys
    PROVE  /\ LowerBound(KeysOf(es), k) \in 1..Len(es)+1
           /\ \A j \in 1..Len(es) : es[j].key < k <=> j < LowerBound(KeysOf(es), k)
<1> DEFINE ks == KeysOf(es)
           p  == LowerBound(ks, k)
           n  == Len(es)
<1>1. DOMAIN es = 1..n /\ n \in Nat /\ \A j \in 1..n : es[j].key \in Nat
  BY EntryKeys
<1>2. ks \in Seq(Nat) /\ Len(ks) = n /\ \A j \in 1..n : ks[j] = es[j].key
  <2>1. \A j \in DOMAIN es : KeysOf(es)[j] = es[j].key
    BY DEF KeysOf
  <2> QED
    BY <1>1, <2>1, KeysOfIs
<1>3. k \in Nat
  BY KeysAre
<1>4. /\ p \in 1..n+1
      /\ p > 1 => ks[p - 1] < k
      /\ p <= n => ks[p] >= k
  BY <1>2, <1>3, BoundsIn
<1> HIDE DEF p, ks
<1>5. ASSUME NEW j \in 1..n PROVE es[j].key < k <=> j < p
  <2>1. CASE j < p
    <3>1. p > 1 /\ p - 1 \in 1..n
      BY <1>1, <1>4, <2>1
    <3>2. es[p-1].key < k /\ es[p-1].key \in Nat /\ es[j].key \in Nat
      BY <1>1, <1>2, <1>4, <3>1
    <3>3. j < p - 1 => es[j].key < es[p-1].key
      BY <1>1, <3>1 DEF Ascending
    <3>4. j = p - 1 \/ j < p - 1
      BY <1>4, <2>1
    <3> QED
      BY <1>3, <2>1, <3>2, <3>3, <3>4
  <2>2. CASE ~(j < p)
    <3>1. p \in 1..n
      BY <1>1, <1>4, <2>2
    <3>2. es[p].key >= k /\ es[p].key \in Nat /\ es[j].key \in Nat
      BY <1>1, <1>2, <1>4, <3>1
    <3>3. p < j => es[p].key < es[j].key
      BY <1>1, <3>1 DEF Ascending
    <3>4. j = p \/ p < j
      BY <1>4, <2>2
    <3> QED
      BY <1>3, <2>2, <3>2, <3>3, <3>4
  <2> QED
    BY <2>1, <2>2
<1> QED
  BY <1>4, <1>5 DEF p, ks

LEMMA LowerFinds ==
    ASSUME NEW es \in Seq(Entry), Ascending(es), NEW k \in Keys, HasKey(es, k)
    PROVE  /\ LowerBound(KeysOf(es), k) \in 1..Len(es)
           /\ es[LowerBound(KeysOf(es), k)].key = k
<1> DEFINE p == LowerBound(KeysOf(es), k)
           n == Len(es)
<1>1. DOMAIN es = 1..n /\ n \in Nat /\ \A j \in 1..n : es[j].key \in Nat
  BY EntryKeys
<1>2. p \in 1..n+1 /\ \A j \in 1..n : es[j].key < k <=> j < p
  BY LowerSplits
<1>3. PICK j \in 1..n : es[j].key = k
  BY <1>1 DEF HasKey
<1>4. k \in Nat
  BY KeysAre
<1> HIDE DEF p
<1>5. ~(j < p)
  BY <1>2, <1>3, <1>4
<1>6. p \in 1..n
  BY <1>1, <1>2, <1>5
<1>7. p < j => es[p].key < es[j].key
  BY <1>1, <1>6 DEF Ascending
<1>8. ~(p < j)
  <2>1. ~(es[p].key < k)
    BY <1>2, <1>6
  <2> QED
    BY <1>3, <1>7, <2>1
<1>9. p = j
  BY <1>5, <1>6, <1>8
<1> QED
  BY <1>3, <1>6, <1>9 DEF p

\* The call has come to the leaf its key belongs to.
AtHome(lo, hi) ==
    /\ Bounded(lo, hi) /\ at \in LeavesOf(node) /\ node[at] \in Leaf
    /\ node[at].entries \in Seq(Entry) /\ Ascending(node[at].entries)
    /\ Within(node[at].entries, lo[at], hi[at])
    /\ lo[at] \in Nat /\ hi[at] \in Nat /\ arg.key \in Keys /\ arg.key \in Nat
    /\ lo[at] <= arg.key /\ arg.key < hi[at]
    /\ Held(node) = HeldBut(node, {at}) \cup ToSet(node[at].entries)
    /\ \A e \in HeldBut(node, {at}) : e \in Entry /\ e.key # arg.key

LEMMA HomeIs ==
    ASSUME IInv, OrderInv, unique, pc \in {"insert", "erase"}, node[at].kind = "leaf"
    PROVE  \E lo, hi : AtHome(lo, hi)
<1>1. Nodes(node) /\ at \in DOMAIN node /\ arg.key \in Keys
  BY Working
<1>2. PICK lo, hi : Bounded(lo, hi)
  BY OrderNow
<1>3. /\ lo[at] <= arg.key /\ arg.key < hi[at] /\ Leaves(node, lo, hi)
  BY <1>2 DEF Bounded, Ordered
<1>4. at \in LeavesOf(node) /\ node[at] \in Leaf
  BY <1>1, NodesAre DEF LeavesOf
<1>5. node[at].entries \in Seq(Entry)
  BY <1>4, LeafIs
<1>6. Ascending(node[at].entries) /\ Within(node[at].entries, lo[at], hi[at])
  BY <1>3, <1>4 DEF Leaves, Chained
<1>7. lo[at] \in Nat /\ hi[at] \in Nat
  BY <1>3, <1>4 DEF Leaves, Spanned
<1>8. Held(node) = HeldBut(node, {at}) \cup ToSet(node[at].entries)
  BY <1>4, HeldOne
<1>9. arg.key \in Nat
  BY <1>1, KeysAre
<1>10. ASSUME NEW e \in HeldBut(node, {at}) PROVE e \in Entry /\ e.key # arg.key
  <2>1. e \in Entry /\ (e.key < lo[at] \/ hi[at] <= e.key)
    BY <1>1, <1>3, <1>4, HeldElsewhere
  <2>2. e.key \in Nat
    BY <2>1, KeysAre DEF Entry, Keys
  <2> QED
    BY <1>3, <1>7, <1>9, <2>1, <2>2
<1>11. AtHome(lo, hi)
  BY <1>1, <1>2, <1>3, <1>4, <1>5, <1>6, <1>7, <1>8, <1>9, <1>10 DEF AtHome
<1> QED
  BY <1>11

\* The leaf is written, with entries of the keys it is for.
LEMMA HomeWritten ==
    ASSUME IInv, NEW lo, NEW hi, AtHome(lo, hi), NEW es \in Seq(Entry),
           Ascending(es), Within(es, lo[at], hi[at])
    PROVE  /\ InOrder(Put(node, at, Filled(node[at], es)), root)
           /\ Held(Put(node, at, Filled(node[at], es))) = HeldBut(node, {at}) \cup ToSet(es)
<1> DEFINE m == Filled(node[at], es)
           g == Put(node, at, m)
<1>1. /\ Ordered(node, root, lo, hi, hi) /\ at \in LeavesOf(node) /\ node[at] \in Leaf
      /\ lo \in [DOMAIN node -> Nat] /\ hi \in [DOMAIN node -> Nat]
  BY DEF AtHome, Bounded
<1>2. m.kind = "leaf" /\ m.next = node[at].next /\ m.entries = es
  <2>1. m \in Leaf /\ m.entries = es
    BY <1>1, LeafWith
  <2>2. m.next = node[at].next
    BY <1>1 DEF Filled, Leaf
  <2> QED
    BY <2>1, <2>2, LeafIs
<1> HIDE DEF m
<1>3. /\ DOMAIN g = DOMAIN node /\ g[at] = m /\ \A q \in DOMAIN node : q # at => g[q] = node[q]
  BY <1>1 DEF Put, LeavesOf
<1> HIDE DEF g
<1>4. Related(node)
  BY RelatedNow
<1>5. Stored(g[at], lo[at], hi[at])
  BY <1>2, <1>3 DEF Stored
<1>6. Rewriting(node, root, lo, hi, hi, at, g)
  BY <1>1, <1>2, <1>3, <1>4, <1>5 DEF Rewriting
<1>7. Ordered(g, root, lo, hi, hi) /\ Held(g) = HeldBut(node, {at}) \cup ToSet(g[at].entries)
  BY <1>6, OrderRewritten
<1>8. lo \in [DOMAIN g -> Nat] /\ hi \in [DOMAIN g -> Nat] /\ Ordered(g, root, lo, hi, hi)
  BY <1>1, <1>3, <1>7
<1>9. InOrder(g, root)
  BY <1>8, Zenon DEF InOrder
<1> QED
  BY <1>2, <1>3, <1>7, <1>9 DEF g, m

\* What a call does to the entries held.
HeldWith(e)    == Held(node') = {d \in Held(node) : d.key # e.key} \cup {e}
HeldWithout(k) == Held(node') = {d \in Held(node) : d.key # k}

LEMMA UpdateEntryOrder ==
    ASSUME IInv, OrderInv, unique, UpdateEntry
    PROVE  /\ OrderInv'
           /\ \E d \in Held(node) : d.key = arg.key
           /\ Held(node') = Held(node) \/ HeldWith(NewEntry)
<1> DEFINE es == node[at].entries
           i  == LowerBound(KeysOf(es), arg.key)
           us == [es EXCEPT ![i].val = arg.val]
<1>1. /\ pc = "insert" /\ node[at].kind = "leaf" /\ root' = root /\ pc' = "idle" /\ HasKey(es, arg.key)
  BY DEF UpdateEntry, AtLeaf, Finish, Present
<1>2. node' = IF arg.overwrite THEN [node EXCEPT ![at].entries[i].val = arg.val] ELSE node
  BY DEF UpdateEntry
<1>3. PICK lo, hi : AtHome(lo, hi)
  BY <1>1, HomeIs
<1>4. /\ es \in Seq(Entry) /\ Ascending(es) /\ Within(es, lo[at], hi[at]) /\ arg.key \in Keys
      /\ Held(node) = HeldBut(node, {at}) \cup ToSet(es)
      /\ \A e \in HeldBut(node, {at}) : e.key # arg.key
  BY <1>3 DEF AtHome
<1>5. i \in 1..Len(es) /\ es[i].key = arg.key
  <2> HIDE DEF es
  <2> QED
    BY <1>1, <1>4, LowerFinds
<1>6. [node EXCEPT ![at].entries[i].val = arg.val] = Put(node, at, Filled(node[at], us))
  BY DEF Put, Filled
<1> HIDE DEF i, es
<1>7. es[i] \in ToSet(es) /\ es[i] \in Held(node)
  BY <1>4, <1>5, EntryKeys
<1>8. CASE ~arg.overwrite
  <2>1. node' = node /\ InOrder(node', root') /\ pc' \in {"idle", "erased"}
    BY <1>1, <1>2, <1>8, InOrderNow
  <2> QED
    BY <1>5, <1>7, <2>1, OrderAfter
<1>9. CASE arg.overwrite
  <2>1. arg.val \in Values
    BY <1>1 DEF IInv, CallInv
  <2>2. /\ us \in Seq(Entry) /\ Ascending(us)
        /\ ToSet(us) = {e \in ToSet(es) : e.key # arg.key} \cup {NewEntry}
    <3>1. /\ us \in Seq(Entry) /\ Ascending(us)
          /\ ToSet(us) = {e \in ToSet(es) : e.key # es[i].key} \cup {[key |-> es[i].key, val |-> arg.val]}
      BY <1>4, <1>5, <2>1, AscendingUpdated, Zenon
    <3> QED
      BY <1>5, <3>1 DEF NewEntry
  <2>3. Within(us, lo[at], hi[at])
    <3>1. \A e \in ToSet(es) : lo[at] <= e.key /\ e.key < hi[at]
      BY <1>4, WithinIs
    <3>2. lo[at] <= NewEntry.key /\ NewEntry.key < hi[at]
      BY <1>3 DEF AtHome, NewEntry
    <3> HIDE DEF us
    <3>3. \A e \in ToSet(us) : lo[at] <= e.key /\ e.key < hi[at]
      BY <2>2, <3>1, <3>2
    <3> QED
      BY <2>2, <3>3, WithinIs
  <2>4. node' = Put(node, at, Filled(node[at], us))
    BY <1>2, <1>6, <1>9
  <2> HIDE DEF us
  <2>5. InOrder(node', root') /\ Held(node') = HeldBut(node, {at}) \cup ToSet(us)
    BY <1>1, <1>3, <2>2, <2>3, <2>4, HomeWritten
  <2>6. HeldWith(NewEntry)
    <3>1. NewEntry.key = arg.key
      BY DEF NewEntry
    <3> QED
      BY <1>4, <2>2, <2>5, <3>1 DEF HeldWith
  <2> QED
    BY <1>1, <1>5, <1>7, <2>5, <2>6, OrderAfter
<1> QED
  BY <1>8, <1>9

\* None of the entries held has the key of the call.
LEMMA HomeLacks ==
    ASSUME NEW lo, NEW hi, AtHome(lo, hi), ~HasKey(node[at].entries, arg.key)
    PROVE  \A d \in Held(node) : d.key # arg.key
<1> DEFINE es == node[at].entries
<1>1. /\ es \in Seq(Entry) /\ Held(node) = HeldBut(node, {at}) \cup ToSet(es)
      /\ \A e \in HeldBut(node, {at}) : e.key # arg.key
  BY DEF AtHome
<1>2. \A j \in 1..Len(es) : es[j].key # arg.key
  BY <1>1, EntryKeys DEF HasKey
<1> HIDE DEF es
<1>3. ASSUME NEW d \in ToSet(es) PROVE d.key # arg.key
  <2>1. PICK j \in 1..Len(es) : d = es[j]
    BY <1>1, EntryKeys
  <2> QED
    BY <1>2, <2>1
<1> QED
  BY <1>1, <1>3

LEMMA InsertEntryOrder ==
    ASSUME IInv, OrderInv, unique, InsertEntry
    PROVE  OrderInv' /\ HeldWith(NewEntry) /\ \A d \in Held(node) : d.key # arg.key
<1> DEFINE n  == node[at]
           es == n.entries
           us == Inserted(es, NewEntry)
<1>1. /\ pc = "insert" /\ n.kind = "leaf" /\ root' = root /\ pc' = "idle"
      /\ node' = Put(node, at, Filled(n, us)) /\ ~HasKey(es, arg.key)
  BY DEF InsertEntry, AtLeaf, Put, Filled, Finish, Present
<1>2. PICK lo, hi : AtHome(lo, hi)
  BY <1>1, HomeIs
<1>3. /\ es \in Seq(Entry) /\ Ascending(es) /\ Within(es, lo[at], hi[at]) /\ arg.key \in Keys
      /\ Held(node) = HeldBut(node, {at}) \cup ToSet(es)
      /\ lo[at] <= arg.key /\ arg.key < hi[at]
  BY <1>2 DEF AtHome
<1>4. NewEntry \in Entry /\ NewEntry.key = arg.key
  <2>1. arg.val \in Values
    BY <1>1 DEF IInv, CallInv
  <2> QED
    BY <1>3, <2>1 DEF NewEntry, Entry, Keys
<1>5. \A d \in Held(node) : d.key # arg.key
  BY <1>1, <1>2, HomeLacks
<1> HIDE DEF es
<1>6. us \in Seq(Entry) /\ Ascending(us) /\ ToSet(us) = ToSet(es) \cup {NewEntry}
  BY <1>1, <1>3, <1>4, InsertedIs, AscendingInserted
<1>7. Within(us, lo[at], hi[at])
  <2> HIDE DEF us
  <2>1. \A e \in ToSet(es) : lo[at] <= e.key /\ e.key < hi[at]
    BY <1>3, WithinIs
  <2>2. \A e \in ToSet(us) : lo[at] <= e.key /\ e.key < hi[at]
    BY <1>3, <1>4, <1>6, <2>1
  <2> QED
    BY <1>6, <2>2, WithinIs
<1> HIDE DEF us
<1>8. InOrder(node', root') /\ Held(node') = HeldBut(node, {at}) \cup ToSet(us)
  BY <1>1, <1>2, <1>6, <1>7, HomeWritten
<1>9. HeldWith(NewEntry)
  BY <1>3, <1>4, <1>5, <1>6, <1>8 DEF HeldWith
<1> QED
  BY <1>1, <1>5, <1>8, <1>9, OrderAfter

LEMMA EraseAbsentOrder ==
    ASSUME IInv, OrderInv, unique, EraseAbsent
    PROVE  OrderInv' /\ Held(node') = Held(node)
<1>1. pc = "erase" /\ node' = node /\ root' = root /\ pc' \in {"idle", "erased"}
  BY DEF EraseAbsent, AtLeaf, Finish
<1>2. InOrder(node', root')
  BY <1>1, InOrderNow
<1> QED
  BY <1>1, <1>2, OrderAfter

LEMMA EraseEntryOrder ==
    ASSUME IInv, OrderInv, unique, EraseEntry
    PROVE  OrderInv' /\ HeldWithout(arg.key) /\ \E d \in Held(node) : d.key = arg.key
<1> DEFINE n  == node[at]
           es == n.entries
           i  == LowerBound(KeysOf(es), arg.key)
           us == RemoveAt(es, i)
<1>1. /\ pc = "erase" /\ n.kind = "leaf" /\ root' = root /\ pc' \in {"idle", "erased"}
      /\ node' = Put(node, at, Filled(n, us)) /\ HasKey(es, arg.key)
  BY DEF EraseEntry, AtLeaf, Put, Filled, Present
<1>2. PICK lo, hi : AtHome(lo, hi)
  BY <1>1, HomeIs
<1>3. /\ es \in Seq(Entry) /\ Ascending(es) /\ Within(es, lo[at], hi[at]) /\ arg.key \in Keys
      /\ Held(node) = HeldBut(node, {at}) \cup ToSet(es)
      /\ \A e \in HeldBut(node, {at}) : e.key # arg.key
  BY <1>2 DEF AtHome
<1> HIDE DEF es
<1>4. i \in 1..Len(es) /\ es[i].key = arg.key
  BY <1>1, <1>3, LowerFinds
<1> HIDE DEF i
<1>5. us \in Seq(Entry) /\ Ascending(us) /\ ToSet(us) = {e \in ToSet(es) : e.key # arg.key}
  BY <1>3, <1>4, AscendingRemoved
<1> HIDE DEF us
<1>6. Within(us, lo[at], hi[at])
  <2>1. \A e \in ToSet(es) : lo[at] <= e.key /\ e.key < hi[at]
    BY <1>3, WithinIs
  <2>2. \A e \in ToSet(us) : lo[at] <= e.key /\ e.key < hi[at]
    BY <1>5, <2>1
  <2> QED
    BY <1>5, <2>2, WithinIs
<1>7. InOrder(node', root') /\ Held(node') = HeldBut(node, {at}) \cup ToSet(us)
  BY <1>1, <1>2, <1>5, <1>6, HomeWritten
<1>8. HeldWithout(arg.key)
  BY <1>3, <1>5, <1>7 DEF HeldWithout
<1>9. es[i] \in Held(node)
  BY <1>3, <1>4, EntryKeys
<1> QED
  BY <1>1, <1>4, <1>7, <1>8, <1>9, OrderAfter
-----------------------------------------------------------------------------
(* A leaf that splits.                                                     *)

LEMMA HasKeyIs ==
    ASSUME NEW es \in Seq(Entry), NEW k
    PROVE  HasKey(es, k) <=> \E d \in ToSet(es) : d.key = k
<1>1. ASSUME HasKey(es, k) PROVE \E d \in ToSet(es) : d.key = k
  <2>1. PICK i \in 1..Len(es) : es[i].key = k
    BY <1>1, EntryKeys DEF HasKey
  <2> QED
    BY <2>1, EntryKeys
<1>2. ASSUME NEW d \in ToSet(es), d.key = k PROVE HasKey(es, k)
  <2>1. PICK i \in 1..Len(es) : d = es[i]
    BY EntryKeys
  <2> QED
    BY <1>2, <2>1, EntryKeys DEF HasKey
<1> QED
  BY <1>1, <1>2

LEMMA FirstIsLeast ==
    ASSUME NEW es \in Seq(Entry), Ascending(es), Len(es) >= 1
    PROVE  es[1] \in ToSet(es) /\ es[1].key \in Nat /\ \A d \in ToSet(es) : es[1].key <= d.key /\ d.key \in Nat
<1>1. /\ Len(es) \in Nat /\ DOMAIN es = 1..Len(es)
      /\ \A i \in 1..Len(es) : es[i] \in ToSet(es) /\ es[i].key \in Nat
  BY EntryKeys
<1>2. 1 \in 1..Len(es)
  BY <1>1
<1>3. ASSUME NEW d \in ToSet(es) PROVE es[1].key <= d.key /\ d.key \in Nat
  <2>1. PICK i \in 1..Len(es) : d = es[i]
    BY EntryKeys
  <2>2. i = 1 \/ 1 < i
    BY <1>1
  <2>3. 1 < i => es[1].key < es[i].key
    BY <1>1, <1>2 DEF Ascending
  <2> QED
    BY <1>1, <1>2, <2>1, <2>2, <2>3
<1> QED
  BY <1>1, <1>2, <1>3

LowerHalf(es) == SubSeq(es, 1, Len(es) \div 2)
UpperHalf(es) == SubSeq(es, (Len(es) \div 2) + 1, Len(es))
LeftLeaf(es, e)  == IF e.key < UpperHalf(es)[1].key THEN Inserted(LowerHalf(es), e) ELSE LowerHalf(es)
RightLeaf(es, e) == IF e.key < UpperHalf(es)[1].key THEN UpperHalf(es) ELSE Inserted(UpperHalf(es), e)

\* The two leaves, each in order, and all of the one below all of the other.
LeafParts(es, a, b) ==
    /\ a \in Seq(Entry) /\ Len(a) >= 1 /\ Ascending(a)
    /\ b \in Seq(Entry) /\ Len(b) >= 1 /\ Ascending(b)
    /\ \A c \in ToSet(a), d \in ToSet(b) : c.key < d.key

LEMMA LeafParted ==
    ASSUME unique, NEW es \in Seq(Entry), Ascending(es), Len(es) >= 2, NEW e \in Entry, ~HasKey(es, e.key)
    PROVE  /\ LeafParts(es, LeftLeaf(es, e), RightLeaf(es, e))
           /\ ToSet(LeftLeaf(es, e)) \cup ToSet(RightLeaf(es, e)) = ToSet(es) \cup {e}
<1> DEFINE a == LowerHalf(es)
           b == UpperHalf(es)
           m == Len(es) \div 2
<1>1. m \in 0..Len(es) /\ m \in Nat /\ m >= 1 /\ Len(es) \in Nat /\ Len(es) - m >= 1
  BY SeqIs
<1>2. /\ a \in Seq(Entry) /\ Len(a) = m /\ Ascending(a)
      /\ b \in Seq(Entry) /\ Len(b) = Len(es) - m /\ Ascending(b)
      /\ ToSet(es) = ToSet(a) \cup ToSet(b)
      /\ \A c \in ToSet(a), d \in ToSet(b) : c.key < d.key
  <2> HIDE DEF m
  <2>1. a = SubSeq(es, 1, m) /\ b = SubSeq(es, m + 1, Len(es))
    BY DEF LowerHalf, UpperHalf, m
  <2> QED
    BY <1>1, <2>1, AscendingHalves, Zenon
<1>3. Len(a) >= 1 /\ Len(b) >= 1
  BY <1>1, <1>2
<1> HIDE DEF a, b, m
<1>4. ~HasKey(a, e.key) /\ ~HasKey(b, e.key)
  BY <1>2, HasKeyIs
<1>5. /\ b[1] \in ToSet(b) /\ b[1].key \in Nat
      /\ \A d \in ToSet(b) : b[1].key <= d.key /\ d.key \in Nat
  BY <1>2, <1>3, FirstIsLeast
<1>6. /\ a[1] \in ToSet(a) /\ \A d \in ToSet(a) : d.key \in Nat
  BY <1>2, <1>3, FirstIsLeast
<1>7. e.key \in Nat
  BY KeysAre DEF Entry, Keys
<1>8. CASE e.key < b[1].key
  <2>1. LeftLeaf(es, e) = Inserted(a, e) /\ RightLeaf(es, e) = b
    BY <1>8 DEF LeftLeaf, RightLeaf, a, b
  <2>2. /\ Inserted(a, e) \in Seq(Entry) /\ Len(Inserted(a, e)) >= 1
        /\ Ascending(Inserted(a, e)) /\ ToSet(Inserted(a, e)) = ToSet(a) \cup {e}
    <3>1. Inserted(a, e) \in Seq(Entry) /\ Len(Inserted(a, e)) = Len(a) + 1
      BY <1>2, InsertedIs
    <3>2. Ascending(Inserted(a, e)) /\ ToSet(Inserted(a, e)) = ToSet(a) \cup {e}
      BY <1>2, <1>4, AscendingInserted
    <3> QED
      BY <1>1, <1>2, <3>1, <3>2
  <2>3. \A d \in ToSet(b) : e.key < d.key
    BY <1>5, <1>7, <1>8
  <2>4. \A c \in ToSet(Inserted(a, e)), d \in ToSet(b) : c.key < d.key
    BY <1>2, <2>2, <2>3
  <2> QED
    BY <1>2, <1>3, <2>1, <2>2, <2>4 DEF LeafParts
<1>9. CASE ~(e.key < b[1].key)
  <2>1. LeftLeaf(es, e) = a /\ RightLeaf(es, e) = Inserted(b, e)
    BY <1>9 DEF LeftLeaf, RightLeaf, a, b
  <2>2. /\ Inserted(b, e) \in Seq(Entry) /\ Len(Inserted(b, e)) >= 1
        /\ Ascending(Inserted(b, e)) /\ ToSet(Inserted(b, e)) = ToSet(b) \cup {e}
    <3>1. Inserted(b, e) \in Seq(Entry) /\ Len(Inserted(b, e)) = Len(b) + 1
      BY <1>2, InsertedIs
    <3>2. Ascending(Inserted(b, e)) /\ ToSet(Inserted(b, e)) = ToSet(b) \cup {e}
      BY <1>2, <1>4, AscendingInserted
    <3> QED
      BY <1>1, <1>2, <3>1, <3>2
  <2>3. \A c \in ToSet(a) : c.key < e.key
    <3> SUFFICES ASSUME NEW c \in ToSet(a) PROVE c.key < e.key
      OBVIOUS
    <3>1. c.key < b[1].key /\ c.key \in Nat
      BY <1>2, <1>5, <1>6
    <3> QED
      BY <1>5, <1>7, <1>9, <3>1
  <2>4. \A c \in ToSet(a), d \in ToSet(Inserted(b, e)) : c.key < d.key
    BY <1>2, <2>2, <2>3
  <2> QED
    BY <1>2, <1>3, <2>1, <2>2, <2>4 DEF LeafParts
<1> QED
  BY <1>8, <1>9

LEMMA LeafPartsStored ==
    ASSUME NEW es, NEW a, NEW b, LeafParts(es, a, b), NEW l \in Nat, NEW h \in Nat,
           \A e \in ToSet(a) \cup ToSet(b) : l <= e.key /\ e.key < h
    PROVE  /\ b[1].key \in Nat /\ l < b[1].key /\ b[1].key < h
           /\ Within(a, l, b[1].key) /\ Within(b, b[1].key, h)
<1>1. /\ a \in Seq(Entry) /\ Len(a) >= 1 /\ Ascending(a)
      /\ b \in Seq(Entry) /\ Len(b) >= 1 /\ Ascending(b)
      /\ \A c \in ToSet(a), d \in ToSet(b) : c.key < d.key
  BY DEF LeafParts
<1>2. /\ b[1] \in ToSet(b) /\ b[1].key \in Nat
      /\ \A d \in ToSet(b) : b[1].key <= d.key /\ d.key \in Nat
  BY <1>1, FirstIsLeast
<1>3. a[1] \in ToSet(a) /\ a[1].key \in Nat /\ \A d \in ToSet(a) : d.key \in Nat
  BY <1>1, FirstIsLeast
<1>4. \A e \in ToSet(a) : l <= e.key /\ e.key < b[1].key
  BY <1>1, <1>2
<1>5. \A e \in ToSet(b) : b[1].key <= e.key /\ e.key < h
  BY <1>1, <1>2
<1>6. l < b[1].key
  <2>1. l <= a[1].key /\ a[1].key < b[1].key
    BY <1>3, <1>4
  <2> QED
    BY <1>2, <1>3, <2>1
<1>7. Within(a, l, b[1].key) /\ Within(b, b[1].key, h)
  BY <1>1, <1>4, <1>5, WithinIs
<1> QED
  BY <1>2, <1>6, <1>7

LEMMA SplitLeafOrder ==
    ASSUME IInv, OrderInv, unique, SplitLeaf
    PROVE  OrderInv' /\ HeldWith(NewEntry) /\ \A d \in Held(node) : d.key # arg.key
<1> DEFINE n     == node[at]
           es    == n.entries
           left  == LeftLeaf(es, NewEntry)
           right == RightLeaf(es, NewEntry)
           f     == Fresh
           ln    == [n EXCEPT !.entries = left, !.next = f]
           rn    == [kind |-> "leaf", entries |-> right, next |-> n.next]
           k     == right[1].key
<1>1. /\ pc = "insert" /\ n.kind = "leaf" /\ IsFull(n) /\ Room /\ ~HasKey(es, arg.key)
      /\ pc' = "split" /\ root' = root /\ at' = at
  BY DEF SplitLeaf, AtLeaf, Present
<1>2. /\ node' = With([node EXCEPT ![at].entries = left, ![at].next = f], f, rn)
      /\ split' = [key |-> k, right |-> f]
  BY DEF SplitLeaf, LeftLeaf, RightLeaf, LowerHalf, UpperHalf, NewEntry
<1>3. PICK lo, hi : AtHome(lo, hi)
  BY <1>1, HomeIs
<1>4. /\ n \in Leaf /\ es \in Seq(Entry) /\ Ascending(es) /\ Within(es, lo[at], hi[at])
      /\ arg.key \in Keys /\ lo[at] \in Nat /\ hi[at] \in Nat
      /\ Held(node) = HeldBut(node, {at}) \cup ToSet(es)
      /\ lo[at] <= arg.key /\ arg.key < hi[at] /\ at \in LeavesOf(node) /\ Ordered(node, root, lo, hi, hi)
  BY <1>3 DEF AtHome, Bounded
<1>5. NewEntry \in Entry /\ NewEntry.key = arg.key
  <2>1. arg.val \in Values
    BY <1>1 DEF IInv, CallInv
  <2> QED
    BY <1>4, <2>1 DEF NewEntry, Entry, Keys
<1>6. \A d \in Held(node) : d.key # arg.key
  BY <1>1, <1>3, HomeLacks
<1>7. Len(es) >= 2
  <2>1. Size(n) = Len(es) /\ MaxSize(n) = LeafMax /\ Len(es) \in Nat
    BY <1>4, LeafIs
  <2> QED
    BY <1>1, <2>1 DEF IsFull
<1>8. f \in Pages /\ f \notin DOMAIN node /\ f # NoPage
  BY <1>1, FreshIs, NoPageIs
<1> HIDE DEF es, f
<1>9. /\ LeafParts(es, left, right) /\ ToSet(left) \cup ToSet(right) = ToSet(es) \cup {NewEntry}
  BY <1>1, <1>4, <1>5, <1>7, LeafParted
<1> HIDE DEF left, right
<1>10. \A e \in ToSet(left) \cup ToSet(right) : lo[at] <= e.key /\ e.key < hi[at]
  <2>1. \A e \in ToSet(es) : lo[at] <= e.key /\ e.key < hi[at]
    BY <1>4, WithinIs
  <2> QED
    BY <1>4, <1>5, <1>9, <2>1
<1>11. /\ k \in Nat /\ lo[at] < k /\ k < hi[at] /\ Within(left, lo[at], k) /\ Within(right, k, hi[at])
  BY <1>4, <1>9, <1>10, LeafPartsStored
<1> HIDE DEF k
<1>12. left \in Seq(Entry) /\ Ascending(left) /\ right \in Seq(Entry) /\ Ascending(right)
  BY <1>9 DEF LeafParts
<1>13. at \in DOMAIN node /\ at # f
  BY <1>4, <1>8 DEF LeavesOf
<1>14. /\ DOMAIN node' = DOMAIN node \cup {f} /\ \A q \in DOMAIN node : q # at => node'[q] = node[q]
       /\ node'[at] = ln /\ node'[f] = rn
  BY <1>2, <1>8, <1>13 DEF With
<1>15. /\ ln.kind = "leaf" /\ ln.entries = left /\ ln.next = f
       /\ rn.kind = "leaf" /\ rn.entries = right /\ rn.next = n.next
  BY <1>4 DEF Leaf
<1> HIDE DEF ln, rn, n
<1>16. Related(node)
  BY RelatedNow
<1>17. Stored(node'[at], lo[at], k) /\ Stored(node'[f], k, hi[at])
  BY <1>11, <1>12, <1>14, <1>15 DEF Stored
<1>18. CutOrder(node, root, lo, hi, at, f, node', k)
  BY <1>4, <1>8, <1>11, <1>14, <1>15, <1>16, <1>17 DEF CutOrder, n
<1>19. /\ SplitOrder(node', root, at, f, k)
       /\ Held(node') = HeldBut(node, {at}) \cup (ToSet(node'[at].entries) \cup ToSet(node'[f].entries))
  BY <1>18, OrderCut
<1>20. HeldWith(NewEntry)
  <2>1. Held(node') = HeldBut(node, {at}) \cup (ToSet(es) \cup {NewEntry})
    BY <1>9, <1>14, <1>15, <1>19
  <2> QED
    BY <1>4, <1>5, <1>6, <2>1 DEF HeldWith
<1>21. split'.right = f /\ split'.key = k
  BY <1>2
<1>22. OrderInv'
  BY <1>1, <1>19, <1>21, OrderAfterSplit
<1> QED
  BY <1>6, <1>20, <1>22
-----------------------------------------------------------------------------
(* A split goes up.                                                        *)

\* The page above the one that has split, and what its keys say of the two.
Dividable(q, ci, lo, hi) ==
    /\ Above.copy = node[q] /\ node[q] \in Internal /\ Fits(node[q])
    /\ lo \in [DOMAIN node -> Nat] /\ hi \in [DOMAIN node -> Nat]
    /\ Splitting(node, root, lo, hi, q, ci, split)

LEMMA ParentSplitting ==
    ASSUME IInv, OrderInv, unique, pc = "split", path # <<>>
    PROVE  \E lo, hi : Dividable(Above.id, Above.ci, lo, hi)
<1> DEFINE q == Above.id
           n == node[q]
<1>1. /\ path \in Seq(Activation) /\ Nodes(node) /\ root \in DOMAIN node /\ at \in DOMAIN node
  BY Working
<1>2. PICK h \in [DOMAIN node -> Nat] : Route(node, h, root, path, at)
  BY Working
<1>3. /\ q \in DOMAIN node /\ Above.copy = n /\ n \in Internal /\ Above.ci \in DOMAIN n.children
      /\ n.children[Above.ci] = at
  BY <1>1, <1>2, ParentIs
<1>4. /\ split.key \in Keys /\ split.right # root /\ split.right \in DOMAIN node
      /\ \A p \in DOMAIN node : split.right \notin ToSet(Kids(node[p]))
  BY SplitIs
<1>5. Related(node) /\ n.kind = "internal"
  BY <1>3, RelatedNow, InternalIs
<1> HIDE DEF q
<1>6. /\ n.children \in Seq(Pages) /\ Len(n.keys) \in Nat /\ Len(n.children) = Len(n.keys) + 1
      /\ Kids(n) = n.children /\ \A i \in 1..Len(n.keys)+1 : n.children[i] \in ToSet(n.children)
  BY <1>3, <1>5, BranchIs
<1>7. Above.ci \in 1..Len(n.keys)+1
  BY <1>3, <1>6, SeqIs
<1>8. at # root
  <2>1. root \notin ToSet(Kids(n))
    BY <1>3, RootFree
  <2> QED
    BY <1>3, <1>6, <1>7, <2>1
<1>9. PICK lo \in [DOMAIN node -> Nat], hi \in [DOMAIN node -> Nat] :
         /\ Ordered(node, root, lo, hi, Widened(hi, at, split.right))
         /\ hi[at] = split.key /\ lo[split.right] = split.key
  BY SplitNow DEF SplitOrder
<1>10. Splitting(node, root, lo, hi, q, Above.ci, split)
  BY <1>3, <1>4, <1>5, <1>7, <1>8, <1>9 DEF Splitting
<1>11. Fits(n)
  BY <1>3, <1>5 DEF Related
<1>12. Dividable(q, Above.ci, lo, hi)
  BY <1>3, <1>9, <1>10, <1>11 DEF Dividable
<1> QED
  BY <1>12 DEF q

LEMMA AbsorbSplitOrder ==
    ASSUME IInv, OrderInv, unique, AbsorbSplit
    PROVE  OrderInv' /\ Held(node') = Held(node)
<1> DEFINE q == Above.id
<1>1. /\ pc = "split" /\ path # <<>> /\ root' = root /\ pc' \in {"idle", "erased"}
      /\ node' = [node EXCEPT ![q] = WithChild(Above.copy, Above.ci, split)]
  BY DEF AbsorbSplit, Finish
<1>2. PICK lo, hi : Dividable(q, Above.ci, lo, hi)
  BY <1>1, ParentSplitting
<1>3. /\ Above.copy = node[q] /\ lo \in [DOMAIN node -> Nat] /\ hi \in [DOMAIN node -> Nat]
      /\ Splitting(node, root, lo, hi, q, Above.ci, split)
  BY <1>2 DEF Dividable
<1> HIDE DEF q
<1>4. q \in DOMAIN node
  BY <1>3 DEF Splitting
<1>5. /\ DOMAIN node' = DOMAIN node /\ \A p \in DOMAIN node : p # q => node'[p] = node[p]
      /\ node'[q] = WithChild(node[q], Above.ci, split)
  BY <1>1, <1>3, <1>4
<1>6. Ordered(node', root, lo, hi, hi) /\ Held(node') = Held(node)
  BY <1>3, <1>5, OrderAbsorbed
<1>7. lo \in [DOMAIN node' -> Nat] /\ hi \in [DOMAIN node' -> Nat] /\ Ordered(node', root', lo, hi, hi)
  BY <1>1, <1>3, <1>5, <1>6
<1>8. InOrder(node', root')
  BY <1>7, Zenon DEF InOrder
<1> QED
  BY <1>1, <1>6, <1>8, OrderAfter

LEMMA SplitInternalOrder ==
    ASSUME IInv, OrderInv, unique, SplitInternal
    PROVE  OrderInv' /\ Held(node') = Held(node)
<1> DEFINE q == Above.id
           n == node[q]
           f == Fresh
           g == MedianOf(n)
           left  == IF split.key < g THEN RoutedOf(LowerOf(n), split) ELSE LowerOf(n)
           right == IF split.key < g THEN UpperOf(n) ELSE RoutedOf(UpperOf(n), split)
<1>1. /\ pc = "split" /\ path # <<>> /\ root' = root /\ pc' = "split" /\ at' = q
      /\ IsFull(Above.copy) /\ Room
  BY DEF SplitInternal
<1>2. PICK lo, hi : Dividable(q, Above.ci, lo, hi)
  BY <1>1, ParentSplitting
<1>3. /\ Above.copy = n /\ lo \in [DOMAIN node -> Nat] /\ hi \in [DOMAIN node -> Nat]
      /\ n \in Internal /\ Fits(n) /\ Splitting(node, root, lo, hi, q, Above.ci, split)
  BY <1>2 DEF Dividable
<1>4. /\ node' = With([node EXCEPT ![q] = left], f, right)
      /\ split' = [key |-> g, right |-> f]
  BY <1>3 DEF SplitInternal, MedianOf, LowerOf, UpperOf, MidOf, RoutedOf
<1>5. Len(n.keys) = InternalMax
  <2>1. Size(n) = Len(n.keys) /\ MaxSize(n) = InternalMax /\ Len(n.keys) <= InternalMax /\ Size(n) \in Nat
    BY <1>3, InternalIs
  <2> QED
    BY <1>1, <1>3, <2>1 DEF IsFull
<1>6. f \in Pages /\ f \notin DOMAIN node
  BY <1>1, FreshIs
<1>7. q \in DOMAIN node
  BY <1>3 DEF Splitting
<1> HIDE DEF f, q, left, right
<1>8. /\ DOMAIN node' = DOMAIN node \cup {f} /\ \A p \in DOMAIN node : p # q => node'[p] = node[p]
      /\ node'[q] = left /\ node'[f] = right
  BY <1>4, <1>6, <1>7 DEF With
<1>9. Parting(node, root, lo, hi, q, Above.ci, split, f, node')
  BY <1>3, <1>5, <1>6, <1>8 DEF Parting, left, right
<1> HIDE DEF g
<1>10. SplitOrder(node', root, q, f, g) /\ Held(node') = Held(node)
  BY <1>9, OrderParted DEF g
<1>11. split'.right = f /\ split'.key = g
  BY <1>4
<1>12. OrderInv'
  BY <1>1, <1>10, <1>11, OrderAfterSplit DEF q
<1> QED
  BY <1>10, <1>12

LEMMA GrowRootOrder ==
    ASSUME IInv, OrderInv, unique, GrowRoot
    PROVE  OrderInv' /\ Held(node') = Held(node)
<1> DEFINE f == Fresh
           m == [kind |-> "internal", keys |-> <<split.key>>, children |-> <<root, split.right>>]
<1>1. /\ pc = "split" /\ path = <<>> /\ root' = f /\ pc' \in {"idle", "erased"} /\ Room
      /\ node' = With(node, f, m)
  BY DEF GrowRoot, Finish
<1>2. f \in Pages /\ f \notin DOMAIN node
  BY <1>1, FreshIs
<1>3. at = root
  <2>1. PICK h \in [DOMAIN node -> Nat] : Route(node, h, root, path, at)
    BY <1>1, Working
  <2> QED
    BY <1>1, <2>1 DEF Route, Stop
<1>4. /\ split.key \in Keys /\ split.right # root /\ split.right \in DOMAIN node
      /\ \A p \in DOMAIN node : split.right \notin ToSet(Kids(node[p]))
  BY <1>1, SplitIs
<1>5. \A p \in DOMAIN node : root \notin ToSet(Kids(node[p]))
  BY RootFree
<1>6. SplitOrder(node, root, root, split.right, split.key)
  BY <1>1, <1>3, SplitNow
<1> HIDE DEF f, m
<1>7. DOMAIN node' = DOMAIN node \cup {f} /\ (\A p \in DOMAIN node : node'[p] = node[p]) /\ node'[f] = m
  BY <1>1, <1>2 DEF With
<1>8. Related(node)
  BY RelatedNow
<1>9. Growing(node, root, split.right, split.key, f, node')
  BY <1>2, <1>4, <1>5, <1>6, <1>7, <1>8 DEF Growing, m
<1>10. InOrder(node', f) /\ Held(node') = Held(node)
  BY <1>9, OrderGrown
<1> QED
  BY <1>1, <1>10, OrderAfter

LEMMA NeighboursNow ==
    ASSUME IInv, OrderInv, unique, pc # "split", NEW h, NEW q, q \in DOMAIN node, node[q] \in Internal,
           NEW i, i \in 1..Len(node[q].keys), NEW l, NEW r, Brothers(node, h, root, q, i, l, r)
    PROVE  \E lo, hi \in [DOMAIN node -> Nat] : Neighbours(node, root, lo, hi, q, i, l, r)
<1>1. PICK lo, hi : Bounded(lo, hi)
  BY OrderNow
<1>2. /\ lo \in [DOMAIN node -> Nat] /\ hi \in [DOMAIN node -> Nat] /\ Ordered(node, root, lo, hi, hi)
  BY <1>1 DEF Bounded
<1>3. /\ l = node[q].children[i] /\ r = node[q].children[i+1]
      /\ l # q /\ r # q /\ l # r /\ l # root /\ r # root /\ node[l].kind = node[r].kind
  BY DEF Brothers
<1>4. Related(node) /\ node[q].kind # "leaf"
  <2>1. node[q].kind = "internal"
    BY InternalIs
  <2> QED
    BY <2>1, RelatedNow
<1>5. Neighbours(node, root, lo, hi, q, i, l, r)
  BY <1>2, <1>3, <1>4 DEF Neighbours
<1> QED
  BY <1>2, <1>5

LEMMA SparedIsTwo == ASSUME NEW n \in Leaf \cup Internal, CanSpare(n) PROVE Size(n) >= 2
  BY SizesAre DEF CanSpare

LEMMA AscendErasedOrder ==
    ASSUME IInv, OrderInv, unique, AscendErased
    PROVE  OrderInv' /\ Held(node') = Held(node)
<1> DEFINE q == Above.id
<1>1. pc = "erased" /\ root' = root /\ pc' \in {"idle", "erased"}
  BY DEF AscendErased
<1>2. PICK h : /\ Over(h, q)
               /\ \/ Eased(h, q)
                  \/ \E i, l, r, x : Turns(h, q, i, l, r, x)
                  \/ \E i, l, r, j : Unites(h, q, i, l, r, j)
  BY AscendErasedDoes
<1> HIDE DEF q
<1>3. CASE Eased(h, q)
  <2>1. node' = node
    BY <1>3 DEF Eased
  <2>2. InOrder(node', root')
    BY <1>1, <2>1, InOrderNow
  <2> QED
    BY <1>1, <2>1, <2>2, OrderAfter
<1>4. ASSUME NEW i, NEW l, NEW r, NEW x, Turns(h, q, i, l, r, x)
      PROVE  OrderInv' /\ Held(node') = Held(node)
  <2>1. /\ Rotating(node, h, root, at, q, i, l, r, x, node')
        /\ \/ x = RotateRight(node[l], node[r], node[q].keys[i]) /\ CanSpare(node[l])
           \/ x = RotateLeft(node[l], node[r], node[q].keys[i]) /\ CanSpare(node[r])
    BY <1>4 DEF Turns
  <2>2. /\ q \in DOMAIN node /\ node[q] \in Internal /\ i \in 1..Len(node[q].keys)
        /\ Brothers(node, h, root, q, i, l, r) /\ Exchange(x, node[l], node[r]) /\ Nodes(node)
        /\ node' = Put(Put(Put(node, l, x.left), r, x.right), q, [node[q] EXCEPT !.keys[i] = x.sep])
    BY <2>1 DEF Rotating
  <2>3. \E lo, hi \in [DOMAIN node -> Nat] : Neighbours(node, root, lo, hi, q, i, l, r)
    BY <1>1, <2>2, NeighboursNow
  <2>4. l \in DOMAIN node /\ r \in DOMAIN node
    BY <2>2 DEF Brothers
  <2>5. /\ CanSpare(node[l]) => Size(node[l]) >= 2
        /\ CanSpare(node[r]) => Size(node[r]) >= 2
    BY <2>2, <2>4, NodesAre, SparedIsTwo
  <2>6. Turning(node, root, q, i, l, r, x, node')
    BY <2>1, <2>2, <2>3, <2>5 DEF Turning
  <2>7. InOrder(node', root) /\ Held(node') = Held(node)
    BY <2>6, OrderTurned
  <2> QED
    BY <1>1, <2>7, OrderAfter
<1>5. ASSUME NEW i, NEW l, NEW r, NEW j, Unites(h, q, i, l, r, j)
      PROVE  OrderInv' /\ Held(node') = Held(node)
  <2>1. /\ Uniting(node, h, root, at, q, i, l, r, j, node')
        /\ j = Joined(node[l], node[r], node[q].keys[i])
    BY <1>5 DEF Unites
  <2>2. /\ q \in DOMAIN node /\ node[q] \in Internal /\ i \in 1..Len(node[q].keys)
        /\ Brothers(node, h, root, q, i, l, r) /\ Sibling(node[l], j)
        /\ ToSet(Kids(j)) = ToSet(Kids(node[l])) \cup ToSet(Kids(node[r]))
        /\ node' = Without(Put(Put(node, l, j), q, WithoutChild(node[q], i)), r)
    BY <2>1 DEF Uniting
  <2>3. \E lo, hi \in [DOMAIN node -> Nat] : Neighbours(node, root, lo, hi, q, i, l, r)
    BY <1>1, <2>2, NeighboursNow
  <2>4. Joining(node, root, q, i, l, r, j, node')
    BY <2>1, <2>2, <2>3 DEF Joining
  <2>5. InOrder(node', root) /\ Held(node') = Held(node)
    BY <2>4, OrderJoined
  <2> QED
    BY <1>1, <2>5, OrderAfter
<1> QED
  BY <1>2, <1>3, <1>4, <1>5

LEMMA EraseReturnsOrder ==
    ASSUME IInv, OrderInv, unique, EraseReturns
    PROVE  OrderInv' /\ Held(node') = Held(node)
<1>1. pc = "erased" /\ pc' \in {"idle", "erased"}
  BY DEF EraseReturns, Finish
<1>2. CASE node[root].kind = "internal" /\ node[root].keys = <<>>
  <2>1. root' = node[root].children[1] /\ node' = Without(node, root)
    BY <1>2 DEF EraseReturns
  <2>2. DOMAIN node' = DOMAIN node \ {root} /\ \A p \in DOMAIN node' : node'[p] = node[p]
    BY <2>1 DEF Without
  <2>3. Related(node) /\ InOrder(node, root) /\ node[root].kind # "leaf"
    BY <1>1, <1>2, RelatedNow, InOrderNow
  <2>4. Shrinking(node, root, root', node')
    BY <1>2, <2>1, <2>2, <2>3, RootFree DEF Shrinking
  <2>5. InOrder(node', root') /\ Held(node') = Held(node)
    BY <2>4, OrderShrunk
  <2> QED
    BY <1>1, <2>5, OrderAfter
<1>3. CASE ~(node[root].kind = "internal" /\ node[root].keys = <<>>)
  <2>1. root' = root /\ node' = node
    BY <1>3 DEF EraseReturns
  <2>2. InOrder(node', root')
    BY <1>1, <2>1, InOrderNow
  <2> QED
    BY <1>1, <2>1, <2>2, OrderAfter
<1> QED
  BY <1>2, <1>3

\* A new tree: its one leaf is for all the keys.
LEMMA InitOrder == Init => OrderInv
<1> SUFFICES ASSUME Init PROVE OrderInv
  OBVIOUS
<1> DEFINE lo == [p \in DOMAIN node |-> 0]
           hi == [p \in DOMAIN node |-> MaxKey + 1]
<1>1. /\ root = 1 /\ node = [p \in {root} |-> EmptyLeaf] /\ pc = "idle"
  BY DEF Init, Idle
<1>2. DOMAIN node = {root} /\ node[root] = EmptyLeaf
  BY <1>1
<1>3. EmptyLeaf.kind = "leaf" /\ EmptyLeaf.entries = <<>> /\ EmptyLeaf.next = NoPage /\ DOMAIN <<>> = {}
  BY DEF EmptyLeaf
<1>4. /\ lo \in [DOMAIN node -> Nat] /\ hi \in [DOMAIN node -> Nat]
      /\ lo[root] = 0 /\ hi[root] = MaxKey + 1 /\ MaxKey + 1 \in Nat /\ 0 < MaxKey + 1 /\ MaxKey + 1 <= MaxKey + 1
  BY <1>2
<1> HIDE DEF lo, hi
<1>5. LeavesOf(node) = {root}
  BY <1>2, <1>3 DEF LeavesOf
<1>6. Spanned(DOMAIN node, lo, hi) /\ Spanned(LeavesOf(node), lo, hi) /\ OwnKeys(LeavesOf(node), lo, hi)
  BY <1>2, <1>4, <1>5 DEF Spanned, OwnKeys
<1>7. Chained(node, lo, hi)
  BY <1>2, <1>3, <1>4, <1>5 DEF Chained, Ascending, Within
<1>8. Branches(node, lo, hi, hi)
  BY <1>2, <1>5 DEF Branches
<1>9. Ordered(node, root, lo, hi, hi)
  BY <1>2, <1>4, <1>6, <1>7, <1>8 DEF Ordered, Spans, Leaves
<1>10. Placed(lo, hi)
  BY <1>1, <1>9 DEF Placed, Wide
<1> QED
  BY <1>4, <1>10 DEF OrderInv

LEMMA NextOrder == IInv /\ OrderInv /\ [Next]_vars => OrderInv'
<1> SUFFICES ASSUME IInv, OrderInv, [Next]_vars, unique' PROVE OrderInv'
  BY DEF OrderInv
<1>1. unique
  BY DEF Next, Erase, Insert, RefuseErase, Descend, UpdateEntry, InsertEntry, SplitLeaf, AbsorbSplit,
         SplitInternal, GrowRoot, EraseAbsent, EraseEntry, AscendErased, EraseReturns, vars, unique
<1>2. ASSUME NEW k \in tree.keys, Erase(k) \/ \E v \in tree.vals, o \in BOOLEAN : Insert(k, v, o)
      PROVE  OrderInv'
  BY <1>1, <1>2, CallOrder
<1>3. CASE Descend
  BY <1>1, <1>3, DescendOrder
<1>4. CASE UpdateEntry
  BY <1>1, <1>4, UpdateEntryOrder
<1>5. CASE InsertEntry
  BY <1>1, <1>5, InsertEntryOrder
<1>6. CASE SplitLeaf
  BY <1>1, <1>6, SplitLeafOrder
<1>7. CASE AbsorbSplit
  BY <1>1, <1>7, AbsorbSplitOrder
<1>8. CASE SplitInternal
  BY <1>1, <1>8, SplitInternalOrder
<1>9. CASE GrowRoot
  BY <1>1, <1>9, GrowRootOrder
<1>10. CASE EraseAbsent
  BY <1>1, <1>10, EraseAbsentOrder
<1>11. CASE EraseEntry
  BY <1>1, <1>11, EraseEntryOrder
<1>12. CASE AscendErased
  BY <1>1, <1>12, AscendErasedOrder
<1>13. CASE EraseReturns
  BY <1>1, <1>13, EraseReturnsOrder
<1>14. CASE RefuseErase \/ UNCHANGED vars
  <2>1. node' = node /\ root' = root /\ pc' = pc /\ arg' = arg /\ at' = at /\ split' = split
    BY <1>14 DEF RefuseErase, vars, call
  <2>2. CASE pc = "split"
    <3>1. SplitOrder(node', root', at', split'.right, split'.key)
      BY <1>1, <2>1, <2>2, SplitNow
    <3> QED
      BY <2>1, <2>2, <3>1, OrderAfterSplit
  <2>3. CASE pc \in {"insert", "erase"}
    <3>1. PICK lo, hi : Bounded(lo, hi)
      BY <1>1, <2>3, OrderNow
    <3>2. lo[at'] <= arg'.key /\ arg'.key < hi[at']
      BY <2>1, <2>3, <3>1 DEF Bounded
    <3> QED
      BY <2>1, <2>3, <3>1, <3>2, OrderOnward
  <2>4. CASE pc \in {"idle", "erased"}
    <3>1. InOrder(node', root')
      BY <1>1, <2>1, <2>4, InOrderNow
    <3> QED
      BY <2>1, <2>4, <3>1, OrderAfter
  <2> QED
    BY <2>2, <2>3, <2>4 DEF IInv, CallInv
<1> QED
  BY <1>2, <1>3, <1>4, <1>5, <1>6, <1>7, <1>8, <1>9, <1>10, <1>11, <1>12, <1>13, <1>14 DEF Next

\* Every page of a unique tree is for keys of its own, and the chain of leaves goes
\* through them in their order, in the middle of every call.
THEOREM BTreeOrdered == Spec => [](IInv /\ OrderInv)
<1>1. Init => IInv /\ OrderInv
  BY InitInv, InitOrder
<1>2. IInv /\ OrderInv /\ [Next]_vars => IInv' /\ OrderInv'
  BY NextInv, NextOrder
<1> QED
  BY <1>1, <1>2, PTL DEF Spec
-----------------------------------------------------------------------------
(* What a cursor and a search come to.                                     *)

\* A way down that does not leave the pages of S.
Leads(via, S) ==
    /\ S \subseteq DOMAIN node /\ root \in S
    /\ \A p \in S : node[p].kind = "internal" =>
          via[p] \in 1..Len(node[p].keys)+1 /\ node[p].children[via[p]] \in S

LEMMA WayLeads ==
    ASSUME IInv, NEW via, NEW S, Leads(via, S)
    PROVE  LeafBy(via) \in S /\ LeafBy(via) \in LeavesOf(node)
<1>1. PICK h \in [DOMAIN node -> Nat] : Forest(KidsIn(node), h, Tops, root) /\ Levels(node, h)
  BY DEF IInv, ShapeInv
<1>2. Related(node) /\ Nodes(node) /\ \A p \in DOMAIN node : Fits(node[p])
  BY RelatedNow DEF Related
<1>3. h[root] <= MaxPage
  BY <1>1, <1>2, HeightBound
<1>4. S \in SUBSET DOMAIN node /\ root \in S
  BY DEF Leads
<1>5. ASSUME NEW p \in S, node[p].kind # "leaf"
      PROVE  node[p].children[via[p]] \in S /\ h[node[p].children[via[p]]] + 1 = h[p]
  <2>1. /\ node[p].kind = "internal" /\ Kids(node[p]) = node[p].children
        /\ \A i \in 1..Len(node[p].keys)+1 : node[p].children[i] \in ToSet(node[p].children)
    BY <1>2, <1>4, <1>5, BranchIs
  <2>2. via[p] \in 1..Len(node[p].keys)+1 /\ node[p].children[via[p]] \in S
    BY <2>1 DEF Leads
  <2>3. DOMAIN KidsIn(node) = DOMAIN node /\ node[p].children[via[p]] \in KidsIn(node)[p]
    BY <1>4, <2>1, <2>2 DEF KidsIn
  <2> QED
    BY <1>1, <1>4, <2>2, <2>3 DEF Forest
<1>6. LeafBy(via) = Down(node, via)[MaxPage][root]
  BY LeafByIs
<1>7. Down(node, via)[MaxPage][root] \in S /\ node[Down(node, via)[MaxPage][root]].kind = "leaf"
  BY <1>1, <1>3, <1>4, <1>5, DownReaches
<1> QED
  BY <1>4, <1>6, <1>7 DEF LeavesOf

LEMMA ListIs ==
    ASSUME IInv, OrderInv, unique
    PROVE  List \in Seq(Entry) /\ Ascending(List) /\ ToSet(List) = Held(node)
<1>1. PICK lo \in [DOMAIN node -> Nat], hi \in [DOMAIN node -> Nat] : Ordered(node, root, lo, hi, Wide(hi))
  BY DEF OrderInv, Placed
<1>2. /\ Leaves(node, lo, hi) /\ Branches(node, lo, hi, Wide(hi)) /\ root \in DOMAIN node /\ lo[root] = 0
  BY <1>1 DEF Ordered
<1>3. Related(node) /\ Nodes(node)
  BY RelatedNow DEF Related
<1> DEFINE via == [p \in Internals |-> 1]
           S   == {p \in DOMAIN node : lo[p] = 0}
<1>4. Leads(via, S)
  <2>1. ASSUME NEW p \in S, node[p].kind = "internal"
        PROVE  via[p] \in 1..Len(node[p].keys)+1 /\ node[p].children[via[p]] \in S
    <3>1. via[p] = 1
      BY <2>1 DEF Internals
    <3>2. /\ p \in DOMAIN node \ LeavesOf(node) /\ Len(node[p].keys) \in Nat
          /\ ToSet(node[p].children) \subseteq DOMAIN node
          /\ \A i \in 1..Len(node[p].keys)+1 : node[p].children[i] \in ToSet(node[p].children)
      BY <1>3, <2>1, BranchIs
    <3>3. 1 \in 1..Len(node[p].keys)+1
      BY <3>2
    <3>4. Divides(node[p].keys, node[p].children, lo[p], hi[p], lo, Wide(hi))
      BY <1>2, <3>2 DEF Branches
    <3>5. lo[node[p].children[1]] = Bound(node[p].keys, lo[p], hi[p], 1 - 1)
      BY <3>3, <3>4 DEF Divides
    <3>6. Bound(node[p].keys, lo[p], hi[p], 1 - 1) = lo[p]
      BY DEF Bound
    <3> QED
      BY <2>1, <3>1, <3>2, <3>3, <3>5, <3>6
  <2> QED
    BY <1>2, <2>1 DEF Leads
<1> DEFINE p == LeafBy(via)
<1> HIDE DEF via, S
<1>5. p \in S /\ p \in LeavesOf(node)
  BY <1>4, WayLeads
<1>6. lo[p] = 0
  BY <1>5 DEF S
<1>7. List = From(p)
  BY DEF List, via
<1> HIDE DEF p
<1>8. From(p) = Walk(node)[MaxPage][p]
  BY FromIs
<1>9. /\ From(p) \in Seq(Entry) /\ Ascending(From(p)) /\ ToSet(From(p)) = HeldFrom(node, lo, lo[p])
  BY <1>2, <1>3, <1>5, <1>8, WalkedFrom
<1>10. HeldFrom(node, lo, 0) = Held(node)
  <2>1. {q \in LeavesOf(node) : lo[q] >= 0} = LeavesOf(node)
    BY <1>2 DEF Leaves, Spanned
  <2> QED
    BY <2>1 DEF HeldFrom, Held
<1> QED
  BY <1>6, <1>7, <1>9, <1>10

\* What is left of a list from the first entry of a key or above it on.
LEMMA SuffixIs ==
    ASSUME NEW es \in Seq(Entry), Ascending(es), NEW k \in Keys, NEW i, i = LowerBound(KeysOf(es), k)
    PROVE  /\ i \in 1..Len(es)+1 /\ \A j \in DOMAIN es : es[j].key < k <=> j < i
           /\ SubSeq(es, i, Len(es)) \in Seq(Entry) /\ Ascending(SubSeq(es, i, Len(es)))
           /\ ToSet(SubSeq(es, i, Len(es))) = {e \in ToSet(es) : e.key >= k}
<1> DEFINE n == Len(es)
           m == i - 1
           a == SubSeq(es, 1, m)
           b == SubSeq(es, m + 1, n)
<1>1. i \in 1..n+1 /\ \A j \in 1..n : es[j].key < k <=> j < i
  BY LowerSplits
<1>2. DOMAIN es = 1..n /\ n \in Nat /\ \A j \in 1..n : es[j].key \in Nat
  BY EntryKeys
<1>3. m \in 0..n /\ m + 1 = i
  BY <1>1, <1>2
<1>4. /\ a \in Seq(Entry) /\ Len(a) = m
      /\ b \in Seq(Entry) /\ Len(b) = n - m /\ Ascending(b) /\ ToSet(es) = ToSet(a) \cup ToSet(b)
      /\ \A j \in 1..m : a[j] = es[j]
      /\ \A j \in 1..n-m : b[j] = es[m+j]
  <2> HIDE DEF m
  <2> QED
    BY <1>3, AscendingHalves, Zenon
<1>5. b = SubSeq(es, i, n)
  BY <1>3
<1> HIDE DEF a, b, n, m
<1>6. k \in Nat
  BY KeysAre
<1>7. ASSUME NEW e \in ToSet(a) PROVE ~(e.key >= k)
  <2>1. PICK j \in 1..m : e = a[j]
    BY <1>4, EntryKeys
  <2>2. j \in 1..n /\ j < i /\ e = es[j]
    BY <1>2, <1>3, <1>4, <2>1
  <2>3. e.key < k /\ e.key \in Nat
    BY <1>1, <1>2, <2>2
  <2> QED
    BY <1>6, <2>3
<1>8. ASSUME NEW e \in ToSet(b) PROVE e.key >= k
  <2>1. PICK j \in 1..n-m : e = b[j]
    BY <1>4, EntryKeys
  <2>2. m + j \in 1..n /\ ~(m + j < i) /\ e = es[m + j]
    BY <1>2, <1>3, <1>4, <2>1
  <2>3. ~(e.key < k) /\ e.key \in Nat
    BY <1>1, <1>2, <2>2
  <2> QED
    BY <1>6, <2>3
<1>9. ToSet(b) = {e \in ToSet(es) : e.key >= k}
  BY <1>4, <1>7, <1>8
<1> QED
  BY <1>1, <1>2, <1>4, <1>5, <1>9 DEF n

\* The leaf a way down by the keys comes to, whose keys are those from lo[p] on.
Found(p, lo, hi, k) ==
    /\ Ordered(node, root, lo, hi, hi) /\ Leaves(node, lo, hi) /\ Nodes(node)
    /\ p \in LeavesOf(node) /\ node[p].entries \in Seq(Entry) /\ Ascending(node[p].entries)
    /\ Within(node[p].entries, lo[p], hi[p])
    /\ lo[p] \in Nat /\ hi[p] \in Nat /\ lo[p] <= k /\ k < hi[p]

LEMMA KeyLeads ==
    ASSUME IInv, OrderInv, unique, pc = "idle", NEW k \in Keys
    PROVE  \E lo, hi : Found(LeafBy([q \in Internals |-> ChildIndexFor(node[q], k)]), lo, hi, k)
<1>1. PICK lo, hi : Bounded(lo, hi)
  BY OrderNow
<1>2. /\ Ordered(node, root, lo, hi, hi) /\ Leaves(node, lo, hi) /\ Branches(node, lo, hi, hi)
      /\ Spans(node, lo, hi) /\ root \in DOMAIN node /\ lo[root] = 0 /\ hi[root] = MaxKey + 1
  BY <1>1 DEF Bounded, Ordered
<1>3. Related(node) /\ Nodes(node)
  BY RelatedNow DEF Related
<1>4. k \in Nat /\ 0 <= k /\ k < MaxKey + 1
  BY KeysAre DEF Keys
<1> DEFINE via == [q \in Internals |-> ChildIndexFor(node[q], k)]
           S   == {p \in DOMAIN node : lo[p] <= k /\ k < hi[p]}
<1>5. Leads(via, S)
  <2>1. ASSUME NEW p \in S, node[p].kind = "internal"
        PROVE  via[p] \in 1..Len(node[p].keys)+1 /\ node[p].children[via[p]] \in S
    <3>1. via[p] = UpperBound(node[p].keys, k)
      BY <2>1 DEF Internals, ChildIndexFor
    <3>2. /\ p \in DOMAIN node \ LeavesOf(node) /\ node[p].keys \in Seq(Keys)
          /\ ToSet(node[p].children) \subseteq DOMAIN node
          /\ \A i \in 1..Len(node[p].keys)+1 : node[p].children[i] \in ToSet(node[p].children)
      BY <1>3, <2>1, BranchIs
    <3>3. Divides(node[p].keys, node[p].children, lo[p], hi[p], lo, hi)
      BY <1>2, <3>2 DEF Branches
    <3>4. lo[p] \in Nat /\ hi[p] \in Nat /\ lo[p] <= k /\ k < hi[p]
      BY <1>2 DEF Spans
    <3> HIDE DEF via
    <3> DEFINE u == UpperBound(node[p].keys, k)
    <3> HIDE DEF u
    <3>5. /\ u \in 1..Len(node[p].keys)+1
          /\ lo[node[p].children[u]] <= k /\ k < hi[node[p].children[u]]
      BY <1>4, <3>2, <3>3, <3>4, ChildFor DEF u
    <3> QED
      BY <3>1, <3>2, <3>5 DEF u
  <2> QED
    BY <1>2, <1>4, <2>1 DEF Leads
<1> DEFINE p == LeafBy(via)
<1> HIDE DEF via, S
<1>6. p \in S /\ p \in LeavesOf(node)
  BY <1>5, WayLeads
<1>7. lo[p] <= k /\ k < hi[p]
  BY <1>6 DEF S
<1> HIDE DEF p
<1>8. /\ Ascending(node[p].entries) /\ Within(node[p].entries, lo[p], hi[p])
      /\ lo[p] \in Nat /\ hi[p] \in Nat /\ node[p].entries \in Seq(Entry)
  BY <1>2, <1>3, <1>6, LeafOf DEF Leaves, Chained, Spanned
<1>9. Found(p, lo, hi, k)
  BY <1>2, <1>3, <1>6, <1>7, <1>8 DEF Found
<1> QED
  BY <1>9 DEF p, via

\* The chain from the next leaf on: the leaves for the keys after.
LEMMA ChainAfter ==
    ASSUME NEW p, NEW lo, NEW hi, NEW k, Found(p, lo, hi, k)
    PROVE  /\ From(node[p].next) \in Seq(Entry) /\ Ascending(From(node[p].next))
           /\ ToSet(From(node[p].next)) = HeldFrom(node, lo, hi[p])
<1> DEFINE q == node[p].next
<1>1. Leaves(node, lo, hi) /\ Nodes(node) /\ p \in LeavesOf(node)
  BY DEF Found
<1>2. /\ q = NoPage => hi[p] = MaxKey + 1
      /\ q # NoPage => q \in LeavesOf(node) /\ lo[q] = hi[p]
  BY <1>1 DEF Leaves, Chained
<1> HIDE DEF q
<1>3. From(q) = Walk(node)[MaxPage][q]
  BY FromIs
<1>4. CASE q # NoPage
  BY <1>1, <1>2, <1>3, <1>4, WalkedFrom DEF q
<1>5. CASE q = NoPage
  <2>1. NoPage \notin DOMAIN node /\ MaxPage \in 0..MaxPage
    BY <1>1, NoPageIs DEF Nodes
  <2>2. Walk(node)[MaxPage] = Chain(node, MaxPage, Walk(node)[MaxPage-1])
    BY <2>1, WalkIs
  <2>3. From(q) = <<>>
    BY <1>3, <1>5, <2>1, <2>2 DEF Chain
  <2>4. <<>> \in Seq(Entry) /\ Ascending(<<>>) /\ ToSet(<<>>) = {}
    BY DEF Ascending, ToSet
  <2>5. \A s \in LeavesOf(node) : ~(lo[s] >= hi[p])
    <3>1. \A s \in LeavesOf(node) : lo[s] \in Nat /\ hi[s] \in Nat /\ lo[s] < hi[s] /\ hi[s] <= MaxKey + 1
      BY <1>1 DEF Leaves, Spanned
    <3> QED
      BY <1>2, <1>5, <3>1
  <2>6. HeldFrom(node, lo, hi[p]) = {}
    BY <2>5 DEF HeldFrom
  <2> QED
    BY <2>3, <2>4, <2>6 DEF q
<1> QED
  BY <1>4, <1>5

\* The entries of a key or above it: those of its leaf and those of the leaves after.
LEMMA HeldAbove ==
    ASSUME NEW p, NEW lo, NEW hi, NEW k \in Nat, Found(p, lo, hi, k)
    PROVE  /\ {e \in Held(node) : e.key >= k} =
                {e \in ToSet(node[p].entries) : e.key >= k} \cup HeldFrom(node, lo, hi[p])
           /\ \A d \in ToSet(node[p].entries), e \in HeldFrom(node, lo, hi[p]) : d.key < e.key
<1> DEFINE es == node[p].entries
           L  == LeavesOf(node)
<1>1. /\ Leaves(node, lo, hi) /\ Nodes(node) /\ p \in L /\ es \in Seq(Entry)
      /\ Within(es, lo[p], hi[p]) /\ lo[p] \in Nat /\ hi[p] \in Nat /\ lo[p] <= k /\ k < hi[p]
  BY DEF Found
<1>2. \A s \in L : lo[s] \in Nat /\ hi[s] \in Nat
  BY <1>1 DEF Leaves, Spanned
<1>3. \A s \in L : s # p => hi[p] <= lo[s] \/ hi[s] <= lo[p]
  BY <1>1 DEF Leaves, OwnKeys
<1>4. ASSUME NEW s \in L, NEW e \in ToSet(node[s].entries)
      PROVE  e.key \in Nat /\ lo[s] <= e.key /\ e.key < hi[s]
  <2>1. node[s].entries \in Seq(Entry)
    BY <1>1, LeafOf
  <2>2. Within(node[s].entries, lo[s], hi[s])
    BY <1>1 DEF Leaves, Chained
  <2>3. PICK j \in 1..Len(node[s].entries) : e = node[s].entries[j] /\ e.key \in Nat
    BY <2>1, EntryKeys
  <2> QED
    BY <2>1, <2>2, <2>3, WithinIs
<1>5. ASSUME NEW e \in HeldFrom(node, lo, hi[p]) PROVE e \in Held(node) /\ e.key \in Nat /\ hi[p] <= e.key
  <2>1. PICK s \in L : lo[s] >= hi[p] /\ e \in ToSet(node[s].entries)
    BY DEF HeldFrom
  <2>2. e.key \in Nat /\ lo[s] <= e.key
    BY <1>4, <2>1
  <2>3. e \in Held(node)
    BY <2>1 DEF Held
  <2> QED
    BY <1>1, <1>2, <2>1, <2>2, <2>3
<1>6. ASSUME NEW e \in Held(node), e.key >= k, e \notin ToSet(es) PROVE e \in HeldFrom(node, lo, hi[p])
  <2>1. PICK s \in L : e \in ToSet(node[s].entries)
    BY DEF Held
  <2>2. s # p
    BY <1>6, <2>1
  <2>3. e.key \in Nat /\ e.key < hi[s]
    BY <1>4, <2>1
  <2>4. ~(hi[s] <= lo[p])
    BY <1>1, <1>2, <1>6, <2>3
  <2>5. lo[s] >= hi[p]
    BY <1>1, <1>2, <1>3, <2>2, <2>4
  <2> QED
    BY <2>1, <2>5 DEF HeldFrom
<1>7. ToSet(es) \subseteq Held(node)
  BY <1>1 DEF Held
<1>8. \A d \in ToSet(es) : d.key \in Nat /\ d.key < hi[p]
  BY <1>1, <1>4
<1> HIDE DEF es, L
<1>9. \A d \in ToSet(es), e \in HeldFrom(node, lo, hi[p]) : d.key < e.key
  BY <1>1, <1>5, <1>8
<1>10. \A e \in HeldFrom(node, lo, hi[p]) : e \in Held(node) /\ e.key >= k
  <2> SUFFICES ASSUME NEW e \in HeldFrom(node, lo, hi[p]) PROVE e \in Held(node) /\ e.key >= k
    OBVIOUS
  <2>1. e \in Held(node) /\ e.key \in Nat /\ hi[p] <= e.key
    BY <1>5
  <2> QED
    BY <1>1, <2>1
<1>11. {e \in Held(node) : e.key >= k} = {e \in ToSet(es) : e.key >= k} \cup HeldFrom(node, lo, hi[p])
  BY <1>6, <1>7, <1>10
<1> QED
  BY <1>9, <1>11 DEF es

LEMMA SeekIs ==
    ASSUME IInv, OrderInv, unique, pc = "idle", NEW k \in Keys
    PROVE  Seek(k) \in Seq(Entry) /\ Ascending(Seek(k)) /\ ToSet(Seek(k)) = {e \in Held(node) : e.key >= k}
<1> DEFINE p  == LeafBy([q \in Internals |-> ChildIndexFor(node[q], k)])
           es == node[p].entries
           i  == LowerBound(KeysOf(es), k)
           s  == SubSeq(es, i, Len(es))
           t  == From(node[p].next)
<1>1. Seek(k) = s \o t
  BY DEF Seek, ChildRule
<1>2. PICK lo, hi : Found(p, lo, hi, k)
  BY KeyLeads
<1> HIDE DEF p
<1>3. k \in Nat
  BY KeysAre
<1>4. es \in Seq(Entry) /\ Ascending(es)
  BY <1>2 DEF Found
<1>5. t \in Seq(Entry) /\ Ascending(t) /\ ToSet(t) = HeldFrom(node, lo, hi[p])
  BY <1>2, ChainAfter
<1>6. /\ {e \in Held(node) : e.key >= k} = {e \in ToSet(es) : e.key >= k} \cup HeldFrom(node, lo, hi[p])
      /\ \A d \in ToSet(es), e \in HeldFrom(node, lo, hi[p]) : d.key < e.key
  BY <1>2, <1>3, HeldAbove
<1> HIDE DEF es, t, i
<1>7. s \in Seq(Entry) /\ Ascending(s) /\ ToSet(s) = {e \in ToSet(es) : e.key >= k}
  BY <1>4, SuffixIs DEF i
<1> HIDE DEF s
<1>8. \A d \in ToSet(s), e \in ToSet(t) : d.key < e.key
  BY <1>5, <1>6, <1>7
<1>9. s \o t \in Seq(Entry) /\ Ascending(s \o t) /\ ToSet(s \o t) = ToSet(s) \cup ToSet(t)
  BY <1>5, <1>7, <1>8, AscendingJoined
<1> QED
  BY <1>1, <1>5, <1>6, <1>7, <1>9

LEMMA SeekFinds == ASSUME IInv, OrderInv, unique PROVE SeekFindsFirst
<1> SUFFICES ASSUME pc = "idle", NEW k \in 1..MaxKey
             PROVE  \E i \in 1..Len(List)+1 : /\ Seek(k) = SubSeq(List, i, Len(List))
                                              /\ \A j \in DOMAIN List : List[j].key < k <=> j < i
  BY DEF SeekFindsFirst
<1>1. k \in Keys
  BY DEF Keys
<1>2. List \in Seq(Entry) /\ Ascending(List) /\ ToSet(List) = Held(node)
  BY ListIs
<1> DEFINE es == List
           i  == LowerBound(KeysOf(es), k)
<1> HIDE DEF es
<1>3. es \in Seq(Entry) /\ Ascending(es) /\ ToSet(es) = Held(node)
  BY <1>2 DEF es
<1>4. /\ i \in 1..Len(es)+1 /\ \A j \in DOMAIN es : es[j].key < k <=> j < i
      /\ SubSeq(es, i, Len(es)) \in Seq(Entry) /\ Ascending(SubSeq(es, i, Len(es)))
      /\ ToSet(SubSeq(es, i, Len(es))) = {e \in ToSet(es) : e.key >= k}
  BY <1>1, <1>3, SuffixIs
<1>5. Seek(k) \in Seq(Entry) /\ Ascending(Seek(k)) /\ ToSet(Seek(k)) = {e \in Held(node) : e.key >= k}
  BY <1>1, SeekIs
<1> HIDE DEF i
<1>6. Seek(k) = SubSeq(es, i, Len(es))
  BY <1>3, <1>4, <1>5, SameList
<1> QED
  BY <1>4, <1>6 DEF es

LEMMA SearchFinds ==
    ASSUME IInv, OrderInv, unique, pc = "idle", NEW k \in Keys
    PROVE  Search(k) = {e.val : e \in {f \in ToSet(List) : f.key = k}}
<1> DEFINE p  == LeafBy([q \in Internals |-> ChildIndexFor(node[q], k)])
           es == node[p].entries
<1>1. Search(k) = {e.val : e \in {f \in ToSet(es) : f.key = k}}
  BY DEF Search
<1>2. PICK lo, hi : Found(p, lo, hi, k)
  BY KeyLeads
<1> HIDE DEF p
<1>3. Leaves(node, lo, hi) /\ Nodes(node) /\ p \in LeavesOf(node) /\ lo[p] <= k /\ k < hi[p]
  BY <1>2 DEF Found
<1>4. ToSet(es) \subseteq Held(node)
  BY <1>3 DEF Held
<1>5. \A e \in Held(node) : e.key = k => e \in ToSet(es)
  BY <1>3, HeldHere
<1>6. ToSet(List) = Held(node)
  BY ListIs
<1> HIDE DEF es
<1>7. {f \in ToSet(es) : f.key = k} = {f \in ToSet(List) : f.key = k}
  BY <1>4, <1>5, <1>6
<1> QED
  BY <1>1, <1>7

\* The last leaf of the chain, and that it has entries if the tree has.
AtEnd(p, lo, hi) ==
    /\ Found(p, lo, hi, MaxKey) /\ node[p].next = NoPage /\ hi[p] = MaxKey + 1
    /\ node[p].entries = <<>> => Held(node) = {}

LEMMA EndFilled ==
    ASSUME IInv, pc = "idle", NEW p, p \in LeavesOf(node), node[p].entries = <<>>
    PROVE  Held(node) = {}
<1>1. /\ Nodes(node) /\ root \in DOMAIN node /\ Stocked(node, root, NoPage)
  BY Resting
<1>2. PICK h \in [DOMAIN node -> Nat] : Forest(KidsIn(node), h, {root}, root) /\ Levels(node, h)
  BY Resting
<1>3. p \in DOMAIN node /\ p \in Pages /\ node[p] \in Leaf /\ node[p].kind = "leaf"
  BY <1>1, LeafOf, LeafIs
<1>4. p = root
  <2>1. Size(node[p]) = 0 /\ MinSize(node[p]) = LeafMin
    <3>1. Len(<<>>) = 0
      OBVIOUS
    <3> QED
      BY <1>3, <3>1, LeafIs
  <2>2. Lack(p, NoPage) = 0
    BY <1>3, Complete
  <2>3. p # root => 0 + 0 >= LeafMin
    BY <1>1, <1>3, <2>1, <2>2 DEF Stocked
  <2> QED
    BY <2>3, Minima
<1>5. h[root] = 0
  BY <1>2, <1>3, <1>4 DEF Levels
<1>6. DOMAIN node = {root}
  <2>1. \A c \in DOMAIN node \ {root} : h[c] < h[root]
    BY <1>2, KidsInIs DEF Forest
  <2>2. \A c \in DOMAIN node : h[c] \in Nat
    BY <1>2
  <2>3. ASSUME NEW c \in DOMAIN node, c # root PROVE FALSE
    <3>1. h[c] < 0 /\ h[c] \in Nat
      BY <1>5, <2>1, <2>2, <2>3
    <3> QED
      BY <3>1
  <2> QED
    BY <1>1, <2>3
<1>7. \A q \in LeavesOf(node) : q = p
  BY <1>4, <1>6 DEF LeavesOf
<1>8. ToSet(<<>>) = {}
  BY DEF ToSet
<1> QED
  BY <1>7, <1>8 DEF Held

LEMMA LastLeads ==
    ASSUME IInv, OrderInv, unique, pc = "idle"
    PROVE  \E lo, hi : AtEnd(LeafBy([q \in Internals |-> Len(node[q].children)]), lo, hi)
<1>1. PICK lo, hi : Bounded(lo, hi)
  BY OrderNow
<1>2. /\ Ordered(node, root, lo, hi, hi) /\ Leaves(node, lo, hi) /\ Branches(node, lo, hi, hi)
      /\ root \in DOMAIN node /\ lo[root] = 0 /\ hi[root] = MaxKey + 1
  BY <1>1 DEF Bounded, Ordered
<1>3. Related(node) /\ Nodes(node)
  BY RelatedNow DEF Related
<1> DEFINE via == [q \in Internals |-> Len(node[q].children)]
           S   == {p \in DOMAIN node : hi[p] = MaxKey + 1}
<1>4. Leads(via, S)
  <2>1. ASSUME NEW p \in S, node[p].kind = "internal"
        PROVE  via[p] \in 1..Len(node[p].keys)+1 /\ node[p].children[via[p]] \in S
    <3>1. /\ p \in DOMAIN node \ LeavesOf(node) /\ Len(node[p].keys) \in Nat
          /\ Len(node[p].children) = Len(node[p].keys) + 1
          /\ ToSet(node[p].children) \subseteq DOMAIN node
          /\ \A i \in 1..Len(node[p].keys)+1 : node[p].children[i] \in ToSet(node[p].children)
      BY <1>3, <2>1, BranchIs
    <3>2. via[p] = Len(node[p].keys) + 1
      BY <2>1, <3>1 DEF Internals
    <3>3. Divides(node[p].keys, node[p].children, lo[p], hi[p], lo, hi)
      BY <1>2, <3>1 DEF Branches
    <3> DEFINE u == Len(node[p].keys) + 1
    <3>4. u \in 1..Len(node[p].keys)+1 /\ u # 0
      BY <3>1
    <3>5. hi[node[p].children[u]] = Bound(node[p].keys, lo[p], hi[p], u)
      BY <3>3, <3>4 DEF Divides
    <3>6. Bound(node[p].keys, lo[p], hi[p], u) = hi[p]
      BY <3>4 DEF Bound
    <3> QED
      BY <2>1, <3>1, <3>2, <3>4, <3>5, <3>6
  <2> QED
    BY <1>2, <2>1 DEF Leads
<1> DEFINE p == LeafBy(via)
<1> HIDE DEF via, S
<1>5. p \in S /\ p \in LeavesOf(node)
  BY <1>4, WayLeads
<1>6. hi[p] = MaxKey + 1
  BY <1>5 DEF S
<1> HIDE DEF p
<1>7. /\ Ascending(node[p].entries) /\ Within(node[p].entries, lo[p], hi[p])
      /\ lo[p] \in Nat /\ hi[p] \in Nat /\ node[p].entries \in Seq(Entry) /\ lo[p] < hi[p]
  BY <1>2, <1>3, <1>5, LeafOf DEF Leaves, Chained, Spanned
<1>8. lo[p] <= MaxKey /\ MaxKey < hi[p]
  BY <1>6, <1>7, Minima
<1>9. node[p].next = NoPage
  <2> SUFFICES ASSUME node[p].next # NoPage PROVE FALSE
    OBVIOUS
  <2> DEFINE q == node[p].next
  <2>1. q \in LeavesOf(node) /\ lo[q] = hi[p]
    BY <1>2, <1>5 DEF Leaves, Chained
  <2> HIDE DEF q
  <2>2. lo[q] \in Nat /\ hi[q] \in Nat /\ lo[q] < hi[q] /\ hi[q] <= MaxKey + 1
    BY <1>2, <2>1 DEF Leaves, Spanned
  <2> QED
    BY <1>6, <2>1, <2>2, Minima
<1>10. node[p].entries = <<>> => Held(node) = {}
  BY <1>5, EndFilled
<1>11. AtEnd(p, lo, hi)
  BY <1>2, <1>3, <1>5, <1>6, <1>7, <1>8, <1>9, <1>10 DEF AtEnd, Found
<1>12. LeafBy([q \in Internals |-> Len(node[q].children)]) = p
  BY DEF p, via
<1>13. AtEnd(LeafBy([q \in Internals |-> Len(node[q].children)]), lo, hi)
  BY <1>11, <1>12
<1> QED
  BY <1>13, Zenon

LEMMA LastFinds ==
    ASSUME IInv, OrderInv, unique, pc = "idle"
    PROVE  LastSeek = IF List = <<>> THEN <<>> ELSE <<Last(List)>>
<1> DEFINE p  == LeafBy([q \in Internals |-> Len(node[q].children)])
           es == node[p].entries
           n  == Len(es)
<1>1. LastSeek = SubSeq(es, IF n = 0 THEN 1 ELSE n, n) \o From(node[p].next)
  BY DEF LastSeek
<1>2. PICK lo, hi : AtEnd(p, lo, hi)
  BY LastLeads
<1> HIDE DEF p
<1>3. /\ Found(p, lo, hi, MaxKey) /\ node[p].next = NoPage /\ hi[p] = MaxKey + 1
      /\ es = <<>> => Held(node) = {}
  BY <1>2 DEF AtEnd
<1>4. From(node[p].next) = <<>>
  <2>1. Nodes(node)
    BY <1>3 DEF Found
  <2>2. NoPage \notin DOMAIN node /\ MaxPage \in 0..MaxPage
    BY <2>1, NoPageIs DEF Nodes
  <2>3. Walk(node)[MaxPage] = Chain(node, MaxPage, Walk(node)[MaxPage-1])
    BY <2>2, WalkIs
  <2> QED
    BY <1>3, <2>2, <2>3, FromIs DEF Chain
<1>5. List \in Seq(Entry) /\ Ascending(List) /\ ToSet(List) = Held(node)
  BY ListIs
<1>6. es \in Seq(Entry) /\ Ascending(es)
  BY <1>3 DEF Found
<1> DEFINE ls == List
<1> HIDE DEF ls, es
<1>7. ls \in Seq(Entry) /\ Ascending(ls) /\ ToSet(ls) = Held(node) /\ n \in Nat /\ Len(ls) \in Nat
  BY <1>5, <1>6, SeqIs DEF ls
<1>8. CASE es = <<>>
  <2>1. n = 0 /\ SubSeq(es, 1, 0) = <<>>
    BY <1>8
  <2>2. ls = <<>>
    <3>1. \A i \in 1..Len(ls) : ls[i] \in ToSet(ls)
      BY <1>7, EntryKeys
    <3>2. Len(ls) = 0
      BY <1>3, <1>7, <1>8, <3>1
    <3> QED
      BY <1>7, <3>2, EmptySeq
  <2>3. LastSeek = <<>> \o <<>>
    BY <1>1, <1>4, <2>1
  <2> QED
    BY <2>2, <2>3 DEF ls
<1>9. CASE es # <<>>
  <2>1. n >= 1 /\ n # 0 /\ n \in 1..n
    <3>1. n # 0
      BY <1>6, <1>9, EmptySeq
    <3> QED
      BY <1>7, <3>1
  <2>2. es[n] \in ToSet(es) /\ es[n] \in Entry /\ es[n].key \in Nat /\ DOMAIN es = 1..n
    BY <1>6, <2>1, EntryKeys
  <2>3. es[n] \in Held(node)
    <3>1. p \in LeavesOf(node)
      BY <1>3 DEF Found
    <3> QED
      BY <2>2, <3>1 DEF Held, es
  <2>4. ASSUME NEW d \in Held(node) PROVE d.key <= es[n].key
    <3>1. d \in Entry /\ d.key \in Nat
      <4>1. Held(node) \subseteq Entry
        BY <1>3, HeldEntries DEF Found
      <4> QED
        BY <4>1, KeysAre DEF Entry, Keys
    <3>2. CASE d \in ToSet(es)
      <4>1. PICK j \in 1..n : d = es[j]
        BY <1>6, <3>2, EntryKeys
      <4>2. j = n \/ es[j].key < es[n].key
        <5>1. j \in DOMAIN es /\ n \in DOMAIN es /\ j \in Nat /\ j <= n
          BY <1>7, <2>2, <4>1, <2>1
        <5>2. j < n => es[j].key < es[n].key
          BY <1>6, <5>1 DEF Ascending
        <5> QED
          BY <1>7, <5>1, <5>2
      <4> QED
        BY <2>2, <3>1, <4>1, <4>2
    <3>3. CASE d \notin ToSet(es)
      <4>1. Leaves(node, lo, hi) /\ Nodes(node) /\ p \in LeavesOf(node) /\ Within(es, lo[p], hi[p])
            /\ lo[p] \in Nat
        BY <1>3 DEF Found, es
      <4>2. lo[p] <= es[n].key
        BY <1>6, <2>1, <2>2, <4>1, WithinIs
      <4>3. ~(lo[p] <= d.key)
        <5> SUFFICES ASSUME lo[p] <= d.key PROVE FALSE
          OBVIOUS
        <5>1. d.key < hi[p]
          BY <1>3, <3>1, Minima DEF Entry
        <5>2. d \in ToSet(node[p].entries)
          BY <4>1, <5>1, HeldHere
        <5> QED
          BY <3>3, <5>2 DEF es
      <4> QED
        BY <2>2, <3>1, <4>1, <4>2, <4>3
    <3> QED
      BY <3>2, <3>3
  <2>5. ls # <<>> /\ Len(ls) >= 1
    <3>1. PICK j \in 1..Len(ls) : es[n] = ls[j]
      BY <1>7, <2>3, EntryKeys
    <3>2. Len(ls) >= 1
      BY <1>7, <3>1
    <3> QED
      BY <3>2
  <2> DEFINE m == Len(ls)
  <2> HIDE DEF m
  <2>6. m \in 1..m /\ m \in Nat
    BY <1>7, <2>5 DEF m
  <2>7. DOMAIN ls = 1..m /\ ls[m] \in ToSet(ls) /\ ls[m].key \in Nat
    BY <1>7, <2>6, EntryKeys DEF m
  <2>8. PICK j \in 1..m : es[n] = ls[j]
    BY <1>7, <2>3, EntryKeys DEF m
  <2>9. es[n].key = ls[m].key
    <3>1. ls[m].key <= es[n].key
      BY <1>7, <2>4, <2>7
    <3>2. j = m \/ (j < m /\ ls[j].key < ls[m].key)
      BY <1>7, <2>6, <2>7, <2>8 DEF Ascending
    <3> QED
      BY <2>2, <2>7, <2>8, <3>1, <3>2
  <2>10. es[n] = ls[m]
    <3>1. es[n] \in ToSet(ls)
      BY <1>7, <2>3
    <3> QED
      BY <1>7, <2>7, <2>9, <3>1, OneOfKey
  <2>11. SubSeq(es, n, n) = <<es[n]>>
    <3>1. n \in 1..Len(es)+1 /\ n \in n-1..Len(es) /\ n - n + 1 = 1
      BY <2>1
    <3>2. /\ SubSeq(es, n, n) \in Seq(Entry) /\ Len(SubSeq(es, n, n)) = 1
          /\ \A i \in 1..1 : SubSeq(es, n, n)[i] = es[n+i-1]
      BY <1>6, <3>1, SubSeqIs
    <3>3. SubSeq(es, n, n)[1] = es[n]
      <4>1. n + 1 - 1 = n /\ 1 \in 1..1
        BY <1>7
      <4> QED
        BY <3>2, <4>1
    <3> DEFINE x == SubSeq(es, n, n)
    <3> HIDE DEF x
    <3>4. x \in Seq(Entry) /\ Len(x) = 1 /\ x[1] = es[n]
      BY <3>2, <3>3 DEF x
    <3>5. x = <<es[n]>>
      BY <3>4
    <3> QED
      BY <3>5 DEF x
  <2>12. LastSeek = <<es[n]>> \o <<>>
    BY <1>1, <1>4, <2>1, <2>11
  <2>13. <<es[n]>> \o <<>> = <<es[n]>>
    BY <2>2
  <2>14. Last(ls) = ls[m]
    BY DEF Last, m
  <2> QED
    BY <2>5, <2>10, <2>12, <2>13, <2>14 DEF ls
<1> QED
  BY <1>8, <1>9

\* Between calls, what a unique tree's reads find is what its chain of leaves holds
\* (btree.hpp:354-372): a search the value of its key, a cursor the first entry of
\* its key or above and all after it, last() the last one.
THEOREM BTreeReadsFind == Spec => [](unique => ReadsFind)
<1>1. IInv /\ OrderInv => (unique => ReadsFind)
  <2> SUFFICES ASSUME IInv, OrderInv, unique, pc = "idle" PROVE ReadsFind
    BY DEF ReadsFind
  <2>1. SeekFindsFirst
    BY SeekFinds
  <2>2. \A k \in 1..MaxKey : Search(k) = {e.val : e \in {f \in ToSet(List) : f.key = k}}
    BY SearchFinds DEF Keys
  <2>3. LastSeek = IF List = <<>> THEN <<>> ELSE <<Last(List)>>
    BY LastFinds
  <2> QED
    BY <2>1, <2>2, <2>3 DEF ReadsFind
<1> QED
  BY <1>1, BTreeOrdered, PTL
-----------------------------------------------------------------------------
(* The list the chain of leaves is, and the one a unique tree promises.    *)

ListSound == List \in Seq(Entry) /\ Ascending(List) /\ ToSet(List) = Held(node)

LEMMA ListAdds ==
    ASSUME unique, NEW ls \in Seq(Entry), Ascending(ls), NEW ms \in Seq(Entry), Ascending(ms),
           NEW e \in Entry, \A d \in ToSet(ls) : d.key # e.key, ToSet(ms) = ToSet(ls) \cup {e}
    PROVE  \E i \in 1..Len(ls)+1 : /\ ms = InsertAt(ls, i, e)
                                   /\ \A j \in DOMAIN ls : ls[j].key <= e.key <=> j < i
<1> DEFINE k == e.key
           i == LowerBound(KeysOf(ls), k)
<1>1. k \in Keys /\ k \in Nat
  BY KeysAre DEF Entry, Keys
<1>2. /\ DOMAIN ls = 1..Len(ls) /\ \A j \in 1..Len(ls) : ls[j].key \in Nat /\ ls[j] \in ToSet(ls)
      /\ i \in 1..Len(ls)+1 /\ \A j \in 1..Len(ls) : ls[j].key < k <=> j < i
  BY <1>1, EntryKeys, LowerSplits
<1>3. ~HasKey(ls, k)
  BY HasKeyIs
<1>4. Ascending(Inserted(ls, e)) /\ ToSet(Inserted(ls, e)) = ToSet(ls) \cup {e}
  BY <1>3, AscendingInserted
<1>5. Inserted(ls, e) = InsertAt(ls, i, e)
  BY DEF Inserted, Position
<1> HIDE DEF i
<1>6. InsertAt(ls, i, e) \in Seq(Entry)
  BY <1>2, EntryInsertedAt DEF PutIn
<1>7. ms = InsertAt(ls, i, e)
  BY <1>4, <1>5, <1>6, SameList
<1>8. \A j \in DOMAIN ls : ls[j].key <= k <=> j < i
  <2> SUFFICES ASSUME NEW j \in 1..Len(ls) PROVE ls[j].key <= k <=> j < i
    BY <1>2
  <2>1. ls[j].key \in Nat /\ ls[j].key # k /\ (ls[j].key < k <=> j < i)
    BY <1>2
  <2> HIDE DEF k
  <2> QED
    BY <1>1, <2>1
<1> QED
  BY <1>2, <1>7, <1>8

Overwrites(ls, k, v, ms) == \E i \in DOMAIN ls : ls[i].key = k /\ ms = [ls EXCEPT ![i].val = v]

LEMMA ListOverwrites ==
    ASSUME NEW ls \in Seq(Entry), Ascending(ls), NEW ms \in Seq(Entry), Ascending(ms),
           NEW e \in Entry, \E d \in ToSet(ls) : d.key = e.key,
           ToSet(ms) = {d \in ToSet(ls) : d.key # e.key} \cup {e}
    PROVE  Overwrites(ls, e.key, e.val, ms)
<1> DEFINE k == e.key
           i == LowerBound(KeysOf(ls), k)
<1>1. k \in Keys /\ e.val \in Values /\ e = [key |-> k, val |-> e.val]
  BY DEF Entry, Keys
<1>2. HasKey(ls, k)
  BY HasKeyIs
<1>3. DOMAIN ls = 1..Len(ls) /\ i \in 1..Len(ls) /\ ls[i].key = k
  BY <1>1, <1>2, EntryKeys, LowerFinds
<1> HIDE DEF i
<1>4. PICK v \in Values : v = e.val
  BY <1>1
<1> DEFINE t == [ls EXCEPT ![i].val = v]
<1>5. /\ t \in Seq(Entry) /\ Ascending(t)
      /\ ToSet(t) = {d \in ToSet(ls) : d.key # ls[i].key} \cup {[key |-> ls[i].key, val |-> v]}
  BY <1>3, AscendingUpdated, Zenon
<1> HIDE DEF t
<1>6. ToSet(t) = ToSet(ms)
  BY <1>1, <1>3, <1>4, <1>5
<1>7. ms = t
  BY <1>5, <1>6, SameList
<1> QED
  BY <1>3, <1>4, <1>7, Zenon DEF t, Overwrites

LEMMA ListErases ==
    ASSUME NEW ls \in Seq(Entry), Ascending(ls), NEW ms \in Seq(Entry), Ascending(ms),
           NEW k \in Keys, \E d \in ToSet(ls) : d.key = k, ToSet(ms) = {d \in ToSet(ls) : d.key # k}
    PROVE  \E i \in DOMAIN ls : ls[i].key = k /\ ms = RemoveAt(ls, i)
<1> DEFINE i == LowerBound(KeysOf(ls), k)
<1>1. HasKey(ls, k)
  BY HasKeyIs
<1>2. DOMAIN ls = 1..Len(ls) /\ i \in 1..Len(ls) /\ ls[i].key = k
  BY <1>1, EntryKeys, LowerFinds
<1> HIDE DEF i
<1>3. /\ RemoveAt(ls, i) \in Seq(Entry) /\ Ascending(RemoveAt(ls, i))
      /\ ToSet(RemoveAt(ls, i)) = {d \in ToSet(ls) : d.key # ls[i].key}
  BY <1>2, AscendingRemoved
<1>4. ms = RemoveAt(ls, i)
  BY <1>2, <1>3, SameList
<1> QED
  BY <1>2, <1>4

\* What a step does to the entries held: nothing, or what its call is for.
Kept    == Held(node') = Held(node)
Written == /\ arg.key \in Keys /\ arg.val \in Values /\ HeldWith(NewEntry)
Erased  == arg.key \in Keys /\ HeldWithout(arg.key) /\ \E d \in Held(node) : d.key = arg.key

LEMMA StepHolds ==
    ASSUME IInv, OrderInv, unique, [Next]_vars
    PROVE  unique' = unique /\ (Kept \/ Written \/ Erased)
<1>1. unique' = unique
  BY DEF Next, Erase, Insert, RefuseErase, Descend, UpdateEntry, InsertEntry, SplitLeaf, AbsorbSplit,
         SplitInternal, GrowRoot, EraseAbsent, EraseEntry, AscendErased, EraseReturns, vars, unique
<1> SUFFICES Kept \/ Written \/ Erased
  BY <1>1
<1>2. pc # "idle" => arg.key \in Keys
  BY DEF IInv, CallInv
<1>3. pc = "insert" => arg.val \in Values
  BY DEF IInv, CallInv
<1>4. ASSUME NEW k \in tree.keys, Erase(k) \/ \E v \in tree.vals, o \in BOOLEAN : Insert(k, v, o)
      PROVE  Kept
  <2>1. node' = node
    BY <1>4 DEF Erase, Insert
  <2> QED
    BY <2>1 DEF Kept
<1>5. CASE Descend \/ RefuseErase \/ UNCHANGED vars
  <2>1. node' = node
    BY <1>5 DEF Descend, RefuseErase, vars
  <2> QED
    BY <2>1 DEF Kept
<1>6. CASE UpdateEntry
  <2>1. pc = "insert" /\ pc # "idle"
    BY <1>6 DEF UpdateEntry, AtLeaf
  <2>2. Held(node') = Held(node) \/ HeldWith(NewEntry)
    BY <1>6, UpdateEntryOrder
  <2> QED
    BY <1>2, <1>3, <2>1, <2>2 DEF Kept, Written
<1>7. CASE InsertEntry
  <2>1. pc = "insert" /\ pc # "idle"
    BY <1>7 DEF InsertEntry, AtLeaf
  <2>2. HeldWith(NewEntry)
    BY <1>7, InsertEntryOrder
  <2> QED
    BY <1>2, <1>3, <2>1, <2>2 DEF Written
<1>8. CASE SplitLeaf
  <2>1. pc = "insert" /\ pc # "idle"
    BY <1>8 DEF SplitLeaf, AtLeaf
  <2>2. HeldWith(NewEntry)
    BY <1>8, SplitLeafOrder
  <2> QED
    BY <1>2, <1>3, <2>1, <2>2 DEF Written
<1>9. CASE AbsorbSplit
  BY <1>9, AbsorbSplitOrder DEF Kept
<1>10. CASE SplitInternal
  BY <1>10, SplitInternalOrder DEF Kept
<1>11. CASE GrowRoot
  BY <1>11, GrowRootOrder DEF Kept
<1>12. CASE EraseAbsent
  BY <1>12, EraseAbsentOrder DEF Kept
<1>13. CASE EraseEntry
  <2>1. pc # "idle"
    BY <1>13 DEF EraseEntry, AtLeaf
  <2>2. HeldWithout(arg.key) /\ \E d \in Held(node) : d.key = arg.key
    BY <1>13, EraseEntryOrder
  <2> QED
    BY <1>2, <2>1, <2>2 DEF Erased
<1>14. CASE AscendErased
  BY <1>14, AscendErasedOrder DEF Kept
<1>15. CASE EraseReturns
  BY <1>15, EraseReturnsOrder DEF Kept
<1> QED
  BY <1>4, <1>5, <1>6, <1>7, <1>8, <1>9, <1>10, <1>11, <1>12, <1>13, <1>14, <1>15 DEF Next

\* A step of the tree is one of the list, or none.
LEMMA ListSteps ==
    ASSUME IInv, OrderInv, unique, ListSound, ListSound', [Next]_vars
    PROVE  [Promise!Next]_<<List, unique>>
<1> DEFINE ls == List
<1> HIDE DEF ls
<1>1. ls = List /\ ls \in Seq(Entry) /\ Ascending(ls) /\ ToSet(ls) = Held(node)
  BY DEF ListSound, ls
<1>2. PICK ms : ms = List'
  OBVIOUS
<1>3. ms \in Seq(Entry) /\ Ascending(ms) /\ ToSet(ms) = Held(node')
  BY <1>2 DEF ListSound, Ascending, Held, LeavesOf
<1>4. unique' = unique /\ (Kept \/ Written \/ Erased)
  BY StepHolds
<1>5. CASE Kept
  <2>1. ms = ls
    BY <1>1, <1>3, <1>5, SameList DEF Kept
  <2> QED
    BY <1>1, <1>2, <1>4, <2>1
<1>6. CASE Written
  <2> DEFINE e == NewEntry
  <2>1. e \in Entry /\ e.key = arg.key /\ e.val = arg.val /\ e = [key |-> arg.key, val |-> arg.val]
    BY <1>6 DEF Written, NewEntry, Entry, Keys
  <2>2. ToSet(ms) = {d \in ToSet(ls) : d.key # e.key} \cup {e}
    BY <1>1, <1>3, <1>6 DEF Written, HeldWith
  <2>3. arg.key \in 1..MaxKey /\ arg.val \in Values
    BY <1>6 DEF Written, Keys
  <2> HIDE DEF e
  <2>4. CASE \E d \in ToSet(ls) : d.key = e.key
    <3>1. Overwrites(ls, e.key, e.val, ms)
      BY <1>1, <1>3, <2>1, <2>2, <2>4, ListOverwrites
    <3>2. Overwrites(List, arg.key, arg.val, List')
      BY <1>1, <1>2, <2>1, <3>1
    <3>3. Promise!Overwrite(arg.key, arg.val)
      BY <1>4, <3>2 DEF Promise!Overwrite, Overwrites
    <3> QED
      BY <2>3, <3>3 DEF Promise!Next
  <2>5. CASE \A d \in ToSet(ls) : d.key # e.key
    <3>1. ToSet(ms) = ToSet(ls) \cup {e}
      BY <2>2, <2>5
    <3>2. \E i \in 1..Len(ls)+1 : /\ ms = InsertAt(ls, i, e)
                                  /\ \A j \in DOMAIN ls : ls[j].key <= e.key <=> j < i
      BY <1>1, <1>3, <2>1, <2>5, <3>1, ListAdds
    <3>3. \E i \in 1..Len(List)+1 : /\ List' = InsertAt(List, i, [key |-> arg.key, val |-> arg.val])
                                    /\ \A j \in DOMAIN List : List[j].key <= arg.key <=> j < i
      BY <1>1, <1>2, <2>1, <3>2
    <3>4. ~Promise!Has(arg.key)
      <4>1. ~HasKey(ls, e.key)
        BY <1>1, <2>5, HasKeyIs
      <4> QED
        BY <1>1, <2>1, <4>1 DEF HasKey, Promise!Has
    <3>5. Promise!Add(arg.key, arg.val)
      BY <1>4, <3>3, <3>4 DEF Promise!Add, Promise!InsertAt, InsertAt
    <3> QED
      BY <2>3, <3>5 DEF Promise!Next
  <2> QED
    BY <2>4, <2>5
<1>7. CASE Erased
  <2>1. arg.key \in Keys /\ arg.key \in 1..MaxKey
    BY <1>7 DEF Erased, Keys
  <2>2. (\E d \in ToSet(ls) : d.key = arg.key) /\ ToSet(ms) = {d \in ToSet(ls) : d.key # arg.key}
    BY <1>1, <1>3, <1>7 DEF Erased, HeldWithout
  <2>3. \E i \in DOMAIN ls : ls[i].key = arg.key /\ ms = RemoveAt(ls, i)
    BY <1>1, <1>3, <2>1, <2>2, ListErases
  <2>4. \E i \in DOMAIN List : List[i].key = arg.key /\ List' = RemoveAt(List, i)
    BY <1>1, <1>2, <2>3
  <2>5. Promise!Erase(arg.key)
    BY <1>4, <2>4 DEF Promise!Erase, Promise!RemoveAt, RemoveAt
  <2> QED
    BY <2>1, <2>5 DEF Promise!Next
<1> QED
  BY <1>4, <1>5, <1>6, <1>7

LEMMA ListStarts == ASSUME Init, ListSound PROVE List = <<>>
<1>1. node = [p \in {root} |-> EmptyLeaf]
  BY DEF Init
<1>2. DOMAIN node = {root} /\ node[root] = EmptyLeaf
  BY <1>1
<1>3. Held(node) = {}
  <2>1. \A p \in LeavesOf(node) : node[p].entries = <<>>
    BY <1>2 DEF LeavesOf, EmptyLeaf
  <2>2. ToSet(<<>>) = {}
    BY DEF ToSet
  <2> QED
    BY <2>1, <2>2 DEF Held
<1> DEFINE ls == List
<1> HIDE DEF ls
<1>4. ls \in Seq(Entry) /\ ToSet(ls) = {}
  BY <1>3 DEF ListSound, ls
<1>5. Len(ls) \in Nat /\ \A i \in 1..Len(ls) : ls[i] \in ToSet(ls)
  BY <1>4, EntryKeys
<1>6. Len(ls) = 0
  BY <1>4, <1>5
<1>7. ls = <<>>
  BY <1>4, <1>6, EmptySeq
<1> QED
  BY <1>7 DEF ls

\* A unique tree is the ordered list it promises, at every step of every call: whatever
\* splits, moves between neighbours, merges or collapses, its chain of leaves changes
\* once in a call, by the entry written or erased (btree.cpp:62-390).
THEOREM BTreeImplements == Spec /\ unique => ImplementsOrderedList
<1>1. IInv /\ OrderInv /\ unique => ListSound
  BY ListIs DEF ListSound
<1>2. Init /\ IInv /\ OrderInv /\ unique => Promise!Init
  BY <1>1, ListStarts DEF Promise!Init
<1>3. IInv /\ OrderInv /\ unique /\ [Next]_vars => unique'
  BY StepHolds
<1>4. IInv /\ OrderInv /\ unique /\ ListSound /\ ListSound' /\ [Next]_vars => [Promise!Next]_<<List, unique>>
  BY ListSteps
<1> QED
  BY <1>1, <1>2, <1>3, <1>4, BTreeOrdered, PTL DEF Spec, ImplementsOrderedList, Promise!Spec
=============================================================================
