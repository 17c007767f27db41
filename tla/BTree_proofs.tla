---------------------------- MODULE BTree_proofs ----------------------------
(***************************************************************************)
(* Theorems about the B+Tree (BTree), for every size of leaf and internal  *)
(* node, and any keys, values and number of pages.                         *)
(*                                                                         *)
(* The pages are levels: each page that is not a top one is a child of one *)
(* page, a level above it.  A split, a rotation and a merge are a page     *)
(* planted, children moved between two pages of a level, and an emptied    *)
(* page removed; in the middle of an insertion, the page split off is a    *)
(* second top one.                                                         *)
(***************************************************************************)
EXTENDS BTree, SequenceTheorems, WellFoundedInduction, TLAPS

USE BTreeAssumption

\* The children of a page, in their order and as a set.
Kids(n)   == IF n.kind = "internal" THEN n.children ELSE <<>>
KidsIn(f) == [p \in DOMAIN f |-> ToSet(Kids(f[p]))]

Keys == 1..MaxKey

NoRepeat(s) == \A i, j \in DOMAIN s : s[i] = s[j] => i = j

\* kids[p] are the children of page p, height[p] its level, leaves at 0; no
\* page of T has a parent.
Forest(kids, height, T, top) ==
    /\ T \subseteq DOMAIN kids /\ top \in T
    /\ height \in [DOMAIN kids -> Nat]
    /\ \A p \in DOMAIN kids : \A c \in kids[p] : /\ c \in DOMAIN kids \ T
                                                 /\ height[c] + 1 = height[p]
    /\ \A p, q \in DOMAIN kids : p # q => kids[p] \cap kids[q] = {}
    /\ \A c \in DOMAIN kids \ T : (\E p \in DOMAIN kids : c \in kids[p]) /\ height[c] < height[top]
    /\ \A p \in T : height[p] <= height[top]

Levels(f, height) == \A p \in DOMAIN f : f[p].kind = "leaf" <=> height[p] = 0

\* The pages nothing points to: the root, and one a child has just split off.
Tops == {root} \cup (IF pc = "split" THEN {split.right} ELSE {})

\* The activations lead from the root to the page in progress, one level each,
\* and their copies are still what the pages hold.
Stop(w, a, i) == IF i <= Len(w) THEN w[i].id ELSE a

Route(f, height, top, w, a) ==
    /\ a \in DOMAIN f
    /\ Stop(w, a, 1) = top
    /\ height[a] + Len(w) = height[top]
    /\ \A i \in DOMAIN w :
          /\ w[i].id \in DOMAIN f
          /\ w[i].copy = f[w[i].id]
          /\ w[i].copy.kind = "internal"
          /\ w[i].ci \in DOMAIN w[i].copy.children
          /\ w[i].copy.children[w[i].ci] = Stop(w, a, i + 1)
          /\ height[w[i].id] + i = height[top] + 1

ShapeInv ==
    \E height \in [DOMAIN node -> Nat] :
        /\ Forest(KidsIn(node), height, Tops, root)
        /\ Levels(node, height)
        /\ pc # "idle" => Route(node, height, root, path, at)
        /\ pc = "split" => split.right # root /\ height[split.right] = height[at]

Activation == [id : Pages, copy : Leaf \cup Internal, ci : Nat]

CallInv ==
    /\ tree \in Trees
    /\ pc \in {"idle", "insert", "split", "erase", "erased"}
    /\ pc = "idle" => Idle
    /\ pc # "idle" => /\ arg.key \in Keys
                      /\ path \in Seq(Activation)
    /\ pc = "insert" => arg.val \in Values
    /\ pc = "split" => split \in [key : Keys, right : Pages]
    /\ pc \in {"erase", "erased"} => unique
    /\ pc = "erased" => under = (Size(node[at]) < MinSize(node[at]))
    /\ under \in BOOLEAN

Nodes(f) ==
    /\ DOMAIN f \subseteq Pages
    /\ f \in [DOMAIN f -> Leaf \cup Internal]
    /\ \A p \in DOMAIN f : NoRepeat(Kids(f[p]))

NodeInv == Nodes(node) /\ root \in DOMAIN node

\* Sizes: page a, if it is one, may lack an entry; the root r has no minimum.
Fits(n) == /\ Size(n) <= MaxSize(n)
           /\ n.kind = "internal" => Len(n.children) = Len(n.keys) + 1

Lack(p, a) == IF p = a THEN 1 ELSE 0

Stocked(f, r, a) ==
    \A p \in DOMAIN f :
        /\ Fits(f[p])
        /\ p # r => Size(f[p]) + Lack(p, a) >= MinSize(f[p])
        /\ f[p].kind = "internal" => Size(f[p]) + Lack(p, a) >= 1

\* An erasure leaves its page one short until its parent repairs it; a root
\* splits into halves that are no roots.
SizeInv ==
    /\ Stocked(node, root, IF pc = "erased" THEN at ELSE NoPage)
    /\ pc = "split" => Size(node[at]) >= MinSize(node[at])

IInv == CallInv /\ NodeInv /\ SizeInv /\ ShapeInv
-----------------------------------------------------------------------------
(* Sequences: what the operations on the arrays of a node do to them.      *)

LEMMA SeqIs ==
    ASSUME NEW S, NEW s \in Seq(S)
    PROVE  /\ Len(s) \in Nat /\ DOMAIN s = 1..Len(s)
           /\ \A i \in 1..Len(s) : s[i] \in S
           /\ s # <<>> <=> Len(s) > 0
  OBVIOUS

LEMMA SubSeqIs ==
    ASSUME NEW S, NEW s \in Seq(S), NEW m \in 1..Len(s)+1, NEW n \in m-1..Len(s)
    PROVE  /\ SubSeq(s, m, n) \in Seq(S)
           /\ Len(SubSeq(s, m, n)) = n - m + 1
           /\ \A j \in 1..n-m+1 : SubSeq(s, m, n)[j] = s[m+j-1]
<1>1. \A i \in m..n : s[i] \in S
  BY SeqIs
<1>2. m \in Int /\ n \in Int /\ Len(s) \in Nat
  BY SeqIs
<1>3. n - m + 1 = IF m <= n THEN n - m + 1 ELSE 0
  BY <1>2
<1> QED
  BY <1>1, <1>2, <1>3, SubSeqProperties

LEMMA OneIs ==
    ASSUME NEW S, NEW e \in S
    PROVE  <<e>> \in Seq(S) /\ Len(<<e>>) = 1 /\ <<e>>[1] = e
  OBVIOUS

LEMMA InsertAtIs ==
    ASSUME NEW S, NEW s \in Seq(S), NEW i \in 1..Len(s)+1, NEW e \in S
    PROVE  /\ InsertAt(s, i, e) \in Seq(S)
           /\ Len(InsertAt(s, i, e)) = Len(s) + 1
           /\ \A j \in 1..Len(s)+1 :
                 InsertAt(s, i, e)[j] = IF j < i THEN s[j] ELSE IF j = i THEN e ELSE s[j-1]
<1> DEFINE a == SubSeq(s, 1, i-1)
           b == SubSeq(s, i, Len(s))
<1>0. Len(s) \in Nat /\ i \in 1..Len(s)+1
  BY SeqIs
<1>1. a \in Seq(S) /\ Len(a) = i - 1 /\ \A j \in 1..i-1 : a[j] = s[j]
  <2>1. 1 \in 1..Len(s)+1 /\ i-1 \in 1-1..Len(s) /\ i - 1 - 1 + 1 = i - 1
    BY <1>0
  <2>2. \A j \in 1..i-1 : 1+j-1 = j
    BY <1>0
  <2> QED
    BY <2>1, <2>2, SubSeqIs
<1>2. b \in Seq(S) /\ Len(b) = Len(s) - i + 1 /\ \A j \in 1..Len(s)-i+1 : b[j] = s[i+j-1]
  <2>1. Len(s) \in i-1..Len(s)
    BY <1>0
  <2> QED
    BY <2>1, <1>0, SubSeqIs
<1>3. <<e>> \in Seq(S) /\ Len(<<e>>) = 1 /\ <<e>>[1] = e
  OBVIOUS
<1> HIDE DEF a, b
<1> DEFINE o == <<e>>
           c == a \o o
<1> HIDE DEF o
<1>4. c \in Seq(S) /\ Len(c) = i /\ \A j \in 1..i : c[j] = IF j < i THEN s[j] ELSE e
  <2>1. /\ a \o o \in Seq(S) /\ Len(a \o o) = Len(a) + Len(o)
        /\ \A j \in 1..Len(a)+Len(o) : (a \o o)[j] = IF j <= Len(a) THEN a[j] ELSE o[j-Len(a)]
    BY <1>1, <1>3, ConcatProperties DEF o
  <2>2. Len(a) = i - 1 /\ Len(o) = 1 /\ o[1] = e
    BY <1>1, <1>3 DEF o
  <2>3. ASSUME NEW j \in 1..i PROVE c[j] = IF j < i THEN s[j] ELSE e
    <3>1. c[j] = IF j <= i - 1 THEN a[j] ELSE o[j - (i - 1)]
      BY <2>1, <2>2, <1>0
    <3> HIDE DEF c
    <3>2. CASE j < i
      <4>1. j <= i - 1 /\ j \in 1..i-1
        BY <3>2, <1>0
      <4> QED
        BY <3>1, <3>2, <4>1, <1>1
    <3>3. CASE j = i
      <4>1. j - (i - 1) = 1 /\ ~(j <= i - 1)
        BY <3>3, <1>0
      <4> QED
        BY <3>1, <3>3, <4>1, <2>2, <1>0
    <3> QED
      BY <3>2, <3>3, <1>0
  <2> QED
    BY <2>1, <2>2, <2>3, <1>0
<1> HIDE DEF c
<1>5. /\ c \o b \in Seq(S) /\ Len(c \o b) = Len(c) + Len(b)
      /\ \A j \in 1..Len(c)+Len(b) : (c \o b)[j] = IF j <= Len(c) THEN c[j] ELSE b[j-Len(c)]
  BY <1>2, <1>4, ConcatProperties
<1>6. InsertAt(s, i, e) = c \o b
  BY DEF InsertAt, a, b, c, o
<1>7. Len(c) + Len(b) = Len(s) + 1
  BY <1>0, <1>2, <1>4
<1>8. ASSUME NEW j \in 1..Len(s)+1
      PROVE  (c \o b)[j] = IF j < i THEN s[j] ELSE IF j = i THEN e ELSE s[j-1]
  <2>1. (c \o b)[j] = IF j <= i THEN c[j] ELSE b[j-i]
    BY <1>4, <1>5, <1>7
  <2>2. CASE j <= i
    BY <2>1, <2>2, <1>4, <1>0
  <2>3. CASE ~(j <= i)
    <3>1. j - i \in 1..Len(s)-i+1 /\ i + (j - i) - 1 = j - 1 /\ ~(j < i) /\ j # i
      BY <2>3, <1>0
    <3>2. b[j-i] = s[i + (j - i) - 1]
      BY <3>1, <1>2
    <3> QED
      BY <2>1, <2>3, <3>1, <3>2
  <2> QED
    BY <2>2, <2>3
<1> QED
  BY <1>5, <1>6, <1>7, <1>8

LEMMA ConcatIs ==
    ASSUME NEW S, NEW s \in Seq(S), NEW t \in Seq(S)
    PROVE  /\ s \o t \in Seq(S)
           /\ Len(s \o t) = Len(s) + Len(t)
           /\ \A j \in 1..Len(s)+Len(t) :
                 (s \o t)[j] = IF j <= Len(s) THEN s[j] ELSE t[j-Len(s)]
  BY ConcatProperties

LEMMA RemoveAtIs ==
    ASSUME NEW S, NEW s \in Seq(S), NEW i \in 1..Len(s)
    PROVE  /\ RemoveAt(s, i) \in Seq(S)
           /\ Len(RemoveAt(s, i)) = Len(s) - 1
           /\ \A j \in 1..Len(s)-1 : RemoveAt(s, i)[j] = IF j < i THEN s[j] ELSE s[j+1]
<1> DEFINE a == SubSeq(s, 1, i-1)
           b == SubSeq(s, i+1, Len(s))
<1>0. Len(s) \in Nat /\ i \in 1..Len(s)
  BY SeqIs
<1>1. a \in Seq(S) /\ Len(a) = i - 1 /\ \A j \in 1..i-1 : a[j] = s[j]
  <2>1. 1 \in 1..Len(s)+1 /\ i-1 \in 1-1..Len(s) /\ i - 1 - 1 + 1 = i - 1
    BY <1>0
  <2>2. \A j \in 1..i-1 : 1+j-1 = j
    BY <1>0
  <2> QED
    BY <2>1, <2>2, SubSeqIs
<1>2. b \in Seq(S) /\ Len(b) = Len(s) - i /\ \A j \in 1..Len(s)-i : b[j] = s[i+j]
  <2> DEFINE m == i + 1
  <2>1. m \in 1..Len(s)+1 /\ Len(s) \in m-1..Len(s) /\ Len(s) - m + 1 = Len(s) - i
    BY <1>0
  <2>2. \A j \in 1..Len(s)-i : m+j-1 = i+j
    BY <1>0
  <2> HIDE DEF m
  <2>3. /\ SubSeq(s, m, Len(s)) \in Seq(S)
        /\ Len(SubSeq(s, m, Len(s))) = Len(s) - m + 1
        /\ \A j \in 1..Len(s)-m+1 : SubSeq(s, m, Len(s))[j] = s[m+j-1]
    BY <2>1, SubSeqIs
  <2> QED
    BY <2>1, <2>2, <2>3 DEF m
<1> HIDE DEF a, b
<1>3. /\ a \o b \in Seq(S) /\ Len(a \o b) = Len(a) + Len(b)
      /\ \A j \in 1..Len(a)+Len(b) : (a \o b)[j] = IF j <= Len(a) THEN a[j] ELSE b[j-Len(a)]
  BY <1>1, <1>2, ConcatProperties
<1>4. RemoveAt(s, i) = a \o b
  BY DEF RemoveAt, a, b
<1>5. Len(a) + Len(b) = Len(s) - 1
  BY <1>0, <1>1, <1>2
<1>6. ASSUME NEW j \in 1..Len(s)-1
      PROVE  (a \o b)[j] = IF j < i THEN s[j] ELSE s[j+1]
  <2>1. (a \o b)[j] = IF j <= i - 1 THEN a[j] ELSE b[j-(i-1)]
    BY <1>1, <1>3, <1>5
  <2>2. CASE j < i
    BY <2>1, <2>2, <1>1, <1>0
  <2>3. CASE ~(j < i)
    <3>1. j-(i-1) \in 1..Len(s)-i /\ i + (j-(i-1)) = j + 1 /\ ~(j <= i - 1)
      BY <2>3, <1>0
    <3>2. b[j-(i-1)] = s[i + (j-(i-1))]
      BY <3>1, <1>2
    <3> QED
      BY <2>1, <2>3, <3>1, <3>2
  <2> QED
    BY <2>2, <2>3
<1> QED
  BY <1>3, <1>4, <1>5, <1>6

\* The binary searches end at some index, whatever order the keys are in.
LEMMA LeastElement == \A T \in SUBSET Nat : T # {} => \E x \in T : \A y \in T : x <= y
<1>1. SUFFICES ASSUME NEW T \in SUBSET Nat, T # {} PROVE \E x \in T : \A y \in T : x <= y
  OBVIOUS
<1>2. PICK x \in T : \A y \in T : <<y, x>> \notin OpToRel(<, Nat)
  BY ONLY <1>1, NatLessThanWellFounded, WFMin, Zenon
<1>3. ASSUME NEW y \in T PROVE ~(y < x)
  BY <1>2, <1>3 DEF OpToRel
<1> QED
  BY <1>3

LEMMA BoundsIn ==
    ASSUME NEW ks \in Seq(Nat), NEW k \in Nat
    PROVE  /\ LowerBound(ks, k) \in 1..Len(ks)+1
           /\ LowerBound(ks, k) > 1 => ks[LowerBound(ks, k) - 1] < k
           /\ LowerBound(ks, k) <= Len(ks) => ks[LowerBound(ks, k)] >= k
           /\ UpperBound(ks, k) \in 1..Len(ks)+1
           /\ UpperBound(ks, k) > 1 => ks[UpperBound(ks, k) - 1] <= k
           /\ UpperBound(ks, k) <= Len(ks) => ks[UpperBound(ks, k)] > k
<1>0. Len(ks) \in Nat /\ \A i \in 1..Len(ks) : ks[i] \in Nat
  BY SeqIs
<1>1. \E i \in 1..Len(ks)+1 : (i > 1 => ks[i-1] < k) /\ (i <= Len(ks) => ks[i] >= k)
  <2> DEFINE T == {i \in 1..Len(ks)+1 : i <= Len(ks) => ks[i] >= k}
  <2>1. T \in SUBSET Nat /\ Len(ks)+1 \in T
    BY <1>0
  <2>2. PICK i \in T : \A j \in T : i <= j
    BY <2>1, LeastElement
  <2>3. ASSUME i > 1 PROVE ks[i-1] < k
    <3>1. i - 1 \in 1..Len(ks)+1 /\ i - 1 \notin T /\ i - 1 \in 1..Len(ks)
      BY <1>0, <2>2, <2>3
    <3> QED
      BY <1>0, <3>1
  <2> QED
    BY <2>2, <2>3
<1>2. \E i \in 1..Len(ks)+1 : (i > 1 => ks[i-1] <= k) /\ (i <= Len(ks) => ks[i] > k)
  <2> DEFINE T == {i \in 1..Len(ks)+1 : i <= Len(ks) => ks[i] > k}
  <2>1. T \in SUBSET Nat /\ Len(ks)+1 \in T
    BY <1>0
  <2>2. PICK i \in T : \A j \in T : i <= j
    BY <2>1, LeastElement
  <2>3. ASSUME i > 1 PROVE ks[i-1] <= k
    <3>1. i - 1 \in 1..Len(ks)+1 /\ i - 1 \notin T /\ i - 1 \in 1..Len(ks)
      BY <1>0, <2>2, <2>3
    <3> QED
      BY <1>0, <3>1
  <2> QED
    BY <2>2, <2>3
<1> QED
  BY <1>1, <1>2, Zenon DEF LowerBound, UpperBound
-----------------------------------------------------------------------------
(* Children as sets.                                                       *)

LEMMA ToSetIs ==
    ASSUME NEW S, NEW s \in Seq(S)
    PROVE  ToSet(s) = {s[i] : i \in 1..Len(s)} /\ ToSet(s) \subseteq S
  BY SeqIs DEF ToSet

LEMMA InsertedKids ==
    ASSUME NEW S, NEW s \in Seq(S), NEW i \in 1..Len(s)+1, NEW e \in S,
           NoRepeat(s), e \notin ToSet(s)
    PROVE  ToSet(InsertAt(s, i, e)) = ToSet(s) \cup {e} /\ NoRepeat(InsertAt(s, i, e))
<1> DEFINE t == InsertAt(s, i, e)
<1>0. Len(s) \in Nat /\ i \in 1..Len(s)+1
  BY SeqIs
<1>1. /\ t \in Seq(S) /\ Len(t) = Len(s) + 1
      /\ \A j \in 1..Len(s)+1 : t[j] = IF j < i THEN s[j] ELSE IF j = i THEN e ELSE s[j-1]
  BY InsertAtIs
<1> HIDE DEF t
<1>2. DOMAIN t = 1..Len(s)+1 /\ DOMAIN s = 1..Len(s)
  BY <1>1, SeqIs
<1>3. ASSUME NEW j \in 1..Len(s)+1, j # i
      PROVE  \E k \in 1..Len(s) : t[j] = s[k] /\ k = IF j < i THEN j ELSE j - 1
  <2>1. CASE j < i
    BY <2>1, <1>0, <1>1
  <2>2. CASE ~(j < i)
    <3>1. j - 1 \in 1..Len(s) /\ t[j] = s[j-1]
      BY <2>2, <1>0, <1>1, <1>3
    <3> QED
      BY <2>2, <3>1
  <2> QED
    BY <2>1, <2>2
<1>4. t[i] = e
  BY <1>1, <1>0
<1>5. ASSUME NEW k \in 1..Len(s) PROVE \E j \in 1..Len(s)+1 : t[j] = s[k]
  <2>1. CASE k < i
    BY <2>1, <1>0, <1>1
  <2>2. CASE ~(k < i)
    <3>1. k + 1 \in 1..Len(s)+1 /\ ~(k + 1 < i) /\ k + 1 # i /\ (k + 1) - 1 = k
      BY <2>2, <1>0
    <3> QED
      BY <3>1, <1>1
  <2> QED
    BY <2>1, <2>2
<1>6. ToSet(t) = ToSet(s) \cup {e}
  <2>1. ToSet(t) = {t[j] : j \in 1..Len(s)+1} /\ ToSet(s) = {s[j] : j \in 1..Len(s)}
    BY <1>2 DEF ToSet
  <2>2. \A j \in 1..Len(s)+1 : t[j] \in ToSet(s) \cup {e}
    BY <1>3, <1>4, <2>1
  <2>3. \A x \in ToSet(s) \cup {e} : \E j \in 1..Len(s)+1 : t[j] = x
    BY <1>0, <1>4, <1>5, <2>1
  <2>4. ToSet(t) \subseteq (ToSet(s) \cup {e})
    BY <2>1, <2>2
  <2>5. (ToSet(s) \cup {e}) \subseteq ToSet(t)
    BY <2>1, <2>3
  <2> QED
    BY <2>4, <2>5
<1>7. NoRepeat(t)
  <2> SUFFICES ASSUME NEW j \in 1..Len(s)+1, NEW k \in 1..Len(s)+1, t[j] = t[k] PROVE j = k
    BY <1>2 DEF NoRepeat
  <2>1. \A m \in 1..Len(s) : s[m] # e
    BY <1>2 DEF ToSet
  <2>2. CASE j = i
    BY <2>1, <2>2, <1>3, <1>4
  <2>3. CASE k = i
    BY <2>1, <2>3, <1>3, <1>4
  <2>4. CASE j # i /\ k # i
    <3>1. PICK a \in 1..Len(s) : t[j] = s[a] /\ a = IF j < i THEN j ELSE j - 1
      BY <2>4, <1>3
    <3>2. PICK b \in 1..Len(s) : t[k] = s[b] /\ b = IF k < i THEN k ELSE k - 1
      BY <2>4, <1>3
    <3>3. a = b
      BY <3>1, <3>2, <1>2 DEF NoRepeat
    <3> QED
      BY <3>1, <3>2, <3>3, <2>4, <1>0
  <2> QED
    BY <2>2, <2>3, <2>4
<1> QED
  BY <1>6, <1>7 DEF t

LEMMA RemovedKids ==
    ASSUME NEW S, NEW s \in Seq(S), NEW i \in 1..Len(s), NoRepeat(s)
    PROVE  ToSet(RemoveAt(s, i)) = ToSet(s) \ {s[i]} /\ NoRepeat(RemoveAt(s, i))
<1> DEFINE t == RemoveAt(s, i)
<1>0. Len(s) \in Nat /\ i \in 1..Len(s)
  BY SeqIs
<1>1. /\ t \in Seq(S) /\ Len(t) = Len(s) - 1
      /\ \A j \in 1..Len(s)-1 : t[j] = IF j < i THEN s[j] ELSE s[j+1]
  BY RemoveAtIs
<1> HIDE DEF t
<1>2. DOMAIN t = 1..Len(s)-1 /\ DOMAIN s = 1..Len(s)
  BY <1>1, SeqIs
<1>3. ASSUME NEW j \in 1..Len(s)-1
      PROVE  \E k \in 1..Len(s) : t[j] = s[k] /\ k # i /\ k = IF j < i THEN j ELSE j + 1
  <2>1. CASE j < i
    BY <2>1, <1>0, <1>1
  <2>2. CASE ~(j < i)
    <3>1. j + 1 \in 1..Len(s) /\ j + 1 # i /\ t[j] = s[j+1]
      BY <2>2, <1>0, <1>1
    <3> QED
      BY <2>2, <3>1
  <2> QED
    BY <2>1, <2>2
<1>4. ASSUME NEW k \in 1..Len(s), k # i PROVE \E j \in 1..Len(s)-1 : t[j] = s[k]
  <2>1. CASE k < i
    BY <2>1, <1>0, <1>1
  <2>2. CASE ~(k < i)
    <3>1. k - 1 \in 1..Len(s)-1 /\ ~(k - 1 < i) /\ (k - 1) + 1 = k
      BY <2>2, <1>0, <1>4
    <3> QED
      BY <3>1, <1>1
  <2> QED
    BY <2>1, <2>2
<1>5. \A k \in 1..Len(s) : s[k] = s[i] => k = i
  BY <1>2 DEF NoRepeat
<1>6. ToSet(t) = ToSet(s) \ {s[i]}
  <2>1. ToSet(t) = {t[j] : j \in 1..Len(s)-1} /\ ToSet(s) = {s[j] : j \in 1..Len(s)}
    BY <1>2 DEF ToSet
  <2>2. \A j \in 1..Len(s)-1 : t[j] \in ToSet(s) /\ t[j] # s[i]
    BY <1>3, <1>5, <2>1
  <2>3. \A x \in ToSet(s) \ {s[i]} : \E j \in 1..Len(s)-1 : t[j] = x
    BY <1>4, <2>1
  <2>4. ToSet(t) \subseteq (ToSet(s) \ {s[i]})
    BY <2>1, <2>2
  <2>5. (ToSet(s) \ {s[i]}) \subseteq ToSet(t)
    BY <2>1, <2>3
  <2> QED
    BY <2>4, <2>5
<1>7. NoRepeat(t)
  <2> SUFFICES ASSUME NEW j \in 1..Len(s)-1, NEW k \in 1..Len(s)-1, t[j] = t[k] PROVE j = k
    BY <1>2 DEF NoRepeat
  <2>1. PICK a \in 1..Len(s) : t[j] = s[a] /\ a = IF j < i THEN j ELSE j + 1
    BY <1>3
  <2>2. PICK b \in 1..Len(s) : t[k] = s[b] /\ b = IF k < i THEN k ELSE k + 1
    BY <1>3
  <2>3. a = b
    BY <2>1, <2>2, <1>2 DEF NoRepeat
  <2> QED
    BY <2>1, <2>2, <2>3, <1>0
<1> QED
  BY <1>6, <1>7 DEF t

LEMMA HalvedKids ==
    ASSUME NEW S, NEW s \in Seq(S), NEW m \in 0..Len(s), NoRepeat(s)
    PROVE  LET a == SubSeq(s, 1, m)
               b == SubSeq(s, m + 1, Len(s))
           IN  /\ ToSet(a) \cup ToSet(b) = ToSet(s) /\ ToSet(a) \cap ToSet(b) = {}
               /\ NoRepeat(a) /\ NoRepeat(b)
<1> DEFINE a == SubSeq(s, 1, m)
           b == SubSeq(s, m + 1, Len(s))
<1>0. Len(s) \in Nat /\ m \in 0..Len(s)
  BY SeqIs
<1>1. DOMAIN a = 1..m /\ \A j \in 1..m : a[j] = s[j]
  <2>1. 1 \in 1..Len(s)+1 /\ m \in 1-1..Len(s) /\ m - 1 + 1 = m /\ \A j \in 1..m : 1 + j - 1 = j
    BY <1>0
  <2>2. a \in Seq(S) /\ Len(a) = m /\ \A j \in 1..m : a[j] = s[j]
    BY <2>1, SubSeqIs
  <2> QED
    BY <2>2, SeqIs
<1>2. DOMAIN b = 1..Len(s)-m /\ \A j \in 1..Len(s)-m : b[j] = s[m+j]
  <2> DEFINE n == m + 1
  <2>1. n \in 1..Len(s)+1 /\ Len(s) \in n-1..Len(s) /\ Len(s) - n + 1 = Len(s) - m
    BY <1>0
  <2>2. \A j \in 1..Len(s)-m : n+j-1 = m+j
    BY <1>0
  <2> HIDE DEF n
  <2>3. /\ SubSeq(s, n, Len(s)) \in Seq(S)
        /\ Len(SubSeq(s, n, Len(s))) = Len(s) - n + 1
        /\ \A j \in 1..Len(s)-n+1 : SubSeq(s, n, Len(s))[j] = s[n+j-1]
    BY <2>1, SubSeqIs
  <2>4. DOMAIN SubSeq(s, n, Len(s)) = 1..Len(SubSeq(s, n, Len(s)))
    BY <2>3, SeqIs
  <2> QED
    BY <2>1, <2>2, <2>3, <2>4 DEF n
<1> HIDE DEF a, b
<1>3. \A j \in 1..m : j \in 1..Len(s)
  BY <1>0
<1>4. \A j \in 1..Len(s)-m : m + j \in 1..Len(s)
  BY <1>0
<1>5. \A j \in 1..Len(s) : j \in 1..m \/ (j - m \in 1..Len(s)-m /\ m + (j - m) = j)
  BY <1>0
<1>6. DOMAIN s = 1..Len(s)
  BY SeqIs
<1>7. \A i, j \in 1..Len(s) : s[i] = s[j] => i = j
  BY <1>6 DEF NoRepeat
<1>8. ToSet(a) \cup ToSet(b) = ToSet(s)
  <2>1. ASSUME NEW x \in ToSet(s) PROVE x \in ToSet(a) \cup ToSet(b)
    <3>1. PICK j \in 1..Len(s) : x = s[j]
      BY <1>6 DEF ToSet
    <3>2. CASE j \in 1..m
      BY <3>1, <3>2, <1>1 DEF ToSet
    <3>3. CASE j - m \in 1..Len(s)-m /\ m + (j - m) = j
      <4>1. b[j-m] = x
        BY <3>1, <3>3, <1>2
      <4> QED
        BY <3>3, <4>1, <1>2 DEF ToSet
    <3> QED
      BY <3>2, <3>3, <1>5
  <2>2. ToSet(a) \subseteq ToSet(s)
    BY <1>1, <1>3, <1>6, Zenon DEF ToSet
  <2>3. ToSet(b) \subseteq ToSet(s)
    BY <1>2, <1>4, <1>6, Zenon DEF ToSet
  <2> QED
    BY <2>1, <2>2, <2>3
<1>9. ToSet(a) \cap ToSet(b) = {}
  <2> SUFFICES ASSUME NEW i \in 1..m, NEW j \in 1..Len(s)-m, a[i] = b[j] PROVE FALSE
    BY <1>1, <1>2 DEF ToSet
  <2>1. s[i] = s[m+j]
    BY <1>1, <1>2
  <2>2. i = m + j
    BY <2>1, <1>3, <1>4, <1>7
  <2> QED
    BY <2>2, <1>0
<1>10. NoRepeat(a)
  BY <1>1, <1>3, <1>7, Zenon DEF NoRepeat
<1>11. NoRepeat(b)
  <2> SUFFICES ASSUME NEW i \in 1..Len(s)-m, NEW j \in 1..Len(s)-m, b[i] = b[j] PROVE i = j
    BY <1>2 DEF NoRepeat
  <2>1. s[m+i] = s[m+j]
    BY <1>2
  <2>2. m + i = m + j
    BY <2>1, <1>4, <1>7
  <2> QED
    BY <2>2, <1>0
<1> QED
  BY <1>8, <1>9, <1>10, <1>11 DEF a, b

LEMMA JoinedKids ==
    ASSUME NEW S, NEW s \in Seq(S), NEW t \in Seq(S)
    PROVE  /\ ToSet(s \o t) = ToSet(s) \cup ToSet(t)
           /\ NoRepeat(s) /\ NoRepeat(t) /\ ToSet(s) \cap ToSet(t) = {} => NoRepeat(s \o t)
<1> DEFINE u == s \o t
           n == Len(s)
           l == Len(s) + Len(t)
<1>0. n \in Nat /\ Len(t) \in Nat /\ DOMAIN s = 1..n /\ DOMAIN t = 1..Len(t)
  BY SeqIs
<1>1. DOMAIN u = 1..l /\ \A j \in 1..l : u[j] = IF j <= n THEN s[j] ELSE t[j-n]
  <2>1. u \in Seq(S) /\ Len(u) = l /\ \A j \in 1..l : u[j] = IF j <= n THEN s[j] ELSE t[j-n]
    BY ConcatIs
  <2> QED
    BY <2>1, SeqIs
<1> HIDE DEF u
<1>2. \A j \in 1..n : j \in 1..l /\ u[j] = s[j]
  BY <1>0, <1>1
<1>3. \A j \in 1..Len(t) : j + n \in 1..l /\ u[j+n] = t[j]
  <2> SUFFICES ASSUME NEW j \in 1..Len(t) PROVE j + n \in 1..l /\ u[j+n] = t[j]
    OBVIOUS
  <2>1. j + n \in 1..l /\ ~(j + n <= n) /\ (j + n) - n = j
    BY <1>0
  <2> QED
    BY <2>1, <1>1
<1>4. \A j \in 1..l : \/ j \in 1..n /\ u[j] = s[j]
                      \/ j > n /\ j - n \in 1..Len(t) /\ u[j] = t[j-n]
  BY <1>0, <1>1
<1> HIDE DEF n, l
<1>5. ToSet(u) = ToSet(s) \cup ToSet(t)
  <2>1. /\ ToSet(u) = {u[j] : j \in 1..l}
        /\ ToSet(s) = {s[j] : j \in 1..n} /\ ToSet(t) = {t[j] : j \in 1..Len(t)}
    BY <1>0, <1>1 DEF ToSet
  <2>2. \A j \in 1..l : u[j] \in ToSet(s) \cup ToSet(t)
    BY <1>4, <2>1
  <2>3. \A x \in ToSet(s) \cup ToSet(t) : \E j \in 1..l : u[j] = x
    BY <1>2, <1>3, <2>1
  <2>4. ToSet(u) \subseteq (ToSet(s) \cup ToSet(t))
    BY <2>1, <2>2
  <2>5. (ToSet(s) \cup ToSet(t)) \subseteq ToSet(u)
    BY <2>1, <2>3
  <2> QED
    BY <2>4, <2>5
<1>6. ASSUME NoRepeat(s), NoRepeat(t), ToSet(s) \cap ToSet(t) = {} PROVE NoRepeat(u)
  <2> SUFFICES ASSUME NEW i \in 1..l, NEW j \in 1..l, u[i] = u[j] PROVE i = j
    BY <1>1 DEF NoRepeat
  <2>0. i \in Int /\ j \in Int /\ n \in Int
    BY <1>0 DEF l
  <2>1. \A a \in 1..n, b \in 1..Len(t) : s[a] # t[b]
    BY <1>0, <1>6 DEF ToSet
  <2>2. CASE i \in 1..n /\ u[i] = s[i] /\ j \in 1..n /\ u[j] = s[j]
    BY <2>2, <1>0, <1>6 DEF NoRepeat
  <2>3. CASE i - n \in 1..Len(t) /\ u[i] = t[i-n] /\ j - n \in 1..Len(t) /\ u[j] = t[j-n]
    <3>1. i - n = j - n
      BY <2>3, <1>0, <1>6 DEF NoRepeat
    <3> QED
      BY <3>1, <2>0
  <2> QED
    BY <2>1, <2>2, <2>3, <1>4
<1> QED
  BY <1>5, <1>6 DEF u
-----------------------------------------------------------------------------
(* Forests: what the repairs of a tree do to its levels.                   *)

\* A page is planted, without children, at some level that is there.
LEMMA Planted ==
    ASSUME NEW kids, NEW height, NEW T, NEW top, Forest(kids, height, T, top),
           NEW f, f \notin DOMAIN kids, NEW level \in Nat, level <= height[top],
           NEW kids2, DOMAIN kids2 = DOMAIN kids \cup {f},
           kids2[f] = {}, \A p \in DOMAIN kids : kids2[p] = kids[p],
           NEW height2 \in [DOMAIN kids2 -> Nat],
           height2[f] = level, \A p \in DOMAIN kids : height2[p] = height[p]
    PROVE  Forest(kids2, height2, T \cup {f}, top)
<1>1. \A p \in DOMAIN kids2 : p = f \/ p \in DOMAIN kids
  OBVIOUS
<1>2. top \in T /\ T \subseteq DOMAIN kids
  BY DEF Forest
<1>3. \A p \in DOMAIN kids2 : \A c \in kids2[p] :
        c \in DOMAIN kids2 \ (T \cup {f}) /\ height2[c] + 1 = height2[p]
  BY <1>1 DEF Forest
<1>4. \A p, q \in DOMAIN kids2 : p # q => kids2[p] \cap kids2[q] = {}
  BY <1>1 DEF Forest
<1>5. \A c \in DOMAIN kids2 \ (T \cup {f}) :
        (\E p \in DOMAIN kids2 : c \in kids2[p]) /\ height2[c] < height2[top]
  BY <1>1, <1>2 DEF Forest
<1>6. \A p \in T \cup {f} : height2[p] <= height2[top]
  BY <1>2 DEF Forest
<1> QED
  BY <1>2, <1>3, <1>4, <1>5, <1>6 DEF Forest

\* Children move between two pages of one level.
LEMMA Moved ==
    ASSUME NEW kids, NEW height, NEW T, NEW top, Forest(kids, height, T, top),
           NEW a \in DOMAIN kids, NEW b \in DOMAIN kids, a # b, height[a] = height[b],
           NEW kids2, DOMAIN kids2 = DOMAIN kids,
           \A p \in DOMAIN kids \ {a, b} : kids2[p] = kids[p],
           kids2[a] \cup kids2[b] = kids[a] \cup kids[b], kids2[a] \cap kids2[b] = {}
    PROVE  Forest(kids2, height, T, top)
<1>0. height \in [DOMAIN kids -> Nat] /\ top \in T /\ T \subseteq DOMAIN kids
  BY DEF Forest
<1>1. \A c : (c \in kids2[a] \/ c \in kids2[b]) <=> (c \in kids[a] \/ c \in kids[b])
  OBVIOUS
<1>2. \A p \in DOMAIN kids : p # a /\ p # b => kids2[p] = kids[p]
  OBVIOUS
<1>3. \A p \in DOMAIN kids : \A c \in kids[p] : c \in DOMAIN kids \ T /\ height[c] + 1 = height[p]
  BY DEF Forest
<1>4. \A p, q \in DOMAIN kids : \A c : p # q /\ c \in kids[p] => c \notin kids[q]
  BY Zenon DEF Forest
<1>5. \A p \in DOMAIN kids : \A c \in kids2[p] : c \in DOMAIN kids \ T /\ height[c] + 1 = height[p]
  <2> SUFFICES ASSUME NEW p \in DOMAIN kids, NEW c \in kids2[p]
               PROVE  c \in DOMAIN kids \ T /\ height[c] + 1 = height[p]
    OBVIOUS
  <2>1. CASE p # a /\ p # b
    BY <2>1, <1>2, <1>3
  <2>2. CASE p = a \/ p = b
    <3>1. c \in kids[a] \/ c \in kids[b]
      BY <2>2, <1>1
    <3> QED
      BY <3>1, <2>2, <1>3
  <2> QED
    BY <2>1, <2>2
<1>6. ASSUME NEW p \in DOMAIN kids, NEW q \in DOMAIN kids, p # q, NEW c, c \in kids2[p], c \in kids2[q]
      PROVE  FALSE
  <2>1. CASE p \in {a, b} /\ q \in {a, b}
    BY <2>1, <1>6
  <2>2. CASE p \in {a, b} /\ q \notin {a, b}
    <3>1. (c \in kids[a] \/ c \in kids[b]) /\ c \in kids[q]
      BY <2>2, <1>1, <1>2, <1>6
    <3> QED
      BY <3>1, <2>2, <1>4
  <2>3. CASE p \notin {a, b} /\ q \in {a, b}
    <3>1. (c \in kids[a] \/ c \in kids[b]) /\ c \in kids[p]
      BY <2>3, <1>1, <1>2, <1>6
    <3> QED
      BY <3>1, <2>3, <1>4
  <2>4. CASE p \notin {a, b} /\ q \notin {a, b}
    BY <2>4, <1>2, <1>4, <1>6
  <2> QED
    BY <2>1, <2>2, <2>3, <2>4
<1>7. ASSUME NEW c \in DOMAIN kids \ T
      PROVE  (\E p \in DOMAIN kids : c \in kids2[p]) /\ height[c] < height[top]
  <2>1. (\E p \in DOMAIN kids : c \in kids[p]) /\ height[c] < height[top]
    BY Zenon DEF Forest
  <2>2. PICK p \in DOMAIN kids : c \in kids[p]
    BY <2>1
  <2>3. CASE p \in {a, b}
    BY <2>1, <2>2, <2>3, <1>1
  <2>4. CASE p \notin {a, b}
    BY <2>1, <2>2, <2>4, <1>2
  <2> QED
    BY <2>3, <2>4
<1>8. \A p \in T : height[p] <= height[top]
  BY DEF Forest
<1>9. \A p, q \in DOMAIN kids2 : p # q => kids2[p] \cap kids2[q] = {}
  BY <1>6
<1> QED
  BY <1>0, <1>5, <1>7, <1>8, <1>9 DEF Forest

\* A page p takes a top page that is one level below it as a child.
LEMMA Adopted ==
    ASSUME NEW kids, NEW height, NEW T, NEW top, Forest(kids, height, T, top),
           NEW p \in DOMAIN kids, NEW r \in T, r # top, height[r] + 1 = height[p],
           NEW kids2, DOMAIN kids2 = DOMAIN kids,
           \A q \in DOMAIN kids \ {p} : kids2[q] = kids[q],
           kids2[p] = kids[p] \cup {r}
    PROVE  Forest(kids2, height, T \ {r}, top)
<1>0. height \in [DOMAIN kids -> Nat] /\ top \in T /\ T \subseteq DOMAIN kids
  BY DEF Forest
<1>1. \A q \in DOMAIN kids : \A c \in kids[q] : c \in DOMAIN kids \ T /\ height[c] + 1 = height[q]
  BY DEF Forest
<1>2. \A q \in DOMAIN kids : \A c : c \in kids2[q] => c \in kids[q] \/ (q = p /\ c = r)
  OBVIOUS
<1>3. \A q \in DOMAIN kids : \A c : c \in kids[q] => c \in kids2[q]
  OBVIOUS
<1>4. \A q \in DOMAIN kids : \A c \in kids2[q] : c \in DOMAIN kids \ (T \ {r}) /\ height[c] + 1 = height[q]
  BY <1>0, <1>1, <1>2
<1>5. \A q, s \in DOMAIN kids : \A c : q # s /\ c \in kids[q] => c \notin kids[s]
  BY Zenon DEF Forest
<1>6. \A q, s \in DOMAIN kids2 : q # s => kids2[q] \cap kids2[s] = {}
  <2> SUFFICES ASSUME NEW q \in DOMAIN kids, NEW s \in DOMAIN kids, q # s,
                      NEW c, c \in kids2[q], c \in kids2[s]
               PROVE  FALSE
    OBVIOUS
  <2>1. CASE c = r
    BY <2>1, <1>1, <1>2
  <2>2. CASE c # r
    BY <2>2, <1>2, <1>5
  <2> QED
    BY <2>1, <2>2
<1>7. height[r] < height[top]
  <2>1. p \in T \/ p \in DOMAIN kids \ T
    OBVIOUS
  <2>2. height[p] <= height[top]
    BY <1>0, <2>1 DEF Forest
  <2> QED
    BY <1>0, <2>2
<1>8. ASSUME NEW c \in DOMAIN kids \ (T \ {r})
      PROVE  (\E q \in DOMAIN kids : c \in kids2[q]) /\ height[c] < height[top]
  <2>1. CASE c = r
    BY <2>1, <1>7
  <2>2. CASE c # r
    <3>1. (\E q \in DOMAIN kids : c \in kids[q]) /\ height[c] < height[top]
      BY <2>2, Zenon DEF Forest
    <3> QED
      BY <3>1, <1>3
  <2> QED
    BY <2>1, <2>2
<1>9. \A q \in T \ {r} : height[q] <= height[top]
  BY DEF Forest
<1> QED
  BY <1>0, <1>4, <1>6, <1>8, <1>9 DEF Forest

\* A new page is put over the two top ones.
Crowning(kids, height, T, top, r, f, kids2, height2) ==
    /\ Forest(kids, height, T, top)
    /\ r \in T /\ r # top /\ T \subseteq {top, r}
    /\ height[r] = height[top]
    /\ f \notin DOMAIN kids
    /\ DOMAIN kids2 = DOMAIN kids \cup {f}
    /\ kids2[f] = T /\ \A p \in DOMAIN kids : kids2[p] = kids[p]
    /\ height2 \in [DOMAIN kids2 -> Nat]
    /\ height2[f] = height[top] + 1 /\ \A p \in DOMAIN kids : height2[p] = height[p]

LEMMA Crowned ==
    ASSUME NEW kids, NEW height, NEW T, NEW top, NEW r, NEW f, NEW kids2, NEW height2,
           Crowning(kids, height, T, top, r, f, kids2, height2)
    PROVE  Forest(kids2, height2, {f}, f)
<1>10. /\ Forest(kids, height, T, top)
       /\ r \in T /\ r # top /\ T \subseteq {top, r}
       /\ height[r] = height[top]
       /\ f \notin DOMAIN kids
       /\ DOMAIN kids2 = DOMAIN kids \cup {f}
       /\ kids2[f] = T /\ \A p \in DOMAIN kids : kids2[p] = kids[p]
       /\ height2 \in [DOMAIN kids2 -> Nat]
       /\ height2[f] = height[top] + 1 /\ \A p \in DOMAIN kids : height2[p] = height[p]
  BY DEF Crowning
<1> USE <1>10
<1>9. T = {top, r}
  BY DEF Forest
<1>0. /\ height \in [DOMAIN kids -> Nat] /\ {top, r} \subseteq DOMAIN kids
      /\ height2[top] = height[top] /\ height2[r] = height[top]
  BY <1>9 DEF Forest
<1>1. \A q \in DOMAIN kids : \A c \in kids[q] : c \in DOMAIN kids \ {top, r} /\ height[c] + 1 = height[q]
  BY <1>9 DEF Forest
<1>2. \A p \in DOMAIN kids2 : p = f \/ p \in DOMAIN kids
  OBVIOUS
<1>3. \A p \in DOMAIN kids2 : \A c \in kids2[p] : c \in DOMAIN kids2 \ {f} /\ height2[c] + 1 = height2[p]
  <2> SUFFICES ASSUME NEW p \in DOMAIN kids2, NEW c \in kids2[p]
               PROVE  c \in DOMAIN kids2 \ {f} /\ height2[c] + 1 = height2[p]
    OBVIOUS
  <2>1. CASE p = f
    BY <2>1, <1>0, <1>9
  <2>2. CASE p \in DOMAIN kids
    <3>1. c \in DOMAIN kids /\ height[c] + 1 = height[p]
      BY <2>2, <1>1
    <3> QED
      BY <2>2, <3>1
  <2> QED
    BY <2>1, <2>2, <1>2
<1>4. \A p, q \in DOMAIN kids2 : p # q => kids2[p] \cap kids2[q] = {}
  <2>1. \A p, q \in DOMAIN kids : p # q => kids[p] \cap kids[q] = {}
    BY Zenon DEF Forest
  <2>2. \A p \in DOMAIN kids : kids2[p] \cap kids2[f] = {}
    BY <1>1, <1>9
  <2> QED
    BY <2>1, <2>2, <1>2
<1>5. ASSUME NEW c \in DOMAIN kids2 \ {f}
      PROVE  (\E p \in DOMAIN kids2 : c \in kids2[p]) /\ height2[c] < height2[f]
  <2>1. CASE c \in {top, r}
    <3>1. c \in kids2[f] /\ f \in DOMAIN kids2
      BY <2>1, <1>9
    <3>2. height2[c] = height[top] /\ height[top] \in Nat
      BY <2>1, <1>0
    <3> QED
      BY <3>1, <3>2
  <2>2. CASE c \notin {top, r}
    <3>1. (\E q \in DOMAIN kids : c \in kids[q]) /\ height[c] < height[top]
      BY <2>2, <1>9, Zenon DEF Forest
    <3>2. \E p \in DOMAIN kids2 : c \in kids2[p]
      BY <3>1
    <3>3. height2[c] = height[c] /\ height[c] \in Nat /\ height[top] \in Nat
      BY <2>2, <1>0
    <3> QED
      BY <3>1, <3>2, <3>3
  <2> QED
    BY <2>1, <2>2
<1> QED
  BY <1>3, <1>4, <1>5 DEF Forest

\* A page without children is taken from its parent.
LEMMA Pruned ==
    ASSUME NEW kids, NEW height, NEW T, NEW top, Forest(kids, height, T, top),
           NEW p \in DOMAIN kids, NEW r \in DOMAIN kids, kids[r] = {}, r \in kids[p],
           NEW kids2, DOMAIN kids2 = DOMAIN kids \ {r},
           \A q \in DOMAIN kids \ {p, r} : kids2[q] = kids[q],
           kids2[p] = kids[p] \ {r},
           NEW height2 \in [DOMAIN kids2 -> Nat], \A q \in DOMAIN kids2 : height2[q] = height[q]
    PROVE  Forest(kids2, height2, T, top)
<1>0. height \in [DOMAIN kids -> Nat] /\ top \in T /\ T \subseteq DOMAIN kids
  BY DEF Forest
<1>1. \A q \in DOMAIN kids : \A c \in kids[q] : c \in DOMAIN kids \ T /\ height[c] + 1 = height[q]
  BY DEF Forest
<1>2. \A q, s \in DOMAIN kids : \A c : q # s /\ c \in kids[q] => c \notin kids[s]
  BY Zenon DEF Forest
<1>3. r \notin T /\ p # r
  BY <1>1
<1>4. \A q \in DOMAIN kids2 : q \in DOMAIN kids /\ kids2[q] = kids[q] \ {r}
  <2> SUFFICES ASSUME NEW q \in DOMAIN kids2 PROVE q \in DOMAIN kids /\ kids2[q] = kids[q] \ {r}
    OBVIOUS
  <2>1. CASE q = p
    BY <2>1
  <2>2. CASE q # p
    <3>1. r \notin kids[q] /\ kids2[q] = kids[q]
      BY <2>2, <1>2
    <3> QED
      BY <3>1
  <2> QED
    BY <2>1, <2>2
<1>5. \A q \in DOMAIN kids2 : \A c \in kids2[q] : c \in DOMAIN kids2 \ T /\ height2[c] + 1 = height2[q]
  <2> SUFFICES ASSUME NEW q \in DOMAIN kids2, NEW c \in kids2[q]
               PROVE  c \in DOMAIN kids2 \ T /\ height2[c] + 1 = height2[q]
    OBVIOUS
  <2>1. c \in kids[q] /\ c # r
    BY <1>4
  <2>2. c \in DOMAIN kids \ T /\ height[c] + 1 = height[q]
    BY <2>1, <1>1, <1>4
  <2> QED
    BY <2>1, <2>2
<1>6. \A q, s \in DOMAIN kids2 : q # s => kids2[q] \cap kids2[s] = {}
  BY <1>2, <1>4
<1>7. ASSUME NEW c \in DOMAIN kids2 \ T
      PROVE  (\E q \in DOMAIN kids2 : c \in kids2[q]) /\ height2[c] < height2[top]
  <2>1. (\E q \in DOMAIN kids : c \in kids[q]) /\ height[c] < height[top]
    BY Zenon DEF Forest
  <2>2. PICK q \in DOMAIN kids : c \in kids[q]
    BY <2>1
  <2>3. q # r /\ c # r
    BY <2>2
  <2>4. q \in DOMAIN kids2 /\ c \in kids2[q]
    BY <2>2, <2>3, <1>4
  <2>5. top \in DOMAIN kids2
    BY <1>0, <1>3
  <2> QED
    BY <2>1, <2>4, <2>5
<1>8. \A q \in T : height2[q] <= height2[top]
  <2>1. \A q \in T : q \in DOMAIN kids2 /\ height[q] <= height[top]
    BY <1>0, <1>3 DEF Forest
  <2> QED
    BY <2>1, <1>0
<1>9. T \subseteq DOMAIN kids2
  BY <1>0, <1>3
<1> QED
  BY <1>0, <1>5, <1>6, <1>7, <1>8, <1>9 DEF Forest

\* A top page with one child gives way to it.
LEMMA Uncrowned ==
    ASSUME NEW kids, NEW height, NEW top, Forest(kids, height, {top}, top),
           NEW c, kids[top] = {c},
           NEW kids2, DOMAIN kids2 = DOMAIN kids \ {top},
           \A q \in DOMAIN kids2 : kids2[q] = kids[q],
           NEW height2 \in [DOMAIN kids2 -> Nat], \A q \in DOMAIN kids2 : height2[q] = height[q]
    PROVE  Forest(kids2, height2, {c}, c)
<1>0. height \in [DOMAIN kids -> Nat] /\ top \in DOMAIN kids
  BY DEF Forest
<1>1. \A q \in DOMAIN kids : \A d \in kids[q] : d \in DOMAIN kids \ {top} /\ height[d] + 1 = height[q]
  BY DEF Forest
<1>2. \A q, s \in DOMAIN kids : \A d : q # s /\ d \in kids[q] => d \notin kids[s]
  BY Zenon DEF Forest
<1>3. c \in DOMAIN kids2 /\ height[c] + 1 = height[top] /\ height2[c] = height[c]
  BY <1>0, <1>1
<1>4. \A q \in DOMAIN kids2 : \A d \in kids2[q] : d \in DOMAIN kids2 \ {c} /\ height2[d] + 1 = height2[q]
  <2> SUFFICES ASSUME NEW q \in DOMAIN kids2, NEW d \in kids2[q]
               PROVE  d \in DOMAIN kids2 \ {c} /\ height2[d] + 1 = height2[q]
    OBVIOUS
  <2>1. q \in DOMAIN kids /\ q # top /\ d \in kids[q]
    OBVIOUS
  <2>2. d \in DOMAIN kids \ {top} /\ height[d] + 1 = height[q] /\ d \notin kids[top]
    BY <2>1, <1>0, <1>1, <1>2
  <2> QED
    BY <2>2
<1>5. \A q, s \in DOMAIN kids2 : q # s => kids2[q] \cap kids2[s] = {}
  BY <1>2
<1>6. ASSUME NEW d \in DOMAIN kids2 \ {c}
      PROVE  (\E q \in DOMAIN kids2 : d \in kids2[q]) /\ height2[d] < height2[c]
  <2>1. (\E q \in DOMAIN kids : d \in kids[q]) /\ height[d] < height[top]
    BY Zenon DEF Forest
  <2>2. PICK q \in DOMAIN kids : d \in kids[q]
    BY <2>1
  <2>3. q # top
    BY <2>2
  <2>4. height[q] < height[top]
    BY <2>3, Zenon DEF Forest
  <2>5. height[d] + 1 = height[q] /\ height[d] \in Nat /\ height[q] \in Nat
    BY <2>2, <1>0, <1>1
  <2>6. height[d] < height[c]
    BY <2>4, <2>5, <1>3, <1>0
  <2> QED
    BY <2>2, <2>3, <2>6, <1>3
<1>7. \A q \in {c} : height2[q] <= height2[c]
  BY <1>3
<1> QED
  BY <1>3, <1>4, <1>5, <1>6, <1>7 DEF Forest
\* A page splits: a top page below it and its own children are shared with a new
\* page, which is a top one.
Dividing(kids, height, top, p, r, f, kids2, height2) ==
    /\ Forest(kids, height, {top} \cup {r}, top)
    /\ p \in DOMAIN kids /\ r # top /\ height[r] + 1 = height[p]
    /\ f \notin DOMAIN kids
    /\ DOMAIN kids2 = DOMAIN kids \cup {f}
    /\ \A q \in DOMAIN kids \ {p} : kids2[q] = kids[q]
    /\ kids2[p] \cup kids2[f] = kids[p] \cup {r} /\ kids2[p] \cap kids2[f] = {}
    /\ height2 \in [DOMAIN kids2 -> Nat]
    /\ height2[f] = height[p] /\ \A q \in DOMAIN kids : height2[q] = height[q]

LEMMA Divided ==
    ASSUME NEW kids, NEW height, NEW top, NEW p, NEW r, NEW f, NEW kids2, NEW height2,
           Dividing(kids, height, top, p, r, f, kids2, height2)
    PROVE  Forest(kids2, height2, {top} \cup {f}, top)
<1> DEFINE T == {top} \cup {r}
<1>0. /\ Forest(kids, height, T, top) /\ r \in T
      /\ p \in DOMAIN kids /\ r # top /\ height[r] + 1 = height[p]
      /\ f \notin DOMAIN kids
      /\ DOMAIN kids2 = DOMAIN kids \cup {f}
      /\ \A q \in DOMAIN kids \ {p} : kids2[q] = kids[q]
      /\ kids2[p] \cup kids2[f] = kids[p] \cup {r} /\ kids2[p] \cap kids2[f] = {}
      /\ height2 \in [DOMAIN kids2 -> Nat]
      /\ height2[f] = height[p] /\ \A q \in DOMAIN kids : height2[q] = height[q]
  BY DEF Dividing
<1>10. T \ {r} = {top}
  BY <1>0
<1> HIDE DEF T
<1> USE <1>0
<1> DEFINE U == T \ {r}
           kids1 == [q \in DOMAIN kids |-> IF q = p THEN kids[p] \cup {r} ELSE kids[q]]
           kids3 == [q \in DOMAIN kids \cup {f} |-> IF q = f THEN {} ELSE kids1[q]]
<1>1. /\ DOMAIN kids1 = DOMAIN kids /\ kids1[p] = kids[p] \cup {r}
      /\ \A q \in DOMAIN kids \ {p} : kids1[q] = kids[q]
  OBVIOUS
<1>2. /\ DOMAIN kids3 = DOMAIN kids \cup {f} /\ kids3[f] = {}
      /\ \A q \in DOMAIN kids : kids3[q] = kids1[q]
  OBVIOUS
<1> HIDE DEF kids1, kids3, U
<1>3. Forest(kids1, height, U, top)
  BY <1>1, Adopted DEF U
<1>4. height[p] \in Nat /\ height[p] <= height[top]
  <2>1. /\ height \in [DOMAIN kids -> Nat] /\ T \subseteq DOMAIN kids /\ top \in T
        /\ \A q \in T : height[q] <= height[top]
    BY DEF Forest
  <2>2. p \in T \/ p \in DOMAIN kids \ T
    OBVIOUS
  <2>3. \A c \in DOMAIN kids \ T : height[c] < height[top]
    BY Zenon DEF Forest
  <2> QED
    BY <2>1, <2>2, <2>3
<1>5. Forest(kids3, height2, U \cup {f}, top)
  <2>1. /\ DOMAIN kids3 = DOMAIN kids1 \cup {f} /\ f \notin DOMAIN kids1
        /\ \A q \in DOMAIN kids1 : kids3[q] = kids1[q] /\ height2[q] = height[q]
        /\ height2 \in [DOMAIN kids3 -> Nat]
    BY <1>1, <1>2
  <2>2. PICK level \in Nat : level = height[p]
    BY <1>4
  <2>3. level <= height[top] /\ height2[f] = level
    BY <1>4, <2>2
  <2>4. \A q \in DOMAIN kids1 : kids3[q] = kids1[q]
    BY <2>1
  <2>5. \A q \in DOMAIN kids1 : height2[q] = height[q]
    BY <2>1
  <2>6. PICK k \in [DOMAIN kids3 -> Nat] : k = height2
    BY <2>1
  <2>7. k[f] = level /\ \A q \in DOMAIN kids1 : k[q] = height[q]
    BY <2>3, <2>5, <2>6
  <2>8. Forest(kids3, k, U \cup {f}, top)
    BY <1>2, <1>3, <2>1, <2>3, <2>4, <2>7, Planted
  <2> QED
    BY <2>6, <2>8
<1> DEFINE V == U \cup {f}
<1> HIDE DEF V
<1>6. Forest(kids3, height2, V, top)
  BY <1>5 DEF V
<1>7. /\ p \in DOMAIN kids3 /\ f \in DOMAIN kids3 /\ p # f /\ height2[p] = height2[f]
      /\ DOMAIN kids2 = DOMAIN kids3
      /\ \A q \in DOMAIN kids3 \ {p, f} : kids2[q] = kids3[q]
  BY <1>1, <1>2
<1>8. kids2[p] \cup kids2[f] = kids3[p] \cup kids3[f]
  BY <1>1, <1>2
<1>9. Forest(kids2, height2, V, top)
  BY <1>6, <1>7, <1>8, Moved
<1> QED
  BY <1>9, <1>10 DEF V, U
\* Two sibling pages are merged: one takes the children of both, the other is
\* taken from their parent.
Merging(kids, height, T, top, p, l, r, kids2, height2) ==
    /\ Forest(kids, height, T, top)
    /\ {p, l, r} \subseteq DOMAIN kids /\ p # l /\ p # r /\ l # r
    /\ r \in kids[p] /\ height[l] = height[r]
    /\ DOMAIN kids2 = DOMAIN kids \ {r}
    /\ \A q \in DOMAIN kids \ {p, l, r} : kids2[q] = kids[q]
    /\ kids2[l] = kids[l] \cup kids[r] /\ kids2[p] = kids[p] \ {r}
    /\ height2 \in [DOMAIN kids2 -> Nat]
    /\ \A q \in DOMAIN kids2 : height2[q] = height[q]

LEMMA Merged ==
    ASSUME NEW kids, NEW height, NEW T, NEW top, NEW p, NEW l, NEW r, NEW kids2, NEW height2,
           Merging(kids, height, T, top, p, l, r, kids2, height2)
    PROVE  Forest(kids2, height2, T, top)
<1>1. /\ Forest(kids, height, T, top)
      /\ p \in DOMAIN kids /\ l \in DOMAIN kids /\ r \in DOMAIN kids /\ p # l /\ p # r /\ l # r
      /\ r \in kids[p] /\ height[l] = height[r]
      /\ DOMAIN kids2 = DOMAIN kids \ {r}
      /\ \A q \in DOMAIN kids \ {p, l, r} : kids2[q] = kids[q]
      /\ kids2[l] = kids[l] \cup kids[r] /\ kids2[p] = kids[p] \ {r}
      /\ height2 \in [DOMAIN kids2 -> Nat]
      /\ \A q \in DOMAIN kids2 : height2[q] = height[q]
  BY DEF Merging
<1> DEFINE kids1 == [q \in DOMAIN kids |-> IF q = l THEN kids[l] \cup kids[r] ELSE IF q = r THEN {} ELSE kids[q]]
<1>2. /\ DOMAIN kids1 = DOMAIN kids /\ kids1[l] = kids[l] \cup kids[r] /\ kids1[r] = {}
      /\ \A q \in DOMAIN kids \ {l, r} : kids1[q] = kids[q]
  BY <1>1
<1> HIDE DEF kids1
<1>3. kids1[l] \cup kids1[r] = kids[l] \cup kids[r] /\ kids1[l] \cap kids1[r] = {}
  BY <1>2
<1>4. Forest(kids1, height, T, top)
  BY <1>1, <1>2, <1>3, Moved
<1>5. PICK k \in [DOMAIN kids2 -> Nat] : k = height2
  BY <1>1
<1>6. /\ DOMAIN kids2 = DOMAIN kids1 \ {r} /\ p \in DOMAIN kids1 /\ r \in DOMAIN kids1
      /\ kids1[p] = kids[p]
  BY <1>1, <1>2
<1>7. \A q \in DOMAIN kids1 \ {p, r} : kids2[q] = kids1[q]
  BY <1>1, <1>2
<1>8. kids2[p] = kids1[p] \ {r} /\ r \in kids1[p] /\ \A q \in DOMAIN kids2 : k[q] = height[q]
  BY <1>1, <1>5, <1>6
<1>9. Forest(kids2, k, T, top)
  BY <1>2, <1>4, <1>6, <1>7, <1>8, Pruned
<1> QED
  BY <1>5, <1>9
-----------------------------------------------------------------------------
(* Nodes.                                                                  *)

LEMMA Minima ==
    /\ LeafMin \in Nat /\ LeafMin >= 1 /\ LeafMin + LeafMin <= LeafMax /\ LeafMax <= LeafMin + LeafMin + 1
    /\ InternalMin \in Nat /\ InternalMin >= 1 /\ InternalMax = InternalMin + InternalMin + 1
    /\ LeafMax \in Nat /\ InternalMax \in Nat /\ MaxKey \in Nat /\ MaxPage \in Nat
  BY DEF LeafMin, InternalMin

LEMMA KeysAre == Keys \subseteq Nat
  BY Minima DEF Keys

LEMMA NoPageIs == NoPage \notin Pages
  BY DEF NoPage, Pages

LEMMA LeafIs ==
    ASSUME NEW n \in Leaf
    PROVE  /\ n.kind = "leaf"
           /\ n.entries \in Seq(Entry) /\ n.next \in Pages \cup {NoPage}
           /\ Size(n) = Len(n.entries) /\ Size(n) \in Nat
           /\ MinSize(n) = LeafMin /\ MaxSize(n) = LeafMax
           /\ Kids(n) = <<>> /\ ToSet(Kids(n)) = {} /\ NoRepeat(Kids(n))
           /\ Fits(n) <=> Len(n.entries) <= LeafMax
<1>1. n.kind = "leaf" /\ n.entries \in Seq(Entry) /\ n.next \in Pages \cup {NoPage}
  BY DEF Leaf
<1>2. Len(n.entries) \in Nat
  BY <1>1, SeqIs
<1>3. Kids(n) = <<>>
  BY <1>1 DEF Kids
<1>4. DOMAIN <<>> = {}
  OBVIOUS
<1> QED
  BY <1>1, <1>2, <1>3, <1>4 DEF Size, MinSize, MaxSize, Fits, ToSet, NoRepeat

LEMMA InternalIs ==
    ASSUME NEW n \in Internal
    PROVE  /\ n.kind = "internal"
           /\ n.keys \in Seq(Keys) /\ n.children \in Seq(Pages)
           /\ Size(n) = Len(n.keys) /\ Size(n) \in Nat
           /\ MinSize(n) = InternalMin /\ MaxSize(n) = InternalMax
           /\ Kids(n) = n.children
           /\ Fits(n) <=> Len(n.keys) <= InternalMax /\ Len(n.children) = Len(n.keys) + 1
<1>1. n.kind = "internal" /\ n.keys \in Seq(Keys) /\ n.children \in Seq(Pages)
  BY DEF Internal, Keys
<1>2. Len(n.keys) \in Nat
  BY <1>1, SeqIs
<1> QED
  BY <1>1, <1>2 DEF Size, MinSize, MaxSize, Fits, Kids

LEMMA NodeIs ==
    ASSUME NEW n \in Leaf \cup Internal
    PROVE  /\ n.kind = "leaf" <=> n \in Leaf
           /\ n.kind = "internal" <=> n \in Internal
           /\ n.kind = "leaf" <=> ~(n.kind = "internal")
  BY LeafIs, InternalIs

LEMMA NaturalKeys == ASSUME NEW ks \in Seq(Keys) PROVE ks \in Seq(Nat)
  BY KeysAre, SeqMonotonic

\* Where a key belongs in a leaf, or under an internal node.
LEMMA KeysOfIs ==
    ASSUME NEW es \in Seq(Entry)
    PROVE  KeysOf(es) \in Seq(Nat) /\ Len(KeysOf(es)) = Len(es)
<1>1. Len(es) \in Nat /\ DOMAIN es = 1..Len(es) /\ \A i \in 1..Len(es) : es[i] \in Entry
  BY SeqIs
<1>2. KeysOf(es) = [i \in 1..Len(es) |-> es[i].key]
  BY <1>1 DEF KeysOf
<1>3. \A i \in 1..Len(es) : es[i].key \in Nat
  BY <1>1, Minima DEF Entry
<1> QED
  BY <1>1, <1>2, <1>3

LEMMA PositionIn ==
    ASSUME NEW es \in Seq(Entry), NEW k \in Keys
    PROVE  /\ Position(es, k) \in 1..Len(es)+1
           /\ LowerBound(KeysOf(es), k) \in 1..Len(es)+1
<1>1. k \in Nat
  BY KeysAre
<1> QED
  BY <1>1, KeysOfIs, BoundsIn DEF Position

LEMMA InsertedIs ==
    ASSUME NEW es \in Seq(Entry), NEW e \in Entry
    PROVE  Inserted(es, e) \in Seq(Entry) /\ Len(Inserted(es, e)) = Len(es) + 1
<1>1. e.key \in Keys
  BY DEF Entry, Keys
<1>2. Position(es, e.key) \in 1..Len(es)+1
  BY <1>1, PositionIn
<1> QED
  BY <1>2, InsertAtIs DEF Inserted

LEMMA ChildIndexIn ==
    ASSUME NEW n \in Internal, Fits(n), NEW k \in Keys
    PROVE  /\ ChildIndexFor(n, k) \in 1..Len(n.keys)+1
           /\ ChildIndexFor(n, k) \in DOMAIN n.children
<1>1. k \in Nat /\ n.keys \in Seq(Nat) /\ n.children \in Seq(Pages) /\ Len(n.children) = Len(n.keys) + 1
  BY InternalIs, NaturalKeys, KeysAre
<1>2. ChildIndexFor(n, k) \in 1..Len(n.keys)+1
  BY <1>1, BoundsIn DEF ChildIndexFor
<1>3. DOMAIN n.children = 1..Len(n.keys)+1
  BY <1>1, SeqIs
<1> QED
  BY <1>2, <1>3

\* A page split off is put right of child ci.
Enlarged(m, n, r) ==
    /\ m \in Internal
    /\ Len(m.keys) = Len(n.keys) + 1 /\ Len(m.children) = Len(m.keys) + 1
    /\ NoRepeat(m.children)
    /\ ToSet(m.children) = ToSet(n.children) \cup {r}

LEMMA WithChildIs ==
    ASSUME NEW n \in Internal, Len(n.children) = Len(n.keys) + 1, NoRepeat(n.children),
           NEW ci \in 1..Len(n.keys)+1,
           NEW s, s.key \in Keys, s.right \in Pages, s.right \notin ToSet(n.children)
    PROVE  Enlarged(WithChild(n, ci, s), n, s.right)
<1> DEFINE m == WithChild(n, ci, s)
           d == ci + 1
           ks == InsertAt(n.keys, ci, s.key)
           cs == InsertAt(n.children, d, s.right)
<1>1. n.keys \in Seq(Keys) /\ n.children \in Seq(Pages) /\ n.kind = "internal"
  BY InternalIs
<1>2. ks \in Seq(Keys) /\ Len(ks) = Len(n.keys) + 1
  BY <1>1, InsertAtIs
<1>3. d \in 1..Len(n.children)+1
  BY <1>1, SeqIs
<1>4. m = [n EXCEPT !.keys = ks, !.children = cs]
  BY DEF WithChild
<1> HIDE DEF d
<1>5. cs \in Seq(Pages) /\ Len(cs) = Len(n.children) + 1
  BY <1>1, <1>3, InsertAtIs
<1>6. ToSet(cs) = ToSet(n.children) \cup {s.right} /\ NoRepeat(cs)
  BY <1>1, <1>3, InsertedKids
<1> HIDE DEF ks, cs, m
<1>7. m \in Internal /\ m.keys = ks /\ m.children = cs
  BY <1>2, <1>4, <1>5 DEF Internal, Keys
<1> QED
  BY <1>2, <1>5, <1>6, <1>7 DEF m, Enlarged

\* And one that was merged into child i is taken out.
LEMMA WithoutChildIs ==
    ASSUME NEW n \in Internal, Len(n.children) = Len(n.keys) + 1, NoRepeat(n.children),
           NEW i \in 1..Len(n.keys)
    PROVE  LET m == WithoutChild(n, i)
           IN  /\ m \in Internal
               /\ Len(m.keys) = Len(n.keys) - 1 /\ Len(m.children) = Len(m.keys) + 1
               /\ NoRepeat(m.children)
               /\ ToSet(m.children) = ToSet(n.children) \ {n.children[i+1]}
<1> DEFINE m == WithoutChild(n, i)
           d == i + 1
           ks == RemoveAt(n.keys, i)
           cs == RemoveAt(n.children, d)
<1>1. n.keys \in Seq(Keys) /\ n.children \in Seq(Pages) /\ n.kind = "internal"
  BY InternalIs
<1>2. ks \in Seq(Keys) /\ Len(ks) = Len(n.keys) - 1
  BY <1>1, RemoveAtIs
<1>3. d \in 1..Len(n.children)
  BY <1>1, SeqIs
<1>4. m = [n EXCEPT !.keys = ks, !.children = cs]
  BY DEF WithoutChild
<1> HIDE DEF d
<1>5. cs \in Seq(Pages) /\ Len(cs) = Len(n.children) - 1
  BY <1>1, <1>3, RemoveAtIs
<1>6. ToSet(cs) = ToSet(n.children) \ {n.children[d]} /\ NoRepeat(cs)
  BY <1>1, <1>3, RemovedKids
<1> HIDE DEF ks, cs, m
<1>7. m \in Internal /\ m.keys = ks /\ m.children = cs
  BY <1>2, <1>4, <1>5 DEF Internal, Keys
<1>8. Len(n.keys) \in Nat
  BY <1>1, SeqIs
<1> QED
  BY <1>2, <1>5, <1>6, <1>7, <1>8 DEF m, d

\* One end of an array goes to the other.
LEMMA FrontIs ==
    ASSUME NEW S, NEW s \in Seq(S), Len(s) >= 1
    PROVE  /\ Front(s) \in Seq(S) /\ Len(Front(s)) = Len(s) - 1 /\ Last(s) \in S
           /\ NoRepeat(s) => /\ NoRepeat(Front(s))
                             /\ Last(s) \notin ToSet(Front(s))
                             /\ ToSet(s) = ToSet(Front(s)) \cup {Last(s)}
<1> DEFINE n == Len(s)
           m == n - 1
<1>0. n \in Nat /\ n >= 1 /\ m \in 0..n /\ m + 1 = n
  BY SeqIs
<1>1. Front(s) = SubSeq(s, 1, m)
  BY DEF Front
<1>2. SubSeq(s, 1, m) \in Seq(S) /\ Len(SubSeq(s, 1, m)) = m
  <2>1. 1 \in 1..n+1 /\ m \in 1-1..n /\ m - 1 + 1 = m
    BY <1>0
  <2> QED
    BY <2>1, SubSeqIs
<1>3. Last(s) = s[n] /\ s[n] \in S
  BY <1>0, SeqIs DEF Last
<1>4. ToSet(SubSeq(s, n, n)) = {s[n]}
  <2>1. n \in 1..n+1 /\ n \in n-1..n /\ n - n + 1 = 1 /\ n + 1 - 1 = n
    BY <1>0
  <2> HIDE DEF n
  <2>2. /\ SubSeq(s, n, n) \in Seq(S) /\ Len(SubSeq(s, n, n)) = n - n + 1
        /\ \A j \in 1..n-n+1 : SubSeq(s, n, n)[j] = s[n+j-1]
    BY <2>1, SubSeqIs DEF n
  <2>3. DOMAIN SubSeq(s, n, n) = {1} /\ SubSeq(s, n, n)[1] = s[n]
    BY <2>1, <2>2, SeqIs
  <2> QED
    BY <2>3 DEF ToSet
<1>5. ASSUME NoRepeat(s)
      PROVE  /\ ToSet(SubSeq(s, 1, m)) \cup ToSet(SubSeq(s, m + 1, n)) = ToSet(s)
             /\ ToSet(SubSeq(s, 1, m)) \cap ToSet(SubSeq(s, m + 1, n)) = {}
             /\ NoRepeat(SubSeq(s, 1, m))
  <2> HIDE DEF m
  <2> QED
    BY <1>0, <1>5, HalvedKids DEF n
<1>6. SubSeq(s, m + 1, n) = SubSeq(s, n, n)
  BY <1>0
<1> HIDE DEF n, m
<1>7. Len(Front(s)) = n - 1
  BY <1>1, <1>2 DEF m
<1>8. ASSUME NoRepeat(s)
      PROVE  /\ NoRepeat(Front(s)) /\ Last(s) \notin ToSet(Front(s))
             /\ ToSet(s) = ToSet(Front(s)) \cup {Last(s)}
  BY <1>1, <1>3, <1>4, <1>5, <1>6, <1>8
<1> QED
  BY <1>1, <1>2, <1>3, <1>7, <1>8 DEF n

LEMMA TailIs ==
    ASSUME NEW S, NEW s \in Seq(S), Len(s) >= 1
    PROVE  /\ Tail(s) \in Seq(S) /\ Len(Tail(s)) = Len(s) - 1 /\ Head(s) \in S
           /\ NoRepeat(s) => /\ NoRepeat(Tail(s))
                             /\ Head(s) \notin ToSet(Tail(s))
                             /\ ToSet(s) = ToSet(Tail(s)) \cup {Head(s)}
<1> DEFINE n == Len(s)
<1>0. n \in Nat /\ n >= 1 /\ 1 \in 0..n /\ s # <<>>
  BY SeqIs
<1>1. Tail(s) = SubSeq(s, 2, n)
  BY <1>0, TailIsSubSeq
<1>2. Head(s) \in S /\ Tail(s) \in Seq(S) /\ Len(Tail(s)) = n - 1 /\ Head(s) = s[1]
  BY <1>0, HeadTailProperties
<1>4. ToSet(SubSeq(s, 1, 1)) = {s[1]}
  <2>1. 1 \in 1..n+1 /\ 1 \in 1-1..n /\ 1 - 1 + 1 = 1
    BY <1>0
  <2>2. /\ SubSeq(s, 1, 1) \in Seq(S) /\ Len(SubSeq(s, 1, 1)) = 1
        /\ \A j \in 1..1 : SubSeq(s, 1, 1)[j] = s[j]
    BY <2>1, SubSeqIs
  <2>3. DOMAIN SubSeq(s, 1, 1) = {1} /\ SubSeq(s, 1, 1)[1] = s[1]
    BY <2>2, SeqIs
  <2> QED
    BY <2>3 DEF ToSet
<1>5. ASSUME NoRepeat(s)
      PROVE  /\ ToSet(SubSeq(s, 1, 1)) \cup ToSet(SubSeq(s, 1 + 1, n)) = ToSet(s)
             /\ ToSet(SubSeq(s, 1, 1)) \cap ToSet(SubSeq(s, 1 + 1, n)) = {}
             /\ NoRepeat(SubSeq(s, 1 + 1, n))
  BY <1>0, <1>5, HalvedKids
<1>6. SubSeq(s, 1 + 1, n) = Tail(s)
  BY <1>1
<1> HIDE DEF n
<1>8. ASSUME NoRepeat(s)
      PROVE  /\ NoRepeat(Tail(s)) /\ Head(s) \notin ToSet(Tail(s))
             /\ ToSet(s) = ToSet(Tail(s)) \cup {Head(s)}
  BY <1>2, <1>4, <1>5, <1>6, <1>8
<1> QED
  BY <1>2, <1>8 DEF n

\* The arrays a node is given, named: the provers take them as they are.
Before(e, s)      == <<e>> \o s
After(s, e)       == Append(s, e)
Between(s, e, t)  == s \o <<e>> \o t
Both(s, t)        == s \o t
Filled(n, es)     == [n EXCEPT !.entries = es]
Linked(n, ks, cs) == [n EXCEPT !.keys = ks, !.children = cs]

\* The pages of two arrays of children, before and after: the same, each once.
Gains(t, s, e)       == ToSet(t) = ToSet(s) \cup {e}
Apart(s, t)          == ToSet(s) \cap ToSet(t) = {}
Shared(a, b, s, t)   == ToSet(a) \cup ToSet(b) = ToSet(s) \cup ToSet(t)
Gathered(u, s, t)    == ToSet(u) = ToSet(s) \cup ToSet(t)

LEMMA OneKid ==
    ASSUME NEW S, NEW e \in S, NEW o, o = <<e>>
    PROVE  /\ o \in Seq(S) /\ Len(o) = 1 /\ ToSet(o) = {e} /\ NoRepeat(o)
<1>1. o \in Seq(S) /\ Len(o) = 1 /\ o[1] = e
  BY OneIs
<1>2. DOMAIN o = {1}
  BY <1>1, SeqIs
<1> QED
  BY <1>1, <1>2 DEF ToSet, NoRepeat

LEMMA BeforeIs ==
    ASSUME NEW S, NEW s \in Seq(S), NEW e \in S
    PROVE  /\ Before(e, s) \in Seq(S) /\ Len(Before(e, s)) = Len(s) + 1
           /\ Gains(Before(e, s), s, e)
           /\ NoRepeat(s) /\ e \notin ToSet(s) => NoRepeat(Before(e, s))
<1> DEFINE o == <<e>>
           t == o \o s
<1>1. o \in Seq(S) /\ Len(o) = 1 /\ ToSet(o) = {e} /\ NoRepeat(o)
  BY OneKid
<1> HIDE DEF o
<1>2. t \in Seq(S) /\ Len(t) = Len(o) + Len(s)
  BY <1>1, ConcatIs
<1>3. /\ ToSet(t) = ToSet(o) \cup ToSet(s)
      /\ NoRepeat(o) /\ NoRepeat(s) /\ ToSet(o) \cap ToSet(s) = {} => NoRepeat(t)
  BY <1>1, JoinedKids
<1>4. Before(e, s) = t
  BY DEF Before, o
<1> HIDE DEF t
<1>5. Len(t) = Len(s) + 1
  BY <1>1, <1>2, SeqIs
<1>6. ToSet(t) = ToSet(s) \cup {e}
  BY <1>1, <1>3
<1>7. NoRepeat(s) /\ e \notin ToSet(s) => NoRepeat(t)
  BY <1>1, <1>3
<1> QED
  BY <1>2, <1>4, <1>5, <1>6, <1>7 DEF Gains

LEMMA AfterIs ==
    ASSUME NEW S, NEW s \in Seq(S), NEW e \in S
    PROVE  /\ After(s, e) \in Seq(S) /\ Len(After(s, e)) = Len(s) + 1
           /\ Gains(After(s, e), s, e)
           /\ NoRepeat(s) /\ e \notin ToSet(s) => NoRepeat(After(s, e))
<1> DEFINE o == <<e>>
           t == s \o o
<1>1. o \in Seq(S) /\ Len(o) = 1 /\ ToSet(o) = {e} /\ NoRepeat(o)
  BY OneKid
<1>4. After(s, e) = t
  BY AppendIsConcat DEF After
<1> HIDE DEF o
<1>2. t \in Seq(S) /\ Len(t) = Len(s) + Len(o)
  BY <1>1, ConcatIs
<1>3. /\ ToSet(t) = ToSet(s) \cup ToSet(o)
      /\ NoRepeat(s) /\ NoRepeat(o) /\ ToSet(s) \cap ToSet(o) = {} => NoRepeat(t)
  BY <1>1, JoinedKids
<1> HIDE DEF t
<1>5. Len(t) = Len(s) + 1
  BY <1>1, <1>2, SeqIs
<1>6. ToSet(t) = ToSet(s) \cup {e}
  BY <1>1, <1>3
<1>7. NoRepeat(s) /\ e \notin ToSet(s) => NoRepeat(t)
  BY <1>1, <1>3
<1> QED
  BY <1>2, <1>4, <1>5, <1>6, <1>7 DEF Gains

LEMMA LastToFront ==
    ASSUME NEW S, NEW s \in Seq(S), NEW t \in Seq(S), Len(s) >= 1,
           NoRepeat(s), NoRepeat(t), Apart(s, t)
    PROVE  LET a == Front(s)
               b == Before(Last(s), t)
           IN  /\ a \in Seq(S) /\ Len(a) = Len(s) - 1 /\ NoRepeat(a)
               /\ b \in Seq(S) /\ Len(b) = Len(t) + 1 /\ NoRepeat(b)
               /\ Shared(a, b, s, t) /\ Apart(a, b)
<1> DEFINE a == Front(s)
           e == Last(s)
           b == Before(e, t)
<1>2. /\ a \in Seq(S) /\ Len(a) = Len(s) - 1 /\ e \in S
      /\ NoRepeat(a) /\ e \notin ToSet(a) /\ ToSet(s) = ToSet(a) \cup {e}
  BY FrontIs
<1> HIDE DEF e, a
<1>3. e \notin ToSet(t)
  BY <1>2 DEF Apart
<1>4. b \in Seq(S) /\ Len(b) = Len(t) + 1 /\ Gains(b, t, e) /\ NoRepeat(b)
  BY <1>2, <1>3, BeforeIs
<1> HIDE DEF b
<1>5. Shared(a, b, s, t) /\ Apart(a, b)
  BY <1>2, <1>3, <1>4 DEF Gains, Shared, Apart
<1> QED
  BY <1>2, <1>4, <1>5 DEF a, b, e

LEMMA FirstToEnd ==
    ASSUME NEW S, NEW s \in Seq(S), NEW t \in Seq(S), Len(t) >= 1,
           NoRepeat(s), NoRepeat(t), Apart(s, t)
    PROVE  LET a == After(s, Head(t))
               b == Tail(t)
           IN  /\ a \in Seq(S) /\ Len(a) = Len(s) + 1 /\ NoRepeat(a)
               /\ b \in Seq(S) /\ Len(b) = Len(t) - 1 /\ NoRepeat(b)
               /\ Shared(a, b, s, t) /\ Apart(a, b)
<1> DEFINE b == Tail(t)
           e == Head(t)
           a == After(s, e)
<1>2. /\ b \in Seq(S) /\ Len(b) = Len(t) - 1 /\ e \in S
      /\ NoRepeat(b) /\ e \notin ToSet(b) /\ ToSet(t) = ToSet(b) \cup {e}
  BY TailIs
<1> HIDE DEF e, b
<1>3. e \notin ToSet(s)
  BY <1>2 DEF Apart
<1>4. a \in Seq(S) /\ Len(a) = Len(s) + 1 /\ Gains(a, s, e) /\ NoRepeat(a)
  BY <1>2, <1>3, AfterIs
<1> HIDE DEF a
<1>5. Shared(a, b, s, t) /\ Apart(a, b)
  BY <1>2, <1>3, <1>4 DEF Gains, Shared, Apart
<1> QED
  BY <1>2, <1>4, <1>5 DEF a, b, e

LEMMA BetweenIs ==
    ASSUME NEW S, NEW s \in Seq(S), NEW t \in Seq(S), NEW e \in S
    PROVE  Between(s, e, t) \in Seq(S) /\ Len(Between(s, e, t)) = Len(s) + Len(t) + 1
<1> DEFINE o == <<e>>
           w == s \o o
           u == w \o t
<1>1. u = Between(s, e, t)
  BY DEF Between
<1>2. o \in Seq(S) /\ Len(o) = 1
  BY OneIs
<1> HIDE DEF o
<1>4. w \in Seq(S) /\ Len(w) = Len(s) + Len(o)
  BY <1>2, ConcatIs
<1> HIDE DEF w
<1>6. u \in Seq(S) /\ Len(u) = Len(w) + Len(t)
  BY <1>4, ConcatIs
<1>7. Len(s) \in Nat /\ Len(t) \in Nat
  BY SeqIs
<1> HIDE DEF u
<1>8. Len(u) = Len(s) + Len(t) + 1
  BY <1>2, <1>4, <1>6, <1>7
<1> QED
  BY <1>1, <1>6, <1>8

LEMMA KidsJoined ==
    ASSUME NEW S, NEW s \in Seq(S), NEW t \in Seq(S), NoRepeat(s), NoRepeat(t), Apart(s, t)
    PROVE  /\ Both(s, t) \in Seq(S) /\ Len(Both(s, t)) = Len(s) + Len(t)
           /\ NoRepeat(Both(s, t)) /\ Gathered(Both(s, t), s, t)
<1>1. s \o t \in Seq(S) /\ Len(s \o t) = Len(s) + Len(t)
  BY ConcatIs
<1>2. NoRepeat(s \o t) /\ ToSet(s \o t) = ToSet(s) \cup ToSet(t)
  BY JoinedKids DEF Apart
<1> QED
  BY <1>1, <1>2 DEF Gathered, Both

\* What a rotation makes of two siblings, apart from their sizes.
Paired(n) == n.kind = "internal" => Len(n.children) = Len(n.keys) + 1

Sibling(n, m) == /\ m \in Leaf \cup Internal
                 /\ m.kind = n.kind
                 /\ Paired(m)
                 /\ NoRepeat(Kids(m))

Exchange(x, l, r) ==
    /\ Sibling(l, x.left) /\ Sibling(r, x.right)
    /\ x.sep \in Keys
    /\ ToSet(Kids(x.left)) \cup ToSet(Kids(x.right)) = ToSet(Kids(l)) \cup ToSet(Kids(r))
    /\ ToSet(Kids(x.left)) \cap ToSet(Kids(x.right)) = {}

LEMMA LeafWith ==
    ASSUME NEW n \in Leaf, NEW es \in Seq(Entry)
    PROVE  Filled(n, es) \in Leaf /\ Filled(n, es).entries = es
  BY DEF Leaf, Filled

LEMMA InternalWith ==
    ASSUME NEW n \in Internal, NEW ks \in Seq(Keys), NEW cs \in Seq(Pages)
    PROVE  Linked(n, ks, cs) \in Internal /\ Linked(n, ks, cs).keys = ks /\ Linked(n, ks, cs).children = cs
  BY DEF Internal, Keys, Linked

LEMMA RotateRightIs ==
    ASSUME NEW l \in Leaf \cup Internal, NEW r \in Leaf \cup Internal, l.kind = r.kind,
           Fits(l), Fits(r), NoRepeat(Kids(l)), NoRepeat(Kids(r)),
           ToSet(Kids(l)) \cap ToSet(Kids(r)) = {},
           NEW sep \in Keys, Size(l) >= 2
    PROVE  LET x == RotateRight(l, r, sep)
           IN  Exchange(x, l, r) /\ Size(x.left) = Size(l) - 1 /\ Size(x.right) = Size(r) + 1
<1> DEFINE x == RotateRight(l, r, sep)
<1>1. CASE r.kind = "leaf"
  <2>1. l \in Leaf /\ r \in Leaf
    BY <1>1, NodeIs
  <2> DEFINE e == Last(l.entries)
             a == Front(l.entries)
             b == Before(e, r.entries)
  <2>2. l.entries \in Seq(Entry) /\ r.entries \in Seq(Entry) /\ Size(l) = Len(l.entries) /\ Size(r) = Len(r.entries)
    BY <2>1, LeafIs
  <2>3. a \in Seq(Entry) /\ Len(a) = Len(l.entries) - 1 /\ e \in Entry
    <3>1. Len(l.entries) >= 1
      BY <2>2, SeqIs
    <3> QED
      BY <2>2, <3>1, FrontIs
  <2>4. b \in Seq(Entry) /\ Len(b) = Len(r.entries) + 1
    BY <2>2, <2>3, BeforeIs
  <2>5. x = [left |-> Filled(l, a), right |-> Filled(r, b), sep |-> e.key]
    BY <1>1 DEF RotateRight, Before, Filled
  <2> HIDE DEF a, b, e, x
  <2>6. x.left \in Leaf /\ x.left.entries = a /\ x.right \in Leaf /\ x.right.entries = b
    BY <2>1, <2>3, <2>4, <2>5, LeafWith
  <2>7. x.sep \in Keys
    BY <2>3, <2>5 DEF Entry, Keys
  <2>8. Exchange(x, l, r)
    BY <2>1, <2>6, <2>7, LeafIs DEF Exchange, Sibling, Paired
  <2>9. Size(x.left) = Len(a) /\ Size(x.right) = Len(b)
    BY <2>6, LeafIs
  <2>10. Size(x.left) = Size(l) - 1 /\ Size(x.right) = Size(r) + 1
    BY <2>2, <2>3, <2>4, <2>9
  <2> QED
    BY <2>8, <2>10 DEF x
<1>2. CASE r.kind # "leaf"
  <2>1. l \in Internal /\ r \in Internal
    BY <1>2, NodeIs
  <2> DEFINE k == Last(l.keys)
             ak == Front(l.keys)
             ac == Front(l.children)
             bk == Before(sep, r.keys)
             bc == Before(Last(l.children), r.children)
  <2>2. /\ l.keys \in Seq(Keys) /\ r.keys \in Seq(Keys)
        /\ l.children \in Seq(Pages) /\ r.children \in Seq(Pages)
        /\ Size(l) = Len(l.keys) /\ Size(r) = Len(r.keys)
        /\ Len(l.children) = Len(l.keys) + 1 /\ Len(r.children) = Len(r.keys) + 1
        /\ Kids(l) = l.children /\ Kids(r) = r.children
    BY <2>1, InternalIs
  <2>0. NoRepeat(l.children) /\ NoRepeat(r.children) /\ Apart(l.children, r.children)
    BY <2>2 DEF Apart
  <2>3. Len(l.keys) >= 1 /\ Len(l.children) >= 1 /\ Len(l.keys) \in Nat /\ Len(r.keys) \in Nat
    BY <2>2, SeqIs
  <2>4. ak \in Seq(Keys) /\ Len(ak) = Len(l.keys) - 1 /\ k \in Keys
    BY <2>2, <2>3, FrontIs
  <2>5. /\ ac \in Seq(Pages) /\ Len(ac) = Len(l.children) - 1 /\ NoRepeat(ac)
        /\ bc \in Seq(Pages) /\ Len(bc) = Len(r.children) + 1 /\ NoRepeat(bc)
        /\ Shared(ac, bc, l.children, r.children) /\ Apart(ac, bc)
    BY <2>0, <2>2, <2>3, LastToFront
  <2>6. bk \in Seq(Keys) /\ Len(bk) = Len(r.keys) + 1
    BY <2>2, BeforeIs
  <2>9. x = [left |-> Linked(l, ak, ac), right |-> Linked(r, bk, bc), sep |-> k]
    BY <1>2 DEF RotateRight, Linked, Before
  <2> HIDE DEF k, ak, ac, bk, bc, x
  <2>10. /\ x.left \in Internal /\ x.left.keys = ak /\ x.left.children = ac
         /\ x.right \in Internal /\ x.right.keys = bk /\ x.right.children = bc
    <3>1. Linked(l, ak, ac) \in Internal /\ Linked(l, ak, ac).keys = ak /\ Linked(l, ak, ac).children = ac
      BY <2>1, <2>4, <2>5, <2>6, InternalWith
    <3>2. Linked(r, bk, bc) \in Internal /\ Linked(r, bk, bc).keys = bk /\ Linked(r, bk, bc).children = bc
      BY <2>1, <2>4, <2>5, <2>6, InternalWith
    <3> QED
      BY <3>1, <3>2, <2>9
  <2>11. /\ Kids(x.left) = ac /\ Kids(x.right) = bc
         /\ Size(x.left) = Len(ak) /\ Size(x.right) = Len(bk)
         /\ x.left.kind = "internal" /\ x.right.kind = "internal" /\ l.kind = "internal" /\ r.kind = "internal"
    BY <2>1, <2>10, InternalIs
  <2>12. Len(ac) = Len(ak) + 1 /\ Len(bc) = Len(bk) + 1
    BY <2>2, <2>3, <2>4, <2>5, <2>6
  <2>13. /\ ToSet(ac) \cup ToSet(bc) = ToSet(Kids(l)) \cup ToSet(Kids(r))
         /\ ToSet(ac) \cap ToSet(bc) = {}
    BY <2>2, <2>5 DEF Shared, Apart
  <2>14. Exchange(x, l, r)
    BY <2>4, <2>5, <2>9, <2>10, <2>11, <2>12, <2>13 DEF Exchange, Sibling, Paired
  <2>15. Size(x.left) = Size(l) - 1 /\ Size(x.right) = Size(r) + 1
    BY <2>2, <2>4, <2>6, <2>11
  <2> QED
    BY <2>14, <2>15 DEF x
<1> QED
  BY <1>1, <1>2

LEMMA RotateLeftIs ==
    ASSUME NEW l \in Leaf \cup Internal, NEW r \in Leaf \cup Internal, l.kind = r.kind,
           Fits(l), Fits(r), NoRepeat(Kids(l)), NoRepeat(Kids(r)),
           ToSet(Kids(l)) \cap ToSet(Kids(r)) = {},
           NEW sep \in Keys, Size(r) >= 2
    PROVE  LET x == RotateLeft(l, r, sep)
           IN  Exchange(x, l, r) /\ Size(x.left) = Size(l) + 1 /\ Size(x.right) = Size(r) - 1
<1> DEFINE x == RotateLeft(l, r, sep)
<1>1. CASE l.kind = "leaf"
  <2>1. l \in Leaf /\ r \in Leaf
    BY <1>1, NodeIs
  <2> DEFINE e == Head(r.entries)
             a == After(l.entries, e)
             b == Tail(r.entries)
  <2>2. l.entries \in Seq(Entry) /\ r.entries \in Seq(Entry) /\ Size(l) = Len(l.entries) /\ Size(r) = Len(r.entries)
    BY <2>1, LeafIs
  <2>3. b \in Seq(Entry) /\ Len(b) = Len(r.entries) - 1 /\ e \in Entry
    <3>1. Len(r.entries) >= 1
      BY <2>2, SeqIs
    <3> QED
      BY <2>2, <3>1, TailIs
  <2>4. a \in Seq(Entry) /\ Len(a) = Len(l.entries) + 1
    BY <2>2, <2>3, AfterIs
  <2>5. x = [left |-> Filled(l, a), right |-> Filled(r, b), sep |-> r.entries[2].key]
    BY <1>1 DEF RotateLeft, After, Filled
  <2> HIDE DEF a, b, e, x
  <2>6. x.left \in Leaf /\ x.left.entries = a /\ x.right \in Leaf /\ x.right.entries = b
    BY <2>1, <2>3, <2>4, <2>5, LeafWith
  <2>7. x.sep \in Keys
    <3>1. r.entries[2] \in Entry
      BY <2>2, SeqIs
    <3> QED
      BY <3>1, <2>5 DEF Entry, Keys
  <2>8. Exchange(x, l, r)
    BY <2>1, <2>6, <2>7, LeafIs DEF Exchange, Sibling, Paired
  <2>9. Size(x.left) = Len(a) /\ Size(x.right) = Len(b)
    BY <2>6, LeafIs
  <2>10. Size(x.left) = Size(l) + 1 /\ Size(x.right) = Size(r) - 1
    BY <2>2, <2>3, <2>4, <2>9
  <2> QED
    BY <2>8, <2>10 DEF x
<1>2. CASE l.kind # "leaf"
  <2>1. l \in Internal /\ r \in Internal
    BY <1>2, NodeIs
  <2> DEFINE k == Head(r.keys)
             ak == After(l.keys, sep)
             ac == After(l.children, Head(r.children))
             bk == Tail(r.keys)
             bc == Tail(r.children)
  <2>2. /\ l.keys \in Seq(Keys) /\ r.keys \in Seq(Keys)
        /\ l.children \in Seq(Pages) /\ r.children \in Seq(Pages)
        /\ Size(l) = Len(l.keys) /\ Size(r) = Len(r.keys)
        /\ Len(l.children) = Len(l.keys) + 1 /\ Len(r.children) = Len(r.keys) + 1
        /\ Kids(l) = l.children /\ Kids(r) = r.children
    BY <2>1, InternalIs
  <2>0. NoRepeat(l.children) /\ NoRepeat(r.children) /\ Apart(l.children, r.children)
    BY <2>2 DEF Apart
  <2>3. Len(r.keys) >= 1 /\ Len(r.children) >= 1 /\ Len(l.keys) \in Nat /\ Len(r.keys) \in Nat
    BY <2>2, SeqIs
  <2>4. bk \in Seq(Keys) /\ Len(bk) = Len(r.keys) - 1 /\ k \in Keys
    BY <2>2, <2>3, TailIs
  <2>5. /\ ac \in Seq(Pages) /\ Len(ac) = Len(l.children) + 1 /\ NoRepeat(ac)
        /\ bc \in Seq(Pages) /\ Len(bc) = Len(r.children) - 1 /\ NoRepeat(bc)
        /\ Shared(ac, bc, l.children, r.children) /\ Apart(ac, bc)
    BY <2>0, <2>2, <2>3, FirstToEnd
  <2>6. ak \in Seq(Keys) /\ Len(ak) = Len(l.keys) + 1
    BY <2>2, AfterIs
  <2>9. x = [left |-> Linked(l, ak, ac), right |-> Linked(r, bk, bc), sep |-> k]
    BY <1>2 DEF RotateLeft, Linked, After
  <2> HIDE DEF k, ak, ac, bk, bc, x
  <2>10. /\ x.left \in Internal /\ x.left.keys = ak /\ x.left.children = ac
         /\ x.right \in Internal /\ x.right.keys = bk /\ x.right.children = bc
    <3>1. Linked(l, ak, ac) \in Internal /\ Linked(l, ak, ac).keys = ak /\ Linked(l, ak, ac).children = ac
      BY <2>1, <2>4, <2>5, <2>6, InternalWith
    <3>2. Linked(r, bk, bc) \in Internal /\ Linked(r, bk, bc).keys = bk /\ Linked(r, bk, bc).children = bc
      BY <2>1, <2>4, <2>5, <2>6, InternalWith
    <3> QED
      BY <3>1, <3>2, <2>9
  <2>11. /\ Kids(x.left) = ac /\ Kids(x.right) = bc
         /\ Size(x.left) = Len(ak) /\ Size(x.right) = Len(bk)
         /\ x.left.kind = "internal" /\ x.right.kind = "internal" /\ l.kind = "internal" /\ r.kind = "internal"
    BY <2>1, <2>10, InternalIs
  <2>12. Len(ac) = Len(ak) + 1 /\ Len(bc) = Len(bk) + 1
    BY <2>2, <2>3, <2>4, <2>5, <2>6
  <2>13. /\ ToSet(ac) \cup ToSet(bc) = ToSet(Kids(l)) \cup ToSet(Kids(r))
         /\ ToSet(ac) \cap ToSet(bc) = {}
    BY <2>2, <2>5 DEF Shared, Apart
  <2>14. Exchange(x, l, r)
    BY <2>4, <2>5, <2>9, <2>10, <2>11, <2>12, <2>13 DEF Exchange, Sibling, Paired
  <2>15. Size(x.left) = Size(l) + 1 /\ Size(x.right) = Size(r) - 1
    BY <2>2, <2>4, <2>6, <2>11
  <2> QED
    BY <2>14, <2>15 DEF x
<1> QED
  BY <1>1, <1>2

LEMMA JoinedIs ==
    ASSUME NEW l \in Leaf \cup Internal, NEW r \in Leaf \cup Internal, l.kind = r.kind,
           Fits(l), Fits(r), NoRepeat(Kids(l)), NoRepeat(Kids(r)),
           ToSet(Kids(l)) \cap ToSet(Kids(r)) = {},
           NEW sep \in Keys
    PROVE  LET m == Joined(l, r, sep)
           IN  /\ Sibling(l, m)
               /\ Size(m) = Size(l) + Size(r) + IF l.kind = "leaf" THEN 0 ELSE 1
               /\ ToSet(Kids(m)) = ToSet(Kids(l)) \cup ToSet(Kids(r))
<1> DEFINE m == Joined(l, r, sep)
<1>1. CASE l.kind = "leaf"
  <2>1. l \in Leaf /\ r \in Leaf
    BY <1>1, NodeIs
  <2> DEFINE a == l.entries \o r.entries
  <2>2. /\ l.entries \in Seq(Entry) /\ r.entries \in Seq(Entry) /\ r.next \in Pages \cup {NoPage}
        /\ Size(l) = Len(l.entries) /\ Size(r) = Len(r.entries)
    BY <2>1, LeafIs
  <2>3. a \in Seq(Entry) /\ Len(a) = Len(l.entries) + Len(r.entries)
    BY <2>2, ConcatIs
  <2>4. m = [l EXCEPT !.entries = a, !.next = r.next]
    BY <1>1 DEF Joined
  <2> HIDE DEF a, m
  <2>5. m \in Leaf /\ m.entries = a
    BY <2>1, <2>2, <2>3, <2>4 DEF Leaf
  <2>6. Sibling(l, m) /\ ToSet(Kids(m)) = ToSet(Kids(l)) \cup ToSet(Kids(r))
    BY <2>1, <2>5, LeafIs DEF Sibling, Paired
  <2>7. Size(m) = Len(a) /\ Len(l.entries) \in Nat /\ Len(r.entries) \in Nat
    BY <2>2, <2>5, LeafIs, SeqIs
  <2>8. Size(m) = Size(l) + Size(r) + IF l.kind = "leaf" THEN 0 ELSE 1
    BY <1>1, <2>2, <2>3, <2>7
  <2> QED
    BY <2>6, <2>8 DEF m
<1>2. CASE l.kind # "leaf"
  <2>1. l \in Internal /\ r \in Internal
    BY <1>2, NodeIs
  <2> DEFINE ks == Between(l.keys, sep, r.keys)
             cs == Both(l.children, r.children)
  <2>2. /\ l.keys \in Seq(Keys) /\ r.keys \in Seq(Keys)
        /\ l.children \in Seq(Pages) /\ r.children \in Seq(Pages)
        /\ Size(l) = Len(l.keys) /\ Size(r) = Len(r.keys)
        /\ Len(l.children) = Len(l.keys) + 1 /\ Len(r.children) = Len(r.keys) + 1
        /\ Kids(l) = l.children /\ Kids(r) = r.children
    BY <2>1, InternalIs
  <2>0. NoRepeat(l.children) /\ NoRepeat(r.children) /\ Apart(l.children, r.children)
    BY <2>2 DEF Apart
  <2>3. PICK lk, rk, lc, rc : lk = l.keys /\ rk = r.keys /\ lc = l.children /\ rc = r.children
    OBVIOUS
  <2>5. lk \in Seq(Keys) /\ rk \in Seq(Keys) /\ lc \in Seq(Pages) /\ rc \in Seq(Pages)
    BY <2>2, <2>3
  <2>14. Len(lc) = Len(lk) + 1 /\ Len(rc) = Len(rk) + 1 /\ Size(l) = Len(lk) /\ Size(r) = Len(rk)
    BY <2>2, <2>3
  <2>15. NoRepeat(lc) /\ NoRepeat(rc) /\ Apart(lc, rc)
    BY <2>0, <2>3
  <2>4. m = Linked(l, ks, cs)
    BY <1>2 DEF Joined, Linked, Between, Both
  <2>6. ks \in Seq(Keys) /\ Len(ks) = Len(lk) + Len(rk) + 1
    <3>1. Between(lk, sep, rk) \in Seq(Keys) /\ Len(Between(lk, sep, rk)) = Len(lk) + Len(rk) + 1
      BY <2>5, BetweenIs
    <3> QED
      BY <3>1, <2>3
  <2>7. /\ cs \in Seq(Pages) /\ Len(cs) = Len(lc) + Len(rc)
        /\ Gathered(cs, lc, rc) /\ NoRepeat(cs)
    <3>1. /\ Both(lc, rc) \in Seq(Pages) /\ Len(Both(lc, rc)) = Len(lc) + Len(rc)
          /\ Gathered(Both(lc, rc), lc, rc) /\ NoRepeat(Both(lc, rc))
      BY <2>5, <2>15, KidsJoined
    <3> QED
      BY <3>1, <2>3
  <2> HIDE DEF ks, cs, m
  <2>8. m \in Internal /\ m.keys = ks /\ m.children = cs
    BY <2>1, <2>4, <2>6, <2>7, InternalWith
  <2>9. Kids(m) = cs /\ Size(m) = Len(ks) /\ m.kind = "internal" /\ l.kind = "internal"
    BY <2>1, <2>8, InternalIs
  <2>10. Len(lk) \in Nat /\ Len(rk) \in Nat
    BY <2>5, SeqIs
  <2>11. Len(cs) = Len(ks) + 1 /\ Len(ks) = Size(l) + Size(r) + 1
    BY <2>6, <2>7, <2>10, <2>14
  <2>12. Sibling(l, m)
    BY <2>7, <2>8, <2>9, <2>11 DEF Sibling, Paired
  <2>13. Size(m) = Size(l) + Size(r) + IF l.kind = "leaf" THEN 0 ELSE 1
    BY <1>2, <2>9, <2>11
  <2> QED
    BY <2>2, <2>3, <2>7, <2>9, <2>12, <2>13 DEF m, Gathered
<1> QED
  BY <1>1, <1>2
-----------------------------------------------------------------------------
(* The tree in a state.                                                    *)

LEMMA KidsInIs ==
    ASSUME NEW f
    PROVE  /\ DOMAIN KidsIn(f) = DOMAIN f
           /\ \A p \in DOMAIN f : KidsIn(f)[p] = ToSet(Kids(f[p]))
  BY DEF KidsIn

LEMMA NodesAre ==
    ASSUME NEW f, Nodes(f), NEW p \in DOMAIN f
    PROVE  /\ f[p] \in Leaf \cup Internal /\ p \in Pages /\ NoRepeat(Kids(f[p]))
           /\ f[p].kind = "leaf" <=> f[p] \in Leaf
           /\ f[p].kind = "internal" <=> f[p] \in Internal
           /\ f[p].kind = "leaf" <=> ~(f[p].kind = "internal")
<1>1. f[p] \in Leaf \cup Internal /\ p \in Pages /\ NoRepeat(Kids(f[p]))
  BY DEF Nodes
<1> QED
  BY <1>1, NodeIs

\* Pages change, and the tree keeps its shape.
LEMMA SameShape ==
    ASSUME NEW f, NEW g, DOMAIN g = DOMAIN f,
           \A p \in DOMAIN f : g[p].kind = f[p].kind /\ Kids(g[p]) = Kids(f[p])
    PROVE  KidsIn(g) = KidsIn(f) /\ \A h : Levels(f, h) => Levels(g, h)
  BY DEF KidsIn, Levels

\* A child is a page one level down that is no top one.
LEMMA ChildIs ==
    ASSUME NEW f, Nodes(f), NEW h, NEW T, NEW top, Forest(KidsIn(f), h, T, top), Levels(f, h),
           NEW p \in DOMAIN f, f[p].kind = "internal",
           NEW i \in DOMAIN f[p].children
    PROVE  /\ f[p].children[i] \in DOMAIN f \ T
           /\ f[p].children[i] \in KidsIn(f)[p]
           /\ h[f[p].children[i]] + 1 = h[p]
<1>1. f[p].children[i] \in KidsIn(f)[p]
  BY DEF KidsIn, Kids, ToSet
<1> QED
  BY <1>1, KidsInIs DEF Forest

LEMMA StopIs ==
    ASSUME NEW w \in Seq(Activation), NEW a, NEW i \in Nat
    PROVE  /\ i <= Len(w) => Stop(w, a, i) = w[i].id
           /\ i > Len(w) => Stop(w, a, i) = a
           /\ w = <<>> => Stop(w, a, 1) = a
<1>1. Len(w) \in Nat /\ (w = <<>> => Len(w) = 0)
  BY SeqIs
<1> QED
  BY <1>1 DEF Stop

\* Pages off the route change, and it leads on.
LEMMA RouteKept ==
    ASSUME NEW f, NEW h, NEW top, NEW w, NEW a, Route(f, h, top, w, a),
           NEW g, NEW h2, a \in DOMAIN g, h2[a] = h[a], h2[top] = h[top],
           \A i \in DOMAIN w : /\ w[i].id \in DOMAIN g /\ g[w[i].id] = f[w[i].id]
                               /\ h2[w[i].id] = h[w[i].id]
    PROVE  Route(g, h2, top, w, a)
  BY DEF Route

\* The last activation, and what is left when it has returned.
LEMMA RoutePopped ==
    ASSUME NEW f, NEW h \in [DOMAIN f -> Nat], NEW top \in DOMAIN f,
           NEW w \in Seq(Activation), NEW a, Route(f, h, top, w, a), w # <<>>
    PROVE  LET q == Last(w).id
           IN  /\ q \in DOMAIN f /\ Last(w).copy = f[q] /\ f[q].kind = "internal"
               /\ Last(w).ci \in DOMAIN f[q].children /\ f[q].children[Last(w).ci] = a
               /\ h[q] = h[a] + 1 /\ h[a] < h[top]
               /\ Front(w) \in Seq(Activation)
               /\ Route(f, h, top, Front(w), q)
               /\ \A i \in DOMAIN Front(w) : Front(w)[i].id \in DOMAIN f /\ h[Front(w)[i].id] > h[q]
<1> DEFINE n == Len(w)
           m == n - 1
           u == Front(w)
           q == Last(w).id
<1>1. n \in Nat /\ n >= 1 /\ m \in Nat /\ m + 1 = n /\ DOMAIN w = 1..n
  BY SeqIs
<1>2. Last(w) = w[n]
  BY DEF Last
<1>3. u \in Seq(Activation) /\ Len(u) = m /\ DOMAIN u = 1..m
  <2>1. u \in Seq(Activation) /\ Len(u) = Len(w) - 1
    BY <1>1, FrontIs
  <2> QED
    BY <2>1, <1>1, SeqIs
<1>4. \A i \in 1..m : u[i] = w[i]
  <2>1. u = SubSeq(w, 1, m)
    BY DEF Front
  <2>2. 1 \in 1..n+1 /\ m \in 1-1..n /\ m - 1 + 1 = m /\ \A j \in 1..m : 1 + j - 1 = j
    BY <1>1
  <2> HIDE DEF u, m
  <2>3. \A j \in 1..m-1+1 : SubSeq(w, 1, m)[j] = w[1+j-1]
    BY <2>2, SubSeqIs
  <2> QED
    BY <2>1, <2>2, <2>3
<1> HIDE DEF u, m
<1>5. /\ q \in DOMAIN f /\ Last(w).copy = f[q] /\ f[q].kind = "internal"
      /\ Last(w).ci \in DOMAIN f[q].children
      /\ f[q].children[Last(w).ci] = Stop(w, a, n + 1)
      /\ h[q] + n = h[top] + 1
  BY <1>1, <1>2 DEF Route
<1>6. Stop(w, a, n + 1) = a
  BY <1>1 DEF Stop
<1>7. a \in DOMAIN f /\ h[a] + n = h[top]
  BY DEF Route
<1>8. h[a] \in Nat /\ h[top] \in Nat /\ h[q] \in Nat
  BY <1>5, <1>7
<1>9. h[q] = h[a] + 1 /\ h[a] < h[top] /\ h[q] + m = h[top]
  <2>1. h[q] + n = h[top] + 1 /\ h[q] \in Nat
    BY <1>5, <1>8
  <2>2. h[a] + n = h[top] /\ h[a] \in Nat /\ h[top] \in Nat
    BY <1>7, <1>8
  <2> HIDE DEF n, q
  <2>3. n \in Nat /\ m \in Nat /\ m + 1 = n /\ n >= 1
    BY <1>1
  <2>4. PICK x, y, z \in Nat : x = h[q] /\ y = h[a] /\ z = h[top]
    BY <2>1, <2>2
  <2>5. x + n = z + 1 /\ y + n = z
    BY <2>1, <2>2, <2>4
  <2>6. x = y + 1 /\ y < z /\ x + m = z
    BY <2>3, <2>5
  <2> QED
    BY <2>4, <2>6
<1>10. \A i \in 1..m : /\ Stop(u, q, i + 1) = Stop(w, a, i + 1)
                        /\ Stop(u, q, i) = Stop(w, a, i)
  <2> SUFFICES ASSUME NEW i \in 1..m
               PROVE  Stop(u, q, i + 1) = Stop(w, a, i + 1) /\ Stop(u, q, i) = Stop(w, a, i)
    OBVIOUS
  <2>1. Stop(w, a, i) = w[i].id /\ Stop(w, a, i + 1) = w[i + 1].id
    BY <1>1 DEF Stop
  <2>2. Stop(u, q, i) = w[i].id
    BY <1>1, <1>3, <1>4 DEF Stop
  <2>3. CASE i = m
    <3>1. Stop(u, q, i + 1) = q /\ i + 1 = n
      BY <2>3, <1>1, <1>3 DEF Stop
    <3> QED
      BY <2>1, <2>2, <3>1, <1>2
  <2>4. CASE i # m
    <3>1. i + 1 \in 1..m
      BY <2>4, <1>1
    <3>2. Stop(u, q, i + 1) = u[i + 1].id
      BY <3>1, <1>1, <1>3 DEF Stop
    <3> QED
      BY <2>1, <2>2, <3>1, <3>2, <1>4
  <2> QED
    BY <2>3, <2>4
<1>11. Stop(u, q, 1) = top
  <2>0. Stop(w, a, 1) = top
    BY DEF Route
  <2>1. CASE m = 0
    <3>1. Stop(u, q, 1) = q /\ Stop(w, a, 1) = w[1].id /\ n = 1
      BY <2>1, <1>1, <1>3 DEF Stop
    <3> QED
      BY <2>0, <3>1, <1>2
  <2>2. CASE m # 0
    BY <2>0, <2>2, <1>1, <1>10
  <2> QED
    BY <2>1, <2>2
<1>12. \A i \in 1..m : /\ u[i].id \in DOMAIN f /\ u[i].copy = f[u[i].id] /\ u[i].copy.kind = "internal"
                        /\ u[i].ci \in DOMAIN u[i].copy.children
                        /\ u[i].copy.children[u[i].ci] = Stop(u, q, i + 1)
                        /\ h[u[i].id] + i = h[top] + 1
  <2> SUFFICES ASSUME NEW i \in 1..m
               PROVE  /\ u[i].id \in DOMAIN f /\ u[i].copy = f[u[i].id] /\ u[i].copy.kind = "internal"
                      /\ u[i].ci \in DOMAIN u[i].copy.children
                      /\ u[i].copy.children[u[i].ci] = Stop(u, q, i + 1)
                      /\ h[u[i].id] + i = h[top] + 1
    OBVIOUS
  <2>1. i \in DOMAIN w /\ u[i] = w[i] /\ Stop(u, q, i + 1) = Stop(w, a, i + 1)
    BY <1>1, <1>4, <1>10
  <2> HIDE DEF q
  <2> QED
    BY <2>1 DEF Route
<1>13. Route(f, h, top, u, q)
  BY <1>3, <1>5, <1>9, <1>11, <1>12 DEF Route
<1>14. \A i \in 1..m : u[i].id \in DOMAIN f /\ h[u[i].id] > h[q]
  <2> SUFFICES ASSUME NEW i \in 1..m PROVE u[i].id \in DOMAIN f /\ h[u[i].id] > h[q]
    OBVIOUS
  <2>1. u[i].id \in DOMAIN f /\ h[u[i].id] + i = h[top] + 1
    BY <1>12
  <2>2. h[u[i].id] \in Nat
    BY <2>1
  <2> QED
    BY <2>1, <2>2, <1>1, <1>8, <1>9
<1> QED
  BY <1>3, <1>5, <1>6, <1>9, <1>13, <1>14 DEF u

\* One more: the child of page a that the key leads to.
LEMMA RoutePushed ==
    ASSUME NEW f, NEW h \in [DOMAIN f -> Nat], NEW top \in DOMAIN f,
           NEW w \in Seq(Activation), NEW a, Route(f, h, top, w, a),
           NEW x \in Activation, x.id = a, x.copy = f[a], f[a].kind = "internal",
           x.ci \in DOMAIN f[a].children,
           NEW c \in DOMAIN f, f[a].children[x.ci] = c, h[c] + 1 = h[a]
    PROVE  Append(w, x) \in Seq(Activation) /\ Route(f, h, top, Append(w, x), c)
<1> DEFINE n == Len(w)
           u == Append(w, x)
<1>1. n \in Nat /\ DOMAIN w = 1..n
  BY SeqIs
<1>2. /\ u \in Seq(Activation) /\ Len(u) = n + 1 /\ DOMAIN u = 1..n+1
      /\ u[n + 1] = x /\ \A i \in 1..n : u[i] = w[i]
  BY AppendProperties
<1> HIDE DEF u
<1>3. a \in DOMAIN f /\ h[a] + n = h[top]
  BY DEF Route
<1>4. h[a] \in Nat /\ h[c] \in Nat /\ h[top] \in Nat
  BY <1>3
<1>5. \A i \in 1..n : Stop(u, c, i) = Stop(w, a, i) /\ Stop(u, c, i + 1) = Stop(w, a, i + 1)
  <2> SUFFICES ASSUME NEW i \in 1..n
               PROVE  Stop(u, c, i) = Stop(w, a, i) /\ Stop(u, c, i + 1) = Stop(w, a, i + 1)
    OBVIOUS
  <2>1. Stop(u, c, i) = u[i].id /\ Stop(w, a, i) = w[i].id /\ Stop(u, c, i + 1) = u[i + 1].id
    BY <1>1, <1>2 DEF Stop
  <2>2. CASE i = n
    <3>1. Stop(w, a, i + 1) = a
      BY <2>2, <1>1 DEF Stop
    <3> QED
      BY <2>1, <2>2, <3>1, <1>2
  <2>3. CASE i # n
    <3>1. i + 1 \in 1..n
      <4>1. n \in Nat /\ i \in 1..n /\ i # n
        BY <2>3, <1>1
      <4> HIDE DEF n
      <4> QED
        BY <4>1
    <3>2. Stop(w, a, i + 1) = w[i + 1].id
      BY <3>1, <1>1 DEF Stop
    <3> QED
      BY <2>1, <3>1, <3>2, <1>2
  <2> QED
    BY <2>2, <2>3
<1>6. Stop(u, c, 1) = top
  <2>0. Stop(w, a, 1) = top
    BY DEF Route
  <2>1. CASE n = 0
    <3>1. Stop(u, c, 1) = u[1].id /\ Stop(w, a, 1) = a
      BY <2>1, <1>1, <1>2 DEF Stop
    <3> QED
      BY <2>0, <2>1, <3>1, <1>2
  <2>2. CASE n # 0
    <3>1. 1 \in 1..n
      BY <2>2, <1>1
    <3> QED
      BY <2>0, <3>1, <1>5
  <2> QED
    BY <2>1, <2>2
<1>7. Stop(u, c, n + 1 + 1) = c
  BY <1>1, <1>2 DEF Stop
<1>8. \A i \in 1..n : /\ u[i].id \in DOMAIN f /\ u[i].copy = f[u[i].id] /\ u[i].copy.kind = "internal"
                       /\ u[i].ci \in DOMAIN u[i].copy.children
                       /\ u[i].copy.children[u[i].ci] = Stop(u, c, i + 1)
                       /\ h[u[i].id] + i = h[top] + 1
  <2> SUFFICES ASSUME NEW i \in 1..n
               PROVE  /\ u[i].id \in DOMAIN f /\ u[i].copy = f[u[i].id] /\ u[i].copy.kind = "internal"
                      /\ u[i].ci \in DOMAIN u[i].copy.children
                      /\ u[i].copy.children[u[i].ci] = Stop(u, c, i + 1)
                      /\ h[u[i].id] + i = h[top] + 1
    OBVIOUS
  <2>1. i \in DOMAIN w /\ u[i] = w[i] /\ Stop(u, c, i + 1) = Stop(w, a, i + 1)
    BY <1>1, <1>2, <1>5
  <2> QED
    BY <2>1 DEF Route
<1>9. h[a] + (n + 1) = h[top] + 1 /\ h[c] + (n + 1) = h[top]
  BY <1>1, <1>3, <1>4
<1>10. \A i \in 1..n+1 : i \in 1..n \/ i = n + 1
  BY <1>1
<1>11. \A i \in DOMAIN u : /\ u[i].id \in DOMAIN f /\ u[i].copy = f[u[i].id] /\ u[i].copy.kind = "internal"
                            /\ u[i].ci \in DOMAIN u[i].copy.children
                            /\ u[i].copy.children[u[i].ci] = Stop(u, c, i + 1)
                            /\ h[u[i].id] + i = h[top] + 1
  <2> SUFFICES ASSUME NEW i \in 1..n+1
               PROVE  /\ u[i].id \in DOMAIN f /\ u[i].copy = f[u[i].id] /\ u[i].copy.kind = "internal"
                      /\ u[i].ci \in DOMAIN u[i].copy.children
                      /\ u[i].copy.children[u[i].ci] = Stop(u, c, i + 1)
                      /\ h[u[i].id] + i = h[top] + 1
    BY <1>2
  <2>1. CASE i \in 1..n
    BY <2>1, <1>8
  <2>2. CASE i = n + 1
    BY <2>2, <1>2, <1>3, <1>7, <1>9
  <2> QED
    BY <2>1, <2>2, <1>10
<1>12. Route(f, h, top, u, c)
  BY <1>2, <1>6, <1>9, <1>11 DEF Route
<1> QED
  BY <1>2, <1>12 DEF u
-----------------------------------------------------------------------------
(* The steps.                                                              *)

Put(f, p, m) == [f EXCEPT ![p] = m]

LEMMA PutIs ==
    ASSUME NEW f, Nodes(f), NEW p \in DOMAIN f, NEW m \in Leaf \cup Internal, NoRepeat(Kids(m))
    PROVE  /\ Nodes(Put(f, p, m)) /\ DOMAIN Put(f, p, m) = DOMAIN f
           /\ Put(f, p, m)[p] = m
           /\ \A q \in DOMAIN f : q # p => Put(f, p, m)[q] = f[q]
<1> DEFINE g == Put(f, p, m)
<1>1. DOMAIN g = DOMAIN f /\ g[p] = m /\ \A q \in DOMAIN f : q # p => g[q] = f[q]
  BY DEF Put, Nodes
<1>2. g = [q \in DOMAIN f |-> IF q = p THEN m ELSE f[q]]
  BY DEF Put, Nodes
<1> HIDE DEF g
<1>3. \A q \in DOMAIN f : g[q] \in Leaf \cup Internal /\ NoRepeat(Kids(g[q]))
  BY <1>1 DEF Nodes
<1>4. g \in [DOMAIN g -> Leaf \cup Internal]
  BY <1>1, <1>2, <1>3
<1>5. Nodes(g)
  BY <1>1, <1>3, <1>4 DEF Nodes
<1> QED
  BY <1>1, <1>5 DEF g

\* A page is rewritten with the children it has.
LEMMA Rewritten ==
    ASSUME NEW f, Nodes(f), NEW p \in DOMAIN f, NEW m \in Leaf \cup Internal,
           m.kind = f[p].kind, Kids(m) = Kids(f[p])
    PROVE  /\ Nodes(Put(f, p, m)) /\ DOMAIN Put(f, p, m) = DOMAIN f
           /\ Put(f, p, m)[p] = m
           /\ \A q \in DOMAIN f : q # p => Put(f, p, m)[q] = f[q]
           /\ KidsIn(Put(f, p, m)) = KidsIn(f)
           /\ \A h : Levels(f, h) => Levels(Put(f, p, m), h)
<1> DEFINE g == Put(f, p, m)
<1>1. NoRepeat(Kids(m))
  BY DEF Nodes
<1>2. /\ Nodes(g) /\ DOMAIN g = DOMAIN f /\ g[p] = m
      /\ \A q \in DOMAIN f : q # p => g[q] = f[q]
  BY <1>1, PutIs
<1> HIDE DEF g
<1>3. \A q \in DOMAIN f : g[q].kind = f[q].kind /\ Kids(g[q]) = Kids(f[q])
  BY <1>2
<1>4. KidsIn(g) = KidsIn(f) /\ \A h : Levels(f, h) => Levels(g, h)
  BY <1>2, <1>3, SameShape
<1> QED
  BY <1>2, <1>4 DEF g

\* The size of one page changes.
LEMMA Restocked ==
    ASSUME NEW f, NEW r, NEW a, Stocked(f, r, a), NEW p \in DOMAIN f,
           NEW g, DOMAIN g = DOMAIN f, \A q \in DOMAIN f : q # p => g[q] = f[q],
           NEW b, \A q \in DOMAIN f : q # p => q # a /\ q # b,
           Fits(g[p]), p # r => Size(g[p]) + Lack(p, b) >= MinSize(g[p]),
           g[p].kind = "internal" => Size(g[p]) + Lack(p, b) >= 1
    PROVE  Stocked(g, r, b)
<1>1. \A q \in DOMAIN f : q # p => Lack(q, a) = 0 /\ Lack(q, b) = 0
  BY DEF Lack
<1> QED
  BY <1>1, Zenon DEF Stocked

LEMMA Complete == ASSUME NEW p \in Pages PROVE Lack(p, NoPage) = 0
  BY NoPageIs DEF Lack

\* A call has come to its end.
LEMMA Finished ==
    ASSUME tree' \in Trees, Finish, Nodes(node'), root' \in DOMAIN node',
           NEW h \in [DOMAIN node' -> Nat], Forest(KidsIn(node'), h, {root'}, root'), Levels(node', h),
           Stocked(node', root', NoPage)
    PROVE  IInv'
<1>1. pc' = "idle" /\ Idle' /\ under' = FALSE
  BY DEF Finish, Idle
<1>2. CallInv'
  BY <1>1 DEF CallInv
<1>3. NodeInv'
  BY DEF NodeInv
<1>4. SizeInv'
  BY <1>1 DEF SizeInv
<1>5. Tops' = {root'}
  BY <1>1 DEF Tops
<1>6. ShapeInv'
  BY <1>1, <1>5 DEF ShapeInv
<1> QED
  BY <1>2, <1>3, <1>4, <1>6 DEF IInv

LEMMA InitInv == Init => IInv
<1> SUFFICES ASSUME Init PROVE IInv
  OBVIOUS
<1>1. tree \in Trees /\ root = 1 /\ node = [p \in {root} |-> EmptyLeaf] /\ Idle /\ pc = "idle"
  BY DEF Init, Idle
<1>2. 1 \in Pages /\ DOMAIN node = {1} /\ node[1] = EmptyLeaf
  BY <1>1, Minima DEF Pages
<1>3. EmptyLeaf \in Leaf /\ EmptyLeaf.kind = "leaf" /\ EmptyLeaf.entries = <<>>
  BY DEF EmptyLeaf, Leaf
<1>4. NodeInv
  <2>1. NoRepeat(Kids(EmptyLeaf))
    BY <1>3, LeafIs
  <2>2. node \in [DOMAIN node -> Leaf \cup Internal]
    BY <1>1, <1>2, <1>3
  <2> QED
    BY <1>1, <1>2, <2>1, <2>2 DEF NodeInv, Nodes
<1>5. SizeInv
  <2>1. Size(EmptyLeaf) = 0 /\ Fits(EmptyLeaf)
    BY <1>3, LeafIs, Minima DEF Size
  <2> QED
    BY <1>1, <1>2, <1>3, <2>1 DEF SizeInv, Stocked
<1>6. CallInv
  BY <1>1 DEF CallInv, Idle
<1>7. ShapeInv
  <2> DEFINE h == [p \in {1} |-> 0]
  <2>1. Tops = {1}
    BY <1>1 DEF Tops
  <2>2. DOMAIN KidsIn(node) = {1} /\ KidsIn(node)[1] = {}
    BY <1>2, <1>3, KidsInIs, LeafIs
  <2>3. Forest(KidsIn(node), h, {1}, 1)
    BY <2>2 DEF Forest
  <2>4. Levels(node, h)
    BY <1>2, <1>3 DEF Levels
  <2> QED
    BY <1>1, <1>2, <2>1, <2>3, <2>4 DEF ShapeInv
<1> QED
  BY <1>4, <1>5, <1>6, <1>7 DEF IInv

LEMMA StutterInv == IInv /\ UNCHANGED vars => IInv'
<1> SUFFICES ASSUME IInv, UNCHANGED vars PROVE IInv'
  OBVIOUS
<1>1. /\ tree' = tree /\ node' = node /\ root' = root /\ pc' = pc /\ arg' = arg /\ at' = at
      /\ path' = path /\ split' = split /\ under' = under
  BY DEF vars, call
<1>2. CallInv'
  <2>1. CallInv
    BY DEF IInv
  <2>2. (Idle' <=> Idle) /\ (unique' = unique)
    BY <1>1 DEF Idle, unique
  <2>3. /\ Size(node'[at']) = Size(node[at]) /\ MinSize(node'[at']) = MinSize(node[at])
    BY <1>1
  <2>4. tree' \in Trees /\ pc' \in {"idle", "insert", "split", "erase", "erased"} /\ (pc' = "idle" => Idle')
    BY <1>1, <2>1, <2>2 DEF CallInv
  <2>5. /\ pc' # "idle" => arg'.key \in Keys /\ path' \in Seq(Activation)
        /\ pc' = "insert" => arg'.val \in Values
        /\ pc' = "split" => split' \in [key : Keys, right : Pages]
    BY <1>1, <2>1 DEF CallInv
  <2>6. /\ pc' \in {"erase", "erased"} => unique'
        /\ under' \in BOOLEAN
    BY <1>1, <2>1, <2>2 DEF CallInv
  <2>7. pc' = "erased" => under' = (Size(node'[at']) < MinSize(node'[at']))
    BY <1>1, <2>1, <2>3 DEF CallInv
  <2> QED
    BY <2>4, <2>5, <2>6, <2>7 DEF CallInv
<1>3. NodeInv' /\ SizeInv'
  BY <1>1 DEF IInv, NodeInv, SizeInv
<1>4. Tops' = Tops
  BY <1>1 DEF Tops
<1>5. ShapeInv'
  BY <1>1, <1>4 DEF IInv, ShapeInv
<1> QED
  BY <1>2, <1>3, <1>5 DEF IInv

\* Between calls.
LEMMA Resting ==
    ASSUME IInv, pc = "idle"
    PROVE  /\ tree \in Trees /\ path = <<>> /\ split = NoSplit /\ under = FALSE
           /\ Nodes(node) /\ root \in DOMAIN node /\ Stocked(node, root, NoPage)
           /\ \E h \in [DOMAIN node -> Nat] : Forest(KidsIn(node), h, {root}, root) /\ Levels(node, h)
<1>1. Tops = {root}
  BY DEF Tops
<1>2. tree \in Trees /\ Idle
  BY DEF IInv, CallInv
<1>3. Nodes(node) /\ root \in DOMAIN node /\ Stocked(node, root, NoPage)
  BY DEF IInv, NodeInv, SizeInv
<1>4. \E h \in [DOMAIN node -> Nat] : Forest(KidsIn(node), h, {root}, root) /\ Levels(node, h)
  BY <1>1 DEF IInv, ShapeInv
<1> QED
  BY <1>2, <1>3, <1>4 DEF Idle

\* In the middle of one.
LEMMA Working ==
    ASSUME IInv, pc # "idle"
    PROVE  /\ tree \in Trees /\ arg.key \in Keys /\ path \in Seq(Activation) /\ under \in BOOLEAN
           /\ Nodes(node) /\ root \in DOMAIN node /\ at \in DOMAIN node
           /\ pc # "erased" => Stocked(node, root, NoPage)
           /\ \E h \in [DOMAIN node -> Nat] :
                 /\ Forest(KidsIn(node), h, Tops, root) /\ Levels(node, h)
                 /\ Route(node, h, root, path, at)
                 /\ pc = "split" => split.right # root /\ h[split.right] = h[at]
<1>1. tree \in Trees /\ arg.key \in Keys /\ path \in Seq(Activation) /\ under \in BOOLEAN
  BY DEF IInv, CallInv
<1>2. Nodes(node) /\ root \in DOMAIN node /\ (pc # "erased" => Stocked(node, root, NoPage))
  BY DEF IInv, NodeInv, SizeInv
<1>3. \E h \in [DOMAIN node -> Nat] :
                 /\ Forest(KidsIn(node), h, Tops, root) /\ Levels(node, h)
                 /\ Route(node, h, root, path, at)
                 /\ pc = "split" => split.right # root /\ h[split.right] = h[at]
  BY DEF IInv, ShapeInv
<1>4. at \in DOMAIN node
  BY <1>3 DEF Route
<1> QED
  BY <1>1, <1>2, <1>3, <1>4

\* The tree is as it was, and the call goes on at page at'.
LEMMA Onward ==
    ASSUME tree' \in Trees, pc' \in {"insert", "erase"}, pc' = "erase" => unique',
           arg'.key \in Keys, pc' = "insert" => arg'.val \in Values,
           path' \in Seq(Activation), under' \in BOOLEAN,
           node' = node, root' = root, Nodes(node), root \in DOMAIN node, Stocked(node, root, NoPage),
           NEW h \in [DOMAIN node -> Nat], Forest(KidsIn(node), h, {root}, root), Levels(node, h),
           Route(node, h, root, path', at')
    PROVE  IInv'
<1>1. pc' # "idle" /\ pc' # "split" /\ pc' # "erased"
  OBVIOUS
<1>2. CallInv'
  BY <1>1 DEF CallInv
<1>3. NodeInv' /\ SizeInv'
  BY <1>1 DEF NodeInv, SizeInv
<1>4. Tops' = {root}
  BY <1>1 DEF Tops
<1>5. ShapeInv'
  BY <1>1, <1>4 DEF ShapeInv
<1> QED
  BY <1>2, <1>3, <1>5 DEF IInv

LEMMA CallInvariant ==
    ASSUME IInv, NEW k \in tree.keys,
           Erase(k) \/ \E v \in tree.vals, o \in BOOLEAN : Insert(k, v, o)
    PROVE  IInv'
<1>1. /\ pc = "idle" /\ tree' = tree /\ node' = node /\ root' = root /\ at' = root
      /\ path' = path /\ under' = under /\ arg'.key = k
      /\ pc' \in {"insert", "erase"} /\ (pc' = "erase" => unique)
      /\ pc' = "insert" => arg'.val \in tree.vals
  <2>1. CASE Erase(k)
    BY <2>1 DEF Erase, NoArg
  <2>2. CASE \E v \in tree.vals, o \in BOOLEAN : Insert(k, v, o)
    BY <2>2 DEF Insert
  <2> QED
    BY <2>1, <2>2
<1>2. /\ tree \in Trees /\ path = <<>> /\ under = FALSE
      /\ Nodes(node) /\ root \in DOMAIN node /\ Stocked(node, root, NoPage)
  BY <1>1, Resting
<1>3. PICK h \in [DOMAIN node -> Nat] : Forest(KidsIn(node), h, {root}, root) /\ Levels(node, h)
  BY <1>1, Resting
<1>4. k \in Keys /\ tree.vals \subseteq Values
  BY <1>2 DEF Keys
<1>5. path' \in Seq(Activation) /\ Route(node, h, root, path', root)
  <2>1. path' = <<>> /\ Len(<<>>) = 0 /\ DOMAIN <<>> = {} /\ <<>> \in Seq(Activation)
    BY <1>1, <1>2
  <2>2. Stop(<<>>, root, 1) = root
    BY DEF Stop
  <2>3. h[root] \in Nat
    BY <1>2
  <2> QED
    BY <1>2, <2>1, <2>2, <2>3 DEF Route
<1>6. unique' = unique
  BY <1>1 DEF unique
<1> QED
  BY <1>1, <1>2, <1>3, <1>4, <1>5, <1>6, Onward

LEMMA DescendInv == ASSUME IInv, Descend PROVE IInv'
<1> DEFINE ci == ChildIndexFor(node[at], arg.key)
           x  == [id |-> at, copy |-> node[at], ci |-> ci]
           c  == node[at].children[ci]
<1>1. /\ pc \in {"insert", "erase"} /\ node[at].kind = "internal"
      /\ path' = Append(path, x) /\ at' = c
      /\ tree' = tree /\ node' = node /\ root' = root /\ pc' = pc /\ arg' = arg /\ under' = under
  BY DEF Descend
<1>2. /\ tree \in Trees /\ arg.key \in Keys /\ path \in Seq(Activation) /\ under \in BOOLEAN
      /\ Nodes(node) /\ root \in DOMAIN node /\ at \in DOMAIN node
      /\ Stocked(node, root, NoPage)
  BY <1>1, Working
<1>3. Tops = {root}
  BY <1>1 DEF Tops
<1>4. PICK h \in [DOMAIN node -> Nat] :
         /\ Forest(KidsIn(node), h, {root}, root) /\ Levels(node, h) /\ Route(node, h, root, path, at)
  BY <1>1, <1>3, Working
<1>5. node[at] \in Internal /\ at \in Pages
  BY <1>1, <1>2, NodesAre
<1>6. ci \in 1..Len(node[at].keys)+1 /\ ci \in DOMAIN node[at].children
  <2>1. Fits(node[at])
    BY <1>2 DEF Stocked
  <2> QED
    BY <1>2, <1>5, <2>1, ChildIndexIn
<1> HIDE DEF ci
<1>7. c \in DOMAIN node /\ h[c] + 1 = h[at]
  BY <1>1, <1>2, <1>4, <1>6, ChildIs
<1> HIDE DEF c
<1>8. x \in Activation
  <2>1. ci \in Nat
    BY <1>6, <1>5, InternalIs
  <2> QED
    BY <1>5, <2>1 DEF Activation
<1>9. Append(path, x) \in Seq(Activation) /\ Route(node, h, root, Append(path, x), c)
  <2>1. x.id = at /\ x.copy = node[at] /\ x.ci = ci
    OBVIOUS
  <2>2. node[at].children[x.ci] = c
    BY DEF c
  <2> HIDE DEF x
  <2> QED
    BY <1>1, <1>2, <1>4, <1>6, <1>7, <1>8, <2>1, <2>2, RoutePushed
<1>10. pc = "erase" => unique
  BY DEF IInv, CallInv
<1>11. pc = "insert" => arg.val \in Values
  BY DEF IInv, CallInv
<1>12. unique' = unique
  BY <1>1 DEF unique
<1> HIDE DEF x
<1> QED
  BY <1>1, <1>2, <1>4, <1>9, <1>10, <1>11, <1>12, Onward
-----------------------------------------------------------------------------
(* Insertion.                                                              *)

LEMMA EntryUpdated ==
    ASSUME NEW es \in Seq(Entry), NEW i \in Nat, NEW v \in Values
    PROVE  /\ [es EXCEPT ![i].val = v] \in Seq(Entry)
           /\ Len([es EXCEPT ![i].val = v]) = Len(es)
<1> DEFINE t == [es EXCEPT ![i].val = v]
<1>1. Len(es) \in Nat /\ DOMAIN es = 1..Len(es) /\ \A j \in 1..Len(es) : es[j] \in Entry
  BY SeqIs
<1>2. es = [j \in 1..Len(es) |-> es[j]]
  BY <1>1
<1>3. t = [j \in 1..Len(es) |-> IF j = i THEN [es[j] EXCEPT !.val = v] ELSE es[j]]
  BY <1>1, <1>2
<1>4. \A j \in 1..Len(es) : [es[j] EXCEPT !.val = v] \in Entry
  BY <1>1 DEF Entry
<1> DEFINE e(j) == IF j = i THEN [es[j] EXCEPT !.val = v] ELSE es[j]
<1>5. \A j \in 1..Len(es) : e(j) \in Entry
  BY <1>1, <1>4
<1>6. t = [j \in 1..Len(es) |-> e(j)]
  BY <1>3
<1> HIDE DEF e, t
<1>7. t \in Seq(Entry) /\ Len(t) = Len(es)
  BY <1>1, <1>5, <1>6
<1> QED
  BY <1>7 DEF t

\* A call ends with an entry written to the leaf it is at.
LEMMA LeafWritten ==
    ASSUME IInv, pc \in {"insert", "erase"}, node[at].kind = "leaf",
           NEW m \in Leaf, Size(m) >= Size(node[at]), Size(m) <= LeafMax,
           tree' = tree, root' = root, node' = Put(node, at, m), Finish
    PROVE  IInv'
<1>1. /\ tree \in Trees /\ Nodes(node) /\ root \in DOMAIN node /\ at \in DOMAIN node
      /\ Stocked(node, root, NoPage)
  BY Working
<1>2. Tops = {root}
  BY DEF Tops
<1>3. PICK h \in [DOMAIN node -> Nat] : Forest(KidsIn(node), h, {root}, root) /\ Levels(node, h)
  BY <1>2, Working
<1>4. node[at] \in Leaf /\ at \in Pages
  BY <1>1, NodesAre
<1>5. m \in Leaf \cup Internal /\ m.kind = node[at].kind /\ Kids(m) = Kids(node[at])
  BY <1>4, LeafIs
<1> DEFINE g == Put(node, at, m)
<1>6. /\ Nodes(g) /\ DOMAIN g = DOMAIN node /\ g[at] = m
      /\ \A q \in DOMAIN node : q # at => g[q] = node[q]
      /\ KidsIn(g) = KidsIn(node) /\ Levels(g, h)
  BY <1>1, <1>3, <1>5, Rewritten
<1> HIDE DEF g
<1>7. Stocked(g, root, NoPage)
  <2>1. m.kind = "leaf" /\ Size(m) \in Nat /\ Size(m) = Len(m.entries) /\ MinSize(m) = LeafMin
    BY LeafIs
  <2>2. Fits(m)
    BY <2>1, LeafIs
  <2>3. Size(node[at]) \in Nat /\ MinSize(node[at]) = LeafMin
    BY <1>4, LeafIs
  <2>4. Lack(at, NoPage) = 0
    BY <1>4, Complete
  <2>5. at # root => Size(node[at]) + 0 >= LeafMin
    BY <1>1, <2>3, <2>4 DEF Stocked
  <2>6. at # root => Size(m) + Lack(at, NoPage) >= MinSize(m)
    BY <2>1, <2>3, <2>4, <2>5, Minima
  <2>7. m.kind # "internal"
    BY <2>1
  <2>8. \A q \in DOMAIN node : q # at => q # NoPage
    BY <1>1, NoPageIs DEF Nodes
  <2> QED
    BY <1>1, <1>6, <2>2, <2>6, <2>7, <2>8, Restocked
<1>8. node' = g
  BY DEF g
<1> QED
  BY <1>1, <1>3, <1>6, <1>7, <1>8, Finished

LEMMA UpdateEntryInv == ASSUME IInv, UpdateEntry PROVE IInv'
<1>1. /\ pc = "insert" /\ node[at].kind = "leaf" /\ tree' = tree /\ root' = root /\ Finish
  BY DEF UpdateEntry, AtLeaf
<1> DEFINE n  == node[at]
           es == n.entries
           i  == LowerBound(KeysOf(es), arg.key)
           us == [es EXCEPT ![i].val = arg.val]
           m  == Filled(n, us)
<1>2. node' = IF arg.overwrite THEN [node EXCEPT ![at].entries[i].val = arg.val] ELSE node
  BY DEF UpdateEntry
<1>3. /\ arg.key \in Keys /\ Nodes(node) /\ at \in DOMAIN node /\ Stocked(node, root, NoPage)
  BY <1>1, Working
<1>4. arg.val \in Values
  BY <1>1 DEF IInv, CallInv
<1>5. n \in Leaf
  BY <1>1, <1>3, NodesAre
<1>6. /\ es \in Seq(Entry) /\ Size(n) = Len(es) /\ Size(n) \in Nat /\ Size(n) <= LeafMax
  BY <1>3, <1>5, LeafIs DEF Stocked
<1>7. i \in Nat
  <2>1. i \in 1..Len(es)+1
    BY <1>3, <1>6, PositionIn
  <2> HIDE DEF i
  <2> QED
    BY <1>6, <2>1
<1> HIDE DEF i
<1>8. us \in Seq(Entry) /\ Len(us) = Len(es)
  BY <1>4, <1>6, <1>7, EntryUpdated
<1>9. [node EXCEPT ![at].entries[i].val = arg.val] = Put(node, at, m)
  BY DEF Put, Filled
<1> HIDE DEF us, es, n
<1>10. m \in Leaf /\ m.entries = us
  BY <1>5, <1>8, LeafWith
<1> HIDE DEF m
<1>11. Size(m) = Size(n)
  BY <1>6, <1>8, <1>10, LeafIs
<1>12. node = Put(node, at, n)
  BY <1>3 DEF Put, Nodes, n
<1>13. CASE arg.overwrite
  <2>1. node' = Put(node, at, m)
    BY <1>2, <1>9, <1>13
  <2>2. Size(m) >= Size(node[at]) /\ Size(m) <= LeafMax
    BY <1>6, <1>11, Minima DEF n
  <2> QED
    BY <1>1, <1>10, <2>1, <2>2, LeafWritten
<1>14. CASE ~arg.overwrite
  <2>1. node' = Put(node, at, n)
    BY <1>2, <1>12, <1>14
  <2>2. Size(n) >= Size(node[at]) /\ Size(n) <= LeafMax
    BY <1>6, Minima DEF n
  <2> QED
    BY <1>1, <1>5, <2>1, <2>2, LeafWritten
<1> QED
  BY <1>13, <1>14

LEMMA InsertEntryInv == ASSUME IInv, InsertEntry PROVE IInv'
<1> DEFINE n  == node[at]
           es == Inserted(n.entries, NewEntry)
           m  == Filled(n, es)
<1>1. /\ pc = "insert" /\ n.kind = "leaf" /\ tree' = tree /\ root' = root /\ Finish
      /\ ~IsFull(n) /\ node' = Put(node, at, m)
  BY DEF InsertEntry, AtLeaf, Put, Filled
<1>2. /\ arg.key \in Keys /\ Nodes(node) /\ at \in DOMAIN node
  BY <1>1, Working
<1>3. NewEntry \in Entry
  <2>1. arg.val \in Values
    BY <1>1 DEF IInv, CallInv
  <2> QED
    BY <1>2, <2>1 DEF NewEntry, Entry, Keys
<1>4. n \in Leaf
  BY <1>1, <1>2, NodesAre
<1>5. n.entries \in Seq(Entry) /\ Size(n) = Len(n.entries) /\ Size(n) \in Nat /\ MaxSize(n) = LeafMax
  BY <1>4, LeafIs
<1>6. es \in Seq(Entry) /\ Len(es) = Len(n.entries) + 1
  BY <1>3, <1>5, InsertedIs
<1> HIDE DEF es
<1>7. m \in Leaf /\ m.entries = es
  BY <1>4, <1>6, LeafWith
<1>8. Size(m) = Size(n) + 1
  BY <1>5, <1>6, <1>7, LeafIs
<1>9. Size(n) < LeafMax
  BY <1>1, <1>5, Minima DEF IsFull
<1> HIDE DEF m
<1>10. Size(m) >= Size(n) /\ Size(m) <= LeafMax
  BY <1>5, <1>8, <1>9, Minima
<1> QED
  BY <1>1, <1>7, <1>10, LeafWritten

LEMMA EraseAbsentInv == ASSUME IInv, EraseAbsent PROVE IInv'
<1>1. /\ pc = "erase" /\ node[at].kind = "leaf" /\ tree' = tree /\ root' = root /\ Finish
      /\ node' = node
  BY DEF EraseAbsent, AtLeaf
<1>2. /\ Nodes(node) /\ at \in DOMAIN node /\ Stocked(node, root, NoPage)
  BY <1>1, Working
<1>3. node[at] \in Leaf
  BY <1>1, <1>2, NodesAre
<1>4. Size(node[at]) \in Nat /\ Size(node[at]) <= LeafMax
  BY <1>2, <1>3, LeafIs DEF Stocked
<1>5. Size(node[at]) >= Size(node[at])
  BY <1>4
<1>6. node = Put(node, at, node[at])
  BY <1>2 DEF Put, Nodes
<1> QED
  BY <1>1, <1>3, <1>4, <1>5, <1>6, LeafWritten

LEMMA FreshIs == ASSUME Room PROVE Fresh \in Pages /\ Fresh \notin DOMAIN node
  BY DEF Room, Fresh

Grown(g, f, p, m) ==
    /\ Nodes(g) /\ DOMAIN g = DOMAIN f \cup {p} /\ g[p] = m
    /\ \A q \in DOMAIN f : g[q] = f[q] /\ q # p

LEMMA WithIs ==
    ASSUME NEW f, Nodes(f), NEW p, p \in Pages, p \notin DOMAIN f,
           NEW m, m \in Leaf \cup Internal, NoRepeat(Kids(m))
    PROVE  Grown(With(f, p, m), f, p, m)
<1> DEFINE g == With(f, p, m)
<1>1. DOMAIN g = DOMAIN f \cup {p} /\ g[p] = m /\ \A q \in DOMAIN f : g[q] = f[q] /\ q # p
  BY DEF With
<1>2. g = [q \in DOMAIN f \cup {p} |-> IF q = p THEN m ELSE f[q]]
  BY DEF With
<1> HIDE DEF g
<1>3. \A q \in DOMAIN g : g[q] \in Leaf \cup Internal /\ NoRepeat(Kids(g[q])) /\ q \in Pages
  BY <1>1 DEF Nodes
<1>4. g \in [DOMAIN g -> Leaf \cup Internal]
  BY <1>1, <1>2, <1>3
<1> QED
  BY <1>1, <1>3, <1>4 DEF Nodes, Grown, g

\* A new page at some level.
Higher(h, p, v) ==
    \E k \in [DOMAIN h \cup {p} -> Nat] : k[p] = v /\ \A q \in DOMAIN h : q # p => k[q] = h[q]

LEMMA HeightWith ==
    ASSUME NEW h, h \in [DOMAIN h -> Nat], NEW p, NEW v \in Nat
    PROVE  Higher(h, p, v)
<1> DEFINE k == [q \in DOMAIN h \cup {p} |-> IF q = p THEN v ELSE h[q]]
<1>1. k \in [DOMAIN h \cup {p} -> Nat] /\ k[p] = v /\ \A q \in DOMAIN h : q # p => k[q] = h[q]
  OBVIOUS
<1> HIDE DEF k
<1> QED
  BY <1>1 DEF Higher

LEMMA StockedWith ==
    ASSUME NEW f, NEW r, Stocked(f, r, NoPage), NEW p \in DOMAIN f,
           NEW s, s \notin DOMAIN f, NEW g, DOMAIN g = DOMAIN f \cup {s},
           \A q \in DOMAIN f : q # p => g[q] = f[q],
           Fits(g[p]), Size(g[p]) \in Nat, Size(g[p]) >= MinSize(g[p]),
           Fits(g[s]), Size(g[s]) \in Nat, Size(g[s]) >= MinSize(g[s]),
           g[p].kind = "internal" => Size(g[p]) >= 1, g[s].kind = "internal" => Size(g[s]) >= 1,
           DOMAIN g \subseteq Pages
    PROVE  Stocked(g, r, NoPage)
<1>1. \A q \in DOMAIN g : Lack(q, NoPage) = 0
  BY Complete
<1>2. Size(g[p]) + 0 = Size(g[p]) /\ Size(g[s]) + 0 = Size(g[s])
  OBVIOUS
<1>3. \A q \in DOMAIN g : q = p \/ q = s \/ (q \in DOMAIN f /\ g[q] = f[q])
  OBVIOUS
<1> SUFFICES ASSUME NEW q \in DOMAIN g
             PROVE  /\ Fits(g[q])
                    /\ q # r => Size(g[q]) + Lack(q, NoPage) >= MinSize(g[q])
                    /\ g[q].kind = "internal" => Size(g[q]) + Lack(q, NoPage) >= 1
  BY DEF Stocked
<1>4. CASE q = p
  BY <1>1, <1>2, <1>4
<1>5. CASE q = s
  BY <1>1, <1>2, <1>5
<1>6. CASE q \in DOMAIN f /\ g[q] = f[q]
  BY <1>6, Zenon DEF Stocked
<1> QED
  BY <1>3, <1>4, <1>5, <1>6

\* A page has been split off the one the call is at.
LEMMA SplitOff ==
    ASSUME tree' \in Trees, pc' = "split", arg'.key \in Keys, path' \in Seq(Activation), under' \in BOOLEAN,
           split'.right \in Pages, split' \in [key : Keys, right : Pages],
           Nodes(node'), root' \in DOMAIN node', Stocked(node', root', NoPage),
           Size(node'[at']) >= MinSize(node'[at']),
           NEW h \in [DOMAIN node' -> Nat], Forest(KidsIn(node'), h, {root'} \cup {split'.right}, root'),
           Levels(node', h), Route(node', h, root', path', at'),
           split'.right # root', h[split'.right] = h[at']
    PROVE  IInv'
<1>1. pc' # "idle" /\ pc' # "insert" /\ pc' # "erase" /\ pc' # "erased"
  OBVIOUS
<1>2. CallInv'
  BY <1>1 DEF CallInv
<1>3. NodeInv' /\ SizeInv'
  BY <1>1 DEF NodeInv, SizeInv
<1>4. Tops' = {root'} \cup {split'.right}
  BY DEF Tops
<1>5. ShapeInv'
  BY <1>1, <1>4 DEF ShapeInv
<1> QED
  BY <1>2, <1>3, <1>5 DEF IInv

\* The two halves of a full leaf, with one entry more.
LEMMA LeafHalves ==
    ASSUME NEW es \in Seq(Entry), Len(es) = LeafMax, NEW e \in Entry
    PROVE  LET mid   == Len(es) \div 2
               lower == SubSeq(es, 1, mid)
               upper == SubSeq(es, mid + 1, Len(es))
           IN  /\ lower \in Seq(Entry) /\ Len(lower) >= LeafMin /\ Len(lower) + 1 <= LeafMax
               /\ upper \in Seq(Entry) /\ Len(upper) >= LeafMin /\ Len(upper) + 1 <= LeafMax
               /\ Inserted(lower, e) \in Seq(Entry) /\ Len(Inserted(lower, e)) = Len(lower) + 1
               /\ Inserted(upper, e) \in Seq(Entry) /\ Len(Inserted(upper, e)) = Len(upper) + 1
<1> DEFINE n     == Len(es)
           mid   == n \div 2
           lower == SubSeq(es, 1, mid)
           upper == SubSeq(es, mid + 1, n)
<1>1. mid = LeafMin /\ n = LeafMax
  BY DEF LeafMin
<1> HIDE DEF mid, n
<1>2. /\ mid \in Nat /\ n \in Nat /\ mid >= 1 /\ mid + mid <= n /\ n <= mid + mid + 1
      /\ 1 \in 1..n+1 /\ mid \in 1-1..n /\ mid - 1 + 1 = mid
      /\ mid + 1 \in 1..n+1 /\ n \in mid+1-1..n
  BY <1>1, Minima
<1>3. lower \in Seq(Entry) /\ Len(lower) = mid
  BY <1>2, SubSeqIs DEF n
<1>4. upper \in Seq(Entry) /\ Len(upper) = n - (mid + 1) + 1
  BY <1>2, SubSeqIs DEF n
<1> HIDE DEF lower, upper
<1>5. /\ Inserted(lower, e) \in Seq(Entry) /\ Len(Inserted(lower, e)) = Len(lower) + 1
      /\ Inserted(upper, e) \in Seq(Entry) /\ Len(Inserted(upper, e)) = Len(upper) + 1
  BY <1>3, <1>4, InsertedIs
<1>6. /\ Len(lower) >= LeafMin /\ Len(lower) + 1 <= LeafMax
      /\ Len(upper) >= LeafMin /\ Len(upper) + 1 <= LeafMax
  BY <1>1, <1>2, <1>3, <1>4
<1> QED
  BY <1>3, <1>4, <1>5, <1>6 DEF lower, upper, mid, n

LEMMA SplitLeafInv == ASSUME IInv, SplitLeaf PROVE IInv'
<1> DEFINE n     == node[at]
           es    == n.entries
           mid   == Len(es) \div 2
           lower == SubSeq(es, 1, mid)
           upper == SubSeq(es, mid + 1, Len(es))
           left  == IF arg.key < upper[1].key THEN Inserted(lower, NewEntry) ELSE lower
           right == IF arg.key < upper[1].key THEN upper ELSE Inserted(upper, NewEntry)
           f     == Fresh
           ln    == [n EXCEPT !.entries = left, !.next = f]
           rn    == [kind |-> "leaf", entries |-> right, next |-> n.next]
           g1    == Put(node, at, ln)
           g     == With(g1, f, rn)
<1>1. /\ pc = "insert" /\ n.kind = "leaf" /\ IsFull(n) /\ Room
      /\ split' = [key |-> right[1].key, right |-> f] /\ pc' = "split"
      /\ tree' = tree /\ root' = root /\ arg' = arg /\ at' = at /\ path' = path /\ under' = under
  BY DEF SplitLeaf, AtLeaf
<1>2. node' = g
  <2>1. node' = With([node EXCEPT ![at].entries = left, ![at].next = f], f, rn)
    BY DEF SplitLeaf
  <2>2. [node EXCEPT ![at].entries = left, ![at].next = f] = g1
    <3> HIDE DEF left
    <3> QED
      BY DEF Put
  <2> QED
    BY <2>1, <2>2
<1>3. /\ tree \in Trees /\ arg.key \in Keys /\ path \in Seq(Activation) /\ under \in BOOLEAN
      /\ Nodes(node) /\ root \in DOMAIN node /\ at \in DOMAIN node /\ Stocked(node, root, NoPage)
  BY <1>1, Working
<1>4. Tops = {root}
  BY <1>1 DEF Tops
<1>5. PICK h \in [DOMAIN node -> Nat] :
         /\ Forest(KidsIn(node), h, {root}, root) /\ Levels(node, h) /\ Route(node, h, root, path, at)
  BY <1>1, <1>4, Working
<1>6. f \in Pages /\ f \notin DOMAIN node
  BY <1>1, FreshIs
<1>7. NewEntry \in Entry
  <2>1. arg.val \in Values
    BY <1>1 DEF IInv, CallInv
  <2> QED
    BY <1>3, <2>1 DEF NewEntry, Entry, Keys
<1>8. n \in Leaf /\ at \in Pages
  BY <1>1, <1>3, NodesAre
<1>9. /\ es \in Seq(Entry) /\ n.next \in Pages \cup {NoPage} /\ Len(es) = LeafMax
  <2>1. /\ es \in Seq(Entry) /\ n.next \in Pages \cup {NoPage} /\ Size(n) = Len(es)
        /\ Size(n) \in Nat /\ MaxSize(n) = LeafMax /\ (Fits(n) <=> Len(es) <= LeafMax)
    BY <1>8, LeafIs
  <2>2. Fits(n)
    BY <1>3 DEF Stocked
  <2>3. Size(n) >= MaxSize(n)
    BY <1>1 DEF IsFull
  <2> QED
    BY <2>1, <2>2, <2>3, Minima
<1>10. /\ lower \in Seq(Entry) /\ Len(lower) >= LeafMin /\ Len(lower) + 1 <= LeafMax
       /\ upper \in Seq(Entry) /\ Len(upper) >= LeafMin /\ Len(upper) + 1 <= LeafMax
       /\ Inserted(lower, NewEntry) \in Seq(Entry) /\ Len(Inserted(lower, NewEntry)) = Len(lower) + 1
       /\ Inserted(upper, NewEntry) \in Seq(Entry) /\ Len(Inserted(upper, NewEntry)) = Len(upper) + 1
  <2> HIDE DEF es
  <2> QED
    BY <1>7, <1>9, LeafHalves
<1> HIDE DEF lower, upper
<1>11. /\ left \in Seq(Entry) /\ Len(left) \in Nat /\ Len(left) >= LeafMin /\ Len(left) <= LeafMax
       /\ right \in Seq(Entry) /\ Len(right) \in Nat /\ Len(right) >= LeafMin /\ Len(right) <= LeafMax
  <2>1. Len(lower) \in Nat /\ Len(upper) \in Nat
    BY <1>10, SeqIs
  <2>2. CASE arg.key < upper[1].key
    <3>1. left = Inserted(lower, NewEntry) /\ right = upper
      BY <2>2
    <3> QED
      BY <1>10, <2>1, <3>1, Minima
  <2>3. CASE ~(arg.key < upper[1].key)
    <3>1. left = lower /\ right = Inserted(upper, NewEntry)
      BY <2>3
    <3> QED
      BY <1>10, <2>1, <3>1, Minima
  <2> QED
    BY <2>2, <2>3
<1> HIDE DEF left, right, f
<1>12. ln \in Leaf /\ ln.entries = left /\ rn \in Leaf /\ rn.entries = right
  BY <1>6, <1>8, <1>9, <1>11 DEF Leaf
<1> HIDE DEF ln, rn, n
<1>13. /\ Size(ln) = Len(left) /\ MinSize(ln) = LeafMin /\ Fits(ln) /\ ln.kind = "leaf" /\ Kids(ln) = <<>>
       /\ Size(rn) = Len(right) /\ MinSize(rn) = LeafMin /\ Fits(rn) /\ rn.kind = "leaf" /\ Kids(rn) = <<>>
       /\ ToSet(Kids(rn)) = {} /\ NoRepeat(Kids(rn)) /\ NoRepeat(Kids(ln))
  BY <1>11, <1>12, LeafIs
<1>14. /\ Nodes(g1) /\ DOMAIN g1 = DOMAIN node /\ g1[at] = ln
       /\ \A q \in DOMAIN node : q # at => g1[q] = node[q]
       /\ KidsIn(g1) = KidsIn(node) /\ Levels(g1, h)
  <2>1. ln.kind = node[at].kind /\ Kids(ln) = Kids(node[at]) /\ ln \in Leaf \cup Internal
    BY <1>8, <1>12, LeafIs DEF n
  <2> QED
    BY <1>3, <1>5, <2>1, Rewritten
<1> HIDE DEF g1
<1>15. /\ Nodes(g) /\ DOMAIN g = DOMAIN node \cup {f} /\ g[f] = rn
       /\ \A q \in DOMAIN node : g[q] = g1[q] /\ q # f
  <2>1. rn \in Leaf \cup Internal /\ f \notin DOMAIN g1
    BY <1>6, <1>12, <1>14
  <2>2. Grown(With(g1, f, rn), g1, f, rn)
    BY <1>6, <1>13, <1>14, <2>1, WithIs
  <2> QED
    BY <1>14, <2>2 DEF Grown
<1> HIDE DEF g
<1>16. g[at] = ln /\ \A q \in DOMAIN node : q # at => g[q] = node[q]
  BY <1>3, <1>14, <1>15
<1>17. Stocked(g, root, NoPage)
  <2>1. /\ Fits(g[at]) /\ Size(g[at]) \in Nat /\ Size(g[at]) >= MinSize(g[at])
        /\ Fits(g[f]) /\ Size(g[f]) \in Nat /\ Size(g[f]) >= MinSize(g[f])
        /\ g[at].kind # "internal" /\ g[f].kind # "internal"
    BY <1>11, <1>13, <1>15, <1>16
  <2>2. DOMAIN g \subseteq Pages
    BY <1>15 DEF Nodes
  <2> QED
    BY <1>3, <1>6, <1>15, <1>16, <2>1, <2>2, StockedWith
<1>18. h[at] = 0 /\ h[root] \in Nat
  BY <1>1, <1>3, <1>5 DEF Levels, n
<1>19. PICK k \in [DOMAIN node \cup {f} -> Nat] : k[f] = 0 /\ \A q \in DOMAIN node : q # f => k[q] = h[q]
  <2>1. DOMAIN h = DOMAIN node /\ h \in [DOMAIN h -> Nat] /\ 0 \in Nat
    OBVIOUS
  <2>2. Higher(h, f, 0)
    BY <2>1, HeightWith
  <2> QED
    BY <2>1, <2>2 DEF Higher
<1>20. \A q \in DOMAIN node : k[q] = h[q]
  BY <1>6, <1>19
<1>21. Forest(KidsIn(g), k, {root} \cup {f}, root)
  <2>1. DOMAIN KidsIn(node) = DOMAIN node /\ DOMAIN KidsIn(g) = DOMAIN node \cup {f} /\ KidsIn(g)[f] = {}
    BY <1>13, <1>15, KidsInIs
  <2>2. \A q \in DOMAIN node : KidsIn(g)[q] = KidsIn(node)[q]
    <3>1. \A q \in DOMAIN node : KidsIn(g)[q] = KidsIn(g1)[q]
      BY <1>14, <1>15, KidsInIs
    <3> QED
      BY <3>1, <1>14
  <2>3. 0 \in Nat /\ 0 <= h[root] /\ k \in [DOMAIN KidsIn(g) -> Nat]
    BY <1>18, <1>19, <2>1
  <2>4. \A q \in DOMAIN KidsIn(node) : KidsIn(g)[q] = KidsIn(node)[q]
    BY <2>1, <2>2
  <2>5. \A q \in DOMAIN KidsIn(node) : k[q] = h[q]
    BY <2>1, <1>20
  <2>6. f \notin DOMAIN KidsIn(node) /\ DOMAIN KidsIn(g) = DOMAIN KidsIn(node) \cup {f}
    BY <1>6, <2>1
  <2> QED
    BY <1>5, <1>19, <2>1, <2>3, <2>4, <2>5, <2>6, Planted
<1>22. Levels(g, k)
  <2>1. \A q \in DOMAIN node : g[q].kind = "leaf" <=> k[q] = 0
    BY <1>14, <1>15, <1>20 DEF Levels
  <2>2. g[f].kind = "leaf" <=> k[f] = 0
    BY <1>13, <1>15, <1>19
  <2> QED
    BY <1>15, <2>1, <2>2 DEF Levels
<1>23. Route(g, k, root, path, at)
  <2>1. \A i \in DOMAIN path : /\ path[i].id \in DOMAIN g /\ g[path[i].id] = node[path[i].id]
                                /\ k[path[i].id] = h[path[i].id]
    <3> SUFFICES ASSUME NEW i \in DOMAIN path
                 PROVE  /\ path[i].id \in DOMAIN g /\ g[path[i].id] = node[path[i].id]
                        /\ k[path[i].id] = h[path[i].id]
      OBVIOUS
    <3>1. path[i].id \in DOMAIN node /\ node[path[i].id].kind = "internal"
      BY <1>5 DEF Route
    <3>2. path[i].id # at
      BY <1>1, <3>1 DEF n
    <3> QED
      BY <1>15, <1>16, <1>20, <3>1, <3>2
  <2>2. at \in DOMAIN g /\ k[at] = h[at] /\ k[root] = h[root]
    BY <1>3, <1>15, <1>20
  <2> QED
    BY <1>5, <2>1, <2>2, RouteKept
<1>24. split' \in [key : Keys, right : Pages] /\ split'.right = f
  <2>1. right[1] \in Entry
    <3>1. 1 \in 1..Len(right)
      BY <1>11, Minima
    <3> QED
      BY <1>11, <3>1, SeqIs
  <2>2. right[1].key \in Keys
    BY <2>1 DEF Entry, Keys
  <2> QED
    BY <1>1, <1>6, <2>2
<1>25. f # root /\ k[f] = k[at] /\ root \in DOMAIN g /\ Size(g[at]) >= MinSize(g[at])
  BY <1>3, <1>6, <1>11, <1>13, <1>15, <1>16, <1>18, <1>19, <1>20
<1>26. k \in [DOMAIN g -> Nat]
  BY <1>15, <1>19
<1> QED
  BY <1>1, <1>2, <1>3, <1>6, <1>15, <1>17, <1>21, <1>22, <1>23, <1>24, <1>25, <1>26, SplitOff

\* A child's split, or its erasure, is dealt with by the page above it.
LEMMA ParentIs ==
    ASSUME Nodes(node), root \in DOMAIN node, path \in Seq(Activation), path # <<>>,
           NEW h \in [DOMAIN node -> Nat], Route(node, h, root, path, at)
    PROVE  /\ Above.id \in DOMAIN node /\ Above.copy = node[Above.id] /\ node[Above.id] \in Internal
           /\ Above.ci \in DOMAIN node[Above.id].children /\ node[Above.id].children[Above.ci] = at
           /\ h[Above.id] = h[at] + 1 /\ h[at] < h[root]
           /\ Front(path) \in Seq(Activation) /\ Route(node, h, root, Front(path), Above.id)
           /\ \A i \in DOMAIN Front(path) : Front(path)[i].id \in DOMAIN node /\ h[Front(path)[i].id] > h[Above.id]
<1>1. /\ Above.id \in DOMAIN node /\ Above.copy = node[Above.id] /\ node[Above.id].kind = "internal"
      /\ Above.ci \in DOMAIN node[Above.id].children /\ node[Above.id].children[Above.ci] = at
      /\ h[Above.id] = h[at] + 1 /\ h[at] < h[root]
      /\ Front(path) \in Seq(Activation) /\ Route(node, h, root, Front(path), Above.id)
      /\ \A i \in DOMAIN Front(path) : Front(path)[i].id \in DOMAIN node /\ h[Front(path)[i].id] > h[Above.id]
  BY RoutePopped DEF Above
<1>2. node[Above.id] \in Internal
  BY <1>1, NodesAre
<1> QED
  BY <1>1, <1>2

\* The page split off is a top one: no child yet.
LEMMA SplitIs ==
    ASSUME IInv, pc = "split"
    PROVE  /\ split.key \in Keys /\ split.right \in Pages /\ split.right # root
           /\ Tops = {root} \cup {split.right} /\ split.right \in DOMAIN node
           /\ \A p \in DOMAIN node : split.right \notin ToSet(Kids(node[p]))
<1>1. split.key \in Keys /\ split.right \in Pages
  BY DEF IInv, CallInv
<1>2. Tops = {root} \cup {split.right}
  BY DEF Tops
<1>3. PICK h \in [DOMAIN node -> Nat] :
         Forest(KidsIn(node), h, {root} \cup {split.right}, root) /\ split.right # root
  BY <1>2, Working
<1>4. split.right \in DOMAIN node /\ \A p \in DOMAIN node : split.right \notin KidsIn(node)[p]
  BY <1>3, KidsInIs DEF Forest
<1> QED
  BY <1>1, <1>2, <1>3, <1>4, KidsInIs

LEMMA AbsorbSplitInv == ASSUME IInv, AbsorbSplit PROVE IInv'
<1> DEFINE q == Above.id
           n == node[q]
           r == split.right
           m == WithChild(n, Above.ci, split)
           g == Put(node, q, m)
<1>1. /\ pc = "split" /\ path # <<>> /\ ~IsFull(Above.copy)
      /\ node' = [node EXCEPT ![q] = WithChild(Above.copy, Above.ci, split)]
      /\ tree' = tree /\ root' = root /\ Finish
  BY DEF AbsorbSplit
<1>2. /\ tree \in Trees /\ path \in Seq(Activation)
      /\ Nodes(node) /\ root \in DOMAIN node /\ at \in DOMAIN node /\ Stocked(node, root, NoPage)
  BY <1>1, Working
<1>3. /\ split.key \in Keys /\ r \in Pages /\ r # root
      /\ Tops = {root} \cup {r} /\ r \in DOMAIN node
      /\ \A p \in DOMAIN node : r \notin ToSet(Kids(node[p]))
  BY <1>1, SplitIs
<1>4. PICK h \in [DOMAIN node -> Nat] :
         /\ Forest(KidsIn(node), h, {root} \cup {r}, root) /\ Levels(node, h)
         /\ Route(node, h, root, path, at) /\ h[r] = h[at]
  BY <1>1, <1>3, Working
<1>5. /\ q \in DOMAIN node /\ Above.copy = n /\ n \in Internal /\ Above.ci \in DOMAIN n.children
      /\ h[q] = h[at] + 1
  BY <1>1, <1>2, <1>4, ParentIs
<1>6. node' = g
  BY <1>1, <1>5 DEF Put
<1> HIDE DEF q, r
<1>7. /\ Fits(n) /\ NoRepeat(Kids(n)) /\ q \in Pages
  BY <1>2, <1>5 DEF Stocked, Nodes
<1>8. /\ n.kind = "internal" /\ n.keys \in Seq(Keys) /\ n.children \in Seq(Pages)
      /\ Size(n) = Len(n.keys) /\ Size(n) \in Nat /\ MinSize(n) = InternalMin /\ MaxSize(n) = InternalMax
      /\ Kids(n) = n.children /\ Len(n.children) = Len(n.keys) + 1
  BY <1>5, <1>7, InternalIs
<1>9. Above.ci \in 1..Len(n.keys)+1
  BY <1>5, <1>8, SeqIs
<1>10. r \notin ToSet(n.children) /\ NoRepeat(n.children)
  BY <1>3, <1>5, <1>7, <1>8
<1>11. /\ m \in Internal
       /\ Len(m.keys) = Len(n.keys) + 1 /\ Len(m.children) = Len(m.keys) + 1
       /\ NoRepeat(m.children) /\ ToSet(m.children) = ToSet(n.children) \cup {r}
  <2> HIDE DEF n
  <2>1. Enlarged(WithChild(n, Above.ci, split), n, split.right)
    BY <1>3, <1>5, <1>8, <1>9, <1>10, WithChildIs DEF r
  <2> QED
    BY <2>1 DEF r, Enlarged
<1> HIDE DEF m
<1>12. /\ m.kind = "internal" /\ Size(m) = Len(m.keys) /\ Size(m) \in Nat
       /\ MinSize(m) = InternalMin /\ Kids(m) = m.children
       /\ Fits(m) <=> Len(m.keys) <= InternalMax /\ Len(m.children) = Len(m.keys) + 1
  BY <1>11, InternalIs
<1>13. /\ Nodes(g) /\ DOMAIN g = DOMAIN node /\ g[q] = m
       /\ \A p \in DOMAIN node : p # q => g[p] = node[p]
  <2>1. m \in Leaf \cup Internal /\ NoRepeat(Kids(m))
    BY <1>11, <1>12
  <2> QED
    BY <1>2, <1>5, <2>1, PutIs
<1> HIDE DEF g
<1>14. Forest(KidsIn(g), h, {root}, root)
  <2> DEFINE T == {root} \cup {r}
             kids == KidsIn(node)
             kids2 == KidsIn(g)
  <2>1. DOMAIN kids = DOMAIN node /\ DOMAIN kids2 = DOMAIN kids
    BY <1>13, KidsInIs
  <2>2. \A p \in DOMAIN kids \ {q} : kids2[p] = kids[p]
    BY <2>1, <1>13, KidsInIs
  <2>3. kids2[q] = kids[q] \cup {r}
    <3>1. kids2[q] = ToSet(m.children) /\ kids[q] = ToSet(n.children)
      BY <1>5, <1>8, <1>12, <1>13, KidsInIs
    <3> QED
      BY <1>11, <3>1
  <2>4. r \in T /\ h[r] + 1 = h[q] /\ q \in DOMAIN kids
    BY <1>4, <1>5, <2>1
  <2>5. Forest(kids, h, T, root)
    BY <1>4
  <2>6. T \ {r} = {root}
    BY <1>3
  <2> HIDE DEF T, kids, kids2
  <2>7. Forest(kids2, h, T \ {r}, root)
    BY <1>3, <2>1, <2>2, <2>3, <2>4, <2>5, Adopted
  <2> QED
    BY <2>6, <2>7 DEF kids2
<1>15. Levels(g, h)
  <2>1. \A p \in DOMAIN node : g[p].kind = node[p].kind
    BY <1>8, <1>12, <1>13
  <2> QED
    BY <1>4, <1>13, <2>1 DEF Levels
<1>16. Stocked(g, root, NoPage)
  <2>0. ~IsFull(n)
    BY <1>1, <1>5
  <2> HIDE DEF n
  <2>1. Len(n.keys) < InternalMax
    BY <2>0, <1>8, Minima DEF IsFull
  <2>2. Len(m.keys) <= InternalMax /\ Size(m) = Size(n) + 1
    BY <1>8, <1>11, <1>12, <2>1, Minima
  <2>3. Lack(q, NoPage) = 0
    BY <1>7, Complete
  <2>4. q # root => Size(n) + 0 >= InternalMin
    BY <1>2, <1>5, <1>8, <2>3 DEF Stocked, n
  <2>5. /\ Fits(m) /\ (q # root => Size(m) + Lack(q, NoPage) >= MinSize(m))
        /\ Size(m) + Lack(q, NoPage) >= 1
    BY <1>8, <1>11, <1>12, <2>2, <2>3, <2>4, Minima
  <2>6. \A p \in DOMAIN node : p # q => p # NoPage
    BY <1>2, NoPageIs DEF Nodes
  <2>7. /\ Fits(g[q]) /\ (q # root => Size(g[q]) + Lack(q, NoPage) >= MinSize(g[q]))
        /\ g[q].kind = "internal" => Size(g[q]) + Lack(q, NoPage) >= 1
    BY <1>13, <2>5
  <2> QED
    BY <1>2, <1>5, <1>13, <2>6, <2>7, Restocked
<1> QED
  BY <1>1, <1>2, <1>4, <1>6, <1>13, <1>14, <1>15, <1>16, Finished

LEMMA GrowRootInv == ASSUME IInv, GrowRoot PROVE IInv'
<1> DEFINE f == Fresh
           r == split.right
           m == [kind |-> "internal", keys |-> <<split.key>>, children |-> <<root, r>>]
           g == With(node, f, m)
<1>1. /\ pc = "split" /\ path = <<>> /\ Room /\ node' = g /\ root' = f /\ Finish /\ tree' = tree
  BY DEF GrowRoot
<1>2. /\ tree \in Trees
      /\ Nodes(node) /\ root \in DOMAIN node /\ at \in DOMAIN node /\ Stocked(node, root, NoPage)
  BY <1>1, Working
<1>3. split.key \in Keys /\ r \in Pages /\ r # root /\ Tops = {root} \cup {r} /\ r \in DOMAIN node
  BY <1>1, SplitIs
<1>4. PICK h \in [DOMAIN node -> Nat] :
         /\ Forest(KidsIn(node), h, {root} \cup {r}, root) /\ Levels(node, h)
         /\ Route(node, h, root, path, at) /\ h[r] = h[at]
  BY <1>1, <1>3, Working
<1>5. at = root
  <2>1. Stop(path, at, 1) = at
    BY <1>1 DEF Stop
  <2> QED
    BY <1>4, <2>1 DEF Route
<1>6. f \in Pages /\ f \notin DOMAIN node /\ root \in Pages
  BY <1>1, <1>2, FreshIs DEF Nodes
<1> HIDE DEF f, r
<1>7. /\ m \in Internal /\ Len(m.keys) = 1 /\ Len(m.children) = 2
      /\ m.children = <<root, r>>
  BY <1>3, <1>6 DEF Internal, Keys
<1>8. ToSet(m.children) = {root, r} /\ NoRepeat(m.children)
  <2>1. DOMAIN <<root, r>> = {1, 2} /\ <<root, r>>[1] = root /\ <<root, r>>[2] = r
    OBVIOUS
  <2> HIDE DEF m
  <2> QED
    BY <1>3, <1>7, <2>1 DEF ToSet, NoRepeat
<1> HIDE DEF m
<1>9. m.kind = "internal" /\ Size(m) = 1 /\ Kids(m) = m.children /\ Fits(m)
  <2>1. 1 <= InternalMax /\ 2 = 1 + 1
    BY Minima
  <2> QED
    BY <1>7, <2>1, InternalIs
<1>10. Grown(g, node, f, m)
  <2>1. m \in Leaf \cup Internal /\ NoRepeat(Kids(m))
    BY <1>7, <1>8, <1>9
  <2> QED
    BY <1>2, <1>6, <2>1, WithIs
<1> HIDE DEF g
<1>11. /\ Nodes(g) /\ DOMAIN g = DOMAIN node \cup {f} /\ g[f] = m
       /\ \A q \in DOMAIN node : g[q] = node[q] /\ q # f
  BY <1>10 DEF Grown
<1>12. h[root] \in Nat /\ h[r] = h[root]
  BY <1>2, <1>4, <1>5
<1>13. PICK k \in [DOMAIN node \cup {f} -> Nat] :
          k[f] = h[root] + 1 /\ \A q \in DOMAIN node : q # f => k[q] = h[q]
  <2>1. DOMAIN h = DOMAIN node /\ h \in [DOMAIN h -> Nat] /\ h[root] + 1 \in Nat
    BY <1>12
  <2>2. PICK v \in Nat : v = h[root] + 1
    BY <2>1
  <2>3. Higher(h, f, v)
    BY <2>1, HeightWith
  <2> QED
    BY <2>1, <2>2, <2>3 DEF Higher
<1>14. \A q \in DOMAIN node : k[q] = h[q]
  BY <1>6, <1>13
<1>15. Forest(KidsIn(g), k, {f}, f)
  <2> DEFINE kids == KidsIn(node)
             kids2 == KidsIn(g)
  <2>1. DOMAIN kids = DOMAIN node /\ DOMAIN kids2 = DOMAIN kids \cup {f} /\ f \notin DOMAIN kids
    BY <1>6, <1>11, KidsInIs
  <2>2. \A p \in DOMAIN kids : kids2[p] = kids[p]
    BY <2>1, <1>11, KidsInIs
  <2>3. kids2[f] = {root, r}
    BY <1>8, <1>9, <1>11, KidsInIs
  <2>4. \A p \in DOMAIN kids : k[p] = h[p]
    BY <2>1, <1>14
  <2>5. k \in [DOMAIN kids2 -> Nat]
    BY <2>1, <1>13
  <2>6. {root} \cup {r} = {root, r}
    OBVIOUS
  <2>7. Forest(kids, h, {root, r}, root)
    BY <1>4, <2>6
  <2> HIDE DEF kids, kids2
  <2>9. PICK T : T = {root, r}
    OBVIOUS
  <2>10. Forest(kids, h, T, root) /\ kids2[f] = T /\ r \in T /\ T \subseteq {root, r}
    BY <2>3, <2>7, <2>9
  <2>11. Crowning(kids, h, T, root, r, f, kids2, k)
    BY <1>3, <1>12, <1>13, <2>1, <2>2, <2>4, <2>5, <2>10 DEF Crowning
  <2>8. Forest(kids2, k, {f}, f)
    BY <2>11, Crowned
  <2> QED
    BY <2>8 DEF kids2
<1>16. Levels(g, k)
  <2>1. \A q \in DOMAIN node : g[q].kind = "leaf" <=> k[q] = 0
    BY <1>4, <1>11, <1>14 DEF Levels
  <2>2. g[f].kind # "leaf" /\ k[f] # 0
    BY <1>9, <1>11, <1>12, <1>13
  <2> QED
    BY <1>11, <2>1, <2>2 DEF Levels
<1>17. Stocked(g, f, NoPage)
  <2>1. Size(node[root]) >= MinSize(node[root])
    BY <1>1, <1>5 DEF IInv, SizeInv
  <2>2. node[root] \in Leaf \cup Internal
    BY <1>2 DEF Nodes
  <2>3. Size(node[root]) \in Nat /\ Size(node[root]) + 0 = Size(node[root])
    BY <2>2, LeafIs, InternalIs
  <2>4. \A q \in DOMAIN g : Lack(q, NoPage) = 0
    BY <1>11, Complete DEF Nodes
  <2> SUFFICES ASSUME NEW q \in DOMAIN g
               PROVE  /\ Fits(g[q])
                      /\ q # f => Size(g[q]) + Lack(q, NoPage) >= MinSize(g[q])
                      /\ g[q].kind = "internal" => Size(g[q]) + Lack(q, NoPage) >= 1
    BY DEF Stocked
  <2>5. CASE q = f
    BY <1>9, <1>11, <2>4, <2>5
  <2>6. CASE q \in DOMAIN node
    <3>1. g[q] = node[q] /\ q \in DOMAIN node
      BY <1>11, <2>6
    <3>2. /\ Fits(g[q]) /\ (q # root => Size(g[q]) + Lack(q, NoPage) >= MinSize(g[q]))
          /\ g[q].kind = "internal" => Size(g[q]) + Lack(q, NoPage) >= 1
      BY <1>2, <3>1, Zenon DEF Stocked
    <3>3. Size(node[root]) + Lack(root, NoPage) >= MinSize(node[root])
      BY <2>1, <2>3, <2>4, <1>2, <1>11
    <3> QED
      BY <3>1, <3>2, <3>3
  <2> QED
    BY <1>11, <2>5, <2>6
<1>18. k \in [DOMAIN g -> Nat] /\ f \in DOMAIN g
  BY <1>11, <1>13
<1> QED
  BY <1>1, <1>2, <1>11, <1>15, <1>16, <1>17, <1>18, Finished

\* The two halves of a full internal node, without its median.
Halved(lower, upper, n) ==
    /\ lower \in Internal /\ Len(lower.keys) = InternalMin
    /\ Len(lower.children) = Len(lower.keys) + 1 /\ NoRepeat(lower.children)
    /\ upper \in Internal /\ Len(upper.keys) = InternalMin
    /\ Len(upper.children) = Len(upper.keys) + 1 /\ NoRepeat(upper.children)
    /\ ToSet(lower.children) \cup ToSet(upper.children) = ToSet(n.children)
    /\ ToSet(lower.children) \cap ToSet(upper.children) = {}

LEMMA InternalHalves ==
    ASSUME NEW n \in Internal, Len(n.keys) = InternalMax, Len(n.children) = Len(n.keys) + 1,
           NoRepeat(n.children)
    PROVE  LET mid   == Len(n.keys) \div 2
               lower == [n EXCEPT !.keys = SubSeq(@, 1, mid), !.children = SubSeq(@, 1, mid + 1)]
               upper == [n EXCEPT !.keys = SubSeq(@, mid + 2, Len(@)),
                                  !.children = SubSeq(@, mid + 2, Len(@))]
           IN  Halved(lower, upper, n) /\ n.keys[mid + 1] \in Keys
<1> DEFINE c     == Len(n.keys)
           mid   == c \div 2
           d     == mid + 1
           lk    == SubSeq(n.keys, 1, mid)
           lc    == SubSeq(n.children, 1, d)
           uk    == SubSeq(n.keys, mid + 2, Len(n.keys))
           uc    == SubSeq(n.children, mid + 2, Len(n.children))
           lower == Linked(n, lk, lc)
           upper == Linked(n, uk, uc)
<1>1. n.keys \in Seq(Keys) /\ n.children \in Seq(Pages)
  BY InternalIs
<1>2. mid = InternalMin /\ c = InternalMax
  BY DEF InternalMin
<1>3. /\ mid \in Nat /\ mid >= 1 /\ c = mid + mid + 1 /\ c \in Nat
  BY <1>2, Minima
<1> HIDE DEF mid, c
<1>4. /\ 1 \in 1..c+1 /\ mid \in 1-1..c /\ mid - 1 + 1 = mid
      /\ mid + 2 \in 1..c+1 /\ c \in mid+2-1..c /\ c - (mid + 2) + 1 = mid
      /\ d \in Nat /\ d = mid + 1 /\ d \in 1..c /\ d \in 0..c+1 /\ d + 1 = mid + 2
  BY <1>3
<1>5. lk \in Seq(Keys) /\ Len(lk) = mid
  BY <1>1, <1>4, SubSeqIs DEF c
<1>6. uk \in Seq(Keys) /\ Len(uk) = mid
  <2>1. uk \in Seq(Keys) /\ Len(uk) = c - (mid + 2) + 1
    BY <1>1, <1>4, SubSeqIs DEF c
  <2> QED
    BY <2>1, <1>4
<1>7. Len(n.children) = c + 1
  BY DEF c
<1> HIDE DEF d
<1>8. lc \in Seq(Pages) /\ Len(lc) = d
  <2>1. 1 \in 1..Len(n.children)+1 /\ d \in 1-1..Len(n.children) /\ d - 1 + 1 = d
    BY <1>3, <1>4, <1>7
  <2> QED
    BY <1>1, <2>1, SubSeqIs
<1>9. uc \in Seq(Pages) /\ Len(uc) = d
  <2>1. /\ mid + 2 \in 1..Len(n.children)+1 /\ Len(n.children) \in mid+2-1..Len(n.children)
        /\ Len(n.children) - (mid + 2) + 1 = d
    BY <1>3, <1>4, <1>7
  <2>2. uc \in Seq(Pages) /\ Len(uc) = Len(n.children) - (mid + 2) + 1
    BY <1>1, <2>1, SubSeqIs
  <2> QED
    BY <2>1, <2>2
<1>10. /\ ToSet(lc) \cup ToSet(uc) = ToSet(n.children)
       /\ ToSet(lc) \cap ToSet(uc) = {}
       /\ NoRepeat(lc) /\ NoRepeat(uc)
  <2>1. d \in 0..Len(n.children)
    BY <1>4, <1>7
  <2>2. uc = SubSeq(n.children, d + 1, Len(n.children))
    BY <1>4
  <2> QED
    BY <1>1, <2>1, <2>2, HalvedKids
<1> HIDE DEF lk, uk, lc, uc
<1>11. /\ lower \in Internal /\ lower.keys = lk /\ lower.children = lc
       /\ upper \in Internal /\ upper.keys = uk /\ upper.children = uc
  BY <1>5, <1>6, <1>8, <1>9, InternalWith
<1> HIDE DEF lower, upper
<1>12. Halved(lower, upper, n)
  BY <1>2, <1>4, <1>5, <1>6, <1>8, <1>9, <1>10, <1>11 DEF Halved
<1>13. n.keys[mid + 1] \in Keys
  <2>1. n.keys[d] \in Keys
    BY <1>1, <1>4, SeqIs DEF c
  <2> QED
    BY <2>1, <1>4
<1> QED
  BY <1>12, <1>13 DEF lower, upper, lk, uk, lc, uc, d, mid, c, Linked

\* The halves a node splits into, one of them with the page split off below.
Parted(left, right, n, r) ==
    /\ left \in Internal /\ InternalMin <= Len(left.keys) /\ Len(left.keys) <= InternalMax
    /\ Len(left.children) = Len(left.keys) + 1 /\ NoRepeat(left.children)
    /\ right \in Internal /\ InternalMin <= Len(right.keys) /\ Len(right.keys) <= InternalMax
    /\ Len(right.children) = Len(right.keys) + 1 /\ NoRepeat(right.children)
    /\ ToSet(left.children) \cup ToSet(right.children) = ToSet(n.children) \cup {r}
    /\ ToSet(left.children) \cap ToSet(right.children) = {}

LEMMA RoutedIs ==
    ASSUME NEW half \in Internal, Len(half.keys) = InternalMin, Len(half.children) = Len(half.keys) + 1,
           NoRepeat(half.children), NEW s, s.key \in Keys, s.right \in Pages, s.right \notin ToSet(half.children)
    PROVE  Enlarged(WithChild(half, ChildIndexFor(half, s.key), s), half, s.right)
<1>1. Fits(half)
  BY InternalIs, Minima
<1>2. ChildIndexFor(half, s.key) \in 1..Len(half.keys)+1
  BY <1>1, ChildIndexIn
<1> QED
  BY <1>2, WithChildIs

LEMMA PartedIs ==
    ASSUME NEW lower, NEW upper, NEW n, Halved(lower, upper, n),
           NEW s, s.key \in Keys, s.right \in Pages, s.right \notin ToSet(n.children)
    PROVE  /\ Parted(WithChild(lower, ChildIndexFor(lower, s.key), s), upper, n, s.right)
           /\ Parted(lower, WithChild(upper, ChildIndexFor(upper, s.key), s), n, s.right)
<1> DEFINE ll == WithChild(lower, ChildIndexFor(lower, s.key), s)
           uu == WithChild(upper, ChildIndexFor(upper, s.key), s)
           r  == s.right
<1>1. r \notin ToSet(lower.children) /\ r \notin ToSet(upper.children)
  BY DEF Halved
<1>2. Enlarged(ll, lower, r) /\ Enlarged(uu, upper, r)
  BY <1>1, RoutedIs DEF Halved
<1> HIDE DEF ll, uu, r
<1>3. /\ InternalMin \in Nat /\ InternalMin <= InternalMin /\ InternalMin <= InternalMin + 1
      /\ InternalMin <= InternalMax /\ InternalMin + 1 <= InternalMax
  BY Minima
<1>4. /\ ToSet(ll.children) \cup ToSet(upper.children) = ToSet(n.children) \cup {r}
      /\ ToSet(ll.children) \cap ToSet(upper.children) = {}
  BY <1>1, <1>2 DEF Enlarged, Halved
<1>5. /\ ToSet(lower.children) \cup ToSet(uu.children) = ToSet(n.children) \cup {r}
      /\ ToSet(lower.children) \cap ToSet(uu.children) = {}
  BY <1>1, <1>2 DEF Enlarged, Halved
<1>6. Len(ll.keys) = InternalMin + 1 /\ Len(uu.keys) = InternalMin + 1
  BY <1>2 DEF Enlarged, Halved
<1>7. Parted(ll, upper, n, r)
  BY <1>2, <1>3, <1>4, <1>6 DEF Enlarged, Halved, Parted
<1>8. Parted(lower, uu, n, r)
  BY <1>2, <1>3, <1>5, <1>6 DEF Enlarged, Halved, Parted
<1> QED
  BY <1>7, <1>8 DEF ll, uu, r

LEMMA SplitInternalInv == ASSUME IInv, SplitInternal PROVE IInv'
<1> DEFINE q      == Above.id
           n      == Above.copy
           mid    == Len(n.keys) \div 2
           median == n.keys[mid + 1]
           lower  == [n EXCEPT !.keys = SubSeq(@, 1, mid), !.children = SubSeq(@, 1, mid + 1)]
           upper  == [n EXCEPT !.keys = SubSeq(@, mid + 2, Len(@)),
                               !.children = SubSeq(@, mid + 2, Len(@))]
           ll     == WithChild(lower, ChildIndexFor(lower, split.key), split)
           uu     == WithChild(upper, ChildIndexFor(upper, split.key), split)
           left   == IF split.key < median THEN ll ELSE lower
           right  == IF split.key < median THEN upper ELSE uu
           f      == Fresh
           r      == split.right
           g1     == Put(node, q, left)
           g      == With(g1, f, right)
<1>1. /\ pc = "split" /\ path # <<>> /\ IsFull(n) /\ Room
      /\ node' = g /\ split' = [key |-> median, right |-> f] /\ at' = q /\ path' = Front(path)
      /\ tree' = tree /\ root' = root /\ pc' = pc /\ arg' = arg /\ under' = under
  BY DEF SplitInternal, Put
<1>2. /\ tree \in Trees /\ arg.key \in Keys /\ path \in Seq(Activation) /\ under \in BOOLEAN
      /\ Nodes(node) /\ root \in DOMAIN node /\ at \in DOMAIN node /\ Stocked(node, root, NoPage)
  BY <1>1, Working
<1>3. /\ split.key \in Keys /\ r \in Pages /\ r # root
      /\ Tops = {root} \cup {r} /\ r \in DOMAIN node
      /\ \A p \in DOMAIN node : r \notin ToSet(Kids(node[p]))
  BY <1>1, SplitIs
<1>4. PICK h \in [DOMAIN node -> Nat] :
         /\ Forest(KidsIn(node), h, {root} \cup {r}, root) /\ Levels(node, h)
         /\ Route(node, h, root, path, at) /\ h[r] = h[at]
  BY <1>1, <1>3, Working
<1>5. /\ q \in DOMAIN node /\ n = node[q] /\ n \in Internal
      /\ h[q] = h[at] + 1 /\ Front(path) \in Seq(Activation) /\ Route(node, h, root, Front(path), q)
      /\ \A i \in DOMAIN Front(path) : Front(path)[i].id \in DOMAIN node /\ h[Front(path)[i].id] > h[q]
  BY <1>1, <1>2, <1>4, ParentIs
<1>6. f \in Pages /\ f \notin DOMAIN node
  BY <1>1, FreshIs
<1> HIDE DEF q, r, f
<1>7. Fits(n) /\ NoRepeat(Kids(n)) /\ q \in Pages
  BY <1>2, <1>5 DEF Stocked, Nodes
<1>8. /\ n.kind = "internal" /\ Kids(n) = n.children /\ Len(n.children) = Len(n.keys) + 1
      /\ Len(n.keys) = InternalMax
  <2>1. /\ n.kind = "internal" /\ Kids(n) = n.children /\ Size(n) = Len(n.keys) /\ Size(n) \in Nat
        /\ MaxSize(n) = InternalMax
        /\ Fits(n) <=> Len(n.keys) <= InternalMax /\ Len(n.children) = Len(n.keys) + 1
    BY <1>5, InternalIs
  <2>2. Size(n) >= MaxSize(n)
    BY <1>1 DEF IsFull
  <2>3. Len(n.keys) = InternalMax
    BY <1>7, <2>1, <2>2, Minima
  <2> QED
    BY <1>7, <2>1, <2>3
<1>9. r \notin ToSet(n.children) /\ NoRepeat(n.children)
  BY <1>3, <1>5, <1>7, <1>8
<1>10. Halved(lower, upper, n) /\ median \in Keys
  <2> HIDE DEF n
  <2> QED
    BY <1>5, <1>8, <1>9, InternalHalves
<1> HIDE DEF n, lower, upper, median
<1>11. Parted(left, right, n, r)
  <2>1. Parted(ll, upper, n, r) /\ Parted(lower, uu, n, r)
    BY <1>3, <1>9, <1>10, PartedIs DEF r
  <2> HIDE DEF ll, uu
  <2>2. CASE split.key < median
    BY <2>1, <2>2
  <2>3. CASE ~(split.key < median)
    BY <2>1, <2>3
  <2> QED
    BY <2>2, <2>3
<1> HIDE DEF left, right
<1>12. /\ left \in Internal /\ right \in Internal
       /\ NoRepeat(left.children) /\ NoRepeat(right.children)
       /\ ToSet(left.children) \cup ToSet(right.children) = ToSet(n.children) \cup {r}
       /\ ToSet(left.children) \cap ToSet(right.children) = {}
  BY <1>11 DEF Parted
<1>13. /\ left.kind = "internal" /\ Kids(left) = left.children /\ Fits(left)
       /\ Size(left) \in Nat /\ Size(left) >= MinSize(left) /\ Size(left) >= 1
  <2>1. /\ InternalMin <= Len(left.keys) /\ Len(left.keys) <= InternalMax
        /\ Len(left.children) = Len(left.keys) + 1
    BY <1>11 DEF Parted
  <2> QED
    BY <1>12, <2>1, InternalIs, Minima
<1>14. /\ right.kind = "internal" /\ Kids(right) = right.children /\ Fits(right)
       /\ Size(right) \in Nat /\ Size(right) >= MinSize(right) /\ Size(right) >= 1
  <2>1. /\ InternalMin <= Len(right.keys) /\ Len(right.keys) <= InternalMax
        /\ Len(right.children) = Len(right.keys) + 1
    BY <1>11 DEF Parted
  <2> QED
    BY <1>12, <2>1, InternalIs, Minima
<1>15. /\ Nodes(g1) /\ DOMAIN g1 = DOMAIN node /\ g1[q] = left
       /\ \A p \in DOMAIN node : p # q => g1[p] = node[p]
  <2>1. left \in Leaf \cup Internal /\ NoRepeat(Kids(left))
    BY <1>12, <1>13
  <2> QED
    BY <1>2, <1>5, <2>1, PutIs
<1> HIDE DEF g1
<1>16. Grown(g, g1, f, right)
  <2>1. right \in Leaf \cup Internal /\ NoRepeat(Kids(right)) /\ f \notin DOMAIN g1
    BY <1>6, <1>12, <1>14, <1>15
  <2> QED
    BY <1>6, <1>15, <2>1, WithIs
<1> HIDE DEF g
<1>17. /\ Nodes(g) /\ DOMAIN g = DOMAIN node \cup {f} /\ g[f] = right /\ g[q] = left
       /\ \A p \in DOMAIN node : p # q => g[p] = node[p]
  BY <1>5, <1>15, <1>16 DEF Grown
<1>18. Stocked(g, root, NoPage)
  <2>1. DOMAIN g \subseteq Pages
    BY <1>17 DEF Nodes
  <2>2. /\ Fits(g[q]) /\ Size(g[q]) \in Nat /\ Size(g[q]) >= MinSize(g[q]) /\ Size(g[q]) >= 1
        /\ Fits(g[f]) /\ Size(g[f]) \in Nat /\ Size(g[f]) >= MinSize(g[f]) /\ Size(g[f]) >= 1
    BY <1>13, <1>14, <1>17
  <2> QED
    BY <1>2, <1>5, <1>6, <1>17, <2>1, <2>2, StockedWith
<1>19. h[q] \in Nat /\ h[at] \in Nat /\ h[r] + 1 = h[q]
  BY <1>2, <1>4, <1>5
<1>20. PICK k \in [DOMAIN node \cup {f} -> Nat] :
          k[f] = h[q] /\ \A p \in DOMAIN node : p # f => k[p] = h[p]
  <2>1. DOMAIN h = DOMAIN node /\ h \in [DOMAIN h -> Nat]
    OBVIOUS
  <2>2. PICK v \in Nat : v = h[q]
    BY <1>19
  <2>3. Higher(h, f, v)
    BY <2>1, HeightWith
  <2> QED
    BY <2>1, <2>2, <2>3 DEF Higher
<1>21. \A p \in DOMAIN node : k[p] = h[p]
  BY <1>6, <1>20
<1>22. Forest(KidsIn(g), k, {root} \cup {f}, root)
  <2> DEFINE kids == KidsIn(node)
             kids2 == KidsIn(g)
  <2>1. DOMAIN kids = DOMAIN node /\ DOMAIN kids2 = DOMAIN kids \cup {f} /\ f \notin DOMAIN kids
    BY <1>6, <1>17, KidsInIs
  <2>2. \A p \in DOMAIN kids \ {q} : kids2[p] = kids[p]
    BY <2>1, <1>17, KidsInIs
  <2>3. /\ kids2[q] = ToSet(left.children) /\ kids2[f] = ToSet(right.children)
        /\ kids[q] = ToSet(n.children)
    BY <1>5, <1>8, <1>13, <1>14, <1>17, KidsInIs
  <2>4. kids2[q] \cup kids2[f] = kids[q] \cup {r} /\ kids2[q] \cap kids2[f] = {}
    BY <1>12, <2>3
  <2>5. Forest(kids, h, {root} \cup {r}, root)
    BY <1>4
  <2> HIDE DEF kids, kids2
  <2>6. \A p \in DOMAIN kids : k[p] = h[p]
    BY <1>21, <2>1
  <2>7. Dividing(kids, h, root, q, r, f, kids2, k)
    BY <1>3, <1>5, <1>19, <1>20, <2>1, <2>2, <2>4, <2>5, <2>6 DEF Dividing
  <2>8. Forest(kids2, k, {root} \cup {f}, root)
    BY <2>7, Divided
  <2> QED
    BY <2>8 DEF kids2
<1>23. Levels(g, k)
  <2>1. \A p \in DOMAIN node : g[p].kind = node[p].kind
    BY <1>5, <1>8, <1>13, <1>17
  <2>2. \A p \in DOMAIN node : g[p].kind = "leaf" <=> k[p] = 0
    BY <1>4, <1>21, <2>1 DEF Levels
  <2>3. g[f].kind # "leaf" /\ k[f] # 0
    BY <1>5, <1>14, <1>17, <1>19, <1>20
  <2> QED
    BY <1>17, <2>2, <2>3 DEF Levels
<1>24. Route(g, k, root, Front(path), q)
  <2>1. \A i \in DOMAIN Front(path) : Front(path)[i].id # q
    BY <1>5, <1>19
  <2>2. \A i \in DOMAIN Front(path) : /\ Front(path)[i].id \in DOMAIN g
                                       /\ g[Front(path)[i].id] = node[Front(path)[i].id]
                                       /\ k[Front(path)[i].id] = h[Front(path)[i].id]
    BY <1>5, <1>17, <1>21, <2>1
  <2>3. q \in DOMAIN g /\ k[q] = h[q] /\ k[root] = h[root]
    BY <1>2, <1>5, <1>17, <1>21
  <2> QED
    BY <1>5, <2>2, <2>3, RouteKept
<1>25. split' \in [key : Keys, right : Pages] /\ split'.right = f
  BY <1>1, <1>6, <1>10
<1>26. f # root /\ k[f] = k[q] /\ root \in DOMAIN g /\ Size(g[q]) >= MinSize(g[q])
  BY <1>2, <1>5, <1>6, <1>13, <1>17, <1>20, <1>21
<1>27. k \in [DOMAIN g -> Nat]
  BY <1>17, <1>20
<1> QED
  BY <1>1, <1>2, <1>5, <1>6, <1>17, <1>18, <1>22, <1>23, <1>24, <1>25, <1>26, <1>27, SplitOff
-----------------------------------------------------------------------------
(* Deletion.                                                               *)

LEMMA EntryRemoved ==
    ASSUME NEW es \in Seq(Entry), NEW i \in 1..Len(es)+1
    PROVE  /\ RemoveAt(es, i) \in Seq(Entry) /\ Len(RemoveAt(es, i)) <= Len(es)
           /\ Len(RemoveAt(es, i)) + 1 >= Len(es)
<1>1. Len(es) \in Nat
  BY SeqIs
<1>2. CASE i \in 1..Len(es)
  <2>1. RemoveAt(es, i) \in Seq(Entry) /\ Len(RemoveAt(es, i)) = Len(es) - 1
    BY <1>2, RemoveAtIs
  <2> QED
    BY <1>1, <2>1
<1>3. CASE i = Len(es) + 1
  <2> DEFINE a == SubSeq(es, 1, i - 1)
             b == SubSeq(es, i + 1, Len(es))
  <2>1. b = <<>>
    <3>1. i + 1 \in Int /\ Len(es) \in Int /\ Len(es) < i + 1
      BY <1>1, <1>3
    <3> QED
      BY <3>1, SubSeqEmpty
  <2>2. a \in Seq(Entry) /\ Len(a) = Len(es)
    <3>1. 1 \in 1..Len(es)+1 /\ Len(es) \in 1-1..Len(es) /\ Len(es) - 1 + 1 = Len(es)
      BY <1>1
    <3>2. SubSeq(es, 1, Len(es)) \in Seq(Entry) /\ Len(SubSeq(es, 1, Len(es))) = Len(es) - 1 + 1
      BY <3>1, SubSeqIs
    <3>3. i - 1 = Len(es)
      BY <1>1, <1>3
    <3> QED
      BY <3>1, <3>2, <3>3
  <2>3. RemoveAt(es, i) = a \o b
    BY DEF RemoveAt
  <2> HIDE DEF a, b
  <2>4. RemoveAt(es, i) = a
    BY <2>1, <2>2, <2>3, ConcatEmptySeq
  <2> QED
    BY <1>1, <2>2, <2>4
<1> QED
  BY <1>1, <1>2, <1>3

\* A page is as full as it was, or one short.
LEMMA Weakened ==
    ASSUME NEW f, Nodes(f), NEW r, Stocked(f, r, NoPage), NEW b
    PROVE  Stocked(f, r, b)
<1> SUFFICES ASSUME NEW p \in DOMAIN f
             PROVE  /\ Fits(f[p])
                    /\ p # r => Size(f[p]) + Lack(p, b) >= MinSize(f[p])
                    /\ f[p].kind = "internal" => Size(f[p]) + Lack(p, b) >= 1
  BY DEF Stocked
<1>1. p \in Pages /\ f[p] \in Leaf \cup Internal
  BY DEF Nodes
<1>2. Size(f[p]) \in Nat /\ MinSize(f[p]) \in Nat
  BY <1>1, LeafIs, InternalIs, Minima
<1>3. Lack(p, NoPage) = 0 /\ Lack(p, b) \in {0, 1}
  BY <1>1, Complete DEF Lack
<1>4. /\ Fits(f[p])
      /\ p # r => Size(f[p]) + 0 >= MinSize(f[p])
      /\ f[p].kind = "internal" => Size(f[p]) + 0 >= 1
  BY <1>3 DEF Stocked
<1> QED
  BY <1>2, <1>3, <1>4

LEMMA Repaired ==
    ASSUME NEW f, Nodes(f), NEW r, NEW a, Stocked(f, r, a), a \in DOMAIN f, Size(f[a]) >= MinSize(f[a])
    PROVE  Stocked(f, r, NoPage)
<1> SUFFICES ASSUME NEW p \in DOMAIN f
             PROVE  /\ Fits(f[p])
                    /\ p # r => Size(f[p]) + Lack(p, NoPage) >= MinSize(f[p])
                    /\ f[p].kind = "internal" => Size(f[p]) + Lack(p, NoPage) >= 1
  BY DEF Stocked
<1>1. p \in Pages /\ f[p] \in Leaf \cup Internal
  BY DEF Nodes
<1>2. Lack(p, NoPage) = 0
  BY <1>1, Complete
<1>3. CASE p # a
  <2>1. Lack(p, a) = 0
    BY <1>3 DEF Lack
  <2> QED
    BY <1>2, <2>1 DEF Stocked
<1>4. CASE p = a
  <2>1. Fits(f[p])
    BY DEF Stocked
  <2>2. Size(f[p]) \in Nat /\ MinSize(f[p]) \in Nat /\ MinSize(f[p]) >= 1
    BY <1>1, LeafIs, InternalIs, Minima
  <2> QED
    BY <1>2, <1>4, <2>1, <2>2
<1> QED
  BY <1>3, <1>4

\* The erasure has been done in the page it is at, which may be one short.
LEMMA ErasedAt ==
    ASSUME tree' \in Trees, pc' = "erased", arg'.key \in Keys, path' \in Seq(Activation),
           under' \in BOOLEAN, under' = (Size(node'[at']) < MinSize(node'[at'])), unique',
           Nodes(node'), root' \in DOMAIN node', Stocked(node', root', at'),
           NEW h \in [DOMAIN node' -> Nat], Forest(KidsIn(node'), h, {root'}, root'),
           Levels(node', h), Route(node', h, root', path', at')
    PROVE  IInv'
<1>1. pc' # "idle" /\ pc' # "insert" /\ pc' # "erase" /\ pc' # "split"
  OBVIOUS
<1>2. CallInv'
  BY <1>1 DEF CallInv
<1>3. NodeInv' /\ SizeInv'
  BY <1>1 DEF NodeInv, SizeInv
<1>4. Tops' = {root'}
  BY <1>1 DEF Tops
<1>5. ShapeInv'
  BY <1>1, <1>4 DEF ShapeInv
<1> QED
  BY <1>2, <1>3, <1>5 DEF IInv

LEMMA EraseEntryInv == ASSUME IInv, EraseEntry PROVE IInv'
<1> DEFINE n  == node[at]
           es == n.entries
           i  == LowerBound(KeysOf(es), arg.key)
           us == RemoveAt(es, i)
           m  == Filled(n, us)
           g  == Put(node, at, m)
<1>1. /\ pc = "erase" /\ n.kind = "leaf" /\ node' = g /\ pc' = "erased"
      /\ tree' = tree /\ root' = root /\ arg' = arg /\ at' = at /\ path' = path
  BY DEF EraseEntry, AtLeaf, Put, Filled
<1>2. under' = (Len(node'[at].entries) < LeafMin)
  BY DEF EraseEntry
<1>3. /\ tree \in Trees /\ arg.key \in Keys /\ path \in Seq(Activation)
      /\ Nodes(node) /\ root \in DOMAIN node /\ at \in DOMAIN node /\ Stocked(node, root, NoPage)
  BY <1>1, Working
<1>4. unique'
  BY <1>1 DEF IInv, CallInv, unique
<1>5. Tops = {root}
  BY <1>1 DEF Tops
<1>6. PICK h \in [DOMAIN node -> Nat] :
         /\ Forest(KidsIn(node), h, {root}, root) /\ Levels(node, h) /\ Route(node, h, root, path, at)
  BY <1>1, <1>5, Working
<1>7. n \in Leaf /\ at \in Pages
  BY <1>1, <1>3, NodesAre
<1>8. /\ es \in Seq(Entry) /\ Size(n) = Len(es) /\ Size(n) \in Nat /\ Size(n) <= LeafMax /\ MinSize(n) = LeafMin
  BY <1>3, <1>7, LeafIs DEF Stocked
<1>9. i \in 1..Len(es)+1
  BY <1>3, <1>8, PositionIn
<1> HIDE DEF i
<1>10. us \in Seq(Entry) /\ Len(us) <= Len(es) /\ Len(us) + 1 >= Len(es)
  <2> HIDE DEF es
  <2> QED
    BY <1>8, <1>9, EntryRemoved
<1> HIDE DEF us
<1>11. m \in Leaf /\ m.entries = us
  BY <1>7, <1>10, LeafWith
<1>12. /\ m.kind = "leaf" /\ Kids(m) = <<>> /\ Size(m) = Len(us) /\ Size(m) \in Nat /\ MinSize(m) = LeafMin
       /\ Fits(m) <=> Len(us) <= LeafMax
  <2> HIDE DEF m
  <2> QED
    BY <1>11, LeafIs
<1> HIDE DEF m
<1>13. /\ Nodes(g) /\ DOMAIN g = DOMAIN node /\ g[at] = m
       /\ \A q \in DOMAIN node : q # at => g[q] = node[q]
       /\ KidsIn(g) = KidsIn(node) /\ Levels(g, h)
  <2>1. m \in Leaf \cup Internal /\ m.kind = node[at].kind /\ Kids(m) = Kids(node[at])
    BY <1>1, <1>7, <1>11, <1>12, LeafIs
  <2> QED
    BY <1>3, <1>6, <2>1, Rewritten
<1> HIDE DEF g
<1>14. Stocked(g, root, at)
  <2>1. Lack(at, NoPage) = 0 /\ Lack(at, at) = 1
    BY <1>7, Complete DEF Lack
  <2>2. at # root => Size(n) + 0 >= LeafMin
    BY <1>3, <1>8, <2>1 DEF Stocked
  <2>3. Fits(m) /\ (at # root => Size(m) + Lack(at, at) >= MinSize(m))
    BY <1>8, <1>10, <1>12, <2>1, <2>2, Minima
  <2>4. Fits(g[at]) /\ (at # root => Size(g[at]) + Lack(at, at) >= MinSize(g[at])) /\ g[at].kind # "internal"
    BY <1>12, <1>13, <2>3
  <2>5. \A q \in DOMAIN node : q # at => q # NoPage /\ q # at
    BY <1>3, NoPageIs DEF Nodes
  <2> QED
    BY <1>3, <1>13, <2>4, <2>5, Restocked
<1>15. Route(g, h, root, path, at)
  <2>1. \A j \in DOMAIN path : path[j].id \in DOMAIN node /\ path[j].id # at
    BY <1>1, <1>6 DEF Route
  <2>2. \A j \in DOMAIN path : /\ path[j].id \in DOMAIN g /\ g[path[j].id] = node[path[j].id]
                                /\ h[path[j].id] = h[path[j].id]
    BY <1>13, <2>1
  <2>3. at \in DOMAIN g
    BY <1>3, <1>13
  <2> QED
    BY <1>6, <2>2, <2>3, RouteKept
<1>16. under' = (Size(node'[at']) < MinSize(node'[at'])) /\ under' \in BOOLEAN
  <2>1. Len(node'[at].entries) = Size(node'[at']) /\ MinSize(node'[at']) = LeafMin
    BY <1>1, <1>11, <1>12, <1>13
  <2>2. under' = (Size(node'[at']) < MinSize(node'[at']))
    BY <1>2, <2>1
  <2> QED
    BY <2>2
<1>17. root \in DOMAIN g /\ h \in [DOMAIN g -> Nat]
  BY <1>3, <1>13
<1> QED
  BY <1>1, <1>3, <1>4, <1>6, <1>13, <1>14, <1>15, <1>16, <1>17, ErasedAt

\* Children i and i + 1 of page q: two pages of a kind, a level below it.
Brothers(f, h, top, q, i, l, r) ==
    /\ l = f[q].children[i] /\ r = f[q].children[i+1]
    /\ l \in DOMAIN f /\ r \in DOMAIN f
    /\ l # r /\ l # q /\ r # q /\ l # top /\ r # top
    /\ h[l] = h[r] /\ h[l] + 1 = h[q]
    /\ f[l].kind = f[r].kind
    /\ ToSet(Kids(f[l])) \cap ToSet(Kids(f[r])) = {}
    /\ r \in KidsIn(f)[q]

LEMMA BrothersAre ==
    ASSUME NEW f, Nodes(f), NEW h \in [DOMAIN f -> Nat],
           NEW top, Forest(KidsIn(f), h, {top}, top), Levels(f, h),
           NEW q \in DOMAIN f, f[q] \in Internal, Len(f[q].children) = Len(f[q].keys) + 1,
           NEW i \in 1..Len(f[q].keys), NEW l, l = f[q].children[i], NEW r, r = f[q].children[i+1]
    PROVE  Brothers(f, h, top, q, i, l, r)
<1> DEFINE n == f[q]
<1>1. /\ n.kind = "internal" /\ n.keys \in Seq(Keys) /\ n.children \in Seq(Pages) /\ Kids(n) = n.children
  BY InternalIs
<1>2. Len(n.keys) \in Nat /\ DOMAIN n.children = 1..Len(n.children)
  BY <1>1, SeqIs
<1>3. i \in DOMAIN n.children /\ i + 1 \in DOMAIN n.children /\ i # i + 1
  BY <1>2
<1>4. NoRepeat(n.children)
  BY <1>1, NodesAre
<1>5. l # r
  BY <1>3, <1>4 DEF NoRepeat
<1>6. /\ l \in DOMAIN f /\ l # top /\ h[l] + 1 = h[q]
      /\ r \in DOMAIN f /\ r # top /\ h[r] + 1 = h[q] /\ r \in KidsIn(f)[q]
  <2>1. l \in DOMAIN f \ {top} /\ h[l] + 1 = h[q]
    BY <1>1, <1>3, ChildIs
  <2>2. PICK j \in DOMAIN n.children : j = i + 1
    BY <1>3
  <2>3. n.children[j] \in DOMAIN f \ {top} /\ n.children[j] \in KidsIn(f)[q] /\ h[n.children[j]] + 1 = h[q]
    BY <1>1, ChildIs
  <2> QED
    BY <2>1, <2>2, <2>3
<1>7. h[l] = h[r] /\ l # q /\ r # q
  <2>1. h[l] \in Nat /\ h[r] \in Nat /\ h[q] \in Nat
    BY <1>6
  <2> QED
    BY <1>6, <2>1
<1>8. f[l].kind = f[r].kind
  <2>1. f[l].kind = "leaf" <=> f[r].kind = "leaf"
    BY <1>6, <1>7 DEF Levels
  <2>2. f[l].kind \in {"leaf", "internal"} /\ f[r].kind \in {"leaf", "internal"}
    BY <1>6, NodesAre, LeafIs, InternalIs
  <2> QED
    BY <2>1, <2>2
<1>9. ToSet(Kids(f[l])) \cap ToSet(Kids(f[r])) = {}
  <2>1. KidsIn(f)[l] \cap KidsIn(f)[r] = {}
    BY <1>5, <1>6, KidsInIs DEF Forest
  <2> QED
    BY <1>6, <2>1, KidsInIs
<1> QED
  BY <1>5, <1>6, <1>7, <1>8, <1>9 DEF Brothers

\* What fix_child_underflow leaves of the pages: a tree, in which page q may now
\* be one short, and nothing above q has changed.
Mended(f, h, top, q, g, k) ==
    /\ Nodes(g) /\ q \in DOMAIN g /\ top \in DOMAIN g /\ g[q] \in Internal
    /\ k \in [DOMAIN g -> Nat] /\ \A p \in DOMAIN g : k[p] = h[p]
    /\ Forest(KidsIn(g), k, {top}, top) /\ Levels(g, k)
    /\ Stocked(g, top, q)
    /\ \A p \in DOMAIN f : h[p] > h[q] => p \in DOMAIN g /\ g[p] = f[p]

LEMMA AscendEnd ==
    ASSUME IInv, AscendErased, NEW h \in [DOMAIN node -> Nat], Route(node, h, root, path, at),
           NEW k, Mended(node, h, root, Above.id, node', k)
    PROVE  IInv'
<1> DEFINE q == Above.id
           g == node'
<1>1. /\ pc = "erased" /\ path # <<>> /\ pc' = pc /\ tree' = tree /\ root' = root /\ arg' = arg
      /\ at' = q /\ path' = Front(path)
  BY DEF AscendErased
<1>2. under' = (Len(g[q].keys) < InternalMin)
  BY DEF AscendErased
<1>3. /\ tree \in Trees /\ arg.key \in Keys /\ path \in Seq(Activation)
      /\ Nodes(node) /\ root \in DOMAIN node /\ at \in DOMAIN node
  BY <1>1, Working
<1>4. unique'
  BY <1>1 DEF IInv, CallInv, unique
<1>5. /\ q \in DOMAIN node /\ Front(path) \in Seq(Activation) /\ Route(node, h, root, Front(path), q)
      /\ \A i \in DOMAIN Front(path) : Front(path)[i].id \in DOMAIN node /\ h[Front(path)[i].id] > h[q]
  BY <1>1, <1>3, ParentIs
<1> HIDE DEF q, g
<1>6. /\ Nodes(g) /\ q \in DOMAIN g /\ root \in DOMAIN g /\ g[q] \in Internal
      /\ k \in [DOMAIN g -> Nat] /\ \A p \in DOMAIN g : k[p] = h[p]
      /\ Forest(KidsIn(g), k, {root}, root) /\ Levels(g, k)
      /\ Stocked(g, root, q)
      /\ \A p \in DOMAIN node : h[p] > h[q] => p \in DOMAIN g /\ g[p] = node[p]
  BY DEF Mended, g, q
<1>7. Route(g, k, root, Front(path), q)
  <2>1. \A i \in DOMAIN Front(path) : /\ Front(path)[i].id \in DOMAIN g
                                      /\ g[Front(path)[i].id] = node[Front(path)[i].id]
                                      /\ k[Front(path)[i].id] = h[Front(path)[i].id]
    BY <1>5, <1>6
  <2>2. q \in DOMAIN g /\ k[q] = h[q] /\ k[root] = h[root]
    BY <1>6
  <2>3. PICK w : w = Front(path)
    OBVIOUS
  <2> QED
    BY <1>5, <2>1, <2>2, <2>3, RouteKept
<1>8. under' = (Size(g[q]) < MinSize(g[q])) /\ under' \in BOOLEAN
  <2>1. Size(g[q]) = Len(g[q].keys) /\ MinSize(g[q]) = InternalMin
    BY <1>6, InternalIs
  <2>2. under' = (Size(g[q]) < MinSize(g[q]))
    BY <1>2, <2>1
  <2> QED
    BY <2>2
<1>9. /\ node' = g /\ at' = q
      /\ under' = (Size(node'[at']) < MinSize(node'[at'])) /\ under' \in BOOLEAN
  BY <1>1, <1>8 DEF g
<1> QED
  BY <1>1, <1>3, <1>4, <1>5, <1>6, <1>7, <1>9, ErasedAt

\* Two brothers exchange an entry or a child, and neither is short afterwards.
Rotating(f, h, top, a, q, i, l, r, x, g) ==
    /\ Nodes(f) /\ h \in [DOMAIN f -> Nat] /\ Forest(KidsIn(f), h, {top}, top) /\ Levels(f, h)
    /\ Stocked(f, top, a) /\ a \in {l, r} /\ top \in DOMAIN f
    /\ q \in DOMAIN f /\ f[q] \in Internal /\ i \in 1..Len(f[q].keys)
    /\ Brothers(f, h, top, q, i, l, r) /\ Exchange(x, f[l], f[r])
    /\ Fits(x.left) /\ Size(x.left) >= MinSize(x.left)
    /\ Fits(x.right) /\ Size(x.right) >= MinSize(x.right)
    /\ g = Put(Put(Put(f, l, x.left), r, x.right), q, [f[q] EXCEPT !.keys[i] = x.sep])

LEMMA RotationMends ==
    ASSUME NEW f, NEW h, NEW top, NEW a, NEW q, NEW i, NEW l, NEW r, NEW x, NEW g,
           Rotating(f, h, top, a, q, i, l, r, x, g)
    PROVE  Mended(f, h, top, q, g, h)
<1> DEFINE n == f[q]
           m == [n EXCEPT !.keys[i] = x.sep]
           f1 == Put(f, l, x.left)
           f2 == Put(f1, r, x.right)
<1>1. /\ Nodes(f) /\ h \in [DOMAIN f -> Nat] /\ Forest(KidsIn(f), h, {top}, top) /\ Levels(f, h)
      /\ Stocked(f, top, a) /\ a \in {l, r} /\ top \in DOMAIN f
      /\ q \in DOMAIN f /\ f[q] \in Internal /\ i \in 1..Len(f[q].keys)
  BY DEF Rotating
<1>2. /\ Fits(x.left) /\ Size(x.left) >= MinSize(x.left)
      /\ Fits(x.right) /\ Size(x.right) >= MinSize(x.right)
      /\ g = Put(f2, q, m)
  BY DEF Rotating
<1>3. /\ l \in DOMAIN f /\ r \in DOMAIN f /\ l # r /\ l # q /\ r # q /\ l # top /\ r # top
      /\ h[l] = h[r] /\ h[l] + 1 = h[q] /\ f[l].kind = f[r].kind
  BY DEF Rotating, Brothers
<1>4. /\ x.left \in Leaf \cup Internal /\ x.left.kind = f[l].kind /\ NoRepeat(Kids(x.left))
      /\ x.right \in Leaf \cup Internal /\ x.right.kind = f[r].kind /\ NoRepeat(Kids(x.right))
      /\ x.sep \in Keys
      /\ ToSet(Kids(x.left)) \cup ToSet(Kids(x.right)) = ToSet(Kids(f[l])) \cup ToSet(Kids(f[r]))
      /\ ToSet(Kids(x.left)) \cap ToSet(Kids(x.right)) = {}
  BY DEF Rotating, Exchange, Sibling
<1>5. /\ m \in Internal /\ m.children = n.children /\ Len(m.keys) = Len(n.keys)
  <2>1. n.keys \in Seq(Keys)
    BY <1>1, InternalIs
  <2>2. DOMAIN n.keys = 1..Len(n.keys) /\ Len(n.keys) \in Nat /\ \A j \in DOMAIN n.keys : n.keys[j] \in Keys
    BY <2>1, SeqIs
  <2>3. PICK ks : ks = [n.keys EXCEPT ![i] = x.sep]
    OBVIOUS
  <2>4. ks \in [1..Len(n.keys) -> Keys]
    BY <1>4, <2>2, <2>3
  <2>5. ks \in Seq(Keys) /\ Len(ks) = Len(n.keys)
    BY <2>2, <2>4
  <2>6. m = [n EXCEPT !.keys = ks]
    BY <2>3
  <2> QED
    BY <1>1, <2>5, <2>6 DEF Internal, Keys
<1> HIDE DEF m
<1>6. /\ m.kind = "internal" /\ n.kind = "internal" /\ Kids(m) = Kids(n)
      /\ Size(m) = Size(n) /\ Size(n) \in Nat /\ MinSize(m) = MinSize(n)
      /\ Fits(m) <=> Fits(n)
  <2>1. n \in Internal
    BY <1>1
  <2> HIDE DEF n
  <2> QED
    BY <1>5, <2>1, InternalIs DEF Fits
<1>7. /\ Nodes(f1) /\ DOMAIN f1 = DOMAIN f /\ f1[l] = x.left
      /\ \A p \in DOMAIN f : p # l => f1[p] = f[p]
  BY <1>1, <1>3, <1>4, PutIs
<1> HIDE DEF f1
<1>8. /\ Nodes(f2) /\ DOMAIN f2 = DOMAIN f /\ f2[r] = x.right
      /\ \A p \in DOMAIN f : p # r => f2[p] = f1[p]
  BY <1>3, <1>4, <1>7, PutIs
<1> HIDE DEF f2
<1>9. /\ Nodes(g) /\ DOMAIN g = DOMAIN f /\ g[q] = m
      /\ \A p \in DOMAIN f : p # q => g[p] = f2[p]
  <2>1. m \in Leaf \cup Internal /\ NoRepeat(Kids(m))
    BY <1>1, <1>5, <1>6 DEF Nodes
  <2> QED
    BY <1>1, <1>2, <1>8, <2>1, PutIs
<1>10. /\ g[l] = x.left /\ g[r] = x.right /\ g[q] = m
       /\ \A p \in DOMAIN f : p # l /\ p # r /\ p # q => g[p] = f[p]
  BY <1>3, <1>7, <1>8, <1>9
<1>11. Forest(KidsIn(g), h, {top}, top)
  <2> DEFINE kids == KidsIn(f)
             kids2 == KidsIn(g)
  <2>1. DOMAIN kids = DOMAIN f /\ DOMAIN kids2 = DOMAIN kids
    BY <1>9, KidsInIs
  <2>2. \A p \in DOMAIN kids \ {l, r} : kids2[p] = kids[p]
    BY <2>1, <1>6, <1>9, <1>10, KidsInIs
  <2>3. /\ kids[l] = ToSet(Kids(f[l])) /\ kids[r] = ToSet(Kids(f[r]))
        /\ kids2[l] = ToSet(Kids(x.left)) /\ kids2[r] = ToSet(Kids(x.right))
    BY <1>3, <1>9, <1>10, KidsInIs
  <2>4. kids2[l] \cup kids2[r] = kids[l] \cup kids[r] /\ kids2[l] \cap kids2[r] = {}
    BY <1>4, <2>3
  <2>5. PICK T : T = {top}
    OBVIOUS
  <2>6. Forest(kids, h, T, top) /\ l \in DOMAIN kids /\ r \in DOMAIN kids
    BY <1>1, <1>3, <2>1, <2>5
  <2> HIDE DEF kids, kids2
  <2>7. Forest(kids2, h, T, top)
    BY <1>3, <2>1, <2>2, <2>4, <2>6, Moved
  <2> QED
    BY <2>5, <2>7 DEF kids2
<1>12. Levels(g, h)
  <2>1. \A p \in DOMAIN f : g[p].kind = f[p].kind
    BY <1>3, <1>4, <1>6, <1>10
  <2> QED
    BY <1>1, <1>9, <2>1 DEF Levels
<1>13. Stocked(g, top, q)
  <2>1. /\ x.left.kind = "internal" => Size(x.left) >= 1
        /\ x.right.kind = "internal" => Size(x.right) >= 1
        /\ Size(x.left) \in Nat /\ Size(x.right) \in Nat /\ MinSize(x.left) \in Nat /\ MinSize(x.right) \in Nat
    BY <1>2, <1>4, LeafIs, InternalIs, Minima
  <2> SUFFICES ASSUME NEW p \in DOMAIN f
               PROVE  /\ Fits(g[p])
                      /\ p # top => Size(g[p]) + Lack(p, q) >= MinSize(g[p])
                      /\ g[p].kind = "internal" => Size(g[p]) + Lack(p, q) >= 1
    BY <1>9 DEF Stocked
  <2>2. CASE p = l
    <3>1. Lack(p, q) = 0 /\ g[p] = x.left
      BY <1>3, <1>10, <2>2 DEF Lack
    <3> QED
      BY <1>2, <2>1, <3>1
  <2>3. CASE p = r
    <3>1. Lack(p, q) = 0 /\ g[p] = x.right
      BY <1>3, <1>10, <2>3 DEF Lack
    <3> QED
      BY <1>2, <2>1, <3>1
  <2>4. CASE p # l /\ p # r
    <3>1. /\ Fits(f[p])
          /\ p # top => Size(f[p]) + Lack(p, a) >= MinSize(f[p])
          /\ f[p].kind = "internal" => Size(f[p]) + Lack(p, a) >= 1
      BY <1>1 DEF Stocked
    <3>2. Lack(p, a) = 0 /\ Lack(p, q) \in {0, 1}
      BY <1>1, <2>4 DEF Lack
    <3>3. /\ Fits(g[p]) /\ Size(g[p]) = Size(f[p]) /\ MinSize(g[p]) = MinSize(f[p])
          /\ g[p].kind = f[p].kind
      BY <1>6, <1>10, <2>4, <3>1
    <3>4. Size(f[p]) \in Nat /\ MinSize(f[p]) \in Nat
      BY <1>1, NodesAre, LeafIs, InternalIs, Minima
    <3> QED
      BY <3>1, <3>2, <3>3, <3>4
  <2> QED
    BY <2>2, <2>3, <2>4
<1>14. \A p \in DOMAIN f : h[p] > h[q] => p \in DOMAIN g /\ g[p] = f[p]
  <2>1. h[l] \in Nat /\ h[r] \in Nat /\ h[q] \in Nat
    BY <1>1, <1>3
  <2>2. \A p \in DOMAIN f : h[p] > h[q] => p # l /\ p # r /\ p # q
    BY <1>3, <2>1
  <2> QED
    BY <1>9, <1>10, <2>2
<1> QED
  BY <1>1, <1>5, <1>9, <1>11, <1>12, <1>13, <1>14 DEF Mended

Shrunk(g, f, p) ==
    /\ Nodes(g) /\ DOMAIN g = DOMAIN f \ {p}
    /\ \A q \in DOMAIN g : g[q] = f[q]

LEMMA WithoutIs ==
    ASSUME NEW f, Nodes(f), NEW p
    PROVE  Shrunk(Without(f, p), f, p)
<1> DEFINE g == Without(f, p)
<1>1. g = [q \in DOMAIN f \ {p} |-> f[q]]
  BY DEF Without
<1> HIDE DEF g
<1>2. DOMAIN g = DOMAIN f \ {p} /\ \A q \in DOMAIN g : g[q] = f[q]
  BY <1>1
<1>3. \A q \in DOMAIN g : g[q] \in Leaf \cup Internal /\ NoRepeat(Kids(g[q])) /\ q \in Pages
  BY <1>2 DEF Nodes
<1>4. g \in [DOMAIN g -> Leaf \cup Internal]
  BY <1>1, <1>2, <1>3
<1> QED
  BY <1>2, <1>3, <1>4 DEF Shrunk, Nodes, g

LEMMA Lowered ==
    ASSUME NEW h, NEW D, h \in [D -> Nat], NEW E \in SUBSET D
    PROVE  \E k \in [E -> Nat] : \A p \in E : k[p] = h[p]
<1> DEFINE k == [p \in E |-> h[p]]
<1>1. k \in [E -> Nat] /\ \A p \in E : k[p] = h[p]
  OBVIOUS
<1> QED
  BY <1>1

\* Two brothers become one, and their parent, which may then be one short, has
\* a child less.
Uniting(f, h, top, a, q, i, l, r, j, g) ==
    /\ Nodes(f) /\ h \in [DOMAIN f -> Nat] /\ Forest(KidsIn(f), h, {top}, top) /\ Levels(f, h)
    /\ Stocked(f, top, a) /\ a \in {l, r} /\ top \in DOMAIN f
    /\ q \in DOMAIN f /\ f[q] \in Internal /\ i \in 1..Len(f[q].keys)
    /\ Brothers(f, h, top, q, i, l, r) /\ Sibling(f[l], j)
    /\ ToSet(Kids(j)) = ToSet(Kids(f[l])) \cup ToSet(Kids(f[r]))
    /\ Fits(j) /\ Size(j) >= MinSize(j)
    /\ g = Without(Put(Put(f, l, j), q, WithoutChild(f[q], i)), r)

LEMMA MergeMends ==
    ASSUME NEW f, NEW h, NEW top, NEW a, NEW q, NEW i, NEW l, NEW r, NEW j, NEW g,
           Uniting(f, h, top, a, q, i, l, r, j, g)
    PROVE  \E k : Mended(f, h, top, q, g, k)
<1> DEFINE n == f[q]
           m == WithoutChild(n, i)
           f1 == Put(f, l, j)
           f2 == Put(f1, q, m)
<1>1. /\ Nodes(f) /\ h \in [DOMAIN f -> Nat] /\ Forest(KidsIn(f), h, {top}, top) /\ Levels(f, h)
      /\ Stocked(f, top, a) /\ a \in {l, r} /\ top \in DOMAIN f
      /\ q \in DOMAIN f /\ f[q] \in Internal /\ i \in 1..Len(f[q].keys)
  BY DEF Uniting
<1>2. Fits(j) /\ Size(j) >= MinSize(j) /\ g = Without(f2, r)
  BY DEF Uniting
<1>3. /\ l \in DOMAIN f /\ r \in DOMAIN f /\ l # r /\ l # q /\ r # q /\ l # top /\ r # top
      /\ h[l] = h[r] /\ h[l] + 1 = h[q] /\ f[l].kind = f[r].kind /\ r = n.children[i+1]
      /\ r \in KidsIn(f)[q]
  BY DEF Uniting, Brothers
<1>4. /\ j \in Leaf \cup Internal /\ j.kind = f[l].kind /\ NoRepeat(Kids(j))
      /\ ToSet(Kids(j)) = ToSet(Kids(f[l])) \cup ToSet(Kids(f[r]))
  BY DEF Uniting, Sibling
<1>5. /\ n.kind = "internal" /\ Size(n) = Len(n.keys) /\ Size(n) \in Nat /\ MinSize(n) = InternalMin
      /\ Kids(n) = n.children /\ MaxSize(n) = InternalMax
  BY <1>1, InternalIs
<1>6. Fits(n) /\ Len(n.children) = Len(n.keys) + 1 /\ Len(n.keys) <= InternalMax /\ NoRepeat(n.children)
  BY <1>1, <1>5, NodesAre DEF Stocked, Fits
<1>7. /\ m \in Internal
      /\ Len(m.keys) = Len(n.keys) - 1 /\ Len(m.children) = Len(m.keys) + 1
      /\ NoRepeat(m.children)
      /\ ToSet(m.children) = ToSet(n.children) \ {r}
  <2>1. n \in Internal
    BY <1>1
  <2>2. i \in 1..Len(n.keys)
    BY <1>1
  <2> HIDE DEF n
  <2> QED
    BY <1>3, <1>6, <2>1, <2>2, WithoutChildIs
<1> HIDE DEF m
<1>8. /\ m.kind = "internal" /\ Kids(m) = m.children /\ Size(m) = Len(m.keys) /\ Size(m) \in Nat
      /\ MinSize(m) = InternalMin /\ MaxSize(m) = InternalMax
  BY <1>7, InternalIs
<1>9. Fits(m) /\ Size(m) + 1 = Size(n)
  <2> HIDE DEF n
  <2> QED
    BY <1>5, <1>6, <1>7, <1>8, Minima DEF Fits
<1>10. /\ Nodes(f1) /\ DOMAIN f1 = DOMAIN f /\ f1[l] = j
       /\ \A p \in DOMAIN f : p # l => f1[p] = f[p]
  BY <1>1, <1>3, <1>4, PutIs
<1> HIDE DEF f1
<1>11. /\ Nodes(f2) /\ DOMAIN f2 = DOMAIN f /\ f2[q] = m
       /\ \A p \in DOMAIN f : p # q => f2[p] = f1[p]
  <2>1. m \in Leaf \cup Internal /\ NoRepeat(Kids(m))
    BY <1>7, <1>8
  <2> QED
    BY <1>1, <1>10, <2>1, PutIs
<1> HIDE DEF f2
<1>12. Nodes(g) /\ DOMAIN g = DOMAIN f \ {r} /\ \A p \in DOMAIN g : g[p] = f2[p]
  <2>1. Shrunk(Without(f2, r), f2, r)
    BY <1>11, WithoutIs
  <2>2. Shrunk(g, f2, r)
    BY <1>2, <2>1
  <2> QED
    BY <1>11, <2>2 DEF Shrunk
<1>13. /\ l \in DOMAIN g /\ q \in DOMAIN g /\ top \in DOMAIN g
       /\ g[l] = j /\ g[q] = m
       /\ \A p \in DOMAIN g : p # l /\ p # q => g[p] = f[p]
  BY <1>1, <1>3, <1>10, <1>11, <1>12
<1>14. PICK k \in [DOMAIN g -> Nat] : \A p \in DOMAIN g : k[p] = h[p]
  <2>1. h \in [DOMAIN f -> Nat] /\ DOMAIN g \in SUBSET DOMAIN f
    BY <1>1, <1>12
  <2> QED
    BY <2>1, Lowered
<1>15. Forest(KidsIn(g), k, {top}, top)
  <2> DEFINE kids == KidsIn(f)
             kids2 == KidsIn(g)
  <2>1. DOMAIN kids = DOMAIN f /\ DOMAIN kids2 = DOMAIN kids \ {r} /\ DOMAIN kids2 = DOMAIN g
    BY <1>12, KidsInIs
  <2>2. \A p \in DOMAIN kids \ {q, l, r} : kids2[p] = kids[p]
    BY <2>1, <1>12, <1>13, KidsInIs
  <2>3. kids2[l] = kids[l] \cup kids[r]
    <3>1. kids2[l] = ToSet(Kids(j)) /\ kids[l] = ToSet(Kids(f[l])) /\ kids[r] = ToSet(Kids(f[r]))
      BY <1>3, <1>13, KidsInIs
    <3> QED
      BY <1>4, <3>1
  <2>4. kids2[q] = kids[q] \ {r}
    <3>1. kids2[q] = ToSet(m.children) /\ kids[q] = ToSet(n.children)
      BY <1>1, <1>5, <1>8, <1>13, KidsInIs
    <3> QED
      BY <1>7, <3>1
  <2>5. k \in [DOMAIN kids2 -> Nat] /\ \A p \in DOMAIN kids2 : k[p] = h[p]
    BY <1>14, <2>1
  <2>6. PICK T : T = {top}
    OBVIOUS
  <2>7. /\ Forest(kids, h, T, top)
        /\ {q, l, r} \subseteq DOMAIN kids /\ q # l /\ q # r /\ l # r
        /\ r \in kids[q] /\ h[l] = h[r]
    BY <1>1, <1>3, <2>1, <2>6
  <2> HIDE DEF kids, kids2
  <2>8. Merging(kids, h, T, top, q, l, r, kids2, k)
    BY <2>1, <2>2, <2>3, <2>4, <2>5, <2>7 DEF Merging
  <2>9. Forest(kids2, k, T, top)
    BY <2>8, Merged
  <2> QED
    BY <2>6, <2>9 DEF kids2
<1>16. Levels(g, k)
  <2>1. \A p \in DOMAIN g : g[p].kind = f[p].kind /\ p \in DOMAIN f
    BY <1>4, <1>5, <1>8, <1>12, <1>13
  <2> QED
    BY <1>1, <1>14, <2>1 DEF Levels
<1>17. Stocked(g, top, q)
  <2>1. /\ j.kind = "internal" => Size(j) >= 1
        /\ Size(j) \in Nat /\ MinSize(j) \in Nat
    BY <1>2, <1>4, LeafIs, InternalIs, Minima
  <2>2. \A p \in DOMAIN f : /\ Fits(f[p])
                            /\ p # top => Size(f[p]) + Lack(p, a) >= MinSize(f[p])
                            /\ f[p].kind = "internal" => Size(f[p]) + Lack(p, a) >= 1
    BY <1>1 DEF Stocked
  <2>3. \A p \in DOMAIN f : p # l /\ p # r => Lack(p, a) = 0
    BY <1>1 DEF Lack
  <2> SUFFICES ASSUME NEW p \in DOMAIN g
               PROVE  /\ Fits(g[p])
                      /\ p # top => Size(g[p]) + Lack(p, q) >= MinSize(g[p])
                      /\ g[p].kind = "internal" => Size(g[p]) + Lack(p, q) >= 1
    BY DEF Stocked
  <2>4. CASE p = l
    <3>1. Lack(p, q) = 0 /\ g[p] = j
      BY <1>3, <1>13, <2>4 DEF Lack
    <3> QED
      BY <1>2, <2>1, <3>1
  <2>5. CASE p = q
    <3>1. Lack(p, q) = 1 /\ g[p] = m /\ Lack(q, a) = 0
      BY <1>1, <1>3, <1>13, <2>3, <2>5 DEF Lack
    <3>2. /\ q # top => Size(n) + 0 >= InternalMin
          /\ Size(n) + 0 >= 1
      BY <1>1, <1>5, <2>2, <3>1
    <3>3. PICK s \in Nat : s = Size(n)
      BY <1>5
    <3>4. (p # top => Size(m) + 1 >= InternalMin) /\ Size(m) + 1 >= 1
      BY <1>9, <2>5, <3>2, <3>3, Minima
    <3> QED
      BY <1>8, <1>9, <3>1, <3>4
  <2>6. CASE p # l /\ p # q
    <3>1. /\ p \in DOMAIN f /\ Lack(p, a) = 0 /\ Lack(p, q) = 0 /\ g[p] = f[p]
      BY <1>12, <1>13, <2>3, <2>6 DEF Lack
    <3> QED
      BY <2>2, <3>1
  <2> QED
    BY <2>4, <2>5, <2>6
<1>18. \A p \in DOMAIN f : h[p] > h[q] => p \in DOMAIN g /\ g[p] = f[p]
  <2>1. h[l] \in Nat /\ h[r] \in Nat /\ h[q] \in Nat
    BY <1>1, <1>3
  <2>2. \A p \in DOMAIN f : h[p] > h[q] => p # l /\ p # r /\ p # q
    BY <1>3, <2>1
  <2> QED
    BY <1>12, <1>13, <2>2
<1>19. g[q] \in Internal
  BY <1>7, <1>13
<1> QED
  BY <1>12, <1>13, <1>14, <1>15, <1>16, <1>17, <1>18, <1>19 DEF Mended

\* What a rotation makes of x.left and x.right, one of which, w, had an entry
\* too many and the other, v, one too few.
Spared(w, v, l, r, x) ==
    /\ Exchange(x, l, r)
    /\ Fits(w) /\ Size(w) >= MinSize(w)
    /\ Fits(v) /\ Size(v) >= MinSize(v)

LEMMA SizesAre ==
    ASSUME NEW n \in Leaf \cup Internal
    PROVE  /\ Size(n) \in Nat /\ MinSize(n) \in Nat /\ MaxSize(n) \in Nat
           /\ MinSize(n) >= 1 /\ MinSize(n) <= MaxSize(n)
           /\ n.kind \in {"leaf", "internal"}
           /\ n.kind = "leaf" => MinSize(n) = LeafMin /\ MaxSize(n) = LeafMax
           /\ n.kind = "internal" => MinSize(n) = InternalMin /\ MaxSize(n) = InternalMax
  BY LeafIs, InternalIs, Minima

LEMMA SparedRight ==
    ASSUME NEW l \in Leaf \cup Internal, NEW r \in Leaf \cup Internal, l.kind = r.kind,
           Fits(l), Fits(r), NoRepeat(Kids(l)), NoRepeat(Kids(r)),
           ToSet(Kids(l)) \cap ToSet(Kids(r)) = {}, NEW sep \in Keys,
           CanSpare(l), Size(r) < MinSize(r), Size(r) + 1 >= MinSize(r),
           NEW x, x = RotateRight(l, r, sep)
    PROVE  Spared(x.left, x.right, l, r, x)
<1>1. /\ Size(l) \in Nat /\ MinSize(l) \in Nat /\ MinSize(l) >= 1 /\ Size(l) > MinSize(l)
      /\ Size(l) <= MaxSize(l) /\ MaxSize(l) \in Nat
      /\ Size(r) \in Nat /\ MinSize(r) \in Nat /\ MaxSize(r) \in Nat /\ MinSize(r) <= MaxSize(r)
  BY SizesAre DEF CanSpare, Fits
<1>2. Exchange(x, l, r) /\ Size(x.left) = Size(l) - 1 /\ Size(x.right) = Size(r) + 1
  <2>1. Size(l) >= 2
    BY <1>1
  <2> QED
    BY <2>1, RotateRightIs
<1>3. /\ x.left \in Leaf \cup Internal /\ x.left.kind = l.kind /\ Paired(x.left)
      /\ x.right \in Leaf \cup Internal /\ x.right.kind = r.kind /\ Paired(x.right)
  BY <1>2 DEF Exchange, Sibling
<1>4. /\ MinSize(x.left) = MinSize(l) /\ MaxSize(x.left) = MaxSize(l)
      /\ MinSize(x.right) = MinSize(r) /\ MaxSize(x.right) = MaxSize(r)
  BY <1>3 DEF MinSize, MaxSize
<1>5. /\ Size(x.left) <= MaxSize(x.left) /\ Size(x.left) >= MinSize(x.left)
      /\ Size(x.right) <= MaxSize(x.right) /\ Size(x.right) >= MinSize(x.right)
  BY <1>1, <1>2, <1>4
<1> QED
  BY <1>2, <1>3, <1>5 DEF Spared, Fits, Paired

LEMMA SparedLeft ==
    ASSUME NEW l \in Leaf \cup Internal, NEW r \in Leaf \cup Internal, l.kind = r.kind,
           Fits(l), Fits(r), NoRepeat(Kids(l)), NoRepeat(Kids(r)),
           ToSet(Kids(l)) \cap ToSet(Kids(r)) = {}, NEW sep \in Keys,
           CanSpare(r), Size(l) < MinSize(l), Size(l) + 1 >= MinSize(l),
           NEW x, x = RotateLeft(l, r, sep)
    PROVE  Spared(x.right, x.left, l, r, x)
<1>1. /\ Size(r) \in Nat /\ MinSize(r) \in Nat /\ MinSize(r) >= 1 /\ Size(r) > MinSize(r)
      /\ Size(r) <= MaxSize(r) /\ MaxSize(r) \in Nat
      /\ Size(l) \in Nat /\ MinSize(l) \in Nat /\ MaxSize(l) \in Nat /\ MinSize(l) <= MaxSize(l)
  BY SizesAre DEF CanSpare, Fits
<1>2. Exchange(x, l, r) /\ Size(x.left) = Size(l) + 1 /\ Size(x.right) = Size(r) - 1
  <2>1. Size(r) >= 2
    BY <1>1
  <2> QED
    BY <2>1, RotateLeftIs
<1>3. /\ x.left \in Leaf \cup Internal /\ x.left.kind = l.kind /\ Paired(x.left)
      /\ x.right \in Leaf \cup Internal /\ x.right.kind = r.kind /\ Paired(x.right)
  BY <1>2 DEF Exchange, Sibling
<1>4. /\ MinSize(x.left) = MinSize(l) /\ MaxSize(x.left) = MaxSize(l)
      /\ MinSize(x.right) = MinSize(r) /\ MaxSize(x.right) = MaxSize(r)
  BY <1>3 DEF MinSize, MaxSize
<1>5. /\ Size(x.left) <= MaxSize(x.left) /\ Size(x.left) >= MinSize(x.left)
      /\ Size(x.right) <= MaxSize(x.right) /\ Size(x.right) >= MinSize(x.right)
  BY <1>1, <1>2, <1>4
<1> QED
  BY <1>2, <1>3, <1>5 DEF Spared, Fits, Paired

\* And a merge of two that together are one short of twice the minimum.
United(j, l, r) ==
    /\ Sibling(l, j)
    /\ ToSet(Kids(j)) = ToSet(Kids(l)) \cup ToSet(Kids(r))
    /\ Fits(j) /\ Size(j) >= MinSize(j)

LEMMA UnitedIs ==
    ASSUME NEW f, NEW l \in DOMAIN f, NEW r \in DOMAIN f, Nodes(f), l # r, f[l].kind = f[r].kind,
           Fits(f[l]), Fits(f[r]), ToSet(Kids(f[l])) \cap ToSet(Kids(f[r])) = {}, NEW sep \in Keys,
           NEW a \in {l, r}, Size(f[a]) < MinSize(f[a]), \A b \in {l, r} : b # a => ~CanSpare(f[b]),
           Size(f[l]) + Lack(l, a) >= MinSize(f[l]), Size(f[r]) + Lack(r, a) >= MinSize(f[r])
    PROVE  United(Joined(f[l], f[r], sep), f[l], f[r])
<1> DEFINE j == Joined(f[l], f[r], sep)
<1>1. /\ f[l] \in Leaf \cup Internal /\ NoRepeat(Kids(f[l]))
      /\ f[r] \in Leaf \cup Internal /\ NoRepeat(Kids(f[r]))
  BY NodesAre
<1>2. /\ Sibling(f[l], j)
      /\ Size(j) = Size(f[l]) + Size(f[r]) + IF f[l].kind = "leaf" THEN 0 ELSE 1
      /\ ToSet(Kids(j)) = ToSet(Kids(f[l])) \cup ToSet(Kids(f[r]))
  BY <1>1, JoinedIs
<1> HIDE DEF j
<1>3. /\ j \in Leaf \cup Internal /\ j.kind = f[l].kind /\ Paired(j)
  BY <1>2 DEF Sibling
<1>4. PICK s \in Nat, t \in Nat, c \in Nat :
         s = Size(f[l]) /\ t = Size(f[r]) /\ c = MinSize(f[l]) /\ c = MinSize(f[r]) /\ c >= 1
  <2>1. MinSize(f[l]) = MinSize(f[r])
    BY DEF MinSize
  <2> QED
    BY <1>1, <2>1, SizesAre
<1>5. s + t + 1 = c + c
  <2>1. CASE a = l
    <3>1. Lack(l, a) = 1 /\ Lack(r, a) = 0 /\ ~CanSpare(f[r])
      BY <2>1 DEF Lack
    <3>2. s < c /\ s + 1 >= c /\ t + 0 >= c /\ ~(t > c)
      BY <1>4, <2>1, <3>1 DEF CanSpare
    <3> QED
      BY <3>2
  <2>2. CASE a = r
    <3>1. Lack(l, a) = 0 /\ Lack(r, a) = 1 /\ ~CanSpare(f[l])
      BY <2>2 DEF Lack
    <3>2. t < c /\ t + 1 >= c /\ s + 0 >= c /\ ~(s > c)
      BY <1>4, <2>2, <3>1 DEF CanSpare
    <3> QED
      BY <3>2
  <2> QED
    BY <2>1, <2>2
<1>6. Size(j) <= MaxSize(j) /\ Size(j) >= MinSize(j)
  <2>1. CASE f[l].kind = "leaf"
    <3>1. Size(j) = s + t
      BY <1>2, <1>4, <2>1
    <3>2. MinSize(j) = LeafMin /\ MaxSize(j) = LeafMax
      BY <1>3, <2>1, SizesAre
    <3>3. c = LeafMin
      BY <1>1, <1>4, <2>1, SizesAre
    <3> QED
      BY <1>4, <1>5, <3>1, <3>2, <3>3, Minima
  <2>2. CASE f[l].kind = "internal"
    <3>1. Size(j) = s + t + 1
      BY <1>2, <1>4, <2>2
    <3>2. MinSize(j) = InternalMin /\ MaxSize(j) = InternalMax
      BY <1>3, <2>2, SizesAre
    <3>3. c = InternalMin
      BY <1>1, <1>4, <2>2, SizesAre
    <3> QED
      BY <1>4, <1>5, <3>1, <3>2, <3>3, Minima
  <2> QED
    BY <1>1, <2>1, <2>2, SizesAre
<1> QED
  BY <1>2, <1>3, <1>6 DEF United, Fits, Paired, j

\* The brothers of a page one short: one has an entry to spare, or both fit in
\* one page.
\* The page above the one the call is at.
Over(h, q) ==
    /\ path # <<>> /\ h \in [DOMAIN node -> Nat]
    /\ Forest(KidsIn(node), h, {root}, root) /\ Levels(node, h) /\ Route(node, h, root, path, at)
    /\ q \in DOMAIN node /\ node[q] \in Internal /\ h[q] = h[at] + 1
    /\ Stocked(node, root, at)

\* Nothing is short, an entry moves between brothers, or two become one.
Eased(h, q) == ~under /\ node' = node /\ Size(node[at]) >= MinSize(node[at])

Turns(h, q, i, l, r, x) ==
    /\ Rotating(node, h, root, at, q, i, l, r, x, node')
    /\ \/ x = RotateRight(node[l], node[r], node[q].keys[i]) /\ CanSpare(node[l])
       \/ x = RotateLeft(node[l], node[r], node[q].keys[i]) /\ CanSpare(node[r])

Unites(h, q, i, l, r, j) ==
    /\ Uniting(node, h, root, at, q, i, l, r, j, node')
    /\ j = Joined(node[l], node[r], node[q].keys[i])

LEMMA AscendErasedDoes ==
    ASSUME IInv, AscendErased
    PROVE  \E h : /\ Over(h, Above.id)
                  /\ \/ Eased(h, Above.id)
                     \/ \E i, l, r, x : Turns(h, Above.id, i, l, r, x)
                     \/ \E i, l, r, j : Unites(h, Above.id, i, l, r, j)
<1> DEFINE q == Above.id
           n == node[q]
           ci == Above.ci
<1>1. /\ pc = "erased" /\ path # <<>>
  BY DEF AscendErased
<1>2. \/ under /\ FixChildUnderflow(q, Above.copy, ci)
      \/ ~under /\ node' = [node EXCEPT ![q] = Above.copy]
  BY DEF AscendErased
<1>3. /\ path \in Seq(Activation) /\ Nodes(node) /\ root \in DOMAIN node /\ at \in DOMAIN node
  BY <1>1, Working
<1>4. Tops = {root} /\ Stocked(node, root, at) /\ under = (Size(node[at]) < MinSize(node[at]))
  BY <1>1 DEF Tops, IInv, SizeInv, CallInv
<1>5. PICK h \in [DOMAIN node -> Nat] :
         /\ Forest(KidsIn(node), h, {root}, root) /\ Levels(node, h) /\ Route(node, h, root, path, at)
  BY <1>1, <1>4, Working
<1>6. /\ q \in DOMAIN node /\ Above.copy = n /\ n \in Internal
      /\ ci \in DOMAIN n.children /\ n.children[ci] = at
      /\ h[q] = h[at] + 1 /\ h[at] < h[root]
  BY <1>1, <1>3, <1>5, ParentIs
<1> HIDE DEF q, ci
<1>12. Over(h, q)
  BY <1>1, <1>4, <1>5, <1>6 DEF Over
<1>7. /\ n.kind = "internal" /\ n.keys \in Seq(Keys) /\ n.children \in Seq(Pages)
      /\ Size(n) = Len(n.keys) /\ Size(n) \in Nat
  BY <1>6, InternalIs
<1>8. Fits(n) /\ Len(n.children) = Len(n.keys) + 1
  BY <1>4, <1>6, <1>7 DEF Stocked, Fits
<1>9. at # root /\ at # q
  <2>1. h[at] \in Nat
    BY <1>3
  <2> QED
    BY <1>6, <2>1
<1>10. CASE ~under
  <2>1. node' = node
    <3>1. node \in [DOMAIN node -> Leaf \cup Internal]
      BY <1>3 DEF Nodes
    <3> QED
      BY <1>2, <1>6, <1>10, <3>1
  <2>2. Size(node[at]) >= MinSize(node[at])
    <3>1. Size(node[at]) \in Nat /\ MinSize(node[at]) \in Nat
      BY <1>3, NodesAre, LeafIs, InternalIs, Minima
    <3>2. ~(Size(node[at]) < MinSize(node[at]))
      BY <1>4, <1>10
    <3> QED
      BY <3>1, <3>2
  <2>3. Eased(h, q)
    BY <1>10, <2>1, <2>2 DEF Eased
  <2> QED
    BY <1>12, <2>3, Zenon DEF q
<1>11. CASE under
  <2> DEFINE fromLeft  == ci > 1 /\ CanSpare(node[n.children[ci - 1]])
             fromRight == ci <= Len(n.keys) /\ CanSpare(node[n.children[ci + 1]])
  <2>1. \/ fromLeft /\ Rotate(q, n, ci - 1, RotateRight)
        \/ ~fromLeft /\ fromRight /\ Rotate(q, n, ci, RotateLeft)
        \/ ~fromLeft /\ ~fromRight /\ Merge(q, n, IF ci > 1 THEN ci - 1 ELSE ci)
    BY <1>2, <1>6, <1>11 DEF FixChildUnderflow
  <2>2. /\ Size(node[at]) < MinSize(node[at]) /\ Size(node[at]) + 1 >= MinSize(node[at])
    <3>1. Lack(at, at) = 1
      BY DEF Lack
    <3> QED
      BY <1>3, <1>4, <1>9, <1>11, <3>1 DEF Stocked
  <2>3. ci \in 1..Len(n.keys)+1 /\ Len(n.keys) >= 1 /\ Len(n.keys) \in Nat
    <3>1. Lack(q, at) = 0
      BY <1>9 DEF Lack
    <3>2. Size(n) + 0 >= 1
      BY <1>4, <1>6, <1>7, <3>1 DEF Stocked
    <3> QED
      BY <1>6, <1>7, <1>8, <3>2, SeqIs
  <2>4. CASE fromLeft /\ Rotate(q, n, ci - 1, RotateRight)
    <3>1. PICK i \in 1..Len(n.keys) : i = ci - 1
      BY <2>3, <2>4
    <3> DEFINE l == n.children[i]
    <3>0. PICK x : x = RotateRight(node[l], node[at], n.keys[i])
      OBVIOUS
    <3>2. i + 1 = ci /\ n.children[i+1] = at
      BY <1>6, <2>3, <3>1
    <3>3. CanSpare(node[l])
      BY <2>4, <3>1
    <3>4. node' = [node EXCEPT ![l] = x.left, ![at] = x.right, ![q] = [n EXCEPT !.keys[i] = x.sep]]
      BY <2>4, <3>0, <3>1, <3>2 DEF Rotate
    <3>5. n.keys[i] \in Keys
      BY <1>7, <3>1, SeqIs
    <3> HIDE DEF l
    <3>6. Brothers(node, h, root, q, i, l, at)
      BY <1>3, <1>5, <1>6, <1>8, <3>2, BrothersAre DEF l
    <3>7. /\ l \in DOMAIN node /\ l # at /\ l # root /\ node[l].kind = node[at].kind
          /\ ToSet(Kids(node[l])) \cap ToSet(Kids(node[at])) = {}
      BY <3>6 DEF Brothers
    <3>8. Fits(node[l]) /\ Fits(node[at])
      BY <1>3, <1>4, <3>7 DEF Stocked
    <3>12. PICK a, b : /\ a = node[l] /\ b = node[at]
                       /\ a \in Leaf \cup Internal /\ NoRepeat(Kids(a))
                       /\ b \in Leaf \cup Internal /\ NoRepeat(Kids(b))
      BY <1>3, <3>7, NodesAre
    <3>9. Spared(x.left, x.right, node[l], node[at], x)
      BY <2>2, <3>0, <3>3, <3>5, <3>7, <3>8, <3>12, SparedRight
    <3>10. Rotating(node, h, root, at, q, i, l, at, x, node')
      BY <1>3, <1>4, <1>5, <1>6, <3>1, <3>4, <3>6, <3>9 DEF Rotating, Spared, Put
    <3>11. Turns(h, q, i, l, at, x)
      BY <3>0, <3>3, <3>10 DEF Turns
    <3> QED
      BY <1>12, <3>11, Zenon DEF q
  <2>5. CASE fromRight /\ Rotate(q, n, ci, RotateLeft)
    <3>1. PICK i \in 1..Len(n.keys) : i = ci
      BY <2>3, <2>5
    <3> DEFINE r == n.children[i+1]
    <3>0. PICK x : x = RotateLeft(node[at], node[r], n.keys[i])
      OBVIOUS
    <3>2. n.children[i] = at
      BY <1>6, <3>1
    <3>3. CanSpare(node[r])
      BY <2>5, <3>1
    <3>4. node' = [node EXCEPT ![at] = x.left, ![r] = x.right, ![q] = [n EXCEPT !.keys[i] = x.sep]]
      BY <2>5, <3>0, <3>1, <3>2 DEF Rotate
    <3>5. n.keys[i] \in Keys
      BY <1>7, <3>1, SeqIs
    <3> HIDE DEF r
    <3>6. Brothers(node, h, root, q, i, at, r)
      BY <1>3, <1>5, <1>6, <1>8, <3>2, BrothersAre DEF r
    <3>7. /\ r \in DOMAIN node /\ r # at /\ r # root /\ node[at].kind = node[r].kind
          /\ ToSet(Kids(node[at])) \cap ToSet(Kids(node[r])) = {}
      BY <3>6 DEF Brothers
    <3>8. Fits(node[r]) /\ Fits(node[at])
      BY <1>3, <1>4, <3>7 DEF Stocked
    <3>12. PICK a, b : /\ a = node[at] /\ b = node[r]
                       /\ a \in Leaf \cup Internal /\ NoRepeat(Kids(a))
                       /\ b \in Leaf \cup Internal /\ NoRepeat(Kids(b))
      BY <1>3, <3>7, NodesAre
    <3>9. Spared(x.right, x.left, node[at], node[r], x)
      BY <2>2, <3>0, <3>3, <3>5, <3>7, <3>8, <3>12, SparedLeft
    <3>10. Rotating(node, h, root, at, q, i, at, r, x, node')
      BY <1>3, <1>4, <1>5, <1>6, <3>1, <3>4, <3>6, <3>9 DEF Rotating, Spared, Put
    <3>11. Turns(h, q, i, at, r, x)
      BY <3>0, <3>3, <3>10 DEF Turns
    <3> QED
      BY <1>12, <3>11, Zenon DEF q
  <2>6. CASE ~fromLeft /\ ~fromRight /\ Merge(q, n, IF ci > 1 THEN ci - 1 ELSE ci)
    <3>1. PICK i \in 1..Len(n.keys) : i = IF ci > 1 THEN ci - 1 ELSE ci
      BY <2>3
    <3> DEFINE l == n.children[i]
               r == n.children[i+1]
               j == Joined(node[l], node[r], n.keys[i])
    <3>2. at \in {l, r} /\ \A b \in {l, r} : b # at => ~CanSpare(node[b])
      <4>1. CASE ci > 1
        <5>1. i = ci - 1 /\ i + 1 = ci
          BY <2>3, <3>1, <4>1
        <5>2. ~CanSpare(node[n.children[ci-1]])
          BY <2>6, <4>1
        <5> QED
          BY <1>6, <5>1, <5>2
      <4>2. CASE ~(ci > 1)
        <5>1. i = ci /\ ci <= Len(n.keys)
          BY <2>3, <3>1, <4>2
        <5>2. ~CanSpare(node[n.children[ci+1]])
          BY <2>6, <5>1
        <5> QED
          BY <1>6, <5>1, <5>2
      <4> QED
        BY <4>1, <4>2
    <3>3. node' = Without([node EXCEPT ![l] = Joined(@, node[r], n.keys[i]), ![q] = WithoutChild(n, i)], r)
      BY <2>6, <3>1 DEF Merge
    <3>5. n.keys[i] \in Keys
      BY <1>7, <3>1, SeqIs
    <3> HIDE DEF l, r
    <3>6. Brothers(node, h, root, q, i, l, r)
      BY <1>3, <1>5, <1>6, <1>8, BrothersAre DEF l, r
    <3>7. /\ l \in DOMAIN node /\ r \in DOMAIN node /\ l # r /\ l # root /\ r # root
          /\ node[l].kind = node[r].kind
          /\ ToSet(Kids(node[l])) \cap ToSet(Kids(node[r])) = {}
      BY <3>6 DEF Brothers
    <3>8. /\ Fits(node[l]) /\ Fits(node[r])
          /\ Size(node[l]) + Lack(l, at) >= MinSize(node[l])
          /\ Size(node[r]) + Lack(r, at) >= MinSize(node[r])
      BY <1>4, <3>7 DEF Stocked
    <3>9. United(j, node[l], node[r])
      BY <1>3, <2>2, <3>2, <3>5, <3>7, <3>8, UnitedIs
    <3>10. node' = Without(Put(Put(node, l, j), q, WithoutChild(n, i)), r)
      BY <3>3, <3>7 DEF Put
    <3>13. j = Joined(node[l], node[r], n.keys[i])
      OBVIOUS
    <3> HIDE DEF j
    <3>11. Uniting(node, h, root, at, q, i, l, r, j, node')
      BY <1>3, <1>4, <1>5, <1>6, <3>1, <3>2, <3>6, <3>9, <3>10 DEF Uniting, United
    <3>12. Unites(h, q, i, l, r, j)
      BY <3>11, <3>13 DEF Unites
    <3> QED
      BY <1>12, <3>12, Zenon DEF q
  <2> QED
    BY <2>1, <2>4, <2>5, <2>6
<1> QED
  BY <1>10, <1>11

LEMMA AscendErasedInv == ASSUME IInv, AscendErased PROVE IInv'
<1> DEFINE q == Above.id
<1>1. PICK h : /\ Over(h, q)
               /\ \/ Eased(h, q)
                  \/ \E i, l, r, x : Turns(h, q, i, l, r, x)
                  \/ \E i, l, r, j : Unites(h, q, i, l, r, j)
  BY AscendErasedDoes
<1> HIDE DEF q
<1>2. /\ h \in [DOMAIN node -> Nat] /\ Route(node, h, root, path, at) /\ pc = "erased"
      /\ Forest(KidsIn(node), h, {root}, root) /\ Levels(node, h)
      /\ q \in DOMAIN node /\ node[q] \in Internal /\ h[q] = h[at] + 1 /\ Stocked(node, root, at)
  BY <1>1 DEF Over, AscendErased
<1>3. Nodes(node) /\ root \in DOMAIN node /\ at \in DOMAIN node
  BY <1>2, Working
<1>4. CASE Eased(h, q)
  <2>1. node' = node /\ Size(node[at]) >= MinSize(node[at])
    BY <1>4 DEF Eased
  <2>2. Stocked(node, root, NoPage)
    BY <1>2, <1>3, <2>1, Repaired
  <2>3. Stocked(node, root, q)
    BY <1>3, <2>2, Weakened
  <2>4. Mended(node, h, root, q, node', h)
    BY <1>2, <1>3, <2>1, <2>3 DEF Mended
  <2> QED
    BY <1>2, <2>4, AscendEnd DEF q
<1>5. CASE \E i, l, r, x : Turns(h, q, i, l, r, x)
  <2>1. PICK i, l, r, x : Rotating(node, h, root, at, q, i, l, r, x, node')
    BY <1>5 DEF Turns
  <2>2. Mended(node, h, root, q, node', h)
    BY <2>1, RotationMends
  <2> QED
    BY <1>2, <2>2, AscendEnd DEF q
<1>6. CASE \E i, l, r, j : Unites(h, q, i, l, r, j)
  <2>1. PICK i, l, r, j : Uniting(node, h, root, at, q, i, l, r, j, node')
    BY <1>6 DEF Unites
  <2>2. PICK k : Mended(node, h, root, q, node', k)
    BY <2>1, MergeMends
  <2> QED
    BY <1>2, <2>2, AscendEnd DEF q
<1> QED
  BY <1>1, <1>4, <1>5, <1>6

LEMMA EraseReturnsInv == ASSUME IInv, EraseReturns PROVE IInv'
<1> DEFINE n == node[root]
<1>1. pc = "erased" /\ path = <<>> /\ Finish /\ tree' = tree
  BY DEF EraseReturns
<1>2. tree \in Trees /\ Nodes(node) /\ root \in DOMAIN node /\ at \in DOMAIN node
  BY <1>1, Working
<1>3. Tops = {root} /\ Stocked(node, root, at)
  BY <1>1 DEF Tops, IInv, SizeInv
<1>4. PICK h \in [DOMAIN node -> Nat] :
         /\ Forest(KidsIn(node), h, {root}, root) /\ Levels(node, h) /\ Route(node, h, root, path, at)
  BY <1>1, <1>3, Working
<1>5. at = root
  <2>1. Stop(path, at, 1) = at
    BY <1>1 DEF Stop
  <2> QED
    BY <1>4, <2>1 DEF Route
<1>6. /\ \A p \in DOMAIN node : Fits(node[p]) /\ Lack(p, NoPage) = 0
      /\ \A p \in DOMAIN node : p # root =>
            /\ Size(node[p]) + Lack(p, NoPage) >= MinSize(node[p])
            /\ node[p].kind = "internal" => Size(node[p]) + Lack(p, NoPage) >= 1
  <2>1. \A p \in DOMAIN node : Lack(p, NoPage) = 0 /\ (p # root => Lack(p, at) = 0)
    BY <1>2, <1>5, Complete DEF Nodes, Lack
  <2> QED
    BY <1>3, <2>1 DEF Stocked
<1>7. CASE n.kind = "internal" /\ n.keys = <<>>
  <2> DEFINE c == n.children[1]
             g == Without(node, root)
  <2>1. root' = c /\ node' = g
    BY <1>7 DEF EraseReturns
  <2>2. n \in Internal
    BY <1>2, <1>7, NodesAre
  <2>3. n.children \in Seq(Pages) /\ Len(n.children) = 1 /\ Kids(n) = n.children
    <3>1. Len(n.children) = Len(n.keys) + 1
      BY <1>2, <1>6, <1>7 DEF Fits
    <3>2. Len(n.keys) = 0
      BY <1>7
    <3> QED
      BY <2>2, <3>1, <3>2, InternalIs
  <2>4. 1 \in DOMAIN n.children /\ ToSet(n.children) = {c}
    <3>1. DOMAIN n.children = 1..1
      BY <2>3, SeqIs
    <3>2. \A j \in DOMAIN n.children : j = 1
      BY <3>1
    <3>3. 1 \in DOMAIN n.children
      BY <3>1
    <3> QED
      BY <3>2, <3>3 DEF ToSet
  <2>5. c \in DOMAIN node \ {root}
    BY <1>2, <1>4, <1>7, <2>4, ChildIs
  <2> HIDE DEF c
  <2>6. Nodes(g) /\ DOMAIN g = DOMAIN node \ {root} /\ \A p \in DOMAIN g : g[p] = node[p]
    <3>1. Shrunk(g, node, root)
      BY <1>2, WithoutIs
    <3> HIDE DEF g
    <3> QED
      BY <3>1 DEF Shrunk
  <2> HIDE DEF g
  <2>7. PICK k \in [DOMAIN g -> Nat] : \A p \in DOMAIN g : k[p] = h[p]
    <3>1. h \in [DOMAIN node -> Nat] /\ DOMAIN g \in SUBSET DOMAIN node
      BY <2>6
    <3> QED
      BY <3>1, Lowered
  <2>8. Forest(KidsIn(g), k, {c}, c)
    <3> DEFINE kids == KidsIn(node)
               kids2 == KidsIn(g)
    <3>1. DOMAIN kids = DOMAIN node /\ DOMAIN kids2 = DOMAIN kids \ {root} /\ DOMAIN kids2 = DOMAIN g
      BY <2>6, KidsInIs
    <3>2. \A q \in DOMAIN kids2 : kids2[q] = kids[q]
      BY <2>6, <3>1, KidsInIs
    <3>3. kids[root] = {c}
      BY <1>2, <2>3, <2>4, KidsInIs
    <3>4. k \in [DOMAIN kids2 -> Nat] /\ \A q \in DOMAIN kids2 : k[q] = h[q]
      BY <2>7, <3>1
    <3>5. Forest(kids, h, {root}, root)
      BY <1>4
    <3> HIDE DEF kids, kids2
    <3>6. Forest(kids2, k, {c}, c)
      BY <3>1, <3>2, <3>3, <3>4, <3>5, Uncrowned
    <3> QED
      BY <3>6 DEF kids2
  <2>9. Levels(g, k)
    BY <1>4, <2>6, <2>7 DEF Levels
  <2>10. Stocked(g, c, NoPage)
    <3> SUFFICES ASSUME NEW p \in DOMAIN g
                 PROVE  /\ Fits(g[p])
                        /\ p # c => Size(g[p]) + Lack(p, NoPage) >= MinSize(g[p])
                        /\ g[p].kind = "internal" => Size(g[p]) + Lack(p, NoPage) >= 1
      BY DEF Stocked
    <3>1. p \in DOMAIN node /\ p # root /\ g[p] = node[p]
      BY <2>6
    <3> QED
      BY <1>6, <3>1
  <2>11. c \in DOMAIN g
    BY <2>5, <2>6
  <2> QED
    BY <1>1, <1>2, <2>1, <2>6, <2>7, <2>8, <2>9, <2>10, <2>11, Finished
<1>8. CASE ~(n.kind = "internal" /\ n.keys = <<>>)
  <2>1. root' = root /\ node' = node
    BY <1>8 DEF EraseReturns
  <2>2. n.kind = "internal" => Size(n) + Lack(root, NoPage) >= 1
    <3>1. SUFFICES ASSUME n.kind = "internal" PROVE Size(n) + 0 >= 1
      BY <1>2, <1>6
    <3>2. n \in Internal
      BY <1>2, <3>1, NodesAre
    <3>3. Size(n) = Len(n.keys) /\ n.keys \in Seq(Keys)
      BY <3>2, InternalIs
    <3>4. Len(n.keys) \in Nat /\ Len(n.keys) # 0
      BY <1>8, <3>1, <3>3, EmptySeq
    <3> QED
      BY <3>3, <3>4
  <2>3. Stocked(node, root, NoPage)
    BY <1>6, <2>2 DEF Stocked
  <2> QED
    BY <1>1, <1>2, <1>4, <2>1, <2>3, Finished
<1> QED
  BY <1>7, <1>8

LEMMA NextInv == IInv /\ [Next]_vars => IInv'
<1> SUFFICES ASSUME IInv, [Next]_vars PROVE IInv'
  OBVIOUS
<1>1. ASSUME NEW k \in tree.keys, Erase(k) \/ \E v \in tree.vals, o \in BOOLEAN : Insert(k, v, o)
      PROVE  IInv'
  BY <1>1, CallInvariant
<1>2. CASE Descend
  BY <1>2, DescendInv
<1>3. CASE UpdateEntry
  BY <1>3, UpdateEntryInv
<1>4. CASE InsertEntry
  BY <1>4, InsertEntryInv
<1>5. CASE SplitLeaf
  BY <1>5, SplitLeafInv
<1>6. CASE AbsorbSplit
  BY <1>6, AbsorbSplitInv
<1>7. CASE SplitInternal
  BY <1>7, SplitInternalInv
<1>8. CASE GrowRoot
  BY <1>8, GrowRootInv
<1>9. CASE EraseAbsent
  BY <1>9, EraseAbsentInv
<1>10. CASE EraseEntry
  BY <1>10, EraseEntryInv
<1>11. CASE AscendErased
  BY <1>11, AscendErasedInv
<1>12. CASE EraseReturns
  BY <1>12, EraseReturnsInv
<1>13. CASE RefuseErase \/ UNCHANGED vars
  BY <1>13, StutterInv DEF RefuseErase
<1> QED
  BY <1>1, <1>2, <1>3, <1>4, <1>5, <1>6, <1>7, <1>8, <1>9, <1>10, <1>11, <1>12, <1>13 DEF Next

LEMMA Inductive == Spec => []IInv
<1> QED
  BY InitInv, NextInv, PTL DEF Spec
-----------------------------------------------------------------------------
(* The theorems.                                                           *)

\* In every state of every call the pages hold nodes of their two layouts, and
\* between calls nothing of a call is left behind.
THEOREM BTreeType == Spec => []TypeOK
<1>1. ASSUME IInv PROVE TypeOK
  <2>1. /\ tree \in Trees /\ pc \in {"idle", "insert", "split", "erase", "erased"}
        /\ (pc = "idle" => Idle) /\ under \in BOOLEAN
    BY <1>1 DEF IInv, CallInv
  <2>2. Nodes(node) /\ root \in DOMAIN node
    BY <1>1 DEF IInv, NodeInv
  <2>3. at \in DOMAIN node \cup {NoPage}
    <3>1. CASE pc = "idle"
      BY <2>1, <3>1 DEF Idle
    <3>2. CASE pc # "idle"
      BY <1>1, <3>2, Working
    <3> QED
      BY <3>1, <3>2
  <2> QED
    BY <2>1, <2>2, <2>3 DEF TypeOK, Nodes
<1> QED
  BY <1>1, Inductive, PTL

\* No insertion and no erasure writes more entries into a page than it holds,
\* and between calls no page but the root is less than half full
\* (split_leaf, split_internal, fix_child_underflow).
THEOREM BTreeNodesFit == Spec => []NodesFit
<1>1. ASSUME IInv PROVE NodesFit
  <2> SUFFICES ASSUME NEW p \in DOMAIN node
               PROVE  /\ Size(node[p]) <= MaxSize(node[p])
                      /\ node[p].kind = "internal" => Len(node[p].children) = Len(node[p].keys) + 1
                      /\ pc = "idle" /\ p # root => Size(node[p]) >= MinSize(node[p])
                      /\ pc = "idle" /\ node[p].kind = "internal" => Size(node[p]) > 0
    BY DEF NodesFit
  <2>1. Fits(node[p])
    BY <1>1 DEF IInv, SizeInv, Stocked
  <2>2. Nodes(node)
    BY <1>1 DEF IInv, NodeInv
  <2>3. node[p] \in Leaf \cup Internal /\ p \in Pages
    BY <2>2, NodesAre
  <2>4. Size(node[p]) \in Nat /\ MinSize(node[p]) \in Nat
    BY <2>3, SizesAre
  <2>5. ASSUME pc = "idle"
        PROVE  /\ p # root => Size(node[p]) >= MinSize(node[p])
               /\ node[p].kind = "internal" => Size(node[p]) > 0
    <3>1. Stocked(node, root, NoPage)
      BY <1>1, <2>5, Resting
    <3>2. /\ p # root => Size(node[p]) + 0 >= MinSize(node[p])
          /\ node[p].kind = "internal" => Size(node[p]) + 0 >= 1
      BY <2>3, <3>1, Complete DEF Stocked
    <3> QED
      BY <2>4, <3>2
  <2> QED
    BY <2>1, <2>5 DEF Fits
<1> QED
  BY <1>1, Inductive, PTL

\* The pages d levels below the root, which Depth counts down to, are those
\* whose level is d less than the root's.
Level(h, i) == {p \in DOMAIN node : h[p] + i = h[root]}

LEMMA RootIsAlone ==
    ASSUME root \in DOMAIN node,
           NEW h \in [DOMAIN node -> Nat], Forest(KidsIn(node), h, {root}, root)
    PROVE  Level(h, 0) = {root}
<1>1. DOMAIN KidsIn(node) = DOMAIN node
  BY KidsInIs
<1>2. \A p \in DOMAIN node : p # root => h[p] < h[root]
  BY <1>1 DEF Forest
<1>3. \A p \in DOMAIN node : h[p] \in Nat
  OBVIOUS
<1>4. \A p \in DOMAIN node : h[p] + 0 = h[root] <=> p = root
  BY <1>2, <1>3
<1> QED
  BY <1>4 DEF Level

LEMMA NextLevel ==
    ASSUME Nodes(node), root \in DOMAIN node,
           NEW h \in [DOMAIN node -> Nat], Forest(KidsIn(node), h, {root}, root), Levels(node, h),
           NEW i \in Nat, i # 0
    PROVE  Level(h, i) = UNION {ToSet(node[p].children) : p \in {q \in Level(h, i-1) : node[q].kind = "internal"}}
<1> DEFINE B == UNION {ToSet(node[p].children) : p \in {q \in Level(h, i-1) : node[q].kind = "internal"}}
<1>1. /\ DOMAIN KidsIn(node) = DOMAIN node
      /\ \A p \in DOMAIN node : KidsIn(node)[p] = IF node[p].kind = "internal" THEN ToSet(node[p].children) ELSE {}
  <2>1. ToSet(<<>>) = {}
    BY DEF ToSet
  <2> QED
    BY <2>1, KidsInIs DEF Kids
<1>2. \A p \in DOMAIN node : h[p] \in Nat
  OBVIOUS
<1>3. ASSUME NEW c \in Level(h, i)
      PROVE  c \in B
  <2>1. c \in DOMAIN node /\ h[c] + i = h[root]
    BY <1>3 DEF Level
  <2>2. c # root
    BY <1>2, <2>1
  <2>3. PICK p \in DOMAIN node : c \in KidsIn(node)[p]
    BY <1>1, <2>1, <2>2 DEF Forest
  <2>4. h[c] + 1 = h[p]
    BY <1>1, <2>3 DEF Forest
  <2>5. node[p].kind = "internal" /\ c \in ToSet(node[p].children)
    BY <1>1, <2>3
  <2>6. h[p] + (i - 1) = h[root]
    BY <1>2, <2>1, <2>4
  <2>7. p \in Level(h, i-1)
    BY <2>6 DEF Level
  <2> QED
    BY <2>5, <2>7
<1>4. ASSUME NEW c \in B
      PROVE  c \in Level(h, i)
  <2>1. PICK p \in Level(h, i-1) : node[p].kind = "internal" /\ c \in ToSet(node[p].children)
    BY <1>4
  <2>2. p \in DOMAIN node /\ h[p] + (i - 1) = h[root]
    BY <2>1 DEF Level
  <2>3. c \in KidsIn(node)[p]
    BY <1>1, <2>1, <2>2
  <2>4. c \in DOMAIN node /\ h[c] + 1 = h[p]
    BY <1>1, <2>2, <2>3 DEF Forest
  <2>5. h[c] + i = h[root]
    BY <1>2, <2>2, <2>4
  <2> QED
    BY <2>4, <2>5 DEF Level
<1> HIDE DEF B
<1>5. Level(h, i) = B
  BY <1>3, <1>4
<1> QED
  BY <1>5 DEF B

LEMMA DepthIs ==
    ASSUME Nodes(node), root \in DOMAIN node,
           NEW h \in [DOMAIN node -> Nat], Forest(KidsIn(node), h, {root}, root), Levels(node, h),
           NEW d \in Nat
    PROVE  Depth(d) = Level(h, d)
<1> DEFINE L     == [i \in 0..d |-> Level(h, i)]
           level == CHOOSE level : level = [i \in 0..d |->
                       IF i = 0 THEN {root}
                       ELSE UNION {ToSet(node[p].children) : p \in {q \in level[i-1] : node[q].kind = "internal"}}]
           T     == {i \in 0..d : level[i] # L[i]}
<1>1. \A i \in 0..d :
        L[i] = IF i = 0 THEN {root}
               ELSE UNION {ToSet(node[p].children) : p \in {q \in L[i-1] : node[q].kind = "internal"}}
  <2> SUFFICES ASSUME NEW i \in 0..d
               PROVE  L[i] = IF i = 0 THEN {root}
                             ELSE UNION {ToSet(node[p].children) : p \in {q \in L[i-1] : node[q].kind = "internal"}}
    OBVIOUS
  <2>1. CASE i = 0
    BY <2>1, RootIsAlone
  <2>2. CASE i # 0
    <3>1. i \in Nat /\ i - 1 \in 0..d
      BY <2>2
    <3>2. L[i] = Level(h, i) /\ L[i-1] = Level(h, i-1)
      BY <3>1
    <3>3. Level(h, i) = UNION {ToSet(node[p].children) : p \in {q \in Level(h, i-1) : node[q].kind = "internal"}}
      BY <2>2, <3>1, NextLevel
    <3> HIDE DEF L
    <3> QED
      BY <2>2, <3>2, <3>3, Zenon
  <2> QED
    BY <2>1, <2>2
<1>2. L = [i \in 0..d |->
             IF i = 0 THEN {root}
             ELSE UNION {ToSet(node[p].children) : p \in {q \in L[i-1] : node[q].kind = "internal"}}]
  <2>1. \E D : D = 0..d /\ L = [i \in D |-> L[i]]
    OBVIOUS
  <2> HIDE DEF L
  <2> QED
    BY <1>1, <2>1, Zenon
<1> HIDE DEF L
<1>3. level = [i \in 0..d |->
                 IF i = 0 THEN {root}
                 ELSE UNION {ToSet(node[p].children) : p \in {q \in level[i-1] : node[q].kind = "internal"}}]
  BY <1>2, Zenon
<1>4. Depth(d) = level[d]
  BY Zenon DEF Depth
<1> HIDE DEF level
<1>5. \A i \in 0..d :
        level[i] = IF i = 0 THEN {root}
                   ELSE UNION {ToSet(node[p].children) : p \in {q \in level[i-1] : node[q].kind = "internal"}}
  BY <1>3, Zenon
<1>6. T = {}
  <2> SUFFICES ASSUME T # {} PROVE FALSE
    OBVIOUS
  <2>1. T \in SUBSET Nat
    OBVIOUS
  <2>2. PICK i \in T : \A j \in T : i <= j
    BY <2>1, LeastElement, Zenon
  <2>3. i \in 0..d /\ level[i] # L[i]
    OBVIOUS
  <2>4. CASE i = 0
    BY <1>1, <1>5, <2>3, <2>4, Zenon
  <2>5. CASE i # 0
    <3>1. i - 1 \in 0..d /\ ~(i <= i - 1)
      BY <2>3, <2>5
    <3>2. i - 1 \notin T
      BY <2>2, <3>1
    <3>3. level[i-1] = L[i-1]
      BY <3>1, <3>2
    <3> QED
      BY <1>1, <1>5, <2>3, <2>5, <3>3, Zenon
  <2> QED
    BY <2>4, <2>5
<1>7. level[d] = L[d]
  BY <1>6
<1>8. L[d] = Level(h, d)
  BY DEF L
<1> QED
  BY <1>4, <1>7, <1>8

\* Between calls every page but the root is a child of exactly one page, and all
\* leaves are at one depth (insert_rec, erase_rec).
THEOREM BTreeOneTree == Spec => []OneTree
<1>1. ASSUME IInv PROVE OneTree
  <2> DEFINE internal == {p \in DOMAIN node : node[p].kind = "internal"}
             Slots    == {<<p, i>> : p \in internal, i \in 1..InternalMax+1}
             refs     == {s \in Slots : s[2] \in DOMAIN node[s[1]].children}
  <2> SUFFICES ASSUME pc = "idle"
               PROVE  /\ \A s \in refs : node[s[1]].children[s[2]] \in DOMAIN node \ {root}
                      /\ \A p \in DOMAIN node \ {root} :
                            \E s \in refs : /\ node[s[1]].children[s[2]] = p
                                           /\ \A t \in refs : node[t[1]].children[t[2]] = p => t = s
                      /\ \A d \in 0..MaxPage : \A p, q \in Depth(d) : node[p].kind = node[q].kind
    BY DEF OneTree
  <2>1. PICK h \in [DOMAIN node -> Nat] :
           /\ Nodes(node) /\ root \in DOMAIN node /\ Stocked(node, root, NoPage)
           /\ Forest(KidsIn(node), h, {root}, root) /\ Levels(node, h)
    BY <1>1, Resting
  <2>2. /\ DOMAIN KidsIn(node) = DOMAIN node
        /\ \A p \in DOMAIN node : KidsIn(node)[p] = ToSet(Kids(node[p]))
    BY KidsInIs
  <2>3. ASSUME NEW p \in DOMAIN node, node[p].kind = "internal"
        PROVE  /\ Kids(node[p]) = node[p].children /\ NoRepeat(node[p].children)
               /\ DOMAIN node[p].children \subseteq 1..InternalMax+1
    <3>1. node[p] \in Internal /\ NoRepeat(Kids(node[p]))
      BY <2>1, <2>3, NodesAre
    <3>2. /\ Kids(node[p]) = node[p].children /\ node[p].children \in Seq(Pages)
          /\ Size(node[p]) = Len(node[p].keys) /\ MaxSize(node[p]) = InternalMax /\ Size(node[p]) \in Nat
      BY <3>1, InternalIs
    <3>3. Len(node[p].keys) <= InternalMax /\ Len(node[p].children) = Len(node[p].keys) + 1
      BY <2>1, <2>3, <3>2 DEF Stocked, Fits
    <3>4. DOMAIN node[p].children = 1..Len(node[p].children)
      BY <3>2, SeqIs
    <3> QED
      BY <3>1, <3>2, <3>3, <3>4, Minima
  <2>4. \A s \in refs : /\ s[1] \in DOMAIN node /\ node[s[1]].kind = "internal"
                        /\ s[2] \in DOMAIN node[s[1]].children
                        /\ s = <<s[1], s[2]>>
    OBVIOUS
  <2>5. \A p \in DOMAIN node : \A i \in DOMAIN node[p].children : node[p].kind = "internal" => <<p, i>> \in refs
    BY <2>3
  <2> HIDE DEF refs
  <2>6. ASSUME NEW s \in refs
        PROVE  node[s[1]].children[s[2]] \in DOMAIN node \ {root}
    BY <2>1, <2>4, ChildIs
  <2>7. ASSUME NEW c \in DOMAIN node \ {root}
        PROVE  \E s \in refs : /\ node[s[1]].children[s[2]] = c
                               /\ \A t \in refs : node[t[1]].children[t[2]] = c => t = s
    <3>1. PICK p \in DOMAIN node : c \in KidsIn(node)[p]
      BY <2>1, <2>2 DEF Forest
    <3>2. c \in ToSet(Kids(node[p]))
      BY <2>2, <3>1
    <3>3. node[p].kind = "internal"
      BY <3>2 DEF Kids, ToSet
    <3>4. PICK i \in DOMAIN node[p].children : node[p].children[i] = c
      BY <2>3, <3>2, <3>3 DEF ToSet
    <3>5. <<p, i>> \in refs
      BY <2>5, <3>3
    <3>6. ASSUME NEW t \in refs, node[t[1]].children[t[2]] = c
          PROVE  t = <<p, i>>
      <4>1. t[1] \in DOMAIN node /\ node[t[1]].kind = "internal" /\ t[2] \in DOMAIN node[t[1]].children
        BY <2>4
      <4>2. c \in KidsIn(node)[t[1]]
        BY <2>2, <2>3, <3>6, <4>1 DEF ToSet
      <4>3. t[1] = p
        BY <2>1, <2>2, <3>1, <4>1, <4>2 DEF Forest
      <4>4. t[2] = i
        BY <2>3, <3>3, <3>4, <3>6, <4>1, <4>3 DEF NoRepeat
      <4> QED
        BY <2>4, <4>3, <4>4
    <3>7. PICK s \in refs : s = <<p, i>>
      BY <3>5
    <3> QED
      BY <3>4, <3>6, <3>7
  <2>8. ASSUME NEW d \in 0..MaxPage, NEW p \in Depth(d), NEW q \in Depth(d)
        PROVE  node[p].kind = node[q].kind
    <3>1. d \in Nat
      BY Minima
    <3>2. Depth(d) = Level(h, d)
      BY <2>1, <3>1, DepthIs
    <3>3. p \in DOMAIN node /\ q \in DOMAIN node /\ h[p] + d = h[root] /\ h[q] + d = h[root]
      BY <2>8, <3>2 DEF Level
    <3>4. h[p] \in Nat /\ h[q] \in Nat /\ h[root] \in Nat
      BY <2>1, <3>3
    <3>5. h[p] = h[q]
      BY <3>1, <3>3, <3>4
    <3>6. node[p].kind = "leaf" <=> node[q].kind = "leaf"
      BY <2>1, <3>3, <3>5 DEF Levels
    <3>7. node[p].kind \in {"leaf", "internal"} /\ node[q].kind \in {"leaf", "internal"}
      BY <2>1, <3>3, NodesAre, SizesAre
    <3> QED
      BY <3>6, <3>7
  <2> QED
    BY <2>6, <2>7, <2>8
<1> QED
  BY <1>1, Inductive, PTL

=============================================================================
