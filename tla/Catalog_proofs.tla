--------------------------- MODULE Catalog_proofs ---------------------------
(***************************************************************************)
(* Theorems about the catalog and its heaps (Catalog, Heap), for any       *)
(* tables, rows, records and sizes of page.                                *)
(*                                                                         *)
(* Pages are only ever what init, insert and erase have left, so they are  *)
(* sound by the theorems of SlottedPage_proofs; what remains to show is    *)
(* that these calls are made on pages that are there: each head names one. *)
(* Each page has an owner and lies one above the page it links to, so the  *)
(* chain from a table's head is the pages the table owns.  In a database   *)
(* without tables, the pages are linked in the order of their numbers: the *)
(* chain is all of them, and the records are those of all pages.           *)
(*                                                                         *)
(* The rows of a table are what its live records decode to.  Every tree a  *)
(* descriptor records files them by its column, and belongs to no other    *)
(* table or column; so a table read through its own tree is the map of its *)
(* rows.                                                                   *)
(***************************************************************************)
EXTENDS Catalog, SlottedPage_proofs, SequenceTheorems

\* The pages of a database, and what a head may be.
PagesOK(pg) == /\ pg = [p \in DOMAIN pg |-> pg[p]]
               /\ DOMAIN pg \subseteq Pages
               /\ \A p \in DOMAIN pg : Sound(pg[p])

Heads(pg) == DOMAIN pg \cup {NoPage}

LEMMA FreshIs ==
    ASSUME Pages \ DOMAIN page # {}
    PROVE  /\ Fresh \in Pages \ DOMAIN page
           /\ \A p \in Pages \ DOMAIN page : Fresh <= p
<1>1. Pages \ DOMAIN page \in SUBSET Nat
  BY HeapAssumption DEF Pages
<1> QED
  BY <1>1, MinIs, Zenon DEF Fresh

\* A record that fits some page fits a page that is empty.
LEMMA EmptyFits ==
    ASSUME NEW next \in Nat, NEW rec, Len(rec) \in 1..MaxRecordSize
    PROVE  Fits(EmptyPage(next), rec)
<1> DEFINE q == EmptyPage(next)
<1>1. q.slots = <<>> /\ q.freeStart = HeaderSize /\ q.freeEnd = PageSize /\ q.frag = 0
  BY DEF EmptyPage
<1> HIDE DEF q
<1>2. DeadSlots(q) = {}
  BY <1>1 DEF DeadSlots
<1>3. Need(q, rec) = Len(rec) + SlotSize /\ TotalFree(q) = PageSize - HeaderSize + 0
  BY <1>1, <1>2 DEF Need, TotalFree, ContiguousFree
<1>4. TotalFree(q) >= Need(q, rec)
  BY <1>3, Sizes DEF MaxRecordSize
<1> QED
  BY <1>4 DEF q, Fits

\* What the heap of head h does to its pages when it takes a record.
LEMMA InsertKeeps ==
    ASSUME PagesOK(page), NEW h \in Heads(page), NEW rec \in Seq(Unit),
           Len(rec) \in 1..MaxRecordSize,
           Room(h, rec) \/ Pages \ DOMAIN page # {}
    PROVE  LET into == Into(h, rec)
               old  == Before(h, rec)
               pg   == PagesWith(h, rec)
           IN  /\ PagesOK(pg)
               /\ DOMAIN pg = DOMAIN page \cup {into} /\ into \in Pages
               /\ Sound(old) /\ Fits(old, rec)
               /\ pg[into] = Stored(old, rec)
               /\ \A p \in DOMAIN page : p # into => pg[p] = page[p]
               /\ IF Room(h, rec) THEN into = h /\ h \in DOMAIN page /\ old = page[h]
                  ELSE into = Fresh /\ into \notin DOMAIN page /\ old = EmptyPage(h)
<1> DEFINE into == Into(h, rec)
           old  == Before(h, rec)
           pg   == PagesWith(h, rec)
<1>0. h \in Nat /\ (h # NoPage => h \in DOMAIN page) /\ DOMAIN page \subseteq Pages
  BY HeapAssumption DEF PagesOK, Heads, Pages, NoPage
<1>1. IF Room(h, rec) THEN into = h /\ h \in DOMAIN page /\ old = page[h]
      ELSE into = Fresh /\ into \notin DOMAIN page /\ old = EmptyPage(h)
  BY <1>0, FreshIs, Zenon DEF Into, Before, Room
<1>2. Sound(old) /\ Fits(old, rec) /\ into \in Pages
  <2>1. CASE Room(h, rec)
    BY <1>0, <1>1, <2>1, Zenon DEF PagesOK, Room
  <2>2. CASE ~Room(h, rec)
    <3>1. into = Fresh /\ old = EmptyPage(h)
      BY <1>1, <2>2, Zenon
    <3>2. Sound(EmptyPage(h)) /\ Fits(EmptyPage(h), rec)
      BY <1>0, EmptyPageSound, EmptyFits
    <3> QED
      BY <2>2, <3>1, <3>2, FreshIs, Zenon
  <2> QED
    BY <2>1, <2>2
<1>3. pg = [p \in DOMAIN page \cup {into} |-> IF p = into THEN Stored(old, rec) ELSE page[p]]
  BY Zenon DEF PagesWith
<1> HIDE DEF pg, into, old
<1>4. /\ DOMAIN pg = DOMAIN page \cup {into} /\ pg[into] = Stored(old, rec)
      /\ \A p \in DOMAIN page : p # into => pg[p] = page[p]
      /\ pg = [p \in DOMAIN pg |-> pg[p]]
  BY <1>3
<1>5. Sound(Stored(old, rec))
  BY <1>2, StoredSound
<1>6. PagesOK(pg)
  BY <1>0, <1>2, <1>4, <1>5 DEF PagesOK
<1>7. /\ PagesOK(pg)
      /\ DOMAIN pg = DOMAIN page \cup {into} /\ into \in Pages
      /\ Sound(old) /\ Fits(old, rec)
      /\ pg[into] = Stored(old, rec)
      /\ \A p \in DOMAIN page : p # into => pg[p] = page[p]
      /\ IF Room(h, rec) THEN into = h /\ h \in DOMAIN page /\ old = page[h]
         ELSE into = Fresh /\ into \notin DOMAIN page /\ old = EmptyPage(h)
  BY <1>1, <1>2, <1>4, <1>6
<1> QED
  BY <1>7 DEF pg, into, old

LEMMA EraseKeeps ==
    ASSUME NEW pg, PagesOK(pg), NEW p \in DOMAIN pg, NEW s \in LiveSlots(pg[p])
    PROVE  /\ PagesOK([pg EXCEPT ![p] = Erased(@, s)])
           /\ DOMAIN [pg EXCEPT ![p] = Erased(@, s)] = DOMAIN pg
<1> DEFINE new == [pg EXCEPT ![p] = Erased(@, s)]
<1>1. pg = [q \in DOMAIN pg |-> pg[q]] /\ DOMAIN pg \subseteq Pages /\ \A q \in DOMAIN pg : Sound(pg[q])
  BY DEF PagesOK
<1>2. /\ DOMAIN new = DOMAIN pg /\ new = [q \in DOMAIN new |-> new[q]]
      /\ new[p] = Erased(pg[p], s)
      /\ \A q \in DOMAIN pg : q # p => new[q] = pg[q]
  BY <1>1
<1>3. Sound(Erased(pg[p], s))
  BY <1>1, ErasedSound
<1> HIDE DEF new
<1>4. PagesOK(new)
  BY <1>1, <1>2, <1>3 DEF PagesOK
<1> QED
  BY <1>2, <1>4 DEF new
-----------------------------------------------------------------------------
(* The descriptors.                                                        *)

DescsOK == /\ slots \in Seq(Desc)
           /\ \A i \in Used : HeadOf(i) \in Heads(page) /\ slots[i].roots[0] # NoRoot

LEMMA DescFields ==
    ASSUME NEW d \in Desc
    PROVE  /\ d = [name |-> d.name, heapHead |-> d.heapHead, rows |-> d.rows,
                   heapPages |-> d.heapPages, roots |-> d.roots]
           /\ d.name \in Name /\ d.heapHead \in Pages \cup {NoPage} /\ d.rows \in Nat /\ d.heapPages \in Nat
           /\ d.roots \in [{0} \cup Column -> Root \cup {NoRoot}]
BY DEF Desc

LEMMA DescIs ==
    ASSUME NEW name \in Name, NEW h \in Pages \cup {NoPage}, NEW rows \in Nat, NEW n \in Nat,
           NEW roots \in [{0} \cup Column -> Root \cup {NoRoot}]
    PROVE  [name |-> name, heapHead |-> h, rows |-> rows, heapPages |-> n, roots |-> roots] \in Desc
BY DEF Desc

\* What insert_row and create_index change of a descriptor.
LEMMA NewHead ==
    ASSUME NEW d \in Desc, NEW h \in Pages
    PROVE  /\ Grown(d, h) \in Desc /\ Grown(d, h).heapHead = h /\ Grown(d, h).roots = d.roots
           /\ Grown(d, h).rows = d.rows /\ Grown(d, h).heapPages = d.heapPages + 1
           /\ Grown(d, h).name = d.name
<1> DEFINE n == d.heapPages + 1
           e == Grown(d, h)
<1>1. d = [name |-> d.name, heapHead |-> d.heapHead, rows |-> d.rows,
           heapPages |-> d.heapPages, roots |-> d.roots]
  BY DescFields
<1>2. n \in Nat /\ e = [d EXCEPT !.heapHead = h, !.heapPages = n]
  BY DescFields DEF Grown
<1> HIDE DEF n, e
<1>3. e = [name |-> d.name, heapHead |-> h, rows |-> d.rows, heapPages |-> n, roots |-> d.roots]
  BY <1>1, <1>2
<1>4. h \in Pages \cup {NoPage}
  OBVIOUS
<1>5. [name |-> d.name, heapHead |-> h, rows |-> d.rows, heapPages |-> n, roots |-> d.roots] \in Desc
  BY <1>2, <1>4, DescFields, DescIs, Zenon
<1> QED
  BY <1>3, <1>5 DEF e, n

LEMMA NewRoots ==
    ASSUME NEW d \in Desc, NEW rs \in [{0} \cup Column -> Root \cup {NoRoot}], NEW e,
           e = WithRow(d, rs) \/ e = [d EXCEPT !.roots = rs]
    PROVE  /\ e \in Desc /\ e.name = d.name
           /\ e.heapHead = d.heapHead /\ e.roots = rs /\ e.heapPages = d.heapPages
           /\ e = WithRow(d, rs) => e.rows = d.rows + 1
<1> DEFINE n == d.rows + 1
<1>1. d = [name |-> d.name, heapHead |-> d.heapHead, rows |-> d.rows,
           heapPages |-> d.heapPages, roots |-> d.roots]
  BY DescFields
<1>2. n \in Nat
  BY DescFields
<1>3. CASE e = WithRow(d, rs)
  <2>1. e = [d EXCEPT !.roots = rs, !.rows = n]
    BY <1>3 DEF WithRow
  <2> HIDE DEF n
  <2>2. e = [name |-> d.name, heapHead |-> d.heapHead, rows |-> n, heapPages |-> d.heapPages, roots |-> rs]
    BY <1>1, <2>1
  <2>3. [name |-> d.name, heapHead |-> d.heapHead, rows |-> n, heapPages |-> d.heapPages, roots |-> rs] \in Desc
    BY <1>2, DescFields, DescIs, Zenon
  <2> QED
    BY <2>2, <2>3 DEF n
<1>4. CASE e = [d EXCEPT !.roots = rs]
  <2>1. e = [name |-> d.name, heapHead |-> d.heapHead, rows |-> d.rows, heapPages |-> d.heapPages, roots |-> rs]
    BY <1>1, <1>4
  <2>2. [name |-> d.name, heapHead |-> d.heapHead, rows |-> d.rows, heapPages |-> d.heapPages, roots |-> rs] \in Desc
    BY DescFields, DescIs, Zenon
  <2>3. e = WithRow(d, rs) => e.rows = n
    <3>1. e = WithRow(d, rs) => e = [d EXCEPT !.roots = rs, !.rows = n]
      BY DEF WithRow
    <3> HIDE DEF n
    <3> QED
      BY <1>1, <3>1
  <2> QED
    BY <2>1, <2>2, <2>3
<1> QED
  BY <1>3, <1>4

LEMMA RootStep ==
    ASSUME NEW r \in Root, r[3] < MaxMoves
    PROVE  Moved(r) \in Root /\ Moved(r) # NoRoot
<1>1. PICK t \in Name, c \in {0} \cup Column, n \in 0..MaxMoves : r = <<t, c, n>>
  BY DEF Root
<1>2. r[1] = t /\ r[2] = c /\ r[3] = n
  BY <1>1
<1>3. n + 1 \in 0..MaxMoves
  BY <1>2, CatalogAssumption
<1>4. Moved(r) = <<t, c, n + 1>>
  BY <1>2 DEF Moved
<1> QED
  BY <1>3, <1>4 DEF Root, NoRoot

LEMMA Planted ==
    ASSUME NEW t \in Name, NEW c \in {0} \cup Column
    PROVE  <<t, c, 0>> \in Root /\ <<t, c, 0>> # NoRoot
<1>1. 0 \in 0..MaxMoves
  BY CatalogAssumption
<1>2. <<t, c, 0>> \in Root
  BY <1>1 DEF Root
<1>3. <<t, c, 0>> # NoRoot
  BY DEF NoRoot
<1> QED
  BY <1>2, <1>3

LEMMA WithHeadKeeps ==
    ASSUME slots \in Seq(Desc), NEW i \in Used, NEW h \in Pages
    PROVE  LET new == WithHead(i, h)
           IN  /\ new \in Seq(Desc) /\ DOMAIN new = Used
               /\ new[i].heapHead = h
               /\ \A j \in Used : j # i => new[j] = slots[j]
               /\ \A j \in Used : /\ new[j].roots = slots[j].roots /\ new[j].rows = slots[j].rows
                                  /\ new[j].name = slots[j].name
               /\ new[i].heapPages = IF h = HeadOf(i) THEN slots[i].heapPages ELSE slots[i].heapPages + 1
<1>1. DOMAIN slots = 1..Len(slots) /\ Len(slots) \in Nat /\ i \in 1..Len(slots)
  BY DEF Used
<1>2. slots[i] \in Desc
  BY <1>1
<1>3. CASE h = HeadOf(i)
  BY <1>1, <1>3, Zenon DEF WithHead, HeadOf, Used
<1>4. CASE h # HeadOf(i)
  <2> DEFINE d   == Grown(slots[i], h)
             new == WithHead(i, h)
  <2>1. /\ d \in Desc /\ d.heapHead = h /\ d.roots = slots[i].roots /\ d.name = slots[i].name
        /\ d.rows = slots[i].rows /\ d.heapPages = slots[i].heapPages + 1
    BY <1>2, NewHead
  <2>2. new = [slots EXCEPT ![i] = d]
    BY <1>4 DEF WithHead
  <2> HIDE DEF d, new
  <2>3. /\ new \in Seq(Desc) /\ Len(new) = Len(slots) /\ new[i] = d
        /\ \A j \in 1..Len(slots) : j # i => new[j] = slots[j]
    BY <1>1, <2>1, <2>2
  <2>4. DOMAIN new = 1..Len(slots)
    BY <2>3
  <2> QED
    BY <1>1, <1>4, <2>1, <2>3, <2>4 DEF Used, new
<1> QED
  BY <1>3, <1>4

LEMMA SlotIs ==
    ASSUME NEW t, Exists(t)
    PROVE  SlotOf(t) \in Used /\ slots[SlotOf(t)].name = t
BY Zenon DEF Exists, SlotOf

LEMMA RootsAfterOK ==
    ASSUME NEW i, NEW row, slots[i] \in Desc, slots[i].roots[0] # NoRoot,
           NEW moves \in SUBSET DOMAIN EntriesOf(i, row),
           \A c \in moves : slots[i].roots[c][3] < MaxMoves
    PROVE  /\ RootsAfter(i, moves) \in [{0} \cup Column -> Root \cup {NoRoot}]
           /\ RootsAfter(i, moves)[0] # NoRoot
<1> DEFINE roots == slots[i].roots
           new   == RootsAfter(i, moves)
<1>1. roots \in [{0} \cup Column -> Root \cup {NoRoot}]
  BY DescFields
<1>2. DOMAIN EntriesOf(i, row) = {0} \cup {c \in Column : roots[c] # NoRoot /\ row.col[c] # Null}
  BY Zenon DEF EntriesOf
<1>3. \A c \in moves : c \in {0} \cup Column /\ roots[c] # NoRoot
  BY <1>2
<1>4. \A c \in moves : roots[c] \in Root /\ roots[c][3] < MaxMoves
  BY <1>1, <1>3
<1>5. new = [c \in {0} \cup Column |-> IF c \in moves THEN Moved(roots[c]) ELSE roots[c]]
  BY <1>1 DEF RootsAfter
<1> HIDE DEF roots, new
<1>6. \A c \in moves : Moved(roots[c]) \in Root /\ Moved(roots[c]) # NoRoot
  BY <1>4, RootStep
<1>7. \A c \in {0} \cup Column : new[c] \in Root \cup {NoRoot}
  BY <1>1, <1>5, <1>6
<1>8. new \in [{0} \cup Column -> Root \cup {NoRoot}]
  BY <1>5, <1>7
<1>9. roots[0] # NoRoot
  BY DEF roots
<1>10. new[0] # NoRoot
  BY <1>5, <1>6, <1>9
<1> QED
  BY <1>8, <1>10 DEF new
-----------------------------------------------------------------------------
(* The chain of a heap.                                                    *)

\* Chain, of any pages.
ChainIn(h, pg) ==
    LET upTo[n \in 0..MaxPage] ==
            IF n = 0 THEN {h} \ {NoPage}
            ELSE upTo[n-1] \cup ({pg[p].next : p \in upTo[n-1]} \ {NoPage})
    IN  upTo[MaxPage]

\* From h the pages of S are linked, each to one that lies deeper.
Linked(h, S, height, pg) ==
    /\ h \in S \/ (h = NoPage /\ S = {})
    /\ \A p \in S : /\ p # NoPage /\ height[p] \in 1..MaxPage
                    /\ p = h \/ (height[p] < height[h] /\ \E q \in S : pg[q].next = p)
                    /\ pg[p].next # NoPage => /\ pg[p].next \in S
                                             /\ height[p] = height[pg[p].next] + 1

Reached(h, S, height) == [n \in 0..MaxPage |-> {p \in S : height[p] >= height[h] - n}]

LEMMA ReachedSolves ==
    ASSUME NEW h, NEW S, NEW height, NEW pg, Linked(h, S, height, pg), h # NoPage,
           NEW R, R = Reached(h, S, height)
    PROVE  R = [n \in 0..MaxPage |->
                   IF n = 0 THEN {h} \ {NoPage}
                   ELSE R[n-1] \cup ({pg[p].next : p \in R[n-1]} \ {NoPage})]
<1>0. /\ MaxPage \in Nat /\ h \in S
      /\ \A p \in S : /\ p # NoPage /\ height[p] \in 1..MaxPage
                      /\ p = h \/ (height[p] < height[h] /\ \E q \in S : pg[q].next = p)
                      /\ pg[p].next # NoPage => /\ pg[p].next \in S
                                               /\ height[p] = height[pg[p].next] + 1
  BY HeapAssumption, Zenon DEF Linked
<1>1. R[0] = {h} \ {NoPage}
  <2>1. 0 \in 0..MaxPage
    BY <1>0
  <2>2. R[0] = {p \in S : height[p] >= height[h] - 0}
    BY <2>1 DEF Reached
  <2>3. height[h] \in Nat /\ \A p \in S : height[p] \in Nat
    BY <1>0
  <2>4. \A p \in S : height[p] >= height[h] - 0 <=> p = h
    BY <1>0, <2>3
  <2> QED
    BY <1>0, <2>2, <2>4
<1>2. ASSUME NEW n \in 1..MaxPage
      PROVE  R[n] = R[n-1] \cup ({pg[p].next : p \in R[n-1]} \ {NoPage})
  <2> DEFINE B == {p \in S : height[p] >= height[h] - (n - 1)}
             C == {p \in S : height[p] >= height[h] - n}
  <2>1. R[n-1] = B /\ R[n] = C
    BY <1>0 DEF Reached
  <2>2. height[h] \in Nat /\ n \in Nat /\ n > 0 /\ \A p \in S : height[p] \in Nat
    BY <1>0
  <2>3. ASSUME NEW q \in C
        PROVE  q \in B \cup ({pg[p].next : p \in B} \ {NoPage})
    <3>1. q \in S /\ height[q] >= height[h] - n /\ q # NoPage
      BY <1>0
    <3>2. CASE height[q] >= height[h] - (n - 1)
      BY <3>1, <3>2
    <3>3. CASE ~(height[q] >= height[h] - (n - 1))
      <4>1. q # h
        BY <2>2, <3>3
      <4>2. PICK p \in S : pg[p].next = q
        BY <1>0, <3>1, <4>1
      <4>3. height[p] = height[q] + 1
        BY <1>0, <3>1, <4>2
      <4>4. p \in B
        BY <2>2, <3>1, <4>3
      <4> QED
        BY <3>1, <4>2, <4>4
    <3> QED
      BY <3>2, <3>3
  <2>4. ASSUME NEW p \in B, pg[p].next # NoPage
        PROVE  pg[p].next \in C
    <3>1. p \in S /\ height[p] >= height[h] - (n - 1)
      OBVIOUS
    <3>2. pg[p].next \in S /\ height[p] = height[pg[p].next] + 1
      BY <1>0, <2>4, <3>1
    <3> DEFINE a == height[p]
               b == height[pg[p].next]
               c == height[h]
    <3>3. a \in Nat /\ b \in Nat /\ c \in Nat /\ a >= c - (n - 1) /\ a = b + 1
      BY <2>2, <3>1, <3>2
    <3> HIDE DEF a, b, c
    <3>4. b >= c - n
      BY <2>2, <3>3
    <3> QED
      BY <3>2, <3>4 DEF b, c
  <2>5. B \subseteq C
    BY <2>2
  <2>6. C = B \cup ({pg[p].next : p \in B} \ {NoPage})
    <3> HIDE DEF B, C
    <3> QED
      BY <2>3, <2>4, <2>5
  <2> QED
    BY <2>1, <2>6
<1>3. \A n \in 0..MaxPage :
        R[n] = IF n = 0 THEN {h} \ {NoPage}
               ELSE R[n-1] \cup ({pg[p].next : p \in R[n-1]} \ {NoPage})
  <2>1. \A n \in 0..MaxPage : n = 0 \/ n \in 1..MaxPage
    BY <1>0
  <2>2. \A n \in 1..MaxPage : n # 0
    BY <1>0
  <2> QED
    BY <1>1, <1>2, <2>1, <2>2, Zenon
<1>4. R = [n \in 0..MaxPage |-> R[n]]
  BY DEF Reached
<1> QED
  BY <1>3, <1>4, Zenon

\* Without a page there is nothing to reach.
LEMMA NoneReached ==
    ASSUME NEW h, NEW S, NEW height, NEW pg, Linked(h, S, height, pg), h = NoPage,
           NEW R, R = Reached(h, S, height)
    PROVE  R = [n \in 0..MaxPage |->
                   IF n = 0 THEN {h} \ {NoPage}
                   ELSE R[n-1] \cup ({pg[p].next : p \in R[n-1]} \ {NoPage})]
<1>1. MaxPage \in Nat /\ S = {}
  BY HeapAssumption DEF Linked
<1>2. R = [n \in 0..MaxPage |-> {}]
  BY <1>1 DEF Reached
<1>3. ASSUME NEW n \in 0..MaxPage, n # 0
      PROVE  R[n-1] = {}
  <2>1. n - 1 \in 0..MaxPage
    BY <1>1, <1>3
  <2> QED
    BY <1>2, <2>1
<1> QED
  BY <1>2, <1>3

\* So the chain from the head is all of them.
LEMMA ChainSolved ==
    ASSUME NEW h, NEW S, NEW height, NEW pg, Linked(h, S, height, pg)
    PROVE  ChainIn(h, pg) = S
<1> DEFINE R    == Reached(h, S, height)
           upTo == CHOOSE upTo : upTo = [n \in 0..MaxPage |->
                                            IF n = 0 THEN {h} \ {NoPage}
                                            ELSE upTo[n-1] \cup ({pg[p].next : p \in upTo[n-1]} \ {NoPage})]
           T    == {n \in 0..MaxPage : upTo[n] # R[n]}
<1>0. MaxPage \in Nat
  BY HeapAssumption
<1>1. R = [n \in 0..MaxPage |->
              IF n = 0 THEN {h} \ {NoPage}
              ELSE R[n-1] \cup ({pg[p].next : p \in R[n-1]} \ {NoPage})]
  <2>1. R = Reached(h, S, height)
    OBVIOUS
  <2> HIDE DEF R
  <2>2. CASE h = NoPage
    BY <2>1, <2>2, NoneReached
  <2>3. CASE h # NoPage
    BY <2>1, <2>3, ReachedSolves
  <2> QED
    BY <2>2, <2>3
<1> HIDE DEF R
<1>2. \A n \in 0..MaxPage :
        R[n] = IF n = 0 THEN {h} \ {NoPage}
               ELSE R[n-1] \cup ({pg[p].next : p \in R[n-1]} \ {NoPage})
  BY <1>1, Zenon
<1>3. upTo = [n \in 0..MaxPage |->
                 IF n = 0 THEN {h} \ {NoPage}
                 ELSE upTo[n-1] \cup ({pg[p].next : p \in upTo[n-1]} \ {NoPage})]
  BY <1>1, Zenon
<1>4. ChainIn(h, pg) = upTo[MaxPage]
  BY Zenon DEF ChainIn
<1> HIDE DEF upTo
<1>5. \A n \in 0..MaxPage :
        upTo[n] = IF n = 0 THEN {h} \ {NoPage}
                  ELSE upTo[n-1] \cup ({pg[p].next : p \in upTo[n-1]} \ {NoPage})
  BY <1>3, Zenon
<1>6. T = {}
  <2> SUFFICES ASSUME T # {} PROVE FALSE
    OBVIOUS
  <2>1. T \in SUBSET Nat
    BY <1>0
  <2>2. PICK n \in T : \A m \in T : n <= m
    BY <2>1, LeastElement, Zenon
  <2>3. n \in 0..MaxPage /\ upTo[n] # R[n]
    OBVIOUS
  <2>4. CASE n = 0
    BY <1>2, <1>5, <2>3, <2>4, Zenon
  <2>5. CASE n # 0
    <3>1. n - 1 \in 0..MaxPage /\ ~(n <= n - 1)
      BY <1>0, <2>3, <2>5
    <3>2. n - 1 \notin T
      BY <2>2, <3>1
    <3>3. upTo[n-1] = R[n-1]
      BY <3>1, <3>2
    <3> QED
      BY <1>2, <1>5, <2>3, <2>5, <3>3, Zenon
  <2> QED
    BY <2>4, <2>5
<1>7. upTo[MaxPage] = R[MaxPage]
  BY <1>0, <1>6
<1>8. R[MaxPage] = S
  <2>1. CASE h = NoPage
    <3>1. S = {}
      BY <2>1 DEF Linked
    <3> QED
      BY <1>0, <3>1 DEF R, Reached
  <2>2. CASE h # NoPage
    <3>1. h \in S /\ \A p \in S : height[p] \in 1..MaxPage
      BY <2>2 DEF Linked
    <3>2. R[MaxPage] = {p \in S : height[p] >= height[h] - MaxPage}
      BY <1>0, <2>2 DEF R, Reached
    <3>3. \A p \in S : height[p] >= height[h] - MaxPage
      BY <1>0, <3>1
    <3> QED
      BY <3>2, <3>3
  <2> QED
    BY <2>1, <2>2
<1> QED
  BY <1>4, <1>7, <1>8

\* The pages from h on are linked in the order of their numbers.
InOrder(h, pg) == /\ h \in Pages \cup {NoPage}
                  /\ 1..h \subseteq DOMAIN pg
                  /\ \A p \in 1..h : pg[p].next = p - 1

LEMMA NoPagesInOrder ==
    ASSUME NEW pg
    PROVE  InOrder(NoPage, pg)
<1>1. 1..NoPage = {}
  BY DEF NoPage
<1> QED
  BY <1>1 DEF InOrder

LEMMA ChainIs ==
    ASSUME NEW h, NEW pg, InOrder(h, pg)
    PROVE  ChainIn(h, pg) = 1..h
<1> DEFINE height == [p \in 1..h |-> p]
<1>1. h \in 0..MaxPage /\ MaxPage \in Nat /\ \A p \in 1..h : pg[p].next = p - 1
  BY HeapAssumption DEF InOrder, Pages, NoPage
<1>2. h \in 1..h \/ (h = NoPage /\ 1..h = {})
  BY <1>1 DEF NoPage
<1>3. ASSUME NEW p \in 1..h
      PROVE  /\ p # NoPage /\ height[p] \in 1..MaxPage
             /\ p = h \/ (height[p] < height[h] /\ \E q \in 1..h : pg[q].next = p)
             /\ pg[p].next # NoPage => /\ pg[p].next \in 1..h
                                      /\ height[p] = height[pg[p].next] + 1
  <2>1. p # NoPage /\ height[p] \in 1..MaxPage
    BY <1>1 DEF NoPage
  <2>2. p = h \/ (height[p] < height[h] /\ \E q \in 1..h : pg[q].next = p)
    <3> SUFFICES ASSUME p # h PROVE height[p] < height[h] /\ \E q \in 1..h : pg[q].next = p
      OBVIOUS
    <3>1. p + 1 \in 1..h /\ pg[p + 1].next = p /\ h \in 1..h /\ p < h
      BY <1>1
    <3> QED
      BY <3>1
  <2>3. pg[p].next = p - 1
    BY <1>1
  <2>4. p - 1 # NoPage => p - 1 \in 1..h /\ height[p] = height[p - 1] + 1
    BY <1>1 DEF NoPage
  <2> QED
    BY <2>1, <2>2, <2>3, <2>4
<1> HIDE DEF height
<1>4. Linked(h, 1..h, height, pg)
  BY <1>2, <1>3 DEF Linked
<1> QED
  BY <1>4, ChainSolved
-----------------------------------------------------------------------------
(* The invariant.                                                          *)

Inv ==
    /\ PagesOK(page)
    /\ DescsOK
    /\ scope \in {"heap", "tables"}
    /\ InOrder(head, page)
    /\ IF scope = "tables" THEN head = NoPage ELSE DOMAIN page = 1..head

LEMMA InitInv == Init => Inv
<1> SUFFICES ASSUME Init PROVE Inv
  OBVIOUS
<1>1. page = <<>> /\ slots = <<>> /\ head = NoPage /\ scope \in {"heap", "tables"}
  BY DEF Init
<1>2. <<>> = [p \in {} |-> 0] /\ DOMAIN page = {}
  BY <1>1
<1>3. PagesOK(page)
  BY <1>1, <1>2 DEF PagesOK
<1>4. DescsOK
  BY <1>1 DEF DescsOK, Used
<1>5. InOrder(head, page) /\ DOMAIN page = 1..head
  BY <1>1, <1>2 DEF InOrder, NoPage
<1> QED
  BY <1>1, <1>3, <1>4, <1>5 DEF Inv

\* The descriptors when those of one table change, and no page is lost.
LEMMA DescsKept ==
    ASSUME slots \in Seq(Desc), slots' \in Seq(Desc), Used' = Used,
           \A i \in Used : slots'[i].heapHead \in Heads(page') /\ slots'[i].roots[0] # NoRoot
    PROVE  DescsOK'
BY DEF DescsOK, HeadOf

LEMMA OneSlot ==
    ASSUME NEW ds \in Seq(Desc), NEW i \in DOMAIN ds, NEW d \in Desc, NEW new, new = [ds EXCEPT ![i] = d]
    PROVE  /\ new \in Seq(Desc) /\ DOMAIN new = DOMAIN ds /\ new[i] = d
           /\ \A j \in DOMAIN ds : j # i => new[j] = ds[j]
<1>1. DOMAIN ds = 1..Len(ds) /\ Len(ds) \in Nat /\ i \in 1..Len(ds)
  OBVIOUS
<1>2. new \in Seq(Desc) /\ Len(new) = Len(ds) /\ new[i] = d /\ \A j \in 1..Len(ds) : j # i => new[j] = ds[j]
  BY <1>1
<1>3. DOMAIN new = 1..Len(ds)
  BY <1>2
<1> QED
  BY <1>1, <1>2, <1>3

\* Into a table: what insert_row has stored, before the key is tried.
LEMMA RowStored ==
    ASSUME Inv, NEW t, Exists(t), NEW row \in Row, Storable(row), RoomFor(SlotOf(t), row)
    PROVE  LET i    == SlotOf(t)
               rid  == NewRowRid(i, row)
               pg   == PagesWithRow(i, row)
               ds   == WithHead(i, rid[1])
           IN  /\ i \in Used /\ slots[i] \in Desc
               /\ PagesOK(pg) /\ DOMAIN page \subseteq DOMAIN pg
               /\ rid[1] \in DOMAIN pg /\ rid[2] \in LiveSlots(pg[rid[1]])
               /\ ds \in Seq(Desc) /\ DOMAIN ds = Used
               /\ \A j \in Used : ds[j].heapHead \in Heads(pg) /\ ds[j].roots = slots[j].roots
               /\ \A j \in Used : ds[j].name = slots[j].name
<1> DEFINE i    == SlotOf(t)
           rec  == Encoded(row)
           rid  == NewRowRid(i, row)
           pg   == PagesWithRow(i, row)
           ds   == WithHead(i, rid[1])
           into == Into(HeadOf(i), rec)
           old  == Before(HeadOf(i), rec)
<1>1. i \in Used
  BY SlotIs
<1>2. PagesOK(page) /\ slots \in Seq(Desc) /\ \A j \in Used : HeadOf(j) \in Heads(page)
  BY DEF Inv, DescsOK
<1>3. rec \in Seq(Unit) /\ Len(rec) \in 1..MaxRecordSize
  BY CatalogAssumption DEF Storable
<1>4. Room(HeadOf(i), rec) \/ Pages \ DOMAIN page # {}
  BY DEF RoomFor
<1>5. rid = <<into, SlotFor(old)>> /\ pg = PagesWith(HeadOf(i), rec)
  BY Zenon DEF NewRowRid, NewRid, PagesWithRow
<1>6. HeadOf(i) \in Heads(page)
  BY <1>1, <1>2
<1> HIDE DEF rec, into, old, i, rid, pg
<1>7. /\ PagesOK(PagesWith(HeadOf(i), rec))
      /\ DOMAIN PagesWith(HeadOf(i), rec) = DOMAIN page \cup {into} /\ into \in Pages
      /\ Sound(old) /\ Fits(old, rec)
      /\ PagesWith(HeadOf(i), rec)[into] = Stored(old, rec)
  BY <1>2, <1>3, <1>4, <1>6, InsertKeeps DEF into, old
<1>8. /\ PagesOK(pg) /\ DOMAIN pg = DOMAIN page \cup {into} /\ pg[into] = Stored(old, rec) /\ rid[1] = into
      /\ rid[2] = SlotFor(old)
  BY <1>5, <1>7
<1>9. SlotFor(old) \in LiveSlots(Stored(old, rec))
  BY <1>3, <1>7, StoredSound
<1>10. rid[1] \in DOMAIN pg /\ rid[2] \in LiveSlots(pg[rid[1]]) /\ DOMAIN page \subseteq DOMAIN pg
  BY <1>8, <1>9
<1>11. /\ ds \in Seq(Desc) /\ DOMAIN ds = Used /\ ds[i].heapHead = into
       /\ \A j \in Used : j # i => ds[j] = slots[j]
       /\ \A j \in Used : ds[j].roots = slots[j].roots /\ ds[j].name = slots[j].name
  BY <1>1, <1>2, <1>7, <1>8, WithHeadKeeps
<1> HIDE DEF ds
<1>12. \A j \in Used : ds[j].heapHead \in Heads(pg)
  <2>1. \A j \in Used : slots[j].heapHead \in Heads(page)
    BY <1>2 DEF HeadOf
  <2>2. Heads(page) \subseteq Heads(pg) /\ into \in Heads(pg)
    BY <1>8 DEF Heads
  <2> QED
    BY <1>11, <2>1, <2>2
<1>13. slots[i] \in Desc
  BY <1>1, <1>2 DEF Used
<1>14. /\ i \in Used /\ slots[i] \in Desc
       /\ PagesOK(pg) /\ DOMAIN page \subseteq DOMAIN pg
       /\ rid[1] \in DOMAIN pg /\ rid[2] \in LiveSlots(pg[rid[1]])
       /\ ds \in Seq(Desc) /\ DOMAIN ds = Used
       /\ \A j \in Used : ds[j].heapHead \in Heads(pg) /\ ds[j].roots = slots[j].roots
       /\ \A j \in Used : ds[j].name = slots[j].name
  BY <1>1, <1>8, <1>10, <1>11, <1>12, <1>13
<1> QED
  BY <1>14, Zenon DEF ds, pg, rid, i

LEMMA InsertRowInv ==
    ASSUME Inv, NEW t \in Name, NEW row \in Row, InsertRow(t, row)
    PROVE  Inv'
<1> DEFINE i   == SlotOf(t)
           rid == NewRowRid(i, row)
           pg  == PagesWithRow(i, row)
           ds  == WithHead(i, rid[1])
<1>1. /\ scope = "tables" /\ scope' = scope /\ head' = head /\ page' = pg
      /\ Exists(t) /\ Storable(row) /\ RoomFor(i, row)
  BY DEF InsertRow, Tables
<1>2. PICK moves \in SUBSET DOMAIN EntriesOf(i, row) :
        /\ \A c \in moves : slots[i].roots[c][3] < MaxMoves
        /\ slots' = RowCounted(ds, i, RootsAfter(i, moves))
  <2>1. \E moves \in SUBSET DOMAIN EntriesOf(i, row) :
           /\ \A c \in moves : slots[i].roots[c][3] < MaxMoves /\ tree[slots[i].roots[c]] # <<>>
           /\ tree' = TreesWith(i, EntriesOf(i, row), moves)
           /\ slots' = RowCounted(ds, i, RootsAfter(i, moves))
    BY Zenon DEF InsertRow
  <2> HIDE DEF ds, i
  <2> QED
    BY <2>1
<1>3. /\ i \in Used /\ slots[i] \in Desc
      /\ PagesOK(pg)
      /\ ds \in Seq(Desc) /\ DOMAIN ds = Used
      /\ \A j \in Used : ds[j].heapHead \in Heads(pg) /\ ds[j].roots = slots[j].roots
  BY <1>1, RowStored
<1>4. slots \in Seq(Desc) /\ \A j \in Used : slots[j].roots[0] # NoRoot
  BY DEF Inv, DescsOK
<1> HIDE DEF i, ds, pg
<1>5. /\ RootsAfter(i, moves) \in [{0} \cup Column -> Root \cup {NoRoot}]
      /\ RootsAfter(i, moves)[0] # NoRoot
  BY <1>2, <1>3, <1>4, RootsAfterOK
<1> DEFINE d == WithRow(ds[i], RootsAfter(i, moves))
<1>6. d \in Desc /\ d.heapHead = ds[i].heapHead /\ d.roots = RootsAfter(i, moves)
  <2>1. ds[i] \in Desc
    BY <1>3
  <2> QED
    BY <1>5, <2>1, NewRoots
<1>7. slots' = [ds EXCEPT ![i] = d]
  BY <1>2 DEF RowCounted
<1> HIDE DEF d
<1>8. slots' \in Seq(Desc) /\ DOMAIN slots' = DOMAIN ds /\ slots'[i] = d /\ \A j \in DOMAIN ds : j # i => slots'[j] = ds[j]
  BY <1>3, <1>6, <1>7, OneSlot
<1>9. Used' = Used
  BY <1>3, <1>8 DEF Used
<1>10. \A j \in Used : slots'[j].heapHead \in Heads(page') /\ slots'[j].roots[0] # NoRoot
  BY <1>1, <1>3, <1>4, <1>5, <1>6, <1>8
<1>11. DescsOK'
  BY <1>4, <1>8, <1>9, <1>10, DescsKept
<1>12. head' = NoPage /\ InOrder(head', page')
  BY <1>1, NoPagesInOrder DEF Inv
<1> QED
  BY <1>1, <1>3, <1>11, <1>12 DEF Inv

LEMMA RefuseRowInv ==
    ASSUME Inv, NEW t \in Name, NEW row \in Row, RefuseRow(t, row)
    PROVE  Inv'
<1> DEFINE i   == SlotOf(t)
           rid == NewRowRid(i, row)
           pg  == PagesWithRow(i, row)
           ds  == WithHead(i, rid[1])
<1>1. /\ scope = "tables" /\ scope' = scope /\ head' = head
      /\ page' = [pg EXCEPT ![rid[1]] = Erased(@, rid[2])] /\ slots' = ds
      /\ Exists(t) /\ Storable(row) /\ RoomFor(i, row)
  BY DEF RefuseRow, Tables
<1>2. /\ PagesOK(pg) /\ rid[1] \in DOMAIN pg /\ rid[2] \in LiveSlots(pg[rid[1]])
      /\ ds \in Seq(Desc) /\ DOMAIN ds = Used
      /\ \A j \in Used : ds[j].heapHead \in Heads(pg) /\ ds[j].roots = slots[j].roots
  BY <1>1, RowStored
<1>3. slots \in Seq(Desc) /\ \A j \in Used : slots[j].roots[0] # NoRoot
  BY DEF Inv, DescsOK
<1> HIDE DEF i, ds, pg, rid
<1>4. PagesOK(page') /\ DOMAIN page' = DOMAIN pg
  BY <1>1, <1>2, EraseKeeps
<1>5. Used' = Used
  BY <1>1, <1>2 DEF Used
<1>6. \A j \in Used : slots'[j].heapHead \in Heads(page') /\ slots'[j].roots[0] # NoRoot
  BY <1>1, <1>2, <1>3, <1>4 DEF Heads
<1>7. DescsOK'
  BY <1>1, <1>2, <1>3, <1>5, <1>6, DescsKept
<1>8. head' = NoPage /\ InOrder(head', page')
  BY <1>1, NoPagesInOrder DEF Inv
<1> QED
  BY <1>1, <1>4, <1>7, <1>8 DEF Inv

LEMMA CreateTableInv ==
    ASSUME Inv, NEW t \in Name, CreateTable(t)
    PROVE  Inv'
<1> DEFINE root  == <<t, 0, 0>>
           roots == [c \in {0} \cup Column |-> IF c = 0 THEN root ELSE NoRoot]
           new   == [name |-> t, heapHead |-> NoPage, rows |-> 0, heapPages |-> 0, roots |-> roots]
<1>1. scope = "tables" /\ scope' = scope /\ head' = head /\ page' = page
  BY DEF CreateTable, Tables
<1>2. slots' = Append(slots, new)
  BY DEF CreateTable
<1>3. root \in Root /\ root # NoRoot
  BY Planted
<1> HIDE DEF root
<1>4. roots \in [{0} \cup Column -> Root \cup {NoRoot}] /\ roots[0] = root
  BY <1>3
<1> HIDE DEF roots
<1>5. new \in Desc
  BY <1>4, DescIs DEF NoPage
<1>6. new.heapHead = NoPage /\ new.roots[0] # NoRoot
  BY <1>3, <1>4
<1> HIDE DEF new
<1>7. slots \in Seq(Desc) /\ \A j \in DOMAIN slots : slots[j].heapHead \in Heads(page) /\ slots[j].roots[0] # NoRoot
  BY DEF Inv, DescsOK, HeadOf, Used
<1>8. /\ slots' \in Seq(Desc)
      /\ \A j \in DOMAIN slots' : (j \in DOMAIN slots /\ slots'[j] = slots[j]) \/ slots'[j] = new
  BY <1>2, <1>5, <1>7
<1>9. \A j \in DOMAIN slots' : slots'[j].heapHead \in Heads(page) /\ slots'[j].roots[0] # NoRoot
  BY <1>6, <1>7, <1>8 DEF Heads
<1>10. DescsOK'
  BY <1>1, <1>8, <1>9 DEF DescsOK, HeadOf, Used
<1> QED
  BY <1>1, <1>10 DEF Inv

LEMMA CreateIndexInv ==
    ASSUME Inv, NEW t \in Name, NEW c \in Column, CreateIndex(t, c)
    PROVE  Inv'
<1> DEFINE i       == SlotOf(t)
           planted == <<t, c, 0>>
<1>1. scope = "tables" /\ scope' = scope /\ head' = head /\ page' = page /\ Exists(t)
  BY DEF CreateIndex, Tables
<1>2. /\ slots[i].roots[c] = NoRoot
      /\ \E moved \in BOOLEAN :
            /\ moved => MaxMoves > 0
            /\ slots' = [slots EXCEPT ![i].roots[c] = IF moved THEN Moved(planted) ELSE planted]
  BY DEF CreateIndex
<1>3. i \in Used
  BY <1>1, SlotIs
<1>4. slots \in Seq(Desc) /\ \A j \in DOMAIN slots : slots[j].heapHead \in Heads(page) /\ slots[j].roots[0] # NoRoot
  BY DEF Inv, DescsOK, HeadOf, Used
<1>5. slots[i] \in Desc
  BY <1>3, <1>4 DEF Used
<1>6. planted \in Root /\ planted # NoRoot
  BY Planted
<1>7. planted[3] = 0
  OBVIOUS
<1> HIDE DEF i, planted
<1>8. PICK root : /\ root = planted \/ (MaxMoves > 0 /\ root = Moved(planted))
                  /\ slots' = [slots EXCEPT ![i].roots[c] = root]
  BY <1>2
<1>9. root \in Root /\ root # NoRoot
  BY <1>6, <1>7, <1>8, RootStep
<1> DEFINE rs == [slots[i].roots EXCEPT ![c] = root]
           d  == [slots[i] EXCEPT !.roots = rs]
<1>10. slots[i].roots \in [{0} \cup Column -> Root \cup {NoRoot}]
  BY <1>5, DescFields
<1>11. rs \in [{0} \cup Column -> Root \cup {NoRoot}] /\ rs[0] # NoRoot
  BY <1>3, <1>4, <1>9, <1>10 DEF Used
<1>12. slots' = [slots EXCEPT ![i] = d]
  BY <1>8
<1> HIDE DEF rs
<1>13. d \in Desc /\ d.heapHead = slots[i].heapHead /\ d.roots = rs
  BY <1>5, <1>11, NewRoots
<1> HIDE DEF d
<1>14. /\ slots' \in Seq(Desc) /\ DOMAIN slots' = DOMAIN slots /\ slots'[i] = d
       /\ \A j \in DOMAIN slots : j # i => slots'[j] = slots[j]
  BY <1>3, <1>4, <1>12, <1>13, OneSlot DEF Used
<1>15. \A j \in DOMAIN slots' : slots'[j].heapHead \in Heads(page) /\ slots'[j].roots[0] # NoRoot
  BY <1>3, <1>4, <1>11, <1>13, <1>14 DEF Used
<1>16. DescsOK'
  BY <1>1, <1>14, <1>15 DEF DescsOK, HeadOf, Used
<1> QED
  BY <1>1, <1>16 DEF Inv

\* A database without tables.
LEMMA InsertInv ==
    ASSUME Inv, scope = "heap", NEW rec \in Record, Insert(rec), UNCHANGED <<scope, slots, tree, legacyRoot>>
    PROVE  Inv'
<1> DEFINE into == Into(head, rec)
           old  == Before(head, rec)
           pg   == PagesWith(head, rec)
<1>1. /\ page' = pg /\ head' = into /\ Len(rec) \in 1..MaxRecordSize
      /\ Room(head, rec) \/ Pages \ DOMAIN page # {}
  BY DEF Insert
<1>2. rec \in Seq(Unit)
  BY HeapAssumption
<1>3. PagesOK(page) /\ DescsOK /\ InOrder(head, page) /\ DOMAIN page = 1..head
  BY DEF Inv
<1>4. head \in Heads(page) /\ MaxPage \in Nat /\ DOMAIN page = 1..head /\ head \in 0..MaxPage
  BY <1>3, HeapAssumption DEF InOrder, Heads, Pages, NoPage
<1> HIDE DEF into, old, pg
<1>5. /\ PagesOK(pg) /\ DOMAIN pg = DOMAIN page \cup {into} /\ into \in Pages
      /\ Sound(old) /\ Fits(old, rec) /\ pg[into] = Stored(old, rec)
      /\ \A p \in DOMAIN page : p # into => pg[p] = page[p]
      /\ IF Room(head, rec) THEN into = head /\ head \in DOMAIN page /\ old = page[head]
         ELSE into = Fresh /\ into \notin DOMAIN page /\ old = EmptyPage(head)
  BY <1>1, <1>2, <1>3, <1>4, InsertKeeps DEF into, old, pg
<1>6. pg[into].next = old.next
  BY <1>2, <1>1, <1>5, StoredSound
<1>7. ASSUME Room(head, rec) PROVE InOrder(into, pg) /\ DOMAIN pg = 1..into
  <2>1. into = head /\ head \in DOMAIN page /\ old = page[head] /\ DOMAIN pg = DOMAIN page
    BY <1>5, <1>7
  <2>2. \A p \in DOMAIN page : pg[p].next = page[p].next
    BY <1>5, <1>6, <2>1
  <2>3. InOrder(into, pg)
    BY <1>3, <2>1, <2>2 DEF InOrder
  <2> QED
    BY <1>3, <2>1, <2>3
<1>8. ASSUME ~Room(head, rec) PROVE InOrder(into, pg) /\ DOMAIN pg = 1..into
  <2>1. into = Fresh /\ into \notin DOMAIN page /\ old = EmptyPage(head)
    BY <1>5, <1>8
  <2>2. Fresh \in Pages \ DOMAIN page /\ \A p \in Pages \ DOMAIN page : Fresh <= p
    BY <1>1, <1>8, FreshIs
  <2>3. into = head + 1
    BY <1>4, <2>1, <2>2 DEF Pages
  <2>4. old.next = head
    BY <2>1 DEF EmptyPage
  <2>5. DOMAIN pg = 1..into
    BY <1>4, <1>5, <2>3
  <2>6. \A p \in DOMAIN page : pg[p].next = p - 1
    BY <1>3, <1>5, <2>1 DEF InOrder
  <2>7. \A p \in DOMAIN pg : pg[p].next = p - 1
    BY <1>4, <1>5, <1>6, <2>3, <2>4, <2>6
  <2>8. InOrder(into, pg)
    BY <1>5, <2>5, <2>7 DEF InOrder
  <2> QED
    BY <2>5, <2>8
<1>9. InOrder(into, pg) /\ DOMAIN pg = 1..into
  BY <1>7, <1>8
<1>10. DescsOK'
  BY <1>1, <1>3, <1>5 DEF DescsOK, HeadOf, Used, Heads
<1> QED
  BY <1>1, <1>5, <1>9, <1>10 DEF Inv

LEMMA EraseInv ==
    ASSUME Inv, scope = "heap", NEW r \in Rids(head), Erase(r), UNCHANGED <<scope, slots, tree, legacyRoot>>
    PROVE  Inv'
<1>1. InOrder(head, page) /\ PagesOK(page) /\ DOMAIN page = 1..head
  BY DEF Inv
<1>2. r[1] \in Chain(head) /\ r[2] \in 1..Len(page[r[1]].slots)
  BY DEF Rids
<1>3. Chain(head) = ChainIn(head, page)
  BY DEF Chain, ChainIn
<1>4. r[1] \in DOMAIN page
  BY <1>1, <1>2, <1>3, ChainIs DEF InOrder
<1>5. head' = head
  BY DEF Erase
<1>6. CASE ~IsLive(page[r[1]], r[2])
  <2>1. page' = page
    BY <1>6 DEF Erase
  <2> QED
    BY <1>5, <2>1 DEF Inv, DescsOK, HeadOf, Used
<1>7. CASE IsLive(page[r[1]], r[2])
  <2> DEFINE p == r[1]
             s == r[2]
  <2>1. page' = [page EXCEPT ![p] = Erased(@, s)]
    BY <1>7 DEF Erase
  <2>2. s \in LiveSlots(page[p]) /\ p \in DOMAIN page
    BY <1>2, <1>4, <1>7 DEF LiveSlots
  <2> HIDE DEF p, s
  <2>3. PagesOK(page') /\ DOMAIN page' = DOMAIN page
    BY <1>1, <2>1, <2>2, EraseKeeps
  <2>4. \A q \in DOMAIN page : page'[q].next = page[q].next
    <3>1. Sound(page[p])
      BY <1>1, <2>2 DEF PagesOK
    <3>2. Erased(page[p], s).next = page[p].next
      BY <2>2, <3>1, ErasedSound
    <3> QED
      BY <2>1, <3>2
  <2>5. InOrder(head, page')
    BY <1>1, <2>3, <2>4 DEF InOrder
  <2>6. DescsOK'
    BY <2>3 DEF Inv, DescsOK, HeadOf, Used, Heads
  <2> QED
    BY <1>5, <2>3, <2>5, <2>6 DEF Inv
<1> QED
  BY <1>6, <1>7

LEMMA NextInv == Inv /\ [CatalogNext]_vars => Inv'
<1> SUFFICES ASSUME Inv, [CatalogNext]_vars PROVE Inv'
  OBVIOUS
<1> DEFINE Still == UNCHANGED <<scope, head, page, slots>>
<1>1. ASSUME Still PROVE Inv'
  BY <1>1 DEF Inv, DescsOK, HeadOf, Used
<1>2. CASE PlainHeap
  <2>1. scope = "heap" /\ HeapNext /\ UNCHANGED <<scope, slots, tree, legacyRoot>>
    BY <1>2 DEF PlainHeap
  <2>2. ASSUME NEW rec \in Record, Insert(rec) PROVE Inv'
    BY <2>1, <2>2, InsertInv
  <2>3. ASSUME NEW rec \in Record, Refuse(rec) PROVE Inv'
    BY <1>1, <2>1, <2>3 DEF Refuse
  <2>4. ASSUME NEW r \in Rids(head), Erase(r) PROVE Inv'
    BY <2>1, <2>4, EraseInv
  <2> QED
    BY <2>1, <2>2, <2>3, <2>4 DEF HeapNext
<1>3. ASSUME NEW t \in Name, CreateTable(t) PROVE Inv'
  BY <1>3, CreateTableInv
<1>4. ASSUME NEW t \in Name, RefuseTable(t) PROVE Inv'
  BY <1>1, <1>4 DEF RefuseTable, Tables
<1>5. ASSUME NEW t \in Name, NEW row \in Row, InsertRow(t, row) PROVE Inv'
  BY <1>5, InsertRowInv
<1>6. ASSUME NEW t \in Name, NEW row \in Row, RefuseRow(t, row) PROVE Inv'
  BY <1>6, RefuseRowInv
<1>7. ASSUME NEW t \in Name, NEW row \in Row, RefuseLong(t, row) PROVE Inv'
  BY <1>1, <1>7 DEF RefuseLong, Tables
<1>8. ASSUME NEW t \in Name, NEW c \in Column, CreateIndex(t, c) PROVE Inv'
  BY <1>8, CreateIndexInv
<1>9. ASSUME NEW t \in Name, NEW c \in Column, RefuseIndex(t, c) PROVE Inv'
  BY <1>1, <1>9 DEF RefuseIndex, Tables
<1>10. CASE UNCHANGED vars
  BY <1>1, <1>10 DEF vars
<1> QED
  BY <1>2, <1>3, <1>4, <1>5, <1>6, <1>7, <1>8, <1>9, <1>10 DEF CatalogNext

\* Whatever is inserted, refused, erased or compacted, by tables or by the one heap of a
\* database without them, no page's directory and cells run into each other, and every
\* compaction finds the bytes it brings together (slotted_page.cpp, heap.cpp, catalog.cpp).
THEOREM CatalogPagesSound == Spec => []PagesSound
<1>1. Init => Inv
  BY InitInv
<1>2. Inv /\ [CatalogNext]_vars => Inv'
  BY NextInv
<1>3. Inv => PagesSound
  BY DEF Inv, PagesOK, PagesSound, Sound
<1> QED
  BY <1>1, <1>2, <1>3, PTL DEF Spec
-----------------------------------------------------------------------------
(* The records of the heap that has the database to itself.                *)

\* Live and Rows, of any pages.
LiveIn(h, pg) == {r \in UNION {{<<p, s>> : s \in 1..Len(pg[p].slots)} : p \in ChainIn(h, pg)} :
                     IsLive(pg[r[1]], r[2])}
RowsIn(h, pg) == [r \in LiveIn(h, pg) |-> ReadSlot(pg[r[1]], r[2])]

LEMMA RowsAre == Rows = RowsIn(head, page) /\ Rows' = RowsIn(head', page')
<1>1. Live(head) = LiveIn(head, page)
  BY DEF Live, Rids, Chain, LiveIn, ChainIn
<1>2. Live(head)' = LiveIn(head', page')
  BY DEF Live, Rids, Chain, LiveIn, ChainIn
<1> QED
  BY <1>1, <1>2 DEF Rows, RowsIn, Get

LEMMA SlotsOfPage == ASSUME NEW p, Sound(p) PROVE LiveSlots(p) \subseteq 1..Len(p.slots) /\ Len(p.slots) \in 0..PageSize
<1> DEFINE n == Len(p.slots)
<1>1. n \in Nat /\ DOMAIN p.slots = 1..n
  BY PageFields DEF Sound
<1>2. LiveSlots(p) \subseteq 1..n
  BY <1>1 DEF LiveSlots
<1>3. /\ p.freeStart = HeaderSize + SlotSize * n /\ p.freeStart <= p.freeEnd
      /\ p.freeEnd \in Nat /\ p.freeEnd <= PageSize
  BY PageFields DEF Sound, SoundPage
<1>4. SlotSize * n >= n /\ SlotSize * n \in Nat
  BY <1>1, Directory
<1>5. HeaderSize \in Nat /\ PageSize \in Nat
  BY Sizes
<1> HIDE DEF n
<1>6. n <= PageSize
  BY <1>1, <1>3, <1>4, <1>5
<1> QED
  BY <1>1, <1>2, <1>5, <1>6 DEF n

LEMMA LiveIs ==
    ASSUME NEW h, NEW pg, InOrder(h, pg), PagesOK(pg)
    PROVE  /\ \A r \in LiveIn(h, pg) : r = <<r[1], r[2]>> /\ r[1] \in 1..h /\ r[2] \in LiveSlots(pg[r[1]])
           /\ \A p \in 1..h : \A s \in LiveSlots(pg[p]) : <<p, s>> \in LiveIn(h, pg)
           /\ LiveIn(h, pg) \subseteq Pages \X (1..PageSize)
<1>1. ChainIn(h, pg) = 1..h
  BY ChainIs
<1>2. \A r \in LiveIn(h, pg) : r = <<r[1], r[2]>> /\ r[1] \in 1..h /\ r[2] \in LiveSlots(pg[r[1]])
  BY <1>1 DEF LiveIn, LiveSlots, IsLive
<1>3. ASSUME NEW p \in 1..h
      PROVE  Sound(pg[p]) /\ p \in Pages
  BY <1>3 DEF InOrder, PagesOK
<1>4. ASSUME NEW p \in 1..h, NEW s \in LiveSlots(pg[p])
      PROVE  <<p, s>> \in LiveIn(h, pg) /\ s \in 1..PageSize
  <2>1. s \in 1..Len(pg[p].slots) /\ Len(pg[p].slots) \in 0..PageSize /\ IsLive(pg[p], s)
    BY <1>3, SlotsOfPage DEF LiveSlots
  <2>2. <<p, s>> \in LiveIn(h, pg)
    BY <1>1, <2>1 DEF LiveIn
  <2> QED
    BY <2>1, <2>2, Sizes
<1>5. ASSUME NEW r \in LiveIn(h, pg)
      PROVE  r \in Pages \X (1..PageSize)
  <2>1. r = <<r[1], r[2]>> /\ r[1] \in 1..h /\ r[2] \in LiveSlots(pg[r[1]])
    BY <1>2
  <2>2. r[1] \in Pages /\ r[2] \in 1..PageSize
    BY <1>3, <1>4, <2>1
  <2> QED
    BY <2>1, <2>2
<1> QED
  BY <1>2, <1>4, <1>5

LEMMA InsertRows ==
    ASSUME Inv, Inv', scope = "heap", scope' = scope, NEW rec \in Record, Insert(rec)
    PROVE  \E r \in (Pages \X (1..PageSize)) \ DOMAIN RowsIn(head, page) :
              RowsIn(head', page') = [q \in DOMAIN RowsIn(head, page) \cup {r} |->
                                         IF q = r THEN rec ELSE RowsIn(head, page)[q]]
<1> DEFINE into == Into(head, rec)
           old  == Before(head, rec)
           pg   == PagesWith(head, rec)
           r    == <<into, SlotFor(old)>>
           A    == LiveIn(head, page)
           B    == LiveIn(into, pg)
<1>1. /\ page' = pg /\ head' = into /\ Len(rec) \in 1..MaxRecordSize
      /\ Room(head, rec) \/ Pages \ DOMAIN page # {}
  BY DEF Insert
<1>2. rec \in Seq(Unit)
  BY HeapAssumption
<1>3. /\ PagesOK(page) /\ InOrder(head, page) /\ DOMAIN page = 1..head
      /\ PagesOK(pg) /\ InOrder(into, pg) /\ DOMAIN pg = 1..into
  BY <1>1 DEF Inv
<1>4. head \in Heads(page)
  BY <1>3, HeapAssumption DEF InOrder, Heads, Pages, NoPage
<1> HIDE DEF into, old, pg
<1>5. /\ DOMAIN pg = DOMAIN page \cup {into} /\ into \in Pages
      /\ Sound(old) /\ Fits(old, rec) /\ pg[into] = Stored(old, rec)
      /\ \A p \in DOMAIN page : p # into => pg[p] = page[p]
      /\ IF Room(head, rec) THEN into = head /\ head \in DOMAIN page /\ old = page[head]
         ELSE into = Fresh /\ into \notin DOMAIN page /\ old = EmptyPage(head)
  BY <1>1, <1>2, <1>3, <1>4, InsertKeeps DEF into, old, pg
<1>6. /\ SlotFor(old) \notin LiveSlots(old)
      /\ LiveSlots(pg[into]) = LiveSlots(old) \cup {SlotFor(old)}
      /\ ReadSlot(pg[into], SlotFor(old)) = rec
      /\ \A s \in LiveSlots(old) : ReadSlot(pg[into], s) = ReadSlot(old, s)
  BY <1>2, <1>5, StoredSound
<1>7. /\ into \in DOMAIN page => old = page[into]
      /\ into \notin DOMAIN page => LiveSlots(old) = {}
  <2>1. CASE Room(head, rec)
    BY <1>5, <2>1
  <2>2. CASE ~Room(head, rec)
    <3>1. head \in Nat
      BY <1>3, HeapAssumption DEF InOrder, Pages, NoPage
    <3> QED
      BY <1>5, <2>2, <3>1, EmptyPageSound
  <2> QED
    BY <2>1, <2>2
<1>8. /\ \A q \in A : q = <<q[1], q[2]>> /\ q[1] \in DOMAIN page /\ q[2] \in LiveSlots(page[q[1]])
      /\ \A p \in DOMAIN page : \A s \in LiveSlots(page[p]) : <<p, s>> \in A
  BY <1>3, LiveIs
<1>9. /\ \A q \in B : q = <<q[1], q[2]>> /\ q[1] \in DOMAIN pg /\ q[2] \in LiveSlots(pg[q[1]])
      /\ \A p \in DOMAIN pg : \A s \in LiveSlots(pg[p]) : <<p, s>> \in B
      /\ B \subseteq Pages \X (1..PageSize)
  BY <1>3, LiveIs
<1> HIDE DEF A, B
<1>10. r \in B /\ r[1] = into /\ r[2] = SlotFor(old)
  BY <1>5, <1>6, <1>9
<1>11. r \notin A
  BY <1>6, <1>7, <1>8
<1>12. ASSUME NEW q \in A
       PROVE  q \in B /\ ReadSlot(pg[q[1]], q[2]) = ReadSlot(page[q[1]], q[2])
  <2>1. q = <<q[1], q[2]>> /\ q[1] \in DOMAIN page /\ q[2] \in LiveSlots(page[q[1]])
    BY <1>8
  <2>2. CASE q[1] = into
    BY <1>5, <1>6, <1>7, <1>9, <2>1, <2>2
  <2>3. CASE q[1] # into
    BY <1>5, <1>9, <2>1, <2>3
  <2> QED
    BY <2>2, <2>3
<1>13. ASSUME NEW q \in B, q # r
       PROVE  q \in A
  <2>1. q = <<q[1], q[2]>> /\ q[1] \in DOMAIN pg /\ q[2] \in LiveSlots(pg[q[1]])
    BY <1>9
  <2>2. CASE q[1] = into
    <3>1. q[2] \in LiveSlots(old)
      BY <1>6, <1>13, <2>1, <2>2
    <3> QED
      BY <1>7, <1>8, <2>1, <2>2, <3>1
  <2>3. CASE q[1] # into
    BY <1>5, <1>8, <2>1, <2>3
  <2> QED
    BY <2>2, <2>3
<1> HIDE DEF r
<1>14. B = A \cup {r}
  BY <1>10, <1>12, <1>13
<1>15. /\ RowsIn(head, page) = [q \in A |-> ReadSlot(page[q[1]], q[2])]
       /\ RowsIn(head', page') = [q \in B |-> ReadSlot(pg[q[1]], q[2])]
  BY <1>1 DEF RowsIn, A, B
<1>16. RowsIn(head', page') = [q \in A \cup {r} |-> IF q = r THEN rec ELSE RowsIn(head, page)[q]]
  <2>1. ReadSlot(pg[r[1]], r[2]) = rec
    BY <1>6, <1>10
  <2>2. \A q \in A \cup {r} : ReadSlot(pg[q[1]], q[2]) = IF q = r THEN rec ELSE RowsIn(head, page)[q]
    BY <1>11, <1>12, <1>15, <2>1
  <2> QED
    BY <1>14, <1>15, <2>2, Zenon
<1>17. DOMAIN RowsIn(head, page) = A
  BY <1>15
<1>18. r \in (Pages \X (1..PageSize)) \ DOMAIN RowsIn(head, page)
  BY <1>9, <1>10, <1>11, <1>17
<1> QED
  BY <1>16, <1>17, <1>18

LEMMA EraseRows ==
    ASSUME Inv, Inv', NEW r \in LiveIn(head, page), Erase(r)
    PROVE  RowsIn(head', page') = Restrict(RowsIn(head, page), DOMAIN RowsIn(head, page) \ {r})
<1> DEFINE p == r[1]
           s == r[2]
           A == LiveIn(head, page)
           B == LiveIn(head, page')
<1>1. /\ InOrder(head, page) /\ PagesOK(page) /\ InOrder(head, page') /\ PagesOK(page')
      /\ head' = head
  BY DEF Inv, Erase
<1>2. /\ \A q \in A : q = <<q[1], q[2]>> /\ q[1] \in 1..head /\ q[2] \in LiveSlots(page[q[1]])
      /\ \A n \in 1..head : \A t \in LiveSlots(page[n]) : <<n, t>> \in A
  BY <1>1, LiveIs
<1>3. /\ \A q \in B : q = <<q[1], q[2]>> /\ q[1] \in 1..head /\ q[2] \in LiveSlots(page'[q[1]])
      /\ \A n \in 1..head : \A t \in LiveSlots(page'[n]) : <<n, t>> \in B
  BY <1>1, LiveIs
<1>4. r = <<p, s>> /\ p \in 1..head /\ s \in LiveSlots(page[p]) /\ p \in DOMAIN page /\ Sound(page[p])
  BY <1>1, <1>2 DEF InOrder, PagesOK
<1>5. page' = [page EXCEPT ![p] = Erased(@, s)]
  BY <1>4 DEF Erase, LiveSlots
<1> HIDE DEF p, s
<1>6. /\ LiveSlots(Erased(page[p], s)) = LiveSlots(page[p]) \ {s}
      /\ \A t \in LiveSlots(page[p]) \ {s} : ReadSlot(Erased(page[p], s), t) = ReadSlot(page[p], t)
  BY <1>4, ErasedSound
<1>7. page'[p] = Erased(page[p], s) /\ \A n \in DOMAIN page : n # p => page'[n] = page[n]
  BY <1>4, <1>5
<1>8. 1..head \subseteq DOMAIN page
  BY <1>1 DEF InOrder
<1> HIDE DEF A, B
<1>9. ASSUME NEW q \in A, q # r
      PROVE  q \in B /\ ReadSlot(page'[q[1]], q[2]) = ReadSlot(page[q[1]], q[2])
  <2>1. q = <<q[1], q[2]>> /\ q[1] \in 1..head /\ q[2] \in LiveSlots(page[q[1]])
    BY <1>2
  <2>2. CASE q[1] = p
    <3>1. q[2] # s
      BY <1>4, <1>9, <2>1, <2>2
    <3> QED
      BY <1>3, <1>6, <1>7, <2>1, <2>2, <3>1
  <2>3. CASE q[1] # p
    BY <1>3, <1>7, <1>8, <2>1, <2>3
  <2> QED
    BY <2>2, <2>3
<1>10. ASSUME NEW q \in B
       PROVE  q \in A /\ q # r
  <2>1. q = <<q[1], q[2]>> /\ q[1] \in 1..head /\ q[2] \in LiveSlots(page'[q[1]])
    BY <1>3
  <2>2. CASE q[1] = p
    BY <1>2, <1>4, <1>6, <1>7, <2>1, <2>2
  <2>3. CASE q[1] # p
    BY <1>2, <1>4, <1>7, <1>8, <2>1, <2>3
  <2> QED
    BY <2>2, <2>3
<1>11. B = A \ {r}
  BY <1>9, <1>10
<1>12. /\ RowsIn(head, page) = [q \in A |-> ReadSlot(page[q[1]], q[2])]
       /\ RowsIn(head', page') = [q \in B |-> ReadSlot(page'[q[1]], q[2])]
  BY <1>1 DEF RowsIn, A, B
<1>13. \A q \in A \ {r} : ReadSlot(page'[q[1]], q[2]) = RowsIn(head, page)[q]
  BY <1>9, <1>12
<1> QED
  BY <1>11, <1>12, <1>13 DEF Restrict

\* A database with tables has no heap of its own.
LEMMA NoRows ==
    ASSUME NEW pg
    PROVE  RowsIn(NoPage, pg) = <<>>
<1>1. ChainIn(NoPage, pg) = {}
  BY NoPagesInOrder, ChainIs DEF NoPage
<1>2. LiveIn(NoPage, pg) = {}
  BY <1>1 DEF LiveIn
<1> QED
  BY <1>2 DEF RowsIn

LEMMA NextRows == Inv /\ Inv' /\ [CatalogNext]_vars => [Promise!Next]_Rows
<1> SUFFICES ASSUME Inv, Inv', [CatalogNext]_vars PROVE [Promise!Next]_Rows
  OBVIOUS
<1>1. Rows = RowsIn(head, page) /\ Rows' = RowsIn(head', page')
  BY RowsAre
<1>2. ASSUME head' = head, page' = page PROVE Rows' = Rows
  BY <1>1, <1>2
<1>3. CASE PlainHeap
  <2>1. scope = "heap" /\ HeapNext /\ scope' = scope
    BY <1>3 DEF PlainHeap
  <2>2. ASSUME NEW rec \in Record, Insert(rec) PROVE Promise!Next
    BY <1>1, <2>1, <2>2, InsertRows DEF Promise!Next, Promise!Inserted
  <2>3. ASSUME NEW rec \in Record, Refuse(rec) PROVE Rows' = Rows
    BY <1>2, <2>3 DEF Refuse
  <2>4. ASSUME NEW r \in Rids(head), Erase(r) PROVE [Promise!Next]_Rows
    <3>1. CASE IsLive(page[r[1]], r[2])
      <4>1. r \in LiveIn(head, page)
        BY <3>1 DEF Rids, LiveIn, Chain, ChainIn
      <4>2. Rows' = Restrict(Rows, DOMAIN Rows \ {r}) /\ r \in DOMAIN Rows
        BY <1>1, <2>4, <4>1, EraseRows DEF RowsIn
      <4> QED
        BY <4>2 DEF Promise!Next, Promise!Removed, Promise!Restrict, Restrict
    <3>2. CASE ~IsLive(page[r[1]], r[2])
      BY <1>2, <2>4, <3>2 DEF Erase
    <3> QED
      BY <3>1, <3>2
  <2> QED
    BY <2>1, <2>2, <2>3, <2>4 DEF HeapNext
<1>4. CASE ~PlainHeap
  <2>1. CASE UNCHANGED vars
    BY <1>2, <2>1 DEF vars
  <2>2. CASE ~UNCHANGED vars
    <3>1. Tables
      BY <1>4, <2>2 DEF CatalogNext, CreateTable, RefuseTable, InsertRow, RefuseRow, RefuseLong,
                        CreateIndex, RefuseIndex
    <3>2. head = NoPage /\ head' = NoPage
      BY <3>1 DEF Tables, Inv
    <3> QED
      BY <1>1, <3>2, NoRows
  <2> QED
    BY <2>1, <2>2
<1> QED
  BY <1>3, <1>4

\* The heap keeps its promise on pages of every size, for records of every length: a record
\* keeps its address and its bytes until it is erased, whatever is inserted, erased or
\* compacted around it (slotted_page.hpp:111-112, heap.cpp).
THEOREM HeapKeepsRecords == Spec => KeepsRecords
<1>1. Init => Inv
  BY InitInv
<1>2. Inv /\ [CatalogNext]_vars => Inv'
  BY NextInv
<1>3. Init => Promise!Init
  <2>1. Init => head = NoPage
    BY DEF Init
  <2> QED
    BY <2>1, RowsAre, NoRows DEF Promise!Init
<1>4. Inv /\ Inv' /\ [CatalogNext]_vars => [Promise!Next]_Rows
  BY NextRows
<1> QED
  BY <1>1, <1>2, <1>3, <1>4, PTL DEF Spec, KeepsRecords, Promise!Spec
-----------------------------------------------------------------------------
(* Whose the pages are.                                                    *)

\* Each page belongs to one table, whose heap is linked through all of its pages.
Parts(ds, pg, own, height) ==
    /\ own \in [DOMAIN pg -> DOMAIN ds]
    /\ \A p \in DOMAIN pg : height[p] \in 1..p /\ 1..p \subseteq DOMAIN pg
    /\ \A i \in DOMAIN ds : Linked(ds[i].heapHead, {p \in DOMAIN pg : own[p] = i}, height, pg)

OwnInv == /\ scope = "heap" => slots = <<>>
          /\ scope = "tables" => \E own, height : Parts(slots, page, own, height)

LEMMA LinkedStill ==
    ASSUME NEW h, NEW S, NEW height, NEW pg, Linked(h, S, height, pg),
           NEW height2, NEW pg2, \A p \in S : height2[p] = height[p] /\ pg2[p].next = pg[p].next
    PROVE  Linked(h, S, height2, pg2)
<1>1. ASSUME NEW p \in S
      PROVE  /\ p # NoPage /\ height2[p] \in 1..MaxPage
             /\ p = h \/ (height2[p] < height2[h] /\ \E q \in S : pg2[q].next = p)
             /\ pg2[p].next # NoPage => /\ pg2[p].next \in S
                                       /\ height2[p] = height2[pg2[p].next] + 1
  <2>1. h \in S
    BY DEF Linked
  <2> QED
    BY <2>1 DEF Linked
<1> QED
  BY <1>1 DEF Linked

\* Table i stores a record in its head, or in a new page linked before it.
HeadMoved(ds, pg, i, into, ds2, pg2) ==
    /\ DOMAIN pg2 = DOMAIN pg \cup {into}
    /\ \A p \in DOMAIN pg : pg2[p].next = pg[p].next
    /\ into \in DOMAIN pg => into = ds[i].heapHead
    /\ into \notin DOMAIN pg => pg2[into].next = ds[i].heapHead /\ 1..into-1 \subseteq DOMAIN pg
    /\ DOMAIN ds2 = DOMAIN ds
    /\ ds2[i].heapHead = into
    /\ \A j \in DOMAIN ds : j # i => ds2[j].heapHead = ds[j].heapHead

\* Whose the pages are then.
OwnWith(own, into, i) == [p \in DOMAIN own \cup {into} |-> IF p = into THEN i ELSE own[p]]

LEMMA PageAdded ==
    ASSUME NEW ds, NEW pg, NEW own, NEW height, Parts(ds, pg, own, height), DOMAIN pg \subseteq Pages,
           NEW i \in DOMAIN ds, NEW into \in Pages, NEW ds2, NEW pg2,
           HeadMoved(ds, pg, i, into, ds2, pg2)
    PROVE  \E t : Parts(ds2, pg2, OwnWith(own, into, i), t)
<1> USE DEF HeadMoved
<1> DEFINE S(j) == {p \in DOMAIN pg : own[p] = j}
           h    == ds[i].heapHead
<1>0. MaxPage \in Nat /\ into \in 1..MaxPage
  BY HeapAssumption DEF Pages
<1>1. /\ own \in [DOMAIN pg -> DOMAIN ds]
      /\ \A p \in DOMAIN pg : height[p] \in 1..p /\ 1..p \subseteq DOMAIN pg /\ p \in 1..MaxPage
      /\ \A j \in DOMAIN ds : Linked(ds[j].heapHead, S(j), height, pg)
  BY DEF Parts, Pages
<1>2. CASE into \in DOMAIN pg
  <2>1. DOMAIN pg2 = DOMAIN pg /\ \A j \in DOMAIN ds : ds2[j].heapHead = ds[j].heapHead
    BY <1>2
  <2>2. ASSUME NEW j \in DOMAIN ds
        PROVE  Linked(ds[j].heapHead, S(j), height, pg2)
    <3>1. Linked(ds[j].heapHead, S(j), height, pg)
      BY <1>1
    <3>2. \A p \in S(j) : height[p] = height[p] /\ pg2[p].next = pg[p].next
      OBVIOUS
    <3> HIDE DEF S
    <3> QED
      BY <3>1, <3>2, LinkedStill
  <2>3. Parts(ds2, pg2, own, height)
    BY <1>1, <2>1, <2>2 DEF Parts
  <2>4. own[into] = i
    <3>0. h # NoPage
      BY <1>0, <1>2 DEF NoPage
    <3>1. Linked(h, S(i), height, pg)
      BY <1>1
    <3>2. h \in S(i)
      BY <3>0, <3>1 DEF Linked
    <3> QED
      BY <1>2, <3>2
  <2>5. OwnWith(own, into, i) = own
    BY <1>1, <1>2, <2>4 DEF OwnWith
  <2> QED
    BY <2>3, <2>5
<1>3. CASE into \notin DOMAIN pg
  <2> DEFINE top == IF h = NoPage THEN 1 ELSE height[h] + 1
             o   == [p \in DOMAIN pg2 |-> IF p = into THEN i ELSE own[p]]
             t   == [p \in DOMAIN pg2 |-> IF p = into THEN top ELSE height[p]]
             S2(j) == {p \in DOMAIN pg2 : o[p] = j}
  <2>1. /\ \A j \in DOMAIN ds : j # i => S2(j) = S(j)
        /\ S2(i) = S(i) \cup {into} /\ into \notin S(i)
    BY <1>3
  <2>2. o \in [DOMAIN pg2 -> DOMAIN ds2]
    BY <1>1
  <2>3. /\ \A p \in DOMAIN pg : t[p] = height[p]
        /\ t[into] = top
    BY <1>3
  <2>4. Linked(h, S(i), height, pg)
    BY <1>1
  <2>5. h \in S(i) \/ (h = NoPage /\ S(i) = {})
    BY <2>4 DEF Linked
  <2> HIDE DEF o, t, h
  <2>6. top \in 1..into
    <3>1. CASE h = NoPage
      BY <1>0, <3>1
    <3>2. CASE h # NoPage
      <4>1. h \in DOMAIN pg
        BY <2>5, <3>2
      <4>2. height[h] \in 1..h /\ 1..h \subseteq DOMAIN pg /\ h \in 1..MaxPage
        BY <1>1, <4>1
      <4>3. ~(into <= h)
        BY <1>0, <1>3, <4>2
      <4> QED
        BY <1>0, <3>2, <4>2, <4>3
    <3> QED
      BY <3>1, <3>2
  <2>7. \A p \in DOMAIN pg2 : t[p] \in 1..p /\ 1..p \subseteq DOMAIN pg2
    <3>1. 1..into \subseteq DOMAIN pg2
      <4>1. 1..into-1 \subseteq DOMAIN pg
        BY <1>3
      <4>2. 1..into = (1..into-1) \cup {into}
        BY <1>0
      <4> QED
        BY <4>1, <4>2
    <3> HIDE DEF top
    <3> QED
      BY <1>1, <2>3, <2>6, <3>1
  <2>8. ASSUME NEW j \in DOMAIN ds, j # i
        PROVE  Linked(ds2[j].heapHead, S2(j), t, pg2)
    <3>1. Linked(ds[j].heapHead, S(j), height, pg)
      BY <1>1
    <3>2. \A p \in S(j) : t[p] = height[p] /\ pg2[p].next = pg[p].next
      BY <2>3
    <3>3. Linked(ds[j].heapHead, S(j), t, pg2)
      BY <3>1, <3>2, LinkedStill
    <3>4. S2(j) = S(j) /\ ds2[j].heapHead = ds[j].heapHead
      BY <2>1, <2>8
    <3> QED
      BY <3>3, <3>4
  <2>9. Linked(into, S(i) \cup {into}, t, pg2)
    <3> DEFINE U == S(i) \cup {into}
    <3>1. \A p \in S(i) : t[p] = height[p] /\ pg2[p].next = pg[p].next
      BY <2>3
    <3>2. Linked(h, S(i), t, pg2)
      BY <2>4, <3>1, LinkedStill
    <3>3. pg2[into].next = h /\ into # NoPage
      BY <1>0, <1>3 DEF h, NoPage
    <3>4. t[into] \in 1..MaxPage
      <4> HIDE DEF top
      <4> QED
        BY <1>0, <2>3, <2>6
    <3>5. h # NoPage => h \in S(i) /\ t[into] = t[h] + 1
      BY <2>3, <2>5
    <3> HIDE DEF S, top
    <3>6. /\ h \in S(i) \/ (h = NoPage /\ S(i) = {})
          /\ \A p \in S(i) : /\ p # NoPage /\ t[p] \in 1..MaxPage
                             /\ p = h \/ (t[p] < t[h] /\ \E q \in S(i) : pg2[q].next = p)
                             /\ pg2[p].next # NoPage => /\ pg2[p].next \in S(i)
                                                       /\ t[p] = t[pg2[p].next] + 1
      BY <3>2, Zenon DEF Linked
    <3>7. ASSUME NEW p \in S(i)
          PROVE  t[p] < t[into] /\ \E q \in U : pg2[q].next = p
      <4>1. h \in S(i) /\ h # NoPage
        BY <3>6
      <4>2. t[into] = t[h] + 1 /\ t[h] \in Nat /\ t[p] \in Nat
        BY <1>0, <3>5, <3>6, <4>1
      <4>3. CASE p = h
        BY <3>3, <4>2, <4>3
      <4>4. CASE p # h
        <5>1. t[p] < t[h] /\ \E q \in S(i) : pg2[q].next = p
          BY <3>6, <4>4
        <5> QED
          BY <4>2, <5>1
      <4> QED
        BY <4>3, <4>4
    <3>8. ASSUME NEW p \in U
          PROVE  /\ p # NoPage /\ t[p] \in 1..MaxPage
                 /\ p = into \/ (t[p] < t[into] /\ \E q \in U : pg2[q].next = p)
                 /\ pg2[p].next # NoPage => /\ pg2[p].next \in U
                                           /\ t[p] = t[pg2[p].next] + 1
      <4>1. CASE p = into
        BY <3>3, <3>4, <3>5, <4>1
      <4>2. CASE p \in S(i)
        BY <3>6, <3>7, <4>2
      <4> QED
        BY <4>1, <4>2
    <3>9. into \in U
      OBVIOUS
    <3> QED
      BY <3>8, <3>9 DEF Linked
  <2>10. Linked(ds2[i].heapHead, S2(i), t, pg2)
    BY <2>1, <2>9
  <2>11. \A j \in DOMAIN ds2 : Linked(ds2[j].heapHead, S2(j), t, pg2)
    BY <2>8, <2>10
  <2>12. Parts(ds2, pg2, o, t)
    BY <2>2, <2>7, <2>11 DEF Parts
  <2>13. OwnWith(own, into, i) = o
    BY <1>1 DEF OwnWith, o
  <2> QED
    BY <2>12, <2>13
<1> QED
  BY <1>2, <1>3

\* Where insert_row has stored a row, and how its page is linked.
LEMMA RowLinked ==
    ASSUME Inv, NEW t, Exists(t), NEW row \in Row, Storable(row), RoomFor(SlotOf(t), row)
    PROVE  LET i    == SlotOf(t)
               into == NewRowRid(i, row)[1]
               pg   == PagesWithRow(i, row)
               ds   == WithHead(i, into)
           IN  /\ i \in Used /\ into \in Pages
               /\ DOMAIN pg = DOMAIN page \cup {into}
               /\ \A p \in DOMAIN page : pg[p].next = page[p].next
               /\ into \in DOMAIN page => into = slots[i].heapHead
               /\ into \notin DOMAIN page => pg[into].next = slots[i].heapHead /\ 1..into-1 \subseteq DOMAIN page
               /\ DOMAIN ds = Used /\ ds[i].heapHead = into
               /\ \A j \in Used : j # i => ds[j].heapHead = slots[j].heapHead
<1> DEFINE i    == SlotOf(t)
           rec  == Encoded(row)
           rid  == NewRowRid(i, row)
           pg   == PagesWithRow(i, row)
           ds   == WithHead(i, rid[1])
           into == Into(HeadOf(i), rec)
           old  == Before(HeadOf(i), rec)
<1>1. i \in Used
  BY SlotIs
<1>2. PagesOK(page) /\ slots \in Seq(Desc) /\ \A j \in Used : HeadOf(j) \in Heads(page)
  BY DEF Inv, DescsOK
<1>3. rec \in Seq(Unit) /\ Len(rec) \in 1..MaxRecordSize
  BY CatalogAssumption DEF Storable
<1>4. Room(HeadOf(i), rec) \/ Pages \ DOMAIN page # {}
  BY DEF RoomFor
<1>5. rid = <<into, SlotFor(old)>> /\ pg = PagesWith(HeadOf(i), rec)
  BY Zenon DEF NewRowRid, NewRid, PagesWithRow
<1>6. HeadOf(i) \in Heads(page) /\ HeadOf(i) = slots[i].heapHead
  BY <1>1, <1>2, Zenon DEF HeadOf
<1> HIDE DEF rec, into, old, i, rid, pg
<1>7. /\ DOMAIN pg = DOMAIN page \cup {into} /\ into \in Pages
      /\ Sound(old) /\ Fits(old, rec)
      /\ pg[into] = Stored(old, rec)
      /\ \A p \in DOMAIN page : p # into => pg[p] = page[p]
      /\ IF Room(HeadOf(i), rec) THEN into = HeadOf(i) /\ HeadOf(i) \in DOMAIN page /\ old = page[HeadOf(i)]
         ELSE into = Fresh /\ into \notin DOMAIN page /\ old = EmptyPage(HeadOf(i))
  BY <1>2, <1>3, <1>4, <1>5, <1>6, InsertKeeps DEF into, old
<1>8. rid[1] = into
  BY <1>5
<1>9. pg[into].next = old.next
  BY <1>3, <1>7, StoredSound
<1>10. /\ into \in DOMAIN page => into = slots[i].heapHead /\ old = page[into]
       /\ into \notin DOMAIN page => into = Fresh /\ ~Room(HeadOf(i), rec) /\ old = EmptyPage(HeadOf(i))
  BY <1>6, <1>7
<1>11. \A p \in DOMAIN page : pg[p].next = page[p].next
  BY <1>7, <1>9, <1>10
<1>12. ASSUME into \notin DOMAIN page
       PROVE  pg[into].next = slots[i].heapHead /\ 1..into-1 \subseteq DOMAIN page
  <2>1. pg[into].next = slots[i].heapHead
    BY <1>6, <1>9, <1>10, <1>12 DEF EmptyPage
  <2>2. into \in Pages \ DOMAIN page /\ \A p \in Pages \ DOMAIN page : into <= p
    BY <1>4, <1>10, <1>12, FreshIs
  <2>3. 1..into-1 \subseteq DOMAIN page
    BY <2>2, HeapAssumption DEF Pages
  <2> QED
    BY <2>1, <2>3
<1>13. /\ DOMAIN ds = Used /\ ds[i].heapHead = into
       /\ \A j \in Used : j # i => ds[j] = slots[j]
  BY <1>1, <1>2, <1>7, <1>8, WithHeadKeeps
<1> HIDE DEF ds
<1>14. /\ i \in Used /\ rid[1] \in Pages
       /\ DOMAIN pg = DOMAIN page \cup {rid[1]}
       /\ \A p \in DOMAIN page : pg[p].next = page[p].next
       /\ rid[1] \in DOMAIN page => rid[1] = slots[i].heapHead
       /\ rid[1] \notin DOMAIN page => pg[rid[1]].next = slots[i].heapHead /\ 1..rid[1]-1 \subseteq DOMAIN page
       /\ DOMAIN ds = Used /\ ds[i].heapHead = rid[1]
       /\ \A j \in Used : j # i => ds[j].heapHead = slots[j].heapHead
  BY <1>1, <1>7, <1>8, <1>10, <1>11, <1>12, <1>13
<1> QED
  BY <1>14, Zenon DEF ds, pg, rid, i

\* So insert_row leaves each page to one table, whatever it then changes of the
\* descriptors' roots and counts, and of what the pages hold.
LEMMA RowOwned ==
    ASSUME Inv, NEW own, NEW height, Parts(slots, page, own, height),
           NEW t, Exists(t), NEW row \in Row, Storable(row),
           RoomFor(SlotOf(t), row), NEW ds2, NEW pg2,
           DOMAIN ds2 = DOMAIN WithHead(SlotOf(t), NewRowRid(SlotOf(t), row)[1]),
           \A j \in DOMAIN ds2 :
              ds2[j].heapHead = WithHead(SlotOf(t), NewRowRid(SlotOf(t), row)[1])[j].heapHead,
           DOMAIN pg2 = DOMAIN PagesWithRow(SlotOf(t), row),
           \A p \in DOMAIN pg2 : pg2[p].next = PagesWithRow(SlotOf(t), row)[p].next
    PROVE  \E higher : Parts(ds2, pg2, OwnWith(own, NewRowRid(SlotOf(t), row)[1], SlotOf(t)), higher)
<1> DEFINE i    == SlotOf(t)
           into == NewRowRid(i, row)[1]
           pg   == PagesWithRow(i, row)
           ds   == WithHead(i, into)
<1>1. /\ i \in Used /\ into \in Pages
      /\ DOMAIN pg = DOMAIN page \cup {into}
      /\ \A p \in DOMAIN page : pg[p].next = page[p].next
      /\ into \in DOMAIN page => into = slots[i].heapHead
      /\ into \notin DOMAIN page => pg[into].next = slots[i].heapHead /\ 1..into-1 \subseteq DOMAIN page
      /\ DOMAIN ds = Used /\ ds[i].heapHead = into
      /\ \A j \in Used : j # i => ds[j].heapHead = slots[j].heapHead
  BY RowLinked
<1>2. /\ DOMAIN ds2 = DOMAIN ds /\ \A j \in DOMAIN ds2 : ds2[j].heapHead = ds[j].heapHead
      /\ DOMAIN pg2 = DOMAIN pg /\ \A p \in DOMAIN pg2 : pg2[p].next = pg[p].next
  OBVIOUS
<1> HIDE DEF i, into, pg, ds
<1>3. DOMAIN page \subseteq Pages
  BY DEF Inv, PagesOK
<1>4. i \in DOMAIN slots /\ HeadMoved(slots, page, i, into, ds2, pg2)
  BY <1>1, <1>2 DEF Used, HeadMoved
<1>5. \E higher : Parts(ds2, pg2, OwnWith(own, into, i), higher)
  BY <1>1, <1>3, <1>4, PageAdded
<1> QED
  BY <1>5 DEF i, into

LEMMA InsertRowOwned ==
    ASSUME Inv, OwnInv, NEW t \in Name, NEW row \in Row, InsertRow(t, row)
    PROVE  OwnInv'
<1> DEFINE i    == SlotOf(t)
           into == NewRowRid(i, row)[1]
           ds   == WithHead(i, into)
<1>1. /\ scope = "tables" /\ scope' = scope /\ page' = PagesWithRow(i, row)
      /\ Exists(t) /\ Storable(row) /\ RoomFor(i, row)
  BY DEF InsertRow, Tables
<1>2. PICK moves : slots' = RowCounted(ds, i, RootsAfter(i, moves))
  BY DEF InsertRow
<1>3. ds \in Seq(Desc) /\ i \in DOMAIN ds
  BY <1>1, RowStored
<1>4. slots' = [ds EXCEPT ![i] = WithRow(@, RootsAfter(i, moves))]
  BY <1>2 DEF RowCounted
<1> HIDE DEF ds, i, into
<1>5. DOMAIN slots' = DOMAIN ds /\ \A j \in DOMAIN ds : slots'[j].heapHead = ds[j].heapHead
  <2>1. ds[i] \in Desc
    BY <1>3
  <2>2. WithRow(ds[i], RootsAfter(i, moves)).heapHead = ds[i].heapHead
    BY <2>1 DEF WithRow, Desc
  <2> QED
    BY <1>3, <1>4, <2>2
<1>6. PICK own, height : Parts(slots, page, own, height)
  BY <1>1 DEF OwnInv
<1>7. \E higher : Parts(slots', page', OwnWith(own, into, i), higher)
  BY <1>1, <1>5, <1>6, RowOwned DEF ds, i, into
<1> QED
  BY <1>1, <1>7 DEF OwnInv

LEMMA RefuseRowOwned ==
    ASSUME Inv, OwnInv, NEW t \in Name, NEW row \in Row, RefuseRow(t, row)
    PROVE  OwnInv'
<1> DEFINE i   == SlotOf(t)
           rid == NewRowRid(i, row)
           pg  == PagesWithRow(i, row)
<1>1. /\ scope = "tables" /\ scope' = scope
      /\ page' = [pg EXCEPT ![rid[1]] = Erased(@, rid[2])] /\ slots' = WithHead(i, rid[1])
      /\ Exists(t) /\ Storable(row) /\ RoomFor(i, row)
  BY DEF RefuseRow, Tables
<1>2. PagesOK(pg) /\ rid[1] \in DOMAIN pg /\ rid[2] \in LiveSlots(pg[rid[1]])
  BY <1>1, RowStored
<1> HIDE DEF i, rid, pg
<1>3. Erased(pg[rid[1]], rid[2]).next = pg[rid[1]].next
  BY <1>2, ErasedSound DEF PagesOK
<1>4. DOMAIN page' = DOMAIN pg /\ \A p \in DOMAIN page' : page'[p].next = pg[p].next
  BY <1>1, <1>2, <1>3
<1>5. PICK own, height : Parts(slots, page, own, height)
  BY <1>1 DEF OwnInv
<1>6. \E higher : Parts(slots', page', OwnWith(own, rid[1], i), higher)
  BY <1>1, <1>4, <1>5, RowOwned DEF i, rid, pg
<1> QED
  BY <1>1, <1>6 DEF OwnInv

LEMMA CreateTableOwned ==
    ASSUME Inv, OwnInv, NEW t \in Name, CreateTable(t)
    PROVE  OwnInv'
<1>1. scope = "tables" /\ scope' = scope /\ page' = page
  BY DEF CreateTable, Tables
<1> DEFINE new == [name |-> t, heapHead |-> NoPage, rows |-> 0, heapPages |-> 0,
                   roots |-> [c \in {0} \cup Column |-> IF c = 0 THEN <<t, 0, 0>> ELSE NoRoot]]
<1>2. slots' = Append(slots, new) /\ new.heapHead = NoPage
  BY DEF CreateTable
<1> HIDE DEF new
<1>3. slots \in Seq(Desc)
  BY DEF Inv, DescsOK
<1>4. PICK own, height : Parts(slots, page, own, height)
  BY <1>1 DEF OwnInv
<1> DEFINE n == Len(slots) + 1
<1>5. /\ DOMAIN slots' = DOMAIN slots \cup {n} /\ n \notin DOMAIN slots /\ slots'[n] = new
      /\ \A i \in DOMAIN slots : slots'[i] = slots[i]
  BY <1>2, <1>3
<1> HIDE DEF n
<1>6. ASSUME NEW i \in DOMAIN slots'
      PROVE  Linked(slots'[i].heapHead, {p \in DOMAIN page : own[p] = i}, height, page)
  <2>1. CASE i \in DOMAIN slots
    BY <1>4, <1>5, <2>1 DEF Parts
  <2>2. CASE i = n
    <3>1. {p \in DOMAIN page : own[p] = i} = {}
      BY <1>4, <1>5, <2>2 DEF Parts
    <3>2. slots'[i].heapHead = NoPage
      BY <1>2, <1>5, <2>2
    <3> QED
      BY <3>1, <3>2 DEF Linked
  <2> QED
    BY <1>5, <2>1, <2>2
<1>7. own \in [DOMAIN page -> DOMAIN slots']
  BY <1>4, <1>5 DEF Parts
<1>8. Parts(slots', page', own, height)
  BY <1>1, <1>4, <1>6, <1>7 DEF Parts
<1> QED
  BY <1>1, <1>8 DEF OwnInv

LEMMA CreateIndexOwned ==
    ASSUME Inv, OwnInv, NEW t \in Name, NEW c \in Column, CreateIndex(t, c)
    PROVE  OwnInv'
<1> DEFINE i == SlotOf(t)
<1>1. scope = "tables" /\ scope' = scope /\ page' = page /\ Exists(t)
  BY DEF CreateIndex, Tables
<1>2. \E root : slots' = [slots EXCEPT ![i].roots[c] = root]
  BY DEF CreateIndex
<1>3. i \in DOMAIN slots
  BY <1>1, SlotIs DEF Used
<1>4. slots[i] \in Desc
  BY <1>3 DEF Inv, DescsOK
<1> HIDE DEF i
<1>5. PICK root : slots' = [slots EXCEPT ![i].roots[c] = root]
  BY <1>2
<1> DEFINE rs == [slots[i].roots EXCEPT ![c] = root]
           d  == [slots[i] EXCEPT !.roots = rs]
<1>6. slots' = [slots EXCEPT ![i] = d]
  BY <1>5
<1>7. d.heapHead = slots[i].heapHead
  BY <1>4 DEF Desc
<1> HIDE DEF d
<1>8. DOMAIN slots' = DOMAIN slots /\ \A j \in DOMAIN slots : slots'[j].heapHead = slots[j].heapHead
  BY <1>3, <1>6, <1>7
<1>9. PICK own, height : Parts(slots, page, own, height)
  BY <1>1 DEF OwnInv
<1>10. Parts(slots', page', own, height)
  BY <1>1, <1>8, <1>9 DEF Parts
<1> QED
  BY <1>1, <1>10 DEF OwnInv

LEMMA NextOwned == Inv /\ OwnInv /\ [CatalogNext]_vars => OwnInv'
<1> SUFFICES ASSUME Inv, OwnInv, [CatalogNext]_vars PROVE OwnInv'
  OBVIOUS
<1>1. ASSUME UNCHANGED <<scope, page, slots>> PROVE OwnInv'
  BY <1>1 DEF OwnInv
<1>2. CASE PlainHeap
  <2>1. scope = "heap" /\ UNCHANGED <<scope, slots>>
    BY <1>2 DEF PlainHeap
  <2> QED
    BY <2>1 DEF OwnInv
<1>3. ASSUME NEW t \in Name, CreateTable(t) PROVE OwnInv'
  BY <1>3, CreateTableOwned
<1>4. ASSUME NEW t \in Name, RefuseTable(t) PROVE OwnInv'
  BY <1>1, <1>4 DEF RefuseTable, Tables
<1>5. ASSUME NEW t \in Name, NEW row \in Row, InsertRow(t, row) PROVE OwnInv'
  BY <1>5, InsertRowOwned
<1>6. ASSUME NEW t \in Name, NEW row \in Row, RefuseRow(t, row) PROVE OwnInv'
  BY <1>6, RefuseRowOwned
<1>7. ASSUME NEW t \in Name, NEW row \in Row, RefuseLong(t, row) PROVE OwnInv'
  BY <1>1, <1>7 DEF RefuseLong, Tables
<1>8. ASSUME NEW t \in Name, NEW c \in Column, CreateIndex(t, c) PROVE OwnInv'
  BY <1>8, CreateIndexOwned
<1>9. ASSUME NEW t \in Name, NEW c \in Column, RefuseIndex(t, c) PROVE OwnInv'
  BY <1>1, <1>9 DEF RefuseIndex, Tables
<1>10. CASE UNCHANGED vars
  BY <1>1, <1>10 DEF vars
<1> QED
  BY <1>2, <1>3, <1>4, <1>5, <1>6, <1>7, <1>8, <1>9, <1>10 DEF CatalogNext

LEMMA InitOwned == Init => OwnInv
<1> SUFFICES ASSUME Init PROVE OwnInv
  OBVIOUS
<1>1. page = <<>> /\ slots = <<>> /\ DOMAIN page = {} /\ DOMAIN slots = {}
  BY DEF Init
<1>2. <<>> \in [{} -> {}]
  <2>1. <<>> = [p \in {} |-> 0]
    OBVIOUS
  <2> QED
    BY <2>1
<1>3. Parts(slots, page, <<>>, <<>>)
  BY <1>1, <1>2 DEF Parts
<1> QED
  BY <1>1, <1>3 DEF OwnInv

LEMMA OwnInvOwns == Inv /\ OwnInv => PagesOwned
<1> SUFFICES ASSUME Inv, OwnInv PROVE PagesOwned
  OBVIOUS
<1>1. \A h : Chain(h) = ChainIn(h, page)
  BY DEF Chain, ChainIn
<1>2. scope \in {"heap", "tables"}
  BY DEF Inv
<1>3. CASE scope = "heap"
  <2>1. slots = <<>> /\ InOrder(head, page) /\ DOMAIN page = 1..head
    BY <1>3 DEF Inv, OwnInv
  <2>2. Chain(head) = DOMAIN page
    BY <1>1, <2>1, ChainIs
  <2> QED
    BY <2>1, <2>2 DEF PagesOwned
<1>4. CASE scope = "tables"
  <2>1. PICK own, height : Parts(slots, page, own, height)
    BY <1>4 DEF OwnInv
  <2>2. Chain(head) = {}
    <3>1. head = NoPage /\ InOrder(head, page)
      BY <1>4 DEF Inv
    <3>2. Chain(head) = 1..NoPage
      BY <1>1, <3>1, ChainIs
    <3> QED
      BY <3>2 DEF NoPage
  <2>3. ASSUME NEW i \in Used
        PROVE  Chain(HeadOf(i)) = {p \in DOMAIN page : own[p] = i}
    <3>1. Linked(HeadOf(i), {p \in DOMAIN page : own[p] = i}, height, page)
      BY <2>1, <2>3 DEF Parts, HeadOf, Used
    <3> QED
      BY <1>1, <3>1, ChainSolved
  <2>4. \A p \in DOMAIN page : own[p] \in Used
    BY <2>1 DEF Parts, Used
  <2>5. ASSUME NEW p \in DOMAIN page
        PROVE  \E i \in Used : p \in Chain(HeadOf(i)) /\ \A j \in Used : p \in Chain(HeadOf(j)) => j = i
    <3>1. own[p] \in Used /\ p \in Chain(HeadOf(own[p]))
      BY <2>3, <2>4
    <3>2. \A j \in Used : p \in Chain(HeadOf(j)) => j = own[p]
      BY <2>3
    <3> QED
      BY <3>1, <3>2
  <2> QED
    BY <2>2, <2>5 DEF PagesOwned
<1> QED
  BY <1>2, <1>3, <1>4

\* However tables grow and whatever is refused, each page is in the heap of one table,
\* reached from the head its descriptor records: no page is lost or written by two
\* (heap.cpp:12-22, catalog.cpp:154-163).
THEOREM CatalogPagesOwned == Spec => []PagesOwned
<1>1. Init => Inv /\ OwnInv
  BY InitInv, InitOwned
<1>2. Inv /\ OwnInv /\ [CatalogNext]_vars => Inv' /\ OwnInv'
  BY NextInv, NextOwned
<1>3. Inv /\ OwnInv => PagesOwned
  BY OwnInvOwns
<1> QED
  BY <1>1, <1>2, <1>3, PTL DEF Spec
-----------------------------------------------------------------------------
(* How many pages and rows a table has.                                    *)

PartOf(own, i) == {p \in DOMAIN own : own[p] = i}
LiveOf(pg, S)  == {r \in S \X (1..PageSize) : r[2] \in LiveSlots(pg[r[1]])}

\* CountsExact, of any descriptors and pages.
Counted(ds, pg, i) == /\ ds[i].rows = Cardinality(LiveIn(ds[i].heapHead, pg))
                      /\ ds[i].heapPages = Cardinality(ChainIn(ds[i].heapHead, pg))
Counts(ds, pg) == \A i \in DOMAIN ds : Counted(ds, pg, i)

LEMMA CountsAre == /\ CountsExact <=> Counts(slots, page)
                   /\ CountsExact' <=> Counts(slots', page')
<1>1. \A h : Chain(h) = ChainIn(h, page) /\ Live(h) = LiveIn(h, page)
  BY DEF Live, Rids, Chain, LiveIn, ChainIn
<1>2. \A i : Chain(HeadOf(i))' = ChainIn(slots'[i].heapHead, page') /\ Live(HeadOf(i))' = LiveIn(slots'[i].heapHead, page')
  BY DEF Live, Rids, Chain, LiveIn, ChainIn, HeadOf
<1> QED
  BY <1>1, <1>2 DEF CountsExact, Counts, Counted, HeadOf, Used

LEMMA PartIs ==
    ASSUME NEW ds, NEW pg, NEW own, NEW height, Parts(ds, pg, own, height), PagesOK(pg), NEW i \in DOMAIN ds
    PROVE  /\ ChainIn(ds[i].heapHead, pg) = PartOf(own, i) /\ IsFiniteSet(PartOf(own, i))
           /\ LiveIn(ds[i].heapHead, pg) = LiveOf(pg, PartOf(own, i))
           /\ IsFiniteSet(LiveOf(pg, PartOf(own, i)))
<1> DEFINE S == PartOf(own, i)
           C == ChainIn(ds[i].heapHead, pg)
<1>1. DOMAIN own = DOMAIN pg /\ S = {p \in DOMAIN pg : own[p] = i}
  BY DEF Parts, PartOf
<1>2. C = S
  <2>1. Linked(ds[i].heapHead, S, height, pg)
    BY <1>1 DEF Parts
  <2> QED
    BY <2>1, ChainSolved
<1>3. S \subseteq DOMAIN pg /\ S \subseteq 1..MaxPage /\ \A p \in S : Sound(pg[p])
  BY <1>1 DEF PagesOK, Pages
<1> HIDE DEF S, C
<1>4. IsFiniteSet(S)
  <2>1. IsFiniteSet(1..MaxPage)
    BY FS_Interval, HeapAssumption
  <2> QED
    BY <1>3, <2>1, FS_Subset
<1>5. ASSUME NEW p \in S, NEW s
      PROVE  /\ s \in LiveSlots(pg[p]) <=> s \in 1..Len(pg[p].slots) /\ IsLive(pg[p], s)
             /\ s \in LiveSlots(pg[p]) => s \in 1..PageSize
  <2>1. Sound(pg[p])
    BY <1>3
  <2>2. Len(pg[p].slots) \in Nat /\ DOMAIN pg[p].slots = 1..Len(pg[p].slots)
    BY <2>1, PageFields DEF Sound
  <2>3. LiveSlots(pg[p]) \subseteq 1..Len(pg[p].slots) /\ Len(pg[p].slots) \in 0..PageSize
    BY <2>1, SlotsOfPage
  <2> QED
    BY <2>2, <2>3, Sizes DEF LiveSlots
<1>6. LiveIn(ds[i].heapHead, pg) = {r \in UNION {{<<p, s>> : s \in 1..Len(pg[p].slots)} : p \in S} : IsLive(pg[r[1]], r[2])}
  BY <1>2 DEF LiveIn, C
<1>7. ASSUME NEW r \in LiveIn(ds[i].heapHead, pg) PROVE r \in LiveOf(pg, S)
  <2>1. PICK p \in S : \E s \in 1..Len(pg[p].slots) : r = <<p, s>>
    BY <1>6
  <2>2. PICK s \in 1..Len(pg[p].slots) : r = <<p, s>>
    BY <2>1
  <2>3. IsLive(pg[p], s)
    BY <1>6, <2>2
  <2> QED
    BY <1>5, <2>2, <2>3 DEF LiveOf
<1>8. ASSUME NEW r \in LiveOf(pg, S) PROVE r \in LiveIn(ds[i].heapHead, pg)
  <2>1. PICK p \in S, s \in 1..PageSize : r = <<p, s>> /\ s \in LiveSlots(pg[p])
    BY DEF LiveOf
  <2> QED
    BY <1>5, <1>6, <2>1
<1>9. IsFiniteSet(LiveOf(pg, S))
  <2>1. IsFiniteSet(1..PageSize)
    BY FS_Interval, Sizes
  <2>2. IsFiniteSet(S \X (1..PageSize))
    BY <1>4, <2>1, FS_Product
  <2>3. LiveOf(pg, S) \subseteq S \X (1..PageSize)
    BY DEF LiveOf
  <2> QED
    BY <2>2, <2>3, FS_Subset
<1> QED
  BY <1>2, <1>4, <1>7, <1>8, <1>9 DEF S, C

\* What decode finds in a record.
LEMMA EncodedIs == ASSUME NEW row, Encoded(row) \in Seq(Unit), Len(Encoded(row)) >= 1 PROVE Encoded(row)[1] = row
<1> DEFINE N == FoldFunction(LAMBDA v, n : Size[v] + n, 1, row.col)
           rec == Encoded(row)
<1>1. rec = [u \in 1..N |-> row]
  BY DEF Encoded
<1> HIDE DEF N
<1>2. 1 \in DOMAIN rec
  BY DEF rec
<1> HIDE DEF rec
<1>3. rec[1] = row
  BY <1>1, <1>2
<1> QED
  BY <1>3 DEF rec

\* Record rid of pg is row, and every other record is what it was.
Reads(pg, rid, row) ==
    /\ rid = <<rid[1], rid[2]>>
    /\ ReadSlot(pg[rid[1]], rid[2])[1] = row
    /\ \A p \in DOMAIN page : p # rid[1] => pg[p] = page[p]
    /\ rid[1] \in DOMAIN page =>
          \A s \in LiveSlots(page[rid[1]]) : ReadSlot(pg[rid[1]], s) = ReadSlot(page[rid[1]], s)

\* What insert_row has stored, and what its report has counted.
LEMMA RowAdded ==
    ASSUME Inv, NEW t, Exists(t), NEW row \in Row, Storable(row), RoomFor(SlotOf(t), row)
    PROVE  LET i    == SlotOf(t)
               rid  == NewRowRid(i, row)
               into == rid[1]
               pg   == PagesWithRow(i, row)
               ds   == WithHead(i, into)
           IN  /\ rid = <<into, rid[2]>>
               /\ \A p \in DOMAIN page : p # into => pg[p] = page[p]
               /\ LiveSlots(pg[into]) = (IF into \in DOMAIN page THEN LiveSlots(page[into]) ELSE {}) \cup {rid[2]}
               /\ into \in DOMAIN page => rid[2] \notin LiveSlots(page[into])
               /\ \A j \in Used : ds[j].rows = slots[j].rows
               /\ \A j \in Used : j # i => ds[j].heapPages = slots[j].heapPages
               /\ ds[i].heapPages = IF into \in DOMAIN page THEN slots[i].heapPages ELSE slots[i].heapPages + 1
               /\ Reads(pg, rid, row)
<1> DEFINE i    == SlotOf(t)
           rec  == Encoded(row)
           rid  == NewRowRid(i, row)
           pg   == PagesWithRow(i, row)
           ds   == WithHead(i, rid[1])
           into == Into(HeadOf(i), rec)
           old  == Before(HeadOf(i), rec)
<1>1. i \in Used
  BY SlotIs
<1>2. PagesOK(page) /\ slots \in Seq(Desc) /\ \A j \in Used : HeadOf(j) \in Heads(page)
  BY DEF Inv, DescsOK
<1>3. rec \in Seq(Unit) /\ Len(rec) \in 1..MaxRecordSize
  BY CatalogAssumption DEF Storable
<1>4. Room(HeadOf(i), rec) \/ Pages \ DOMAIN page # {}
  BY DEF RoomFor
<1>5. rid = <<into, SlotFor(old)>> /\ pg = PagesWith(HeadOf(i), rec)
  BY Zenon DEF NewRowRid, NewRid, PagesWithRow
<1>6. HeadOf(i) \in Heads(page)
  BY <1>1, <1>2
<1>0. rec[1] = row
  BY <1>3, EncodedIs
<1> HIDE DEF rec, into, old, i, rid, pg
<1>7. /\ into \in Pages
      /\ Sound(old) /\ Fits(old, rec)
      /\ pg[into] = Stored(old, rec)
      /\ \A p \in DOMAIN page : p # into => pg[p] = page[p]
      /\ IF Room(HeadOf(i), rec) THEN into = HeadOf(i) /\ HeadOf(i) \in DOMAIN page /\ old = page[HeadOf(i)]
         ELSE into = Fresh /\ into \notin DOMAIN page /\ old = EmptyPage(HeadOf(i))
  BY <1>2, <1>3, <1>4, <1>5, <1>6, InsertKeeps DEF into, old
<1>8. rid[1] = into /\ rid[2] = SlotFor(old)
  BY <1>5
<1>9. /\ LiveSlots(pg[into]) = LiveSlots(old) \cup {SlotFor(old)} /\ SlotFor(old) \notin LiveSlots(old)
      /\ ReadSlot(pg[into], SlotFor(old)) = rec
      /\ \A s \in LiveSlots(old) : ReadSlot(pg[into], s) = ReadSlot(old, s)
  BY <1>3, <1>7, StoredSound
<1>10. /\ into \in DOMAIN page => old = page[into] /\ into = HeadOf(i)
       /\ into \notin DOMAIN page => LiveSlots(old) = {} /\ into # HeadOf(i)
  <2>1. CASE Room(HeadOf(i), rec)
    BY <1>7, <2>1
  <2>2. CASE ~Room(HeadOf(i), rec)
    <3>1. HeadOf(i) \in Nat
      BY <1>2, <1>6, HeapAssumption DEF Heads, Pages, NoPage, PagesOK
    <3>2. into # HeadOf(i)
      BY <1>6, <1>7, <2>2, HeapAssumption DEF Heads, Pages, NoPage
    <3> QED
      BY <1>7, <2>2, <3>1, <3>2, EmptyPageSound
  <2> QED
    BY <2>1, <2>2
<1>11. /\ \A j \in Used : ds[j].rows = slots[j].rows
       /\ \A j \in Used : j # i => ds[j] = slots[j]
       /\ ds[i].heapPages = IF into = HeadOf(i) THEN slots[i].heapPages ELSE slots[i].heapPages + 1
  BY <1>1, <1>2, <1>7, <1>8, WithHeadKeeps
<1> HIDE DEF ds
<1>12. /\ rid = <<rid[1], rid[2]>>
       /\ \A p \in DOMAIN page : p # rid[1] => pg[p] = page[p]
       /\ LiveSlots(pg[rid[1]]) = (IF rid[1] \in DOMAIN page THEN LiveSlots(page[rid[1]]) ELSE {}) \cup {rid[2]}
       /\ rid[1] \in DOMAIN page => rid[2] \notin LiveSlots(page[rid[1]])
       /\ \A j \in Used : ds[j].rows = slots[j].rows
       /\ \A j \in Used : j # i => ds[j].heapPages = slots[j].heapPages
       /\ ds[i].heapPages = IF rid[1] \in DOMAIN page THEN slots[i].heapPages ELSE slots[i].heapPages + 1
  BY <1>5, <1>7, <1>8, <1>9, <1>10, <1>11
<1>13. Reads(pg, rid, row)
  BY <1>0, <1>8, <1>9, <1>10, <1>12 DEF Reads
<1> QED
  BY <1>12, <1>13, Zenon DEF ds, pg, rid, i

LEMMA RowCounts ==
    ASSUME Inv, NEW own, NEW height, Parts(slots, page, own, height), Counts(slots, page),
           NEW t, Exists(t), NEW row \in Row, Storable(row), RoomFor(SlotOf(t), row)
    PROVE  LET i   == SlotOf(t)
               rid == NewRowRid(i, row)
               pg  == PagesWithRow(i, row)
               ds  == WithHead(i, rid[1])
               S(j) == PartOf(OwnWith(own, rid[1], i), j)
           IN  /\ \A j \in Used : ds[j].heapPages = Cardinality(S(j))
               /\ \A j \in Used : j # i => ds[j].rows = Cardinality(LiveOf(pg, S(j)))
               /\ Cardinality(LiveOf(pg, S(i))) = ds[i].rows + 1
               /\ LiveOf(pg, S(i)) = LiveOf(page, PartOf(own, i)) \cup {rid}
               /\ rid \notin LiveOf(page, PartOf(own, i))
               /\ \A j \in Used : j # i => /\ S(j) = PartOf(own, j) /\ rid[1] \notin S(j)
                                           /\ LiveOf(pg, S(j)) = LiveOf(page, S(j))
<1> DEFINE i    == SlotOf(t)
           rid  == NewRowRid(i, row)
           into == rid[1]
           pg   == PagesWithRow(i, row)
           ds   == WithHead(i, rid[1])
           Old(j) == PartOf(own, j)
           New(j) == PartOf(OwnWith(own, into, i), j)
<1>1. /\ rid = <<into, rid[2]>>
      /\ \A p \in DOMAIN page : p # into => pg[p] = page[p]
      /\ LiveSlots(pg[into]) = (IF into \in DOMAIN page THEN LiveSlots(page[into]) ELSE {}) \cup {rid[2]}
      /\ into \in DOMAIN page => rid[2] \notin LiveSlots(page[into])
      /\ \A j \in Used : ds[j].rows = slots[j].rows
      /\ \A j \in Used : j # i => ds[j].heapPages = slots[j].heapPages
      /\ ds[i].heapPages = IF into \in DOMAIN page THEN slots[i].heapPages ELSE slots[i].heapPages + 1
      /\ Reads(pg, rid, row)
  BY RowAdded, Zenon
<1>2. /\ i \in Used /\ into \in Pages
      /\ into \in DOMAIN page => into = slots[i].heapHead
  BY RowLinked
<1>3. PagesOK(page) /\ slots \in Seq(Desc)
  BY DEF Inv, DescsOK
<1>4. PagesOK(pg) /\ rid[2] \in LiveSlots(pg[into]) /\ into \in DOMAIN pg
  BY RowStored
<1> HIDE DEF i, rid, pg, ds
<1>5. ASSUME NEW j \in Used
      PROVE  /\ ChainIn(slots[j].heapHead, page) = Old(j) /\ IsFiniteSet(Old(j))
             /\ LiveIn(slots[j].heapHead, page) = LiveOf(page, Old(j))
             /\ IsFiniteSet(LiveOf(page, Old(j)))
             /\ slots[j].rows = Cardinality(LiveOf(page, Old(j))) /\ slots[j].rows \in Nat
             /\ slots[j].heapPages = Cardinality(Old(j)) /\ slots[j].heapPages \in Nat
  <2>1. j \in DOMAIN slots
    BY DEF Used
  <2>2. /\ ChainIn(slots[j].heapHead, page) = Old(j) /\ IsFiniteSet(Old(j))
        /\ LiveIn(slots[j].heapHead, page) = LiveOf(page, Old(j))
        /\ IsFiniteSet(LiveOf(page, Old(j)))
    BY <1>3, <2>1, PartIs
  <2>3. slots[j] \in Desc
    BY <1>3, <2>1
  <2> QED
    BY <2>1, <2>2, <2>3, DescFields DEF Counts, Counted
<1>6. DOMAIN own = DOMAIN page
  BY DEF Parts
<1>7. into \in DOMAIN page => own[into] = i
  <2> SUFFICES ASSUME into \in DOMAIN page PROVE own[into] = i
    OBVIOUS
  <2>1. Linked(into, {p \in DOMAIN page : own[p] = i}, height, page)
    BY <1>2 DEF Parts, Used
  <2>2. into # NoPage
    BY <1>2, HeapAssumption DEF Pages, NoPage
  <2> QED
    BY <2>1, <2>2 DEF Linked
<1>8. /\ \A j \in Used : j # i => New(j) = Old(j) /\ into \notin Old(j)
      /\ New(i) = Old(i) \cup {into}
      /\ into \in Old(i) <=> into \in DOMAIN page
  BY <1>6, <1>7 DEF PartOf, OwnWith
<1>9. \A j \in Used : Old(j) \subseteq DOMAIN page
  BY <1>6 DEF PartOf
<1> HIDE DEF into, Old, New
<1>10. ASSUME NEW j \in Used, j # i
       PROVE  /\ ds[j].heapPages = Cardinality(New(j)) /\ ds[j].rows = Cardinality(LiveOf(pg, New(j)))
              /\ LiveOf(pg, New(j)) = LiveOf(page, New(j))
  <2>1. \A p \in Old(j) : pg[p] = page[p]
    BY <1>1, <1>8, <1>9, <1>10
  <2>2. LiveOf(pg, Old(j)) = LiveOf(page, Old(j))
    BY <2>1 DEF LiveOf
  <2> QED
    BY <1>1, <1>5, <1>8, <1>10, <2>2
<1>11. ds[i].heapPages = Cardinality(New(i))
  <2>1. Cardinality(Old(i) \cup {into}) = IF into \in Old(i) THEN Cardinality(Old(i)) ELSE Cardinality(Old(i)) + 1
    BY <1>2, <1>5, FS_AddElement
  <2> QED
    BY <1>1, <1>2, <1>5, <1>8, <2>1
<1>12. rid[2] \in 1..PageSize
  <2>1. Sound(pg[into])
    BY <1>4 DEF PagesOK
  <2> QED
    BY <1>4, <2>1, SlotsOfPage, Sizes
<1> DEFINE A == LiveOf(page, Old(i))
           B == LiveOf(pg, New(i))
<1>13. rid \in B /\ rid \notin A
  BY <1>1, <1>4, <1>8, <1>9, <1>2, <1>12 DEF LiveOf
<1>14. ASSUME NEW q \in B, q # rid PROVE q \in A
  <2>1. q = <<q[1], q[2]>> /\ q[1] \in New(i) /\ q[2] \in 1..PageSize /\ q[2] \in LiveSlots(pg[q[1]])
    BY DEF LiveOf
  <2>2. CASE q[1] = into
    <3>1. q[2] # rid[2]
      BY <1>1, <1>14, <2>1, <2>2
    <3>2. into \in DOMAIN page /\ q[2] \in LiveSlots(page[into])
      BY <1>1, <2>1, <2>2, <3>1
    <3> QED
      BY <1>8, <2>1, <2>2, <3>2 DEF LiveOf
  <2>3. CASE q[1] # into
    BY <1>1, <1>2, <1>8, <1>9, <2>1, <2>3 DEF LiveOf
  <2> QED
    BY <2>2, <2>3
<1>15. ASSUME NEW q \in A PROVE q \in B
  <2>1. q = <<q[1], q[2]>> /\ q[1] \in Old(i) /\ q[2] \in 1..PageSize /\ q[2] \in LiveSlots(page[q[1]])
    BY DEF LiveOf
  <2>2. q[2] \in LiveSlots(pg[q[1]])
    BY <1>1, <1>2, <1>8, <1>9, <2>1
  <2> QED
    BY <1>8, <2>1, <2>2 DEF LiveOf
<1>16. B = A \cup {rid}
  BY <1>13, <1>14, <1>15
<1> HIDE DEF A, B
<1>17. Cardinality(B) = Cardinality(A) + 1
  <2>1. IsFiniteSet(A)
    BY <1>2, <1>5 DEF A
  <2> QED
    BY <1>13, <1>16, <2>1, FS_AddElement
<1>18. /\ \A j \in Used : ds[j].heapPages = Cardinality(New(j))
       /\ \A j \in Used : j # i => ds[j].rows = Cardinality(LiveOf(pg, New(j)))
       /\ Cardinality(LiveOf(pg, New(i))) = ds[i].rows + 1
  BY <1>1, <1>2, <1>5, <1>10, <1>11, <1>17 DEF A, B
<1>19. /\ LiveOf(pg, New(i)) = LiveOf(page, Old(i)) \cup {rid} /\ rid \notin LiveOf(page, Old(i))
       /\ \A j \in Used : j # i => /\ New(j) = Old(j) /\ into \notin New(j)
                                   /\ LiveOf(pg, New(j)) = LiveOf(page, New(j))
  BY <1>8, <1>10, <1>13, <1>16 DEF A, B
<1> QED
  BY <1>18, <1>19, Zenon DEF i, rid, into, pg, ds, New, Old

LEMMA InsertRowCounts ==
    ASSUME Inv, OwnInv, Inv', Counts(slots, page), NEW t \in Name, NEW row \in Row, InsertRow(t, row)
    PROVE  Counts(slots', page')
<1> DEFINE i   == SlotOf(t)
           rid == NewRowRid(i, row)
           ds  == WithHead(i, rid[1])
           pg  == PagesWithRow(i, row)
<1>1. scope = "tables" /\ page' = pg /\ Exists(t) /\ Storable(row) /\ RoomFor(i, row)
  BY DEF InsertRow, Tables
<1>2. PICK moves \in SUBSET DOMAIN EntriesOf(i, row) :
        /\ \A c \in moves : slots[i].roots[c][3] < MaxMoves
        /\ slots' = RowCounted(ds, i, RootsAfter(i, moves))
  <2>1. \E moves \in SUBSET DOMAIN EntriesOf(i, row) :
           /\ \A c \in moves : slots[i].roots[c][3] < MaxMoves /\ tree[slots[i].roots[c]] # <<>>
           /\ tree' = TreesWith(i, EntriesOf(i, row), moves)
           /\ slots' = RowCounted(ds, i, RootsAfter(i, moves))
    BY Zenon DEF InsertRow
  <2> HIDE DEF ds, i
  <2> QED
    BY <2>1
<1>3. /\ i \in Used /\ slots[i] \in Desc /\ ds \in Seq(Desc) /\ DOMAIN ds = Used
      /\ \A j \in Used : ds[j].roots = slots[j].roots
  BY <1>1, RowStored
<1>4. PICK own, height : Parts(slots, page, own, height)
  BY <1>1 DEF OwnInv
<1> DEFINE S(j) == PartOf(OwnWith(own, rid[1], i), j)
<1>5. /\ \A j \in Used : ds[j].heapPages = Cardinality(S(j))
      /\ \A j \in Used : j # i => ds[j].rows = Cardinality(LiveOf(pg, S(j)))
      /\ Cardinality(LiveOf(pg, S(i))) = ds[i].rows + 1
  BY <1>1, <1>4, RowCounts
<1>6. slots[i].roots[0] # NoRoot
  BY <1>3 DEF Inv, DescsOK
<1> HIDE DEF i, rid, ds, pg
<1>7. RootsAfter(i, moves) \in [{0} \cup Column -> Root \cup {NoRoot}]
  BY <1>2, <1>3, <1>6, RootsAfterOK
<1> DEFINE d == WithRow(ds[i], RootsAfter(i, moves))
<1>8. d \in Desc /\ d.heapHead = ds[i].heapHead /\ d.heapPages = ds[i].heapPages /\ d.rows = ds[i].rows + 1
  <2>1. ds[i] \in Desc
    BY <1>3
  <2> QED
    BY <1>7, <2>1, NewRoots
<1>9. slots' = [ds EXCEPT ![i] = d]
  BY <1>2 DEF RowCounted
<1> HIDE DEF d
<1>10. DOMAIN slots' = Used /\ slots'[i] = d /\ \A j \in Used : j # i => slots'[j] = ds[j]
  BY <1>3, <1>8, <1>9, OneSlot
<1>11. \E higher : Parts(slots', page', OwnWith(own, rid[1], i), higher)
  <2>1. \A j \in Used : slots'[j].heapHead = ds[j].heapHead
    BY <1>8, <1>10
  <2> QED
    BY <1>1, <1>3, <1>4, <1>10, <2>1, RowOwned DEF i, rid, ds, pg
<1>12. PagesOK(page')
  BY DEF Inv
<1>13. ASSUME NEW j \in DOMAIN slots' PROVE Counted(slots', page', j)
  <2>1. /\ ChainIn(slots'[j].heapHead, page') = S(j)
        /\ LiveIn(slots'[j].heapHead, page') = LiveOf(page', S(j))
    BY <1>11, <1>12, PartIs
  <2>2. slots'[j].heapPages = Cardinality(S(j)) /\ slots'[j].rows = Cardinality(LiveOf(page', S(j)))
    BY <1>1, <1>5, <1>8, <1>10
  <2> QED
    BY <2>1, <2>2 DEF Counted
<1> QED
  BY <1>13 DEF Counts

LEMMA RefuseRowCounts ==
    ASSUME Inv, OwnInv, Inv', Counts(slots, page), NEW t \in Name, NEW row \in Row, RefuseRow(t, row)
    PROVE  Counts(slots', page')
<1> DEFINE i   == SlotOf(t)
           rid == NewRowRid(i, row)
           ds  == WithHead(i, rid[1])
           pg  == PagesWithRow(i, row)
<1>1. /\ scope = "tables" /\ Exists(t) /\ Storable(row) /\ RoomFor(i, row)
      /\ page' = [pg EXCEPT ![rid[1]] = Erased(@, rid[2])] /\ slots' = ds
  BY DEF RefuseRow, Tables
<1>2. PICK own, height : Parts(slots, page, own, height)
  BY <1>1 DEF OwnInv
<1> DEFINE own2 == OwnWith(own, rid[1], i)
           S(j) == PartOf(own2, j)
<1>3. /\ \A j \in Used : ds[j].heapPages = Cardinality(S(j))
      /\ \A j \in Used : j # i => ds[j].rows = Cardinality(LiveOf(pg, S(j)))
      /\ Cardinality(LiveOf(pg, S(i))) = ds[i].rows + 1
      /\ rid \in LiveOf(pg, S(i))
  BY <1>1, <1>2, RowCounts
<1>4. /\ i \in Used /\ PagesOK(pg) /\ rid[1] \in DOMAIN pg /\ rid[2] \in LiveSlots(pg[rid[1]])
      /\ ds \in Seq(Desc) /\ DOMAIN ds = Used
  BY <1>1, RowStored
<1>5. rid = <<rid[1], rid[2]>>
  BY <1>1, RowAdded, Zenon
<1> HIDE DEF i, rid, ds, pg
<1>6. /\ Erased(pg[rid[1]], rid[2]).next = pg[rid[1]].next
      /\ LiveSlots(Erased(pg[rid[1]], rid[2])) = LiveSlots(pg[rid[1]]) \ {rid[2]}
  BY <1>4, ErasedSound DEF PagesOK
<1>7. /\ DOMAIN page' = DOMAIN pg /\ \A p \in DOMAIN pg : page'[p].next = pg[p].next
      /\ LiveSlots(page'[rid[1]]) = LiveSlots(pg[rid[1]]) \ {rid[2]}
      /\ \A p \in DOMAIN pg : p # rid[1] => page'[p] = pg[p]
  BY <1>1, <1>4, <1>6
<1>8. PICK higher : Parts(slots', page', own2, higher)
  BY <1>1, <1>2, <1>7, RowOwned DEF i, rid, ds, pg
<1>9. DOMAIN own2 = DOMAIN pg
  BY <1>7, <1>8 DEF Parts
<1>10. PagesOK(page')
  BY DEF Inv
<1>11. rid[1] \in S(i) /\ \A j \in Used : S(j) \subseteq DOMAIN pg /\ (j # i => rid[1] \notin S(j))
  BY <1>3, <1>9 DEF PartOf, LiveOf
<1> HIDE DEF S, own2
<1>12. \A j \in Used : j # i => LiveOf(page', S(j)) = LiveOf(pg, S(j))
  <2>1. ASSUME NEW j \in Used, j # i PROVE LiveOf(page', S(j)) = LiveOf(pg, S(j))
    <3>1. \A p \in S(j) : page'[p] = pg[p]
      BY <1>7, <1>11, <2>1
    <3> QED
      BY <3>1 DEF LiveOf
  <2> QED
    BY <2>1
<1>13. LiveOf(page', S(i)) = LiveOf(pg, S(i)) \ {rid}
  <2>1. ASSUME NEW q \in S(i) \X (1..PageSize)
        PROVE  q[2] \in LiveSlots(page'[q[1]]) <=> q[2] \in LiveSlots(pg[q[1]]) /\ q # rid
    <3>1. q = <<q[1], q[2]>> /\ q[1] \in DOMAIN pg
      BY <1>4, <1>11
    <3>2. CASE q[1] = rid[1]
      BY <1>5, <1>7, <3>1, <3>2
    <3>3. CASE q[1] # rid[1]
      BY <1>7, <3>1, <3>3
    <3> QED
      BY <3>2, <3>3
  <2> QED
    BY <2>1 DEF LiveOf
<1>14. ASSUME NEW j \in DOMAIN slots'
       PROVE  /\ ChainIn(slots'[j].heapHead, page') = S(j)
              /\ LiveIn(slots'[j].heapHead, page') = LiveOf(page', S(j))
              /\ IsFiniteSet(LiveOf(page', S(j)))
  BY <1>8, <1>10, PartIs DEF S
<1>15. ds[i].rows \in Nat
  BY <1>4, DescFields
<1> DEFINE L == LiveOf(page', S(i))
<1>16. LiveOf(pg, S(i)) = L \cup {rid} /\ rid \notin L
  BY <1>3, <1>13
<1> HIDE DEF L
<1>17. Cardinality(L) = ds[i].rows
  <2>1. IsFiniteSet(L)
    BY <1>1, <1>4, <1>14 DEF L
  <2>2. Cardinality(L) + 1 = ds[i].rows + 1 /\ Cardinality(L) \in Nat
    BY <1>3, <1>16, <2>1, FS_AddElement, FS_CardinalityType
  <2> QED
    BY <1>15, <2>2
<1>18. ASSUME NEW j \in DOMAIN slots' PROVE Counted(slots', page', j)
  <2>1. slots'[j].heapPages = Cardinality(S(j))
    BY <1>1, <1>3, <1>4, <1>18
  <2>2. slots'[j].rows = Cardinality(LiveOf(page', S(j)))
    BY <1>1, <1>3, <1>4, <1>12, <1>17 DEF L
  <2> QED
    BY <1>14, <2>1, <2>2 DEF Counted
<1> QED
  BY <1>18 DEF Counts

LEMMA NextCounts ==
    ASSUME Inv, OwnInv, Inv', Counts(slots, page), [CatalogNext]_vars
    PROVE  Counts(slots', page')
<1>1. ASSUME UNCHANGED <<page, slots>> PROVE Counts(slots', page')
  BY <1>1
<1>2. CASE PlainHeap
  <2>1. slots = <<>> /\ slots' = slots
    BY <1>2 DEF PlainHeap, OwnInv
  <2> QED
    BY <2>1 DEF Counts
<1>3. ASSUME NEW t \in Name, CreateTable(t) PROVE Counts(slots', page')
  <2> DEFINE new == [name |-> t, heapHead |-> NoPage, rows |-> 0, heapPages |-> 0,
                     roots |-> [c \in {0} \cup Column |-> IF c = 0 THEN <<t, 0, 0>> ELSE NoRoot]]
             n   == Len(slots) + 1
  <2>1. slots' = Append(slots, new) /\ page' = page
    BY <1>3 DEF CreateTable
  <2>2. new.heapHead = NoPage /\ new.rows = 0 /\ new.heapPages = 0
    OBVIOUS
  <2> HIDE DEF new
  <2>3. slots \in Seq(Desc)
    BY DEF Inv, DescsOK
  <2>4. /\ DOMAIN slots' = DOMAIN slots \cup {n} /\ n \notin DOMAIN slots /\ slots'[n] = new
        /\ \A j \in DOMAIN slots : slots'[j] = slots[j]
    BY <2>1, <2>3
  <2> HIDE DEF n
  <2>5. ChainIn(NoPage, page) = {} /\ LiveIn(NoPage, page) = {}
    <3>1. ChainIn(NoPage, page) = {}
      BY NoPagesInOrder, ChainIs DEF NoPage
    <3> QED
      BY <3>1 DEF LiveIn
  <2>6. Cardinality({}) = 0
    BY FS_EmptySet
  <2> QED
    BY <2>1, <2>2, <2>4, <2>5, <2>6 DEF Counts, Counted
<1>4. ASSUME NEW t \in Name, NEW c \in Column, CreateIndex(t, c) PROVE Counts(slots', page')
  <2> DEFINE i == SlotOf(t)
  <2>1. page' = page /\ Exists(t)
    BY <1>4 DEF CreateIndex
  <2>2. \E root : slots' = [slots EXCEPT ![i].roots[c] = root]
    BY <1>4 DEF CreateIndex
  <2>3. i \in DOMAIN slots
    BY <2>1, SlotIs DEF Used
  <2>4. slots[i] \in Desc
    BY <2>3 DEF Inv, DescsOK
  <2> HIDE DEF i
  <2>5. PICK root : slots' = [slots EXCEPT ![i].roots[c] = root]
    BY <2>2
  <2> DEFINE rs == [slots[i].roots EXCEPT ![c] = root]
             d  == [slots[i] EXCEPT !.roots = rs]
  <2>6. slots' = [slots EXCEPT ![i] = d]
    BY <2>5
  <2>7. d.heapHead = slots[i].heapHead /\ d.rows = slots[i].rows /\ d.heapPages = slots[i].heapPages
    BY <2>4 DEF Desc
  <2> HIDE DEF d
  <2>8. /\ DOMAIN slots' = DOMAIN slots
        /\ \A j \in DOMAIN slots : /\ slots'[j].heapHead = slots[j].heapHead
                                   /\ slots'[j].rows = slots[j].rows /\ slots'[j].heapPages = slots[j].heapPages
    BY <2>3, <2>6, <2>7
  <2> QED
    BY <2>1, <2>8 DEF Counts, Counted
<1>5. ASSUME NEW t \in Name, NEW row \in Row, InsertRow(t, row) PROVE Counts(slots', page')
  BY <1>5, InsertRowCounts
<1>6. ASSUME NEW t \in Name, NEW row \in Row, RefuseRow(t, row) PROVE Counts(slots', page')
  BY <1>6, RefuseRowCounts
<1>7. ASSUME NEW t \in Name, RefuseTable(t) PROVE Counts(slots', page')
  BY <1>1, <1>7 DEF RefuseTable
<1>8. ASSUME NEW t \in Name, NEW row \in Row, RefuseLong(t, row) PROVE Counts(slots', page')
  BY <1>1, <1>8 DEF RefuseLong
<1>9. ASSUME NEW t \in Name, NEW c \in Column, RefuseIndex(t, c) PROVE Counts(slots', page')
  BY <1>1, <1>9 DEF RefuseIndex
<1>10. CASE UNCHANGED vars
  BY <1>1, <1>10 DEF vars
<1> QED
  BY <1>2, <1>3, <1>4, <1>5, <1>6, <1>7, <1>8, <1>9, <1>10 DEF CatalogNext

\* A descriptor's counts are those of its heap, whatever is inserted or refused: the rows
\* that are live and the pages of its chain (catalog.hpp:27-28).  So the page that a refused
\* row has added is counted, and the row is not (catalog.cpp:154-213).
THEOREM CatalogCountsExact == Spec => []CountsExact
<1>1. Init => Inv /\ OwnInv /\ CountsExact
  <2>1. Init => CountsExact
    BY DEF Init, CountsExact, Used
  <2> QED
    BY <2>1, InitInv, InitOwned
<1>2. Inv /\ OwnInv /\ CountsExact /\ [CatalogNext]_vars => (Inv /\ OwnInv /\ CountsExact)'
  <2> SUFFICES ASSUME Inv, OwnInv, CountsExact, [CatalogNext]_vars
               PROVE  Inv' /\ OwnInv' /\ CountsExact'
    OBVIOUS
  <2>1. Inv' /\ OwnInv'
    BY NextInv, NextOwned
  <2>2. Counts(slots', page')
    BY <2>1, NextCounts, CountsAre
  <2> QED
    BY <2>1, <2>2, CountsAre
<1> QED
  BY <1>1, <1>2, PTL DEF Spec
-----------------------------------------------------------------------------
(* What the trees file.                                                    *)

\* Rows R are filed by column c in es; 0 is the key.
IsFiled(row, c)      == c = 0 \/ row.col[c] # Null
EntryOf(row, c, rid) == [key |-> IF c = 0 THEN row.key ELSE OrderKey[row.col[c]], rid |-> rid]
FiledOf(R, c)        == {r \in DOMAIN R : IsFiled(R[r], c)}

Files(es, R, c) ==
    /\ es \in Seq(Entry)
    /\ \A n \in DOMAIN es : /\ es[n].rid \in FiledOf(R, c)
                            /\ es[n] = EntryOf(R[es[n].rid], c, es[n].rid)
    /\ \A r \in FiledOf(R, c) : \E n \in DOMAIN es : es[n].rid = r
    /\ Len(es) = Cardinality(FiledOf(R, c))
    /\ \A m, n \in DOMAIN es : m < n => /\ es[m].key <= es[n].key
                                        /\ c = 0 => es[m].key < es[n].key

\* The rows R and one more.
Plus(R, rid, row) == [r \in DOMAIN R \cup {rid} |-> IF r = rid THEN row ELSE R[r]]

LEMMA EntriesAre ==
    ASSUME NEW es \in Seq(Entry)
    PROVE  /\ Len(es) \in Nat /\ DOMAIN es = 1..Len(es)
           /\ \A n \in DOMAIN es : es[n] \in Entry /\ es[n].key \in Nat /\ es[n].rid \in Rid
<1>1. Len(es) \in Nat /\ DOMAIN es = 1..Len(es) /\ \A n \in DOMAIN es : es[n] \in Entry
  OBVIOUS
<1> QED
  BY <1>1 DEF Entry

LEMMA PlaceIs ==
    ASSUME NEW es \in Seq(Entry), NEW k \in Nat
    PROVE  /\ PlaceOf(es, k) \in 0..Len(es)
           /\ PlaceOf(es, k) > 0 => es[PlaceOf(es, k)].key <= k
           /\ PlaceOf(es, k) < Len(es) => es[PlaceOf(es, k) + 1].key > k
<1> DEFINE T == {n \in 0..Len(es) : n < Len(es) => es[n+1].key > k}
<1>1. Len(es) \in Nat /\ \A n \in 1..Len(es) : es[n].key \in Nat
  BY EntriesAre
<1>2. T \in SUBSET Nat /\ Len(es) \in T
  BY <1>1
<1>3. PICK n \in T : \A m \in T : n <= m
  BY <1>2, LeastElement
<1>4. n \in 0..Len(es) /\ (n < Len(es) => es[n+1].key > k)
  OBVIOUS
<1>5. n > 0 => es[n].key <= k
  <2> SUFFICES ASSUME n > 0, ~(es[n].key <= k) PROVE FALSE
    OBVIOUS
  <2>1. n - 1 \in 0..Len(es) /\ n - 1 + 1 = n /\ n \in 1..Len(es)
    BY <1>1, <1>4
  <2>2. n - 1 \in T
    BY <1>1, <2>1
  <2>3. n <= n - 1
    BY <1>3, <2>2
  <2> HIDE DEF T
  <2> QED
    BY <1>1, <1>4, <2>3
<1>6. \E m \in 0..Len(es) : /\ m > 0 => es[m].key <= k
                            /\ m < Len(es) => es[m+1].key > k
  BY <1>4, <1>5
<1> QED
  BY <1>6, Zenon DEF PlaceOf

LEMMA InsertAtIs ==
    ASSUME NEW S, NEW s \in Seq(S), NEW i \in 1..Len(s)+1, NEW e \in S
    PROVE  /\ InsertAt(s, i, e) \in Seq(S)
           /\ Len(InsertAt(s, i, e)) = Len(s) + 1
           /\ InsertAt(s, i, e)[i] = e
           /\ \A j \in 1..i-1 : InsertAt(s, i, e)[j] = s[j]
           /\ \A j \in i..Len(s) : InsertAt(s, i, e)[j+1] = s[j]
<1> DEFINE a == SubSeq(s, 1, i-1)
           b == SubSeq(s, i, Len(s))
           o == <<e>>
<1>1. a \in Seq(S) /\ Len(a) = i - 1 /\ \A j \in 1..i-1 : a[j] = s[j]
  OBVIOUS
<1>2. b \in Seq(S) /\ Len(b) = Len(s) - i + 1 /\ \A j \in 1..Len(s)-i+1 : b[j] = s[i+j-1]
  OBVIOUS
<1>3. o \in Seq(S) /\ Len(o) = 1 /\ o[1] = e
  OBVIOUS
<1>4. InsertAt(s, i, e) = (a \o o) \o b
  BY Zenon DEF InsertAt
<1> HIDE DEF a, b, o
<1> DEFINE c == a \o o
<1>5. /\ c \in Seq(S) /\ Len(c) = Len(a) + Len(o)
      /\ \A j \in 1..Len(a)+Len(o) : c[j] = IF j <= Len(a) THEN a[j] ELSE o[j - Len(a)]
  BY <1>1, <1>3, ConcatProperties
<1> HIDE DEF c
<1>6. Len(c) = i /\ \A j \in 1..i : c[j] = IF j < i THEN s[j] ELSE e
  <2>1. Len(s) \in Nat
    OBVIOUS
  <2> QED
    BY <1>1, <1>3, <1>5, <2>1
<1>7. /\ c \o b \in Seq(S) /\ Len(c \o b) = Len(c) + Len(b)
      /\ \A j \in 1..Len(c)+Len(b) : (c \o b)[j] = IF j <= Len(c) THEN c[j] ELSE b[j - Len(c)]
  <2>1. c \in Seq(S) /\ b \in Seq(S)
    BY <1>2, <1>5
  <2> QED
    BY <2>1, ConcatProperties
<1> DEFINE d == c \o b
<1> HIDE DEF d
<1>8. /\ d[i] = e
      /\ \A j \in 1..i-1 : d[j] = s[j]
      /\ \A j \in i..Len(s) : d[j+1] = s[j]
  <2>1. Len(s) \in Nat
    OBVIOUS
  <2>2. \A j \in 1..Len(s)+1 : d[j] = IF j <= i THEN c[j] ELSE b[j - i]
    BY <1>2, <1>6, <1>7, <2>1 DEF d
  <2>3. \A j \in 1..i : d[j] = c[j]
    BY <2>1, <2>2
  <2>4. ASSUME NEW j \in i..Len(s) PROVE d[j+1] = s[j]
    <3>1. j + 1 \in 1..Len(s)+1 /\ ~(j + 1 <= i) /\ j + 1 - i \in 1..Len(s)-i+1 /\ i + (j + 1 - i) - 1 = j
      BY <2>1
    <3>2. d[j+1] = b[j+1-i]
      BY <2>2, <3>1
    <3>3. b[j+1-i] = s[i + (j + 1 - i) - 1]
      BY <1>2, <3>1
    <3> QED
      BY <3>1, <3>2, <3>3
  <2> QED
    BY <1>6, <2>1, <2>3, <2>4
<1>9. d \in Seq(S) /\ Len(d) = Len(s) + 1
  <2>1. Len(s) \in Nat
    OBVIOUS
  <2> QED
    BY <1>2, <1>6, <1>7, <2>1 DEF d
<1> QED
  BY <1>4, <1>8, <1>9 DEF c, d

\* One more row that the column files.
LEMMA FiledFiles ==
    ASSUME NEW es, NEW R, NEW c, Files(es, R, c), IsFiniteSet(DOMAIN R),
           NEW row, NEW rid \in Rid, rid \notin DOMAIN R, IsFiled(row, c),
           EntryOf(row, c, rid) \in Entry,
           c = 0 => ~HasKey(es, row.key)
    PROVE  Files(Filed(es, EntryOf(row, c, rid)), Plus(R, rid, row), c)
<1> DEFINE e == EntryOf(row, c, rid)
           k == e.key
           p == PlaceOf(es, k)
           t == Filed(es, e)
           Q == Plus(R, rid, row)
<1>1. e \in Entry /\ k \in Nat /\ e.rid = rid
  BY DEF Entry, EntryOf
<1>2. c = 0 => k = row.key
  BY DEF EntryOf
<1>3. es \in Seq(Entry)
  BY DEF Files
<1>4. /\ p \in 0..Len(es)
      /\ p > 0 => es[p].key <= k
      /\ p < Len(es) => es[p+1].key > k
  BY <1>1, <1>3, PlaceIs
<1>5. t = InsertAt(es, p + 1, e)
  BY Zenon DEF Filed
<1>6. Len(es) \in Nat /\ DOMAIN es = 1..Len(es) /\ \A n \in 1..Len(es) : es[n] \in Entry /\ es[n].key \in Nat
  BY <1>3, EntriesAre
<1> HIDE DEF e, k, p, t
<1>7. /\ t \in Seq(Entry) /\ Len(t) = Len(es) + 1
      /\ \A j \in 1..Len(es)+1 : t[j] = IF j < p + 1 THEN es[j] ELSE IF j = p + 1 THEN e ELSE es[j-1]
  <2>1. p + 1 \in 1..Len(es)+1
    BY <1>4, <1>6
  <2> DEFINE q == p + 1
  <2>2. q \in 1..Len(es)+1 /\ p = q - 1
    BY <1>4, <2>1
  <2> HIDE DEF q
  <2>3. /\ t \in Seq(Entry) /\ Len(t) = Len(es) + 1 /\ t[q] = e
        /\ \A j \in 1..q-1 : t[j] = es[j]
        /\ \A j \in q..Len(es) : t[j+1] = es[j]
    <3>1. t = InsertAt(es, q, e)
      BY <1>5 DEF q
    <3> QED
      BY <1>1, <1>3, <2>2, <3>1, InsertAtIs
  <2>4. ASSUME NEW j \in 1..Len(es)+1
        PROVE  t[j] = IF j < p + 1 THEN es[j] ELSE IF j = p + 1 THEN e ELSE es[j-1]
    <3>1. CASE j < q
      BY <1>6, <2>2, <2>3, <3>1
    <3>2. CASE j = q
      BY <1>6, <2>2, <2>3, <3>2
    <3>3. CASE j > q
      <4>1. j - 1 \in q..Len(es) /\ j - 1 + 1 = j
        BY <1>6, <2>2, <3>3
      <4>2. t[j] = es[j-1]
        BY <2>3, <4>1
      <4> QED
        BY <2>2, <3>3, <4>2
    <3> QED
      BY <2>2, <3>1, <3>2, <3>3
  <2> QED
    BY <2>3, <2>4
<1>8. DOMAIN t = 1..Len(es)+1
  BY <1>6, <1>7
<1>9. \A m, n \in DOMAIN es : m < n => es[m].key <= es[n].key /\ (c = 0 => es[m].key < es[n].key)
  BY DEF Files
<1>10. ASSUME NEW n \in 1..Len(es)
       PROVE  /\ n <= p => es[n].key <= k
              /\ n > p => es[n].key > k
              /\ c = 0 => es[n].key # k
  <2>1. n <= p => es[n].key <= k
    <3>1. CASE n = p
      BY <1>4, <1>6, <3>1
    <3>2. CASE n < p
      <4>1. es[n].key <= es[p].key /\ es[p].key <= k /\ p \in 1..Len(es)
        BY <1>4, <1>6, <1>9, <3>2
      <4> QED
        BY <1>1, <1>6, <4>1 DEF k
    <3> QED
      BY <1>4, <1>6, <3>1, <3>2
  <2>2. n > p => es[n].key > k
    <3>1. CASE n = p + 1
      BY <1>4, <1>6, <3>1
    <3>2. CASE n > p + 1
      <4>1. p + 1 \in 1..Len(es) /\ es[p+1].key > k
        BY <1>4, <1>6, <3>2
      <4>2. es[p+1].key <= es[n].key
        BY <1>6, <1>9, <3>2, <4>1
      <4> QED
        BY <1>1, <1>6, <4>1, <4>2 DEF k
    <3> QED
      BY <1>4, <1>6, <3>1, <3>2
  <2>3. c = 0 => es[n].key # k
    BY <1>2, <1>6 DEF HasKey
  <2> QED
    BY <2>1, <2>2, <2>3
<1>11. ASSUME NEW m \in 1..Len(es)+1, NEW n \in 1..Len(es)+1, m < n
       PROVE  t[m].key <= t[n].key /\ (c = 0 => t[m].key < t[n].key)
  <2>1. CASE n < p + 1
    <3>1. t[m] = es[m] /\ t[n] = es[n] /\ m \in 1..Len(es) /\ n \in 1..Len(es)
      BY <1>4, <1>6, <1>7, <1>11, <2>1
    <3> QED
      BY <1>6, <1>9, <1>11, <3>1
  <2>2. CASE n = p + 1
    <3>1. t[m] = es[m] /\ t[n] = e /\ m \in 1..Len(es) /\ m <= p
      BY <1>4, <1>6, <1>7, <1>11, <2>2
    <3> QED
      BY <1>1, <1>6, <1>10, <3>1 DEF k
  <2>3. CASE n > p + 1
    <3>1. t[n] = es[n-1] /\ n - 1 \in 1..Len(es) /\ n - 1 > p
      BY <1>4, <1>6, <1>7, <2>3
    <3>2. CASE m < p + 1
      <4>1. t[m] = es[m] /\ m \in 1..Len(es) /\ m < n - 1
        BY <1>4, <1>6, <1>7, <2>3, <3>2
      <4> QED
        BY <1>6, <1>9, <3>1, <4>1
    <3>3. CASE m = p + 1
      <4>1. t[m] = e
        BY <1>4, <1>6, <1>7, <3>3
      <4> QED
        BY <1>1, <1>6, <1>10, <3>1, <4>1 DEF k
    <3>4. CASE m > p + 1
      <4>1. t[m] = es[m-1] /\ m - 1 \in 1..Len(es) /\ m - 1 < n - 1
        BY <1>4, <1>6, <1>7, <1>11, <3>4
      <4> QED
        BY <1>6, <1>9, <3>1, <4>1
    <3> QED
      BY <1>4, <3>2, <3>3, <3>4
  <2> QED
    BY <1>4, <2>1, <2>2, <2>3
<1>12. /\ DOMAIN Q = DOMAIN R \cup {rid} /\ Q[rid] = row
       /\ \A r \in DOMAIN R : Q[r] = R[r]
  BY DEF Plus
<1> HIDE DEF Q
<1>13. FiledOf(Q, c) = FiledOf(R, c) \cup {rid} /\ rid \notin FiledOf(R, c) /\ FiledOf(R, c) \subseteq DOMAIN R
  BY <1>12 DEF FiledOf
<1>14. Cardinality(FiledOf(Q, c)) = Cardinality(FiledOf(R, c)) + 1
  <2>1. IsFiniteSet(FiledOf(R, c))
    BY <1>13, FS_Subset
  <2> QED
    BY <1>13, <2>1, FS_AddElement
<1>15. e = EntryOf(Q[rid], c, rid)
  BY <1>12 DEF e
<1>16. ASSUME NEW n \in DOMAIN t
       PROVE  t[n].rid \in FiledOf(Q, c) /\ t[n] = EntryOf(Q[t[n].rid], c, t[n].rid)
  <2>1. CASE n = p + 1
    <3>1. t[n] = e
      BY <1>4, <1>6, <1>7, <2>1
    <3> QED
      BY <1>1, <1>13, <1>15, <3>1
  <2>2. CASE n # p + 1
    <3>1. PICK m \in DOMAIN es : t[n] = es[m]
      <4>1. n \in 1..Len(es)+1 /\ p \in 0..Len(es)
        BY <1>4, <1>8
      <4>2. CASE n < p + 1
        BY <1>6, <1>7, <4>1, <4>2
      <4>3. CASE n > p + 1
        <5>1. n - 1 \in 1..Len(es) /\ t[n] = es[n-1]
          BY <1>6, <1>7, <4>1, <4>3
        <5> QED
          BY <1>6, <5>1
      <4> QED
        BY <2>2, <4>1, <4>2, <4>3
    <3>2. es[m].rid \in FiledOf(R, c) /\ es[m] = EntryOf(R[es[m].rid], c, es[m].rid)
      BY DEF Files
    <3> QED
      BY <1>12, <1>13, <3>1, <3>2
  <2> QED
    BY <2>1, <2>2
<1>17. ASSUME NEW r \in FiledOf(Q, c)
       PROVE  \E n \in DOMAIN t : t[n].rid = r
  <2>1. CASE r = rid
    <3>1. p + 1 \in DOMAIN t /\ t[p + 1] = e
      BY <1>4, <1>6, <1>7, <1>8
    <3> QED
      BY <1>1, <2>1, <3>1
  <2>2. CASE r # rid
    <3>1. PICK m \in DOMAIN es : es[m].rid = r
      BY <1>13, <2>2 DEF Files
    <3>2. CASE m <= p
      <4>1. m \in DOMAIN t /\ t[m] = es[m]
        BY <1>4, <1>6, <1>7, <1>8, <3>2
      <4> QED
        BY <3>1, <4>1
    <3>3. CASE m > p
      <4>1. m + 1 \in DOMAIN t /\ t[m+1] = es[m]
        BY <1>4, <1>6, <1>7, <1>8, <3>3
      <4> QED
        BY <3>1, <4>1
    <3> QED
      BY <1>4, <1>6, <3>2, <3>3
  <2> QED
    BY <2>1, <2>2
<1>18. Len(t) = Cardinality(FiledOf(Q, c))
  BY <1>7, <1>14 DEF Files
<1>19. Files(t, Q, c)
  BY <1>7, <1>8, <1>11, <1>16, <1>17, <1>18, Zenon DEF Files
<1> QED
  BY <1>19 DEF t, e, Q

\* And one that it does not.
LEMMA UnfiledFiles ==
    ASSUME NEW es, NEW R, NEW c, Files(es, R, c), NEW row, NEW rid, rid \notin DOMAIN R, ~IsFiled(row, c)
    PROVE  Files(es, Plus(R, rid, row), c)
<1> DEFINE Q == Plus(R, rid, row)
<1>1. /\ DOMAIN Q = DOMAIN R \cup {rid} /\ Q[rid] = row
      /\ \A r \in DOMAIN R : Q[r] = R[r]
  BY DEF Plus
<1> HIDE DEF Q
<1>2. FiledOf(Q, c) = FiledOf(R, c) /\ FiledOf(R, c) \subseteq DOMAIN R
  BY <1>1 DEF FiledOf
<1>3. Files(es, Q, c)
  BY <1>1, <1>2 DEF Files
<1> QED
  BY <1>3 DEF Q

\* The index over the first n rows of a table's own tree, step by step.
Indexed(own, c, pg, n, before) ==
    LET v == ReadSlot(pg[own[n].rid[1]], own[n].rid[2])[1].col[c]
    IN  IF v = Null THEN before ELSE Filed(before, [key |-> OrderKey[v], rid |-> own[n].rid])

LEMMA EntriesForIs ==
    ASSUME NEW i, NEW c, NEW own, own = tree[slots[i].roots[0]], Len(own) \in Nat
    PROVE  \E of : /\ of[0] = <<>>
                   /\ \A n \in 1..Len(own) : of[n] = Indexed(own, c, page, n, of[n-1])
                   /\ EntriesFor(i, c) = of[Len(own)]
<1> DEFINE N == Len(own)
           Def(m, f) == f = [n \in 0..m |-> IF n = 0 THEN <<>> ELSE Indexed(own, c, page, n, f[n-1])]
           T == {m \in Nat : ~ \E f : Def(m, f)}
<1>1. T = {}
  <2> SUFFICES ASSUME T # {} PROVE FALSE
    OBVIOUS
  <2>1. T \in SUBSET Nat
    OBVIOUS
  <2> HIDE DEF T
  <2>2. PICK m \in T : \A k \in T : m <= k
    BY <2>1, LeastElement
  <2>3. m \in Nat /\ ~ \E f : Def(m, f)
    BY DEF T
  <2>4. CASE m = 0
    <3>1. Def(0, [n \in 0..0 |-> <<>>])
      OBVIOUS
    <3> HIDE DEF Def
    <3> QED
      BY <2>3, <2>4, <3>1
  <2>5. CASE m # 0
    <3>1. m - 1 \in Nat /\ m - 1 \notin T
      <4>1. m - 1 \in Nat /\ ~(m <= m - 1)
        BY <2>3, <2>5
      <4> QED
        BY <2>2, <4>1
    <3>2. PICK f : Def(m - 1, f)
      BY <3>1 DEF T
    <3> DEFINE g == [n \in 0..m |-> IF n = m THEN Indexed(own, c, page, m, f[m-1]) ELSE f[n]]
    <3>3. \A n \in 0..m-1 : f[n] = IF n = 0 THEN <<>> ELSE Indexed(own, c, page, n, f[n-1])
      BY <3>2, Zenon
    <3>4. ASSUME NEW n \in 0..m PROVE g[n] = IF n = 0 THEN <<>> ELSE Indexed(own, c, page, n, g[n-1])
      <4>1. CASE n = m
        <5>1. m - 1 \in 0..m /\ m - 1 # m /\ m \in 0..m
          BY <2>3, <3>1
        <5>2. g[m-1] = f[m-1] /\ g[m] = Indexed(own, c, page, m, f[m-1])
          BY <5>1
        <5> QED
          BY <2>5, <4>1, <5>2
      <4>2. CASE n # m
        <5>1. n \in 0..m-1 /\ (n # 0 => n - 1 \in 0..m /\ n - 1 # m)
          BY <2>3, <4>2
        <5>2. g[n] = f[n] /\ (n # 0 => g[n-1] = f[n-1])
          BY <4>2, <5>1
        <5> HIDE DEF g
        <5> QED
          BY <3>3, <5>1, <5>2
      <4> QED
        BY <4>1, <4>2
    <3>5. g = [n \in 0..m |-> g[n]]
      OBVIOUS
    <3> HIDE DEF g
    <3>6. Def(m, g)
      BY <3>4, <3>5, Zenon
    <3> HIDE DEF Def
    <3> QED
      BY <2>3, <3>6
  <2> QED
    BY <2>4, <2>5
<1>2. \E f : Def(N, f)
  BY <1>1
<1> DEFINE of == CHOOSE f : Def(N, f)
<1>3. EntriesFor(i, c) = of[N]
  BY DEF EntriesFor, Indexed, RowAt
<1>4. Def(N, of)
  <2> HIDE DEF Def
  <2> QED
    BY <1>2, Zenon
<1> HIDE DEF of
<1>5. \A n \in 0..N : of[n] = IF n = 0 THEN <<>> ELSE Indexed(own, c, page, n, of[n-1])
  BY <1>4, Zenon
<1>6. 0 \in 0..N /\ \A n \in 1..N : n \in 0..N /\ n # 0
  OBVIOUS
<1>7. of[0] = <<>> /\ \A n \in 1..N : of[n] = Indexed(own, c, page, n, of[n-1])
  BY <1>5, <1>6
<1> QED
  BY <1>3, <1>7

LEMMA NoneFiles == ASSUME NEW R, DOMAIN R = {}, NEW c PROVE Files(<<>>, R, c)
<1>1. FiledOf(R, c) = {}
  BY DEF FiledOf
<1>2. Cardinality({}) = 0 /\ <<>> \in Seq(Entry) /\ Len(<<>>) = 0 /\ DOMAIN <<>> = {}
  BY FS_EmptySet
<1> QED
  BY <1>1, <1>2 DEF Files

\* create_index: an index over the rows there are.
LEMMA EntriesForFiles ==
    ASSUME NEW i, NEW c, c # 0, NEW own, own = tree[slots[i].roots[0]],
           NEW R, R = [r \in DOMAIN R |-> R[r]], IsFiniteSet(DOMAIN R), DOMAIN R \subseteq Rid, Files(own, R, 0),
           \A r \in DOMAIN R : /\ R[r] = ReadSlot(page[r[1]], r[2])[1]
                               /\ R[r].col[c] # Null => OrderKey[R[r].col[c]] \in Nat
    PROVE  Files(EntriesFor(i, c), R, c)
<1> DEFINE To(n) == [r \in {own[m].rid : m \in 1..n} |-> R[r]]
           N == Len(own)
<1>1. /\ N \in Nat /\ DOMAIN own = 1..N
      /\ \A n \in 1..N : own[n] \in Entry /\ own[n].key \in Nat /\ own[n].rid \in Rid
  BY EntriesAre DEF Files
<1>2. PICK of : /\ of[0] = <<>>
                /\ \A n \in 1..N : of[n] = Indexed(own, c, page, n, of[n-1])
                /\ EntriesFor(i, c) = of[N]
  BY <1>1, EntriesForIs
<1>3. FiledOf(R, 0) = DOMAIN R
  BY DEF FiledOf, IsFiled
<1>4. ASSUME NEW n \in 1..N
      PROVE  own[n].rid \in DOMAIN R /\ own[n] = EntryOf(R[own[n].rid], 0, own[n].rid)
  BY <1>1, <1>3 DEF Files
<1>5. ASSUME NEW n \in 1..N, NEW m \in 1..n-1
      PROVE  own[m].rid # own[n].rid
  <2>1. m \in 1..N /\ m < n
    BY <1>1
  <2>2. own[m].key < own[n].key /\ own[m].key \in Nat /\ own[n].key \in Nat
    BY <1>1, <2>1 DEF Files
  <2> SUFFICES ASSUME own[m].rid = own[n].rid PROVE FALSE
    OBVIOUS
  <2>3. own[m] = own[n]
    <3> HIDE DEF N
    <3>1. own[m] = EntryOf(R[own[m].rid], 0, own[m].rid)
      BY <1>4, <2>1
    <3>2. own[n] = EntryOf(R[own[n].rid], 0, own[n].rid)
      BY <1>4
    <3> QED
      BY <3>1, <3>2
  <2> QED
    BY <2>2, <2>3
<1>6. ASSUME NEW n \in 1..N, Files(of[n-1], To(n-1), c)
      PROVE  Files(of[n], To(n), c)
  <2> DEFINE rid == own[n].rid
             row == R[rid]
             v   == row.col[c]
             P   == To(n-1)
  <2>1. rid \in DOMAIN R /\ rid \in Rid
    BY <1>1, <1>4
  <2>2. rid \notin DOMAIN P
    BY <1>5
  <2>3. To(n) = Plus(P, rid, row)
    <3>1. \A m : m \in 1..n <=> m \in 1..n-1 \/ m = n
      BY <1>1
    <3>2. {own[m].rid : m \in 1..n} = {own[m].rid : m \in 1..n-1} \cup {rid}
      BY <3>1
    <3>3. DOMAIN P = {own[m].rid : m \in 1..n-1} /\ \A r \in DOMAIN P : P[r] = R[r]
      OBVIOUS
    <3> HIDE DEF P
    <3> QED
      BY <3>2, <3>3 DEF Plus
  <2>4. IsFiniteSet(DOMAIN P)
    <3>1. DOMAIN P \subseteq DOMAIN R
      <4>1. \A m \in 1..n-1 : m \in 1..N
        BY <1>1
      <4> QED
        BY <1>4, <4>1
    <3> QED
      BY <3>1, FS_Subset
  <2>5. of[n] = IF v = Null THEN of[n-1] ELSE Filed(of[n-1], [key |-> OrderKey[v], rid |-> rid])
    BY <1>2, <2>1 DEF Indexed
  <2> HIDE DEF P
  <2>6. CASE v = Null
    <3>1. ~IsFiled(row, c)
      BY <2>6 DEF IsFiled
    <3>2. Files(of[n-1], Plus(P, rid, row), c)
      BY <1>6, <2>2, <3>1, UnfiledFiles DEF P
    <3> QED
      BY <2>3, <2>5, <2>6, <3>2
  <2>7. CASE v # Null
    <3>1. IsFiled(row, c) /\ EntryOf(row, c, rid) = [key |-> OrderKey[v], rid |-> rid]
      BY <2>7 DEF IsFiled, EntryOf
    <3>2. EntryOf(row, c, rid) \in Entry
      <4>1. OrderKey[v] \in Nat
        BY <2>1, <2>7
      <4> HIDE DEF rid, v
      <4> QED
        BY <2>1, <3>1, <4>1 DEF Entry
    <3>3. Files(of[n-1], P, c)
      BY <1>6 DEF P
    <3> HIDE DEF rid, row
    <3>4. Files(Filed(of[n-1], EntryOf(row, c, rid)), Plus(P, rid, row), c)
      BY <2>1, <2>2, <2>4, <3>1, <3>2, <3>3, FiledFiles
    <3> QED
      BY <2>3, <2>5, <2>7, <3>1, <3>4
  <2> QED
    BY <2>6, <2>7
<1> HIDE DEF To
<1>7. \A n \in 0..N : Files(of[n], To(n), c)
  <2> DEFINE T == {n \in 0..N : ~Files(of[n], To(n), c)}
  <2> SUFFICES ASSUME T # {} PROVE FALSE
    OBVIOUS
  <2>1. T \in SUBSET Nat
    BY <1>1
  <2> HIDE DEF T
  <2>2. PICK n \in T : \A m \in T : n <= m
    BY <2>1, LeastElement
  <2>3. n \in 0..N /\ ~Files(of[n], To(n), c)
    BY DEF T
  <2>4. n # 0
    <3>1. Files(<<>>, To(0), c)
      <4>1. DOMAIN To(0) = {}
        BY DEF To
      <4> QED
        BY <4>1, NoneFiles
    <3> QED
      BY <1>2, <2>3, <3>1
  <2>5. n \in 1..N /\ n - 1 \in 0..N /\ ~(n <= n - 1)
    BY <1>1, <2>3, <2>4
  <2>6. Files(of[n-1], To(n-1), c)
    BY <2>2, <2>5 DEF T
  <2> QED
    BY <1>6, <2>3, <2>5, <2>6
<1>8. To(N) = R
  <2>1. {own[m].rid : m \in 1..N} = DOMAIN R
    <3>1. \A r \in DOMAIN R : \E m \in 1..N : own[m].rid = r
      BY <1>1, <1>3 DEF Files
    <3>2. \A m \in 1..N : own[m].rid \in DOMAIN R
      BY <1>4
    <3> HIDE DEF N
    <3> QED
      BY <3>1, <3>2
  <2>2. To(N) = [r \in DOMAIN R |-> R[r]]
    BY <2>1 DEF To
  <2> QED
    BY <2>2
<1> QED
  BY <1>1, <1>2, <1>7, <1>8
-----------------------------------------------------------------------------
(* The rows of the tables, by where they are.                              *)

TableAt(pg, S)      == [r \in LiveOf(pg, S) |-> ReadSlot(pg[r[1]], r[2])[1]]
RowsOf(ds, pg, i)   == [r \in LiveIn(ds[i].heapHead, pg) |-> ReadSlot(pg[r[1]], r[2])[1]]
SameRows(ds, pg, j) == RowsOf(ds, pg, j) = RowsOf(slots, page, j)

LEMMA TableIs ==
    ASSUME NEW ds, NEW pg, NEW own, NEW height, Parts(ds, pg, own, height), PagesOK(pg), NEW i \in DOMAIN ds
    PROVE  /\ RowsOf(ds, pg, i) = TableAt(pg, PartOf(own, i))
           /\ DOMAIN RowsOf(ds, pg, i) = LiveOf(pg, PartOf(own, i))
           /\ IsFiniteSet(DOMAIN RowsOf(ds, pg, i))
           /\ DOMAIN RowsOf(ds, pg, i) \subseteq Rid
<1>1. /\ LiveIn(ds[i].heapHead, pg) = LiveOf(pg, PartOf(own, i))
      /\ IsFiniteSet(LiveOf(pg, PartOf(own, i)))
  BY PartIs
<1>2. LiveOf(pg, PartOf(own, i)) \subseteq Rid
  BY DEF LiveOf, PartOf, Parts, PagesOK, Rid
<1> QED
  BY <1>1, <1>2 DEF RowsOf, TableAt

\* insert_row: the table has one more row, and the others what they had.
LEMMA InsertRowRows ==
    ASSUME Inv, OwnInv, Inv', Counts(slots, page), NEW t \in Name, NEW row \in Row, InsertRow(t, row)
    PROVE  LET i   == SlotOf(t)
               rid == NewRowRid(i, row)
           IN  /\ rid \in Rid /\ rid \notin DOMAIN RowsOf(slots, page, i)
               /\ RowsOf(slots', page', i) = Plus(RowsOf(slots, page, i), rid, row)
               /\ \A j \in Used : j # i => SameRows(slots', page', j)
<1> DEFINE i   == SlotOf(t)
           rid == NewRowRid(i, row)
           ds  == WithHead(i, rid[1])
           pg  == PagesWithRow(i, row)
<1>1. scope = "tables" /\ page' = pg /\ Exists(t) /\ Storable(row) /\ RoomFor(i, row)
  BY DEF InsertRow, Tables
<1>2. PICK moves \in SUBSET DOMAIN EntriesOf(i, row) :
        /\ \A c \in moves : slots[i].roots[c][3] < MaxMoves
        /\ slots' = RowCounted(ds, i, RootsAfter(i, moves))
  <2>1. \E moves \in SUBSET DOMAIN EntriesOf(i, row) :
           /\ \A c \in moves : slots[i].roots[c][3] < MaxMoves /\ tree[slots[i].roots[c]] # <<>>
           /\ tree' = TreesWith(i, EntriesOf(i, row), moves)
           /\ slots' = RowCounted(ds, i, RootsAfter(i, moves))
    BY Zenon DEF InsertRow
  <2> HIDE DEF ds, i
  <2> QED
    BY <2>1
<1>3. /\ i \in Used /\ slots[i] \in Desc /\ ds \in Seq(Desc) /\ DOMAIN ds = Used
      /\ \A j \in Used : ds[j].roots = slots[j].roots
  BY <1>1, RowStored
<1>4. PICK own, height : Parts(slots, page, own, height)
  BY <1>1 DEF OwnInv
<1> DEFINE S(j) == PartOf(OwnWith(own, rid[1], i), j)
<1>5. /\ LiveOf(pg, S(i)) = LiveOf(page, PartOf(own, i)) \cup {rid}
      /\ rid \notin LiveOf(page, PartOf(own, i))
      /\ \A j \in Used : j # i => /\ S(j) = PartOf(own, j) /\ rid[1] \notin S(j)
                                  /\ LiveOf(pg, S(j)) = LiveOf(page, S(j))
  BY <1>1, <1>4, RowCounts
<1>6. slots[i].roots[0] # NoRoot
  BY <1>3 DEF Inv, DescsOK
<1>0. Reads(pg, rid, row)
  BY <1>1, RowAdded, Zenon
<1> HIDE DEF i, rid, ds, pg
<1>7. /\ \A p \in DOMAIN page : p # rid[1] => pg[p] = page[p]
      /\ ReadSlot(pg[rid[1]], rid[2])[1] = row
      /\ rid[1] \in DOMAIN page =>
            \A s \in LiveSlots(page[rid[1]]) : ReadSlot(pg[rid[1]], s) = ReadSlot(page[rid[1]], s)
  BY <1>0 DEF Reads
<1>8. RootsAfter(i, moves) \in [{0} \cup Column -> Root \cup {NoRoot}]
  BY <1>2, <1>3, <1>6, RootsAfterOK
<1> DEFINE d == WithRow(ds[i], RootsAfter(i, moves))
<1>9. d \in Desc /\ d.heapHead = ds[i].heapHead
  <2>1. ds[i] \in Desc
    BY <1>3
  <2> QED
    BY <1>8, <2>1, NewRoots
<1>10. slots' = [ds EXCEPT ![i] = d]
  BY <1>2 DEF RowCounted
<1> HIDE DEF d
<1>11. DOMAIN slots' = Used /\ slots'[i] = d /\ \A j \in Used : j # i => slots'[j] = ds[j]
  BY <1>3, <1>9, <1>10, OneSlot
<1>12. \E higher : Parts(slots', page', OwnWith(own, rid[1], i), higher)
  <2>1. \A j \in Used : slots'[j].heapHead = ds[j].heapHead
    BY <1>9, <1>11
  <2> QED
    BY <1>1, <1>3, <1>4, <1>11, <2>1, RowOwned DEF i, rid, ds, pg
<1>13. PagesOK(page') /\ PagesOK(page)
  BY DEF Inv
<1>14. ASSUME NEW j \in Used
       PROVE  /\ RowsOf(slots', page', j) = TableAt(page', S(j)) /\ DOMAIN RowsOf(slots', page', j) \subseteq Rid
              /\ RowsOf(slots, page, j) = TableAt(page, PartOf(own, j))
  <2>1. j \in DOMAIN slots /\ j \in DOMAIN slots'
    BY <1>11 DEF Used
  <2> QED
    BY <1>4, <1>12, <1>13, <2>1, TableIs
<1>15. \A j : PartOf(own, j) \subseteq DOMAIN page
  BY <1>4 DEF PartOf, Parts
<1> DEFINE Old == LiveOf(page, PartOf(own, i))
<1>16. ASSUME NEW r \in Old
       PROVE  ReadSlot(pg[r[1]], r[2]) = ReadSlot(page[r[1]], r[2])
  <2>1. r[1] \in DOMAIN page /\ r[2] \in LiveSlots(page[r[1]])
    BY <1>15 DEF LiveOf
  <2> QED
    BY <1>7, <2>1
<1>17. RowsOf(slots, page, i) = [r \in Old |-> ReadSlot(page[r[1]], r[2])[1]]
  BY <1>3, <1>14 DEF TableAt
<1>18. RowsOf(slots', page', i) = [r \in Old \cup {rid} |-> ReadSlot(pg[r[1]], r[2])[1]]
  BY <1>1, <1>3, <1>5, <1>14 DEF TableAt
<1> HIDE DEF Old
<1>19. RowsOf(slots', page', i) = Plus(RowsOf(slots, page, i), rid, row)
  <2>1. \A r \in Old \cup {rid} : ReadSlot(pg[r[1]], r[2])[1] = IF r = rid THEN row ELSE RowsOf(slots, page, i)[r]
    BY <1>7, <1>16, <1>17
  <2>2. DOMAIN RowsOf(slots, page, i) = Old
    BY <1>17
  <2> QED
    BY <1>18, <2>1, <2>2 DEF Plus
<1>20. rid \in Rid /\ rid \notin DOMAIN RowsOf(slots, page, i)
  <2>1. DOMAIN RowsOf(slots, page, i) = Old /\ rid \in DOMAIN RowsOf(slots', page', i)
    BY <1>17, <1>18
  <2> QED
    BY <1>3, <1>5, <1>14, <2>1 DEF Old
<1>21. ASSUME NEW j \in Used, j # i
       PROVE  SameRows(slots', page', j)
  <2>1. ASSUME NEW r \in LiveOf(page, S(j)) PROVE pg[r[1]] = page[r[1]]
    <3>1. r[1] \in S(j)
      BY DEF LiveOf
    <3>2. r[1] \in DOMAIN page /\ r[1] # rid[1]
      BY <1>5, <1>15, <1>21, <3>1
    <3> QED
      BY <1>7, <3>2
  <2>2. TableAt(pg, S(j)) = TableAt(page, S(j))
    BY <1>5, <1>21, <2>1 DEF TableAt
  <2> QED
    BY <1>1, <1>5, <1>14, <1>21, <2>2 DEF SameRows
<1> QED
  BY <1>19, <1>20, <1>21 DEF i, rid

\* And when it refuses the row, they all have what they had.
LEMMA RefuseRowRows ==
    ASSUME Inv, OwnInv, Inv', Counts(slots, page), NEW t \in Name, NEW row \in Row, RefuseRow(t, row)
    PROVE  \A j \in Used : SameRows(slots', page', j)
<1> DEFINE i   == SlotOf(t)
           rid == NewRowRid(i, row)
           ds  == WithHead(i, rid[1])
           pg  == PagesWithRow(i, row)
<1>1. /\ scope = "tables" /\ Exists(t) /\ Storable(row) /\ RoomFor(i, row)
      /\ page' = [pg EXCEPT ![rid[1]] = Erased(@, rid[2])] /\ slots' = ds
  BY DEF RefuseRow, Tables
<1>2. PICK own, height : Parts(slots, page, own, height)
  BY <1>1 DEF OwnInv
<1> DEFINE S(j) == PartOf(OwnWith(own, rid[1], i), j)
<1>3. /\ LiveOf(pg, S(i)) = LiveOf(page, PartOf(own, i)) \cup {rid}
      /\ rid \notin LiveOf(page, PartOf(own, i))
      /\ \A j \in Used : j # i => /\ S(j) = PartOf(own, j) /\ rid[1] \notin S(j)
                                  /\ LiveOf(pg, S(j)) = LiveOf(page, S(j))
  BY <1>1, <1>2, RowCounts
<1>4. /\ i \in Used /\ PagesOK(pg) /\ rid[1] \in DOMAIN pg /\ rid[2] \in LiveSlots(pg[rid[1]])
      /\ ds \in Seq(Desc) /\ DOMAIN ds = Used /\ DOMAIN page \subseteq DOMAIN pg
  BY <1>1, RowStored
<1>0. Reads(pg, rid, row)
  BY <1>1, RowAdded, Zenon
<1> HIDE DEF i, rid, ds, pg
<1>5. /\ rid = <<rid[1], rid[2]>>
      /\ \A p \in DOMAIN page : p # rid[1] => pg[p] = page[p]
      /\ rid[1] \in DOMAIN page =>
            \A s \in LiveSlots(page[rid[1]]) : ReadSlot(pg[rid[1]], s) = ReadSlot(page[rid[1]], s)
  BY <1>0 DEF Reads
<1>6. /\ Erased(pg[rid[1]], rid[2]).next = pg[rid[1]].next
      /\ LiveSlots(Erased(pg[rid[1]], rid[2])) = LiveSlots(pg[rid[1]]) \ {rid[2]}
      /\ \A s \in LiveSlots(pg[rid[1]]) \ {rid[2]} :
            ReadSlot(Erased(pg[rid[1]], rid[2]), s) = ReadSlot(pg[rid[1]], s)
  BY <1>4, ErasedSound DEF PagesOK
<1>7. /\ DOMAIN page' = DOMAIN pg /\ \A p \in DOMAIN pg : page'[p].next = pg[p].next
      /\ LiveSlots(page'[rid[1]]) = LiveSlots(pg[rid[1]]) \ {rid[2]}
      /\ \A s \in LiveSlots(pg[rid[1]]) \ {rid[2]} : ReadSlot(page'[rid[1]], s) = ReadSlot(pg[rid[1]], s)
      /\ \A p \in DOMAIN pg : p # rid[1] => page'[p] = pg[p]
  BY <1>1, <1>4, <1>6
<1>8. PICK higher : Parts(slots', page', OwnWith(own, rid[1], i), higher)
  BY <1>1, <1>2, <1>7, RowOwned DEF i, rid, ds, pg
<1>9. PagesOK(page') /\ PagesOK(page)
  BY DEF Inv
<1>10. ASSUME NEW j \in Used
       PROVE  /\ RowsOf(slots', page', j) = TableAt(page', S(j))
              /\ RowsOf(slots, page, j) = TableAt(page, PartOf(own, j))
  <2>1. j \in DOMAIN slots /\ j \in DOMAIN slots'
    BY <1>1, <1>4 DEF Used
  <2> QED
    BY <1>2, <1>8, <1>9, <2>1, TableIs
<1>11. ASSUME NEW j \in Used, NEW r \in LiveOf(page, PartOf(own, j))
       PROVE  /\ r[1] \in DOMAIN pg /\ r[2] \in LiveSlots(pg[r[1]]) /\ r # rid /\ r = <<r[1], r[2]>>
              /\ r[1] \in S(j) /\ r[2] \in 1..PageSize
              /\ ReadSlot(pg[r[1]], r[2]) = ReadSlot(page[r[1]], r[2])
  <2>1. r \in LiveOf(pg, S(j)) /\ r # rid
    <3>1. CASE j = i
      BY <1>3, <3>1
    <3>2. CASE j # i
      <4>1. r[1] \in PartOf(own, j)
        BY DEF LiveOf
      <4> QED
        BY <1>3, <3>2, <4>1
    <3> QED
      BY <3>1, <3>2
  <2>2. r = <<r[1], r[2]>> /\ r[1] \in S(j) /\ r[2] \in 1..PageSize /\ r[2] \in LiveSlots(pg[r[1]])
    BY <2>1 DEF LiveOf
  <2>3. r[1] \in DOMAIN page /\ r[2] \in LiveSlots(page[r[1]])
    BY <1>2 DEF LiveOf, PartOf, Parts
  <2> HIDE DEF S
  <2> QED
    BY <1>4, <1>5, <2>1, <2>2, <2>3
<1>12. ASSUME NEW j \in Used, NEW r \in LiveOf(page', S(j))
       PROVE  r \in LiveOf(page, PartOf(own, j))
  <2>1. r = <<r[1], r[2]>> /\ r[1] \in S(j) /\ r[2] \in 1..PageSize /\ r[2] \in LiveSlots(page'[r[1]])
    BY DEF LiveOf
  <2>2. r[1] \in DOMAIN pg
    BY <1>7, <1>8, <2>1 DEF PartOf, Parts
  <2>3. r[2] \in LiveSlots(pg[r[1]]) /\ r # rid
    BY <1>5, <1>7, <2>1, <2>2
  <2>4. r \in LiveOf(pg, S(j))
    BY <2>1, <2>3 DEF LiveOf
  <2> QED
    BY <1>3, <2>3, <2>4
<1>13. ASSUME NEW j \in Used, NEW r \in LiveOf(page, PartOf(own, j))
       PROVE  r \in LiveOf(page', S(j)) /\ ReadSlot(page'[r[1]], r[2]) = ReadSlot(page[r[1]], r[2])
  <2>1. /\ r[1] \in DOMAIN pg /\ r[2] \in LiveSlots(pg[r[1]]) /\ r # rid /\ r = <<r[1], r[2]>>
        /\ r[1] \in S(j) /\ r[2] \in 1..PageSize
        /\ ReadSlot(pg[r[1]], r[2]) = ReadSlot(page[r[1]], r[2])
    BY <1>11
  <2>2. r[2] \in LiveSlots(page'[r[1]]) /\ ReadSlot(page'[r[1]], r[2]) = ReadSlot(pg[r[1]], r[2])
    <3>1. CASE r[1] = rid[1]
      BY <1>5, <1>7, <2>1, <3>1
    <3>2. CASE r[1] # rid[1]
      BY <1>7, <2>1, <3>2
    <3> QED
      BY <3>1, <3>2
  <2> HIDE DEF S
  <2>3. r \in S(j) \X (1..PageSize)
    BY <2>1
  <2> QED
    BY <2>1, <2>2, <2>3 DEF LiveOf
<1> HIDE DEF S
<1>14. ASSUME NEW j \in Used PROVE SameRows(slots', page', j)
  <2>1. LiveOf(page', S(j)) = LiveOf(page, PartOf(own, j))
    BY <1>12, <1>13
  <2>2. TableAt(page', S(j)) = TableAt(page, PartOf(own, j))
    BY <1>13, <2>1 DEF TableAt
  <2> QED
    BY <1>10, <2>2 DEF SameRows
<1> QED
  BY <1>14
-----------------------------------------------------------------------------
(* The trees of the tables.                                                *)

TreeFiles(ds, pg, tr, i, c) ==
    LET r == ds[i].roots[c]
    IN  r # NoRoot => /\ r \in DOMAIN tr /\ r[1] = ds[i].name /\ r[2] = c
                      /\ Files(tr[r], RowsOf(ds, pg, i), c)

TreesTyped(tr) == \A r \in DOMAIN tr : r \in Root /\ tr[r] \in Seq(Entry)

TreesInv(ds, pg, tr) ==
    /\ TreesTyped(tr)
    /\ \A i, j \in DOMAIN ds : ds[i].name = ds[j].name => i = j
    /\ \A i \in DOMAIN ds : \A r \in DOMAIN RowsOf(ds, pg, i) : RowsOf(ds, pg, i)[r] \in Row
    /\ \A i \in DOMAIN ds : \A c \in {0} \cup Column : TreeFiles(ds, pg, tr, i, c)

LEMMA MovedIs ==
    ASSUME NEW r
    PROVE  Moved(r)[1] = r[1] /\ Moved(r)[2] = r[2]
BY DEF Moved

LEMMA HalfIs == ASSUME NEW es \in Seq(Entry) PROVE Half(es) \in Seq(Entry)
<1>1. Len(es) \in Nat
  OBVIOUS
<1>2. Len(es) \div 2 \in Nat /\ Len(es) \div 2 <= Len(es)
  BY <1>1
<1> DEFINE n == Len(es) \div 2
<1> HIDE DEF n
<1>3. n \in 0..Len(es)
  BY <1>1, <1>2 DEF n
<1>4. SubSeq(es, 1, n) \in Seq(Entry)
  BY <1>1, <1>3
<1> QED
  BY <1>4 DEF Half, n

\* What the insertion of a row leaves of the trees: the root of each column's tree is the
\* one RootsAfter says, and trees of other columns and tables are what they were.
TreesLeft(t, old, new, entry, moves) ==
    /\ DOMAIN t = DOMAIN tree \cup {new[c] : c \in DOMAIN entry}
    /\ \A c \in DOMAIN entry : /\ t[new[c]] = Filed(tree[old[c]], entry[c])
                               /\ new[c] = IF c \in moves THEN Moved(old[c]) ELSE old[c]
                               /\ new[c][1] = old[c][1] /\ new[c][2] = c
    /\ \A c \in ({0} \cup Column) \ DOMAIN entry : new[c] = old[c]
    /\ \A r \in DOMAIN tree : r \notin {new[c] : c \in DOMAIN entry} =>
          t[r] = tree[r] \/ t[r] = Half(tree[r])
    /\ \A r \in DOMAIN tree : (\A c \in DOMAIN entry : r[1] # old[c][1] \/ r[2] # c) => t[r] = tree[r]

LEMMA TreesWithIs ==
    ASSUME NEW i, NEW entry, NEW moves \in SUBSET DOMAIN entry, slots[i] \in Desc,
           DOMAIN entry \subseteq {0} \cup Column,
           \A c \in DOMAIN entry : slots[i].roots[c] \in DOMAIN tree /\ slots[i].roots[c][2] = c
    PROVE  TreesLeft(TreesWith(i, entry, moves), slots[i].roots, RootsAfter(i, moves), entry, moves)
<1> DEFINE t   == TreesWith(i, entry, moves)
           old == slots[i].roots
           new == RootsAfter(i, moves)
           filed == {new[c] : c \in DOMAIN entry}
           left  == {old[c] : c \in moves}
<1>1. DOMAIN old = {0} \cup Column
  BY DescFields
<1>2. \A c \in {0} \cup Column : new[c] = IF c \in moves THEN Moved(old[c]) ELSE old[c]
  BY <1>1 DEF RootsAfter
<1>3. \A c \in DOMAIN entry : c \in {0} \cup Column
  OBVIOUS
<1> HIDE DEF new
<1>4. \A c \in DOMAIN entry : /\ new[c] = IF c \in moves THEN Moved(old[c]) ELSE old[c]
                              /\ new[c][1] = old[c][1] /\ new[c][2] = c
  <2> DEFINE n == new
             o == old
  <2> SUFFICES ASSUME NEW c \in DOMAIN entry
               PROVE  /\ n[c] = IF c \in moves THEN Moved(o[c]) ELSE o[c]
                      /\ n[c][1] = o[c][1] /\ n[c][2] = c
    OBVIOUS
  <2>1. n[c] = IF c \in moves THEN Moved(o[c]) ELSE o[c]
    BY <1>2, <1>3
  <2>2. o[c][2] = c
    OBVIOUS
  <2> HIDE DEF n, o
  <2>3. CASE c \in moves
    BY <2>1, <2>2, <2>3, MovedIs
  <2>4. CASE c \notin moves
    BY <2>1, <2>2, <2>4
  <2> QED
    BY <2>3, <2>4
<1>5. t = [r \in DOMAIN tree \cup filed |->
             IF r \in filed THEN Filed(tree[old[r[2]]], entry[r[2]])
             ELSE IF r \in left THEN Half(tree[r])
             ELSE tree[r]]
  <2>1. filed = {IF c \in moves THEN Moved(old[c]) ELSE old[c] : c \in DOMAIN entry}
    BY <1>4
  <2> QED
    BY <2>1, Zenon DEF TreesWith
<1> HIDE DEF t, filed, left
<1>6. DOMAIN t = DOMAIN tree \cup filed
  BY <1>5
<1>7. \A c \in DOMAIN entry : t[new[c]] = Filed(tree[old[c]], entry[c])
  <2>1. ASSUME NEW c \in DOMAIN entry PROVE t[new[c]] = Filed(tree[old[c]], entry[c])
    <3>1. new[c] \in filed /\ new[c][2] = c
      BY <1>4 DEF filed
    <3> QED
      BY <1>5, <3>1
  <2> QED
    BY <2>1
<1>8. \A r \in DOMAIN tree : r \notin filed => t[r] = tree[r] \/ t[r] = Half(tree[r])
  BY <1>5
<1>9. ASSUME NEW r \in DOMAIN tree, \A c \in DOMAIN entry : r[1] # old[c][1] \/ r[2] # c
      PROVE  t[r] = tree[r]
  <2>1. r \notin filed
    BY <1>4, <1>9 DEF filed
  <2>2. r \notin left
    BY <1>9 DEF left
  <2> QED
    BY <1>5, <2>1, <2>2
<1> QED
  BY <1>2, <1>4, <1>6, <1>7, <1>8, <1>9 DEF TreesLeft, t, new, filed

\* The descriptors insert_row leaves.
LEMMA InsertRowSlots ==
    ASSUME Inv, NEW t \in Name, NEW row \in Row, InsertRow(t, row)
    PROVE  LET i == SlotOf(t)
           IN  /\ i \in Used /\ slots[i] \in Desc /\ ~KeyTaken(i, row) /\ DOMAIN slots' = Used
               /\ \E moves \in SUBSET DOMAIN EntriesOf(i, row) :
                     /\ \A c \in moves : slots[i].roots[c][3] < MaxMoves
                     /\ tree' = TreesWith(i, EntriesOf(i, row), moves)
                     /\ RootsAfter(i, moves) \in [{0} \cup Column -> Root \cup {NoRoot}]
                     /\ \A j \in Used : /\ slots'[j].name = slots[j].name
                                        /\ slots'[j].roots = IF j = i THEN RootsAfter(i, moves) ELSE slots[j].roots
<1> DEFINE i   == SlotOf(t)
           rid == NewRowRid(i, row)
           ds  == WithHead(i, rid[1])
<1>1. Exists(t) /\ Storable(row) /\ RoomFor(i, row) /\ ~KeyTaken(i, row)
  BY DEF InsertRow, Tables
<1>2. PICK moves \in SUBSET DOMAIN EntriesOf(i, row) :
        /\ \A c \in moves : slots[i].roots[c][3] < MaxMoves
        /\ tree' = TreesWith(i, EntriesOf(i, row), moves)
        /\ slots' = RowCounted(ds, i, RootsAfter(i, moves))
  <2>1. \E moves \in SUBSET DOMAIN EntriesOf(i, row) :
           /\ \A c \in moves : slots[i].roots[c][3] < MaxMoves /\ tree[slots[i].roots[c]] # <<>>
           /\ tree' = TreesWith(i, EntriesOf(i, row), moves)
           /\ slots' = RowCounted(ds, i, RootsAfter(i, moves))
    BY Zenon DEF InsertRow
  <2> HIDE DEF ds, i
  <2> QED
    BY <2>1
<1>3. /\ i \in Used /\ slots[i] \in Desc /\ ds \in Seq(Desc) /\ DOMAIN ds = Used
      /\ \A j \in Used : ds[j].roots = slots[j].roots /\ ds[j].name = slots[j].name
  <2>1. /\ i \in Used /\ slots[i] \in Desc
        /\ ds \in Seq(Desc) /\ DOMAIN ds = Used
        /\ \A j \in Used : ds[j].heapHead \in Heads(PagesWithRow(i, row)) /\ ds[j].roots = slots[j].roots
        /\ \A j \in Used : ds[j].name = slots[j].name
    BY <1>1, RowStored
  <2> QED
    BY <2>1
<1>4. slots[i].roots[0] # NoRoot
  BY <1>3 DEF Inv, DescsOK
<1> HIDE DEF i, ds
<1>5. RootsAfter(i, moves) \in [{0} \cup Column -> Root \cup {NoRoot}]
  BY <1>2, <1>3, <1>4, RootsAfterOK
<1> DEFINE d == WithRow(ds[i], RootsAfter(i, moves))
<1>6. d \in Desc /\ d.name = ds[i].name /\ d.roots = RootsAfter(i, moves)
  <2>1. ds[i] \in Desc
    BY <1>3
  <2> QED
    BY <1>5, <2>1, NewRoots
<1>7. slots' = [ds EXCEPT ![i] = d]
  BY <1>2 DEF RowCounted
<1> HIDE DEF d
<1>8. DOMAIN slots' = Used /\ slots'[i] = d /\ \A j \in Used : j # i => slots'[j] = ds[j]
  BY <1>3, <1>6, <1>7, OneSlot
<1>9. \A j \in Used : /\ slots'[j].name = slots[j].name
                      /\ slots'[j].roots = IF j = i THEN RootsAfter(i, moves) ELSE slots[j].roots
  BY <1>3, <1>6, <1>8
<1>10. /\ i \in Used /\ slots[i] \in Desc /\ ~KeyTaken(i, row) /\ DOMAIN slots' = Used
       /\ \E ms \in SUBSET DOMAIN EntriesOf(i, row) :
             /\ \A c \in ms : slots[i].roots[c][3] < MaxMoves
             /\ tree' = TreesWith(i, EntriesOf(i, row), ms)
             /\ RootsAfter(i, ms) \in [{0} \cup Column -> Root \cup {NoRoot}]
             /\ \A j \in Used : /\ slots'[j].name = slots[j].name
                                /\ slots'[j].roots = IF j = i THEN RootsAfter(i, ms) ELSE slots[j].roots
  <2>1. ~KeyTaken(i, row)
    BY <1>1 DEF i
  <2> QED
    BY <1>2, <1>3, <1>5, <1>8, <1>9, <2>1
<1> QED
  BY <1>10, Zenon DEF i

LEMMA RowsFinite ==
    ASSUME Inv, OwnInv, NEW i \in Used
    PROVE  IsFiniteSet(DOMAIN RowsOf(slots, page, i)) /\ DOMAIN RowsOf(slots, page, i) \subseteq Rid
<1>1. scope = "tables"
  BY DEF Inv, OwnInv, Used
<1>2. PICK own, height : Parts(slots, page, own, height)
  BY <1>1 DEF OwnInv
<1>3. PagesOK(page)
  BY DEF Inv
<1> QED
  BY <1>2, <1>3, TableIs DEF Used

\* What insert_row files: an entry under the key, and one in each index of a value.
LEMMA EntriesOfIs ==
    ASSUME NEW i, NEW row \in Row, NewRowRid(i, row) \in Rid
    PROVE  LET entry == EntriesOf(i, row)
               rid   == NewRowRid(i, row)
           IN  /\ DOMAIN entry \subseteq {0} \cup Column /\ 0 \in DOMAIN entry
               /\ \A c \in Column : c \in DOMAIN entry <=> slots[i].roots[c] # NoRoot /\ IsFiled(row, c)
               /\ \A c \in DOMAIN entry : /\ IsFiled(row, c)
                                          /\ entry[c] = EntryOf(row, c, rid) /\ EntryOf(row, c, rid) \in Entry
<1> DEFINE entry == EntriesOf(i, row)
           rid   == NewRowRid(i, row)
           indexed == {c \in Column : slots[i].roots[c] # NoRoot /\ row.col[c] # Null}
<1>1. entry = [c \in {0} \cup indexed |-> EntryOf(row, c, rid)]
  BY Zenon DEF EntriesOf, EntryOf
<1> HIDE DEF entry, rid
<1>2. 0 \notin Column
  BY CatalogAssumption
<1>3. \A c \in {0} \cup indexed : EntryOf(row, c, rid) \in Entry
  <2>1. ASSUME NEW c \in {0} \cup indexed PROVE EntryOf(row, c, rid) \in Entry
    <3>1. c = 0 => row.key \in Nat
      BY CatalogAssumption
    <3>2. c # 0 => OrderKey[row.col[c]] \in Nat
      BY CatalogAssumption
    <3> DEFINE k == IF c = 0 THEN row.key ELSE OrderKey[row.col[c]]
    <3>3. k \in Nat
      BY <3>1, <3>2
    <3> HIDE DEF k
    <3>4. [key |-> k, rid |-> rid] \in Entry
      BY <3>3 DEF Entry, rid
    <3> QED
      BY <3>4 DEF EntryOf, k
  <2> QED
    BY <2>1
<1>4. /\ DOMAIN entry \subseteq {0} \cup Column /\ 0 \in DOMAIN entry
      /\ \A c \in Column : c \in DOMAIN entry <=> slots[i].roots[c] # NoRoot /\ IsFiled(row, c)
      /\ \A c \in DOMAIN entry : IsFiled(row, c)
  BY <1>1, <1>2 DEF IsFiled
<1>5. \A c \in DOMAIN entry : entry[c] = EntryOf(row, c, rid) /\ EntryOf(row, c, rid) \in Entry
  BY <1>1, <1>3
<1> QED
  BY <1>4, <1>5 DEF entry, rid

LEMMA InsertRowTrees ==
    ASSUME Inv, OwnInv, Inv', Counts(slots, page), TreesInv(slots, page, tree),
           NEW t \in Name, NEW row \in Row, InsertRow(t, row)
    PROVE  TreesInv(slots', page', tree')
<1> DEFINE i     == SlotOf(t)
           rid   == NewRowRid(i, row)
           entry == EntriesOf(i, row)
           old   == slots[i].roots
           R     == RowsOf(slots, page, i)
<1>1. PICK moves \in SUBSET DOMAIN entry :
        /\ \A c \in moves : old[c][3] < MaxMoves
        /\ tree' = TreesWith(i, entry, moves)
        /\ RootsAfter(i, moves) \in [{0} \cup Column -> Root \cup {NoRoot}]
        /\ \A j \in Used : /\ slots'[j].name = slots[j].name
                           /\ slots'[j].roots = IF j = i THEN RootsAfter(i, moves) ELSE slots[j].roots
  BY InsertRowSlots
<1>2. i \in Used /\ slots[i] \in Desc /\ ~KeyTaken(i, row) /\ DOMAIN slots' = Used
  BY InsertRowSlots
<1>3. /\ rid \in Rid /\ rid \notin DOMAIN R
      /\ RowsOf(slots', page', i) = Plus(R, rid, row)
      /\ \A j \in Used : j # i => RowsOf(slots', page', j) = RowsOf(slots, page, j)
  BY InsertRowRows DEF SameRows
<1>4. IsFiniteSet(DOMAIN R)
  BY <1>2, RowsFinite
<1>5. /\ DOMAIN entry \subseteq {0} \cup Column /\ 0 \in DOMAIN entry
      /\ \A c \in Column : c \in DOMAIN entry <=> old[c] # NoRoot /\ IsFiled(row, c)
      /\ \A c \in DOMAIN entry : /\ IsFiled(row, c)
                                 /\ entry[c] = EntryOf(row, c, rid) /\ EntryOf(row, c, rid) \in Entry
  BY <1>3, EntriesOfIs
<1>6. old[0] # NoRoot /\ old \in [{0} \cup Column -> Root \cup {NoRoot}]
  BY <1>2, DescFields DEF Inv, DescsOK
<1>7. ~HasKey(tree[old[0]], row.key)
  BY <1>2 DEF KeyTaken
<1> DEFINE new == RootsAfter(i, moves)
           tr  == tree'
           Q   == Plus(R, rid, row)
<1> HIDE DEF i, rid, R
<1>8. \A c \in {0} \cup Column : old[c] # NoRoot =>
         old[c] \in DOMAIN tree /\ old[c][1] = slots[i].name /\ old[c][2] = c /\ Files(tree[old[c]], R, c)
  BY <1>2 DEF TreesInv, TreeFiles, Used, R
<1> HIDE DEF entry
<1>9. \A c \in DOMAIN entry : c \in {0} \cup Column /\ old[c] # NoRoot
  BY <1>5, <1>6
<1>10. \A c \in DOMAIN entry : /\ old[c] \in DOMAIN tree /\ old[c] \in Root
                               /\ old[c][1] = slots[i].name /\ old[c][2] = c /\ Files(tree[old[c]], R, c)
  BY <1>6, <1>8, <1>9
<1>11. /\ DOMAIN tr = DOMAIN tree \cup {new[c] : c \in DOMAIN entry}
       /\ \A c \in DOMAIN entry : /\ tr[new[c]] = Filed(tree[old[c]], entry[c])
                                  /\ new[c] = IF c \in moves THEN Moved(old[c]) ELSE old[c]
                                  /\ new[c][1] = old[c][1] /\ new[c][2] = c
       /\ \A c \in ({0} \cup Column) \ DOMAIN entry : new[c] = old[c]
       /\ \A r \in DOMAIN tree : r \notin {new[c] : c \in DOMAIN entry} =>
             tr[r] = tree[r] \/ tr[r] = Half(tree[r])
       /\ \A r \in DOMAIN tree : (\A c \in DOMAIN entry : r[1] # old[c][1] \/ r[2] # c) => tr[r] = tree[r]
  <2>1. /\ DOMAIN entry \subseteq {0} \cup Column
        /\ \A c \in DOMAIN entry : slots[i].roots[c] \in DOMAIN tree /\ slots[i].roots[c][2] = c
    BY <1>5, <1>10
  <2>2. TreesLeft(TreesWith(i, entry, moves), old, new, entry, moves)
    BY <1>2, <2>1, TreesWithIs, Zenon
  <2>3. TreesLeft(tr, old, new, entry, moves)
    BY <1>1, <2>2, Zenon
  <2> HIDE DEF tr, old, new
  <2> QED
    BY <2>3 DEF TreesLeft
<1>12. /\ TreesTyped(tree) /\ \A j, k \in DOMAIN slots : slots[j].name = slots[k].name => j = k
       /\ \A j \in DOMAIN slots : \A r \in DOMAIN RowsOf(slots, page, j) : RowsOf(slots, page, j)[r] \in Row
       /\ \A j \in DOMAIN slots : \A c \in {0} \cup Column : TreeFiles(slots, page, tree, j, c)
  BY DEF TreesInv
<1> HIDE DEF new, tr, old
<1>13. ASSUME NEW c \in DOMAIN entry
       PROVE  new[c] \in DOMAIN tr /\ new[c] \in Root /\ Files(tr[new[c]], Q, c)
  <2>1. new[c] \in DOMAIN tr /\ tr[new[c]] = Filed(tree[old[c]], EntryOf(row, c, rid))
    BY <1>5, <1>11
  <2>2. new[c] \in Root
    BY <1>1, <1>10, <1>11, RootStep DEF old
  <2>3. c = 0 => ~HasKey(tree[old[c]], row.key)
    BY <1>7 DEF old
  <2>4. Files(Filed(tree[old[c]], EntryOf(row, c, rid)), Q, c)
    BY <1>3, <1>4, <1>5, <1>10, <2>3, FiledFiles
  <2> QED
    BY <2>1, <2>2, <2>4
<1>14. TreesTyped(tr)
  <2>1. ASSUME NEW r \in DOMAIN tr PROVE r \in Root /\ tr[r] \in Seq(Entry)
    <3>1. CASE r \in {new[c] : c \in DOMAIN entry}
      BY <1>13, <3>1 DEF Files
    <3>2. CASE r \notin {new[c] : c \in DOMAIN entry}
      <4>1. r \in DOMAIN tree /\ (tr[r] = tree[r] \/ tr[r] = Half(tree[r]))
        BY <1>11, <3>2
      <4>2. r \in Root /\ tree[r] \in Seq(Entry)
        BY <1>12, <4>1 DEF TreesTyped
      <4> QED
        BY <4>1, <4>2, HalfIs
    <3> QED
      BY <3>1, <3>2
  <2> QED
    BY <2>1 DEF TreesTyped
<1>15. ASSUME NEW c \in {0} \cup Column
       PROVE  TreeFiles(slots', page', tr, i, c)
  <2>1. slots'[i].roots[c] = new[c] /\ slots'[i].name = slots[i].name /\ RowsOf(slots', page', i) = Q
    BY <1>1, <1>2, <1>3 DEF new
  <2>2. CASE c \in DOMAIN entry
    BY <1>10, <1>11, <1>13, <2>1, <2>2 DEF TreeFiles
  <2>3. CASE c \notin DOMAIN entry
    <3>1. new[c] = old[c] /\ c # 0 /\ (old[c] # NoRoot => ~IsFiled(row, c))
      BY <1>5, <1>11, <2>3 DEF old
    <3>2. ASSUME old[c] # NoRoot
          PROVE  old[c] \in DOMAIN tr /\ tr[old[c]] = tree[old[c]] /\ Files(tree[old[c]], Q, c)
      <4>1. old[c] \in DOMAIN tree /\ old[c][2] = c /\ Files(tree[old[c]], R, c)
        BY <1>8, <3>2 DEF old
      <4>2. \A k \in DOMAIN entry : old[c][2] # k
        BY <2>3, <4>1
      <4>3. tr[old[c]] = tree[old[c]]
        BY <1>11, <4>1, <4>2
      <4> QED
        BY <1>3, <1>11, <3>1, <3>2, <4>1, <4>3, UnfiledFiles
    <3> QED
      BY <1>8, <2>1, <3>1, <3>2 DEF TreeFiles, old
  <2> QED
    BY <2>2, <2>3
<1>16. ASSUME NEW j \in Used, j # i, NEW c \in {0} \cup Column
       PROVE  TreeFiles(slots', page', tr, j, c)
  <2> DEFINE r == slots[j].roots[c]
  <2>1. slots'[j].roots[c] = r /\ slots'[j].name = slots[j].name /\ RowsOf(slots', page', j) = RowsOf(slots, page, j)
    BY <1>1, <1>3, <1>16
  <2>2. TreeFiles(slots, page, tree, j, c) /\ slots[j].name # slots[i].name
    BY <1>2, <1>12, <1>16 DEF Used
  <2>3. r # NoRoot => r \in DOMAIN tree /\ r[1] = slots[j].name /\ r[2] = c /\ Files(tree[r], RowsOf(slots, page, j), c)
    BY <2>2 DEF TreeFiles
  <2> HIDE DEF r
  <2>4. r # NoRoot => r \in DOMAIN tr /\ tr[r] = tree[r]
    BY <1>10, <1>11, <2>2, <2>3
  <2> QED
    BY <2>1, <2>3, <2>4 DEF TreeFiles
<1>17. ASSUME NEW j \in Used, NEW r \in DOMAIN RowsOf(slots', page', j)
       PROVE  RowsOf(slots', page', j)[r] \in Row
  <2>1. CASE j = i
    BY <1>2, <1>3, <1>12, <1>17, <2>1 DEF Plus, Used, R
  <2>2. CASE j # i
    BY <1>3, <1>12, <1>17, <2>2 DEF Used
  <2> QED
    BY <2>1, <2>2
<1>18. \A j, k \in Used : slots'[j].name = slots'[k].name => j = k
  BY <1>1, <1>12 DEF Used
<1>19. \A j \in Used : \A c \in {0} \cup Column : TreeFiles(slots', page', tr, j, c)
  BY <1>15, <1>16
<1> QED
  BY <1>2, <1>14, <1>17, <1>18, <1>19 DEF TreesInv, tr

\* When the rows, the names and the roots are what they were.
LEMMA TreesKept ==
    ASSUME TreesInv(slots, page, tree), tree' = tree, DOMAIN slots' = DOMAIN slots,
           \A i \in DOMAIN slots : /\ slots'[i].name = slots[i].name /\ slots'[i].roots = slots[i].roots
                                   /\ SameRows(slots', page', i)
    PROVE  TreesInv(slots', page', tree')
BY DEF TreesInv, TreeFiles, SameRows

LEMMA RefuseRowSlots ==
    ASSUME Inv, NEW t \in Name, NEW row \in Row, RefuseRow(t, row)
    PROVE  /\ DOMAIN slots' = Used
           /\ \A j \in Used : slots'[j].roots = slots[j].roots /\ slots'[j].name = slots[j].name
<1> DEFINE i  == SlotOf(t)
           ds == WithHead(i, NewRowRid(i, row)[1])
<1>1. Exists(t) /\ Storable(row) /\ RoomFor(i, row) /\ slots' = ds
  BY DEF RefuseRow, Tables
<1>2. /\ DOMAIN ds = Used
      /\ \A j \in Used : ds[j].heapHead \in Heads(PagesWithRow(i, row)) /\ ds[j].roots = slots[j].roots
      /\ \A j \in Used : ds[j].name = slots[j].name
  BY <1>1, RowStored
<1> HIDE DEF ds
<1> QED
  BY <1>1, <1>2

LEMMA RefuseRowTrees ==
    ASSUME Inv, OwnInv, Inv', Counts(slots, page), TreesInv(slots, page, tree),
           NEW t \in Name, NEW row \in Row, RefuseRow(t, row)
    PROVE  TreesInv(slots', page', tree')
<1>1. tree' = tree
  BY DEF RefuseRow
<1>2. /\ DOMAIN slots' = Used
      /\ \A j \in Used : slots'[j].roots = slots[j].roots /\ slots'[j].name = slots[j].name
  BY RefuseRowSlots
<1>3. \A j \in Used : SameRows(slots', page', j)
  BY RefuseRowRows
<1> QED
  BY <1>1, <1>2, <1>3, TreesKept DEF Used

\* create_table: the new table, last of all, has its own tree and no row.
LEMMA CreateTableRows ==
    ASSUME Inv, NEW t \in Name, CreateTable(t)
    PROVE  LET n == Len(slots) + 1
           IN  /\ DOMAIN slots' = DOMAIN slots \cup {n} /\ n \notin DOMAIN slots
               /\ slots'[n].name = t /\ slots'[n].roots[0] = <<t, 0, 0>>
               /\ \A c \in Column : slots'[n].roots[c] = NoRoot
               /\ DOMAIN RowsOf(slots', page', n) = {}
               /\ \A j \in DOMAIN slots : slots'[j] = slots[j] /\ slots[j].name # t
               /\ \A j \in DOMAIN slots : RowsOf(slots', page', j) = RowsOf(slots, page, j)
<1> DEFINE root  == <<t, 0, 0>>
           roots == [c \in {0} \cup Column |-> IF c = 0 THEN root ELSE NoRoot]
           new   == [name |-> t, heapHead |-> NoPage, rows |-> 0, heapPages |-> 0, roots |-> roots]
           n     == Len(slots) + 1
<1>1. ~Exists(t) /\ slots' = Append(slots, new) /\ page' = page
  BY DEF CreateTable
<1> HIDE DEF root
<1>2. new.name = t /\ new.heapHead = NoPage /\ new.roots = roots /\ roots[0] = root
      /\ \A c \in Column : roots[c] = NoRoot
  <2>1. 0 \notin Column
    BY CatalogAssumption
  <2> QED
    BY <2>1
<1>3. slots \in Seq(Desc)
  BY DEF Inv, DescsOK
<1> HIDE DEF new, roots
<1>4. /\ DOMAIN slots' = DOMAIN slots \cup {n} /\ n \notin DOMAIN slots /\ slots'[n] = new
      /\ \A j \in DOMAIN slots : slots'[j] = slots[j]
  BY <1>1, <1>3
<1> HIDE DEF n
<1>5. \A j \in DOMAIN slots : slots[j].name # t
  BY <1>1 DEF Exists, Used
<1>6. DOMAIN RowsOf(slots', page', n) = {}
  <2>1. ChainIn(NoPage, page) = {}
    BY NoPagesInOrder, ChainIs DEF NoPage
  <2>2. LiveIn(NoPage, page) = {}
    BY <2>1 DEF LiveIn
  <2> QED
    BY <1>1, <1>2, <1>4, <2>2 DEF RowsOf
<1>7. \A j \in DOMAIN slots : RowsOf(slots', page', j) = RowsOf(slots, page, j)
  BY <1>1, <1>4 DEF RowsOf
<1> QED
  BY <1>2, <1>4, <1>5, <1>6, <1>7 DEF n, root

LEMMA CreateTableTrees ==
    ASSUME Inv, TreesInv(slots, page, tree), NEW t \in Name, CreateTable(t)
    PROVE  TreesInv(slots', page', tree')
<1> DEFINE root == <<t, 0, 0>>
           n    == Len(slots) + 1
           tr   == TreeUnder(tree, root, <<>>)
<1>1. tree' = tr
  BY DEF CreateTable
<1>2. root \in Root /\ root # NoRoot /\ root[1] = t /\ root[2] = 0
  BY Planted
<1>3. /\ DOMAIN slots' = DOMAIN slots \cup {n} /\ n \notin DOMAIN slots
      /\ slots'[n].name = t /\ slots'[n].roots[0] = root
      /\ \A c \in Column : slots'[n].roots[c] = NoRoot
      /\ DOMAIN RowsOf(slots', page', n) = {}
      /\ \A j \in DOMAIN slots : slots'[j] = slots[j] /\ slots[j].name # t
      /\ \A j \in DOMAIN slots : RowsOf(slots', page', j) = RowsOf(slots, page, j)
  BY CreateTableRows
<1> HIDE DEF root
<1>4. /\ DOMAIN tr = DOMAIN tree \cup {root} /\ tr[root] = <<>>
      /\ \A q \in DOMAIN tree : q # root => tr[q] = tree[q]
  BY DEF TreeUnder
<1> HIDE DEF tr, n
<1>5. /\ TreesTyped(tree) /\ \A j, k \in DOMAIN slots : slots[j].name = slots[k].name => j = k
      /\ \A j \in DOMAIN slots : \A r \in DOMAIN RowsOf(slots, page, j) : RowsOf(slots, page, j)[r] \in Row
      /\ \A j \in DOMAIN slots : \A c \in {0} \cup Column : TreeFiles(slots, page, tree, j, c)
  BY DEF TreesInv
<1>6. TreesTyped(tr)
  <2>1. <<>> \in Seq(Entry)
    OBVIOUS
  <2>2. ASSUME NEW r \in DOMAIN tr PROVE r \in Root /\ tr[r] \in Seq(Entry)
    <3>1. CASE r = root
      BY <1>2, <1>4, <2>1, <3>1
    <3>2. CASE r # root
      <4>1. r \in DOMAIN tree /\ tr[r] = tree[r]
        BY <1>4, <3>2
      <4> QED
        BY <1>5, <4>1 DEF TreesTyped
    <3> QED
      BY <3>1, <3>2
  <2> QED
    BY <2>2 DEF TreesTyped
<1>7. ASSUME NEW c \in {0} \cup Column PROVE TreeFiles(slots', page', tr, n, c)
  <2>1. CASE c = 0
    <3>1. Files(<<>>, RowsOf(slots', page', n), c)
      BY <1>3, NoneFiles
    <3> QED
      BY <1>2, <1>3, <1>4, <2>1, <3>1 DEF TreeFiles
  <2>2. CASE c \in Column
    BY <1>3, <2>2 DEF TreeFiles
  <2> QED
    BY <2>1, <2>2
<1>8. ASSUME NEW j \in DOMAIN slots, NEW c \in {0} \cup Column PROVE TreeFiles(slots', page', tr, j, c)
  <2> DEFINE r == slots[j].roots[c]
  <2>1. TreeFiles(slots, page, tree, j, c)
    BY <1>5
  <2>2. r # NoRoot => r \in DOMAIN tree /\ r[1] = slots[j].name /\ r[2] = c /\ Files(tree[r], RowsOf(slots, page, j), c)
    BY <2>1 DEF TreeFiles
  <2>3. slots'[j].roots[c] = r /\ slots'[j].name = slots[j].name
    BY <1>3
  <2> HIDE DEF r
  <2>4. r # NoRoot => r # root
    BY <1>2, <1>3, <2>2
  <2> QED
    BY <1>3, <1>4, <2>2, <2>3, <2>4 DEF TreeFiles
<1>9. \A j, k \in DOMAIN slots' : slots'[j].name = slots'[k].name => j = k
  BY <1>3, <1>5
<1>10. \A j \in DOMAIN slots' : \A r \in DOMAIN RowsOf(slots', page', j) : RowsOf(slots', page', j)[r] \in Row
  BY <1>3, <1>5
<1>11. \A j \in DOMAIN slots' : \A c \in {0} \cup Column : TreeFiles(slots', page', tr, j, c)
  BY <1>3, <1>7, <1>8
<1> QED
  BY <1>1, <1>6, <1>9, <1>10, <1>11 DEF TreesInv

\* The new index's root, and no other, has changed.
OnlyRoot(i, c, root) ==
    /\ slots'[i].roots[c] = root
    /\ \A j \in DOMAIN slots : \A k \in {0} \cup Column :
          j # i \/ k # c => slots'[j].roots[k] = slots[j].roots[k]

\* create_index: the rows are what they were.
LEMMA CreateIndexRows ==
    ASSUME Inv, NEW t \in Name, NEW c \in Column, CreateIndex(t, c)
    PROVE  LET i == SlotOf(t)
           IN  /\ i \in DOMAIN slots /\ slots[i].name = t /\ slots[i] \in Desc
               /\ DOMAIN slots' = DOMAIN slots
               /\ \A j \in DOMAIN slots : slots'[j].name = slots[j].name /\ SameRows(slots', page', j)
               /\ \A root : slots' = [slots EXCEPT ![i].roots[c] = root] => OnlyRoot(i, c, root)
<1> DEFINE i == SlotOf(t)
<1>1. page' = page /\ Exists(t) /\ \E root : slots' = [slots EXCEPT ![i].roots[c] = root]
  BY DEF CreateIndex
<1>2. i \in DOMAIN slots /\ slots[i].name = t
  BY <1>1, SlotIs DEF Used
<1>3. slots[i] \in Desc
  BY <1>2 DEF Inv, DescsOK
<1> HIDE DEF i
<1>4. ASSUME NEW root, slots' = [slots EXCEPT ![i].roots[c] = root]
      PROVE  /\ DOMAIN slots' = DOMAIN slots /\ slots'[i].roots[c] = root
             /\ \A j \in DOMAIN slots : /\ slots'[j].name = slots[j].name
                                        /\ slots'[j].heapHead = slots[j].heapHead
                                        /\ \A k \in {0} \cup Column :
                                              j # i \/ k # c => slots'[j].roots[k] = slots[j].roots[k]
  <2> DEFINE rs == [slots[i].roots EXCEPT ![c] = root]
             d  == [slots[i] EXCEPT !.roots = rs]
  <2>1. slots[i].roots \in [{0} \cup Column -> Root \cup {NoRoot}]
    BY <1>3, DescFields
  <2>2. rs[c] = root /\ \A k \in {0} \cup Column : k # c => rs[k] = slots[i].roots[k]
    BY <2>1
  <2>3. slots' = [slots EXCEPT ![i] = d]
    BY <1>4
  <2> HIDE DEF rs
  <2>4. d.heapHead = slots[i].heapHead /\ d.name = slots[i].name /\ d.roots = rs
    BY <1>3 DEF Desc
  <2> HIDE DEF d
  <2>5. /\ DOMAIN slots' = DOMAIN slots /\ slots'[i] = d
        /\ \A j \in DOMAIN slots : j # i => slots'[j] = slots[j]
    BY <1>2, <2>3
  <2> QED
    BY <1>2, <2>2, <2>4, <2>5
<1>5. /\ DOMAIN slots' = DOMAIN slots
      /\ \A j \in DOMAIN slots : slots'[j].name = slots[j].name /\ slots'[j].heapHead = slots[j].heapHead
  BY <1>1, <1>4
<1>6. \A j \in DOMAIN slots : SameRows(slots', page', j)
  BY <1>1, <1>5 DEF SameRows, RowsOf
<1>7. \A root : slots' = [slots EXCEPT ![i].roots[c] = root] => OnlyRoot(i, c, root)
  BY <1>4 DEF OnlyRoot
<1> QED
  BY <1>2, <1>3, <1>5, <1>6, <1>7 DEF i

LEMMA CreateIndexTrees ==
    ASSUME Inv, OwnInv, TreesInv(slots, page, tree), NEW t \in Name, NEW c \in Column, CreateIndex(t, c)
    PROVE  TreesInv(slots', page', tree')
<1> DEFINE i       == SlotOf(t)
           planted == <<t, c, 0>>
           E       == EntriesFor(i, c)
           R       == RowsOf(slots, page, i)
           own     == tree[slots[i].roots[0]]
<1>1. i \in DOMAIN slots /\ slots[i].name = t /\ slots[i] \in Desc /\ DOMAIN slots' = DOMAIN slots
  BY CreateIndexRows
<1>2. \A j \in DOMAIN slots : RowsOf(slots', page', j) = RowsOf(slots, page, j) /\ slots'[j].name = slots[j].name
  BY CreateIndexRows DEF SameRows
<1>3. slots[i].roots[0] # NoRoot
  BY <1>1 DEF Inv, DescsOK, Used
<1>4. planted \in Root /\ planted # NoRoot /\ planted[1] = t /\ planted[2] = c /\ planted[3] = 0
  BY Planted
<1>5. \E moved \in BOOLEAN :
         LET root == IF moved THEN Moved(planted) ELSE planted
         IN  /\ moved => MaxMoves > 0 /\ E # <<>>
             /\ tree' = TreeUnder(TreeUnder(tree, planted, Half(E)), root, E)
             /\ slots' = [slots EXCEPT ![i].roots[c] = root]
  BY Zenon DEF CreateIndex
<1>6. /\ TreesTyped(tree) /\ \A j, k \in DOMAIN slots : slots[j].name = slots[k].name => j = k
      /\ \A j \in DOMAIN slots : \A r \in DOMAIN RowsOf(slots, page, j) : RowsOf(slots, page, j)[r] \in Row
      /\ \A j \in DOMAIN slots : \A k \in {0} \cup Column : TreeFiles(slots, page, tree, j, k)
  BY DEF TreesInv
<1>7. c \in Nat \ {0} /\ c # 0
  BY CatalogAssumption
<1>8. Files(E, R, c)
  <2>1. Files(own, R, 0)
    BY <1>1, <1>3, <1>6 DEF TreeFiles
  <2>2. IsFiniteSet(DOMAIN R) /\ DOMAIN R \subseteq Rid
    BY <1>1, RowsFinite DEF Used
  <2>3. R = [r \in DOMAIN R |-> R[r]] /\ \A r \in DOMAIN R : R[r] = ReadSlot(page[r[1]], r[2])[1]
    BY DEF RowsOf
  <2>4. \A r \in DOMAIN R : R[r] \in Row
    BY <1>1, <1>6
  <2>5. \A r \in DOMAIN R : R[r].col[c] # Null => OrderKey[R[r].col[c]] \in Nat
    BY <2>4, CatalogAssumption
  <2> HIDE DEF R, i
  <2> QED
    BY <1>7, <2>1, <2>2, <2>3, <2>5, EntriesForFiles
<1> HIDE DEF planted, E
<1>9. PICK root : /\ root = planted \/ (MaxMoves > 0 /\ root = Moved(planted))
                  /\ tree' = TreeUnder(TreeUnder(tree, planted, Half(E)), root, E)
                  /\ slots' = [slots EXCEPT ![i].roots[c] = root]
  BY <1>5
<1>10. root \in Root /\ root # NoRoot /\ root[1] = t /\ root[2] = c
  BY <1>4, <1>9, RootStep, MovedIs
<1>11. /\ slots'[i].roots[c] = root
       /\ \A j \in DOMAIN slots : \A k \in {0} \cup Column :
             j # i \/ k # c => slots'[j].roots[k] = slots[j].roots[k]
  <2>1. OnlyRoot(i, c, root)
    BY <1>9, CreateIndexRows, Zenon
  <2> QED
    BY <2>1 DEF OnlyRoot
<1> DEFINE tr == tree'
<1> HIDE DEF i
<1>12. /\ DOMAIN tr = DOMAIN tree \cup {planted, root} /\ tr[root] = E
       /\ planted # root => tr[planted] = Half(E)
       /\ \A q \in DOMAIN tree : q # root /\ q # planted => tr[q] = tree[q]
  <2> DEFINE mid == TreeUnder(tree, planted, Half(E))
  <2>1. /\ DOMAIN mid = DOMAIN tree \cup {planted} /\ mid[planted] = Half(E)
        /\ \A q \in DOMAIN tree : q # planted => mid[q] = tree[q]
    BY DEF TreeUnder
  <2>2. tr = TreeUnder(mid, root, E)
    BY <1>9
  <2> HIDE DEF mid, tr
  <2>3. /\ DOMAIN TreeUnder(mid, root, E) = DOMAIN mid \cup {root}
        /\ TreeUnder(mid, root, E)[root] = E
        /\ \A q \in DOMAIN mid : q # root => TreeUnder(mid, root, E)[q] = mid[q]
    BY DEF TreeUnder
  <2> QED
    BY <2>1, <2>2, <2>3
<1> HIDE DEF tr, R
<1>13. TreesTyped(tr)
  <2>1. E \in Seq(Entry) /\ Half(E) \in Seq(Entry)
    BY <1>8, HalfIs DEF Files
  <2>2. ASSUME NEW r \in DOMAIN tr PROVE r \in Root /\ tr[r] \in Seq(Entry)
    <3>1. CASE r = root
      BY <1>10, <1>12, <2>1, <3>1
    <3>2. CASE r # root /\ r = planted
      BY <1>4, <1>12, <2>1, <3>2
    <3>3. CASE r # root /\ r # planted
      <4>1. r \in DOMAIN tree /\ tr[r] = tree[r]
        BY <1>12, <3>3
      <4> QED
        BY <1>6, <4>1 DEF TreesTyped
    <3> QED
      BY <3>1, <3>2, <3>3
  <2> QED
    BY <2>2 DEF TreesTyped
<1>14. ASSUME NEW j \in DOMAIN slots, NEW k \in {0} \cup Column PROVE TreeFiles(slots', page', tr, j, k)
  <2>1. CASE j = i /\ k = c
    <3>1. slots'[j].roots[k] = root /\ RowsOf(slots', page', j) = R
      BY <1>1, <1>2, <1>11, <2>1 DEF R
    <3> QED
      BY <1>1, <1>2, <1>8, <1>10, <1>12, <2>1, <3>1 DEF TreeFiles
  <2>2. CASE j # i \/ k # c
    <3> DEFINE r == slots[j].roots[k]
    <3>1. slots'[j].roots[k] = r
      BY <1>11, <2>2
    <3>2. TreeFiles(slots, page, tree, j, k)
      BY <1>6
    <3>3. r # NoRoot => r \in DOMAIN tree /\ r[1] = slots[j].name /\ r[2] = k /\ Files(tree[r], RowsOf(slots, page, j), k)
      BY <3>2 DEF TreeFiles
    <3> HIDE DEF r
    <3>4. j # i => slots[j].name # t
      BY <1>1, <1>6
    <3>5. r # NoRoot => r \in DOMAIN tr /\ tr[r] = tree[r]
      BY <1>4, <1>10, <1>12, <2>2, <3>3, <3>4
    <3> QED
      BY <1>2, <3>1, <3>3, <3>5 DEF TreeFiles
  <2> QED
    BY <2>1, <2>2
<1>15. /\ \A j, k \in DOMAIN slots' : slots'[j].name = slots'[k].name => j = k
       /\ \A j \in DOMAIN slots' : \A r \in DOMAIN RowsOf(slots', page', j) : RowsOf(slots', page', j)[r] \in Row
  BY <1>1, <1>2, <1>6
<1> QED
  BY <1>1, <1>13, <1>14, <1>15 DEF TreesInv, tr

LEMMA NextTrees ==
    ASSUME Inv, OwnInv, Inv', Counts(slots, page), TreesInv(slots, page, tree), [CatalogNext]_vars
    PROVE  TreesInv(slots', page', tree')
<1>1. ASSUME UNCHANGED <<page, slots, tree>> PROVE TreesInv(slots', page', tree')
  BY <1>1
<1>2. CASE PlainHeap
  <2>1. slots = <<>> /\ slots' = slots /\ tree' = tree
    BY <1>2 DEF PlainHeap, OwnInv
  <2>2. TreesTyped(tree)
    BY DEF TreesInv
  <2> QED
    BY <2>1, <2>2 DEF TreesInv
<1>3. ASSUME NEW t \in Name, CreateTable(t) PROVE TreesInv(slots', page', tree')
  BY <1>3, CreateTableTrees
<1>4. ASSUME NEW t \in Name, NEW c \in Column, CreateIndex(t, c) PROVE TreesInv(slots', page', tree')
  BY <1>4, CreateIndexTrees
<1>5. ASSUME NEW t \in Name, NEW row \in Row, InsertRow(t, row) PROVE TreesInv(slots', page', tree')
  BY <1>5, InsertRowTrees
<1>6. ASSUME NEW t \in Name, NEW row \in Row, RefuseRow(t, row) PROVE TreesInv(slots', page', tree')
  BY <1>6, RefuseRowTrees
<1>7. ASSUME NEW t \in Name, RefuseTable(t) PROVE TreesInv(slots', page', tree')
  BY <1>1, <1>7 DEF RefuseTable
<1>8. ASSUME NEW t \in Name, NEW row \in Row, RefuseLong(t, row) PROVE TreesInv(slots', page', tree')
  BY <1>1, <1>8 DEF RefuseLong
<1>9. ASSUME NEW t \in Name, NEW c \in Column, RefuseIndex(t, c) PROVE TreesInv(slots', page', tree')
  BY <1>1, <1>9 DEF RefuseIndex
<1>10. CASE UNCHANGED vars
  BY <1>1, <1>10 DEF vars
<1> QED
  BY <1>2, <1>3, <1>4, <1>5, <1>6, <1>7, <1>8, <1>9, <1>10 DEF CatalogNext

LEMMA InitTrees == Init => TreesInv(slots, page, tree)
<1> SUFFICES ASSUME Init PROVE TreesInv(slots, page, tree)
  OBVIOUS
<1>1. DOMAIN slots = {} /\ DOMAIN tree = {}
  BY DEF Init
<1> QED
  BY <1>1 DEF TreesInv, TreesTyped

\* The rows of table i, as IndexesAgree reads them.
LEMMA RowsHere ==
    ASSUME NEW i
    PROVE  RowsOf(slots, page, i) = [r \in Live(HeadOf(i)) |-> RowAt(r)]
<1>1. Live(HeadOf(i)) = LiveIn(slots[i].heapHead, page)
  BY DEF Live, Rids, Chain, LiveIn, ChainIn, HeadOf
<1> QED
  BY <1>1 DEF RowsOf, RowAt

LEMMA FilesAgree ==
    ASSUME NEW es, NEW R, NEW c, Files(es, R, c)
    PROVE  /\ ToSet(es) = {EntryOf(R[r], c, r) : r \in FiledOf(R, c)}
           /\ Len(es) = Cardinality(FiledOf(R, c))
           /\ \A j \in 1..Len(es)-1 : es[j].key <= es[j+1].key
           /\ c = 0 => \A j \in 1..Len(es)-1 : es[j].key < es[j+1].key
<1>1. Len(es) \in Nat /\ DOMAIN es = 1..Len(es)
  BY EntriesAre DEF Files
<1>2. \A n \in DOMAIN es : es[n].rid \in FiledOf(R, c) /\ es[n] = EntryOf(R[es[n].rid], c, es[n].rid)
  BY DEF Files
<1>3. \A r \in FiledOf(R, c) : \E n \in DOMAIN es : es[n].rid = r
  BY DEF Files
<1>4. ToSet(es) = {es[n] : n \in DOMAIN es}
  BY DEF ToSet
<1>5. ToSet(es) = {EntryOf(R[r], c, r) : r \in FiledOf(R, c)}
  <2>1. \A n \in DOMAIN es : es[n] \in {EntryOf(R[r], c, r) : r \in FiledOf(R, c)}
    BY <1>2
  <2>2. \A r \in FiledOf(R, c) : EntryOf(R[r], c, r) \in {es[n] : n \in DOMAIN es}
    BY <1>2, <1>3
  <2> QED
    BY <1>4, <2>1, <2>2
<1>6. \A j \in 1..Len(es)-1 : j \in DOMAIN es /\ j + 1 \in DOMAIN es /\ j < j + 1
  BY <1>1
<1>7. \A j \in 1..Len(es)-1 : es[j].key <= es[j+1].key /\ (c = 0 => es[j].key < es[j+1].key)
  BY <1>6 DEF Files
<1>8. Len(es) = Cardinality(FiledOf(R, c))
  BY DEF Files
<1> QED
  BY <1>5, <1>7, <1>8

LEMMA TreesAgree ==
    ASSUME Inv, TreesInv(slots, page, tree)
    PROVE  IndexesAgree
<1> SUFFICES ASSUME NEW i \in Used, NEW c \in DOMAIN slots[i].roots, slots[i].roots[c] # NoRoot
             PROVE  LET es    == tree[slots[i].roots[c]]
                        filed == {r \in Live(HeadOf(i)) : c = 0 \/ RowAt(r).col[c] # Null}
                    IN  /\ ToSet(es) = {[key |-> IF c = 0 THEN RowAt(r).key ELSE OrderKey[RowAt(r).col[c]],
                                         rid |-> r] : r \in filed}
                        /\ Len(es) = Cardinality(filed)
                        /\ \A j \in 1..Len(es)-1 : es[j].key <= es[j+1].key
                        /\ c = 0 => \A j \in 1..Len(es)-1 : es[j].key < es[j+1].key
  BY Zenon DEF IndexesAgree
<1> DEFINE es    == tree[slots[i].roots[c]]
           filed == {r \in Live(HeadOf(i)) : c = 0 \/ RowAt(r).col[c] # Null}
           R     == RowsOf(slots, page, i)
<1>1. c \in {0} \cup Column
  <2>1. slots[i] \in Desc
    BY DEF Inv, DescsOK, Used
  <2> QED
    BY <2>1, DescFields
<1>2. Files(es, R, c)
  BY <1>1 DEF TreesInv, TreeFiles, Used
<1>3. R = [r \in Live(HeadOf(i)) |-> RowAt(r)]
  BY RowsHere
<1> HIDE DEF R, es
<1>4. FiledOf(R, c) = filed
  BY <1>3 DEF FiledOf, IsFiled
<1>5. {EntryOf(R[r], c, r) : r \in FiledOf(R, c)}
        = {[key |-> IF c = 0 THEN RowAt(r).key ELSE OrderKey[RowAt(r).col[c]], rid |-> r] : r \in filed}
  <2>1. \A r \in filed : R[r] = RowAt(r)
    BY <1>3
  <2> QED
    BY <1>4, <2>1 DEF EntryOf
<1> HIDE DEF filed
<1>6. /\ ToSet(es) = {EntryOf(R[r], c, r) : r \in FiledOf(R, c)}
      /\ Len(es) = Cardinality(FiledOf(R, c))
      /\ \A j \in 1..Len(es)-1 : es[j].key <= es[j+1].key
      /\ c = 0 => \A j \in 1..Len(es)-1 : es[j].key < es[j+1].key
  BY <1>2, FilesAgree
<1> QED
  BY <1>4, <1>5, <1>6 DEF es, filed

\* The invariant of the trees: what a descriptor records is a tree that files the table's
\* rows under this column, wherever roots have moved.
TablesInv == Inv /\ OwnInv /\ CountsExact /\ TreesInv(slots, page, tree)

LEMMA TablesInvHolds == Spec => []TablesInv
<1>1. Init => TablesInv
  <2>1. Init => CountsExact
    BY DEF Init, CountsExact, Used
  <2> QED
    BY <2>1, InitInv, InitOwned, InitTrees DEF TablesInv
<1>2. TablesInv /\ [CatalogNext]_vars => TablesInv'
  <2> SUFFICES ASSUME TablesInv, [CatalogNext]_vars PROVE TablesInv'
    OBVIOUS
  <2>1. Inv /\ OwnInv /\ Counts(slots, page) /\ TreesInv(slots, page, tree)
    BY CountsAre DEF TablesInv
  <2>2. Inv' /\ OwnInv'
    BY <2>1, NextInv, NextOwned
  <2>3. Counts(slots', page') /\ TreesInv(slots', page', tree')
    BY <2>1, <2>2, NextCounts, NextTrees
  <2> QED
    BY <2>2, <2>3, CountsAre DEF TablesInv
<1> QED
  BY <1>1, <1>2, PTL DEF Spec

\* Every row of a table is filed once in the table's own tree and once in each index of one
\* of its values that is not NULL, nothing else is, and in order, at the root the descriptor
\* records: after any insertions and refusals, and indexes made over rows there were, however
\* often roots and heads have moved (catalog.cpp:188-228, 343-372).
THEOREM CatalogIndexesAgree == Spec => []IndexesAgree
<1>1. TablesInv => IndexesAgree
  BY TreesAgree DEF TablesInv
<1> QED
  BY <1>1, TablesInvHolds, PTL

\* The catalog page holds descriptors, whose heads and roots are pages and roots there are;
\* trees hold entries; and the root of the meta page is one that was planted.
THEOREM CatalogType == Spec => []TypeOK
<1> DEFINE Legacy == legacyRoot \in Root \cup {NoRoot}
<1>1. Init => Legacy
  BY DEF Init
<1>2. Legacy /\ [CatalogNext]_vars => Legacy'
  <2> SUFFICES ASSUME Legacy, [CatalogNext]_vars PROVE Legacy'
    OBVIOUS
  <2>1. ASSUME NEW t \in Name, CreateTable(t) PROVE Legacy'
    BY <2>1, Planted DEF CreateTable
  <2>2. ASSUME NEW t \in Name, NEW c \in Column, CreateIndex(t, c) PROVE Legacy'
    BY <2>2, Planted DEF CreateIndex
  <2>3. ASSUME UNCHANGED legacyRoot PROVE Legacy'
    BY <2>3
  <2> QED
    BY <2>1, <2>2, <2>3 DEF CatalogNext, PlainHeap, RefuseTable, InsertRow, RefuseRow, RefuseLong, RefuseIndex, vars
<1>3. TablesInv /\ Legacy => TypeOK
  <2> SUFFICES ASSUME TablesInv, Legacy PROVE TypeOK
    OBVIOUS
  <2>1. Inv /\ TreesInv(slots, page, tree)
    BY DEF TablesInv
  <2>2. scope \in {"heap", "tables"} /\ \A i \in Used : slots[i] \in Desc
    BY <2>1 DEF Inv, DescsOK, Used
  <2>3. head \in DOMAIN page \cup {NoPage}
    <3>1. head \in Pages \cup {NoPage} /\ 1..head \subseteq DOMAIN page
      BY <2>1 DEF Inv, InOrder
    <3>2. head \in Pages => head \in 1..head
      BY HeapAssumption DEF Pages
    <3> QED
      BY <3>1, <3>2
  <2>4. \A p \in DOMAIN page : p \in Pages /\ page[p] \in Page
    BY <2>1 DEF Inv, PagesOK, Sound
  <2>5. \A r \in DOMAIN tree : r \in Root /\ tree[r] \in Seq(Entry)
    BY <2>1 DEF TreesInv, TreesTyped
  <2> QED
    BY <2>2, <2>3, <2>4, <2>5 DEF TypeOK
<1> QED
  BY <1>1, <1>2, <1>3, TablesInvHolds, PTL DEF Spec
-----------------------------------------------------------------------------
(* What the tables promise.                                                *)

\* The map that is read through a table's own tree.
MapIn(es, pg) == [k \in {es[j].key : j \in DOMAIN es} |->
                     LET rid == es[Min({j \in DOMAIN es : es[j].key = k})].rid
                     IN  ReadSlot(pg[rid[1]], rid[2])[1]]

OwnTree(ds, tr, t) == tr[ds[CHOOSE i \in DOMAIN ds : ds[i].name = t].roots[0]]
ContentIn(ds, pg, tr) == [t \in {ds[i].name : i \in DOMAIN ds} |-> MapIn(OwnTree(ds, tr, t), pg)]

\* It is the map of rows R by their keys.
Maps(M, R) ==
    /\ M = [k \in DOMAIN M |-> M[k]]
    /\ \A k \in DOMAIN M : \E r \in DOMAIN R : R[r].key = k
    /\ \A r \in DOMAIN R : R[r].key \in DOMAIN M /\ M[R[r].key] = R[r]

LEMMA ContentsAre == /\ Content = ContentIn(slots, page, tree)
                     /\ Content' = ContentIn(slots', page', tree')
BY Zenon DEF Content, ContentIn, OwnTree, MapIn, RowAt, SlotOf, Used

LEMMA MapIs ==
    ASSUME NEW es, NEW R, Files(es, R, 0), NEW pg,
           \A r \in DOMAIN R : R[r] = ReadSlot(pg[r[1]], r[2])[1]
    PROVE  Maps(MapIn(es, pg), R)
<1> DEFINE K == {es[j].key : j \in DOMAIN es}
           At(k) == Min({j \in DOMAIN es : es[j].key = k})
           M == MapIn(es, pg)
<1>1. /\ Len(es) \in Nat /\ DOMAIN es = 1..Len(es)
      /\ \A n \in DOMAIN es : es[n].key \in Nat
  BY EntriesAre DEF Files
<1>2. FiledOf(R, 0) = DOMAIN R
  BY DEF FiledOf, IsFiled
<1>3. /\ \A n \in DOMAIN es : es[n].rid \in DOMAIN R /\ es[n].key = R[es[n].rid].key
      /\ \A r \in DOMAIN R : \E n \in DOMAIN es : es[n].rid = r
  BY <1>2 DEF Files, EntryOf
<1>4. \A m, n \in DOMAIN es : m < n => es[m].key < es[n].key
  BY DEF Files
<1>5. ASSUME NEW n \in DOMAIN es PROVE At(es[n].key) = n
  <2> DEFINE T == {j \in DOMAIN es : es[j].key = es[n].key}
  <2>1. T \in SUBSET Nat /\ n \in T
    BY <1>1
  <2>2. Min(T) \in T
    BY <2>1, MinIs
  <2>3. \A m \in T : m = n
    BY <1>1, <1>4
  <2> QED
    BY <2>2, <2>3
<1>6. M = [k \in K |-> ReadSlot(pg[es[At(k)].rid[1]], es[At(k)].rid[2])[1]]
  BY DEF MapIn
<1> HIDE DEF At, M
<1>7. \A n \in DOMAIN es : es[n].key \in K /\ M[es[n].key] = R[es[n].rid]
  <2>1. ASSUME NEW n \in DOMAIN es PROVE es[n].key \in K /\ M[es[n].key] = R[es[n].rid]
    <3>1. es[n].key \in K
      OBVIOUS
    <3> HIDE DEF K
    <3>2. M[es[n].key] = ReadSlot(pg[es[n].rid[1]], es[n].rid[2])[1]
      BY <1>5, <1>6, <3>1
    <3> QED
      BY <1>3, <3>1, <3>2
  <2> QED
    BY <2>1
<1>8. M = [k \in DOMAIN M |-> M[k]] /\ DOMAIN M = K
  BY <1>6
<1>9. \A k \in DOMAIN M : \E r \in DOMAIN R : R[r].key = k
  BY <1>3, <1>8
<1>10. \A r \in DOMAIN R : R[r].key \in DOMAIN M /\ M[R[r].key] = R[r]
  BY <1>3, <1>7, <1>8
<1> QED
  BY <1>8, <1>9, <1>10 DEF Maps, M

LEMMA SameMap == ASSUME NEW R, NEW M, NEW N, Maps(M, R), Maps(N, R) PROVE M = N
<1>1. /\ M = [k \in DOMAIN M |-> M[k]] /\ N = [k \in DOMAIN N |-> N[k]]
      /\ \A k \in DOMAIN M : \E r \in DOMAIN R : R[r].key = k
      /\ \A k \in DOMAIN N : \E r \in DOMAIN R : R[r].key = k
      /\ \A r \in DOMAIN R : R[r].key \in DOMAIN M /\ M[R[r].key] = R[r]
      /\ \A r \in DOMAIN R : R[r].key \in DOMAIN N /\ N[R[r].key] = R[r]
  BY DEF Maps
<1>2. DOMAIN M = DOMAIN N /\ \A k \in DOMAIN M : M[k] = N[k]
  BY <1>1
<1> QED
  BY <1>1, <1>2

LEMMA MoreMaps ==
    ASSUME NEW R, NEW M, Maps(M, R), NEW row, NEW rid, rid \notin DOMAIN R, row.key \notin DOMAIN M
    PROVE  Maps(TablesPromise!With(M, row.key, row), Plus(R, rid, row))
<1> DEFINE N == TablesPromise!With(M, row.key, row)
           Q == Plus(R, rid, row)
           k == row.key
<1>1. N = [x \in DOMAIN M \cup {k} |-> IF x = k THEN row ELSE M[x]]
  BY DEF TablesPromise!With
<1>2. /\ DOMAIN Q = DOMAIN R \cup {rid} /\ Q[rid] = row
      /\ \A r \in DOMAIN R : Q[r] = R[r]
  BY DEF Plus
<1> HIDE DEF N, Q
<1>3. /\ DOMAIN N = DOMAIN M \cup {k} /\ N[k] = row
      /\ \A x \in DOMAIN M : N[x] = M[x]
  BY <1>1
<1>4. N = [x \in DOMAIN N |-> N[x]]
  BY <1>1
<1>5. \A r \in DOMAIN Q : Q[r].key \in DOMAIN N /\ N[Q[r].key] = Q[r]
  BY <1>2, <1>3 DEF Maps
<1>6. \A x \in DOMAIN N : \E r \in DOMAIN Q : Q[r].key = x
  BY <1>2, <1>3 DEF Maps
<1> QED
  BY <1>4, <1>5, <1>6 DEF Maps, N, Q

\* Each table's name leads to the map of its rows.
Named(C, ds, pg) ==
    /\ C = [t \in DOMAIN C |-> C[t]]
    /\ DOMAIN C = {ds[i].name : i \in DOMAIN ds}
    /\ \A i \in DOMAIN ds : Maps(C[ds[i].name], RowsOf(ds, pg, i))

LEMMA ContentMaps ==
    ASSUME NEW ds, NEW pg, NEW tr, TreesInv(ds, pg, tr), \A i \in DOMAIN ds : ds[i].roots[0] # NoRoot
    PROVE  Named(ContentIn(ds, pg, tr), ds, pg)
<1> DEFINE C == ContentIn(ds, pg, tr)
           T == {ds[i].name : i \in DOMAIN ds}
<1>1. C = [t \in T |-> MapIn(OwnTree(ds, tr, t), pg)]
  BY DEF ContentIn
<1> HIDE DEF C
<1>2. ASSUME NEW i \in DOMAIN ds PROVE Maps(C[ds[i].name], RowsOf(ds, pg, i))
  <2>1. \A j \in DOMAIN ds : ds[j].name = ds[i].name => j = i
    BY DEF TreesInv
  <2>2. (CHOOSE j \in DOMAIN ds : ds[j].name = ds[i].name) = i
    BY <2>1
  <2>3. OwnTree(ds, tr, ds[i].name) = tr[ds[i].roots[0]]
    BY <2>2 DEF OwnTree
  <2>4. Files(tr[ds[i].roots[0]], RowsOf(ds, pg, i), 0)
    BY DEF TreesInv, TreeFiles
  <2>5. \A r \in DOMAIN RowsOf(ds, pg, i) : RowsOf(ds, pg, i)[r] = ReadSlot(pg[r[1]], r[2])[1]
    BY DEF RowsOf
  <2>6. Maps(MapIn(tr[ds[i].roots[0]], pg), RowsOf(ds, pg, i))
    BY <2>4, <2>5, MapIs
  <2>7. C[ds[i].name] = MapIn(OwnTree(ds, tr, ds[i].name), pg)
    BY <1>1
  <2> QED
    BY <2>3, <2>6, <2>7
<1> QED
  BY <1>1, <1>2 DEF Named, C

LEMMA ContentNow ==
    ASSUME TablesInv, TablesInv'
    PROVE  Named(Content, slots, page) /\ Named(Content', slots', page')
<1>1. Named(ContentIn(slots, page, tree), slots, page)
  BY ContentMaps, Zenon DEF TablesInv, Inv, DescsOK, Used
<1>2. Named(ContentIn(slots', page', tree'), slots', page')
  <2>1. TreesInv(slots', page', tree') /\ \A i \in DOMAIN slots' : slots'[i].roots[0] # NoRoot
    BY DEF TablesInv, Inv, DescsOK, Used
  <2> QED
    BY <2>1, ContentMaps, Zenon
<1> QED
  BY <1>1, <1>2, ContentsAre

LEMMA SameContent ==
    ASSUME TablesInv, TablesInv', DOMAIN slots' = DOMAIN slots,
           \A i \in DOMAIN slots : slots'[i].name = slots[i].name /\ SameRows(slots', page', i)
    PROVE  Content' = Content
<1> DEFINE C == Content
           D == Content'
<1>1. /\ C = [t \in DOMAIN C |-> C[t]] /\ DOMAIN C = {slots[i].name : i \in DOMAIN slots}
      /\ \A i \in DOMAIN slots : Maps(C[slots[i].name], RowsOf(slots, page, i))
  BY ContentNow DEF Named
<1>2. /\ D = [t \in DOMAIN D |-> D[t]] /\ DOMAIN D = {slots'[i].name : i \in DOMAIN slots'}
      /\ \A i \in DOMAIN slots' : Maps(D[slots'[i].name], RowsOf(slots', page', i))
  BY ContentNow DEF Named
<1> HIDE DEF C, D
<1>3. DOMAIN D = DOMAIN C
  BY <1>1, <1>2
<1>4. \A t \in DOMAIN C : D[t] = C[t]
  BY <1>1, <1>2, SameMap DEF SameRows
<1>5. D = C
  BY <1>1, <1>2, <1>3, <1>4
<1> QED
  BY <1>5 DEF C, D

LEMMA CreateTableContent ==
    ASSUME TablesInv, TablesInv', NEW t \in Name, CreateTable(t)
    PROVE  Content' \in TablesPromise!Created(Content)
<1> DEFINE C == Content
           D == Content'
           n == Len(slots) + 1
<1>1. /\ C = [u \in DOMAIN C |-> C[u]] /\ DOMAIN C = {slots[i].name : i \in DOMAIN slots}
      /\ \A i \in DOMAIN slots : Maps(C[slots[i].name], RowsOf(slots, page, i))
  BY ContentNow DEF Named
<1>2. /\ D = [u \in DOMAIN D |-> D[u]] /\ DOMAIN D = {slots'[i].name : i \in DOMAIN slots'}
      /\ \A i \in DOMAIN slots' : Maps(D[slots'[i].name], RowsOf(slots', page', i))
  BY ContentNow DEF Named
<1>3. /\ DOMAIN slots' = DOMAIN slots \cup {n} /\ n \notin DOMAIN slots
      /\ slots'[n].name = t
      /\ DOMAIN RowsOf(slots', page', n) = {}
      /\ \A j \in DOMAIN slots : slots'[j] = slots[j] /\ slots[j].name # t
      /\ \A j \in DOMAIN slots : RowsOf(slots', page', j) = RowsOf(slots, page, j)
  BY CreateTableRows DEF TablesInv
<1> HIDE DEF C, D, n
<1>4. t \notin DOMAIN C /\ DOMAIN D = DOMAIN C \cup {t}
  BY <1>1, <1>2, <1>3
<1>5. \A u \in DOMAIN C : D[u] = C[u]
  BY <1>1, <1>2, <1>3, SameMap
<1>6. D[t] = <<>>
  <2>1. Maps(D[t], RowsOf(slots', page', n))
    BY <1>2, <1>3
  <2>2. DOMAIN D[t] = {} /\ D[t] = [k \in DOMAIN D[t] |-> D[t][k]]
    BY <1>3, <2>1 DEF Maps
  <2> DEFINE M == D[t]
  <2> HIDE DEF M
  <2>3. DOMAIN M = {} /\ M = [k \in DOMAIN M |-> M[k]] => M = <<>>
    OBVIOUS
  <2> QED
    BY <2>2, <2>3 DEF M
<1>7. D = TablesPromise!With(C, t, <<>>)
  BY <1>2, <1>4, <1>5, <1>6 DEF TablesPromise!With
<1>8. D \in TablesPromise!Created(C)
  BY <1>4, <1>7 DEF TablesPromise!Created
<1> QED
  BY <1>8 DEF C, D

LEMMA InsertRowContent ==
    ASSUME TablesInv, TablesInv', NEW t \in Name, NEW row \in Row, InsertRow(t, row)
    PROVE  Content' \in TablesPromise!Added(Content)
<1> DEFINE C   == Content
           D   == Content'
           i   == SlotOf(t)
           rid == NewRowRid(i, row)
           R   == RowsOf(slots, page, i)
<1>1. /\ C = [u \in DOMAIN C |-> C[u]] /\ DOMAIN C = {slots[j].name : j \in DOMAIN slots}
      /\ \A j \in DOMAIN slots : Maps(C[slots[j].name], RowsOf(slots, page, j))
  BY ContentNow DEF Named
<1>2. /\ D = [u \in DOMAIN D |-> D[u]] /\ DOMAIN D = {slots'[j].name : j \in DOMAIN slots'}
      /\ \A j \in DOMAIN slots' : Maps(D[slots'[j].name], RowsOf(slots', page', j))
  BY ContentNow DEF Named
<1>3. Exists(t)
  BY DEF InsertRow
<1>4. i \in DOMAIN slots /\ slots[i].name = t
  BY <1>3, SlotIs DEF Used
<1>5. DOMAIN slots' = DOMAIN slots /\ ~KeyTaken(i, row) /\ \A j \in DOMAIN slots : slots'[j].name = slots[j].name
  BY InsertRowSlots DEF TablesInv, Used
<1>6. /\ rid \notin DOMAIN R
      /\ RowsOf(slots', page', i) = Plus(R, rid, row)
      /\ \A j \in DOMAIN slots : j # i => RowsOf(slots', page', j) = RowsOf(slots, page, j)
  BY InsertRowRows, CountsAre DEF TablesInv, SameRows, Used
<1>7. \A j \in DOMAIN slots : slots[j].name = t => j = i
  BY <1>4 DEF TablesInv, TreesInv
<1>8. row.key \notin DOMAIN C[t]
  <2> SUFFICES ASSUME row.key \in DOMAIN C[t] PROVE FALSE
    OBVIOUS
  <2>1. PICK r \in DOMAIN R : R[r].key = row.key
    BY <1>1, <1>4 DEF Maps
  <2>2. Files(tree[slots[i].roots[0]], R, 0)
    BY <1>4 DEF TablesInv, Inv, DescsOK, Used, TreesInv, TreeFiles
  <2> DEFINE es == tree[slots[i].roots[0]]
  <2> HIDE DEF es, i, R
  <2>3. r \in FiledOf(R, 0)
    BY <2>1 DEF FiledOf, IsFiled
  <2>4. PICK n \in DOMAIN es : es[n].rid = r
    BY <2>2, <2>3 DEF Files, es
  <2>5. es[n] = EntryOf(R[r], 0, r)
    BY <2>2, <2>4 DEF Files, es
  <2>6. es[n].key = row.key
    BY <2>1, <2>5 DEF EntryOf
  <2> QED
    BY <1>5, <2>6 DEF KeyTaken, HasKey, es, i
<1> HIDE DEF C, D, i, rid, R
<1>9. DOMAIN D = DOMAIN C /\ t \in DOMAIN C
  BY <1>1, <1>2, <1>4, <1>5
<1>10. D[t] = TablesPromise!With(C[t], row.key, row)
  <2>1. Maps(C[t], R) /\ Maps(D[t], Plus(R, rid, row))
    BY <1>1, <1>2, <1>4, <1>5, <1>6 DEF R
  <2>2. Maps(TablesPromise!With(C[t], row.key, row), Plus(R, rid, row))
    BY <1>6, <1>8, <2>1, MoreMaps
  <2> QED
    BY <2>1, <2>2, SameMap
<1>11. \A u \in DOMAIN C : u # t => D[u] = C[u]
  <2>1. ASSUME NEW u \in DOMAIN C, u # t PROVE D[u] = C[u]
    <3>1. PICK j \in DOMAIN slots : slots[j].name = u
      BY <1>1
    <3>2. j # i /\ Maps(C[u], RowsOf(slots, page, j)) /\ Maps(D[u], RowsOf(slots', page', j))
      BY <1>1, <1>2, <1>4, <1>5, <2>1, <3>1
    <3> QED
      BY <1>6, <3>2, SameMap
  <2> QED
    BY <2>1
<1>12. D = [C EXCEPT ![t] = TablesPromise!With(@, row.key, row)]
  BY <1>1, <1>2, <1>9, <1>10, <1>11
<1>13. D \in TablesPromise!Added(C)
  <2> DEFINE With(u) == {[C EXCEPT ![u] = TablesPromise!With(@, r.key, r)] :
                           r \in {r \in Row : r.key \notin DOMAIN C[u]}}
  <2>1. D \in With(t)
    BY <1>8, <1>12
  <2>2. TablesPromise!Added(C) = UNION {With(u) : u \in DOMAIN C}
    BY DEF TablesPromise!Added
  <2> HIDE DEF With
  <2> QED
    BY <1>9, <2>1, <2>2
<1> QED
  BY <1>13 DEF C, D

LEMMA NextContent ==
    ASSUME TablesInv, TablesInv', [CatalogNext]_vars
    PROVE  [TablesPromise!Next]_Content
<1>1. ASSUME UNCHANGED <<page, slots>> PROVE Content' = Content
  BY <1>1, SameContent DEF SameRows
<1>2. CASE PlainHeap
  <2>1. slots = <<>> /\ slots' = slots
    BY <1>2 DEF PlainHeap, TablesInv, OwnInv
  <2> QED
    BY <2>1, SameContent
<1>3. ASSUME NEW t \in Name, CreateTable(t) PROVE TablesPromise!Next
  BY <1>3, CreateTableContent DEF TablesPromise!Next
<1>4. ASSUME NEW t \in Name, NEW c \in Column, CreateIndex(t, c) PROVE Content' = Content
  <2>1. /\ DOMAIN slots' = DOMAIN slots
        /\ \A j \in DOMAIN slots : slots'[j].name = slots[j].name /\ SameRows(slots', page', j)
    BY <1>4, CreateIndexRows DEF TablesInv
  <2> QED
    BY <2>1, SameContent
<1>5. ASSUME NEW t \in Name, NEW row \in Row, InsertRow(t, row) PROVE TablesPromise!Next
  BY <1>5, InsertRowContent DEF TablesPromise!Next
<1>6. ASSUME NEW t \in Name, NEW row \in Row, RefuseRow(t, row) PROVE Content' = Content
  <2>1. /\ DOMAIN slots' = DOMAIN slots
        /\ \A j \in DOMAIN slots : slots'[j].name = slots[j].name /\ SameRows(slots', page', j)
    BY <1>6, RefuseRowSlots, RefuseRowRows, CountsAre DEF TablesInv, Used
  <2> QED
    BY <2>1, SameContent
<1>7. ASSUME NEW t \in Name, RefuseTable(t) PROVE Content' = Content
  BY <1>1, <1>7 DEF RefuseTable
<1>8. ASSUME NEW t \in Name, NEW row \in Row, RefuseLong(t, row) PROVE Content' = Content
  BY <1>1, <1>8 DEF RefuseLong
<1>9. ASSUME NEW t \in Name, NEW c \in Column, RefuseIndex(t, c) PROVE Content' = Content
  BY <1>1, <1>9 DEF RefuseIndex
<1>10. CASE UNCHANGED vars
  BY <1>1, <1>10 DEF vars
<1> QED
  BY <1>2, <1>3, <1>4, <1>5, <1>6, <1>7, <1>8, <1>9, <1>10 DEF CatalogNext

\* Read through their own trees, tables are the maps catalog.hpp promises: a step makes an
\* empty table, or adds one row under a key the table did not have, or changes no table
\* (catalog.hpp:228-235).  So no row is overwritten, lost or read as another's when heads
\* and roots move, and neither a refusal nor an index changes what a table holds.
THEOREM CatalogImplementsTables == Spec => ImplementsTables
<1>1. Init => TablesPromise!Init
  <2> SUFFICES ASSUME Init PROVE Content = <<>>
    BY DEF TablesPromise!Init
  <2>1. slots = <<>> /\ DOMAIN slots = {}
    BY DEF Init
  <2>2. DOMAIN Content = {} /\ Content = [t \in {} |-> Content[t]]
    BY <2>1 DEF Content, Used
  <2> QED
    BY <2>2
<1>2. TablesInv /\ TablesInv' /\ [CatalogNext]_vars => [TablesPromise!Next]_Content
  BY NextContent
<1> QED
  BY <1>1, <1>2, TablesInvHolds, PTL DEF Spec, ImplementsTables, TablesPromise!Spec
=============================================================================
