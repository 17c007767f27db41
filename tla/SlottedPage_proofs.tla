------------------------- MODULE SlottedPage_proofs -------------------------
(***************************************************************************)
(* Theorems about the slotted page (SlottedPage), for pages, headers,      *)
(* slots and records of every size: what insert, erase and compact leave   *)
(* is a sound page, and every other record keeps its slot and its bytes.   *)
(*                                                                         *)
(* The argument turns on Place: where compaction puts a cell is the end of *)
(* the page less the bytes of the live cells up to it.  SoundPage makes    *)
(* this count add up cell by cell, so Place solves the equation by which   *)
(* Packed is defined, and is the only solution.                            *)
(***************************************************************************)
EXTENDS SlottedPage, FiniteSetTheorems, WellFoundedInduction, TLAPS

Less == {ss \in Nat \X Nat : ss[1] < ss[2]}

LEMMA LeastElement == \A T \in SUBSET Nat : T # {} => \E x \in T : \A y \in T : x <= y
<1>1. IsWellFoundedOn(Less, Nat)
  BY ONLY NatLessThanWellFounded, Zenon DEF OpToRel, Less
<1> SUFFICES ASSUME NEW T \in SUBSET Nat, T # {}
             PROVE  \E x \in T : \A y \in T : x <= y
  OBVIOUS
<1>2. PICK x \in T : \A y \in T : ~ (<<y, x>> \in Less)
  BY <1>1, WFMin
<1>3. \A y \in T : ~ (y < x)
  BY <1>2 DEF Less
<1> QED
  BY <1>3

LEMMA Sizes == /\ HeaderSize \in Nat /\ HeaderSize > 0
               /\ SlotSize \in Nat /\ SlotSize > 0
               /\ PageSize \in Nat /\ PageSize > HeaderSize + SlotSize
BY SlottedPageAssumption

\* Room in the directory for n slots, and for one more or less.
LEMMA Directory ==
    ASSUME NEW n \in Nat, NEW m \in Nat
    PROVE  /\ SlotSize * n \in Nat
           /\ SlotSize * n >= n
           /\ SlotSize * (n + 1) = SlotSize * n + SlotSize
           /\ m <= n => SlotSize * n - SlotSize * (n - m) = SlotSize * m
           /\ m <= n => SlotSize * m <= SlotSize * n
BY Sizes, SMTT(30)

Sound(p) == p \in Page /\ SoundPage(p)

LEMMA PageFields ==
    ASSUME NEW p \in Page
    PROVE  /\ Len(p.slots) \in Nat /\ DOMAIN p.slots = 1..Len(p.slots)
           /\ \A s \in DOMAIN p.slots : /\ p.slots[s] \in Slot
                                        /\ p.slots[s].off \in 0..PageSize - 1
                                        /\ p.slots[s].len \in 0..PageSize
           /\ LiveSlots(p) \subseteq DOMAIN p.slots
           /\ p.freeEnd \in Nat /\ p.freeEnd <= PageSize
           /\ p.freeStart \in Nat /\ p.frag \in Nat
<1>1. p.slots \in Seq(Slot)
  BY DEF Page
<1>2. Len(p.slots) \in Nat /\ DOMAIN p.slots = 1..Len(p.slots)
  BY <1>1
<1>3. \A s \in DOMAIN p.slots : p.slots[s] \in Slot
  BY <1>1
<1>4. \A x \in Slot : x.off \in 0..PageSize - 1 /\ x.len \in 0..PageSize
  BY DEF Slot
<1>5. LiveSlots(p) \subseteq DOMAIN p.slots
  BY DEF LiveSlots
<1>6. p.freeEnd \in HeaderSize..PageSize /\ p.freeStart \in HeaderSize..PageSize /\ p.frag \in 0..PageSize
  BY DEF Page
<1>7. p.freeEnd \in Nat /\ p.freeEnd <= PageSize /\ p.freeStart \in Nat /\ p.frag \in Nat
  BY <1>6, Sizes
<1> QED
  BY <1>2, <1>3, <1>4, <1>5, <1>7

\* An interval that is not empty.
LEMMA IntervalSize ==
    ASSUME NEW a \in Int, NEW b \in Int, a <= b + 1
    PROVE  IsFiniteSet(a..b) /\ Cardinality(a..b) = b - a + 1
<1>1. /\ IsFiniteSet(a..b)
      /\ Cardinality(a..b) = IF a > b THEN 0 ELSE b - a + 1
  BY FS_Interval
<1> QED
  BY <1>1

\* Sets that share nothing.
LEMMA DisjointUnion ==
    ASSUME NEW S, NEW T, IsFiniteSet(S), IsFiniteSet(T), S \cap T = {}
    PROVE  /\ IsFiniteSet(S \cup T)
           /\ Cardinality(S) \in Nat /\ Cardinality(T) \in Nat
           /\ Cardinality(S \cup T) = Cardinality(S) + Cardinality(T)
<1>1. Cardinality(S \cap T) = 0
  BY FS_EmptySet
<1>2. Cardinality(S) \in Nat /\ Cardinality(T) \in Nat
  BY FS_CardinalityType
<1>3. /\ IsFiniteSet(S \cup T)
      /\ Cardinality(S \cup T) = Cardinality(S) + Cardinality(T) - Cardinality(S \cap T)
  BY FS_Union
<1> QED
  BY <1>1, <1>2, <1>3

\* The cells of the live slots up to s.
CellsTo(p, s) == UNION {CellOf(p, t) : t \in {u \in LiveSlots(p) : u <= s}}

Place(p) == [s \in 0..Len(p.slots) |-> PageSize - Cardinality(CellsTo(p, s))]

LEMMA CellFacts ==
    ASSUME NEW p, Sound(p), NEW s \in LiveSlots(p)
    PROVE  /\ p.slots[s].off \in Nat /\ p.slots[s].len \in Nat
           /\ p.slots[s].len > 0
           /\ p.slots[s].off >= p.freeEnd
           /\ p.slots[s].off + p.slots[s].len <= PageSize
           /\ CellOf(p, s) \subseteq p.freeEnd..PageSize - 1
           /\ IsFiniteSet(CellOf(p, s))
           /\ Cardinality(CellOf(p, s)) = p.slots[s].len
<1>1. p.slots[s].off \in Nat /\ p.slots[s].len \in Nat /\ p.freeEnd \in Nat
  BY PageFields, Sizes DEF Sound
<1>2. p.slots[s].len > 0 /\ CellOf(p, s) \subseteq p.freeEnd..PageSize - 1
  BY DEF Sound, SoundPage
<1>3. p.slots[s].off \in CellOf(p, s) /\ p.slots[s].off + p.slots[s].len - 1 \in CellOf(p, s)
  BY <1>1, <1>2 DEF CellOf
<1>4. IsFiniteSet(CellOf(p, s)) /\ Cardinality(CellOf(p, s)) = p.slots[s].len
  <2> DEFINE a == p.slots[s].off
             b == p.slots[s].off + p.slots[s].len - 1
  <2>1. a \in Int /\ b \in Int /\ a <= b + 1 /\ b - a + 1 = p.slots[s].len
    BY <1>1
  <2>2. CellOf(p, s) = a..b
    BY DEF CellOf
  <2> HIDE DEF a, b
  <2>3. IsFiniteSet(a..b) /\ Cardinality(a..b) = b - a + 1
    BY <2>1, IntervalSize
  <2> QED
    BY <2>1, <2>2, <2>3
<1>5. p.slots[s].off \in p.freeEnd..PageSize - 1 /\ p.slots[s].off + p.slots[s].len - 1 \in p.freeEnd..PageSize - 1
  BY <1>2, <1>3
<1> QED
  BY <1>1, <1>2, <1>4, <1>5, Sizes

LEMMA CellsToFinite ==
    ASSUME NEW p, Sound(p), NEW s
    PROVE  /\ CellsTo(p, s) \subseteq p.freeEnd..PageSize - 1
           /\ IsFiniteSet(CellsTo(p, s))
           /\ Cardinality(CellsTo(p, s)) \in 0..PageSize - p.freeEnd
<1>1. CellsTo(p, s) \subseteq p.freeEnd..PageSize - 1
  BY CellFacts DEF CellsTo
<1>2. /\ IsFiniteSet(p.freeEnd..PageSize - 1)
      /\ Cardinality(p.freeEnd..PageSize - 1) = PageSize - p.freeEnd
  <2>1. p.freeEnd \in Int /\ PageSize - 1 \in Int /\ p.freeEnd <= PageSize
    BY PageFields, Sizes DEF Sound
  <2> QED
    BY <2>1, Sizes, IntervalSize
<1>3. /\ IsFiniteSet(CellsTo(p, s))
      /\ Cardinality(CellsTo(p, s)) <= Cardinality(p.freeEnd..PageSize - 1)
  BY <1>1, <1>2, FS_Subset
<1> QED
  BY <1>1, <1>2, <1>3, FS_CardinalityType

LEMMA CellsToStep ==
    ASSUME NEW p, Sound(p), NEW s \in 1..Len(p.slots)
    PROVE  Cardinality(CellsTo(p, s)) = Cardinality(CellsTo(p, s - 1)) + p.slots[s].len
<1>0. Len(p.slots) \in Nat /\ s \in Nat /\ s \in DOMAIN p.slots
  BY PageFields DEF Sound
<1>1. CASE s \in LiveSlots(p)
  <2>1. {u \in LiveSlots(p) : u <= s} = {u \in LiveSlots(p) : u <= s - 1} \cup {s}
    BY <1>0, <1>1, PageFields DEF Sound
  <2>2. CellsTo(p, s) = CellsTo(p, s - 1) \cup CellOf(p, s)
    BY <2>1 DEF CellsTo
  <2>3. CellsTo(p, s - 1) \cap CellOf(p, s) = {}
    <3>1. \A t \in LiveSlots(p) : t <= s - 1 => t # s
      BY <1>0, PageFields DEF Sound
    <3>2. \A t \in LiveSlots(p) : t # s => CellOf(p, t) \cap CellOf(p, s) = {}
      BY <1>1 DEF Sound, SoundPage
    <3> QED
      BY <3>1, <3>2 DEF CellsTo
  <2>4. IsFiniteSet(CellsTo(p, s - 1)) /\ IsFiniteSet(CellOf(p, s))
    BY <1>1, CellsToFinite, CellFacts
  <2>5. Cardinality(CellsTo(p, s)) = Cardinality(CellsTo(p, s - 1)) + Cardinality(CellOf(p, s))
    BY <2>2, <2>3, <2>4, DisjointUnion
  <2> QED
    BY <1>1, <2>5, CellFacts
<1>2. CASE s \notin LiveSlots(p)
  <2>1. {u \in LiveSlots(p) : u <= s} = {u \in LiveSlots(p) : u <= s - 1}
    BY <1>0, <1>2, PageFields DEF Sound
  <2>2. p.slots[s].len = 0
    <3>1. s \in DeadSlots(p)
      BY <1>0, <1>2 DEF DeadSlots
    <3> QED
      BY <3>1 DEF Sound, SoundPage, DeadSlot
  <2>3. CellsTo(p, s) = CellsTo(p, s - 1)
    BY <2>1 DEF CellsTo
  <2>4. Cardinality(CellsTo(p, s - 1)) \in Nat
    BY CellsToFinite, FS_CardinalityType
  <2> QED
    BY <2>2, <2>3, <2>4
<1> QED
  BY <1>1, <1>2
-----------------------------------------------------------------------------
(* Compaction.                                                             *)

\* Where the cells go: each place is below the one before it by the length of
\* the slot, from the end of the page down to what is free.
LEMMA PlaceFacts ==
    ASSUME NEW p, Sound(p)
    PROVE  /\ \A s \in 0..Len(p.slots) : Place(p)[s] \in p.freeEnd..PageSize
           /\ Place(p)[0] = PageSize
           /\ \A s \in 1..Len(p.slots) : Place(p)[s] = Place(p)[s - 1] - p.slots[s].len
           /\ Place(p)[Len(p.slots)] = p.freeEnd + p.frag
<1>0. Len(p.slots) \in Nat /\ p.freeEnd \in Nat /\ PageSize \in Nat
  BY PageFields, Sizes DEF Sound
<1>1. \A s \in 0..Len(p.slots) : Place(p)[s] = PageSize - Cardinality(CellsTo(p, s))
  BY DEF Place
<1>2. \A s \in 0..Len(p.slots) : Cardinality(CellsTo(p, s)) \in 0..PageSize - p.freeEnd
  BY CellsToFinite
<1>3. \A s \in 0..Len(p.slots) : Place(p)[s] \in p.freeEnd..PageSize
  BY <1>0, <1>1, <1>2
<1>4. Place(p)[0] = PageSize
  <2>1. {u \in LiveSlots(p) : u <= 0} = {}
    BY <1>0, PageFields DEF Sound
  <2>2. CellsTo(p, 0) = {}
    BY <2>1 DEF CellsTo
  <2>3. Cardinality(CellsTo(p, 0)) = 0
    BY <2>2, FS_EmptySet
  <2> QED
    BY <1>0, <1>1, <2>3
<1>5. ASSUME NEW s \in 1..Len(p.slots)
      PROVE  Place(p)[s] = Place(p)[s - 1] - p.slots[s].len
  <2>1. s \in 0..Len(p.slots) /\ s - 1 \in 0..Len(p.slots) /\ p.slots[s].len \in Nat
    BY <1>0, PageFields DEF Sound
  <2>2. Cardinality(CellsTo(p, s)) = Cardinality(CellsTo(p, s - 1)) + p.slots[s].len
    BY CellsToStep
  <2>3. Cardinality(CellsTo(p, s - 1)) \in Nat
    BY CellsToFinite, FS_CardinalityType
  <2> QED
    BY <1>0, <1>1, <2>1, <2>2, <2>3
<1>6. Place(p)[Len(p.slots)] = p.freeEnd + p.frag
  <2>1. {u \in LiveSlots(p) : u <= Len(p.slots)} = LiveSlots(p)
    BY <1>0, PageFields DEF Sound
  <2>2. CellsTo(p, Len(p.slots)) = Cells(p)
    BY <2>1 DEF CellsTo, Cells
  <2>3. p.frag = PageSize - p.freeEnd - Cardinality(Cells(p))
    BY DEF Sound, SoundPage
  <2>4. Len(p.slots) \in 0..Len(p.slots)
    BY <1>0
  <2>5. Cardinality(Cells(p)) \in Nat
    BY <2>2, CellsToFinite, FS_CardinalityType
  <2> QED
    BY <1>0, <1>1, <2>2, <2>3, <2>4, <2>5
<1> QED
  BY <1>3, <1>4, <1>5, <1>6

\* Packed solves the equation that defines it.
LEMMA PackedEquation ==
    ASSUME NEW p, Sound(p)
    PROVE  Packed(p) = [s \in 0..Len(p.slots) |->
                           IF s = 0 THEN PageSize ELSE Packed(p)[s - 1] - p.slots[s].len]
<1>1. Place(p) = [s \in 0..Len(p.slots) |-> Place(p)[s]]
  BY DEF Place
<1>2. \A s \in 0..Len(p.slots) :
        Place(p)[s] = IF s = 0 THEN PageSize ELSE Place(p)[s - 1] - p.slots[s].len
  BY PlaceFacts, PageFields DEF Sound
<1>3. Place(p) = [s \in 0..Len(p.slots) |->
                     IF s = 0 THEN PageSize ELSE Place(p)[s - 1] - p.slots[s].len]
  BY <1>1, <1>2, Zenon
<1> QED
  BY <1>3, Zenon DEF Packed

LEMMA PackedIsPlace ==
    ASSUME NEW p, Sound(p)
    PROVE  Packed(p) = Place(p)
<1> DEFINE T == {s \in 0..Len(p.slots) : Packed(p)[s] # Place(p)[s]}
<1>0. Len(p.slots) \in Nat /\ PageSize \in Nat
  BY PageFields, Sizes DEF Sound
<1>1. \A s \in 0..Len(p.slots) :
        Packed(p)[s] = IF s = 0 THEN PageSize ELSE Packed(p)[s - 1] - p.slots[s].len
  BY PackedEquation, Zenon
<1>2. T = {}
  <2> SUFFICES ASSUME T # {} PROVE FALSE
    OBVIOUS
  <2>1. T \in SUBSET Nat
    BY <1>0
  <2>2. PICK x \in T : \A y \in T : x <= y
    BY <2>1, LeastElement, Zenon
  <2>3. x # 0
    BY <1>0, <1>1, PlaceFacts
  <2>4. x \in 1..Len(p.slots) /\ x - 1 \in 0..Len(p.slots)
    BY <1>0, <2>3
  <2>5. Packed(p)[x - 1] = Place(p)[x - 1]
    BY <1>0, <2>2, <2>4
  <2>6. Packed(p)[x] = Place(p)[x]
    BY <1>1, <2>3, <2>4, <2>5, PlaceFacts
  <2> QED
    BY <2>6
<1>3. Packed(p) = [s \in 0..Len(p.slots) |-> Packed(p)[s]]
  BY PackedEquation, Zenon
<1>4. Place(p) = [s \in 0..Len(p.slots) |-> Place(p)[s]]
  BY DEF Place
<1>5. \A s \in 0..Len(p.slots) : Packed(p)[s] = Place(p)[s]
  BY <1>2
<1> QED
  BY <1>3, <1>4, <1>5, Zenon

\* A later slot has a lower place.
LEMMA PlaceFalls ==
    ASSUME NEW p, Sound(p),
           NEW s \in 0..Len(p.slots), NEW t \in 0..Len(p.slots), s <= t
    PROVE  Place(p)[t] <= Place(p)[s]
<1>1. CellsTo(p, s) \subseteq CellsTo(p, t)
  <2>1. \A u \in LiveSlots(p) : u <= s => u <= t
    BY PageFields DEF Sound
  <2> QED
    BY <2>1 DEF CellsTo
<1>2. IsFiniteSet(CellsTo(p, t)) /\ IsFiniteSet(CellsTo(p, s))
  BY CellsToFinite
<1>3. Cardinality(CellsTo(p, s)) <= Cardinality(CellsTo(p, t))
  BY <1>1, <1>2, FS_Subset
<1>4. Cardinality(CellsTo(p, s)) \in Nat /\ Cardinality(CellsTo(p, t)) \in Nat
  BY <1>2, FS_CardinalityType
<1> QED
  BY <1>3, <1>4, Sizes DEF Place

\* The cells that the live slots have after a compaction.
NewCell(p, s) == Place(p)[s]..Place(p)[s - 1] - 1

LEMMA NewCells ==
    ASSUME NEW p, Sound(p)
    PROVE  /\ \A s \in LiveSlots(p) :
                 /\ s \in 1..Len(p.slots) /\ s \in 0..Len(p.slots) /\ s - 1 \in 0..Len(p.slots)
                 /\ Place(p)[s] \in p.freeEnd..PageSize - 1
                 /\ Place(p)[s - 1] = Place(p)[s] + p.slots[s].len
                 /\ Place(p)[s - 1] <= PageSize
                 /\ Place(p)[s] >= Place(p)[Len(p.slots)]
           /\ \A s, t \in LiveSlots(p) : s # t => NewCell(p, s) \cap NewCell(p, t) = {}
           /\ UNION {NewCell(p, s) : s \in LiveSlots(p)} = Place(p)[Len(p.slots)]..PageSize - 1
<1>0. Len(p.slots) \in Nat /\ p.freeEnd \in Nat /\ PageSize \in Nat
  BY PageFields, Sizes DEF Sound
<1>1. ASSUME NEW s \in LiveSlots(p)
      PROVE  /\ s \in 1..Len(p.slots) /\ s \in 0..Len(p.slots) /\ s - 1 \in 0..Len(p.slots)
             /\ Place(p)[s] \in p.freeEnd..PageSize - 1
             /\ Place(p)[s - 1] = Place(p)[s] + p.slots[s].len
             /\ Place(p)[s - 1] <= PageSize
             /\ Place(p)[s] >= Place(p)[Len(p.slots)]
  <2>1. s \in 1..Len(p.slots)
    BY PageFields DEF Sound
  <2>2. s \in 0..Len(p.slots) /\ s - 1 \in 0..Len(p.slots) /\ Len(p.slots) \in 0..Len(p.slots)
    BY <1>0, <2>1
  <2>3. p.slots[s].len \in Nat /\ p.slots[s].len > 0
    BY CellFacts
  <2>4. Place(p)[s] \in p.freeEnd..PageSize /\ Place(p)[s - 1] \in p.freeEnd..PageSize
    BY <2>2, PlaceFacts
  <2>5. Place(p)[s] = Place(p)[s - 1] - p.slots[s].len
    BY <2>1, PlaceFacts
  <2>6. Place(p)[Len(p.slots)] <= Place(p)[s]
    BY <1>0, <2>1, <2>2, PlaceFalls
  <2>7. Place(p)[Len(p.slots)] \in p.freeEnd..PageSize
    BY <2>2, PlaceFacts
  <2> QED
    BY <1>0, <2>1, <2>2, <2>3, <2>4, <2>5, <2>6, <2>7
<1>2. ASSUME NEW s \in LiveSlots(p), NEW t \in LiveSlots(p), s < t
      PROVE  NewCell(p, s) \cap NewCell(p, t) = {}
  <2>1. s \in 0..Len(p.slots) /\ t - 1 \in 0..Len(p.slots) /\ s <= t - 1
    BY <1>0, <1>1, <1>2
  <2>2. Place(p)[t - 1] <= Place(p)[s]
    BY <2>1, PlaceFalls
  <2>3. /\ Place(p)[t] \in Int /\ Place(p)[t - 1] \in Int
        /\ Place(p)[s] \in Int /\ Place(p)[s - 1] \in Int
    BY <1>0, <1>1, PlaceFacts
  <2> QED
    BY <2>2, <2>3 DEF NewCell
<1>3. ASSUME NEW s \in LiveSlots(p), NEW t \in LiveSlots(p), s # t
      PROVE  NewCell(p, s) \cap NewCell(p, t) = {}
  <2>1. s < t \/ t < s
    BY <1>0, <1>1, <1>3
  <2> QED
    BY <1>2, <2>1
<1>4. ASSUME NEW s \in LiveSlots(p)
      PROVE  NewCell(p, s) \subseteq Place(p)[Len(p.slots)]..PageSize - 1
  <2>1. /\ Place(p)[s] \in Int /\ Place(p)[s - 1] \in Int /\ Place(p)[Len(p.slots)] \in Int
    BY <1>0, <1>1, PlaceFacts
  <2> QED
    BY <1>0, <1>1, <2>1 DEF NewCell
<1>5. ASSUME NEW o \in Place(p)[Len(p.slots)]..PageSize - 1
      PROVE  \E s \in LiveSlots(p) : o \in NewCell(p, s)
  <2> DEFINE T == {s \in 0..Len(p.slots) : Place(p)[s] <= o}
  <2>1. Place(p)[Len(p.slots)] \in Int /\ o \in Int /\ Place(p)[Len(p.slots)] <= o /\ o < PageSize
    BY <1>0, PlaceFacts
  <2>2. T \in SUBSET Nat /\ Len(p.slots) \in T
    BY <1>0, <2>1
  <2>3. PICK x \in T : \A y \in T : x <= y
    BY <2>2, LeastElement, Zenon
  <2>4. x \in 1..Len(p.slots) /\ x - 1 \in 0..Len(p.slots)
    <3>1. x # 0
      BY <2>1, PlaceFacts
    <3> QED
      BY <1>0, <3>1
  <2>5. x - 1 \notin T
    BY <1>0, <2>3, <2>4
  <2>6. Place(p)[x] \in Int /\ Place(p)[x - 1] \in Int
    BY <1>0, <2>4, PlaceFacts
  <2>7. o < Place(p)[x - 1] /\ Place(p)[x] <= o
    BY <2>1, <2>4, <2>5, <2>6
  <2>8. o \in NewCell(p, x)
    BY <2>1, <2>6, <2>7 DEF NewCell
  <2>9. x \in LiveSlots(p)
    <3> SUFFICES ASSUME x \notin LiveSlots(p) PROVE FALSE
      OBVIOUS
    <3>1. x \in DeadSlots(p)
      BY <2>4, PageFields DEF DeadSlots, Sound
    <3>2. p.slots[x].len = 0
      BY <3>1 DEF Sound, SoundPage, DeadSlot
    <3>3. Place(p)[x] = Place(p)[x - 1] - 0
      BY <2>4, <3>2, PlaceFacts
    <3> QED
      BY <2>6, <2>7, <3>3
  <2> QED
    BY <2>8, <2>9
<1>6. UNION {NewCell(p, s) : s \in LiveSlots(p)} = Place(p)[Len(p.slots)]..PageSize - 1
  BY <1>4, <1>5
<1> QED
  BY <1>1, <1>3, <1>6

LEMMA BytesFacts ==
    ASSUME NEW b
    PROVE  b \in Bytes <=> /\ b = [o \in DOMAIN b |-> b[o]]
                           /\ DOMAIN b \subseteq Offsets
                           /\ \A o \in DOMAIN b : b[o] \in Unit
<1>1. ASSUME b \in Bytes
      PROVE  b = [o \in DOMAIN b |-> b[o]] /\ DOMAIN b \subseteq Offsets /\ \A o \in DOMAIN b : b[o] \in Unit
  <2>1. PICK os \in SUBSET Offsets : b \in [os -> Unit]
    BY <1>1 DEF Bytes
  <2> QED
    BY <2>1
<1>2. ASSUME b = [o \in DOMAIN b |-> b[o]], DOMAIN b \subseteq Offsets, \A o \in DOMAIN b : b[o] \in Unit
      PROVE  b \in Bytes
  <2>1. b \in [DOMAIN b -> Unit]
    BY <1>2
  <2> QED
    BY <1>2, <2>1 DEF Bytes
<1> QED
  BY <1>1, <1>2

NewSlots(p) == [s \in DOMAIN p.slots |->
                   IF IsLive(p, s) THEN [p.slots[s] EXCEPT !.off = Place(p)[s]] ELSE p.slots[s]]

\* The slot whose cell takes address o.
Owner(p, o) == CHOOSE s \in LiveSlots(p) : o \in NewCell(p, s)

NewBytes(p) == [o \in Place(p)[Len(p.slots)]..PageSize - 1 |->
                   p.bytes[p.slots[Owner(p, o)].off + o - Place(p)[Owner(p, o)]]]

LEMMA CompactedFields ==
    ASSUME NEW p, Sound(p)
    PROVE  Compacted(p) = [slots |-> NewSlots(p), freeStart |-> p.freeStart,
                           freeEnd |-> Place(p)[Len(p.slots)], frag |-> 0,
                           next |-> p.next, bytes |-> NewBytes(p)]
<1>1. p = [slots |-> p.slots, freeStart |-> p.freeStart, freeEnd |-> p.freeEnd,
           frag |-> p.frag, next |-> p.next, bytes |-> p.bytes]
  BY DEF Sound, Page
<1> DEFINE With(to) ==
        [p EXCEPT !.slots   = [s \in DOMAIN @ |-> IF IsLive(p, s) THEN [@[s] EXCEPT !.off = to[s]] ELSE @[s]],
                  !.bytes   = [o \in to[Len(p.slots)]..PageSize-1 |->
                                  LET s == CHOOSE t \in LiveSlots(p) : o \in to[t]..to[t-1]-1
                                  IN  p.bytes[p.slots[s].off + o - to[s]]],
                  !.freeEnd = to[Len(p.slots)],
                  !.frag    = 0]
<1>2. Compacted(p) = With(Packed(p))
  BY Zenon DEF Compacted
<1>3. With(Place(p)) = [p EXCEPT !.slots = NewSlots(p), !.bytes = NewBytes(p),
                                 !.freeEnd = Place(p)[Len(p.slots)], !.frag = 0]
  BY Zenon DEF NewSlots, NewBytes, Owner, NewCell
<1> HIDE DEF With
<1>4. Compacted(p) = [p EXCEPT !.slots = NewSlots(p), !.bytes = NewBytes(p),
                               !.freeEnd = Place(p)[Len(p.slots)], !.frag = 0]
  BY <1>2, <1>3, PackedIsPlace
<1> QED
  BY <1>1, <1>4

\* A compacted page has the slots it had, live or dead, with the cells moved.
LEMMA CompactedSlots ==
    ASSUME NEW p, Sound(p)
    PROVE  /\ Len(Compacted(p).slots) = Len(p.slots)
           /\ LiveSlots(Compacted(p)) = LiveSlots(p)
           /\ DeadSlots(Compacted(p)) = DeadSlots(p)
           /\ Compacted(p).slots \in Seq(Slot)
           /\ \A s \in LiveSlots(p) : /\ Compacted(p).slots[s].off = Place(p)[s]
                                      /\ Compacted(p).slots[s].len = p.slots[s].len
                                      /\ CellOf(Compacted(p), s) = NewCell(p, s)
           /\ \A s \in DeadSlots(p) : Compacted(p).slots[s] = p.slots[s]
<1> DEFINE q == Compacted(p)
<1>0. /\ Len(p.slots) \in Nat /\ DOMAIN p.slots = 1..Len(p.slots)
      /\ p.freeEnd \in Nat /\ p.freeEnd >= HeaderSize /\ PageSize \in Nat /\ HeaderSize > 0 /\ HeaderSize \in Nat
  BY PageFields, Sizes DEF Sound, Page
<1>1. q.slots = NewSlots(p)
  BY CompactedFields
<1>2. \A s \in LiveSlots(p) : s \in DOMAIN p.slots /\ IsLive(p, s)
  BY DEF LiveSlots
<1>3. \A s \in DeadSlots(p) : s \in DOMAIN p.slots /\ ~IsLive(p, s)
  BY DEF LiveSlots, DeadSlots
<1>4. ASSUME NEW s \in LiveSlots(p)
      PROVE  /\ q.slots[s].off = Place(p)[s] /\ q.slots[s].len = p.slots[s].len
             /\ q.slots[s] \in Slot /\ q.slots[s].off # 0
  <2>1. q.slots[s] = [p.slots[s] EXCEPT !.off = Place(p)[s]]
    BY <1>1, <1>2 DEF NewSlots
  <2>2. p.slots[s] \in Slot
    BY <1>2, PageFields DEF Sound
  <2>3. Place(p)[s] \in p.freeEnd..PageSize - 1
    BY NewCells
  <2>4. Place(p)[s] \in 0..PageSize - 1 /\ Place(p)[s] # 0
    BY <1>0, <2>3
  <2> HIDE DEF q
  <2> QED
    BY <2>1, <2>2, <2>4 DEF Slot
<1>5. ASSUME NEW s \in DeadSlots(p)
      PROVE  q.slots[s] = p.slots[s] /\ q.slots[s] \in Slot /\ q.slots[s].off = 0
  <2>1. q.slots[s] = p.slots[s]
    BY <1>1, <1>3 DEF NewSlots
  <2>2. p.slots[s] \in Slot
    BY <1>3, PageFields DEF Sound
  <2>3. p.slots[s] = DeadSlot
    BY DEF Sound, SoundPage
  <2> QED
    BY <2>1, <2>2, <2>3 DEF DeadSlot
<1>6. DOMAIN q.slots = DOMAIN p.slots
  BY <1>1 DEF NewSlots
<1>7. \A s \in DOMAIN p.slots : s \in LiveSlots(p) \/ s \in DeadSlots(p)
  BY DEF DeadSlots
<1>8. q.slots \in Seq(Slot) /\ Len(q.slots) = Len(p.slots)
  <2>1. \A s \in 1..Len(p.slots) : NewSlots(p)[s] \in Slot
    BY <1>0, <1>1, <1>4, <1>5, <1>7
  <2>2. NewSlots(p) = [s \in 1..Len(p.slots) |-> NewSlots(p)[s]]
    BY <1>0 DEF NewSlots
  <2>3. NewSlots(p) \in [1..Len(p.slots) -> Slot]
    BY <2>1, <2>2
  <2> QED
    BY <1>0, <1>1, <2>3
<1>9. LiveSlots(q) = LiveSlots(p)
  <2> HIDE DEF q
  <2>1. \A s \in LiveSlots(p) : IsLive(q, s)
    BY <1>2, <1>4, <1>6 DEF IsLive
  <2>2. \A s \in DeadSlots(p) : ~IsLive(q, s)
    BY <1>5 DEF IsLive
  <2> QED
    BY <1>2, <1>6, <1>7, <2>1, <2>2 DEF LiveSlots
<1>10. DeadSlots(q) = DeadSlots(p)
  BY <1>6, <1>9 DEF DeadSlots
<1>11. ASSUME NEW s \in LiveSlots(p)
       PROVE  CellOf(q, s) = NewCell(p, s)
  <2>1. Place(p)[s - 1] = Place(p)[s] + p.slots[s].len
    BY NewCells
  <2>2. p.slots[s].len \in Nat /\ Place(p)[s] \in Int
    BY <1>0, CellFacts, NewCells
  <2> HIDE DEF q
  <2>3. q.slots[s].off = Place(p)[s]
    BY <1>4
  <2>4. q.slots[s].off + q.slots[s].len - 1 = Place(p)[s - 1] - 1
    BY <1>4, <2>1, <2>2
  <2> QED
    BY <2>3, <2>4, Zenon DEF CellOf, NewCell
<1> HIDE DEF q
<1>12. /\ Len(q.slots) = Len(p.slots)
       /\ LiveSlots(q) = LiveSlots(p)
       /\ DeadSlots(q) = DeadSlots(p)
       /\ q.slots \in Seq(Slot)
       /\ \A s \in LiveSlots(p) : /\ q.slots[s].off = Place(p)[s]
                                  /\ q.slots[s].len = p.slots[s].len
                                  /\ CellOf(q, s) = NewCell(p, s)
       /\ \A s \in DeadSlots(p) : q.slots[s] = p.slots[s]
  BY <1>4, <1>5, <1>8, <1>9, <1>10, <1>11
<1> QED
  BY <1>12 DEF q

LEMMA OwnerOf ==
    ASSUME NEW p, Sound(p), NEW s \in LiveSlots(p), NEW o \in NewCell(p, s)
    PROVE  Owner(p, o) = s
<1>1. Owner(p, o) \in LiveSlots(p) /\ o \in NewCell(p, Owner(p, o))
  BY Zenon DEF Owner
<1>2. \A t \in LiveSlots(p) : s # t => NewCell(p, s) \cap NewCell(p, t) = {}
  BY NewCells
<1> QED
  BY <1>1, <1>2

\* Every record is read from the compacted page as it was.
LEMMA CompactedReads ==
    ASSUME NEW p, Sound(p), NEW s \in LiveSlots(p)
    PROVE  ReadSlot(Compacted(p), s) = ReadSlot(p, s)
<1> DEFINE q == Compacted(p)
<1>0. /\ p.slots[s].len \in Nat /\ p.slots[s].off \in Nat
      /\ Place(p)[s] \in Int /\ Place(p)[s - 1] = Place(p)[s] + p.slots[s].len
  BY CellFacts, NewCells, PageFields, Sizes DEF Sound
<1>1. q.slots[s].len = p.slots[s].len /\ q.slots[s].off = Place(p)[s] /\ q.bytes = NewBytes(p)
  BY CompactedSlots, CompactedFields
<1>2. ASSUME NEW i \in 1..p.slots[s].len
      PROVE  q.bytes[q.slots[s].off + i - 1] = p.bytes[p.slots[s].off + i - 1]
  <2> DEFINE o == Place(p)[s] + i - 1
  <2>1. o \in NewCell(p, s)
    BY <1>0 DEF NewCell
  <2>2. o \in Place(p)[Len(p.slots)]..PageSize - 1
    BY <2>1, NewCells
  <2>3. Owner(p, o) = s
    BY <2>1, OwnerOf
  <2>4. p.slots[s].off + o - Place(p)[s] = p.slots[s].off + i - 1
    BY <1>0
  <2> HIDE DEF o
  <2>5. NewBytes(p)[o] = p.bytes[p.slots[s].off + o - Place(p)[s]]
    BY <2>2, <2>3 DEF NewBytes
  <2>6. q.bytes[o] = p.bytes[p.slots[s].off + i - 1]
    BY <1>1, <2>4, <2>5
  <2> QED
    BY <1>1, <2>6 DEF o
<1> HIDE DEF q
<1>3. ReadSlot(q, s) = ReadSlot(p, s)
  BY <1>1, <1>2, Zenon DEF ReadSlot
<1> QED
  BY <1>3 DEF q

\* Compaction keeps the page sound, and joins all the free bytes.
THEOREM CompactedSound ==
    ASSUME NEW p, Sound(p)
    PROVE  /\ Sound(Compacted(p))
           /\ ContiguousFree(Compacted(p)) = TotalFree(p)
           /\ Compacted(p).next = p.next
           /\ LiveSlots(Compacted(p)) = LiveSlots(p)
           /\ \A s \in LiveSlots(p) : ReadSlot(Compacted(p), s) = ReadSlot(p, s)
<1> DEFINE q   == Compacted(p)
           end == Place(p)[Len(p.slots)]
<1>0. /\ Len(p.slots) \in Nat /\ p.freeEnd \in Nat /\ PageSize \in Nat /\ HeaderSize \in Nat
      /\ p.freeStart \in HeaderSize..PageSize /\ p.freeEnd \in HeaderSize..PageSize
      /\ p.frag \in Nat /\ p.next \in Nat /\ p.freeStart <= p.freeEnd /\ p.bytes \in Bytes
  BY PageFields, Sizes DEF Sound, Page, SoundPage
<1>1. end = p.freeEnd + p.frag /\ end \in p.freeEnd..PageSize
  <2>1. Len(p.slots) \in 0..Len(p.slots)
    BY <1>0
  <2> QED
    BY <2>1, PlaceFacts
<1>2. /\ q.slots = NewSlots(p) /\ q.freeStart = p.freeStart /\ q.freeEnd = end
      /\ q.frag = 0 /\ q.next = p.next /\ q.bytes = NewBytes(p)
  BY CompactedFields
<1>3. Cells(q) = end..PageSize - 1
  <2>1. LiveSlots(q) = LiveSlots(p) /\ \A s \in LiveSlots(p) : CellOf(q, s) = NewCell(p, s)
    BY CompactedSlots
  <2>2. UNION {NewCell(p, s) : s \in LiveSlots(p)} = end..PageSize - 1
    BY NewCells
  <2> HIDE DEF q, end
  <2>3. UNION {CellOf(q, s) : s \in LiveSlots(q)} = UNION {NewCell(p, s) : s \in LiveSlots(p)}
    BY <2>1
  <2> QED
    BY <2>2, <2>3 DEF Cells
<1>4. NewBytes(p) \in Bytes
  <2>1. DOMAIN NewBytes(p) \subseteq Offsets
    BY <1>0, <1>1 DEF NewBytes, Offsets
  <2>2. ASSUME NEW o \in end..PageSize - 1
        PROVE  NewBytes(p)[o] \in Unit
    <3>1. PICK s \in LiveSlots(p) : o \in NewCell(p, s)
      BY NewCells
    <3>2. Owner(p, o) = s
      BY <3>1, OwnerOf
    <3>3. NewBytes(p)[o] = p.bytes[p.slots[s].off + o - Place(p)[s]]
      BY <3>2 DEF NewBytes
    <3>4. /\ Place(p)[s] \in Int /\ Place(p)[s - 1] = Place(p)[s] + p.slots[s].len
          /\ p.slots[s].len \in Nat /\ p.slots[s].off \in Nat /\ o \in Int
      BY <1>0, <1>1, NewCells, CellFacts
    <3>5. p.slots[s].off + o - Place(p)[s] \in CellOf(p, s)
      <4> DEFINE to  == Place(p)[s]
                 len == p.slots[s].len
                 off == p.slots[s].off
      <4>1. o \in to..to + len - 1
        BY <3>1, <3>4 DEF NewCell
      <4>2. to \in Int /\ len \in Nat /\ off \in Nat /\ o \in Int
        BY <3>4
      <4>3. CellOf(p, s) = off..off + len - 1
        BY DEF CellOf
      <4> HIDE DEF to, len, off
      <4>4. off + o - to \in off..off + len - 1
        BY <4>1, <4>2
      <4> QED
        BY <4>3, <4>4 DEF to, off
    <3>6. CellOf(p, s) \subseteq DOMAIN p.bytes
      BY DEF Sound, SoundPage, Cells
    <3> QED
      BY <1>0, <3>3, <3>5, <3>6, BytesFacts
  <2>3. NewBytes(p) = [o \in DOMAIN NewBytes(p) |-> NewBytes(p)[o]] /\ DOMAIN NewBytes(p) = end..PageSize - 1
    BY DEF NewBytes
  <2> QED
    BY <2>1, <2>2, <2>3, BytesFacts
<1>5. q \in Page
  <2>1. q = [slots |-> NewSlots(p), freeStart |-> p.freeStart, freeEnd |-> end, frag |-> 0,
             next |-> p.next, bytes |-> NewBytes(p)]
    BY CompactedFields
  <2>2. NewSlots(p) \in Seq(Slot)
    BY <1>2, CompactedSlots
  <2>3. end \in HeaderSize..PageSize /\ 0 \in 0..PageSize
    BY <1>0, <1>1
  <2> HIDE DEF q, end
  <2> QED
    BY <1>0, <1>4, <2>1, <2>2, <2>3 DEF Page
<1>6. SoundPage(q)
  <2>1. q.freeStart = HeaderSize + SlotSize * Len(q.slots)
    BY <1>2, CompactedSlots DEF Sound, SoundPage
  <2>2. q.freeStart <= q.freeEnd
    BY <1>0, <1>1, <1>2
  <2>3. ASSUME NEW s \in LiveSlots(q)
        PROVE  q.slots[s].len > 0 /\ CellOf(q, s) \subseteq q.freeEnd..PageSize - 1
    <3>1. s \in LiveSlots(p) /\ q.slots[s].len = p.slots[s].len
      BY CompactedSlots
    <3>2. CellOf(q, s) \subseteq Cells(q)
      BY DEF Cells
    <3> QED
      BY <1>2, <1>3, <3>1, <3>2, CellFacts
  <2>4. ASSUME NEW s \in LiveSlots(q), NEW t \in LiveSlots(q), s # t
        PROVE  CellOf(q, s) \cap CellOf(q, t) = {}
    <3>1. s \in LiveSlots(p) /\ t \in LiveSlots(p) /\ CellOf(q, s) = NewCell(p, s) /\ CellOf(q, t) = NewCell(p, t)
      BY CompactedSlots
    <3> QED
      BY <2>4, <3>1, NewCells
  <2>5. q.frag = PageSize - q.freeEnd - Cardinality(Cells(q))
    <3>1. end \in Int /\ PageSize - 1 \in Int /\ end <= (PageSize - 1) + 1
      BY <1>0, <1>1
    <3>2. Cardinality(end..PageSize - 1) = PageSize - 1 - end + 1
      BY <3>1, IntervalSize
    <3>3. PageSize - end - (PageSize - 1 - end + 1) = 0
      BY <1>0, <3>1
    <3> QED
      BY <1>2, <1>3, <3>2, <3>3
  <2>6. Cells(q) = DOMAIN q.bytes
    BY <1>2, <1>3 DEF NewBytes
  <2>7. \A s \in DeadSlots(q) : q.slots[s] = DeadSlot
    BY CompactedSlots DEF Sound, SoundPage
  <2>8. q.slots # <<>> => IsLive(q, Len(q.slots))
    <3> SUFFICES ASSUME q.slots # <<>> PROVE IsLive(q, Len(q.slots))
      OBVIOUS
    <3>1. Len(q.slots) = Len(p.slots) /\ q.slots \in Seq(Slot) /\ p.slots \in Seq(Slot)
      BY CompactedSlots DEF Sound, Page
    <3> HIDE DEF q
    <3>2. Len(q.slots) # 0
      BY <3>1
    <3>3. p.slots # <<>>
      BY <3>1, <3>2
    <3>4. IsLive(p, Len(p.slots))
      BY <3>3 DEF Sound, SoundPage
    <3>5. Len(p.slots) \in LiveSlots(p)
      BY <3>4 DEF LiveSlots, IsLive
    <3>6. Len(q.slots) \in LiveSlots(q)
      BY <3>1, <3>5, CompactedSlots DEF q
    <3> QED
      BY <3>6 DEF LiveSlots
  <2> HIDE DEF q
  <2> QED
    BY <2>1, <2>2, <2>3, <2>4, <2>5, <2>6, <2>7, <2>8 DEF SoundPage
<1>7. ContiguousFree(q) = TotalFree(p)
  BY <1>0, <1>1, <1>2 DEF ContiguousFree, TotalFree
<1> QED
  BY <1>2, <1>5, <1>6, <1>7, CompactedSlots, CompactedReads DEF Sound
-----------------------------------------------------------------------------
(* The calls.                                                              *)

LEMMA MinIs == \A T \in SUBSET Nat : T # {} => Min(T) \in T /\ \A y \in T : Min(T) <= y
<1> SUFFICES ASSUME NEW T \in SUBSET Nat, T # {}
             PROVE  Min(T) \in T /\ \A y \in T : Min(T) <= y
  OBVIOUS
<1>1. \E x \in T : \A y \in T : x <= y
  BY LeastElement, Zenon
<1> QED
  BY <1>1, Zenon DEF Min

LEMMA MaxIs ==
    ASSUME NEW n \in Nat, NEW T \in SUBSET (0..n), T # {}
    PROVE  Max(T) \in T /\ \A y \in T : y <= Max(T)
<1> DEFINE D == {n - x : x \in T}
<1>0. PICK w \in T : TRUE
  OBVIOUS
<1>1. D \in SUBSET Nat /\ D # {}
  <2>1. \A x \in T : n - x \in Nat
    OBVIOUS
  <2>2. n - w \in D
    BY <1>0
  <2> QED
    BY <2>1, <2>2
<1>2. PICK d \in D : \A y \in D : d <= y
  BY <1>1, LeastElement, Zenon
<1>3. PICK x \in T : d = n - x
  BY <1>2
<1>4. \A y \in T : n - x <= n - y
  BY <1>2, <1>3
<1>5. \A y \in T : x >= y
  BY <1>4
<1>6. \E z \in T : \A y \in T : z >= y
  BY <1>5
<1>7. Max(T) \in T /\ \A y \in T : Max(T) >= y
  BY <1>6, Zenon DEF Max
<1> QED
  BY <1>7

\* What is read of a slot is its bytes.
LEMMA SameRead ==
    ASSUME NEW p, NEW q, NEW s,
           p.slots[s].off \in Nat, p.slots[s].len \in Nat,
           q.slots[s].off = p.slots[s].off, q.slots[s].len = p.slots[s].len,
           \A o \in CellOf(p, s) : q.bytes[o] = p.bytes[o]
    PROVE  ReadSlot(q, s) = ReadSlot(p, s)
<1>1. \A i \in 1..p.slots[s].len : p.slots[s].off + i - 1 \in CellOf(p, s)
  BY DEF CellOf
<1>2. \A i \in 1..p.slots[s].len : q.bytes[q.slots[s].off + i - 1] = p.bytes[p.slots[s].off + i - 1]
  BY <1>1
<1> QED
  BY <1>2, Zenon DEF ReadSlot

\* What is known of two cells of one page.
LEMMA CellsOfPage ==
    ASSUME NEW p, Sound(p)
    PROVE  /\ DOMAIN p.bytes = Cells(p)
           /\ Cells(p) \subseteq p.freeEnd..PageSize - 1
           /\ IsFiniteSet(Cells(p)) /\ Cardinality(Cells(p)) \in Nat
           /\ p.frag = PageSize - p.freeEnd - Cardinality(Cells(p))
           /\ \A s \in LiveSlots(p) : CellOf(p, s) \subseteq Cells(p)
           /\ \A s, t \in LiveSlots(p) : s # t => CellOf(p, s) \cap CellOf(p, t) = {}
<1>1. {u \in LiveSlots(p) : u <= Len(p.slots)} = LiveSlots(p)
  BY PageFields DEF Sound
<1>2. CellsTo(p, Len(p.slots)) = Cells(p)
  BY <1>1 DEF CellsTo, Cells
<1>3. \A s \in LiveSlots(p) : CellOf(p, s) \subseteq Cells(p)
  BY DEF Cells
<1>4. /\ DOMAIN p.bytes = Cells(p)
      /\ p.frag = PageSize - p.freeEnd - Cardinality(Cells(p))
      /\ \A s, t \in LiveSlots(p) : s # t => CellOf(p, s) \cap CellOf(p, t) = {}
  BY DEF Sound, SoundPage
<1>5. /\ Cells(p) \subseteq p.freeEnd..PageSize - 1
      /\ IsFiniteSet(Cells(p)) /\ Cardinality(Cells(p)) \in Nat
  BY <1>2, CellsToFinite, FS_CardinalityType
<1> QED
  BY <1>3, <1>4, <1>5

\* A page that init has made is sound, and empty.
THEOREM EmptyPageSound ==
    ASSUME NEW next \in Nat
    PROVE  Sound(EmptyPage(next)) /\ LiveSlots(EmptyPage(next)) = {} /\ EmptyPage(next).next = next
<1> DEFINE q == EmptyPage(next)
<1>1. /\ q.slots = <<>> /\ q.freeStart = HeaderSize /\ q.freeEnd = PageSize
      /\ q.frag = 0 /\ q.next = next /\ q.bytes = <<>>
  BY DEF EmptyPage
<1>2. q \in Page
  <2>1. <<>> \in Bytes
    <3>1. <<>> = [o \in {} |-> 0]
      OBVIOUS
    <3>2. <<>> \in [{} -> Unit]
      BY <3>1
    <3> QED
      BY <3>2 DEF Bytes
  <2>2. <<>> \in Seq(Slot)
    OBVIOUS
  <2>3. HeaderSize \in HeaderSize..PageSize /\ PageSize \in HeaderSize..PageSize /\ 0 \in 0..PageSize
    BY Sizes
  <2> QED
    BY <2>1, <2>2, <2>3 DEF EmptyPage, Page
<1> HIDE DEF q
<1>3. DOMAIN q.slots = {} /\ Len(q.slots) = 0
  BY <1>1
<1>4. LiveSlots(q) = {} /\ DeadSlots(q) = {}
  BY <1>3 DEF LiveSlots, DeadSlots
<1>5. Cells(q) = {}
  BY <1>4 DEF Cells
<1>6. Cardinality(Cells(q)) = 0
  BY <1>5, FS_EmptySet
<1>7. SlotSize * 0 = 0 /\ DOMAIN <<>> = {}
  BY Sizes
<1>8. SoundPage(q)
  BY <1>1, <1>3, <1>4, <1>5, <1>6, <1>7, Sizes DEF SoundPage
<1>9. Sound(q) /\ LiveSlots(q) = {} /\ q.next = next
  BY <1>1, <1>2, <1>4, <1>8 DEF Sound
<1> QED
  BY <1>9 DEF q

\* The live slots left when s is erased.
Left(p, s) == LiveSlots(p) \ {s}

\* How much of the directory is left.
UsedAfter(p, s) == Max({0} \cup Left(p, s))

LEMMA UsedAfterIs ==
    ASSUME NEW p, Sound(p), NEW s \in LiveSlots(p)
    PROVE  /\ UsedAfter(p, s) \in 0..Len(p.slots)
           /\ \A t \in Left(p, s) : t \in 1..UsedAfter(p, s)
           /\ UsedAfter(p, s) # 0 => UsedAfter(p, s) \in Left(p, s)
<1> DEFINE T == {0} \cup Left(p, s)
<1>0. Len(p.slots) \in Nat /\ \A t \in Left(p, s) : t \in 1..Len(p.slots)
  BY PageFields DEF Sound, Left
<1>1. T \in SUBSET (0..Len(p.slots)) /\ T # {}
  BY <1>0
<1>2. Max(T) \in T /\ \A y \in T : y <= Max(T)
  BY <1>0, <1>1, MaxIs
<1>3. UsedAfter(p, s) \in T /\ \A y \in T : y <= UsedAfter(p, s)
  BY <1>2 DEF UsedAfter
<1> QED
  BY <1>0, <1>3

LEMMA ErasedFields ==
    ASSUME NEW p, Sound(p), NEW s \in LiveSlots(p)
    PROVE  LET q == Erased(p, s)
               n == UsedAfter(p, s)
           IN  /\ q = [slots |-> q.slots, freeStart |-> p.freeStart - SlotSize * (Len(p.slots) - n),
                       freeEnd |-> p.freeEnd, frag |-> p.frag + p.slots[s].len,
                       next |-> p.next, bytes |-> [o \in DOMAIN p.bytes \ CellOf(p, s) |-> p.bytes[o]]]
               /\ q.slots \in Seq(Slot)
               /\ Len(q.slots) = n
               /\ \A t \in 1..n : q.slots[t] = IF t = s THEN DeadSlot ELSE p.slots[t]
<1> DEFINE slots == [p.slots EXCEPT ![s] = DeadSlot]
           n     == UsedAfter(p, s)
<1>0. /\ Len(p.slots) \in Nat /\ DOMAIN p.slots = 1..Len(p.slots) /\ p.slots \in Seq(Slot)
      /\ s \in DOMAIN p.slots /\ LiveSlots(p) \subseteq DOMAIN p.slots
  BY PageFields DEF Sound, Page
<1>1. p = [slots |-> p.slots, freeStart |-> p.freeStart, freeEnd |-> p.freeEnd,
           frag |-> p.frag, next |-> p.next, bytes |-> p.bytes]
  BY DEF Sound, Page
<1>2. DeadSlot \in Slot
  BY Sizes DEF DeadSlot, Slot
<1>3. slots \in Seq(Slot) /\ Len(slots) = Len(p.slots) /\ DOMAIN slots = DOMAIN p.slots
  BY <1>0, <1>2
<1>4. \A t \in DOMAIN p.slots : slots[t] = IF t = s THEN DeadSlot ELSE p.slots[t]
  BY <1>0
<1>5. {t \in DOMAIN slots : slots[t] # DeadSlot} = Left(p, s)
  <2>1. \A t \in LiveSlots(p) : p.slots[t] # DeadSlot
    BY DEF LiveSlots, IsLive, DeadSlot
  <2>2. \A t \in DOMAIN p.slots : t \notin LiveSlots(p) => p.slots[t] = DeadSlot
    BY DEF Sound, SoundPage, DeadSlots
  <2> HIDE DEF slots
  <2> QED
    BY <1>0, <1>3, <1>4, <2>1, <2>2 DEF Left
<1>6. Erased(p, s) = [p EXCEPT !.slots     = SubSeq(slots, 1, n),
                               !.freeStart = @ - SlotSize * (Len(p.slots) - n),
                               !.frag      = @ + p.slots[s].len,
                               !.bytes     = [o \in DOMAIN p.bytes \ CellOf(p, s) |-> p.bytes[o]]]
  BY <1>5, Zenon DEF Erased, UsedAfter, Restrict
<1>7. n \in 0..Len(p.slots)
  BY UsedAfterIs
<1> HIDE DEF slots, n
<1>8. /\ SubSeq(slots, 1, n) \in Seq(Slot) /\ Len(SubSeq(slots, 1, n)) = n
      /\ \A t \in 1..n : SubSeq(slots, 1, n)[t] = slots[t]
  BY <1>0, <1>3, <1>7
<1>9. \A t \in 1..n : SubSeq(slots, 1, n)[t] = IF t = s THEN DeadSlot ELSE p.slots[t]
  BY <1>0, <1>4, <1>7, <1>8
<1>10. Erased(p, s) = [slots |-> SubSeq(slots, 1, n), freeStart |-> p.freeStart - SlotSize * (Len(p.slots) - n),
                       freeEnd |-> p.freeEnd, frag |-> p.frag + p.slots[s].len,
                       next |-> p.next, bytes |-> [o \in DOMAIN p.bytes \ CellOf(p, s) |-> p.bytes[o]]]
  BY <1>1, <1>6
<1>11. Erased(p, s).slots = SubSeq(slots, 1, n)
  <2> DEFINE S == SubSeq(slots, 1, n)
             B == [o \in DOMAIN p.bytes \ CellOf(p, s) |-> p.bytes[o]]
             F == p.freeStart - SlotSize * (Len(p.slots) - n)
             G == p.frag + p.slots[s].len
  <2>1. Erased(p, s) = [slots |-> S, freeStart |-> F, freeEnd |-> p.freeEnd, frag |-> G,
                        next |-> p.next, bytes |-> B]
    BY <1>10
  <2> HIDE DEF S, B, F, G
  <2>2. Erased(p, s).slots = S
    BY <2>1
  <2> QED
    BY <2>2 DEF S
<1> QED
  BY <1>8, <1>9, <1>10, <1>11 DEF n

\* The slots of the page after s is erased.
LEMMA ErasedSlots ==
    ASSUME NEW p, Sound(p), NEW s \in LiveSlots(p)
    PROVE  LET q == Erased(p, s)
           IN  /\ LiveSlots(q) = Left(p, s)
               /\ \A t \in Left(p, s) : q.slots[t] = p.slots[t]
               /\ \A t \in DeadSlots(q) : q.slots[t] = DeadSlot
               /\ q.slots # <<>> => IsLive(q, Len(q.slots))
<1> DEFINE q == Erased(p, s)
           n == UsedAfter(p, s)
<1>1. /\ q.slots \in Seq(Slot) /\ Len(q.slots) = n
      /\ \A t \in 1..n : q.slots[t] = IF t = s THEN DeadSlot ELSE p.slots[t]
  BY ErasedFields
<1>2. n \in Nat /\ n <= Len(p.slots) /\ Len(p.slots) \in Nat /\ DOMAIN p.slots = 1..Len(p.slots)
  BY UsedAfterIs, PageFields DEF Sound
<1>3. \A t \in Left(p, s) : t \in 1..n /\ t # s
  BY UsedAfterIs DEF Left
<1>4. n # 0 => n \in Left(p, s)
  BY UsedAfterIs
<1>5. \A t \in Left(p, s) : p.slots[t].off # 0
  BY DEF Left, LiveSlots, IsLive
<1>6. \A t \in DOMAIN p.slots : t \notin LiveSlots(p) => p.slots[t] = DeadSlot
  BY DEF Sound, SoundPage, DeadSlots
<1> HIDE DEF q, n
<1>7. DOMAIN q.slots = 1..n
  BY <1>1
<1>8. \A t \in Left(p, s) : q.slots[t] = p.slots[t] /\ IsLive(q, t)
  BY <1>1, <1>3, <1>5, <1>7 DEF IsLive
<1>9. \A t \in 1..n : t \notin Left(p, s) => q.slots[t] = DeadSlot
  BY <1>1, <1>2, <1>6 DEF Left
<1>10. \A t \in 1..n : t \notin Left(p, s) => ~IsLive(q, t)
  BY <1>9 DEF IsLive, DeadSlot
<1>11. LiveSlots(q) = Left(p, s)
  BY <1>3, <1>7, <1>8, <1>10 DEF LiveSlots
<1>12. \A t \in DeadSlots(q) : q.slots[t] = DeadSlot
  BY <1>7, <1>9, <1>11 DEF DeadSlots
<1>13. q.slots # <<>> => IsLive(q, Len(q.slots))
  <2> SUFFICES ASSUME q.slots # <<>> PROVE IsLive(q, Len(q.slots))
    OBVIOUS
  <2>1. n # 0
    BY <1>1
  <2> QED
    BY <1>1, <1>4, <1>8, <2>1
<1>14. /\ LiveSlots(q) = Left(p, s)
       /\ \A t \in Left(p, s) : q.slots[t] = p.slots[t]
       /\ \A t \in DeadSlots(q) : q.slots[t] = DeadSlot
       /\ q.slots # <<>> => IsLive(q, Len(q.slots))
  BY <1>8, <1>11, <1>12, <1>13
<1> QED
  BY <1>14 DEF q

\* erase of a record keeps the page sound, and every other record its slot and
\* its bytes (slotted_page.hpp:111-112).
THEOREM ErasedSound ==
    ASSUME NEW p, Sound(p), NEW s \in LiveSlots(p)
    PROVE  /\ Sound(Erased(p, s))
           /\ Erased(p, s).next = p.next
           /\ LiveSlots(Erased(p, s)) = LiveSlots(p) \ {s}
           /\ \A t \in LiveSlots(p) \ {s} : ReadSlot(Erased(p, s), t) = ReadSlot(p, t)
<1> DEFINE q == Erased(p, s)
           n == UsedAfter(p, s)
           B == [o \in DOMAIN p.bytes \ CellOf(p, s) |-> p.bytes[o]]
           F == p.freeStart - SlotSize * (Len(p.slots) - n)
           G == p.frag + p.slots[s].len
<1>1. /\ q = [slots |-> q.slots, freeStart |-> F, freeEnd |-> p.freeEnd, frag |-> G,
              next |-> p.next, bytes |-> B]
      /\ q.slots \in Seq(Slot) /\ Len(q.slots) = n
  BY ErasedFields
<1>2. /\ LiveSlots(q) = Left(p, s)
      /\ \A t \in Left(p, s) : q.slots[t] = p.slots[t]
      /\ \A t \in DeadSlots(q) : q.slots[t] = DeadSlot
      /\ q.slots # <<>> => IsLive(q, Len(q.slots))
  BY ErasedSlots
<1>3. /\ n \in Nat /\ Len(p.slots) \in Nat /\ n <= Len(p.slots)
      /\ p.freeStart = HeaderSize + SlotSize * Len(p.slots)
      /\ p.freeStart <= p.freeEnd /\ p.freeEnd \in HeaderSize..PageSize
      /\ p.freeStart \in Nat /\ p.freeEnd \in Nat
      /\ p.frag \in Nat /\ p.next \in Nat /\ p.bytes \in Bytes
  BY UsedAfterIs, PageFields DEF Sound, Page, SoundPage
<1>4. F = HeaderSize + SlotSize * n /\ F \in HeaderSize..PageSize /\ F <= p.freeEnd
  <2>1. SlotSize * Len(p.slots) - SlotSize * (Len(p.slots) - n) = SlotSize * n
    BY <1>3, Directory
  <2>2. SlotSize * n \in Nat /\ SlotSize * Len(p.slots) \in Nat /\ SlotSize * n <= SlotSize * Len(p.slots)
        /\ SlotSize * (Len(p.slots) - n) \in Nat
    <3>1. Len(p.slots) - n \in Nat
      BY <1>3
    <3> HIDE DEF n
    <3>2. SlotSize * (Len(p.slots) - n) \in Nat
      BY <3>1, Directory
    <3> QED
      BY <1>3, <3>2, Directory
  <2> DEFINE x == SlotSize * n
             y == SlotSize * Len(p.slots)
             z == SlotSize * (Len(p.slots) - n)
  <2>3. /\ x \in Nat /\ y \in Nat /\ z \in Nat /\ y - z = x /\ x <= y
        /\ p.freeStart = HeaderSize + y /\ F = p.freeStart - z
    BY <1>3, <2>1, <2>2
  <2> HIDE DEF x, y, z, F
  <2>4. F = HeaderSize + x /\ F \in HeaderSize..PageSize /\ F <= p.freeEnd
    BY <1>3, <2>3, Sizes
  <2> QED
    BY <2>4 DEF x
<1>5. /\ p.slots[s].len \in Nat /\ IsFiniteSet(CellOf(p, s)) /\ Cardinality(CellOf(p, s)) = p.slots[s].len
  BY CellFacts
<1>6. \A t \in Left(p, s) : t \in LiveSlots(p) /\ t # s /\ CellOf(p, t) \cap CellOf(p, s) = {}
  BY CellsOfPage DEF Left
<1> HIDE DEF q, n, B, F, G
<1>7. /\ q.freeStart = F /\ q.freeEnd = p.freeEnd /\ q.frag = G /\ q.next = p.next /\ q.bytes = B
  BY <1>1
<1>8. \A t \in Left(p, s) : CellOf(q, t) = CellOf(p, t)
  BY <1>2 DEF CellOf
<1>9. Cells(q) = UNION {CellOf(p, t) : t \in Left(p, s)}
  BY <1>2, <1>8 DEF Cells
<1>10. Cells(p) = Cells(q) \cup CellOf(p, s) /\ Cells(q) \cap CellOf(p, s) = {}
  <2>1. LiveSlots(p) = Left(p, s) \cup {s}
    BY DEF Left
  <2> QED
    BY <1>6, <1>9, <2>1 DEF Cells
<1>11. IsFiniteSet(Cells(q)) /\ Cardinality(Cells(p)) = Cardinality(Cells(q)) + p.slots[s].len /\ Cardinality(Cells(q)) \in Nat
  <2>1. IsFiniteSet(Cells(q))
    BY <1>10, CellsOfPage, FS_Subset
  <2> QED
    BY <1>5, <1>10, <2>1, DisjointUnion
<1>12. G = PageSize - p.freeEnd - Cardinality(Cells(q)) /\ G \in 0..PageSize
  <2>1. p.frag = PageSize - p.freeEnd - Cardinality(Cells(p))
    BY CellsOfPage
  <2>2. G = p.frag + p.slots[s].len
    BY DEF G
  <2> DEFINE c == Cardinality(Cells(q))
             d == Cardinality(Cells(p))
             l == p.slots[s].len
  <2>3. /\ c \in Nat /\ l \in Nat /\ d = c + l /\ PageSize \in Nat
        /\ p.frag = PageSize - p.freeEnd - d /\ G = p.frag + l /\ p.frag \in Nat /\ p.freeEnd \in Nat
    BY <1>3, <1>5, <1>11, <2>1, <2>2, Sizes
  <2> HIDE DEF c, d, l
  <2>4. G = PageSize - p.freeEnd - c /\ G \in 0..PageSize
    BY <2>3
  <2> QED
    BY <2>4 DEF c
<1>13. DOMAIN B = Cells(q) /\ B \in Bytes
  <2>1. DOMAIN p.bytes = Cells(p)
    BY CellsOfPage
  <2>2. DOMAIN B = Cells(q)
    BY <1>10, <2>1 DEF B
  <2>3. DOMAIN p.bytes \subseteq Offsets /\ \A o \in DOMAIN p.bytes : p.bytes[o] \in Unit
    BY <1>3, BytesFacts
  <2>4. \A o \in DOMAIN B : B[o] \in Unit
    BY <2>3 DEF B
  <2>5. DOMAIN B \subseteq Offsets /\ B = [o \in DOMAIN B |-> B[o]]
    BY <2>3 DEF B
  <2> QED
    BY <2>2, <2>4, <2>5, BytesFacts
<1>14. q \in Page
  BY <1>1, <1>3, <1>4, <1>12, <1>13 DEF Page
<1>15. \A t \in LiveSlots(q) : q.slots[t].len > 0 /\ CellOf(q, t) \subseteq q.freeEnd..PageSize - 1
  BY <1>2, <1>6, <1>7, <1>8, CellFacts
<1>16. \A t, u \in LiveSlots(q) : t # u => CellOf(q, t) \cap CellOf(q, u) = {}
  BY <1>2, <1>6, <1>8, CellsOfPage
<1>17. SoundPage(q)
  <2>1. q.freeStart = HeaderSize + SlotSize * Len(q.slots) /\ q.freeStart <= q.freeEnd
    BY <1>1, <1>4, <1>7
  <2>2. q.frag = PageSize - q.freeEnd - Cardinality(Cells(q)) /\ Cells(q) = DOMAIN q.bytes
    BY <1>7, <1>12, <1>13
  <2> QED
    BY <1>2, <1>15, <1>16, <2>1, <2>2 DEF SoundPage
<1>18. ASSUME NEW t \in Left(p, s)
       PROVE  ReadSlot(q, t) = ReadSlot(p, t)
  <2>1. p.slots[t].off \in Nat /\ p.slots[t].len \in Nat /\ q.slots[t] = p.slots[t]
    BY <1>2, <1>6, CellFacts
  <2>2. CellOf(p, t) \subseteq DOMAIN p.bytes \ CellOf(p, s)
    BY <1>6, CellsOfPage
  <2>3. \A o \in CellOf(p, t) : q.bytes[o] = p.bytes[o]
    BY <1>7, <2>2 DEF B
  <2> QED
    BY <2>1, <2>3, SameRead
<1>19. /\ Sound(q) /\ q.next = p.next /\ LiveSlots(q) = LiveSlots(p) \ {s}
       /\ \A t \in LiveSlots(p) \ {s} : ReadSlot(q, t) = ReadSlot(p, t)
  BY <1>2, <1>7, <1>14, <1>17, <1>18 DEF Sound, Left
<1> QED
  BY <1>19 DEF q

\* insert, on a page whose free bytes are together.
Put(q, rec) ==
    LET off  == q.freeEnd - Len(rec)
        slot == [off |-> off, len |-> Len(rec)]
        cell == off..q.freeEnd - 1
        grow == DeadSlots(q) = {}
    IN  [q EXCEPT !.bytes     = [o \in cell \cup DOMAIN @ |-> IF o \in cell THEN rec[o - off + 1] ELSE @[o]],
                  !.freeEnd   = off,
                  !.freeStart = IF grow THEN @ + SlotSize ELSE @,
                  !.slots     = IF grow THEN Append(@, slot) ELSE [@ EXCEPT ![SlotFor(q)] = slot]]

LEMMA PutSlots ==
    ASSUME NEW q, Sound(q), NEW rec \in Seq(Unit), NEW off \in 1..PageSize - 1,
           Len(rec) \in 1..MaxRecordSize
    PROVE  LET n     == SlotFor(q)
               slot  == [off |-> off, len |-> Len(rec)]
               grow  == DeadSlots(q) = {}
               slots == IF grow THEN Append(q.slots, slot) ELSE [q.slots EXCEPT ![n] = slot]
           IN  /\ n \in Nat /\ n \notin LiveSlots(q)
               /\ slots \in Seq(Slot)
               /\ Len(slots) = Len(q.slots) + IF grow THEN 1 ELSE 0
               /\ slots[n] = slot /\ n \in 1..Len(slots)
               /\ \A t \in DOMAIN q.slots : t # n => slots[t] = q.slots[t]
               /\ DOMAIN slots = DOMAIN q.slots \cup {n}
               /\ grow => n = Len(slots)
<1> DEFINE n     == SlotFor(q)
           slot  == [off |-> off, len |-> Len(rec)]
           grow  == DeadSlots(q) = {}
           slots == IF grow THEN Append(q.slots, slot) ELSE [q.slots EXCEPT ![n] = slot]
<1>0. /\ Len(q.slots) \in Nat /\ DOMAIN q.slots = 1..Len(q.slots) /\ q.slots \in Seq(Slot)
      /\ LiveSlots(q) \subseteq DOMAIN q.slots
  BY PageFields DEF Sound, Page
<1>1. slot \in Slot
  <2>1. Len(rec) \in 0..PageSize
    BY Sizes DEF MaxRecordSize
  <2> QED
    BY <2>1, Sizes DEF Slot
<1> HIDE DEF slot
<1>2. CASE grow
  <2>1. n = Len(q.slots) + 1
    BY <1>2, Zenon DEF SlotFor
  <2>2. slots = Append(q.slots, slot)
    BY <1>2
  <2> HIDE DEF n, slots
  <2>3. /\ slots \in Seq(Slot) /\ Len(slots) = Len(q.slots) + 1 /\ slots[n] = slot
        /\ \A t \in DOMAIN q.slots : slots[t] = q.slots[t]
    BY <1>0, <1>1, <2>1, <2>2
  <2>4. n \in Nat /\ n \notin LiveSlots(q) /\ n \in 1..Len(slots) /\ n = Len(slots)
    BY <1>0, <2>1, <2>3
  <2>5. DOMAIN slots = DOMAIN q.slots \cup {n}
    <3>1. DOMAIN slots = 1..Len(q.slots) + 1
      BY <1>0, <2>3
    <3>2. 1..Len(q.slots) + 1 = (1..Len(q.slots)) \cup {Len(q.slots) + 1}
      BY <1>0
    <3> QED
      BY <1>0, <2>1, <3>1, <3>2
  <2>6. /\ n \in Nat /\ n \notin LiveSlots(q)
        /\ slots \in Seq(Slot)
        /\ Len(slots) = Len(q.slots) + IF grow THEN 1 ELSE 0
        /\ slots[n] = slot /\ n \in 1..Len(slots)
        /\ \A t \in DOMAIN q.slots : t # n => slots[t] = q.slots[t]
        /\ DOMAIN slots = DOMAIN q.slots \cup {n}
        /\ grow => n = Len(slots)
    BY <1>2, <2>3, <2>4, <2>5
  <2> QED
    BY <2>6 DEF n, slots, slot
<1>3. CASE ~grow
  <2>1. n = Min(DeadSlots(q))
    BY <1>3, Zenon DEF SlotFor
  <2>2. slots = [q.slots EXCEPT ![n] = slot]
    BY <1>3
  <2>3. DeadSlots(q) \in SUBSET Nat /\ DeadSlots(q) # {}
    BY <1>0, <1>3 DEF DeadSlots
  <2>4. n \in DeadSlots(q)
    BY <2>1, <2>3, MinIs, Zenon
  <2> HIDE DEF n, slots
  <2>5. n \in DOMAIN q.slots /\ n \notin LiveSlots(q)
    BY <2>4 DEF DeadSlots
  <2>6. /\ slots \in Seq(Slot) /\ Len(slots) = Len(q.slots) /\ slots[n] = slot
        /\ \A t \in DOMAIN q.slots : t # n => slots[t] = q.slots[t]
        /\ DOMAIN slots = DOMAIN q.slots
    BY <1>0, <1>1, <2>2, <2>5
  <2>7. /\ n \in Nat /\ n \in 1..Len(slots) /\ DOMAIN slots = DOMAIN q.slots \cup {n}
        /\ Len(slots) = Len(q.slots) + 0
    BY <1>0, <2>5, <2>6
  <2>8. /\ n \in Nat /\ n \notin LiveSlots(q)
        /\ slots \in Seq(Slot)
        /\ Len(slots) = Len(q.slots) + IF grow THEN 1 ELSE 0
        /\ slots[n] = slot /\ n \in 1..Len(slots)
        /\ \A t \in DOMAIN q.slots : t # n => slots[t] = q.slots[t]
        /\ DOMAIN slots = DOMAIN q.slots \cup {n}
        /\ grow => n = Len(slots)
    BY <1>3, <2>5, <2>6, <2>7
  <2> QED
    BY <2>8 DEF n, slots, slot
<1> QED
  BY <1>2, <1>3

LEMMA PutSound ==
    ASSUME NEW q, Sound(q), NEW rec \in Seq(Unit),
           Len(rec) \in 1..MaxRecordSize, ContiguousFree(q) >= Need(q, rec)
    PROVE  /\ Sound(Put(q, rec))
           /\ Put(q, rec).next = q.next
           /\ SlotFor(q) \notin LiveSlots(q)
           /\ LiveSlots(Put(q, rec)) = LiveSlots(q) \cup {SlotFor(q)}
           /\ ReadSlot(Put(q, rec), SlotFor(q)) = rec
           /\ \A t \in LiveSlots(q) : ReadSlot(Put(q, rec), t) = ReadSlot(q, t)
<1> DEFINE off   == q.freeEnd - Len(rec)
           slot  == [off |-> off, len |-> Len(rec)]
           cell  == off..q.freeEnd - 1
           grow  == DeadSlots(q) = {}
           n     == SlotFor(q)
           slots == IF grow THEN Append(q.slots, slot) ELSE [q.slots EXCEPT ![n] = slot]
           B     == [o \in cell \cup DOMAIN q.bytes |-> IF o \in cell THEN rec[o - off + 1] ELSE q.bytes[o]]
           F     == IF grow THEN q.freeStart + SlotSize ELSE q.freeStart
           r     == Put(q, rec)
<1>0. /\ Len(q.slots) \in Nat /\ DOMAIN q.slots = 1..Len(q.slots) /\ q.slots \in Seq(Slot)
      /\ q.freeStart = HeaderSize + SlotSize * Len(q.slots) /\ SlotSize * Len(q.slots) \in Nat
      /\ q.freeStart <= q.freeEnd /\ q.freeEnd \in Nat /\ q.freeEnd <= PageSize /\ q.freeStart \in Nat
      /\ q.frag \in 0..PageSize /\ q.next \in Nat /\ q.bytes \in Bytes
      /\ HeaderSize \in Nat /\ HeaderSize > 0 /\ PageSize \in Nat /\ SlotSize \in Nat
      /\ LiveSlots(q) \subseteq DOMAIN q.slots
  BY PageFields, Sizes, Directory DEF Sound, Page, SoundPage
<1>1. Len(rec) \in Nat /\ Len(rec) > 0 /\ Len(rec) <= PageSize
  BY Sizes DEF MaxRecordSize
<1>2. /\ F \in HeaderSize..PageSize /\ F <= off
      /\ off \in HeaderSize..PageSize /\ off \in 1..PageSize - 1 /\ off + Len(rec) = q.freeEnd
  <2> DEFINE more == IF grow THEN SlotSize ELSE 0
  <2>1. q.freeEnd - q.freeStart >= Len(rec) + more
    BY DEF ContiguousFree, Need
  <2>2. more \in Nat /\ F = q.freeStart + more
    <3>1. CASE grow
      BY <1>0, <3>1
    <3>2. CASE ~grow
      <4>1. more = 0 /\ F = q.freeStart
        BY <3>2
      <4> HIDE DEF more, F
      <4> QED
        BY <1>0, <4>1
    <3> QED
      BY <3>1, <3>2
  <2>3. q.freeStart >= HeaderSize
    <3> DEFINE d == SlotSize * Len(q.slots)
    <3>1. q.freeStart = HeaderSize + d /\ d \in Nat
      BY <1>0
    <3> HIDE DEF d
    <3> QED
      BY <1>0, <3>1
  <2>4. /\ q.freeStart \in Nat /\ q.freeEnd \in Nat /\ q.freeEnd <= PageSize /\ HeaderSize \in Nat
        /\ HeaderSize > 0 /\ PageSize \in Nat
    BY <1>0
  <2> DEFINE l == Len(rec)
             a == q.freeStart
             e == q.freeEnd
  <2>5. /\ a \in Nat /\ e \in Nat /\ e <= PageSize /\ HeaderSize \in Nat /\ HeaderSize > 0 /\ PageSize \in Nat
        /\ l \in Nat /\ l > 0 /\ e - a >= l + more /\ more \in Nat /\ F = a + more /\ a >= HeaderSize
        /\ off = e - l
    BY <1>1, <2>1, <2>2, <2>3, <2>4
  <2> HIDE DEF more, F, l, a, e, off
  <2>6. off \in Int /\ F \in Int /\ F <= off /\ F >= HeaderSize /\ off < PageSize /\ off > 0 /\ off + l = e
    BY <2>5
  <2>7. F \in HeaderSize..PageSize /\ off \in HeaderSize..PageSize /\ off \in 1..PageSize - 1
    BY <2>5, <2>6
  <2> QED
    BY <2>6, <2>7 DEF l, e
<1>3. r = [slots |-> slots, freeStart |-> F, freeEnd |-> off, frag |-> q.frag,
           next |-> q.next, bytes |-> B]
  <2>1. q = [slots |-> q.slots, freeStart |-> q.freeStart, freeEnd |-> q.freeEnd,
             frag |-> q.frag, next |-> q.next, bytes |-> q.bytes]
    BY DEF Sound, Page
  <2>2. r = [q EXCEPT !.bytes = B, !.freeEnd = off, !.freeStart = F, !.slots = slots]
    BY Zenon DEF Put
  <2> HIDE DEF B, off, F, slots, r
  <2> QED
    BY <2>1, <2>2
<1>4. /\ n \in Nat /\ n \notin LiveSlots(q)
      /\ slots \in Seq(Slot)
      /\ Len(slots) = Len(q.slots) + IF grow THEN 1 ELSE 0
      /\ slots[n] = slot /\ n \in 1..Len(slots)
      /\ \A t \in DOMAIN q.slots : t # n => slots[t] = q.slots[t]
      /\ DOMAIN slots = DOMAIN q.slots \cup {n}
      /\ grow => n = Len(slots)
  <2> HIDE DEF off
  <2> QED
    BY <1>2, PutSlots
<1>5. /\ DOMAIN slots = DOMAIN q.slots \cup {n} /\ slots[n] = slot
       /\ n \notin LiveSlots(q)
       /\ \A t \in DOMAIN q.slots : t # n => slots[t] = q.slots[t]
  BY <1>4
<1>6. slots[n].off = off /\ slots[n].len = Len(rec)
  BY <1>4
<1>7. /\ DOMAIN B = cell \cup DOMAIN q.bytes
      /\ \A o \in cell : B[o] = rec[o - off + 1]
      /\ \A o \in DOMAIN q.bytes \ cell : B[o] = q.bytes[o]
      /\ B = [o \in DOMAIN B |-> B[o]]
  BY Zenon
<1> HIDE DEF r, n, slots, B, F, off, grow, slot
<1>8. r.slots = slots /\ r.freeStart = F /\ r.freeEnd = off /\ r.frag = q.frag /\ r.next = q.next /\ r.bytes = B
  BY <1>3
<1>9. /\ \A t \in LiveSlots(q) : r.slots[t] = q.slots[t] /\ IsLive(r, t) /\ CellOf(r, t) = CellOf(q, t)
      /\ IsLive(r, n)
  <2>1. IsLive(r, n)
    <3>1. off # 0 /\ n \in DOMAIN slots
      BY <1>2, <1>5
    <3> QED
      BY <1>6, <1>8, <3>1 DEF IsLive
  <2>2. ASSUME NEW t \in LiveSlots(q)
        PROVE  r.slots[t] = q.slots[t] /\ IsLive(r, t)
    <3>1. t \in DOMAIN q.slots /\ t # n /\ q.slots[t].off # 0
      BY <1>5 DEF LiveSlots, IsLive
    <3> QED
      BY <1>5, <1>8, <3>1 DEF IsLive
  <2> QED
    BY <2>1, <2>2 DEF CellOf
<1>10. LiveSlots(r) = LiveSlots(q) \cup {n} /\ \A t \in DeadSlots(r) : r.slots[t] = DeadSlot
  <2>1. ASSUME NEW t \in DOMAIN q.slots, t # n, t \notin LiveSlots(q)
        PROVE  ~IsLive(r, t) /\ r.slots[t] = DeadSlot
    <3>1. q.slots[t] = DeadSlot
      BY <2>1 DEF Sound, SoundPage, DeadSlots
    <3> QED
      BY <1>8, <1>5, <2>1, <3>1 DEF IsLive, DeadSlot
  <2>2. DOMAIN r.slots = DOMAIN q.slots \cup {n}
    BY <1>5, <1>8
  <2>3. LiveSlots(r) = LiveSlots(q) \cup {n}
    BY <1>0, <1>9, <2>1, <2>2 DEF LiveSlots
  <2> QED
    BY <2>1, <2>2, <2>3 DEF DeadSlots
<1>11. CellOf(r, n) = cell
  <2>1. off + Len(rec) - 1 = q.freeEnd - 1
    BY <1>0, <1>1, <1>2
  <2> QED
    BY <1>6, <1>8, <2>1 DEF CellOf
<1>12. /\ Cells(r) = Cells(q) \cup cell /\ Cells(q) \cap cell = {}
       /\ IsFiniteSet(cell) /\ Cardinality(cell) = Len(rec)
  <2>1. Cells(r) = Cells(q) \cup cell
    BY <1>9, <1>10, <1>11 DEF Cells
  <2>2. Cells(q) \subseteq q.freeEnd..PageSize - 1
    BY CellsOfPage
  <2>3. Cells(q) \cap cell = {}
    BY <1>0, <1>2, <2>2
  <2>4. off \in Int /\ q.freeEnd - 1 \in Int /\ off <= (q.freeEnd - 1) + 1 /\ q.freeEnd - 1 - off + 1 = Len(rec)
    BY <1>0, <1>1, <1>2
  <2>5. IsFiniteSet(off..q.freeEnd - 1) /\ Cardinality(off..q.freeEnd - 1) = q.freeEnd - 1 - off + 1
    BY <2>4, IntervalSize
  <2> QED
    BY <2>1, <2>3, <2>4, <2>5
<1>13. r.frag = PageSize - r.freeEnd - Cardinality(Cells(r))
  <2> DEFINE c == Cardinality(Cells(q))
             d == Cardinality(Cells(r))
  <2>1. c \in Nat /\ d = c + Len(rec) /\ q.frag = PageSize - q.freeEnd - c
    BY <1>12, CellsOfPage, DisjointUnion
  <2> HIDE DEF c, d
  <2>2. r.frag = PageSize - r.freeEnd - d
    BY <1>0, <1>1, <1>2, <1>8, <2>1
  <2> QED
    BY <2>2 DEF d
<1>14. DOMAIN B = Cells(r) /\ B \in Bytes
  <2>1. DOMAIN q.bytes = Cells(q) /\ DOMAIN q.bytes \subseteq Offsets /\ \A o \in DOMAIN q.bytes : q.bytes[o] \in Unit
    BY <1>0, BytesFacts, CellsOfPage
  <2>2. DOMAIN B = Cells(r)
    BY <1>7, <1>12, <2>1
  <2>3. cell \subseteq Offsets
    BY <1>0, <1>2 DEF Offsets
  <2>4. \A o \in cell : o - off + 1 \in 1..Len(rec)
    BY <1>0, <1>1, <1>2
  <2>5. \A i \in 1..Len(rec) : rec[i] \in Unit
    OBVIOUS
  <2>6. \A o \in cell : B[o] \in Unit
    BY <1>7, <2>4, <2>5
  <2>7. \A o \in DOMAIN B : B[o] \in Unit
    BY <1>7, <2>1, <2>6
  <2>8. DOMAIN B \subseteq Offsets
    BY <1>7, <2>1, <2>3
  <2> QED
    BY <1>7, <2>2, <2>7, <2>8, BytesFacts
<1>15. r \in Page
  BY <1>0, <1>2, <1>3, <1>4, <1>14 DEF Page
<1>16. \A t \in LiveSlots(r) : r.slots[t].len > 0 /\ CellOf(r, t) \subseteq r.freeEnd..PageSize - 1
  <2>1. cell \subseteq off..PageSize - 1
    BY <1>0, <1>2
  <2>2. \A t \in LiveSlots(q) : q.slots[t].len > 0 /\ CellOf(q, t) \subseteq q.freeEnd..PageSize - 1
    BY CellFacts
  <2>3. q.freeEnd..PageSize - 1 \subseteq off..PageSize - 1
    BY <1>0, <1>1, <1>2
  <2> QED
    BY <1>1, <1>6, <1>8, <1>9, <1>10, <1>11, <2>1, <2>2, <2>3
<1>17. \A t, u \in LiveSlots(r) : t # u => CellOf(r, t) \cap CellOf(r, u) = {}
  <2>1. \A t \in LiveSlots(q) : CellOf(q, t) \cap cell = {}
    BY <1>12, CellsOfPage
  <2> QED
    BY <1>9, <1>10, <1>11, <2>1, CellsOfPage
<1>18. r.freeStart = HeaderSize + SlotSize * Len(r.slots) /\ r.freeStart <= r.freeEnd
  <2>1. CASE grow
    <3>1. F = q.freeStart + SlotSize /\ Len(r.slots) = Len(q.slots) + 1
      BY <1>4, <1>8, <2>1 DEF F
    <3>2. SlotSize * (Len(q.slots) + 1) = SlotSize * Len(q.slots) + SlotSize
      BY <1>0, Directory
    <3>3. F = HeaderSize + SlotSize * (Len(q.slots) + 1)
      BY <1>0, <3>1, <3>2
    <3> QED
      BY <1>2, <1>8, <3>1, <3>3
  <2>2. CASE ~grow
    <3>1. F = q.freeStart /\ Len(r.slots) = Len(q.slots)
      BY <1>0, <1>4, <1>8, <2>2 DEF F
    <3> QED
      BY <1>0, <1>2, <1>8, <3>1
  <2> QED
    BY <2>1, <2>2
<1>19. IsLive(r, Len(r.slots))
  <2>1. CASE grow
    BY <1>4, <1>8, <1>9, <2>1
  <2>2. CASE ~grow
    <3>1. Len(r.slots) = Len(q.slots) /\ Len(q.slots) # 0
      BY <1>0, <1>4, <1>8, <2>2
    <3>2. q.slots # <<>>
      BY <3>1
    <3>3. Len(q.slots) \in LiveSlots(q)
      BY <3>2 DEF Sound, SoundPage, LiveSlots, IsLive
    <3> QED
      BY <1>9, <3>1, <3>3
  <2> QED
    BY <2>1, <2>2
<1>20. SoundPage(r)
  BY <1>8, <1>10, <1>13, <1>14, <1>16, <1>17, <1>18, <1>19 DEF SoundPage
<1>21. ReadSlot(r, n) = rec
  <2>2. ASSUME NEW i \in 1..Len(rec)
        PROVE  r.bytes[r.slots[n].off + i - 1] = rec[i]
    <3> DEFINE o == off + i - 1
    <3>1. o \in cell /\ o - off + 1 = i
      BY <1>0, <1>1, <1>2
    <3> HIDE DEF o
    <3>2. B[o] = rec[i]
      BY <1>7, <3>1
    <3> QED
      BY <1>6, <1>8, <3>2 DEF o
  <2>3. ReadSlot(r, n) = [i \in 1..Len(rec) |-> rec[i]]
    BY <1>6, <1>8, <2>2, Zenon DEF ReadSlot
  <2> QED
    BY <2>3
<1>22. ASSUME NEW t \in LiveSlots(q)
       PROVE  ReadSlot(r, t) = ReadSlot(q, t)
  <2>1. q.slots[t].off \in Nat /\ q.slots[t].len \in Nat /\ r.slots[t] = q.slots[t]
    BY <1>9, CellFacts
  <2>2. CellOf(q, t) \subseteq DOMAIN q.bytes \ cell
    BY <1>12, CellsOfPage
  <2>3. \A o \in CellOf(q, t) : r.bytes[o] = q.bytes[o]
    BY <1>7, <1>8, <2>2
  <2> QED
    BY <2>1, <2>3, SameRead
<1>23. /\ Sound(r) /\ r.next = q.next /\ n \notin LiveSlots(q)
       /\ LiveSlots(r) = LiveSlots(q) \cup {n} /\ ReadSlot(r, n) = rec
       /\ \A t \in LiveSlots(q) : ReadSlot(r, t) = ReadSlot(q, t)
  BY <1>4, <1>8, <1>10, <1>15, <1>20, <1>21, <1>22 DEF Sound
<1> QED
  BY <1>23 DEF r, n

\* insert of a record that fits keeps the page sound, whether or not it is compacted
\* first: the record is read back as it was given, and every other record keeps its
\* slot and its bytes (slotted_page.hpp:52-83, 111-112).
THEOREM StoredSound ==
    ASSUME NEW p, Sound(p), NEW rec \in Seq(Unit), Fits(p, rec)
    PROVE  /\ Sound(Stored(p, rec))
           /\ Stored(p, rec).next = p.next
           /\ SlotFor(p) \notin LiveSlots(p)
           /\ LiveSlots(Stored(p, rec)) = LiveSlots(p) \cup {SlotFor(p)}
           /\ ReadSlot(Stored(p, rec), SlotFor(p)) = rec
           /\ \A t \in LiveSlots(p) : ReadSlot(Stored(p, rec), t) = ReadSlot(p, t)
<1> DEFINE q == IF ContiguousFree(p) < Need(p, rec) THEN Compacted(p) ELSE p
<1>1. /\ Sound(q) /\ q.next = p.next /\ LiveSlots(q) = LiveSlots(p) /\ DeadSlots(q) = DeadSlots(p)
      /\ Len(q.slots) = Len(p.slots)
      /\ \A t \in LiveSlots(p) : ReadSlot(q, t) = ReadSlot(p, t)
  BY CompactedSound, CompactedSlots
<1>2. SlotFor(q) = SlotFor(p) /\ Need(q, rec) = Need(p, rec)
  BY <1>1, Zenon DEF SlotFor, Need
<1>3. Len(rec) \in 1..MaxRecordSize /\ TotalFree(p) >= Need(p, rec)
  BY DEF Fits
<1>4. ContiguousFree(q) >= Need(q, rec)
  <2>1. CASE ContiguousFree(p) < Need(p, rec)
    BY <1>2, <1>3, <2>1, CompactedSound
  <2>2. CASE ~(ContiguousFree(p) < Need(p, rec))
    <3>1. ContiguousFree(p) \in Int
      BY PageFields DEF ContiguousFree, Sound
    <3>2. Need(p, rec) \in Int
      BY Sizes DEF Need
    <3> QED
      BY <1>2, <2>2, <3>1, <3>2
  <2> QED
    BY <2>1, <2>2
<1>5. Stored(p, rec) = Put(q, rec)
  <2>1. DeadSlots(q) = {} <=> DeadSlots(p) = {}
    BY <1>1
  <2> QED
    BY <1>1, <1>2, Zenon DEF Stored, Put
<1> HIDE DEF q
<1> QED
  BY <1>1, <1>2, <1>3, <1>4, <1>5, PutSound
=============================================================================
