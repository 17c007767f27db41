----------------------------- MODULE SlottedPage -----------------------------
(***************************************************************************)
(* The slotted page of labdb (src/src/slotted_page.hpp): records of any    *)
(* length in one page, each with a slot that keeps its number.             *)
(*                                                                         *)
(* The directory grows up from the header, the cells down from the end; a  *)
(* dead slot has offset 0.  An erased cell stays where it is, counted in   *)
(* frag, until the page is compacted.  A record is a sequence of units,    *)
(* and sizes are in units; slots are numbered from 1, offsets from 0.  The  *)
(* bytes that no record has are never read: they are left out.             *)
(***************************************************************************)
EXTENDS Integers, SequencesExt

CONSTANTS
    PageSize,     \* kPageSize
    HeaderSize,   \* kPageHeaderSize
    SlotSize,     \* kSlotSize
    Unit          \* what records are made of

ASSUME SlottedPageAssumption ==
    /\ HeaderSize \in Nat \ {0}
    /\ SlotSize \in Nat \ {0}
    /\ PageSize \in Nat /\ PageSize > HeaderSize + SlotSize

MaxRecordSize == PageSize - HeaderSize - SlotSize

Offsets == HeaderSize..PageSize-1
Slot    == [off : 0..PageSize-1, len : 0..PageSize]

Bytes   == UNION {[os -> Unit] : os \in SUBSET Offsets}

Page == [slots : Seq(Slot), freeStart : HeaderSize..PageSize, freeEnd : HeaderSize..PageSize,
         frag : 0..PageSize, next : Nat, bytes : Bytes]

DeadSlot == [off |-> 0, len |-> 0]

\* init, and the link that the heap gives the page.
EmptyPage(next) == [slots |-> <<>>, freeStart |-> HeaderSize, freeEnd |-> PageSize,
                    frag |-> 0, next |-> next, bytes |-> <<>>]

IsLive(p, s)  == s \in DOMAIN p.slots /\ p.slots[s].off # 0
LiveSlots(p)  == {s \in DOMAIN p.slots : IsLive(p, s)}
DeadSlots(p)  == DOMAIN p.slots \ LiveSlots(p)
CellOf(p, s)  == p.slots[s].off..p.slots[s].off + p.slots[s].len - 1

\* read, of a live slot.
ReadSlot(p, s) == [i \in 1..p.slots[s].len |-> p.bytes[p.slots[s].off + i - 1]]

ContiguousFree(p) == p.freeEnd - p.freeStart
TotalFree(p)      == ContiguousFree(p) + p.frag
-----------------------------------------------------------------------------
\* Where compact puts the cell of each slot: the live ones, in the order of
\* their slots, against the end of the page.
Packed(p) ==
    LET to[s \in 0..Len(p.slots)] == IF s = 0 THEN PageSize ELSE to[s - 1] - p.slots[s].len
    IN  to

\* (A mutant of Compacted: the bytes reclaimed are still counted as dead.)
CompactedKeepingFrag(p) ==
    [p EXCEPT !.slots   = [s \in DOMAIN @ |-> IF IsLive(p, s) THEN [@[s] EXCEPT !.off = Packed(p)[s]] ELSE @[s]],
              !.bytes   = [o \in Packed(p)[Len(p.slots)]..PageSize-1 |->
                              LET s == CHOOSE t \in LiveSlots(p) : o \in Packed(p)[t]..Packed(p)[t-1]-1
                              IN  p.bytes[p.slots[s].off + o - Packed(p)[s]]],
              !.freeEnd = Packed(p)[Len(p.slots)]]

\* compact.  The cells are moved through a scratch page, so none is overwritten
\* before it is read.
Compacted(p) ==
    [p EXCEPT !.slots   = [s \in DOMAIN @ |-> IF IsLive(p, s) THEN [@[s] EXCEPT !.off = Packed(p)[s]] ELSE @[s]],
              !.bytes   = [o \in Packed(p)[Len(p.slots)]..PageSize-1 |->
                              LET s == CHOOSE t \in LiveSlots(p) : o \in Packed(p)[t]..Packed(p)[t-1]-1
                              IN  p.bytes[p.slots[s].off + o - Packed(p)[s]]],
              !.freeEnd = Packed(p)[Len(p.slots)],
              !.frag    = 0]

\* insert reuses the first dead slot, which costs no room in the directory.
SlotFor(p) == IF DeadSlots(p) = {} THEN Len(p.slots) + 1 ELSE Min(DeadSlots(p))

Need(p, rec) == Len(rec) + IF DeadSlots(p) = {} THEN SlotSize ELSE 0

\* Whether insert takes the record.
Fits(p, rec) == Len(rec) \in 1..MaxRecordSize /\ TotalFree(p) >= Need(p, rec)

\* And the page after it.
Stored(p, rec) ==
    LET q    == IF ContiguousFree(p) < Need(p, rec) THEN Compacted(p) ELSE p
        off  == q.freeEnd - Len(rec)
        slot == [off |-> off, len |-> Len(rec)]
        cell == off..q.freeEnd - 1
        grow == DeadSlots(p) = {}
    IN  [q EXCEPT !.bytes     = [o \in cell \cup DOMAIN @ |-> IF o \in cell THEN rec[o - off + 1] ELSE @[o]],
                  !.freeEnd   = off,
                  !.freeStart = IF grow THEN @ + SlotSize ELSE @,
                  !.slots     = IF grow THEN Append(@, slot) ELSE [@ EXCEPT ![SlotFor(p)] = slot]]

\* (A mutant of Erased: the slots after it move down.)
ErasedShifting(p, s) ==
    [p EXCEPT !.slots = RemoveAt(@, s), !.freeStart = @ - SlotSize,
              !.frag = @ + p.slots[s].len, !.bytes = Restrict(@, DOMAIN @ \ CellOf(p, s))]

\* (A mutant of Erased: a dead slot gives its room back wherever it is.)
ErasedUntrimmed(p, s) ==
    [p EXCEPT !.slots[s] = DeadSlot, !.freeStart = @ - SlotSize,
              !.frag = @ + p.slots[s].len, !.bytes = Restrict(@, DOMAIN @ \ CellOf(p, s))]

\* erase of a live slot: its cell is dead, and the dead slots at the end of the
\* directory are given back.
Erased(p, s) ==
    LET slots == [p.slots EXCEPT ![s] = DeadSlot]
        used  == Max({0} \cup {t \in DOMAIN slots : slots[t] # DeadSlot})
    IN  [p EXCEPT !.slots     = SubSeq(slots, 1, used),
                  !.freeStart = @ - SlotSize * (Len(p.slots) - used),
                  !.frag      = @ + p.slots[s].len,
                  !.bytes     = Restrict(@, DOMAIN @ \ CellOf(p, s))]
-----------------------------------------------------------------------------
Cells(p) == UNION {CellOf(p, s) : s \in LiveSlots(p)}

\* The directory and the cells fit, no two cells share a byte, and frag is what
\* a compaction would bring: the arithmetic that insert relies on.
SoundPage(p) ==
    /\ p.freeStart = HeaderSize + SlotSize * Len(p.slots)
    /\ p.freeStart <= p.freeEnd
    /\ \A s \in LiveSlots(p) : p.slots[s].len > 0 /\ CellOf(p, s) \subseteq p.freeEnd..PageSize-1
    /\ \A s, t \in LiveSlots(p) : s # t => CellOf(p, s) \cap CellOf(p, t) = {}
    /\ p.frag = PageSize - p.freeEnd - Cardinality(Cells(p))
    /\ Cells(p) = DOMAIN p.bytes
    /\ \A s \in DeadSlots(p) : p.slots[s] = DeadSlot
    /\ p.slots # <<>> => IsLive(p, Len(p.slots))
=============================================================================
