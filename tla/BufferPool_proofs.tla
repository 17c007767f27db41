-------------------------- MODULE BufferPool_proofs --------------------------
(***************************************************************************)
(* Proofs about module BufferPool, for every number of frames, pages,      *)
(* writes and pins.                                                        *)
(***************************************************************************)
EXTENDS BufferPool, WellFoundedInduction, TLAPS

USE PoolAssumption

-----------------------------------------------------------------------------
(* The choice of a frame.                                                  *)

LEMMA LeastOf == ASSUME NEW S \in SUBSET Nat, S # {}
                 PROVE  \E x \in S : \A y \in S : x <= y
<1> DEFINE R == OpToRel(<, Nat)
<1>1. R = {ss \in Nat \X Nat : ss[1] < ss[2]}
  BY DEF OpToRel
<1>2. IsWellFoundedOn(R, Nat)
  BY NatLessThanWellFounded
<1> HIDE DEF R
<1>3. PICK x \in S : \A y \in S : ~(<<y, x>> \in R)
  BY <1>2, WFMin
<1>4. ASSUME NEW y \in S PROVE x <= y
  <2>1. <<y, x>> \in Nat \X Nat
    OBVIOUS
  <2> QED
    BY <1>1, <1>3, <2>1
<1> QED
  BY <1>4

LEMMA TurnNat == ASSUME hand \in Frames, NEW f \in Frames PROVE Turn(f) \in Nat
<1>1. f + Capacity - hand \in Nat /\ Capacity > 0
  BY DEF Frames
<1>2. \A a \in Nat, b \in Nat \ {0} : a % b \in Nat
  OBVIOUS
<1> QED
  BY <1>1, <1>2 DEF Turn

\* The victim is the frame the hand comes to first, of those it may take.
LEMMA VictimLeast ==
    ASSUME hand \in Frames, Unpinned # {}
    PROVE  /\ Victim \in IF Cold # {} THEN Cold ELSE Unpinned
           /\ \A g \in IF Cold # {} THEN Cold ELSE Unpinned : Turn(Victim) <= Turn(g)
<1> DEFINE S == IF Cold # {} THEN Cold ELSE Unpinned
           T == {Turn(f) : f \in S}
<1>1. S # {} /\ S \subseteq Unpinned /\ Unpinned \subseteq Frames
  BY DEF Cold, Unpinned
<1>2. T \in SUBSET Nat /\ T # {}
  BY <1>1, TurnNat
<1> HIDE DEF S
<1>3. PICK n \in T : \A m \in T : n <= m
  BY <1>2, LeastOf
<1>4. PICK f \in S : Turn(f) = n
  BY <1>3
<1>5. \A g \in S : Turn(f) <= Turn(g)
  BY <1>3, <1>4
<1>6. Victim = CHOOSE v \in S : \A g \in S : Turn(v) <= Turn(g)
  BY DEF Victim, S
<1>7. Victim \in S /\ \A g \in S : Turn(Victim) <= Turn(g)
  BY <1>4, <1>5, <1>6
<1> QED
  BY <1>7 DEF S

LEMMA VictimUnpinned == ASSUME hand \in Frames, Unpinned # {}
                        PROVE  Victim \in Unpinned
  BY VictimLeast DEF Cold

LEMMA NextHandIn == ASSUME NEW h \in Frames PROVE NextHand(h) \in Frames
<1>1. \A a \in Nat, b \in Nat \ {0} : a % b \in 0..b-1
  OBVIOUS
<1> QED
  BY <1>1 DEF NextHand, Frames

LEMMA HolderIs ==
    ASSUME Coherent, NEW f \in Frames, frame[f].id # NoPage
    PROVE  Resident(frame[f].id) /\ Holder(frame[f].id) = f
  BY DEF Coherent, Resident, Holder

LEMMA HolderOf ==
    ASSUME Coherent, NEW p \in DataPages, Resident(p)
    PROVE  Holder(p) \in Frames /\ frame[Holder(p)].id = p
  BY DEF Resident, Holder

\* Where obtain puts a page.
LEMMA TargetIs ==
    ASSUME TypeOK, Coherent, NEW p \in DataPages, Evicting(p) => Unpinned # {}
    PROVE  /\ Target(p) \in Frames
           /\ Resident(p) => frame[Target(p)].id = p
           /\ ~Resident(p) /\ ~Evicting(p) => frame[Target(p)].id = NoPage
           /\ ~Resident(p) => frame[Target(p)].id # p /\ frame[Target(p)].pins = 0
<1>0. NoPage \notin DataPages
  BY DEF NoPage, DataPages
<1>1. CASE Resident(p)
  BY <1>1, HolderOf DEF Target, Evicting
<1>2. CASE ~Resident(p) /\ Empty # {}
  <2>1. Empty \in SUBSET Nat
    BY DEF Empty, Frames
  <2>2. \E x \in Empty : \A y \in Empty : x <= y
    BY <1>2, <2>1, LeastOf
  <2>3. Min(Empty) \in Empty
    BY <2>2 DEF Min
  <2>4. Target(p) \in Frames /\ frame[Target(p)].id = NoPage
    BY <1>2, <2>3 DEF Target, Empty
  <2> QED
    BY <1>0, <1>2, <2>4 DEF Evicting, Coherent, NoFrame
<1>3. CASE ~Resident(p) /\ Empty = {}
  <2>1. Target(p) = Victim /\ Victim \in Unpinned
    BY <1>3, VictimUnpinned DEF Target, Evicting, TypeOK
  <2> QED
    BY <1>3, <2>1 DEF Unpinned, Resident, Evicting
<1> QED
  BY <1>1, <1>2, <1>3
-----------------------------------------------------------------------------
(* What the frames and the pager's pages become.                           *)

\* Coherent, without the free list.
FramesOK ==
    /\ \A f, g \in Frames : frame[f].id # NoPage /\ frame[f].id = frame[g].id => f = g
    /\ \A f \in Frames :
          /\ frame[f].id = NoPage => frame[f] = NoFrame
          /\ frame[f].dirty => f \in listed
          /\ frame[f].id # NoPage /\ ~frame[f].dirty => frame[f].val = page[frame[f].id]

LEMMA IdsArePages ==
    ASSUME TypeOK, NEW f \in Frames, frame[f].id # NoPage PROVE frame[f].id \in DataPages
<1>1. frame[f] \in FrameState
  BY DEF TypeOK
<1>2. frame[f].id \in 0..MaxPage
  BY <1>1 DEF FrameState
<1> QED
  BY <1>2 DEF NoPage, DataPages

\* Writing frames back changes no page for a reader.
LEMMA WriteBackIs ==
    ASSUME TypeOK, Coherent, NEW S \in SUBSET {f \in Frames : frame[f].id # NoPage},
           NEW q \in DataPages
    PROVE  /\ WithFrames(S)[q] \in Content
           /\ ~Resident(q) => WithFrames(S)[q] = page[q]
           /\ q \notin {frame[f].id : f \in S} => WithFrames(S)[q] = page[q]
           /\ \A f \in Frames : frame[f].id = q =>
                 /\ f \in S => WithFrames(S)[q] = frame[f].val
                 /\ ~frame[f].dirty => WithFrames(S)[q] = frame[f].val
<1>1. WithFrames(S)[q] = IF \E f \in S : frame[f].id = q THEN frame[Holder(q)].val ELSE page[q]
  BY DEF WithFrames
<1>2. \A f \in Frames : frame[f].id = q => Holder(q) = f
  BY HolderIs DEF NoPage, DataPages
<1>3. \A f \in Frames : frame[f].val \in Content
  BY DEF TypeOK, FrameState
<1>4. page[q] \in Content
  BY DEF TypeOK
<1>5. \A f \in Frames : frame[f].id = q /\ ~frame[f].dirty => frame[f].val = page[q]
  BY DEF Coherent, NoPage, DataPages
<1> QED
  BY <1>1, <1>2, <1>3, <1>4, <1>5 DEF Resident

\* The frames obtain may write: the victim, if it is dirty.
LEMMA EvictedIs ==
    ASSUME TypeOK, Coherent, NEW p \in DataPages, Evicting(p) => Unpinned # {},
           NEW S, S = IF Evicting(p) /\ frame[Target(p)].dirty THEN {Target(p)} ELSE {}
    PROVE  S \in SUBSET {f \in Frames : frame[f].id # NoPage}
  BY TargetIs DEF Coherent, NoFrame, Evicting, Empty

LEMMA ObtainEffect ==
    ASSUME TypeOK, Coherent, NEW p \in DataPages, NEW c \in Content, NEW marked \in BOOLEAN,
           NEW k \in Nat, Obtain(p, c, marked, k), ~marked => c = Seen(p)
    PROVE  /\ page' \in [DataPages -> Content] /\ pending' \subseteq DataPages
           /\ frame' \in [Frames -> FrameState] /\ listed' \subseteq Frames /\ hand' \in Frames
           /\ pending \subseteq pending'
           /\ \A q \in DataPages \ pending' : page'[q] = page[q]
           /\ \A q \in DataPages : ~Resident(q) => page'[q] = page[q]
           /\ \A q \in DataPages : Seen(q)' = IF q = p THEN c ELSE Seen(q)
           /\ FramesOK'
           /\ \A f \in Frames : frame'[f].id \in {frame[f].id, p}
           /\ \A f \in Frames : frame[f].pins > 0 => frame'[f].id = frame[f].id
           /\ marked => \E g \in Frames : frame'[g].id = p /\ frame'[g].dirty
           /\ \A f \in Frames : frame[f].dirty =>
                 \/ frame[f].id \in pending'
                 \/ \E g \in Frames : frame'[g].id = frame[f].id /\ frame'[g].dirty
<1> DEFINE t == Target(p)
           S == IF Evicting(p) /\ frame[t].dirty THEN {t} ELSE {}
<1>1. /\ t \in Frames
      /\ Resident(p) => frame[t].id = p
      /\ ~Resident(p) /\ ~Evicting(p) => frame[t].id = NoPage
      /\ ~Resident(p) => frame[t].id # p /\ frame[t].pins = 0
  BY TargetIs DEF Obtain
<1>2. S \in SUBSET {f \in Frames : frame[f].id # NoPage}
  BY EvictedIs DEF Obtain
<1>3. /\ page' = WithFrames(S)
      /\ pending' = pending \cup {frame[f].id : f \in S}
      /\ listed' = IF marked THEN listed \cup {t} ELSE listed
      /\ hand' = IF Evicting(p) THEN NextHand(t) ELSE hand
  BY DEF Obtain, WrittenBack
<1>4. /\ frame'[t] = [id |-> p, val |-> c, ref |-> TRUE,
                      pins |-> (IF Resident(p) THEN frame[t].pins ELSE 0) + k,
                      dirty |-> marked \/ (Resident(p) /\ frame[t].dirty)]
      /\ frame' = [f \in Frames |-> frame'[f]]
      /\ \A f \in Frames \ {t} : frame'[f] \in FrameState
      /\ \A f \in Frames \ {t} : /\ frame'[f].id = frame[f].id
                                 /\ frame'[f].val = frame[f].val
                                 /\ frame'[f].dirty = frame[f].dirty
                                 /\ frame[f] = NoFrame => frame'[f] = NoFrame
  <2>1. \A f \in Frames : frame[f] \in FrameState
    BY DEF TypeOK
  <2>2. \A f \in Frames : /\ Swept(f) \in FrameState
                          /\ Swept(f).id = frame[f].id
                          /\ Swept(f).val = frame[f].val
                          /\ Swept(f).dirty = frame[f].dirty
    <3> TAKE f \in Frames
    <3>1. frame[f] \in FrameState
      BY <2>1
    <3>2. Swept(f) = [frame[f] EXCEPT !.ref = frame[f].ref /\ f \notin Reprieved]
      BY DEF Swept
    <3> HIDE DEF S, t
    <3>3. \A r \in FrameState, b \in BOOLEAN :
             LET s == [r EXCEPT !.ref = b]
             IN  s \in FrameState /\ s.id = r.id /\ s.val = r.val /\ s.dirty = r.dirty
      BY DEF FrameState
    <3> QED
      BY <3>1, <3>2, <3>3
  <2>3. frame' = [f \in Frames |->
              IF f = t
              THEN [id |-> p, val |-> c, ref |-> TRUE,
                    pins |-> (IF Resident(p) THEN frame[t].pins ELSE 0) + k,
                    dirty |-> marked \/ (Resident(p) /\ frame[t].dirty)]
              ELSE IF Evicting(p) THEN Swept(f) ELSE frame[f]]
    BY DEF Obtain
  <2>4. Evicting(p) => \A f \in Frames : frame[f] # NoFrame
    BY DEF Evicting, Empty, NoFrame
  <2> HIDE DEF t
  <2> QED
    BY <1>1, <2>1, <2>2, <2>3, <2>4
<1> HIDE DEF t, S
<1>5. frame'[t] \in FrameState
  <2>1. frame[t].pins \in Nat /\ frame[t].dirty \in BOOLEAN
    BY <1>1 DEF TypeOK, FrameState
  <2> QED
    BY <1>4, <2>1 DEF FrameState, DataPages
<1>6. \A f \in Frames : frame[f].id # NoPage => frame[f].id \in DataPages
  BY IdsArePages
<1>7. p # NoPage
  BY DEF NoPage, DataPages
<1>8. \A q \in DataPages :
          /\ page'[q] \in Content
          /\ ~Resident(q) => page'[q] = page[q]
          /\ q \notin {frame[f].id : f \in S} => page'[q] = page[q]
          /\ \A f \in Frames : frame[f].id = q =>
                /\ f \in S => page'[q] = frame[f].val
                /\ ~frame[f].dirty => page'[q] = frame[f].val
  BY <1>2, <1>3, WriteBackIs
<1>9. page' \in [DataPages -> Content]
  BY <1>3, <1>8 DEF WithFrames
<1>10. FramesOK'
  <2>1. ASSUME NEW f \in Frames, NEW g \in Frames, frame'[f].id # NoPage,
               frame'[f].id = frame'[g].id
        PROVE  f = g
    <3>1. CASE f # t /\ g # t
      BY <1>4, <2>1, <3>1 DEF Coherent
    <3>2. CASE f = t /\ g # t
      <4>1. frame[g].id = p
        BY <1>4, <2>1, <3>2
      <4>2. Resident(p)
        BY <4>1 DEF Resident
      <4>3. frame[t].id = frame[g].id /\ frame[t].id # NoPage
        BY <1>1, <1>7, <4>1, <4>2
      <4> QED
        BY <1>1, <3>2, <4>3 DEF Coherent
    <3>3. CASE f # t /\ g = t
      <4>1. frame[f].id = p
        BY <1>4, <2>1, <3>3
      <4>2. Resident(p)
        BY <4>1 DEF Resident
      <4>3. frame[t].id = frame[f].id /\ frame[t].id # NoPage
        BY <1>1, <1>7, <4>1, <4>2
      <4> QED
        BY <1>1, <3>3, <4>3 DEF Coherent
    <3> QED
      BY <3>1, <3>2, <3>3
  <2>2. ASSUME NEW f \in Frames, f # t
        PROVE  /\ frame'[f].id = NoPage => frame'[f] = NoFrame
               /\ frame'[f].dirty => f \in listed'
               /\ frame'[f].id # NoPage /\ ~frame'[f].dirty => frame'[f].val = page'[frame'[f].id]
    BY <1>3, <1>4, <1>6, <1>8, <2>2 DEF Coherent
  <2>3. /\ frame'[t].id # NoPage
        /\ frame'[t].dirty => t \in listed'
        /\ ~frame'[t].dirty => frame'[t].val = page'[p]
    <3>1. frame'[t].dirty => t \in listed'
      BY <1>1, <1>3, <1>4 DEF Coherent
    <3>2. ASSUME ~frame'[t].dirty PROVE c = page'[p]
      <4>1. c = Seen(p)
        BY <1>4, <3>2
      <4>2. CASE Resident(p)
        <5>0. frame[t].id = p
          BY <1>1, <4>2
        <5>1. Holder(p) = t
          BY <1>1, <1>7, <5>0, HolderIs
        <5>2. ~frame[t].dirty
          <6>1. frame'[t].dirty = (marked \/ (Resident(p) /\ frame[t].dirty))
            BY <1>4
          <6> QED
            BY <3>2, <4>2, <6>1
        <5> QED
          BY <1>1, <1>8, <4>1, <4>2, <5>0, <5>1, <5>2 DEF Seen
      <4>3. CASE ~Resident(p)
        BY <1>8, <4>1, <4>3 DEF Seen
      <4> QED
        BY <4>2, <4>3
    <3> QED
      BY <1>4, <1>7, <3>1, <3>2
  <2> QED
    BY <1>4, <2>1, <2>2, <2>3 DEF FramesOK
<1>11. ASSUME NEW q \in DataPages PROVE Seen(q)' = IF q = p THEN c ELSE Seen(q)
  <2>0. q # NoPage
    BY DEF NoPage, DataPages
  <2>1. \A f \in Frames : frame'[f].id = q => Resident(q)' /\ Holder(q)' = f
    BY <1>10, <2>0 DEF FramesOK, Resident, Holder
  <2>2. CASE q = p
    BY <1>1, <1>4, <2>1, <2>2 DEF Seen
  <2>3. CASE q # p /\ \E f \in Frames \ {t} : frame[f].id = q
    <3>1. PICK f \in Frames \ {t} : frame[f].id = q
      BY <2>3
    <3>2. Resident(q) /\ Holder(q) = f
      BY <2>0, <3>1, HolderIs
    <3>3. Seen(q)' = frame'[f].val /\ Seen(q) = frame[f].val
      BY <1>4, <2>1, <3>1, <3>2 DEF Seen
    <3> QED
      BY <1>4, <2>3, <3>1, <3>3
  <2>4. CASE q # p /\ frame[t].id = q
    <3>1. ~Resident(q)'
      <4> SUFFICES ASSUME NEW g \in Frames, frame'[g].id = q PROVE FALSE
        BY DEF Resident
      <4>1. g # t
        BY <1>4, <2>4
      <4>2. frame[g].id = q
        BY <1>4, <4>1
      <4> QED
        BY <1>1, <2>0, <2>4, <4>1, <4>2 DEF Coherent
    <3>2. Seen(q) = frame[t].val
      BY <1>1, <2>0, <2>4, HolderIs DEF Seen
    <3>3. Evicting(p)
      BY <1>1, <2>0, <2>4
    <3>4. frame[t].dirty => t \in S
      BY <3>3 DEF S
    <3>5. page'[q] = frame[t].val
      BY <1>1, <1>8, <2>4, <3>4
    <3> QED
      BY <2>4, <3>1, <3>2, <3>5 DEF Seen
  <2>5. CASE q # p /\ \A f \in Frames : frame[f].id # q
    <3>1. ~Resident(q)
      BY <2>5 DEF Resident
    <3>2. ~Resident(q)'
      BY <1>1, <1>4, <2>5 DEF Resident
    <3> QED
      BY <1>8, <2>5, <3>1, <3>2 DEF Seen
  <2> QED
    BY <1>1, <2>2, <2>3, <2>4, <2>5
<1>12. hand' \in Frames /\ listed' \subseteq Frames
  BY <1>1, <1>3, NextHandIn DEF TypeOK
<1>13. pending' \subseteq DataPages
  BY <1>2, <1>3, <1>6 DEF TypeOK
<1>14. \A f \in Frames : frame'[f].id \in {frame[f].id, p}
  BY <1>4
<1>15. ASSUME NEW f \in Frames, frame[f].pins > 0 PROVE frame'[f].id = frame[f].id
  BY <1>1, <1>4, <1>15
<1>16. frame' \in [Frames -> FrameState]
  BY <1>4, <1>5
<1>17. marked => \E g \in Frames : frame'[g].id = p /\ frame'[g].dirty
  <2>1. frame'[t].id = p /\ frame'[t].dirty = (marked \/ (Resident(p) /\ frame[t].dirty))
    BY <1>4
  <2> QED
    BY <1>1, <2>1
<1>18. ASSUME NEW f \in Frames, frame[f].dirty
       PROVE  \/ frame[f].id \in pending'
              \/ \E g \in Frames : frame'[g].id = frame[f].id /\ frame'[g].dirty
  <2>1. CASE f # t
    BY <1>4, <1>18, <2>1
  <2>2. CASE f = t /\ Resident(p)
    <3>1. frame[t].id = p
      BY <1>1, <2>2
    <3>2. frame'[t].id = p /\ frame'[t].dirty = (marked \/ (Resident(p) /\ frame[t].dirty))
      BY <1>4
    <3> QED
      BY <1>1, <1>18, <2>2, <3>1, <3>2
  <2>3. CASE f = t /\ ~Resident(p)
    <3>1. frame[t].id # NoPage
      BY <1>1, <1>18, <2>3 DEF Coherent, NoFrame
    <3>2. t \in S
      BY <1>1, <1>18, <2>3, <3>1 DEF S
    <3> QED
      BY <1>3, <2>3, <3>2
  <2> QED
    BY <2>1, <2>2, <2>3
<1>19. pending \subseteq pending' /\ \A q \in DataPages \ pending' : page'[q] = page[q]
  BY <1>3, <1>8
<1>20. \A q \in DataPages : ~Resident(q) => page'[q] = page[q]
  BY <1>8
<1> QED
  BY <1>9, <1>10, <1>11, <1>12, <1>13, <1>14, <1>15, <1>16, <1>17, <1>18, <1>19, <1>20

\* An obtain that throws changes bits of frames, and the hand.
LEMMA ObtainFailsEffect ==
    ASSUME TypeOK, Coherent, NEW p \in DataPages, ObtainFails(p)
    PROVE  /\ UNCHANGED <<page, pending, listed>>
           /\ frame' \in [Frames -> FrameState] /\ hand' \in Frames
           /\ thrown' \in {"exhausted", "write"}
           /\ FramesOK'
           /\ ~Resident(p)
           /\ \A f \in Frames : frame'[f].id = frame[f].id /\ frame'[f].dirty = frame[f].dirty
<1>1. UNCHANGED <<page, pending, listed>> /\ thrown' \in {"exhausted", "write"}
  BY DEF ObtainFails
<1>2. hand' \in Frames
  BY VictimUnpinned, NextHandIn DEF ObtainFails, TypeOK, Unpinned
<1>3. \A f \in Frames : frame[f].id # NoPage
  BY DEF ObtainFails, Evicting, Empty
<1>4. /\ frame' \in [Frames -> FrameState]
      /\ \A f \in Frames : /\ frame'[f].id = frame[f].id
                           /\ frame'[f].val = frame[f].val
                           /\ frame'[f].dirty = frame[f].dirty
  <2>1. frame \in [Frames -> FrameState]
    BY DEF TypeOK
  <2>2. \A r \in FrameState, b \in BOOLEAN :
             LET s == [r EXCEPT !.ref = b]
             IN  s \in FrameState /\ s.id = r.id /\ s.val = r.val /\ s.dirty = r.dirty
    BY DEF FrameState
  <2>3. ASSUME NEW f \in Frames
        PROVE  /\ Swept(f) \in FrameState /\ Swept(f).id = frame[f].id
               /\ Swept(f).val = frame[f].val /\ Swept(f).dirty = frame[f].dirty
    <3>1. Swept(f) = [frame[f] EXCEPT !.ref = frame[f].ref /\ f \notin Reprieved]
      BY DEF Swept
    <3> QED
      BY <2>1, <2>2, <3>1
  <2>4. frame' = frame \/ frame' = [f \in Frames |-> Swept(f)]
    BY DEF ObtainFails
  <2> QED
    BY <2>1, <2>3, <2>4
<1>5. FramesOK'
  BY <1>1, <1>3, <1>4 DEF FramesOK, Coherent
<1> QED
  BY <1>1, <1>2, <1>4, <1>5 DEF ObtainFails, Evicting
-----------------------------------------------------------------------------
(* The free list.                                                          *)

LEMMA UsedArePages == ASSUME NEW m \in Meta, NEW list PROVE Used(m, list) \subseteq DataPages
  BY DEF Used, Meta, DataPages

\* A list depends on its own pages only.
LEMMA ListElsewhere ==
    ASSUME NEW pg, NEW qg, NEW m, NEW list \in Seq(DataPages), IsFreeList(pg, m, list),
           \A i \in DOMAIN list : qg[list[i]] = pg[list[i]]
    PROVE  IsFreeList(qg, m, list)
  BY DEF IsFreeList

\* The page allocate_page takes: the head, or one more.
LEMMA TakenIs ==
    ASSUME TypeOK, FreeListsSound, Taken
    PROVE  /\ meta' \in Meta /\ free' \in Seq(DataPages)
           /\ IsFreeList(page, meta', free')
           /\ NextPage \in DataPages \ InUse
           /\ InUse' = InUse \cup {NextPage}
<1>1. /\ IsFreeList(page, meta, free) /\ meta \in Meta /\ free \in Seq(DataPages)
      /\ page \in [DataPages -> Content]
  BY DEF TypeOK, FreeListsSound
<1>2. CASE meta.head # NoPage
  <2>1. free # <<>> /\ meta.head = free[1] /\ 1 \in DOMAIN free /\ Len(free) \in Nat \ {0}
    BY <1>1, <1>2 DEF IsFreeList, NoPage
  <2>2. NextPage = free[1] /\ NextPage \in 1..meta.count-1 /\ NextPage \in DataPages
    BY <1>1, <1>2, <2>1 DEF NextPage, IsFreeList
  <2>3. /\ meta' = [meta EXCEPT !.head = page[meta.head].next]
        /\ free' = Tail(free)
    BY <1>2 DEF Taken
  <2>4. page[free[1]] = Marker(IF 1 = Len(free) THEN NoPage ELSE free[2])
    <3>1. \A i \in DOMAIN free :
              page[free[i]] = Marker(IF i = Len(free) THEN NoPage ELSE free[i+1])
      BY <1>1 DEF IsFreeList
    <3>2. page[free[1]] = Marker(IF 1 = Len(free) THEN NoPage ELSE free[1+1])
      BY <2>1, <3>1
    <3> QED
      BY <3>2
  <2>5. meta'.head = (IF 1 = Len(free) THEN NoPage ELSE free[2]) /\ meta'.count = meta.count
    BY <1>1, <2>1, <2>3, <2>4 DEF Marker, Meta
  <2>6. meta' \in Meta
    <3>1. meta'.head \in 0..MaxPage
      <4>1. 1 # Len(free) => free[2] \in DataPages
        <5>1. \A i \in 1..Len(free) : free[i] \in DataPages
          BY <1>1
        <5>2. 1 # Len(free) => 2 \in 1..Len(free)
          <6>1. \A n \in Nat \ {0} : 1 # n => 2 \in 1..n
            OBVIOUS
          <6> QED
            BY <2>1, <6>1, Zenon
        <5> QED
          BY <5>1, <5>2
      <4>2. \A x \in DataPages : x \in 0..MaxPage
        BY DEF DataPages
      <4> QED
        BY <2>5, <4>1, <4>2 DEF NoPage
    <3>2. meta' = [meta EXCEPT !.head = meta'.head]
      BY <1>1, <2>3 DEF Meta
    <3> QED
      BY <1>1, <3>1, <3>2 DEF Meta
  <2>7. /\ free' \in Seq(DataPages) /\ Len(free') = Len(free) - 1
        /\ \A i \in DOMAIN free' : free'[i] = free[i+1] /\ i + 1 \in DOMAIN free
        /\ \A j \in DOMAIN free : j # 1 => j - 1 \in DOMAIN free' /\ free'[j-1] = free[j]
    BY <1>1, <2>1, <2>3
  <2>8. IsFreeList(page, meta', free')
    <3>1. meta'.head = IF free' = <<>> THEN NoPage ELSE free'[1]
      <4>1. CASE Len(free) = 1
        BY <2>5, <2>7, <4>1
      <4>2. CASE Len(free) # 1
        <5>1. 1 \in DOMAIN free'
          BY <2>1, <2>7, <4>2
        <5> QED
          BY <2>5, <2>7, <4>2, <5>1
      <4> QED
        BY <4>1, <4>2
    <3>2. ASSUME NEW i \in DOMAIN free'
          PROVE  /\ free'[i] \in 1..meta'.count-1
                 /\ page[free'[i]] = Marker(IF i = Len(free') THEN NoPage ELSE free'[i+1])
                 /\ \A j \in DOMAIN free' : free'[i] = free'[j] => i = j
      <4>1. /\ i \in Nat /\ i + 1 \in DOMAIN free /\ free'[i] = free[i+1]
            /\ (i + 1 = Len(free)) <=> (i = Len(free'))
        BY <2>1, <2>7
      <4>2. /\ free[i+1] \in 1..meta.count-1
            /\ page[free[i+1]] = Marker(IF i + 1 = Len(free) THEN NoPage ELSE free[(i+1)+1])
            /\ \A j \in DOMAIN free : free[i+1] = free[j] => i + 1 = j
        BY <1>1, <4>1 DEF IsFreeList
      <4>3. i # Len(free') => free'[i+1] = free[(i+1)+1]
        <5>1. i # Len(free') => i + 1 \in DOMAIN free'
          BY <2>7, <4>1
        <5> QED
          BY <2>7, <5>1
      <4>4. ASSUME NEW j \in DOMAIN free', free'[i] = free'[j] PROVE i = j
        <5>1. j \in Nat /\ free[j+1] = free'[j] /\ j + 1 \in DOMAIN free
          BY <2>7
        <5> QED
          BY <4>1, <4>2, <4>4, <5>1
      <4> QED
        BY <2>5, <4>1, <4>2, <4>3, <4>4
    <3> QED
      BY <3>1, <3>2 DEF IsFreeList
  <2>9. {free[j] : j \in DOMAIN free} = {free'[i] : i \in DOMAIN free'} \cup {free[1]}
    <3>1. \A j \in DOMAIN free : free[j] \in {free'[i] : i \in DOMAIN free'} \cup {free[1]}
      BY <2>7
    <3>2. \A i \in DOMAIN free' : free'[i] \in {free[j] : j \in DOMAIN free}
      BY <2>7
    <3> QED
      BY <2>1, <3>1, <3>2
  <2>10. \A i \in DOMAIN free' : free'[i] # free[1]
    <3> TAKE i \in DOMAIN free'
    <3>1. i + 1 # 1 /\ i + 1 \in DOMAIN free /\ free'[i] = free[i+1]
      BY <2>7
    <3> QED
      BY <1>1, <2>1, <3>1 DEF IsFreeList
  <2>11. InUse' = InUse \cup {free[1]}
    <3>1. InUse = (1..meta.count-1) \ {free[j] : j \in DOMAIN free}
      BY DEF InUse, Used
    <3>2. InUse' = (1..meta.count-1) \ {free'[i] : i \in DOMAIN free'}
      BY <2>5 DEF InUse, Used
    <3> QED
      BY <2>2, <2>9, <2>10, <3>1, <3>2
  <2>12. free[1] \notin InUse
    BY <2>1 DEF InUse, Used
  <2> QED
    BY <2>2, <2>6, <2>7, <2>8, <2>11, <2>12
<1>3. CASE meta.head = NoPage
  <2>1. free = <<>>
    <3> SUFFICES ASSUME free # <<>> PROVE FALSE
      OBVIOUS
    <3>1. meta.head = free[1] /\ 1 \in DOMAIN free
      BY <1>1 DEF IsFreeList
    <3> QED
      BY <1>1, <1>3, <3>1 DEF NoPage, DataPages
  <2>2. NextPage = meta.count /\ meta.count \in DataPages
    BY <1>1, <1>3 DEF NextPage, Taken, Meta, DataPages
  <2>3. meta' = [meta EXCEPT !.count = meta.count + 1] /\ free' = free
    BY <1>3 DEF Taken
  <2>4. meta' \in Meta /\ meta'.count = meta.count + 1 /\ meta'.head = NoPage
    BY <1>1, <1>3, <2>2, <2>3 DEF Meta, DataPages
  <2>5. IsFreeList(page, meta', free')
    BY <2>1, <2>3, <2>4 DEF IsFreeList
  <2> QED
    BY <1>1, <2>1, <2>2, <2>3, <2>4, <2>5 DEF InUse, Used, DataPages
<1> QED
  BY <1>2, <1>3

\* free_page puts a page in use at the head of the list.
LEMMA FreedIs ==
    ASSUME TypeOK, FreeListsSound, NEW p \in InUse,
           page' = [page EXCEPT ![p] = Marker(meta.head)],
           meta' = [meta EXCEPT !.head = p],
           free' = <<p>> \o free
    PROVE  /\ page' \in [DataPages -> Content]
           /\ meta' \in Meta /\ free' \in Seq(DataPages)
           /\ IsFreeList(page', meta', free')
           /\ InUse' = InUse \ {p}
<1>1. /\ IsFreeList(page, meta, free) /\ meta \in Meta /\ free \in Seq(DataPages)
      /\ page \in [DataPages -> Content] /\ Len(free) \in Nat
  <2>1. free \in Seq(DataPages) /\ meta \in Meta /\ page \in [DataPages -> Content]
    BY DEF TypeOK
  <2>2. IsFreeList(page, meta, free)
    BY DEF FreeListsSound
  <2>3. Len(free) \in Nat
    BY <2>1
  <2> QED
    BY <2>1, <2>2, <2>3
<1>2. p \in DataPages /\ p \in 1..meta.count-1 /\ \A i \in DOMAIN free : free[i] # p
  <2>1. InUse \subseteq DataPages
    BY <1>1, UsedArePages DEF InUse
  <2> QED
    BY <2>1 DEF InUse, Used
<1>3. meta' \in Meta /\ meta'.head = p /\ meta'.count = meta.count
  <2>1. p \in 0..MaxPage
    BY <1>2 DEF DataPages
  <2> QED
    BY <1>1, <2>1 DEF Meta
<1>4. page' \in [DataPages -> Content]
  <2>1. Marker(meta.head) \in Content
    BY <1>1 DEF Marker, Content, Meta
  <2> QED
    BY <1>1, <1>2, <2>1
<1>5. /\ free' \in Seq(DataPages) /\ Len(free') = Len(free) + 1 /\ free'[1] = p
      /\ \A i \in DOMAIN free : i + 1 \in DOMAIN free' /\ free'[i+1] = free[i]
      /\ \A j \in DOMAIN free' : j # 1 => j - 1 \in DOMAIN free /\ free'[j] = free[j-1]
  BY <1>1, <1>2
<1>6. IsFreeList(page', meta', free')
  <2>1. meta'.head = IF free' = <<>> THEN NoPage ELSE free'[1]
    BY <1>1, <1>3, <1>5
  <2>2. ASSUME NEW j \in DOMAIN free'
        PROVE  /\ free'[j] \in 1..meta'.count-1
               /\ page'[free'[j]] = Marker(IF j = Len(free') THEN NoPage ELSE free'[j+1])
               /\ \A k \in DOMAIN free' : free'[j] = free'[k] => j = k
    <3>1. CASE j = 1
      <4>1. page'[p] = Marker(meta.head)
        BY <1>1, <1>2
      <4>2. meta.head = IF 1 = Len(free') THEN NoPage ELSE free'[1+1]
        <5>1. CASE free = <<>>
          BY <1>1, <1>5, <5>1 DEF IsFreeList
        <5>2. CASE free # <<>>
          <6>1. 1 \in DOMAIN free /\ Len(free') # 1 /\ meta.head = free[1]
            BY <1>1, <1>5, <5>2 DEF IsFreeList
          <6> QED
            BY <1>5, <6>1
        <5> QED
          BY <5>1, <5>2
      <4>3. \A k \in DOMAIN free' : k # 1 => free'[k] # p
        BY <1>2, <1>5
      <4> QED
        BY <1>2, <1>3, <1>5, <3>1, <4>1, <4>2, <4>3
    <3>2. CASE j # 1
      <4> DEFINE i == j - 1
      <4>1. /\ i \in DOMAIN free /\ i \in Nat /\ j = i + 1 /\ free'[j] = free[i]
            /\ (i = Len(free)) <=> (j = Len(free'))
        BY <1>1, <1>5, <3>2
      <4> HIDE DEF i
      <4>2. /\ free[i] \in 1..meta.count-1
            /\ page[free[i]] = Marker(IF i = Len(free) THEN NoPage ELSE free[i+1])
            /\ \A k \in DOMAIN free : free[i] = free[k] => i = k
        BY <1>1, <4>1 DEF IsFreeList
      <4>3. free[i] \in DataPages /\ free[i] # p
        BY <1>1, <1>2, <4>1
      <4>4. page'[free[i]] = page[free[i]]
        BY <1>1, <4>3
      <4>5. i # Len(free) => i + 1 \in DOMAIN free /\ free'[j+1] = free[i+1]
        BY <1>1, <1>5, <4>1
      <4>6. ASSUME NEW k \in DOMAIN free', free'[j] = free'[k] PROVE j = k
        <5>1. k # 1
          BY <1>5, <4>1, <4>3, <4>6
        <5>2. k - 1 \in DOMAIN free /\ free'[k] = free[k-1] /\ k \in Nat
          BY <1>5, <5>1
        <5> QED
          BY <4>1, <4>2, <4>6, <5>2
      <4> QED
        BY <1>3, <4>1, <4>2, <4>4, <4>5, <4>6
    <3> QED
      BY <3>1, <3>2
  <2> QED
    BY <2>1, <2>2 DEF IsFreeList
<1>7. {free'[j] : j \in DOMAIN free'} = {free[i] : i \in DOMAIN free} \cup {p}
  <2>1. \A j \in DOMAIN free' : free'[j] \in {free[i] : i \in DOMAIN free} \cup {p}
    BY <1>5
  <2>2. \A i \in DOMAIN free : free[i] \in {free'[j] : j \in DOMAIN free'}
    BY <1>5
  <2>3. 1 \in DOMAIN free'
    BY <1>1, <1>5
  <2>4. p \in {free'[j] : j \in DOMAIN free'}
    BY <1>5, <2>3
  <2> QED
    BY <2>1, <2>2, <2>4
<1>8. InUse' = InUse \ {p}
  <2>1. InUse = (1..meta.count-1) \ {free[i] : i \in DOMAIN free}
    BY DEF InUse, Used
  <2>2. InUse' = (1..meta.count-1) \ {free'[j] : j \in DOMAIN free'}
    BY <1>3 DEF InUse, Used
  <2> QED
    BY <1>7, <2>1, <2>2
<1> QED
  BY <1>3, <1>4, <1>5, <1>6, <1>8
-----------------------------------------------------------------------------
(* The invariant holds initially and every action keeps it.                *)

LEMMA InitInv == Init => PoolInv
<1> SUFFICES ASSUME Init PROVE PoolInv
  OBVIOUS
<1> USE DEF Init, Zero, Data, NoPage
<1>1. Zero \in Content
  BY DEF Content
<1>2. TypeOK
  <2>1. page \in [DataPages -> Content] /\ pending \subseteq DataPages
    BY <1>1
  <2>2. meta \in Meta /\ free \in Seq(DataPages)
    BY DEF Meta
  <2>3. frame \in [Frames -> FrameState] /\ hand \in Frames /\ listed \subseteq Frames
    BY <1>1 DEF EmptyPool, NoFrame, FrameState, Frames
  <2> QED
    BY <2>1, <2>2, <2>3 DEF TypeOK
<1>3. Coherent
  BY DEF Coherent, EmptyPool, NoFrame
<1>4. FreeListsSound
  BY DEF FreeListsSound, IsFreeList
<1>5. UsedPagesUsable
  BY DEF UsedPagesUsable, InUse, CommittedInUse, Used
<1>6. NewPagesKnown
  BY DEF NewPagesKnown, InUse, CommittedInUse
<1> QED
  BY <1>2, <1>3, <1>4, <1>5, <1>6 DEF PoolInv

\* A call that reads, writes or allocates a page.
LEMMA AccessKeeps ==
    ASSUME PoolInv, thrown = "none",
           NEW p \in DataPages, NEW c \in Content, ~c.isFree, NEW marked \in BOOLEAN,
           NEW k \in Nat, Access(p, c, marked, k), ~marked => c = Seen(p),
           committed' = committed, stamp' \in 0..MaxStamp,
           meta' \in Meta, free' \in Seq(DataPages), IsFreeList(page, meta', free'),
           InUse' = InUse \cup {p}, marked \/ p \in InUse
    PROVE  /\ PoolInv'
           /\ \/ /\ thrown' = "none"
                 /\ \A q \in DataPages : Seen(q)' = IF q = p THEN c ELSE Seen(q)
              \/ thrown' # "none"
<1> USE DEF PoolInv
<1>1. /\ page' \in [DataPages -> Content] /\ pending' \subseteq DataPages
      /\ frame' \in [Frames -> FrameState] /\ listed' \subseteq Frames /\ hand' \in Frames
      /\ thrown' \in {"none", "exhausted", "write", "double free"}
      /\ \A q \in DataPages \ pending' : page'[q] = committed.page[q]
      /\ \A q \in DataPages : ~Resident(q) => page'[q] = page[q]
      /\ FramesOK'
      /\ \A f \in Frames : frame'[f].id \in {frame[f].id, p}
  <2>1. CASE Obtain(p, c, marked, k)
    <3>1. pending \subseteq pending' /\ \A q \in DataPages \ pending' : page'[q] = page[q]
      BY <2>1, ObtainEffect
    <3>2. \A q \in DataPages \ pending' : page'[q] = committed.page[q]
      BY <3>1 DEF Coherent
    <3>3. thrown' = "none"
      BY <2>1 DEF Obtain
    <3> QED
      BY <2>1, <3>2, <3>3, ObtainEffect
  <2>2. CASE ObtainFails(p)
    BY <2>2, ObtainFailsEffect DEF TypeOK, Coherent
  <2> QED
    BY <2>1, <2>2 DEF Access
<1>2. \/ /\ thrown' = "none"
         /\ \A q \in DataPages : Seen(q)' = IF q = p THEN c ELSE Seen(q)
      \/ thrown' # "none"
  <2>1. CASE Obtain(p, c, marked, k)
    BY <2>1, ObtainEffect
  <2>2. CASE ObtainFails(p)
    BY <2>2, ObtainFailsEffect
  <2> QED
    BY <2>1, <2>2 DEF Access
<1>3. TypeOK'
  BY <1>1 DEF TypeOK
<1>4. Coherent'
  <2>1. \A f \in Frames : frame'[f].id \in InUse' \cup {NoPage}
    BY <1>1 DEF Coherent
  <2> QED
    BY <1>1, <2>1 DEF Coherent, FramesOK
<1>5. FreeListsSound'
  <2>1. \A i \in DOMAIN free' : free'[i] \in DataPages /\ free'[i] \notin InUse'
    BY DEF InUse, Used
  <2>2. \A q \in DataPages : q \notin InUse => ~Resident(q)
    BY DEF Coherent, Resident, NoPage, DataPages
  <2>3. \A i \in DOMAIN free' : page'[free'[i]] = page[free'[i]]
    BY <1>1, <2>1, <2>2
  <2>4. IsFreeList(page', meta', free')
    BY <2>3, ListElsewhere
  <2> QED
    BY <2>4 DEF FreeListsSound
<1>6. UsedPagesUsable'
  <2>1. CommittedInUse' = CommittedInUse
    BY DEF CommittedInUse
  <2>2. InUse' \subseteq DataPages
    BY UsedArePages DEF InUse
  <2>3. ASSUME thrown' = "none", NEW q \in InUse' PROVE ~Seen(q)'.isFree
    BY <1>2, <2>2, <2>3 DEF UsedPagesUsable
  <2> QED
    BY <2>1, <2>3 DEF UsedPagesUsable
<1>7. NewPagesKnown'
  <2> SUFFICES ASSUME NEW q \in InUse', q \notin CommittedInUse
               PROVE  \/ q \in pending'
                      \/ \E f \in Frames : frame'[f].id = q /\ frame'[f].dirty
                      \/ thrown' # "none" /\ ~Resident(q)'
    BY DEF NewPagesKnown, CommittedInUse
  <2>1. q \in InUse => q \in pending \/ \E f \in Frames : frame[f].id = q /\ frame[f].dirty
    BY DEF NewPagesKnown
  <2>2. CASE Obtain(p, c, marked, k)
    BY <2>1, <2>2, ObtainEffect
  <2>3. CASE ObtainFails(p)
    <3>1. CASE q \in InUse
      BY <2>1, <2>3, <3>1, ObtainFailsEffect
    <3>2. CASE q = p
      <4>1. ~Resident(q)'
        BY <2>3, <3>2, ObtainFailsEffect DEF Resident
      <4> QED
        BY <2>3, <4>1, ObtainFailsEffect
    <3> QED
      BY <3>1, <3>2
  <2> QED
    BY <2>2, <2>3 DEF Access
<1> QED
  BY <1>2, <1>3, <1>4, <1>5, <1>6, <1>7

\* A commit, or a part of one, writes the frames S and cleans them.
LEMMA WrittenFrames ==
    ASSUME TypeOK, Coherent, NEW S \in SUBSET ToCommit,
           page' = WithFrames(S), frame' = Cleaned(S)
    PROVE  /\ page' \in [DataPages -> Content] /\ frame' \in [Frames -> FrameState]
           /\ {frame[f].id : f \in S} \subseteq DataPages
           /\ \A q \in DataPages : q \notin {frame[f].id : f \in S} => page'[q] = page[q]
           /\ \A q \in DataPages : ~Resident(q) => page'[q] = page[q]
           /\ \A q \in DataPages : Seen(q)' = Seen(q)
           /\ S = ToCommit => \A q \in DataPages : page'[q] = Seen(q)
           /\ \A f, g \in Frames : frame'[f].id # NoPage /\ frame'[f].id = frame'[g].id => f = g
           /\ \A f \in Frames :
                 /\ frame'[f].id = frame[f].id /\ frame'[f].pins = frame[f].pins
                 /\ frame'[f].id = NoPage => frame'[f] = NoFrame
                 /\ frame'[f].dirty = (frame[f].dirty /\ f \notin S)
                 /\ frame'[f].id # NoPage /\ ~frame'[f].dirty => frame'[f].val = page'[frame'[f].id]
<1>1. S \in SUBSET {f \in Frames : frame[f].id # NoPage}
  <2>1. \A f \in S : f \in Frames /\ frame[f].dirty
    BY DEF ToCommit, TypeOK
  <2>2. \A f \in Frames : frame[f].id = NoPage => ~frame[f].dirty
    BY DEF Coherent, NoFrame
  <2> QED
    BY <2>1, <2>2
<1>2. \A f \in Frames : frame[f].id # NoPage => frame[f].id \in DataPages
  BY IdsArePages
<1>3. \A q \in DataPages :
          /\ page'[q] \in Content
          /\ ~Resident(q) => page'[q] = page[q]
          /\ q \notin {frame[f].id : f \in S} => page'[q] = page[q]
          /\ \A f \in Frames : frame[f].id = q =>
                /\ f \in S => page'[q] = frame[f].val
                /\ ~frame[f].dirty => page'[q] = frame[f].val
  BY <1>1, WriteBackIs
<1>4. page' \in [DataPages -> Content]
  BY <1>3 DEF WithFrames
<1>5. \A f \in Frames : /\ frame'[f] \in FrameState
                        /\ frame'[f].id = frame[f].id /\ frame'[f].pins = frame[f].pins
                        /\ frame'[f].val = frame[f].val
                        /\ frame'[f].dirty = (frame[f].dirty /\ f \notin S)
                        /\ f \notin S => frame'[f] = frame[f]
  <2> TAKE f \in Frames
  <2>1. frame[f] \in FrameState
    BY DEF TypeOK
  <2>2. frame'[f] = [frame[f] EXCEPT !.dirty = frame[f].dirty /\ f \notin S]
    BY DEF Cleaned
  <2>3. \A r \in FrameState, b \in BOOLEAN :
           LET s == [r EXCEPT !.dirty = b]
           IN  /\ s \in FrameState /\ s.id = r.id /\ s.pins = r.pins /\ s.val = r.val
               /\ s.dirty = b
    BY DEF FrameState
  <2>4. \A r \in FrameState : [r EXCEPT !.dirty = r.dirty] = r
    BY DEF FrameState
  <2>5. frame[f].dirty \in BOOLEAN
    BY <2>1 DEF FrameState
  <2>6. f \notin S => frame'[f] = [frame[f] EXCEPT !.dirty = frame[f].dirty]
    BY <2>2, <2>5, Zenon
  <2>7. f \notin S => frame'[f] = frame[f]
    BY <2>1, <2>4, <2>6, Zenon
  <2> QED
    BY <2>1, <2>2, <2>3, <2>7
<1>6. frame' \in [Frames -> FrameState]
  BY <1>5 DEF Cleaned
<1>7. \A f, g \in Frames : frame'[f].id # NoPage /\ frame'[f].id = frame'[g].id => f = g
  BY <1>5 DEF Coherent
<1>8. ASSUME NEW f \in Frames
      PROVE  /\ frame'[f].id = NoPage => frame'[f] = NoFrame
             /\ frame'[f].dirty = (frame[f].dirty /\ f \notin S)
             /\ frame'[f].id # NoPage /\ ~frame'[f].dirty => frame'[f].val = page'[frame'[f].id]
  <2>1. frame'[f].id = NoPage => frame'[f] = NoFrame
    BY <1>1, <1>5 DEF Coherent
  <2>3. ASSUME frame'[f].id # NoPage, ~frame'[f].dirty PROVE frame'[f].val = page'[frame'[f].id]
    <3>1. frame[f].id \in DataPages /\ (f \in S \/ ~frame[f].dirty)
      BY <1>2, <1>5, <2>3
    <3> QED
      BY <1>3, <1>5, <3>1
  <2> QED
    BY <1>5, <2>1, <2>3
<1>9. \A q \in DataPages : (Resident(q)' <=> Resident(q)) /\ Holder(q)' = Holder(q)
  <2> TAKE q \in DataPages
  <2>1. \A f \in Frames : frame'[f].id = q <=> frame[f].id = q
    BY <1>5
  <2> QED
    BY <2>1 DEF Resident, Holder
<1>10. \A q \in DataPages : Seen(q)' = Seen(q)
  <2> TAKE q \in DataPages
  <2>1. CASE Resident(q)
    BY <1>5, <1>9, <2>1, HolderOf DEF Seen
  <2>2. CASE ~Resident(q)
    BY <1>3, <1>9, <2>2 DEF Seen
  <2> QED
    BY <2>1, <2>2
<1>11. ASSUME S = ToCommit, NEW q \in DataPages PROVE page'[q] = Seen(q)
  <2>1. CASE Resident(q)
    <3>1. Holder(q) \in Frames /\ frame[Holder(q)].id = q
      BY <2>1, HolderOf
    <3>2. Holder(q) \in S \/ ~frame[Holder(q)].dirty
      BY <1>11, <3>1 DEF ToCommit, Coherent
    <3> QED
      BY <1>3, <2>1, <3>1, <3>2 DEF Seen
  <2>2. CASE ~Resident(q)
    BY <1>3, <2>2 DEF Seen
  <2> QED
    BY <2>1, <2>2
<1>12. {frame[f].id : f \in S} \subseteq DataPages
  BY <1>1, <1>2
<1> QED
  BY <1>3, <1>4, <1>5, <1>6, <1>7, <1>8, <1>10, <1>11, <1>12

LEMMA FreePagesAbsent ==
    ASSUME Coherent, NEW q \in DataPages, q \notin InUse PROVE ~Resident(q)
  BY DEF Coherent, Resident, NoPage, DataPages

\* A free list keeps its pages when pages in use are written.
LEMMA ListKept ==
    ASSUME TypeOK, Coherent, FreeListsSound,
           \A q \in DataPages : ~Resident(q) => page'[q] = page[q]
    PROVE  IsFreeList(page', meta, free)
<1>1. free \in Seq(DataPages)
  BY DEF TypeOK
<1>2. \A i \in DOMAIN free : free[i] \in DataPages /\ free[i] \notin InUse
  BY <1>1 DEF InUse, Used
<1>3. \A i \in DOMAIN free : page'[free[i]] = page[free[i]]
  BY <1>2, FreePagesAbsent
<1>4. IsFreeList(page, meta, free)
  BY DEF FreeListsSound
<1> QED
  BY <1>1, <1>3, <1>4, ListElsewhere

LEMMA CommitKeeps ==
    ASSUME PoolInv, Commit
    PROVE  /\ PoolInv'
           /\ \A q \in DataPages : Seen(q)' = Seen(q) /\ committed'.page[q] = Seen(q)
<1> USE DEF PoolInv
<1>1. /\ page' = WithFrames(ToCommit) /\ pending' = {} /\ frame' = Cleaned(ToCommit)
      /\ listed' = {} /\ committed' = [page |-> page', meta |-> meta, free |-> free]
      /\ UNCHANGED <<meta, free, hand, thrown, stamp>> /\ thrown = "none"
  BY DEF Commit, Calling
<1>2. TypeOK'
  <2>1. page' \in [DataPages -> Content] /\ frame' \in [Frames -> FrameState]
    BY <1>1, WrittenFrames
  <2> QED
    BY <1>1, <2>1 DEF TypeOK
<1>3. Coherent'
  <2>1. \A f \in Frames : ~frame'[f].dirty
    <3>1. \A f \in Frames : frame'[f].dirty => frame[f].dirty /\ f \notin ToCommit
      BY <1>1, WrittenFrames
    <3> QED
      BY <3>1 DEF ToCommit, Coherent
  <2>2. InUse' = InUse
    BY <1>1 DEF InUse
  <2>3. \A f \in Frames : frame'[f].id \in InUse' \cup {NoPage}
    BY <1>1, <2>2, WrittenFrames DEF Coherent
  <2> QED
    BY <1>1, <2>1, <2>3, WrittenFrames DEF Coherent
<1>4. FreeListsSound'
  <2>1. IsFreeList(page', meta, free)
    BY <1>1, WrittenFrames, ListKept
  <2> QED
    BY <1>1, <2>1 DEF FreeListsSound
<1>5. \A q \in DataPages : Seen(q)' = Seen(q) /\ committed'.page[q] = Seen(q)
  BY <1>1, WrittenFrames
<1>6. UsedPagesUsable'
  <2>1. InUse' = InUse /\ CommittedInUse' = InUse /\ InUse \subseteq DataPages
    BY <1>1, UsedArePages DEF InUse, CommittedInUse, TypeOK
  <2> QED
    BY <1>1, <1>5, <2>1 DEF UsedPagesUsable
<1>7. NewPagesKnown'
  BY <1>1 DEF NewPagesKnown, InUse, CommittedInUse
<1> QED
  BY <1>2, <1>3, <1>4, <1>5, <1>6, <1>7

LEMMA CommitFailsKeeps == ASSUME PoolInv, CommitFails PROVE PoolInv'
<1> USE DEF PoolInv
<1>1. PICK S \in SUBSET ToCommit :
          /\ page' = WithFrames(S) /\ pending' = pending \cup {frame[f].id : f \in S}
          /\ frame' = Cleaned(S)
          /\ listed' = IF S = ToCommit THEN {} ELSE listed
  BY DEF CommitFails, WrittenBack
<1>2. UNCHANGED <<meta, free, committed, hand, stamp>> /\ thrown' = "write"
  BY DEF CommitFails
<1>3. TypeOK'
  <2>1. /\ page' \in [DataPages -> Content] /\ frame' \in [Frames -> FrameState]
        /\ {frame[f].id : f \in S} \subseteq DataPages
    BY <1>1, WrittenFrames
  <2> QED
    BY <1>1, <1>2, <2>1 DEF TypeOK
<1>4. Coherent'
  <2>1. InUse' = InUse
    BY <1>2 DEF InUse
  <2>2. \A f \in Frames : frame'[f].id \in InUse' \cup {NoPage}
    BY <1>1, <2>1, WrittenFrames DEF Coherent
  <2>3. \A f \in Frames : frame'[f].dirty => f \in listed'
    BY <1>1, WrittenFrames DEF Coherent, ToCommit
  <2>4. \A q \in DataPages \ pending' : page'[q] = committed'.page[q]
    BY <1>1, <1>2, WrittenFrames DEF Coherent
  <2> QED
    BY <1>1, <2>2, <2>3, <2>4, WrittenFrames DEF Coherent
<1>5. FreeListsSound'
  <2>1. IsFreeList(page', meta, free)
    BY <1>1, WrittenFrames, ListKept
  <2> QED
    BY <1>2, <2>1 DEF FreeListsSound
<1>6. UsedPagesUsable'
  BY <1>2 DEF UsedPagesUsable, CommittedInUse
<1>7. NewPagesKnown'
  <2> SUFFICES ASSUME NEW q \in InUse, q \notin CommittedInUse
               PROVE  \/ q \in pending'
                      \/ \E f \in Frames : frame'[f].id = q /\ frame'[f].dirty
                      \/ thrown' # "none" /\ ~Resident(q)'
    BY <1>2 DEF NewPagesKnown, InUse, CommittedInUse
  <2>1. q \in pending \/ \E f \in Frames : frame[f].id = q /\ frame[f].dirty
    BY DEF NewPagesKnown, CommitFails, Calling
  <2>2. ASSUME NEW f \in Frames, frame[f].id = q, frame[f].dirty
        PROVE  q \in pending' \/ (frame'[f].id = q /\ frame'[f].dirty)
    BY <1>1, <2>2, WrittenFrames
  <2> QED
    BY <1>1, <2>1, <2>2
<1> QED
  BY <1>3, <1>4, <1>5, <1>6, <1>7

LEMMA UnpinKeeps ==
    ASSUME PoolInv, NEW p \in DataPages, Unpin(p)
    PROVE  /\ PoolInv'
           /\ \A q \in DataPages : Seen(q)' = Seen(q)
           /\ \A f \in Frames : frame'[f].id = frame[f].id
<1> USE DEF PoolInv
<1>1. PICK f \in Frames : /\ frame[f].id = p /\ frame[f].pins > 0
                          /\ frame' = [frame EXCEPT ![f].pins = frame[f].pins - 1]
  BY DEF Unpin
<1>2. UNCHANGED <<page, pending, meta, free, committed, listed, hand, thrown, stamp>>
  BY DEF Unpin, pagerView
<1>3. /\ frame' \in [Frames -> FrameState]
      /\ \A g \in Frames : /\ frame'[g].id = frame[g].id /\ frame'[g].val = frame[g].val
                           /\ frame'[g].dirty = frame[g].dirty
                           /\ frame[g].id = NoPage => frame'[g] = frame[g]
  <2>1. frame \in [Frames -> FrameState] /\ frame[f] \in FrameState
    BY <1>1 DEF TypeOK
  <2>2. frame[f].pins - 1 \in Nat
    BY <1>1, <2>1 DEF FrameState
  <2>3. \A r \in FrameState, n \in Nat :
           LET s == [r EXCEPT !.pins = n]
           IN  s \in FrameState /\ s.id = r.id /\ s.val = r.val /\ s.dirty = r.dirty
    BY DEF FrameState
  <2>4. /\ frame' = [frame EXCEPT ![f] = [frame[f] EXCEPT !.pins = frame[f].pins - 1]]
        /\ frame[f].id # NoPage
    BY <1>1, <2>1 DEF NoPage, DataPages
  <2> DEFINE new == [frame[f] EXCEPT !.pins = frame[f].pins - 1]
  <2>5. /\ new \in FrameState /\ new.id = frame[f].id /\ new.val = frame[f].val
        /\ new.dirty = frame[f].dirty
    BY <2>1, <2>2, <2>3
  <2> HIDE DEF new
  <2>6. frame' = [frame EXCEPT ![f] = new]
    BY <2>4 DEF new
  <2> QED
    BY <2>1, <2>4, <2>5, <2>6
<1>4. \A q \in DataPages : (Resident(q)' <=> Resident(q)) /\ Holder(q)' = Holder(q)
  <2> TAKE q \in DataPages
  <2>1. \A g \in Frames : frame'[g].id = q <=> frame[g].id = q
    BY <1>3
  <2> QED
    BY <2>1 DEF Resident, Holder
<1>5. \A q \in DataPages : Seen(q)' = Seen(q)
  BY <1>2, <1>3, <1>4, HolderOf DEF Seen
<1>6. TypeOK'
  BY <1>2, <1>3 DEF TypeOK
<1>7. InUse' = InUse /\ CommittedInUse' = CommittedInUse /\ InUse \subseteq DataPages
  BY <1>2, UsedArePages DEF InUse, CommittedInUse, TypeOK
<1>8. Coherent'
  BY <1>2, <1>3, <1>7 DEF Coherent
<1>9. FreeListsSound'
  BY <1>2 DEF FreeListsSound
<1>10. UsedPagesUsable'
  BY <1>2, <1>5, <1>7 DEF UsedPagesUsable
<1>11. NewPagesKnown'
  BY <1>2, <1>3, <1>4, <1>7 DEF NewPagesKnown
<1> QED
  BY <1>3, <1>5, <1>6, <1>8, <1>9, <1>10, <1>11

\* Frames dropped: the others are as they were.
LEMMA DropIs ==
    ASSUME TypeOK, Coherent, NEW D, frame' = Drop(D)
    PROVE  /\ frame' \in [Frames -> FrameState]
           /\ \A f, g \in Frames : frame'[f].id # NoPage /\ frame'[f].id = frame'[g].id => f = g
           /\ \A f \in Frames :
                 /\ frame'[f].id = NoPage => frame'[f] = NoFrame
                 /\ f \in D => frame'[f] = NoFrame /\ frame'[f].id = NoPage /\ ~frame'[f].dirty
                 /\ f \notin D => frame'[f] = frame[f]
<1>1. NoFrame \in FrameState /\ NoFrame.id = NoPage /\ ~NoFrame.dirty
  BY DEF NoFrame, FrameState, NoPage, Zero, Data, Content
<1>2. \A f \in Frames : frame'[f] = IF f \in D THEN NoFrame ELSE frame[f]
  BY DEF Drop
<1>3. frame' \in [Frames -> FrameState]
  <2>1. \A f \in Frames : frame[f] \in FrameState
    BY DEF TypeOK
  <2> QED
    BY <1>1, <2>1 DEF Drop
<1> QED
  BY <1>1, <1>2, <1>3 DEF Coherent

LEMMA FreeKeeps ==
    ASSUME PoolInv, NEW p \in DataPages, Free(p)
    PROVE  /\ PoolInv'
           /\ \/ /\ thrown' = "none" /\ InUse' = InUse \ {p}
                 /\ \A q \in InUse' : Seen(q)' = Seen(q)
              \/ thrown' # "none"
           /\ \A f \in Frames : frame[f].pins > 0 => frame'[f].id = frame[f].id
<1> USE DEF PoolInv
<1> DEFINE D == {f \in Frames : frame[f].id = p}
<1>1. /\ thrown = "none" /\ p \in InUse /\ stamp' \in 0..MaxStamp
      /\ \A f \in D : frame[f].pins = 0
      /\ frame' = Drop(D)
      /\ UNCHANGED <<committed, listed, hand>>
  <2>1. stamp \in 0..MaxStamp /\ stamp < MaxStamp /\ stamp' = stamp + 1
    BY DEF Free, TypeOK
  <2>2. stamp' \in 0..MaxStamp
    BY <2>1
  <2> QED
    BY <2>2 DEF Free, Calling
<1>2. /\ frame' \in [Frames -> FrameState]
      /\ \A f, g \in Frames : frame'[f].id # NoPage /\ frame'[f].id = frame'[g].id => f = g
      /\ \A f \in Frames :
            /\ frame'[f].id = NoPage => frame'[f] = NoFrame
            /\ f \in D => frame'[f] = NoFrame /\ frame'[f].id = NoPage /\ ~frame'[f].dirty
            /\ f \notin D => frame'[f] = frame[f]
  BY <1>1, DropIs
<1>3. p # NoPage /\ InUse \subseteq DataPages /\ CommittedInUse' = CommittedInUse
  BY <1>1, UsedArePages DEF InUse, CommittedInUse, TypeOK, NoPage, DataPages
<1>4. \A f \in Frames : /\ frame'[f].id # p
                        /\ frame'[f].id # NoPage => frame'[f] = frame[f]
                        /\ frame'[f].id = NoPage => ~frame'[f].dirty
  BY <1>2, <1>3 DEF NoFrame
<1>5. \A f \in Frames : frame[f].id # p => frame'[f] = frame[f]
  BY <1>2
<1>6. \A f \in Frames : frame[f].pins > 0 => frame'[f].id = frame[f].id
  <2> SUFFICES ASSUME NEW f \in Frames, frame[f].pins > 0 PROVE f \notin D
    BY <1>2
  <2> QED
    BY <1>1
<1> HIDE DEF D
<1>7. \A q \in DataPages \ {p} : (Resident(q)' <=> Resident(q)) /\ Holder(q)' = Holder(q)
  <2> TAKE q \in DataPages \ {p}
  <2>1. q # NoPage
    BY DEF NoPage, DataPages
  <2>2. \A f \in Frames : frame'[f].id = q <=> frame[f].id = q
    BY <1>4, <1>5, <2>1
  <2> QED
    BY <2>2 DEF Resident, Holder
<1>8. ~Resident(p)'
  BY <1>4 DEF Resident
<1>9. \A q \in InUse \ CommittedInUse :
          q \in pending \/ \E f \in Frames : frame[f].id = q /\ frame[f].dirty
  BY <1>1 DEF NewPagesKnown
<1>10. CASE page[p].isFree
  <2>1. thrown' = "double free" /\ UNCHANGED <<page, pending, meta, free>>
    BY <1>10 DEF Free
  <2>2. InUse' = InUse
    BY <2>1 DEF InUse
  <2>3. TypeOK'
    BY <1>1, <1>2, <2>1 DEF TypeOK
  <2>4. Coherent'
    <3>1. \A f \in Frames :
              /\ frame'[f].id \in InUse' \cup {NoPage}
              /\ frame'[f].dirty => f \in listed'
              /\ frame'[f].id # NoPage /\ ~frame'[f].dirty => frame'[f].val = page'[frame'[f].id]
      BY <1>1, <1>4, <2>1, <2>2 DEF Coherent
    <3>2. \A q \in DataPages \ pending' : page'[q] = committed'.page[q]
      BY <1>1, <2>1 DEF Coherent
    <3> QED
      BY <1>2, <3>1, <3>2 DEF Coherent
  <2>5. FreeListsSound'
    BY <1>1, <2>1 DEF FreeListsSound
  <2>6. UsedPagesUsable'
    BY <1>1, <1>3, <2>1 DEF UsedPagesUsable
  <2>7. NewPagesKnown'
    <3> SUFFICES ASSUME NEW q \in InUse, q \notin CommittedInUse
                 PROVE  \/ q \in pending'
                        \/ \E f \in Frames : frame'[f].id = q /\ frame'[f].dirty
                        \/ thrown' # "none" /\ ~Resident(q)'
      BY <1>3, <2>2 DEF NewPagesKnown
    <3>1. CASE q = p
      BY <1>8, <2>1, <3>1
    <3>2. CASE q # p /\ q \in pending
      BY <2>1, <3>2
    <3>3. CASE q # p /\ \E f \in Frames : frame[f].id = q /\ frame[f].dirty
      <4>1. PICK f \in Frames : frame[f].id = q /\ frame[f].dirty
        BY <3>3
      <4>2. frame'[f] = frame[f]
        BY <1>5, <3>3, <4>1
      <4> QED
        BY <4>1, <4>2
    <3> QED
      BY <1>9, <3>1, <3>2, <3>3
  <2> QED
    BY <1>6, <2>1, <2>3, <2>4, <2>5, <2>6, <2>7
<1>11. CASE ~page[p].isFree
  <2>1. /\ page' = [page EXCEPT ![p] = Marker(meta.head)] /\ pending' = pending \cup {p}
        /\ meta' = [meta EXCEPT !.head = p] /\ free' = <<p>> \o free /\ thrown' = thrown
    BY <1>11 DEF Free
  <2>2. /\ page' \in [DataPages -> Content] /\ meta' \in Meta /\ free' \in Seq(DataPages)
        /\ IsFreeList(page', meta', free') /\ InUse' = InUse \ {p}
    BY <1>1, <2>1, FreedIs
  <2>3. \A q \in DataPages \ {p} : page'[q] = page[q]
    BY <2>1 DEF TypeOK
  <2>4. TypeOK'
    BY <1>1, <1>2, <2>1, <2>2 DEF TypeOK
  <2>5. \A f \in Frames : frame'[f].id # NoPage => frame'[f].id \in InUse' /\ frame'[f].id \in DataPages
    BY <1>3, <1>4, <2>2 DEF Coherent
  <2>6. Coherent'
    <3>1. \A f \in Frames :
              /\ frame'[f].dirty => f \in listed'
              /\ frame'[f].id # NoPage /\ ~frame'[f].dirty => frame'[f].val = page'[frame'[f].id]
      <4> TAKE f \in Frames
      <4>1. CASE frame'[f].id = NoPage
        BY <1>2, <4>1 DEF NoFrame
      <4>2. CASE frame'[f].id # NoPage
        BY <1>1, <1>4, <2>3, <2>5, <4>2 DEF Coherent
      <4> QED
        BY <4>1, <4>2
    <3>2. \A q \in DataPages \ pending' : page'[q] = committed'.page[q]
      BY <1>1, <2>1, <2>3 DEF Coherent
    <3> QED
      BY <1>2, <2>5, <3>1, <3>2 DEF Coherent
  <2>7. FreeListsSound'
    BY <1>1, <2>2 DEF FreeListsSound
  <2>8. \A q \in InUse' : Seen(q)' = Seen(q)
    <3> TAKE q \in InUse'
    <3>1. q \in DataPages \ {p}
      BY <1>3, <2>2
    <3>2. CASE Resident(q)
      <4>1. Holder(q) \in Frames /\ frame[Holder(q)].id = q
        BY <3>1, <3>2, HolderOf
      <4>2. frame'[Holder(q)] = frame[Holder(q)]
        BY <1>5, <3>1, <4>1
      <4> QED
        BY <1>7, <3>1, <3>2, <4>2 DEF Seen
    <3>3. CASE ~Resident(q)
      BY <1>7, <2>3, <3>1, <3>3 DEF Seen
    <3> QED
      BY <3>2, <3>3
  <2>9. UsedPagesUsable'
    BY <1>1, <1>3, <2>2, <2>8 DEF UsedPagesUsable
  <2>10. NewPagesKnown'
    <3> SUFFICES ASSUME NEW q \in InUse', q \notin CommittedInUse
                 PROVE  q \in pending' \/ \E f \in Frames : frame'[f].id = q /\ frame'[f].dirty
      BY <1>3 DEF NewPagesKnown
    <3>1. q \in InUse /\ q # p
      BY <2>2
    <3>2. CASE q \in pending
      BY <2>1, <3>2
    <3>3. CASE \E f \in Frames : frame[f].id = q /\ frame[f].dirty
      <4>1. PICK f \in Frames : frame[f].id = q /\ frame[f].dirty
        BY <3>3
      <4>2. frame'[f] = frame[f]
        BY <1>5, <3>1, <4>1
      <4> QED
        BY <4>1, <4>2
    <3> QED
      BY <1>9, <3>1, <3>2, <3>3
  <2> QED
    BY <1>1, <1>6, <2>1, <2>2, <2>4, <2>6, <2>7, <2>8, <2>9, <2>10
<1> QED
  BY <1>10, <1>11

LEMMA RollbackKeeps ==
    ASSUME PoolInv, Rollback
    PROVE  /\ PoolInv'
           /\ thrown' = "none" /\ InUse' = CommittedInUse
           /\ \A q \in DataPages : Seen(q)' = committed.page[q]
           /\ \A f \in Frames : frame[f].pins > 0 => frame'[f].id = frame[f].id
<1> USE DEF PoolInv
<1>1. /\ \A f \in Changed : frame[f].pins = 0
      /\ frame' = Drop(Changed) /\ listed' = {} /\ page' = committed.page /\ pending' = {}
      /\ meta' = committed.meta /\ free' = committed.free /\ thrown' = "none"
      /\ UNCHANGED <<committed, hand, stamp>>
  BY DEF Rollback
<1>2. /\ frame' \in [Frames -> FrameState]
      /\ \A f, g \in Frames : frame'[f].id # NoPage /\ frame'[f].id = frame'[g].id => f = g
      /\ \A f \in Frames :
            /\ frame'[f].id = NoPage => frame'[f] = NoFrame
            /\ f \in Changed => frame'[f] = NoFrame /\ frame'[f].id = NoPage /\ ~frame'[f].dirty
            /\ f \notin Changed => frame'[f] = frame[f]
  BY <1>1, DropIs
<1>3. InUse' = CommittedInUse /\ CommittedInUse' = CommittedInUse
  BY <1>1 DEF InUse, CommittedInUse
<1>4. ASSUME NEW f \in Frames, frame'[f].id # NoPage
      PROVE  /\ frame'[f] = frame[f] /\ ~frame[f].dirty
             /\ frame[f].id \in CommittedInUse
             /\ frame[f].val = committed.page[frame[f].id]
  <2>1. f \notin Changed /\ frame'[f] = frame[f]
    BY <1>2, <1>4
  <2>2. ~frame[f].dirty
    BY <2>1 DEF Changed, ToCommit, Coherent
  <2>3. frame[f].id \notin pending
    BY <2>1 DEF Changed
  <2>4. frame[f].id \in DataPages /\ frame[f].id \in InUse
    BY <1>4, <2>1, IdsArePages DEF Coherent
  <2>5. frame[f].val = committed.page[frame[f].id]
    BY <1>4, <2>1, <2>2, <2>3, <2>4 DEF Coherent
  <2>6. \A g \in Frames : frame[g].id = frame[f].id => ~frame[g].dirty
    BY <1>4, <2>1, <2>2 DEF Coherent
  <2>7. frame[f].id \in CommittedInUse
    BY <2>3, <2>4, <2>6 DEF NewPagesKnown, Resident
  <2> QED
    BY <2>1, <2>2, <2>5, <2>7
<1>5. TypeOK'
  BY <1>1, <1>2 DEF TypeOK
<1>6. Coherent'
  <2>1. \A f \in Frames :
            /\ frame'[f].id \in InUse' \cup {NoPage}
            /\ frame'[f].dirty => f \in listed'
            /\ frame'[f].id # NoPage /\ ~frame'[f].dirty => frame'[f].val = page'[frame'[f].id]
    <3> TAKE f \in Frames
    <3>1. CASE frame'[f].id = NoPage
      BY <1>2, <3>1 DEF NoFrame
    <3>2. CASE frame'[f].id # NoPage
      BY <1>1, <1>3, <1>4, <3>2
    <3> QED
      BY <3>1, <3>2
  <2> QED
    BY <1>1, <1>2, <2>1 DEF Coherent
<1>7. FreeListsSound'
  BY <1>1 DEF FreeListsSound
<1>8. \A q \in DataPages : Seen(q)' = committed.page[q]
  <2> TAKE q \in DataPages
  <2>1. CASE Resident(q)'
    <3>1. Holder(q)' \in Frames /\ frame'[Holder(q)'].id = q
      BY <2>1 DEF Resident, Holder
    <3>2. q # NoPage
      BY DEF NoPage, DataPages
    <3>3. frame'[Holder(q)'].val = committed.page[q]
      BY <1>4, <3>1, <3>2
    <3> QED
      BY <2>1, <3>3 DEF Seen
  <2>2. CASE ~Resident(q)'
    BY <1>1, <2>2 DEF Seen
  <2> QED
    BY <2>1, <2>2
<1>9. UsedPagesUsable'
  <2>1. CommittedInUse \subseteq DataPages
    BY UsedArePages DEF CommittedInUse, TypeOK
  <2> QED
    BY <1>1, <1>3, <1>8, <2>1 DEF UsedPagesUsable
<1>10. NewPagesKnown'
  BY <1>3 DEF NewPagesKnown
<1>11. \A f \in Frames : frame[f].pins > 0 => frame'[f].id = frame[f].id
  <2> SUFFICES ASSUME NEW f \in Frames, frame[f].pins > 0 PROVE f \notin Changed
    BY <1>2
  <2> QED
    BY <1>1
<1> QED
  BY <1>1, <1>3, <1>5, <1>6, <1>7, <1>8, <1>9, <1>10, <1>11

LEMMA RestartKeeps ==
    ASSUME PoolInv, Restart
    PROVE  /\ PoolInv'
           /\ thrown' = "none" /\ InUse' = CommittedInUse
           /\ \A q \in DataPages : Seen(q)' = committed.page[q]
           /\ frame' = EmptyPool
<1> USE DEF PoolInv
<1>1. /\ frame' = EmptyPool /\ listed' = {} /\ hand' = 0 /\ page' = committed.page
      /\ pending' = {} /\ meta' = committed.meta /\ free' = committed.free
      /\ thrown' = "none" /\ UNCHANGED <<committed, stamp>>
  BY DEF Restart
<1>2. /\ \A f \in Frames : frame'[f] = NoFrame
      /\ NoFrame \in FrameState /\ NoFrame.id = NoPage /\ ~NoFrame.dirty
      /\ frame' \in [Frames -> FrameState]
  BY <1>1 DEF EmptyPool, NoFrame, FrameState, NoPage, Zero, Data, Content
<1>3. InUse' = CommittedInUse /\ CommittedInUse' = CommittedInUse
  BY <1>1 DEF InUse, CommittedInUse
<1>4. TypeOK'
  <2>1. 0 \in Frames
    BY DEF Frames
  <2>2. /\ committed.page \in [DataPages -> Content] /\ committed.meta \in Meta
        /\ committed.free \in Seq(DataPages)
    BY DEF TypeOK
  <2> QED
    BY <1>1, <1>2, <2>1, <2>2 DEF TypeOK
<1>5. Coherent'
  BY <1>1, <1>2 DEF Coherent
<1>6. FreeListsSound'
  BY <1>1 DEF FreeListsSound
<1>7. \A q \in DataPages : Seen(q)' = committed.page[q]
  <2> TAKE q \in DataPages
  <2>1. q # NoPage
    BY DEF NoPage, DataPages
  <2>2. ~Resident(q)'
    BY <1>2, <2>1 DEF Resident
  <2> QED
    BY <1>1, <2>2 DEF Seen
<1>8. UsedPagesUsable'
  <2>1. CommittedInUse \subseteq DataPages
    BY UsedArePages DEF CommittedInUse, TypeOK
  <2> QED
    BY <1>1, <1>3, <1>7, <2>1 DEF UsedPagesUsable
<1>9. NewPagesKnown'
  BY <1>3 DEF NewPagesKnown
<1> QED
  BY <1>1, <1>3, <1>4, <1>5, <1>6, <1>7, <1>8, <1>9
-----------------------------------------------------------------------------
(* The theorems.                                                           *)

LEMMA ReadKeeps ==
    ASSUME PoolInv, NEW p \in DataPages, Read(p) \/ FetchPin(p)
    PROVE  /\ PoolInv'
           /\ \/ thrown' = "none" /\ \A q \in DataPages : Seen(q)' = Seen(q)
              \/ thrown' # "none"
           /\ InUse' = InUse /\ CommittedInUse' = CommittedInUse /\ committed' = committed
<1> USE DEF PoolInv
<1>1. PICK k \in {0, 1} : Access(p, Seen(p), FALSE, k)
  BY DEF Read, FetchPin
<1>2. /\ thrown = "none" /\ p \in InUse
      /\ UNCHANGED <<meta, free, committed, stamp>>
  BY DEF Read, FetchPin, Calling
<1>3. Seen(p) \in Content
  BY HolderOf DEF Seen, TypeOK, FrameState
<1>4. ~Seen(p).isFree
  BY <1>2 DEF UsedPagesUsable
<1>5. InUse' = InUse /\ CommittedInUse' = CommittedInUse /\ InUse \cup {p} = InUse
  BY <1>2 DEF InUse, CommittedInUse
<1>6. /\ stamp' \in 0..MaxStamp /\ meta' \in Meta /\ free' \in Seq(DataPages)
      /\ IsFreeList(page, meta', free')
  BY <1>2 DEF TypeOK, FreeListsSound
<1>7. k \in Nat
  BY <1>1
<1> DEFINE c == Seen(p)
<1> HIDE DEF c
<1>8. Access(p, c, FALSE, k) /\ c \in Content /\ ~c.isFree /\ c = Seen(p)
  BY <1>1, <1>3, <1>4 DEF c
<1>9. /\ PoolInv'
      /\ \/ /\ thrown' = "none"
            /\ \A q \in DataPages : Seen(q)' = IF q = p THEN c ELSE Seen(q)
         \/ thrown' # "none"
  BY <1>2, <1>5, <1>6, <1>7, <1>8, AccessKeeps
<1> QED
  BY <1>2, <1>5, <1>8, <1>9

LEMMA WriteKeeps ==
    ASSUME PoolInv, NEW p \in DataPages, Write(p)
    PROVE  /\ PoolInv' /\ Data(stamp') \in Content
           /\ \/ /\ thrown' = "none"
                 /\ \A q \in DataPages : Seen(q)' = IF q = p THEN Data(stamp') ELSE Seen(q)
              \/ thrown' # "none"
           /\ InUse' = InUse /\ CommittedInUse' = CommittedInUse /\ committed' = committed
<1> USE DEF PoolInv
<1>1. /\ Access(p, Data(stamp'), TRUE, 0) /\ thrown = "none" /\ p \in InUse
      /\ UNCHANGED <<meta, free, committed>>
  BY DEF Write, Calling
<1>2. stamp' \in 0..MaxStamp
  <2>1. stamp \in 0..MaxStamp /\ stamp < MaxStamp /\ stamp' = stamp + 1
    BY DEF Write, TypeOK
  <2> QED
    BY <2>1
<1>3. Data(stamp') \in Content /\ ~Data(stamp').isFree
  BY <1>2 DEF Data, Content, NoPage
<1>4. InUse' = InUse /\ CommittedInUse' = CommittedInUse /\ InUse \cup {p} = InUse
  BY <1>1 DEF InUse, CommittedInUse
<1>5. meta' \in Meta /\ free' \in Seq(DataPages) /\ IsFreeList(page, meta', free')
  BY <1>1 DEF TypeOK, FreeListsSound
<1> QED
  BY <1>1, <1>2, <1>3, <1>4, <1>5, AccessKeeps

LEMMA AllocateKeeps ==
    ASSUME PoolInv, Allocate
    PROVE  /\ PoolInv'
           /\ NextPage \in DataPages \ InUse
           /\ \/ /\ thrown' = "none"
                 /\ \A q \in DataPages : Seen(q)' = IF q = NextPage THEN Zero ELSE Seen(q)
              \/ thrown' # "none"
           /\ InUse' = InUse \cup {NextPage}
           /\ CommittedInUse' = CommittedInUse /\ committed' = committed
<1> USE DEF PoolInv
<1> DEFINE p == NextPage
<1>1. /\ Access(p, Zero, TRUE, 0) /\ thrown = "none" /\ Taken /\ UNCHANGED <<committed, stamp>>
  BY DEF Allocate, Calling
<1>2. /\ meta' \in Meta /\ free' \in Seq(DataPages) /\ IsFreeList(page, meta', free')
      /\ p \in DataPages \ InUse /\ InUse' = InUse \cup {p}
  BY <1>1, TakenIs
<1>3. Zero \in Content /\ ~Zero.isFree
  BY DEF Zero, Data, Content, NoPage
<1>4. stamp' \in 0..MaxStamp /\ CommittedInUse' = CommittedInUse
  BY <1>1 DEF TypeOK, CommittedInUse
<1> HIDE DEF p
<1>5. /\ PoolInv'
      /\ \/ /\ thrown' = "none"
            /\ \A q \in DataPages : Seen(q)' = IF q = p THEN Zero ELSE Seen(q)
         \/ thrown' # "none"
  BY <1>1, <1>2, <1>3, <1>4, AccessKeeps
<1> QED
  BY <1>1, <1>2, <1>4, <1>5 DEF p

LEMMA StepInv == PoolInv /\ [Next]_vars => PoolInv'
<1> SUFFICES ASSUME PoolInv, [Next]_vars PROVE PoolInv'
  OBVIOUS
<1>1. CASE \E p \in DataPages : Read(p) \/ FetchPin(p)
  BY <1>1, ReadKeeps
<1>2. CASE \E p \in DataPages : Unpin(p)
  BY <1>2, UnpinKeeps
<1>3. CASE \E p \in DataPages : Write(p)
  BY <1>3, WriteKeeps
<1>4. CASE \E p \in DataPages : Free(p)
  BY <1>4, FreeKeeps
<1>5. CASE Allocate
  BY <1>5, AllocateKeeps
<1>6. CASE Commit
  BY <1>6, CommitKeeps
<1>7. CASE CommitFails
  BY <1>7, CommitFailsKeeps
<1>8. CASE Rollback
  BY <1>8, RollbackKeeps
<1>9. CASE Restart
  BY <1>9, RestartKeeps
<1>10. CASE UNCHANGED vars
  <2>1. UNCHANGED <<page, pending, meta, free, committed, frame, listed, hand, thrown, stamp>>
    BY <1>10 DEF vars, pagerView, pool
  <2>2. InUse' = InUse /\ CommittedInUse' = CommittedInUse
    BY <2>1 DEF InUse, CommittedInUse
  <2>3. \A q : Seen(q)' = Seen(q) /\ Resident(q)' = Resident(q)
    BY <2>1 DEF Seen, Resident, Holder
  <2>4. TypeOK'
    BY <2>1 DEF PoolInv, TypeOK
  <2>5. Coherent'
    BY <2>1, <2>2 DEF PoolInv, Coherent
  <2>6. FreeListsSound'
    BY <2>1 DEF PoolInv, FreeListsSound
  <2>7. UsedPagesUsable'
    BY <2>1, <2>2, <2>3 DEF PoolInv, UsedPagesUsable
  <2>8. NewPagesKnown'
    BY <2>1, <2>2, <2>3 DEF PoolInv, NewPagesKnown
  <2> QED
    BY <2>4, <2>5, <2>6, <2>7, <2>8 DEF PoolInv
<1> QED
  BY <1>1, <1>2, <1>3, <1>4, <1>5, <1>6, <1>7, <1>8, <1>9, <1>10 DEF Next

\* The frames, the pager and the free list agree with each other in every
\* state: cache coherence, a list without a cycle or a page in use, and no page
\* in use left marked free (buffer_pool.cpp, pager.cpp:131-191).
THEOREM PoolInvariant == Spec => []PoolInv
<1>1. Init => PoolInv
  BY InitInv
<1>2. PoolInv /\ [Next]_vars => PoolInv'
  BY StepInv
<1> QED
  BY <1>1, <1>2, PTL DEF Spec

\* The variables keep their types: no pin count below zero, no hand past the
\* last frame, no page outside the file.
THEOREM PoolType == Spec => []TypeOK
<1>1. PoolInv => TypeOK
  BY DEF PoolInv
<1> QED
  BY <1>1, PoolInvariant, PTL

LEMMA AccessPins ==
    ASSUME TypeOK, Coherent, NEW p \in DataPages, NEW c \in Content, NEW marked \in BOOLEAN,
           NEW k \in Nat, Access(p, c, marked, k), ~marked => c = Seen(p)
    PROVE  \A f \in Frames : frame[f].pins > 0 => frame'[f].id = frame[f].id
  BY ObtainEffect, ObtainFailsEffect DEF Access

\* A pinned frame keeps its page until it is unpinned (buffer_pool.hpp:43-45),
\* whatever is evicted, freed, committed or rolled back meanwhile.
THEOREM PoolPinsHold == Spec => PinsHold
<1> DEFINE Held == \A f \in Frames : frame[f].pins > 0 =>
                      frame'[f].id = frame[f].id \/ frame' = EmptyPool
<1>1. PoolInv /\ [Next]_vars => [Held]_vars
  <2> SUFFICES ASSUME PoolInv, Next PROVE Held
    OBVIOUS
  <2> USE DEF PoolInv
  <2>1. ASSUME NEW p \in DataPages, Read(p) \/ FetchPin(p) PROVE Held
    <3>1. PICK k \in {0, 1} : Access(p, Seen(p), FALSE, k)
      BY <2>1 DEF Read, FetchPin
    <3>2. Seen(p) \in Content
      BY HolderOf DEF Seen, TypeOK, FrameState
    <3>3. k \in Nat
      BY <3>1
    <3> QED
      BY <3>1, <3>2, <3>3, AccessPins
  <2>2. ASSUME NEW p \in DataPages, Write(p) PROVE Held
    <3>1. Access(p, Data(stamp'), TRUE, 0) /\ Data(stamp') \in Content
      BY <2>2, WriteKeeps DEF Write
    <3> QED
      BY <3>1, AccessPins
  <2>3. CASE Allocate
    <3>1. Access(NextPage, Zero, TRUE, 0) /\ NextPage \in DataPages
      BY <2>3, AllocateKeeps DEF Allocate
    <3>2. Zero \in Content
      BY DEF Zero, Data, Content, NoPage
    <3> QED
      BY <3>1, <3>2, AccessPins
  <2>4. ASSUME NEW p \in DataPages, Unpin(p) PROVE Held
    BY <2>4, UnpinKeeps
  <2>5. ASSUME NEW p \in DataPages, Free(p) PROVE Held
    BY <2>5, FreeKeeps
  <2>6. CASE Commit
    BY <2>6, WrittenFrames DEF Commit
  <2>7. CASE CommitFails
    <3>1. PICK S \in SUBSET ToCommit : page' = WithFrames(S) /\ frame' = Cleaned(S)
      BY <2>7 DEF CommitFails, WrittenBack
    <3> QED
      BY <3>1, WrittenFrames
  <2>8. CASE Rollback
    BY <2>8, RollbackKeeps
  <2>9. CASE Restart
    BY <2>9, RestartKeeps
  <2> QED
    BY <2>1, <2>2, <2>3, <2>4, <2>5, <2>6, <2>7, <2>8, <2>9 DEF Next
<1> QED
  BY <1>1, PoolInvariant, PTL DEF Spec, PinsHold
-----------------------------------------------------------------------------
(* The pool implements the store without a cache.                          *)

LEMMA PagesShape ==
    /\ DOMAIN Last = CommittedInUse /\ \A q \in CommittedInUse : Last[q] = committed.page[q]
    /\ thrown = "none" => DOMAIN Pages = InUse /\ \A q \in InUse : Pages[q] = Seen(q)
    /\ thrown # "none" => Pages = Last
  BY DEF Last, Pages

\* A step that ends with an exception: what the client wrote is lost.
LEMMA ThrowsAbort ==
    ASSUME thrown' # "none", committed' = committed
    PROVE  Space!Abort
<1>1. CommittedInUse' = CommittedInUse
  BY DEF CommittedInUse
<1>2. Last' = Last
  BY <1>1 DEF Last
<1>3. Pages' = Last'
  BY DEF Pages, Last
<1> QED
  BY <1>2, <1>3 DEF Space!Abort

\* A rollback, or a restart.
LEMMA BackAborts ==
    ASSUME thrown' = "none", committed' = committed, InUse' = CommittedInUse,
           CommittedInUse \subseteq DataPages,
           \A q \in DataPages : Seen(q)' = committed.page[q]
    PROVE  Space!Abort
<1>1. CommittedInUse' = CommittedInUse
  BY DEF CommittedInUse
<1>2. Last' = Last
  BY <1>1 DEF Last
<1>3. Pages' = [q \in CommittedInUse |-> committed.page[q]]
  BY DEF Pages
<1> QED
  BY <1>2, <1>3 DEF Space!Abort, Last

LEMMA StepImplements ==
    ASSUME PoolInv, PoolInv', [Next]_vars
    PROVE  [Space!Next]_<<Pages, Last>>
<1> USE DEF PoolInv
<1>0. InUse \subseteq DataPages /\ CommittedInUse \subseteq DataPages
  BY UsedArePages DEF InUse, CommittedInUse, TypeOK
<1>1. ASSUME NEW p \in DataPages, Read(p) \/ FetchPin(p)
      PROVE  Space!Abort \/ UNCHANGED <<Pages, Last>>
  <2>1. /\ thrown = "none" /\ committed' = committed
        /\ InUse' = InUse /\ CommittedInUse' = CommittedInUse
        /\ \/ thrown' = "none" /\ \A q \in DataPages : Seen(q)' = Seen(q)
           \/ thrown' # "none"
    BY <1>1, ReadKeeps DEF Read, FetchPin, Calling
  <2>2. CASE thrown' # "none"
    BY <2>1, <2>2, ThrowsAbort
  <2>3. CASE thrown' = "none"
    <3>1. Last' = Last
      BY <2>1 DEF Last
    <3>2. Pages = [q \in InUse |-> Seen(q)] /\ Pages' = [q \in InUse' |-> Seen(q)']
      BY <2>1, <2>3 DEF Pages
    <3>3. Pages' = Pages
      BY <1>0, <2>1, <2>3, <3>2
    <3> QED
      BY <3>1, <3>3
  <2> QED
    BY <2>2, <2>3
<1>2. ASSUME NEW p \in DataPages, Unpin(p) PROVE UNCHANGED <<Pages, Last>>
  <2>1. UNCHANGED <<meta, free, committed, thrown>>
    BY <1>2 DEF Unpin, pagerView
  <2>2. InUse' = InUse /\ CommittedInUse' = CommittedInUse
    BY <2>1 DEF InUse, CommittedInUse
  <2>3. \A q \in InUse : Seen(q)' = Seen(q)
    BY <1>0, <1>2, UnpinKeeps
  <2> QED
    BY <2>1, <2>2, <2>3 DEF Pages, Last
<1>3. ASSUME NEW p \in DataPages, Write(p)
      PROVE  Space!Abort \/ \E v \in Content : Space!Write(p, v)
  <2>1. /\ thrown = "none" /\ committed' = committed /\ p \in InUse
        /\ InUse' = InUse /\ CommittedInUse' = CommittedInUse /\ Data(stamp') \in Content
        /\ \/ /\ thrown' = "none"
              /\ \A q \in DataPages : Seen(q)' = IF q = p THEN Data(stamp') ELSE Seen(q)
           \/ thrown' # "none"
    BY <1>3, WriteKeeps DEF Write, Calling
  <2>2. CASE thrown' # "none"
    BY <2>1, <2>2, ThrowsAbort
  <2>3. CASE thrown' = "none"
    <3>1. Last' = Last
      BY <2>1 DEF Last
    <3>2. Pages = [q \in InUse |-> Seen(q)] /\ Pages' = [q \in InUse' |-> Seen(q)']
      BY <2>1, <2>3 DEF Pages
    <3>3. Pages' = [Pages EXCEPT ![p] = Data(stamp')]
      BY <1>0, <2>1, <2>3, <3>2
    <3>4. Space!Write(p, Data(stamp'))
      BY <2>1, <3>1, <3>2, <3>3 DEF Space!Write
    <3> QED
      BY <2>1, <3>4
  <2> QED
    BY <2>2, <2>3
<1>4. CASE Allocate
  <2>1. /\ thrown = "none" /\ committed' = committed /\ NextPage \in DataPages \ InUse
        /\ InUse' = InUse \cup {NextPage} /\ CommittedInUse' = CommittedInUse
        /\ \/ /\ thrown' = "none"
              /\ \A q \in DataPages : Seen(q)' = IF q = NextPage THEN Zero ELSE Seen(q)
           \/ thrown' # "none"
    BY <1>4, AllocateKeeps DEF Allocate, Calling
  <2>2. CASE thrown' # "none"
    BY <2>1, <2>2, ThrowsAbort DEF Space!Next
  <2>3. CASE thrown' = "none"
    <3>1. Last' = Last
      BY <2>1 DEF Last
    <3>2. Pages = [q \in InUse |-> Seen(q)] /\ Pages' = [q \in InUse' |-> Seen(q)']
      BY <2>1, <2>3 DEF Pages
    <3>3. Pages' = [q \in InUse \cup {NextPage} |-> IF q = NextPage THEN Zero ELSE Pages[q]]
      BY <1>0, <2>1, <2>3, <3>2
    <3>4. Space!Allocate(NextPage)
      BY <2>1, <3>1, <3>2, <3>3 DEF Space!Allocate
    <3> QED
      BY <2>1, <3>4 DEF Space!Next
  <2> QED
    BY <2>2, <2>3 DEF Space!Next
<1>5. ASSUME NEW p \in DataPages, Free(p) PROVE Space!Abort \/ Space!Free(p)
  <2>1. /\ thrown = "none" /\ committed' = committed /\ p \in InUse
        /\ \/ /\ thrown' = "none" /\ InUse' = InUse \ {p}
              /\ \A q \in InUse' : Seen(q)' = Seen(q)
           \/ thrown' # "none"
    BY <1>5, FreeKeeps DEF Free, Calling
  <2>2. CASE thrown' # "none"
    BY <2>1, <2>2, ThrowsAbort
  <2>3. CASE thrown' = "none"
    <3>1. Last' = Last
      BY <2>1 DEF Last, CommittedInUse
    <3>2. Pages = [q \in InUse |-> Seen(q)] /\ Pages' = [q \in InUse' |-> Seen(q)']
      BY <2>1, <2>3 DEF Pages
    <3>3. Pages' = [q \in InUse \ {p} |-> Pages[q]]
      BY <2>1, <2>3, <3>2
    <3> QED
      BY <2>1, <3>1, <3>2, <3>3 DEF Space!Free
  <2> QED
    BY <2>2, <2>3
<1>6. CASE Commit
  <2>1. /\ UNCHANGED <<meta, free, thrown>> /\ thrown = "none"
        /\ committed'.meta = meta /\ committed'.free = free
    BY <1>6 DEF Commit, Calling
  <2>2. InUse' = InUse /\ CommittedInUse' = InUse
    BY <2>1 DEF InUse, CommittedInUse
  <2>3. \A q \in InUse : Seen(q)' = Seen(q) /\ committed'.page[q] = Seen(q)
    BY <1>0, <1>6, CommitKeeps
  <2>4. Pages = [q \in InUse |-> Seen(q)] /\ Pages' = [q \in InUse' |-> Seen(q)']
    BY <2>1 DEF Pages
  <2>5. Last' = [q \in CommittedInUse' |-> committed'.page[q]]
    BY DEF Last
  <2>6. Pages' = Pages /\ Last' = Pages
    BY <2>2, <2>3, <2>4, <2>5
  <2> QED
    BY <2>6 DEF Space!Commit, Space!Next
<1>7. CASE CommitFails
  <2>1. thrown' # "none" /\ committed' = committed
    BY <1>7 DEF CommitFails
  <2> QED
    BY <2>1, ThrowsAbort DEF Space!Next
<1>8. CASE Rollback
  <2>1. committed' = committed
    BY <1>8 DEF Rollback
  <2> QED
    BY <1>0, <1>8, <2>1, RollbackKeeps, BackAborts DEF Space!Next
<1>9. CASE Restart
  <2>1. committed' = committed
    BY <1>9 DEF Restart
  <2> QED
    BY <1>0, <1>9, <2>1, RestartKeeps, BackAborts DEF Space!Next
<1>10. CASE UNCHANGED vars
  BY <1>10 DEF vars, pagerView, pool, Pages, Last, InUse, CommittedInUse, Seen, Resident, Holder
<1> QED
  BY <1>1, <1>2, <1>3, <1>4, <1>5, <1>6, <1>7, <1>8, <1>9, <1>10 DEF Next, Space!Next

\* Seen through the pool, the pages are those of a store without one, in every
\* behaviour: no eviction, write-back, failed commit or rollback shows a client
\* a stale page or one of a transaction that was undone.
THEOREM PoolImplementsPageSpace == Spec => ImplementsPageSpace
<1>1. Init => Space!Init
  <2> SUFFICES ASSUME Init PROVE Space!Init
    OBVIOUS
  <2>1. InUse = {} /\ CommittedInUse = {} /\ thrown = "none"
    BY DEF Init, InUse, CommittedInUse, Used
  <2>2. Pages = [q \in {} |-> Seen(q)] /\ Last = [q \in {} |-> committed.page[q]]
    BY <2>1 DEF Pages, Last
  <2>3. Pages \in [{} -> Content] /\ Last = Pages
    BY <2>2
  <2> QED
    BY <2>3 DEF Space!Init
<1>2. PoolInv /\ PoolInv' /\ [Next]_vars => [Space!Next]_<<Pages, Last>>
  BY StepImplements
<1> QED
  BY <1>1, <1>2, PoolInvariant, PTL DEF Spec, Space!Spec, ImplementsPageSpace
-----------------------------------------------------------------------------
(* The clock.  The n-th frame the loop looks at is At(n); the loop stops   *)
(* at the first that is cold, or, its bit cleared a lap before, unpinned.  *)

At(n) == LET m == hand + n
         IN  IF m < Capacity THEN m
             ELSE IF m < 2 * Capacity THEN m - Capacity
             ELSE IF m < 3 * Capacity THEN m - 2 * Capacity
             ELSE m - 3 * Capacity

\* One turn of the loop.
Look(s) ==
    IF s.found # {} THEN s
    ELSE [hand  |-> NextHand(s.hand),
          ref   |-> IF s.hand \in Unpinned THEN s.ref \ {s.hand} ELSE s.ref,
          found |-> IF s.hand \in Unpinned \ s.ref THEN {s.hand} ELSE {}]

\* The bits left when n frames have been looked at, and where the loop stops.
Passed(n) == {f \in Unpinned : \E i \in 0..n-1 : At(i) = f}
Stop == IF Unpinned = {} THEN Exhausted
        ELSE IF Cold # {} THEN Turn(Victim) ELSE Capacity + Turn(Victim)

Looking(n) == [hand |-> At(n), ref |-> Referenced \ Passed(n), found |-> {}]
Found      == [hand |-> At(Stop + 1), ref |-> Referenced \ Passed(Stop), found |-> {At(Stop)}]
Looked(n)  == IF n <= Stop THEN Looking(n) ELSE Found

LEMMA SmallModulo ==
    ASSUME NEW a \in Nat, a < 2 * Capacity
    PROVE  a % Capacity = IF a < Capacity THEN a ELSE a - Capacity
<1>1. CASE a < Capacity
  <2>1. \A b \in Nat \ {0} : \A c \in 0..b-1 : c % b = c
    OBVIOUS
  <2> QED
    BY <1>1, <2>1
<1>2. CASE a >= Capacity
  <2>1. \A b \in Nat \ {0} : \A c \in b..2*b-1 : c % b = c - b
    OBVIOUS
  <2> QED
    BY <1>2, <2>1
<1> QED
  BY <1>1, <1>2

LEMMA TurnIs ==
    ASSUME hand \in Frames, NEW f \in Frames
    PROVE  /\ Turn(f) = IF f < hand THEN f + Capacity - hand ELSE f - hand
           /\ Turn(f) \in Frames
           /\ At(Turn(f)) = f
<1> DEFINE a == f + Capacity - hand
<1>1. a \in Nat /\ a < 2 * Capacity /\ Turn(f) = a % Capacity
  BY DEF Frames, Turn
<1>2. a < Capacity <=> f < hand
  BY DEF Frames
<1>3. a - Capacity = f - hand
  BY DEF Frames
<1>4. Turn(f) = IF a < Capacity THEN a ELSE a - Capacity
  <2> HIDE DEF a
  <2> QED
    BY <1>1, SmallModulo
<1>5. Turn(f) = IF f < hand THEN f + Capacity - hand ELSE f - hand
  BY <1>2, <1>3, <1>4
<1>6. Turn(f) \in Frames
  BY <1>5 DEF Frames
<1>7. At(Turn(f)) = f
  BY <1>5 DEF Frames, At
<1> QED
  BY <1>5, <1>6, <1>7

LEMMA NextHandIs ==
    ASSUME NEW f \in Frames PROVE NextHand(f) = IF f + 1 < Capacity THEN f + 1 ELSE 0
<1> DEFINE a == f + 1
<1>1. a \in Nat /\ a < 2 * Capacity /\ a <= Capacity /\ NextHand(f) = a % Capacity
  BY DEF Frames, NextHand
<1> HIDE DEF a
<1>2. NextHand(f) = IF a < Capacity THEN a ELSE a - Capacity
  BY <1>1, SmallModulo
<1>3. NextHand(f) = IF a < Capacity THEN a ELSE 0
  BY <1>1, <1>2
<1> QED
  BY <1>3 DEF a

LEMMA AtIs ==
    ASSUME hand \in Frames, NEW n \in 0..2*Capacity
    PROVE  /\ At(n) \in Frames
           /\ At(n + 1) = NextHand(At(n))
           /\ n < Capacity => Turn(At(n)) = n
           /\ n >= Capacity => At(n) = At(n - Capacity)
<1>1. At(n) \in Frames
  BY DEF At, Frames
<1>2. At(n + 1) = IF At(n) + 1 < Capacity THEN At(n) + 1 ELSE 0
  BY DEF At, Frames
<1>3. n < Capacity => Turn(At(n)) = n
  BY <1>1, TurnIs DEF At, Frames
<1>4. n >= Capacity => At(n) = At(n - Capacity)
  BY DEF At, Frames
<1> QED
  BY <1>1, <1>2, <1>3, <1>4, NextHandIs

LEMMA FirstLap ==
    ASSUME hand \in Frames, NEW n \in 0..Capacity-1, NEW i \in 0..n-1 PROVE At(i) # At(n)
<1>1. Turn(At(i)) = i /\ Turn(At(n)) = n
  BY AtIs
<1> QED
  BY <1>1

\* The loop passes every frame before the stop, and takes the victim there.
LEMMA StopIs ==
    ASSUME hand \in Frames, Unpinned # {}
    PROVE  /\ Stop \in 0..2*Capacity-1
           /\ At(Stop) = Victim
           /\ Victim \in Unpinned \ (Referenced \ Passed(Stop))
           /\ \A n \in 0..Stop-1 : At(n) \in Unpinned => At(n) \in Referenced \ Passed(n)
<1> DEFINE S == IF Cold # {} THEN Cold ELSE Unpinned
<1>1. Victim \in S /\ \A g \in S : Turn(Victim) <= Turn(g)
  BY VictimLeast
<1>2. S \subseteq Unpinned /\ Unpinned \subseteq Frames
  BY DEF Cold, Unpinned
<1>3. Victim \in Frames
  BY <1>1, <1>2
<1>4. Turn(Victim) \in Frames /\ At(Turn(Victim)) = Victim
  BY <1>3, TurnIs
<1>5. ASSUME NEW n \in 0..Capacity-1, n < Turn(Victim) PROVE At(n) \notin S
  <2>1. Turn(At(n)) = n
    BY AtIs
  <2> QED
    BY <1>1, <1>4, <1>5, <2>1 DEF Frames
<1>6. ASSUME NEW n \in 0..Capacity-1 PROVE At(n) \notin Passed(n)
  BY FirstLap DEF Passed
<1>7. CASE Cold # {}
  <2>1. Stop = Turn(Victim) /\ S = Cold
    BY <1>7 DEF Stop
  <2>2. ASSUME NEW n \in 0..Stop-1, At(n) \in Unpinned PROVE At(n) \in Referenced \ Passed(n)
    <3>1. n \in 0..Capacity-1 /\ n < Turn(Victim)
      BY <2>1, <1>4 DEF Frames
    <3> QED
      BY <2>1, <2>2, <3>1, <1>5, <1>6 DEF Cold
  <2>3. Stop \in 0..2*Capacity-1
    BY <2>1, <1>4 DEF Frames
  <2> QED
    BY <2>1, <2>2, <2>3, <1>1, <1>4 DEF Cold
<1>8. CASE Cold = {}
  <2>1. Stop = Capacity + Turn(Victim) /\ S = Unpinned /\ Unpinned \subseteq Referenced
    BY <1>8 DEF Stop, Cold
  <2>2. ASSUME NEW n \in 0..Stop-1, At(n) \in Unpinned PROVE At(n) \in Referenced \ Passed(n)
    <3>1. CASE n < Capacity
      BY <2>1, <2>2, <3>1, <1>6
    <3>2. CASE n >= Capacity
      <4>1. n \in 0..2*Capacity /\ n - Capacity \in 0..Capacity-1 /\ n - Capacity < Turn(Victim)
        BY <2>1, <3>2, <1>4 DEF Frames
      <4>2. At(n) = At(n - Capacity)
        BY <4>1, <3>2, AtIs
      <4> QED
        BY <2>1, <2>2, <4>1, <4>2, <1>5
    <3> QED
      BY <3>1, <3>2, <2>1, <1>4 DEF Frames
  <2>3. Stop \in 0..2*Capacity-1 /\ Stop >= Capacity /\ Stop - Capacity = Turn(Victim)
    BY <2>1, <1>4 DEF Frames
  <2>4. At(Stop) = Victim
    BY <2>3, <1>4, AtIs
  <2>5. Victim \in Passed(Stop)
    <3>1. Turn(Victim) \in 0..Stop-1
      BY <2>1, <1>4 DEF Frames
    <3> QED
      BY <3>1, <1>1, <1>4, <2>1 DEF Passed
  <2> QED
    BY <2>1, <2>2, <2>3, <2>4, <2>5, <1>1
<1> QED
  BY <1>7, <1>8

LEMMA PassedMore ==
    ASSUME NEW n \in Nat PROVE Passed(n + 1) = Passed(n) \cup ({At(n)} \cap Unpinned)
<1>1. 0..n+1-1 = 0..n-1 \cup {n}
  OBVIOUS
<1> QED
  BY <1>1 DEF Passed

LEMMA LookedStep ==
    ASSUME hand \in Frames, NEW n \in 1..Exhausted
    PROVE  Looked(n) = Look(Looked(n - 1))
<1> DEFINE m == n - 1
<1>1. m \in 0..2*Capacity /\ m + 1 = n /\ m \in Nat
  BY DEF Exhausted
<1>2. /\ Unpinned = {} => Stop = Exhausted
      /\ Stop \in Nat
  BY StopIs DEF Stop, Exhausted
<1> HIDE DEF m
<1>3. At(n) = NextHand(At(m)) /\ At(m) \in Frames
  BY <1>1, AtIs
<1>4. Passed(n) = Passed(m) \cup ({At(m)} \cap Unpinned)
  BY <1>1, PassedMore
<1>5. CASE m < Stop
  <2>1. n <= Stop /\ m <= Stop
    BY <1>1, <1>2, <1>5
  <2>2. Looked(m) = Looking(m) /\ Looked(n) = Looking(n)
    BY <2>1 DEF Looked
  <2>3. At(m) \in Unpinned => At(m) \in Referenced \ Passed(m)
    BY <1>1, <1>2, <1>5, StopIs
  <2>4. Look(Looking(m)) = [hand |-> NextHand(At(m)),
                            ref |-> IF At(m) \in Unpinned THEN (Referenced \ Passed(m)) \ {At(m)}
                                    ELSE Referenced \ Passed(m),
                            found |-> {}]
    BY <2>3 DEF Look, Looking
  <2>5. Referenced \ Passed(n) = IF At(m) \in Unpinned THEN (Referenced \ Passed(m)) \ {At(m)}
                                 ELSE Referenced \ Passed(m)
    BY <1>4
  <2> QED
    BY <2>2, <2>4, <2>5, <1>3 DEF Looking, m
<1>6. CASE m = Stop
  <2>1. Unpinned # {}
    BY <1>1, <1>2, <1>6 DEF Exhausted
  <2>2. At(m) \in Unpinned \ (Referenced \ Passed(m))
    BY <1>6, <2>1, StopIs
  <2>3. Looked(m) = Looking(m) /\ Looked(n) = Found
    BY <1>1, <1>2, <1>6 DEF Looked
  <2>4. Look(Looking(m)) = [hand |-> NextHand(At(m)),
                            ref |-> (Referenced \ Passed(m)) \ {At(m)}, found |-> {At(m)}]
    BY <2>2 DEF Look, Looking
  <2>5. (Referenced \ Passed(m)) \ {At(m)} = Referenced \ Passed(m)
    BY <2>2
  <2>6. Found = [hand |-> At(n), ref |-> Referenced \ Passed(m), found |-> {At(m)}]
    BY <1>6, <1>1 DEF Found
  <2> QED
    BY <2>3, <2>4, <2>5, <2>6, <1>3 DEF m
<1>7. CASE m > Stop
  <2>1. Looked(m) = Found /\ Looked(n) = Found
    BY <1>1, <1>2, <1>7 DEF Looked
  <2>2. Look(Found) = Found
    BY DEF Look, Found
  <2> QED
    BY <2>1, <2>2 DEF m
<1> QED
  BY <1>1, <1>2, <1>5, <1>6, <1>7

\* What the loop has done when it has looked at n frames.
LEMMA ScanIs == ASSUME hand \in Frames PROVE \A n \in 0..Exhausted : Scan[n] = Looked(n)
<1> DEFINE N == 0..Exhausted
           Body(F, n) == IF n = 0 THEN [hand |-> hand, ref |-> Referenced, found |-> {}]
                         ELSE Look(F[n - 1])
           G == [n \in N |-> Looked(n)]
<1>1. Exhausted \in Nat /\ Stop \in Nat
  BY StopIs DEF Stop, Exhausted
<1>2. Scan = CHOOSE F : F = [n \in N |-> Body(F, n)]
  BY DEF Scan, Look
<1>3. Looked(0) = [hand |-> hand, ref |-> Referenced, found |-> {}]
  <2>1. At(0) = hand
    BY DEF At, Frames
  <2>2. Passed(0) = {}
    BY DEF Passed
  <2> QED
    BY <1>1, <2>1, <2>2 DEF Looked, Looking
<1>4. ASSUME NEW n \in N PROVE G[n] = Body(G, n)
  <2>1. CASE n = 0
    BY <2>1, <1>1, <1>3
  <2>2. CASE n # 0
    <3>1. n \in 1..Exhausted /\ n - 1 \in N
      BY <2>2, <1>1
    <3>2. Looked(n) = Look(Looked(n - 1))
      BY <3>1, LookedStep
    <3> QED
      BY <2>2, <3>1, <3>2
  <2> QED
    BY <2>1, <2>2
<1>5. G = [n \in N |-> Body(G, n)]
  <2> HIDE DEF Body
  <2> QED
    BY <1>4
<1>6. Scan = [n \in N |-> Body(Scan, n)]
  <2> HIDE DEF G, Body
  <2> QED
    BY <1>2, <1>5
<1> DEFINE Wrong == {n \in N : Scan[n] # Looked(n)}
<1>7. Wrong = {}
  <2> SUFFICES ASSUME Wrong # {} PROVE FALSE
    OBVIOUS
  <2>0. Wrong \in SUBSET Nat
    BY <1>1
  <2>1. PICK n \in Wrong : \A k \in Wrong : n <= k
    <3> HIDE DEF Wrong
    <3> QED
      BY <2>0, LeastOf
  <2>2. Scan[n] = Body(Scan, n)
    <3> HIDE DEF Body
    <3> QED
      BY <1>6, <2>1
  <2>3. n # 0
    BY <2>1, <2>2, <1>3
  <2>4. n \in 1..Exhausted /\ n - 1 \in N /\ ~(n <= n - 1)
    BY <2>1, <2>3, <1>1
  <2>5. Scan[n - 1] = Looked(n - 1)
    BY <2>1, <2>4
  <2>6. Looked(n) = Look(Looked(n - 1))
    BY <2>4, LookedStep
  <2> QED
    BY <2>1, <2>2, <2>3, <2>5, <2>6
<1> QED
  BY <1>7

LEMMA PassedIsReprieved ==
    ASSUME hand \in Frames, Unpinned # {} PROVE Passed(Stop) = Reprieved
<1>1. Victim \in Frames /\ Turn(Victim) \in Frames
  BY VictimLeast, TurnIs DEF Cold, Unpinned
<1>2. ASSUME NEW f \in Frames PROVE Turn(f) \in Frames /\ At(Turn(f)) = f
  BY <1>2, TurnIs
<1>3. CASE Cold # {}
  <2>1. Stop = Turn(Victim) /\ Reprieved = {f \in Unpinned : Turn(f) < Turn(Victim)}
    BY <1>3 DEF Stop, Reprieved
  <2>2. ASSUME NEW f \in Unpinned
        PROVE  (\E i \in 0..Stop-1 : At(i) = f) <=> Turn(f) < Turn(Victim)
    <3>1. f \in Frames
      BY DEF Unpinned
    <3>2. ASSUME NEW i \in 0..Stop-1, At(i) = f PROVE Turn(f) = i /\ i < Turn(Victim)
      BY <1>1, <2>1, <3>2, AtIs DEF Frames
    <3>3. Turn(f) < Turn(Victim) => Turn(f) \in 0..Stop-1
      BY <1>1, <1>2, <2>1, <3>1 DEF Frames
    <3> QED
      BY <1>2, <3>1, <3>2, <3>3
  <2> QED
    BY <2>1, <2>2 DEF Passed
<1>4. CASE Cold = {}
  <2>1. Stop = Capacity + Turn(Victim) /\ Reprieved = Unpinned
    BY <1>3, <1>4 DEF Stop, Reprieved
  <2>2. ASSUME NEW f \in Unpinned PROVE Turn(f) \in 0..Stop-1 /\ At(Turn(f)) = f
    BY <1>1, <1>2, <2>1 DEF Frames, Unpinned
  <2> QED
    BY <2>1, <2>2 DEF Passed
<1> QED
  BY <1>3, <1>4

LEMMA ClockFinds == hand \in Frames => ClockFindsVictim
<1> SUFFICES ASSUME hand \in Frames PROVE ClockFindsVictim
  OBVIOUS
<1> DEFINE s == Scan[Exhausted]
<1>1. Exhausted \in Nat /\ s = Looked(Exhausted)
  BY ScanIs DEF Exhausted
<1>2. CASE Unpinned = {}
  BY <1>1, <1>2 DEF ClockFindsVictim, Looked, Looking, Stop
<1>3. CASE Unpinned # {}
  <2>1. Stop \in 0..2*Capacity-1 /\ At(Stop) = Victim
    BY <1>3, StopIs
  <2>2. s = Found
    BY <1>1, <2>1 DEF Looked, Exhausted
  <2>3. At(Stop + 1) = NextHand(Victim)
    BY <2>1, AtIs
  <2>4. Referenced \ Passed(Stop) = Referenced \ Reprieved
    BY <1>3, PassedIsReprieved
  <2> HIDE DEF s
  <2>5. s.found = {Victim} /\ s.hand = NextHand(Victim) /\ s.ref = Referenced \ Reprieved
    BY <2>1, <2>2, <2>3, <2>4 DEF Found
  <2> QED
    BY <1>3, <2>5 DEF ClockFindsVictim, s
<1> QED
  BY <1>2, <1>3

\* choose_victim finds the frame of second chance in its 2n + 1 looks, for
\* every number of frames and wherever the hand and the bits are.
THEOREM PoolClockFindsVictim == Spec => []ClockFindsVictim
<1>1. PoolInv => ClockFindsVictim
  BY ClockFinds DEF PoolInv, TypeOK
<1> QED
  BY <1>1, PoolInvariant, PTL
=============================================================================
