----------------------------- MODULE BufferPool -----------------------------
(***************************************************************************)
(* The buffer pool of labdb (src/src/buffer_pool.hpp, buffer_pool.cpp)     *)
(* with the page allocation of the pager under it (Pager::allocate_page    *)
(* and Pager::free_page, src/src/pager.cpp): frames, pins, the clock, the  *)
(* dirty list and the free list, under transactions that commit, roll back *)
(* and fail.                                                               *)
(*                                                                         *)
(* Here the pager is what its callers see of it: the newest version of     *)
(* each page, those of the transaction, and what a rollback or a restart   *)
(* goes back to.  That it keeps these through its log, its checkpoints and *)
(* crashes is module Pager's business.                                     *)
(*                                                                         *)
(* Abstractions.  A page in use holds a number, a free one the next of the *)
(* list.  Every write writes a number never written before.  The client    *)
(* allocates, and then uses and frees only what it has allocated.  table_  *)
(* is the inverse of the frames' ids.  The dirty list is a set: frames     *)
(* listed twice are skipped.                                               *)
(***************************************************************************)
EXTENDS Integers, Sequences, FiniteSetsExt

CONSTANTS
    Capacity,   \* frames in the pool
    MaxPage,    \* bound: data pages are 1..MaxPage
    MaxStamp,   \* bound: page writes and frees of a behaviour
    MaxPins     \* bound: pins on a frame

ASSUME PoolAssumption ==
    /\ Capacity \in Nat \ {0}
    /\ MaxPage \in Nat
    /\ MaxStamp \in Nat
    /\ MaxPins \in Nat

VARIABLES
    page,       \* the pager's newest version of each page
    pending,    \* Pager::pending_pages(): those of the transaction in progress
    meta,       \* Pager::meta_: [count, head], page_count and freelist_head
    free,       \* the pages of the free list, in order (no variable of the code)
    committed,  \* page, meta and free as of the last commit
    frame,      \* frames_
    listed,     \* dirty_list_
    hand,       \* hand_
    thrown,     \* the exception on its way to the client, who will roll back
    stamp       \* writes and frees so far (no variable of the code)

pagerView == <<page, pending, meta, free, committed>>
pool      == <<frame, listed, hand>>
vars      == <<pagerView, pool, thrown, stamp>>

NoPage   == 0     \* kNullPage: the meta page, never in the pool
DataPages == 1..MaxPage
Frames   == 0..Capacity-1

Content   == [isFree : BOOLEAN, val : 0..MaxStamp, next : 0..MaxPage]
Data(v)   == [isFree |-> FALSE, val |-> v, next |-> NoPage]
Zero      == Data(0)
Marker(n) == [isFree |-> TRUE, val |-> 0, next |-> n]   \* a page of the free list
Meta      == [count : 1..MaxPage+1, head : 0..MaxPage]

FrameState == [id : 0..MaxPage, val : Content, pins : Nat, dirty : BOOLEAN, ref : BOOLEAN]
NoFrame    == [id |-> NoPage, val |-> Zero, pins |-> 0, dirty |-> FALSE, ref |-> FALSE]
EmptyPool  == [f \in Frames |-> NoFrame]

\* The pages in use: allocated and not on the list.
Used(m, list)  == (1..m.count-1) \ {list[i] : i \in DOMAIN list}
InUse          == Used(meta, free)
CommittedInUse == Used(committed.meta, committed.free)

Init ==
    /\ page = [p \in DataPages |-> Zero]
    /\ pending = {}
    /\ meta = [count |-> 1, head |-> NoPage]
    /\ free = <<>>
    /\ committed = [page |-> page, meta |-> meta, free |-> free]
    /\ frame = EmptyPool
    /\ listed = {}
    /\ hand = 0
    /\ thrown = "none"
    /\ stamp = 0
-----------------------------------------------------------------------------
(* BufferPool::choose_victim.                                              *)

\* (A mutant of NextHand: the ring is not closed.)
HandPastTheEnd(h) == h + 1

NextHand(h) == (h + 1) % Capacity

\* (A mutant of Unpinned: the clock does not look at the pins.)
AllFrames == Frames

Unpinned   == {f \in Frames : frame[f].pins = 0}
Referenced == {f \in Frames : frame[f].ref}
Cold       == Unpinned \ Referenced

\* How many frames the hand passes before it comes to f.
Turn(f) == (f + Capacity - hand) % Capacity

\* The victim: the first unpinned frame whose bit is clear, or else, all bits
\* cleared in a first lap, the first unpinned one of the second.
Victim == LET S == IF Cold # {} THEN Cold ELSE Unpinned
          IN  CHOOSE f \in S : \A g \in S : Turn(f) <= Turn(g)

\* The frames that lost their bit on the way to it.
Reprieved == IF Cold # {} THEN {f \in Unpinned : Turn(f) < Turn(Victim)} ELSE Unpinned

\* (A mutant of Exhausted: the loop gives up after one lap.)
OneLap == Capacity

Exhausted == 2 * Capacity + 1    \* frames the loop looks at before it gives up

\* The code's loop, after it has looked at n frames.
Scan[n \in 0..Exhausted] ==
    IF n = 0 THEN [hand |-> hand, ref |-> Referenced, found |-> {}]
    ELSE LET s == Scan[n-1]
             f == s.hand
         IN  IF s.found # {} THEN s
             ELSE [hand  |-> NextHand(f),
                   ref   |-> IF f \in Unpinned THEN s.ref \ {f} ELSE s.ref,
                   found |-> IF f \in Unpinned \ s.ref THEN {f} ELSE {}]
-----------------------------------------------------------------------------
(* BufferPool::obtain, evict and drop.                                     *)

Resident(p) == \E f \in Frames : frame[f].id = p
Holder(p)   == CHOOSE f \in Frames : frame[f].id = p
Empty       == {f \in Frames : frame[f].id = NoPage}

Evicting(p) == ~Resident(p) /\ Empty = {}
Target(p)   == IF Resident(p) THEN Holder(p)
               ELSE IF Empty # {} THEN Min(Empty)
               ELSE Victim

\* The frames of S are written to the pager.
WithFrames(S) == [p \in DataPages |->
    IF \E f \in S : frame[f].id = p THEN frame[Holder(p)].val ELSE page[p]]
WrittenBack(S) ==
    /\ page' = WithFrames(S)
    /\ pending' = pending \cup {frame[f].id : f \in S}

\* What a read through the pool returns.
Seen(p) == IF Resident(p) THEN frame[Holder(p)].val ELSE page[p]

Swept(f) == [frame[f] EXCEPT !.ref = @ /\ f \notin Reprieved]

\* obtain(p): p is in a frame, with contents c, pinned k times more, and dirty
\* if it was or if the caller marks it.
Obtain(p, c, marked, k) ==
    LET t == Target(p)
    IN  /\ Evicting(p) => Unpinned # {}
        /\ frame' = [f \in Frames |->
              IF f = t
              THEN [id |-> p, val |-> c, ref |-> TRUE,
                    pins |-> (IF Resident(p) THEN frame[t].pins ELSE 0) + k,
                    dirty |-> marked \/ (Resident(p) /\ frame[t].dirty)]
              ELSE IF Evicting(p) THEN Swept(f) ELSE frame[f]]
        /\ listed' = IF marked THEN listed \cup {t} ELSE listed
        /\ hand' = IF Evicting(p) THEN NextHand(t) ELSE hand
        /\ WrittenBack(IF Evicting(p) /\ frame[t].dirty THEN {t} ELSE {})
        /\ thrown' = "none"

\* It throws: every frame is pinned, or the victim cannot be written.
ObtainFails(p) ==
    /\ Evicting(p)
    /\ \/ /\ Unpinned = {}
          /\ hand' = NextHand(hand)
          /\ thrown' = "exhausted"
          /\ UNCHANGED frame
       \/ /\ Unpinned # {}
          /\ frame[Victim].dirty
          /\ frame' = [f \in Frames |-> Swept(f)]
          /\ hand' = NextHand(Victim)
          /\ thrown' = "write"
    /\ UNCHANGED <<page, pending, listed>>

Access(p, c, marked, k) == Obtain(p, c, marked, k) \/ ObtainFails(p)

Drop(S) == [f \in Frames |-> IF f \in S THEN NoFrame ELSE frame[f]]
-----------------------------------------------------------------------------
(* The calls of the client, and what the exceptions make it do.            *)

Calling == thrown = "none"

\* read_page.
Read(p) == /\ Calling
           /\ p \in InUse
           /\ Access(p, Seen(p), FALSE, 0)
           /\ UNCHANGED <<meta, free, committed, stamp>>

FetchPin(p) == /\ Calling
               /\ p \in InUse
               /\ Resident(p) => frame[Holder(p)].pins < MaxPins
               /\ Access(p, Seen(p), FALSE, 1)
               /\ UNCHANGED <<meta, free, committed, stamp>>

\* unpin(p, false); the destructor of a PagePin, which an exception runs too.
Unpin(p) == /\ \E f \in Frames :
                  /\ frame[f].id = p
                  /\ frame[f].pins > 0
                  /\ frame' = [frame EXCEPT ![f].pins = @ - 1]
            /\ UNCHANGED <<pagerView, listed, hand, thrown, stamp>>

\* write_page, and a page changed in place between fetch_pin and unpin(p, true).
Write(p) == /\ Calling
            /\ p \in InUse
            /\ stamp < MaxStamp
            /\ stamp' = stamp + 1
            /\ Access(p, Data(stamp'), TRUE, 0)
            /\ UNCHANGED <<meta, free, committed>>

\* The page Pager::allocate_page gives out, which it has done before obtain
\* fails.  (Its check that the page is marked free never fails: PoolInv.)
NextPage == IF meta.head # NoPage THEN meta.head ELSE meta.count
Taken == IF meta.head # NoPage
         THEN /\ page[meta.head].isFree
              /\ meta' = [meta EXCEPT !.head = page[meta.head].next]
              /\ free' = Tail(free)
         ELSE /\ meta.count <= MaxPage
              /\ meta' = [meta EXCEPT !.count = @ + 1]
              /\ UNCHANGED free

\* (A mutant of Allocate: the new frame is not marked dirty.)
AllocateClean == /\ Calling
                 /\ Taken
                 /\ Access(NextPage, Zero, FALSE, 0)
                 /\ UNCHANGED <<committed, stamp>>

Allocate == /\ Calling
            /\ Taken
            /\ Access(NextPage, Zero, TRUE, 0)
            /\ UNCHANGED <<committed, stamp>>

\* free_page, and Pager::free_page, which judges by the page it knows.
Free(p) ==
    /\ Calling
    /\ p \in InUse
    /\ stamp < MaxStamp
    /\ stamp' = stamp + 1
    /\ \A f \in Frames : frame[f].id = p => frame[f].pins = 0
    /\ frame' = Drop({f \in Frames : frame[f].id = p})
    /\ IF page[p].isFree
       THEN /\ thrown' = "double free"
            /\ UNCHANGED <<page, pending, meta, free>>
       ELSE /\ page' = [page EXCEPT ![p] = Marker(meta.head)]
            /\ pending' = pending \cup {p}
            /\ meta' = [meta EXCEPT !.head = p]
            /\ free' = <<p>> \o free
            /\ UNCHANGED thrown
    /\ UNCHANGED <<committed, listed, hand>>

ToCommit == {f \in listed : frame[f].dirty}
Cleaned(S) == [f \in Frames |-> [frame[f] EXCEPT !.dirty = @ /\ f \notin S]]

Commit ==
    /\ Calling
    /\ page' = WithFrames(ToCommit)
    /\ pending' = {}
    /\ committed' = [page |-> page', meta |-> meta, free |-> free]
    /\ frame' = Cleaned(ToCommit)
    /\ listed' = {}
    /\ UNCHANGED <<meta, free, hand, thrown, stamp>>

\* A write of it throws: of a frame of the pool, or of the commit frame.
CommitFails ==
    /\ Calling
    /\ \E S \in SUBSET ToCommit :
          /\ WrittenBack(S)
          /\ frame' = Cleaned(S)
          /\ listed' = IF S = ToCommit THEN {} ELSE listed
    /\ thrown' = "write"
    /\ UNCHANGED <<meta, free, committed, hand, stamp>>

\* (A mutant of Changed: the frames that were evicted and read back stay.)
ChangedDirty == ToCommit

\* The frames of pages the transaction changed.
Changed == ToCommit \cup {f \in Frames : frame[f].id \in pending}

\* rollback, called by the client or by its catch, when the pins on what it
\* drops are gone.
Rollback ==
    /\ \A f \in Changed : frame[f].pins = 0
    /\ frame' = Drop(Changed)
    /\ listed' = {}
    /\ page' = committed.page
    /\ pending' = {}
    /\ meta' = committed.meta
    /\ free' = committed.free
    /\ thrown' = "none"
    /\ UNCHANGED <<committed, hand, stamp>>

\* The process dies and another opens the database: a new pool.
Restart ==
    /\ frame' = EmptyPool
    /\ listed' = {}
    /\ hand' = 0
    /\ page' = committed.page
    /\ pending' = {}
    /\ meta' = committed.meta
    /\ free' = committed.free
    /\ thrown' = "none"
    /\ UNCHANGED <<committed, stamp>>

Next ==
    \/ \E p \in DataPages : Read(p) \/ FetchPin(p) \/ Unpin(p) \/ Write(p) \/ Free(p)
    \/ Allocate
    \/ Commit \/ CommitFails
    \/ Rollback \/ Restart

Spec == Init /\ [][Next]_vars
-----------------------------------------------------------------------------
(* Properties.                                                             *)

\* Where a free list starts, and what each page of it says of the next.
IsFreeList(pg, m, list) ==
    /\ m.head = IF list = <<>> THEN NoPage ELSE list[1]
    /\ \A i \in DOMAIN list :
          /\ list[i] \in 1..m.count-1
          /\ pg[list[i]] = Marker(IF i = Len(list) THEN NoPage ELSE list[i+1])
          /\ \A j \in DOMAIN list : list[i] = list[j] => i = j

TypeOK ==
    /\ page \in [DataPages -> Content]
    /\ pending \subseteq DataPages
    /\ meta \in Meta
    /\ free \in Seq(DataPages)
    /\ committed \in [page : [DataPages -> Content], meta : Meta, free : Seq(DataPages)]
    /\ frame \in [Frames -> FrameState]
    /\ listed \subseteq Frames
    /\ hand \in Frames
    /\ thrown \in {"none", "exhausted", "write", "double free"}
    /\ stamp \in 0..MaxStamp

\* The frames, the pager's pages and the committed ones agree on every page of
\* which they hold the same version; each dirty frame is on the list.
Coherent ==
    /\ \A f, g \in Frames : frame[f].id # NoPage /\ frame[f].id = frame[g].id => f = g
    /\ \A f \in Frames :
          /\ frame[f].id \in InUse \cup {NoPage}
          /\ frame[f].id = NoPage => frame[f] = NoFrame
          /\ frame[f].dirty => f \in listed
          /\ frame[f].id # NoPage /\ ~frame[f].dirty => frame[f].val = page[frame[f].id]
    /\ \A p \in DataPages \ pending : page[p] = committed.page[p]

FreeListsSound ==
    /\ IsFreeList(page, meta, free)
    /\ IsFreeList(committed.page, committed.meta, committed.free)

\* No page in use is left marked free in the pager when nothing in the pool is
\* newer: a restart never finds a page both in use and on its way to be given
\* out again (pager.cpp:166-168).
UsedPagesUsable ==
    /\ \A p \in CommittedInUse : ~committed.page[p].isFree
    /\ thrown = "none" => \A p \in InUse : ~Seen(p).isFree

\* A page the transaction allocated is dirty in the pool or pending, so that a
\* rollback finds the frame that has it (buffer_pool.cpp:160-177).
NewPagesKnown ==
    \A p \in InUse \ CommittedInUse :
        \/ p \in pending
        \/ \E f \in Frames : frame[f].id = p /\ frame[f].dirty
        \/ thrown # "none" /\ ~Resident(p)

PoolInv == TypeOK /\ Coherent /\ FreeListsSound /\ UsedPagesUsable /\ NewPagesKnown

\* The pool is transparent: seen through read_page, the pages it caches are
\* those of a store without one (buffer_pool.hpp:22-25).  While an exception is
\* on its way to the rollback, nothing is seen.
Pages == IF thrown = "none" THEN [p \in InUse |-> Seen(p)] ELSE
             [p \in CommittedInUse |-> committed.page[p]]
Last  == [p \in CommittedInUse |-> committed.page[p]]
Space == INSTANCE PageSpace WITH Page <- DataPages, Value <- Content, pages <- Pages, last <- Last
ImplementsPageSpace == Space!Spec

\* A pinned frame keeps its page until it is unpinned, so the reference
\* fetch_pin returned stays good (buffer_pool.hpp:43-45).
PinsHold ==
    [][\A f \in Frames : frame[f].pins > 0 =>
          frame'[f].id = frame[f].id \/ frame' = EmptyPool]_vars

\* The loop of choose_victim finds the frame of second chance whenever one is
\* unpinned, in its 2n + 1 steps, and moves the hand and the bits as it says.
ClockFindsVictim ==
    LET s == Scan[Exhausted]
    IN  IF Unpinned = {} THEN s.found = {}
        ELSE /\ s.found = {Victim}
             /\ s.hand = NextHand(Victim)
             /\ s.ref = Referenced \ Reprieved

\* No legal call is taken for a double free (pager.hpp:50).
NoFalseDoubleFree == thrown # "double free"
=============================================================================
