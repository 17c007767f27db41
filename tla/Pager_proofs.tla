---------------------------- MODULE Pager_proofs ----------------------------
(***************************************************************************)
(* Proofs about module Pager, for every number of pages, slots, writes and *)
(* crashes: first for processes that crash at any moment and a machine     *)
(* that keeps its power ("power" \notin Faults), then for power cuts.      *)
(***************************************************************************)
EXTENDS Pager, WellFoundedInduction, TLAPS

USE WalAssumption, PagerAssumption

\* A set of naturals has a least element.
LEMMA LeastOf == ASSUME NEW S \in SUBSET Nat, S # {} PROVE \E x \in S : \A y \in S : x <= y
<1> DEFINE R == OpToRel(<, Nat)
<1>1. R = {ss \in Nat \X Nat : ss[1] < ss[2]}
  BY DEF OpToRel
<1>2. IsWellFoundedOn(R, Nat)
  BY NatLessThanWellFounded
<1> HIDE DEF R
<1>3. PICK x \in S : \A y \in S : ~(<<y, x>> \in R)
  BY <1>2, WFMin
<1>4. ASSUME NEW y \in S PROVE x <= y
  <2>1. <<y, x>> \in Nat \X Nat
    OBVIOUS
  <2>2. ~(y < x)
    BY <1>1, <1>3, <2>1
  <2> QED
    BY <2>2
<1> QED
  BY <1>4

\* The next page a checkpoint copies is one it has to copy.
LEMMA MinIn == ASSUME NEW S \in SUBSET Nat, S # {} PROVE Min(S) \in S
  BY LeastOf DEF Min

LEMMA MaxIs ==
    ASSUME NEW S \in SUBSET Int, NEW m \in S, \A n \in S : n <= m
    PROVE  Max(S) = m
<1>1. \A x \in S : (\A y \in S : x >= y) => x = m
  OBVIOUS
<1>2. \A y \in S : m >= y
  OBVIOUS
<1> QED
  BY <1>1, <1>2 DEF Max

\* A bounded set of naturals has a greatest element: what a scan ends at.
LEMMA MaxIn ==
    ASSUME NEW n \in Int, NEW S \in SUBSET (0..n), S # {}
    PROVE  Max(S) \in S /\ \A x \in S : x <= Max(S)
<1> DEFINE T == {n - x : x \in S}
<1>1. T \in SUBSET Nat /\ T # {}
  <2>1. \A x \in S : n - x \in Nat
    OBVIOUS
  <2> QED
    BY <2>1
<1>2. PICK t \in T : \A y \in T : t <= y
  BY <1>1, LeastOf
<1>3. PICK m \in S : t = n - m
  BY <1>2
<1>4. ASSUME NEW x \in S PROVE x <= m
  <2>1. t <= n - x
    BY <1>2
  <2> QED
    BY <1>3, <2>1
<1>5. S \in SUBSET Int
  OBVIOUS
<1> QED
  BY <1>4, <1>5, MaxIs


LEMMA AppendIn ==
    ASSUME NEW S, NEW q \in Seq(S), NEW x \in S, NEW y \in S
    PROVE  Append(q, x) \in Seq(S) /\ q \o <<x, y>> \in Seq(S)
  OBVIOUS

-----------------------------------------------------------------------------
(* What is left of the invariant while a write that failed has still to be *)
(* rolled back: all but what it says of the transaction in progress.       *)

UndoTypeOK ==
    /\ log \in LogFile /\ written \in Seq(LogFile)
    /\ generation \in Nat /\ lastGen \in Nat
    /\ headerOk \in BOOLEAN
    /\ commitEnd \in 0..MaxSlots
    /\ IsSlotMap(committed)
    /\ db \in DbFile /\ dbDisk \in DbDisk
    /\ committedMeta \in 1..MaxPage+1
    /\ durability \in {"full", "normal", "off"}
    /\ pc \in {"down", "idle", "logSync", "checkpoint", "copy", "fileSync",
               "reset", "finish"}
    /\ after \in {"return", "sync", "close"}
    /\ todo \subseteq AllPages
    /\ stamp \in 0..MaxStamp
    /\ history \in Seq([AllPages -> Contents])
    /\ promised \in Nat
    /\ crashes \in 0..MaxCrashes /\ closes \in 0..MaxCloses

\* LogInv, of the slots up to the last commit.
UndoLogInv ==
    /\ IF headerOk THEN log.hdr = generation ELSE log.hdr = NoGen
    /\ headerOk \/ pc # "down" => generation > 0
    /\ generation <= lastGen
    /\ commitEnd > 0 => headerOk /\ log.frames[commitEnd-1].commit
    /\ \A s \in Slots :
          /\ log.frames[s].gen <= generation
          /\ log.frames[s].commit => log.frames[s].page = 0
          /\ s < commitEnd => log.frames[s].gen = generation
          /\ s >= commitEnd /\ log.frames[s].commit => log.frames[s].gen # generation

\* MapInv, of the committed pages; the others are somewhere past them.
UndoMapInv ==
    /\ end \in Nat /\ commitEnd <= end
    /\ \A p \in DOMAIN committed : /\ committed[p] < commitEnd
                                   /\ log.frames[committed[p]].page = p
    /\ \A p \in DOMAIN pending : pending[p] >= commitEnd
    /\ \A s \in Slots : s < commitEnd => /\ log.frames[s].page \in DOMAIN committed
                                         /\ s <= committed[log.frames[s].page]

\* MetaInv, of what is committed.
UndoMetaInv ==
    /\ pc # "down" => committedMeta = Mapped[0]
    /\ Mapped[0] \in 1..MaxPage+1
    /\ \A p \in AllPages : p >= db.len => db.page[p] = 0
    /\ \/ committed = NoSlots
       \/ pc \in {"fileSync", "reset"}
       => db.len >= db.page[0]

Undoable == UndoTypeOK /\ UndoLogInv /\ UndoMapInv /\ UndoMetaInv

LEMMA InvUndoable == Inv => Undoable
<1> SUFFICES ASSUME Inv PROVE Undoable
  OBVIOUS
<1>1. UndoTypeOK
  BY DEF Inv, TypeOK, WalTypeOK, UndoTypeOK
<1>2. commitEnd \in 0..MaxSlots /\ end \in 0..MaxSlots /\ commitEnd <= end
  BY DEF Inv, TypeOK, WalTypeOK, MapInv
<1>3. UndoLogInv
  <2>1. \A s \in Slots : s < commitEnd => s < end
    BY <1>2 DEF Slots
  <2> QED
    BY <2>1 DEF Inv, LogInv, UndoLogInv
<1>4. UndoMapInv
  <2>1. \A p \in DOMAIN pending : pending[p] >= commitEnd
    BY <1>2 DEF Inv, MapInv
  <2> QED
    BY <1>2, <2>1 DEF Inv, MapInv, UndoMapInv
<1>5. UndoMetaInv
  BY DEF Inv, MetaInv, UndoMetaInv
<1> QED
  BY <1>1, <1>3, <1>4, <1>5 DEF Undoable
-----------------------------------------------------------------------------
\* What the scan of recovery finds is what the process had committed.
LEMMA ScanEndIsCommitEnd == Undoable => ScanEnd(log) = commitEnd
<1> SUFFICES ASSUME Undoable PROVE ScanEnd(log) = commitEnd
  OBVIOUS
<1> DEFINE S == CommitEnds(log) \cup {0}
<1> USE DEF Undoable, UndoTypeOK, UndoLogInv, LogFile, Frame, Slots, NoGen
<1>1. commitEnd \in S
  BY DEF CommitEnds, Readable
<1>2. \A n \in S : n <= commitEnd
  BY DEF CommitEnds, Readable
<1>3. S \in SUBSET Int
  BY DEF CommitEnds
<1> HIDE DEF S
<1> QED
  BY <1>1, <1>2, <1>3, MaxIs DEF ScanEnd, S

LEMMA FramesOnCommitted ==
    ASSUME Undoable, NEW p \in AllPages
    PROVE  /\ FramesOn(log, p) # {} <=> p \in DOMAIN committed
           /\ p \in DOMAIN committed => Max(FramesOn(log, p)) = committed[p]
<1> DEFINE on == FramesOn(log, p)
<1>1. on = {s \in 0..commitEnd-1 : log.frames[s].page = p}
  BY ScanEndIsCommitEnd DEF FramesOn
<1>2. commitEnd \in Nat /\ commitEnd <= MaxSlots
  BY DEF Undoable, UndoTypeOK
<1>3. \A s \in 0..commitEnd-1 : s \in Slots
  BY <1>2 DEF Slots
<1>4. \A s \in 0..commitEnd-1 :
          log.frames[s].page \in DOMAIN committed /\ s <= committed[log.frames[s].page]
  BY <1>2, <1>3 DEF Undoable, UndoMapInv
<1>5. ASSUME p \in DOMAIN committed
      PROVE  committed[p] \in 0..commitEnd-1 /\ log.frames[committed[p]].page = p
  <2>1. committed[p] \in Slots
    BY <1>5 DEF Undoable, UndoTypeOK, IsSlotMap
  <2>2. committed[p] < commitEnd /\ log.frames[committed[p]].page = p
    BY <1>5 DEF Undoable, UndoMapInv
  <2> QED
    BY <1>2, <2>1, <2>2 DEF Slots
<1> HIDE DEF on
<1>6. ASSUME p \in DOMAIN committed
      PROVE  /\ committed[p] \in on
             /\ \A s \in on : s <= committed[p]
  BY <1>1, <1>4, <1>5, <1>6
<1>7. on \in SUBSET Int
  BY <1>1
<1>8. ASSUME p \in DOMAIN committed PROVE Max(on) = committed[p]
  BY <1>6, <1>7, <1>8, MaxIs
<1>9. on # {} => p \in DOMAIN committed
  BY <1>1, <1>4
<1> QED
  BY <1>9, <1>6, <1>8 DEF on

LEMMA RecoveredIsMapped == Undoable => Recovered(log, db) = Mapped
  BY FramesOnCommitted DEF Recovered, Mapped

LEMMA ScanMapIsCommitted == Inv => ScanMap(log) = committed
<1> SUFFICES ASSUME Inv PROVE ScanMap(log) = committed
  OBVIOUS
<1>1. DOMAIN committed = {q \in AllPages : FramesOn(log, q) # {}}
  BY FramesOnCommitted, InvUndoable DEF Inv, TypeOK, WalTypeOK, IsSlotMap
<1>2. \A p \in DOMAIN committed : Max(FramesOn(log, p)) = committed[p]
  BY FramesOnCommitted, InvUndoable, <1>1
<1> QED
  BY <1>1, <1>2 DEF ScanMap, Inv, TypeOK, WalTypeOK, IsSlotMap

\* Where the process forgets its transaction, as a rollback or a crash makes it.
LEMMA Forgotten ==
    ASSUME Undoable, pending' = NoSlots, end' = commitEnd, UndoTypeOK', UndoLogInv',
           UNCHANGED <<commitEnd, committed, committedMeta, db>>,
           \A s \in Slots : s < commitEnd => log'.frames[s] = log.frames[s],
           meta' = committedMeta, metaDirty' = FALSE,
           pc' \in {"down", "idle"}, pc' = "idle" => pc # "down"
    PROVE  Inv' /\ Mapped' = Mapped
<1>1. /\ commitEnd \in 0..MaxSlots /\ IsSlotMap(committed)
      /\ \A p \in DOMAIN committed : /\ committed[p] \in Slots
                                     /\ committed[p] < commitEnd
                                     /\ log.frames[committed[p]].page = p
  BY DEF Undoable, UndoTypeOK, UndoMapInv, IsSlotMap
<1>2. \A p \in DOMAIN committed : log'.frames[committed[p]] = log.frames[committed[p]]
  BY <1>1
<1>3. Mapped' = Mapped
  BY <1>2 DEF Mapped
<1>4. TypeOK'
  <2>1. IsSlotMap(committed)' /\ IsSlotMap(pending)'
    BY DEF UndoTypeOK, IsSlotMap, NoSlots
  <2>2. WalTypeOK'
    BY <1>1, <2>1 DEF UndoTypeOK, WalTypeOK
  <2>3. metaDirty' \in BOOLEAN
    OBVIOUS
  <2>4. meta' \in 1..MaxPage+1
    BY DEF Undoable, UndoTypeOK
  <2> QED
    BY <2>2, <2>3, <2>4 DEF UndoTypeOK, TypeOK
<1>5. LogInv'
  BY DEF UndoLogInv, LogInv
<1>6. MapInv'
  BY <1>1, <1>2 DEF Undoable, UndoMapInv, MapInv, NoSlots
<1>7. CheckpointInv'
  BY DEF CheckpointInv, InTransaction
<1>8. MetaInv'
  BY <1>3 DEF Undoable, UndoTypeOK, UndoMetaInv, MetaInv
<1> QED
  BY <1>3, <1>4, <1>5, <1>6, <1>7, <1>8 DEF Inv

LEMMA RollbackInv == ASSUME Undoable, Rollback PROVE Inv' /\ Mapped' = Mapped
<1> USE DEF Rollback, WalRollback, dbVars, ghosts, bounds
<1>1. UndoTypeOK' /\ UndoLogInv'
  BY DEF Undoable, UndoTypeOK, UndoLogInv, IsSlotMap
<1> QED
  BY <1>1, Forgotten

LEMMA DieInv == ASSUME Undoable, Die PROVE Inv' /\ Mapped' = Mapped
<1> USE DEF Die, Crash, WalForget, dbVars
<1>1. crashes' \in 0..MaxCrashes
  BY PagerAssumption DEF Undoable, UndoTypeOK
<1>2. UndoTypeOK'
  BY <1>1 DEF Undoable, UndoTypeOK, IsSlotMap
<1>3. UndoLogInv'
  BY DEF Undoable, UndoLogInv
<1> QED
  BY <1>2, <1>3, Forgotten

\* A frame past the last commit that is torn, or not begun but for the header.
LEMMA TornFrame ==
    ASSUME Undoable, pc # "down", NEW s \in Slots, s >= commitEnd, NEW torn \in BOOLEAN,
           log' = [hdr    |-> generation,
                   frames |-> IF torn THEN [log.frames EXCEPT ![s] = Blank] ELSE log.frames],
           headerOk' = TRUE, UNCHANGED <<generation, commitEnd, lastGen>>
    PROVE  /\ log' \in LogFile /\ UndoLogInv'
           /\ \A t \in Slots : t < commitEnd => log'.frames[t] = log.frames[t]
<1>1. commitEnd \in 0..MaxSlots /\ generation \in Nat /\ generation > 0
  BY DEF Undoable, UndoTypeOK, UndoLogInv
<1>2. Blank \in Frame
  BY DEF Blank, Frame, AllPages, Contents, NoGen
<1>3. log.frames \in [Slots -> Frame]
  BY DEF Undoable, UndoTypeOK, LogFile
<1>4. /\ log'.hdr = generation
      /\ \/ log'.frames = log.frames
         \/ log'.frames = [log.frames EXCEPT ![s] = Blank]
      /\ log' = [hdr |-> log'.hdr, frames |-> log'.frames]
  OBVIOUS
<1>5. log' \in LogFile
  <2>1. log'.frames \in [Slots -> Frame]
    BY <1>2, <1>3, <1>4
  <2>2. log'.hdr \in Nat
    BY <1>1, <1>4
  <2>3. [hdr |-> log'.hdr, frames |-> log'.frames] \in LogFile
    BY <2>1, <2>2 DEF LogFile
  <2> QED
    BY <1>4, <2>3
<1>6. \A t \in Slots : t < commitEnd => log'.frames[t] = log.frames[t]
  <2>1. \A t \in Slots : t < commitEnd => t # s
    BY <1>1 DEF Slots
  <2> QED
    BY <1>3, <1>4, <2>1
<1>7. UndoLogInv'
  <2>1. \A t \in Slots : /\ log'.frames[t].gen <= generation
                         /\ log'.frames[t].commit => log'.frames[t].page = 0
                         /\ t < commitEnd => log'.frames[t].gen = generation
                         /\ t >= commitEnd /\ log'.frames[t].commit
                              => log'.frames[t].gen # generation
    <3> TAKE t \in Slots
    <3>1. CASE log'.frames[t] = log.frames[t]
      BY <3>1 DEF Undoable, UndoLogInv
    <3>2. CASE log'.frames[t] = Blank
      <4>1. /\ log'.frames[t].gen = 0 /\ log'.frames[t].page = 0
            /\ log'.frames[t].commit = FALSE
        BY <3>2 DEF Blank, NoGen
      <4>2. t < commitEnd => log'.frames[t].gen = generation
        BY <1>6 DEF Undoable, UndoLogInv
      <4>3. 0 <= generation /\ 0 # generation
        BY <1>1
      <4> QED
        BY <4>1, <4>2, <4>3
    <3> QED
      BY <1>3, <1>4, <3>1, <3>2
  <2>2. commitEnd > 0 => log'.frames[commitEnd-1].commit
    BY <1>1, <1>6 DEF Undoable, UndoLogInv, Slots
  <2>3. generation <= lastGen
    BY DEF Undoable, UndoLogInv
  <2>4. UndoLogInv!1'
    BY <1>4, Zenon
  <2>5. commitEnd' > 0 => headerOk' /\ log'.frames[commitEnd'-1].commit
    BY <2>2
  <2> QED
    BY <1>1, <2>1, <2>3, <2>4, <2>5 DEF UndoLogInv
<1> QED
  BY <1>5, <1>6, <1>7

LEMMA DieInLogInv == ASSUME ~Tracked, Undoable, DieInLog PROVE Inv' /\ Mapped' = Mapped
<1> USE DEF DieInLog, Crash, WalForget, dbVars
<1>1. PICK s \in ({pending[p] : p \in DOMAIN pending} \cup {end}) \cap Slots :
          DieInWriteFrame(s)
  OBVIOUS
<1>2. s \in Slots /\ s >= commitEnd /\ pc # "down"
  BY <1>1 DEF Undoable, UndoTypeOK, UndoMapInv
<1>3. PICK torn \in BOOLEAN :
          log' = [hdr |-> generation,
                  frames |-> IF torn THEN [log.frames EXCEPT ![s] = Blank] ELSE log.frames]
  <2>1. PICK torn \in BOOLEAN :
          log' = [hdr |-> IF headerOk THEN log.hdr ELSE generation,
                  frames |-> IF torn THEN [log.frames EXCEPT ![s] = Blank]
                             ELSE log.frames]
    BY <1>1 DEF DieInWriteFrame
  <2>2. (IF headerOk THEN log.hdr ELSE generation) = generation
    <3>1. headerOk => log.hdr = generation
      BY DEF Undoable, UndoLogInv
    <3> HIDE DEF DieInLog
    <3> QED
      BY <3>1, Zenon
  <2> QED
    BY <2>1, <2>2
<1>4. /\ headerOk' = TRUE /\ written' = written
      /\ pending' = NoSlots /\ end' = commitEnd
      /\ UNCHANGED <<generation, commitEnd, committed, lastGen>>
  BY <1>1 DEF DieInWriteFrame, Issued
<1>5. /\ log' \in LogFile /\ UndoLogInv'
      /\ \A t \in Slots : t < commitEnd => log'.frames[t] = log.frames[t]
  BY <1>2, <1>3, <1>4, TornFrame
<1>6. UndoTypeOK'
  <2>1. crashes' \in 0..MaxCrashes
    BY PagerAssumption DEF Undoable, UndoTypeOK
  <2> QED
    BY <1>4, <1>5, <2>1 DEF Undoable, UndoTypeOK, IsSlotMap
<1>7. /\ UNCHANGED <<commitEnd, committed, committedMeta, db>>
      /\ meta' = committedMeta /\ metaDirty' = FALSE /\ pc' = "down"
  BY <1>4
<1> HIDE DEF DieInLog
<1> QED
  BY <1>4, <1>5, <1>6, <1>7, Forgotten
-----------------------------------------------------------------------------
(* The invariant holds initially and every action keeps it.                *)

LEMMA WalUnchanged == ASSUME WalTypeOK, UNCHANGED walVars PROVE WalTypeOK'
  BY DEF WalTypeOK, walVars, IsSlotMap

LEMMA PendingEmpty == ASSUME Inv, pending = NoSlots PROVE end = commitEnd
<1>1. DOMAIN pending = {}
  BY DEF NoSlots
<1>2. commitEnd \in Nat /\ end \in Nat /\ commitEnd <= end /\ end <= MaxSlots
  BY DEF Inv, TypeOK, WalTypeOK, MapInv
<1>3. ASSUME commitEnd < end PROVE FALSE
  <2>1. commitEnd \in Slots /\ commitEnd \in commitEnd..end-1
    BY <1>2, <1>3 DEF Slots
  <2> QED
    BY <1>1, <2>1 DEF Inv, MapInv
<1> QED
  BY <1>2, <1>3

LEMMA InitInv == ASSUME Init PROVE Inv
<1> USE DEF Init, NoSlots
<1>1. PICK count \in 1..MaxPage+1 :
        /\ db = [page |-> [p \in AllPages |-> IF p = 0 THEN count ELSE 0], len |-> count]
        /\ meta = count /\ committedMeta = count
  OBVIOUS
<1>2. log \in LogFile
  BY DEF EmptyLog, LogFile, Blank, Frame, AllPages, Contents, NoGen
<1>3. db \in DbFile
  BY <1>1 DEF DbFile, AllPages, Contents
<1>4. dbDisk \in DbDisk
  BY <1>3 DEF DbDisk, DbFile, Settled
<1>5. written \in Seq(LogFile) /\ history \in Seq([AllPages -> Contents])
  <2>1. <<log>> \in Seq(LogFile) /\ <<db.page>> \in Seq([AllPages -> Contents])
    BY <1>2, <1>3 DEF DbFile
  <2>2. written \in Seq(LogFile)
    <3>1. written \in {<<>>, <<log>>} /\ <<>> \in Seq(LogFile)
      OBVIOUS
    <3> HIDE DEF Init
    <3> QED
      BY <2>1, <3>1
  <2>3. history \in Seq([AllPages -> Contents])
    <3>1. history \in {<<>>, <<db.page>>} /\ <<>> \in Seq([AllPages -> Contents])
      OBVIOUS
    <3> HIDE DEF Init
    <3> QED
      BY <2>1, <3>1
  <2> QED
    BY <2>2, <2>3
<1>6. IsSlotMap(committed) /\ IsSlotMap(pending)
  BY DEF IsSlotMap
<1>7. WalTypeOK
  <2>2. headerOk \in BOOLEAN
    OBVIOUS
  <2>1. /\ generation \in Nat /\ lastGen \in Nat
        /\ end \in 0..MaxSlots /\ commitEnd \in 0..MaxSlots
    OBVIOUS
  <2> HIDE DEF Init, NoSlots
  <2> QED
    BY <2>1, <2>2, <1>2, <1>5, <1>6 DEF WalTypeOK
<1>12. TypeOK
  <2>2. metaDirty \in BOOLEAN
    OBVIOUS
  <2>1. /\ durability \in {"full", "normal", "off"}
        /\ pc \in {"down", "idle", "logSync", "checkpoint", "copy", "fileSync",
                   "reset", "finish"}
        /\ after \in {"return", "sync", "close"}
        /\ todo \subseteq AllPages
        /\ stamp \in 0..MaxStamp /\ promised \in Nat
        /\ crashes \in 0..MaxCrashes /\ closes \in 0..MaxCloses
    BY WalAssumption, PagerAssumption
  <2> HIDE DEF Init, NoSlots
  <2> QED
    BY <2>1, <2>2, <1>1, <1>3, <1>4, <1>5, <1>7 DEF TypeOK
<1>8. LogInv
  BY DEF LogInv, EmptyLog, Blank, NoGen
<1>9. MapInv
  BY DEF MapInv, Slots
<1>10. CheckpointInv
  BY DEF CheckpointInv, InTransaction
<1>11. MetaInv
  BY <1>1 DEF MetaInv, Mapped, AllPages
<1> QED
  BY <1>12, <1>8, <1>9, <1>10, <1>11 DEF Inv

LEMMA SetDurabilityInv ==
    ASSUME Inv, NEW d \in Durabilities, SetDurability(d) PROVE Inv'
<1> USE DEF SetDurability, walVars, dbVars, ghosts, bounds
<1>0. d \in {"full", "normal", "off"}
  BY PagerAssumption
<1>1. TypeOK'
  BY <1>0, WalUnchanged DEF Inv, TypeOK
<1>2. LogInv' /\ MapInv'
  BY DEF Inv, LogInv, MapInv
<1>3. CheckpointInv' /\ MetaInv'
  BY DEF Inv, CheckpointInv, MetaInv, Mapped, InTransaction
<1> QED
  BY <1>1, <1>2, <1>3 DEF Inv

LEMMA AllocatePageInv == ASSUME Inv, AllocatePage PROVE Inv'
<1> USE DEF AllocatePage, walVars, dbVars, ghosts, bounds
<1>1. TypeOK'
  BY WalUnchanged DEF Inv, TypeOK
<1>2. LogInv'
  BY DEF Inv, LogInv
<1>3. MapInv'
  BY DEF Inv, TypeOK, MapInv
<1>4. CheckpointInv'
  BY DEF Inv, CheckpointInv
<1>5. MetaInv'
  BY DEF Inv, TypeOK, MetaInv, Mapped
<1> QED
  BY <1>1, <1>2, <1>3, <1>4, <1>5 DEF Inv

LEMMA CallCheckpointInv ==
    ASSUME Inv, NEW then \in Endings, CallCheckpoint(then)
    PROVE  Inv'
<1> USE DEF CallCheckpoint, Endings, Counted, walVars, dbVars, ghosts, bounds
<1>1. TypeOK'
  BY WalUnchanged, PagerAssumption DEF Inv, TypeOK
<1>2. LogInv' /\ MapInv'
  BY DEF Inv, LogInv, MapInv
<1>3. CheckpointInv'
  <2>1. end = commitEnd
    BY PendingEmpty DEF InTransaction
  <2> QED
    BY <2>1 DEF Inv, CheckpointInv, InTransaction
<1>4. MetaInv'
  BY DEF Inv, MetaInv, Mapped
<1> QED
  BY <1>1, <1>2, <1>3, <1>4 DEF Inv

\* Between the calls of a client the pager is outside its log: the log and the
\* maps do not change, and what they mean does not either.
logVars == <<log, generation, headerOk, end, commitEnd, committed, pending, lastGen>>

LEMMA WalQuiet ==
    ASSUME Inv, UNCHANGED <<logVars, meta>>, written' \in Seq(LogFile), pc # "down"
    PROVE  WalTypeOK' /\ LogInv' /\ MapInv'
<1>1. WalTypeOK'
  BY DEF Inv, TypeOK, WalTypeOK, IsSlotMap, logVars
<1>2. LogInv'
  BY DEF Inv, LogInv, logVars
<1>3. MapInv'
  BY DEF Inv, MapInv, logVars
<1> QED
  BY <1>1, <1>2, <1>3

LEMMA WalSyncQuiet ==
    ASSUME WalTypeOK, WalSync \/ UNCHANGED walVars
    PROVE  UNCHANGED logVars /\ written' \in Seq(LogFile)
<1>1. <<log>> \in Seq(LogFile) /\ written \in Seq(LogFile)
  BY DEF WalTypeOK
<1>2. UNCHANGED logVars /\ written' \in {written, <<log>>}
  BY DEF WalSync, walVars, logVars
<1> QED
  BY <1>1, <1>2

LEMMA LogSyncInv == ASSUME Inv, LogSync PROVE Inv'
<1> USE DEF LogSync, dbVars, bounds
<1>1. UNCHANGED logVars /\ written' \in Seq(LogFile)
  BY WalSyncQuiet DEF Inv, TypeOK
<1>2. WalTypeOK' /\ LogInv' /\ MapInv'
  BY <1>1, WalQuiet
<1>3. TypeOK'
  <2>1. promised' \in Nat
    BY DEF Inv, TypeOK
  <2> QED
    BY <1>2, <2>1 DEF Inv, TypeOK, Committed
<1>4. CheckpointInv' /\ MetaInv'
  BY <1>1 DEF Inv, CheckpointInv, MetaInv, Mapped, InTransaction, Committed, logVars
<1> QED
  BY <1>2, <1>3, <1>4 DEF Inv

LEMMA CheckpointStartInv == ASSUME Inv, CheckpointStart PROVE Inv'
<1> USE DEF CheckpointStart, dbVars, ghosts, bounds, Checkpointed
<1>1. UNCHANGED logVars /\ written' \in Seq(LogFile)
  BY WalSyncQuiet DEF Inv, TypeOK
<1>2. WalTypeOK' /\ LogInv' /\ MapInv'
  BY <1>1, WalQuiet
<1>3. TypeOK'
  BY <1>2 DEF Inv, TypeOK, WalTypeOK, IsSlotMap
<1>4. CheckpointInv'
  BY <1>1 DEF Inv, CheckpointInv, InTransaction, logVars
<1>5. MetaInv'
  BY <1>1 DEF Inv, MetaInv, Mapped, logVars
<1> QED
  BY <1>2, <1>3, <1>4, <1>5 DEF Inv

LEMMA FileSyncInv == ASSUME Inv, FileSync PROVE Inv'
<1> USE DEF FileSync, bounds
<1>1. WalTypeOK' /\ LogInv' /\ MapInv'
  BY WalSyncQuiet, WalQuiet DEF Inv, TypeOK
<1>2. dbDisk' \in DbDisk
  BY DEF Inv, TypeOK, DbFile, DbDisk, Settled
<1>3. TypeOK'
  <2>1. promised' \in Nat
    BY DEF Inv, TypeOK
  <2> QED
    BY <1>1, <1>2, <2>1 DEF Inv, TypeOK
<1>4. CheckpointInv' /\ MetaInv'
  BY DEF Inv, CheckpointInv, MetaInv, Mapped, InTransaction, walVars
<1> QED
  BY <1>1, <1>3, <1>4 DEF Inv

LEMMA FinishSyncInv == ASSUME Inv, FinishSync PROVE Inv'
<1> USE DEF FinishSync, ghosts, bounds
<1>1. WalTypeOK' /\ LogInv' /\ MapInv'
  BY WalSyncQuiet, WalQuiet DEF Inv, TypeOK
<1>2. dbDisk' \in DbDisk
  BY DEF Inv, TypeOK, DbFile, DbDisk, Settled
<1>3. TypeOK'
  BY <1>1, <1>2 DEF Inv, TypeOK
<1>4. CheckpointInv' /\ MetaInv'
  BY DEF Inv, CheckpointInv, MetaInv, Mapped, InTransaction, walVars
<1> QED
  BY <1>1, <1>3, <1>4 DEF Inv

LEMMA NextCopyIn == ASSUME Inv, todo # {} PROVE NextCopy \in todo
  BY MinIn DEF NextCopy, Inv, TypeOK, AllPages

\* Writing page p of the database file, whatever it writes.
LEMMA PageWrittenType ==
    ASSUME Inv, NEW p \in AllPages, NEW v \in Contents
    PROVE  LET d == PageWritten(db, p, v)
           IN  /\ d \in DbFile
               /\ Settled(d) \in DbDisk
               /\ d.page = [db.page EXCEPT ![p] = v]
               /\ d.len >= db.len /\ d.len >= p + 1
<1> DEFINE d == PageWritten(db, p, v)
<1>1. /\ db.len \in 1..MaxPage+1 /\ db.page \in [AllPages -> Contents]
      /\ p + 1 \in 1..MaxPage+1
  BY DEF Inv, TypeOK, DbFile, AllPages
<1>2. \/ Max({db.len, p + 1}) = db.len /\ db.len >= p + 1
      \/ Max({db.len, p + 1}) = p + 1 /\ p + 1 >= db.len
  <2>1. CASE db.len >= p + 1
    BY <1>1, <2>1, MaxIs
  <2>2. CASE p + 1 >= db.len
    BY <1>1, <2>2, MaxIs
  <2> QED
    BY <1>1, <2>1, <2>2
<1>3. d = [page |-> [db.page EXCEPT ![p] = v], len |-> Max({db.len, p + 1})]
  BY DEF PageWritten
<1>4. d \in DbFile
  BY <1>1, <1>2, <1>3 DEF DbFile
<1>5. Settled(d) \in DbDisk
  BY <1>4 DEF DbDisk, DbFile, Settled
<1> QED
  BY <1>1, <1>2, <1>3, <1>4, <1>5

LEMMA CopyPageInv == ASSUME Inv, CopyPage PROVE Inv' /\ Mapped' = Mapped
<1> USE DEF CopyPage, ghosts, bounds
<1> DEFINE p == NextCopy
           v == log.frames[committed[p]].val
<1>1. /\ p \in todo /\ p \in DOMAIN committed /\ p \in AllPages
      /\ committed[p] \in Slots
  BY NextCopyIn DEF Inv, CheckpointInv, TypeOK, WalTypeOK, IsSlotMap
<1>2. v \in Contents
  BY <1>1 DEF Inv, TypeOK, WalTypeOK, LogFile, Frame
<1>3. /\ db' = PageWritten(db, p, v)
      /\ todo' = todo \ {p}
      /\ \/ dbDisk' = Settled(db')
         \/ dbDisk' = [page |-> [dbDisk.page EXCEPT ![p] =
                                   @ \cup {v} \cup (IF p = 0 THEN {} ELSE {Torn})],
                       len |-> dbDisk.len \cup {db'.len}]
  OBVIOUS
<1> HIDE DEF p, v
<1>41. /\ db' \in DbFile /\ Settled(db') \in DbDisk
      /\ db'.page = [db.page EXCEPT ![p] = v]
      /\ db'.len >= db.len /\ db'.len >= p + 1
  BY <1>1, <1>2, <1>3, PageWrittenType
<1>42. dbDisk' \in DbDisk
  <2>1. Torn \in Contents
    BY DEF Torn, Contents
  <2>2. /\ dbDisk.page \in [AllPages -> SUBSET Contents]
        /\ dbDisk.len \in SUBSET (1..MaxPage+1)
    BY DEF Inv, TypeOK, DbDisk
  <2>3. db'.len \in 1..MaxPage+1
    BY <1>41 DEF DbFile
  <2> DEFINE versions == [dbDisk.page EXCEPT ![p] =
                             @ \cup {v} \cup (IF p = 0 THEN {} ELSE {Torn})]
             lengths == dbDisk.len \cup {db'.len}
  <2>4. versions \in [AllPages -> SUBSET Contents] /\ lengths \in SUBSET (1..MaxPage+1)
    BY <1>1, <1>2, <2>1, <2>2, <2>3
  <2>5. dbDisk' = Settled(db') \/ dbDisk' = [page |-> versions, len |-> lengths]
    BY <1>3
  <2> HIDE DEF versions, lengths
  <2> QED
    BY <1>41, <2>4, <2>5 DEF DbDisk
<1>4. /\ db' \in DbFile /\ dbDisk' \in DbDisk
      /\ db'.page = [db.page EXCEPT ![p] = v]
      /\ db'.len >= db.len /\ db'.len >= p + 1
  BY <1>41, <1>42
<1>5. WalTypeOK' /\ LogInv' /\ MapInv'
  BY WalSyncQuiet, WalQuiet DEF Inv, TypeOK
<1>6. TypeOK'
  BY <1>3, <1>4, <1>5 DEF Inv, TypeOK
<1>7. db.page \in [AllPages -> Contents] /\ db.len \in Int /\ db'.len \in Int
  BY <1>4 DEF Inv, TypeOK, DbFile
<1>8. CheckpointInv'
  BY <1>1, <1>3, <1>4, <1>7
  DEF Inv, CheckpointInv, InTransaction, walVars, v, TypeOK, WalTypeOK, IsSlotMap
<1>9. Mapped' = Mapped
  BY <1>1, <1>4, <1>7 DEF Mapped, walVars
<1>10. MetaInv'
  <2>1. \A q \in AllPages : q >= db'.len => db'.page[q] = 0
    BY <1>1, <1>4, <1>7 DEF Inv, MetaInv, AllPages
  <2> QED
    BY <1>9, <2>1 DEF Inv, MetaInv, CheckpointInv, walVars
<1> QED
  BY <1>9, <1>5, <1>6, <1>8, <1>10 DEF Inv
LEMMA MaxOfTwo ==
    ASSUME NEW a \in Int, NEW b \in Int
    PROVE  Max({a, b}) = IF a >= b THEN a ELSE b
<1>1. CASE a >= b
  BY <1>1, MaxIs
<1>2. CASE ~(a >= b)
  BY <1>2, MaxIs
<1> QED
  BY <1>1, <1>2

LEMMA CommittedMeta ==
    ASSUME Inv, committed # NoSlots
    PROVE  0 \in DOMAIN committed /\ commitEnd > 0
<1>1. PICK p : p \in DOMAIN committed
  BY DEF Inv, TypeOK, WalTypeOK, IsSlotMap, NoSlots
<1>2. committed[p] \in Slots /\ committed[p] < commitEnd
  BY <1>1 DEF Inv, TypeOK, WalTypeOK, IsSlotMap, MapInv
<1>3. commitEnd > 0 /\ commitEnd - 1 \in Slots
  BY <1>2 DEF Inv, TypeOK, WalTypeOK, Slots
<1>4. log.frames[commitEnd-1].page = 0
  BY <1>3 DEF Inv, LogInv
<1>5. log.frames[commitEnd-1].page \in DOMAIN committed
  BY <1>3 DEF Inv, TypeOK, WalTypeOK, MapInv
<1> QED
  BY <1>3, <1>4, <1>5

LEMMA GrowFileInv == ASSUME Inv, GrowFile PROVE Inv' /\ Mapped' = Mapped
<1> USE DEF GrowFile, ghosts, bounds
<1>1. /\ db.len \in 1..MaxPage+1 /\ meta \in 1..MaxPage+1
      /\ db.page \in [AllPages -> Contents]
  BY DEF Inv, TypeOK, DbFile
<1>2. /\ db' = [page |-> db.page, len |-> Max({db.len, meta})]
      /\ \/ dbDisk' = Settled(db')
         \/ dbDisk' = [dbDisk EXCEPT !.len = @ \cup {db'.len}]
  BY DEF Grown
<1>3. /\ Max({db.len, meta}) \in 1..MaxPage+1
      /\ Max({db.len, meta}) >= db.len /\ Max({db.len, meta}) >= meta
  BY <1>1, MaxOfTwo
<1>4. /\ db'.page = db.page /\ db'.len >= db.len /\ db'.len >= meta
      /\ db'.len \in 1..MaxPage+1
  BY <1>2, <1>3
<1>5. db' \in DbFile /\ dbDisk' \in DbDisk
  <2>1. db' \in DbFile /\ Settled(db') \in DbDisk
    BY <1>1, <1>2, <1>3 DEF DbFile, DbDisk, Settled
  <2>2. [dbDisk EXCEPT !.len = @ \cup {db'.len}] \in DbDisk
    BY <1>4 DEF DbDisk, Inv, TypeOK
  <2> QED
    BY <1>2, <2>1, <2>2
<1>6. WalTypeOK' /\ LogInv' /\ MapInv'
  BY WalSyncQuiet, WalQuiet DEF Inv, TypeOK
<1>7. TypeOK'
  BY <1>5, <1>6 DEF Inv, TypeOK
<1>8. CheckpointInv'
  BY <1>4 DEF Inv, CheckpointInv, InTransaction, walVars
<1>9. Mapped' = Mapped
  BY <1>4 DEF Mapped, walVars
<1>10. db.page[0] = meta
  <2>1. 0 \in DOMAIN committed
    BY CommittedMeta DEF Inv, CheckpointInv
  <2>2. db.page[0] = Mapped[0]
    BY <2>1 DEF Mapped, Inv, CheckpointInv, AllPages, WalAssumption
  <2> QED
    BY <2>2 DEF Inv, MetaInv, CheckpointInv, InTransaction
<1>11. MetaInv'
  BY <1>1, <1>4, <1>9, <1>10 DEF Inv, MetaInv, AllPages, walVars
<1> QED
  BY <1>9, <1>6, <1>7, <1>8, <1>11 DEF Inv

LEMMA DieInCopyInv == ASSUME ~Tracked, Inv, DieInCopy PROVE Inv' /\ Mapped' = Mapped
<1> USE DEF DieInCopy, Crash, WalForget
<1> DEFINE p == NextCopy
<1>1. p \in todo /\ p \in DOMAIN committed /\ p \in AllPages
  BY NextCopyIn DEF Inv, CheckpointInv, TypeOK
<1>2. Torn \in Contents
  BY DEF Torn, Contents
<1>3. /\ db' = PageWritten(db, p, Torn) /\ dbDisk' = Settled(db')
  OBVIOUS
<1> HIDE DEF p
<1>4. /\ db' \in DbFile /\ dbDisk' \in DbDisk
      /\ db'.page = [db.page EXCEPT ![p] = Torn]
      /\ db'.len >= db.len /\ db'.len >= p + 1
  BY <1>1, <1>2, <1>3, PageWrittenType
<1>5. db.page \in [AllPages -> Contents] /\ db.len \in Int /\ db'.len \in Int
  BY <1>4 DEF Inv, TypeOK, DbFile
<1>6. TypeOK' /\ LogInv' /\ MapInv' /\ CheckpointInv'
  <2>1. IsSlotMap(committed)' /\ IsSlotMap(pending)'
    BY DEF Inv, TypeOK, WalTypeOK, IsSlotMap, NoSlots
  <2>2. WalTypeOK'
    BY <2>1 DEF Inv, TypeOK, WalTypeOK
  <2>3. metaDirty' \in BOOLEAN
    OBVIOUS
  <2>4. crashes' \in 0..MaxCrashes
    BY PagerAssumption DEF Inv, TypeOK
  <2>5. TypeOK'
    BY <1>4, <2>2, <2>3, <2>4 DEF Inv, TypeOK
  <2>6. \A s \in Slots : s < commitEnd => s < end
    BY DEF Inv, TypeOK, WalTypeOK, MapInv, Slots
  <2>7. LogInv'
    BY <2>6 DEF Inv, LogInv
  <2>8. MapInv'
    BY DEF Inv, TypeOK, WalTypeOK, MapInv, NoSlots
  <2>9. CheckpointInv'
    BY DEF CheckpointInv, InTransaction
  <2> QED
    BY <2>5, <2>7, <2>8, <2>9
<1>7. Mapped' = Mapped
  BY <1>1, <1>4, <1>5 DEF Mapped
<1>8. MetaInv'
  <2>1. \A q \in AllPages : q >= db'.len => db'.page[q] = 0
    BY <1>1, <1>4, <1>5 DEF Inv, MetaInv, AllPages
  <2>2. committed' # NoSlots
    BY <1>1 DEF NoSlots
  <2> QED
    BY <1>7, <2>1, <2>2 DEF Inv, TypeOK, MetaInv
<1> QED
  BY <1>7, <1>6, <1>8 DEF Inv

LEMMA FrameWritten ==
    ASSUME Inv, NEW s \in Slots, NEW f \in Frame, WriteFrame(s, f)
    PROVE  /\ log' \in LogFile
           /\ log'.hdr = generation
           /\ log'.frames = [log.frames EXCEPT ![s] = f]
           /\ headerOk' = TRUE
           /\ written' \in Seq(LogFile)
<1>1. log \in LogFile /\ generation \in Nat /\ written \in Seq(LogFile)
  BY DEF Inv, TypeOK, WalTypeOK
<1>2. CASE headerOk
  <2>1. log' = [log EXCEPT !.frames[s] = f] /\ log.hdr = generation
    BY <1>2 DEF WriteFrame, Inv, LogInv
  <2>2. log' \in LogFile /\ log'.hdr = generation /\ log'.frames = [log.frames EXCEPT ![s] = f]
    BY <1>1, <2>1 DEF LogFile
  <2>3. written' \in {written, Append(written, log')}
    BY <1>2 DEF WriteFrame
  <2>4. written' \in Seq(LogFile)
    BY <1>1, <2>2, <2>3, AppendIn
  <2> QED
    BY <2>2, <2>4 DEF WriteFrame
<1>3. CASE ~headerOk
  <2>1. log' = [[log EXCEPT !.hdr = generation] EXCEPT !.frames[s] = f]
    BY <1>3 DEF WriteFrame, WithHeader
  <2>2. [log EXCEPT !.hdr = generation] = [hdr |-> generation, frames |-> log.frames]
    BY <1>1 DEF LogFile
  <2>3. log' = [hdr |-> generation, frames |-> [log.frames EXCEPT ![s] = f]]
    BY <2>1, <2>2
  <2>4. log' \in LogFile /\ log'.hdr = generation /\ log'.frames = [log.frames EXCEPT ![s] = f]
    BY <1>1, <2>3 DEF LogFile
  <2>5. WithHeader \in LogFile
    BY <1>1 DEF LogFile, WithHeader
  <2>6. written' \in {written, written \o <<WithHeader, log'>>}
    BY <1>3 DEF WriteFrame
  <2>7. written \o <<WithHeader, log'>> \in Seq(LogFile)
    BY <1>1, <2>4, <2>5, AppendIn
  <2>8. written' \in Seq(LogFile)
    BY <1>1, <2>6, <2>7
  <2> QED
    BY <2>4, <2>8 DEF WriteFrame
<1> QED
  BY <1>2, <1>3

LEMMA WritePageInv ==
    ASSUME Inv, NEW p \in 1..MaxPage, WritePage(p)
    PROVE  /\ Inv' /\ Mapped' = Mapped
           /\ \A q \in AllPages \ {p} : Readings'[q] = Readings[q]
<1> USE DEF WritePage, dbVars, bounds
<1> DEFINE slot == SlotFor(p)
           f == FrameOf(p, FALSE, stamp')
<1>1. /\ slot \in Slots
      /\ WriteFrame(slot, f)
      /\ end' = IF p \in DOMAIN pending THEN end ELSE end + 1
      /\ pending' = [q \in DOMAIN pending \cup {p} |-> IF q = p THEN slot ELSE pending[q]]
      /\ UNCHANGED <<generation, commitEnd, committed, lastGen>>
  BY DEF WalWrite
<1>2. /\ stamp' = stamp + 1 /\ stamp' \in 0..MaxStamp /\ pc = "idle" /\ p < meta
      /\ UNCHANGED <<pagerVars, db, dbDisk, history, promised, crashes, closes>>
  BY DEF Inv, TypeOK
<1>3. f = [page |-> p, commit |-> FALSE, gen |-> generation, val |-> stamp'] /\ f \in Frame
  BY <1>2 DEF FrameOf, Frame, Inv, TypeOK, WalTypeOK, Contents, AllPages
<1>4. /\ end \in 0..MaxSlots /\ commitEnd \in 0..MaxSlots /\ commitEnd <= end
      /\ \A q \in DOMAIN pending : pending[q] \in Slots /\ pending[q] \in commitEnd..end-1
      /\ \A q \in DOMAIN committed : committed[q] \in Slots /\ committed[q] < commitEnd
      /\ DOMAIN pending \subseteq AllPages /\ meta \in Int
  <2>1. /\ end \in 0..MaxSlots /\ commitEnd \in 0..MaxSlots /\ meta \in Int
        /\ \A q \in DOMAIN pending : pending[q] \in Slots
        /\ \A q \in DOMAIN committed : committed[q] \in Slots
        /\ DOMAIN pending \subseteq AllPages
    <3> HIDE DEF WritePage
    <3>1. WalTypeOK /\ meta \in Int
      BY DEF Inv, TypeOK
    <3> QED
      BY <3>1 DEF WalTypeOK, IsSlotMap
  <2> QED
    BY <2>1 DEF Inv, MapInv
<1>5. /\ slot >= commitEnd /\ slot < end' /\ end <= end' /\ end' <= end + 1
      /\ end' \in 0..MaxSlots
      /\ p \in DOMAIN pending => slot = pending[p] /\ end' = end
      /\ p \notin DOMAIN pending => slot = end /\ end' = end + 1
  BY <1>1, <1>4 DEF SlotFor, Slots
<1> HIDE DEF slot, f, WritePage
<1>6. /\ log' \in LogFile /\ log'.hdr = generation
      /\ log'.frames = [log.frames EXCEPT ![slot] = f]
      /\ headerOk' = TRUE /\ written' \in Seq(LogFile)
  BY <1>1, <1>3, FrameWritten
<1>7. log.frames \in [Slots -> Frame]
  BY DEF Inv, TypeOK, WalTypeOK, LogFile
<1>8. TypeOK'
  <2>1. IsSlotMap(committed)'
    BY <1>1 DEF Inv, TypeOK, WalTypeOK, IsSlotMap
  <2>2. IsSlotMap(pending)'
    BY <1>1, <1>4 DEF IsSlotMap, AllPages
  <2>3. WalTypeOK'
    BY <1>1, <1>5, <1>6, <2>1, <2>2 DEF Inv, TypeOK, WalTypeOK
  <2> QED
    BY <1>2, <2>3 DEF Inv, TypeOK, pagerVars
<1>9. LogInv'
  <2>1. \A s \in Slots : s < end' => s < end \/ s = slot
    BY <1>1, <1>4, <1>5 DEF Slots
  <2>2. generation > 0
    BY <1>2 DEF Inv, LogInv
  <2>3. commitEnd > 0 => log'.frames[commitEnd-1] = log.frames[commitEnd-1]
    BY <1>4, <1>5, <1>6, <1>7 DEF Slots
  <2>4. \A s \in Slots : /\ log'.frames[s].gen <= generation
                         /\ log'.frames[s].commit => log'.frames[s].page = 0
                         /\ s < end' => log'.frames[s].gen = generation
                         /\ s >= commitEnd /\ log'.frames[s].commit
                              => log'.frames[s].gen # generation
    <3> TAKE s \in Slots
    <3>1. CASE s = slot
      BY <1>3, <1>6, <1>7, <3>1 DEF Inv, TypeOK, WalTypeOK
    <3>2. CASE s # slot
      BY <1>6, <1>7, <2>1, <3>2 DEF Inv, LogInv
    <3> QED
      BY <3>1, <3>2
  <2> QED
    BY <1>1, <1>6, <2>2, <2>3, <2>4 DEF Inv, LogInv
<1>10. MapInv'
  <2>1. \A q \in DOMAIN committed : log'.frames[committed[q]] = log.frames[committed[q]]
    BY <1>4, <1>5, <1>6, <1>7 DEF Slots
  <2>2. \A q \in DOMAIN pending' : /\ q \in 1..meta-1
                                   /\ pending'[q] \in commitEnd..end'-1
                                   /\ log'.frames[pending'[q]].page = q
    <3> TAKE q \in DOMAIN pending'
    <3>1. CASE q = p
      BY <1>1, <1>2, <1>3, <1>4, <1>5, <1>6, <1>7, <3>1 DEF Slots
    <3>2. CASE q # p
      <4>1. q \in DOMAIN pending /\ pending'[q] = pending[q]
        BY <1>1, <3>2
      <4>2. /\ q \in 1..meta-1 /\ pending[q] \in commitEnd..end-1
            /\ log.frames[pending[q]].page = q
        BY <4>1 DEF Inv, MapInv
      <4>3. pending[q] # slot
        BY <1>4, <1>5, <3>2, <4>1, <4>2 DEF Inv, MapInv
      <4> QED
        BY <1>4, <1>5, <1>6, <1>7, <4>1, <4>2, <4>3
    <3> QED
      BY <3>1, <3>2
  <2>3. \A s \in Slots : s < commitEnd =>
            /\ log'.frames[s].page \in DOMAIN committed
            /\ s <= committed[log'.frames[s].page]
    <3>1. \A s \in Slots : s < commitEnd => log'.frames[s] = log.frames[s]
      BY <1>4, <1>5, <1>6, <1>7 DEF Slots
    <3> QED
      BY <3>1 DEF Inv, MapInv
  <2>4. ASSUME NEW s \in Slots, s \in commitEnd..end'-1
        PROVE  /\ log'.frames[s].page \in DOMAIN pending'
               /\ s = pending'[log'.frames[s].page]
    <3>1. CASE s = slot
      BY <1>1, <1>3, <1>6, <1>7, <3>1
    <3>2. CASE s # slot
      <4>0. log'.frames[s] = log.frames[s]
        BY <1>6, <1>7, <3>2
      <4>1. s \in commitEnd..end-1
        <5>1. commitEnd \in Int /\ end \in Int /\ s \in Int
          BY <1>4 DEF Slots
        <5>2. CASE p \in DOMAIN pending
          BY <1>5, <2>4, <5>1, <5>2
        <5>3. CASE p \notin DOMAIN pending
          <6>1. s <= end /\ s # end /\ s >= commitEnd
            BY <1>5, <2>4, <3>2, <5>1, <5>3
          <6> QED
            BY <5>1, <6>1
        <5> QED
          BY <5>2, <5>3
      <4>2. log.frames[s].page \in DOMAIN pending /\ s = pending[log.frames[s].page]
        BY <4>1 DEF Inv, MapInv
      <4>3. log.frames[s].page # p
        BY <1>5, <3>2, <4>2
      <4> QED
        BY <1>1, <4>0, <4>2, <4>3
    <3> QED
      BY <3>1, <3>2
  <2>5. \A q \in DOMAIN committed : /\ committed[q] < commitEnd
                                   /\ log'.frames[committed[q]].page = q
    BY <2>1 DEF Inv, MapInv
  <2>6. UNCHANGED <<meta, commitEnd, committed>> /\ commitEnd <= end'
    BY <1>1, <1>2, <1>4, <1>5 DEF pagerVars
  <2> HIDE DEF Inv
  <2> QED
    BY <1>6, <2>2, <2>3, <2>4, <2>5, <2>6 DEF MapInv
<1>11. CheckpointInv'
  BY <1>2 DEF CheckpointInv, pagerVars
<1>12. Mapped' = Mapped
  BY <1>1, <1>2, <1>4, <1>5, <1>6, <1>7 DEF Mapped, Slots
<1>13. MetaInv'
  BY <1>1, <1>2, <1>12 DEF Inv, MetaInv, pagerVars
<1>14. ASSUME NEW q \in AllPages, q # p PROVE Readings'[q] = Readings[q]
  <2>1. CASE q = 0
    BY <1>2, <2>1 DEF Readings, Read, pagerVars
  <2>2. CASE q # 0 /\ q \in DOMAIN pending
    <3>1. pending[q] # slot
      BY <1>4, <1>5, <1>14, <2>2 DEF Inv, MapInv
    <3>2. log'.frames[pending[q]] = log.frames[pending[q]]
      BY <1>4, <1>6, <1>7, <2>2, <3>1
    <3>3. q \in DOMAIN pending' /\ pending'[q] = pending[q]
      BY <1>1, <1>14, <2>2
    <3> QED
      BY <2>2, <3>2, <3>3 DEF Readings, Read, Holds, SlotOf, WalRead
  <2>3. CASE q # 0 /\ q \notin DOMAIN pending
    <3>1. q \notin DOMAIN pending' /\ committed' = committed /\ db' = db
      BY <1>1, <1>2, <1>14, <2>3
    <3>2. q \in DOMAIN committed => log'.frames[committed[q]] = log.frames[committed[q]]
      BY <1>4, <1>5, <1>6, <1>7 DEF Slots
    <3> QED
      BY <2>3, <3>1, <3>2 DEF Readings, Read, Holds, SlotOf, WalRead
  <2> QED
    BY <2>1, <2>2, <2>3
<1> QED
  BY <1>12, <1>14, <1>8, <1>9, <1>10, <1>11, <1>13 DEF Inv

\* What read_page returns are contents of a page.
LEMMA ReadingsType == Inv => Readings \in [AllPages -> Contents]
<1> SUFFICES ASSUME Inv, NEW q \in AllPages PROVE Read(q) \in Contents
  BY DEF Readings
<1>1. CASE q = 0
  BY <1>1 DEF Read, Inv, TypeOK, Contents
<1>2. CASE q # 0 /\ Holds(q)
  <2>1. SlotOf(q) \in Slots
    BY <1>2 DEF Holds, SlotOf, Inv, TypeOK, WalTypeOK, IsSlotMap
  <2>2. log.frames[SlotOf(q)].val \in Contents
    BY <2>1 DEF Inv, TypeOK, WalTypeOK, LogFile, Frame
  <2> QED
    BY <1>2, <2>2 DEF Read, WalRead
<1>3. CASE q # 0 /\ ~Holds(q)
  <2>1. db.page[q] \in Contents /\ 0 \in Contents
    BY DEF Inv, TypeOK, DbFile, Contents
  <2> QED
    BY <1>3, <2>1 DEF Read
<1> QED
  BY <1>1, <1>2, <1>3

LEMMA CommitInv == ASSUME Inv, NEW then \in Endings, Commit(then)
                   PROVE  Inv' /\ Mapped' = Readings
<1> USE DEF Commit, dbVars
<1> DEFINE f == FrameOf(0, TRUE, meta)
<1>1. /\ end \in Slots
      /\ WriteFrame(end, f)
      /\ committed' = [q \in DOMAIN committed \cup DOMAIN pending \cup {0} |->
                          IF q = 0 THEN end
                          ELSE IF q \in DOMAIN pending THEN pending[q]
                          ELSE committed[q]]
      /\ pending' = NoSlots /\ end' = end + 1 /\ commitEnd' = end + 1
      /\ UNCHANGED <<generation, lastGen>>
  BY DEF WalCommit
<1>2. /\ pc = "idle" /\ committedMeta' = meta /\ metaDirty' = FALSE /\ after' = then
      /\ pc' \in {"idle", "logSync", "checkpoint"}
      /\ UNCHANGED <<meta, durability, todo, db, dbDisk, stamp, promised, crashes>>
      /\ history' \in Seq([AllPages -> Contents])
      /\ closes' \in 0..MaxCloses
  BY ReadingsType, PagerAssumption DEF Committed, Counted, Inv, TypeOK
<1> HIDE DEF Commit
<1>3. f = [page |-> 0, commit |-> TRUE, gen |-> generation, val |-> meta] /\ f \in Frame
  BY WalAssumption DEF FrameOf, Frame, Inv, TypeOK, WalTypeOK, Contents, AllPages
<1> HIDE DEF f
<1>4. /\ log' \in LogFile /\ log'.hdr = generation
      /\ log'.frames = [log.frames EXCEPT ![end] = f]
      /\ headerOk' = TRUE /\ written' \in Seq(LogFile)
  BY <1>1, <1>3, FrameWritten
<1>5. log.frames \in [Slots -> Frame]
  BY DEF Inv, TypeOK, WalTypeOK, LogFile
<1>6. /\ end \in 0..MaxSlots /\ commitEnd \in 0..MaxSlots /\ meta \in 1..MaxPage+1
      /\ DOMAIN committed \subseteq AllPages /\ DOMAIN pending \subseteq AllPages
      /\ \A q \in DOMAIN pending : pending[q] \in Slots
      /\ \A q \in DOMAIN committed : committed[q] \in Slots
  <2>1. WalTypeOK /\ meta \in 1..MaxPage+1
    BY DEF Inv, TypeOK
  <2> QED
    BY <2>1 DEF WalTypeOK, IsSlotMap
<1>7. /\ commitEnd <= end
      /\ \A q \in DOMAIN pending : /\ pending[q] >= commitEnd /\ pending[q] < end
                                   /\ q # 0 /\ log.frames[pending[q]].page = q
      /\ \A q \in DOMAIN committed : /\ committed[q] < commitEnd
                                     /\ log.frames[committed[q]].page = q
  BY <1>6 DEF Inv, MapInv
<1>8. \A s \in Slots : s # end => log'.frames[s] = log.frames[s]
  BY <1>1, <1>4, <1>5
<1>9. log'.frames[end] = f
  BY <1>1, <1>4, <1>5
<1>10. 0 \in AllPages
  BY WalAssumption DEF AllPages
<1>11. TypeOK'
  <2>1. IsSlotMap(committed)'
    BY <1>1, <1>6, <1>10 DEF IsSlotMap
  <2>2. IsSlotMap(pending)'
    BY <1>1 DEF IsSlotMap, NoSlots
  <2>3. end' \in 0..MaxSlots /\ commitEnd' \in 0..MaxSlots
    BY <1>1, <1>6 DEF Slots
  <2>4. WalTypeOK'
    BY <1>1, <1>4, <2>1, <2>2, <2>3 DEF Inv, TypeOK, WalTypeOK
  <2>5. metaDirty' \in BOOLEAN
    BY <1>2
  <2>6. pc' \in {"down", "idle", "logSync", "checkpoint", "copy", "fileSync",
                 "reset", "finish"} /\ after' \in {"return", "sync", "close"}
    BY <1>2 DEF Endings
  <2> QED
    BY <1>2, <2>4, <2>5, <2>6 DEF Inv, TypeOK
<1>12. LogInv'
  <2>1. \A s \in Slots : /\ log'.frames[s].gen <= generation
                         /\ log'.frames[s].commit => log'.frames[s].page = 0
                         /\ s < end + 1 => log'.frames[s].gen = generation
                         /\ s >= end + 1 /\ log'.frames[s].commit
                              => log'.frames[s].gen # generation
    <3> TAKE s \in Slots
    <3>1. CASE s = end
      BY <1>3, <1>6, <1>9, <3>1 DEF Inv, TypeOK, WalTypeOK
    <3>2. CASE s # end
      <4>1. /\ s < end + 1 => s < end
            /\ s >= end + 1 => s >= commitEnd
        BY <1>6, <1>7, <3>2 DEF Slots
      <4> QED
        BY <1>8, <3>2, <4>1 DEF Inv, LogInv
    <3> QED
      BY <3>1, <3>2
  <2>2. end + 1 - 1 = end
    BY <1>6
  <2>3. log'.frames[end].commit
    BY <1>3, <1>9
  <2>4. generation > 0
    BY <1>2 DEF Inv, LogInv
  <2>5. generation <= lastGen
    BY DEF Inv, LogInv
  <2>6. commitEnd' > 0 => headerOk' /\ log'.frames[commitEnd'-1].commit
    <3>0. commitEnd' = end + 1
      BY <1>1
    <3>1. commitEnd' - 1 = end
      BY <1>6, <3>0
    <3>2. headerOk'
      BY <1>4
    <3>3. log'.frames[commitEnd'-1].commit
      BY <2>3, <3>1, Zenon
    <3> QED
      BY <3>2, <3>3
  <2> QED
    BY <1>1, <1>4, <2>1, <2>4, <2>5, <2>6 DEF LogInv
<1>13. MapInv'
  <2>1. \A q \in DOMAIN committed' : /\ committed'[q] < end + 1
                                     /\ log'.frames[committed'[q]].page = q
    <3> TAKE q \in DOMAIN committed'
    <3>1. CASE q = 0
      BY <1>1, <1>3, <1>6, <1>9, <3>1
    <3>2. CASE q # 0 /\ q \in DOMAIN pending
      BY <1>1, <1>6, <1>7, <1>8, <3>2 DEF Slots
    <3>3. CASE q # 0 /\ q \notin DOMAIN pending
      BY <1>1, <1>6, <1>7, <1>8, <3>3 DEF Slots
    <3> QED
      BY <3>1, <3>2, <3>3
  <2>2. ASSUME NEW s \in Slots, s < end + 1
        PROVE  /\ log'.frames[s].page \in DOMAIN committed'
               /\ s <= committed'[log'.frames[s].page]
    <3> DEFINE q == log.frames[s].page
    <3>1. CASE s = end
      BY <1>1, <1>3, <1>6, <1>9, <3>1
    <3>2. CASE s < commitEnd
      <4>1. q \in DOMAIN committed /\ s <= committed[q] /\ log'.frames[s].page = q
        BY <1>6, <1>7, <1>8, <3>2 DEF Inv, MapInv, Slots
      <4> QED
        BY <1>1, <1>6, <1>7, <3>2, <4>1 DEF Slots
    <3>3. CASE s >= commitEnd /\ s # end
      <4>1. s \in commitEnd..end-1
        BY <1>6, <2>2, <3>3 DEF Slots
      <4>2. q \in DOMAIN pending /\ s = pending[q] /\ log'.frames[s].page = q
        BY <1>8, <3>3, <4>1 DEF Inv, MapInv
      <4> QED
        BY <1>1, <1>6, <1>7, <4>2 DEF Slots
    <3> QED
      BY <1>6, <3>1, <3>2, <3>3 DEF Slots
  <2>3. DOMAIN pending' = {} /\ commitEnd'..end'-1 = {} /\ commitEnd' <= end'
    BY <1>1, <1>6 DEF NoSlots
  <2>4. pending' = NoSlots /\ commitEnd' = end + 1
    BY <1>1
  <2> QED
    BY <2>1, <2>2, <2>3, <2>4 DEF MapInv
<1>14. CheckpointInv'
  BY <1>1, <1>2 DEF CheckpointInv, InTransaction
<1>15. Mapped'[0] = meta
  BY <1>1, <1>3, <1>9, <1>10 DEF Mapped
<1>16. MetaInv'
  <2>1. committed' # NoSlots
    BY <1>1 DEF NoSlots
  <2> QED
    BY <1>2, <1>6, <1>15, <2>1 DEF Inv, MetaInv
<1>17. ASSUME NEW q \in AllPages PROVE Mapped'[q] = Readings[q]
  <2>1. CASE q = 0
    BY <1>10, <1>15, <2>1 DEF Readings, Read
  <2>2. CASE q # 0 /\ q \in DOMAIN pending
    <3>1. q \in DOMAIN committed' /\ committed'[q] = pending[q]
      BY <1>1, <2>2
    <3>2. log'.frames[pending[q]] = log.frames[pending[q]]
      BY <1>6, <1>7, <1>8, <2>2 DEF Slots
    <3> QED
      BY <2>2, <3>1, <3>2 DEF Mapped, Readings, Read, Holds, SlotOf, WalRead
  <2>3. CASE q # 0 /\ q \notin DOMAIN pending /\ q \in DOMAIN committed
    <3>1. q \in DOMAIN committed' /\ committed'[q] = committed[q]
      BY <1>1, <2>3
    <3>2. log'.frames[committed[q]] = log.frames[committed[q]]
      BY <1>6, <1>7, <1>8, <2>3 DEF Slots
    <3> QED
      BY <2>3, <3>1, <3>2 DEF Mapped, Readings, Read, Holds, SlotOf, WalRead
  <2>4. CASE q # 0 /\ q \notin DOMAIN pending /\ q \notin DOMAIN committed
    <3>1. q \notin DOMAIN committed' /\ db' = db
      BY <1>1, <1>2, <2>4
    <3>2. ~(q < db.len) => db.page[q] = 0
      BY DEF Inv, TypeOK, DbFile, MetaInv, AllPages
    <3> QED
      BY <2>4, <3>1, <3>2 DEF Mapped, Readings, Read, Holds
  <2> QED
    BY <2>1, <2>2, <2>3, <2>4
<1>18. Mapped' = Readings
  BY <1>17 DEF Mapped, Readings
<1> QED
  BY <1>18, <1>11, <1>12, <1>13, <1>14, <1>16 DEF Inv

\* A log without a commit stands for nothing.
LEMMA CommittedNone == ASSUME Inv, commitEnd = 0 PROVE committed = NoSlots
  BY CommittedMeta

LEMMA ResetInv == ASSUME Inv, Reset PROVE Inv' /\ Mapped' = Mapped
<1> USE DEF Reset, dbVars, ghosts, bounds
<1>1. /\ committed' = NoSlots /\ end' = 0 /\ commitEnd' = 0
      /\ generation' = generation + 1
      /\ lastGen' = Max({lastGen, generation + 1})
      /\ log' = [log EXCEPT !.hdr = generation + 1]
      /\ written' \in {written, Append(written, log')} /\ pending' = pending
  BY DEF WalReset, Issued
<1>0. headerOk' = TRUE
  BY DEF WalReset
<1>2. pc = "reset" /\ pc' \in {"idle", "finish"}
  BY DEF Checkpointed
<1> HIDE DEF Reset
<1>3. /\ generation \in Nat /\ generation > 0 /\ lastGen \in Nat
      /\ log \in LogFile /\ log.frames \in [Slots -> Frame]
  BY <1>2 DEF Inv, TypeOK, WalTypeOK, LogInv, LogFile
<1>4. lastGen' \in Nat /\ generation + 1 <= lastGen'
  <2> DEFINE next == generation + 1
  <2>1. next \in Nat /\ lastGen' = Max({lastGen, next})
    BY <1>1, <1>3
  <2> HIDE DEF next
  <2>2. lastGen' \in Nat /\ next <= lastGen'
    BY <1>3, <2>1, MaxOfTwo
  <2> QED
    BY <2>2 DEF next
<1>5. log'.hdr = generation + 1 /\ log'.frames = log.frames /\ log' \in LogFile
  BY <1>1, <1>3 DEF LogFile
<1>6. pending = NoSlots /\ metaDirty = FALSE
  BY <1>2 DEF Inv, CheckpointInv, InTransaction, TypeOK
<1>7. TypeOK'
  <2>1. IsSlotMap(committed)' /\ IsSlotMap(pending)'
    BY <1>1, <1>6 DEF IsSlotMap, NoSlots
  <2>2. headerOk' \in BOOLEAN
    BY <1>0
  <2>4. generation' \in Nat /\ lastGen' \in Nat /\ end' \in 0..MaxSlots /\ commitEnd' \in 0..MaxSlots
    BY <1>1, <1>3, <1>4
  <2>5. log' \in LogFile /\ written' \in Seq(LogFile)
    <3>1. written \in Seq(LogFile) /\ log' \in LogFile
      BY <1>5 DEF Inv, TypeOK, WalTypeOK
    <3>2. Append(written, log') \in Seq(LogFile)
      BY <3>1, AppendIn
    <3> QED
      BY <1>1, <3>1, <3>2
  <2>3. WalTypeOK'
    BY <2>1, <2>2, <2>4, <2>5 DEF WalTypeOK
  <2> QED
    BY <1>2, <2>3 DEF Inv, TypeOK, Reset
<1>8. LogInv'
  <2>1. LogInv!1'
    BY <1>0, <1>1, <1>5, Zenon
  <2>2. \A s \in Slots : /\ log'.frames[s].gen <= generation + 1
                         /\ log'.frames[s].gen # generation + 1
                         /\ log'.frames[s].commit => log'.frames[s].page = 0
    <3> TAKE s \in Slots
    <3>1. log.frames[s].gen <= generation /\ log.frames[s].gen \in Nat
      BY <1>3 DEF Inv, LogInv, Frame
    <3> QED
      BY <1>3, <1>5, <3>1 DEF Inv, LogInv
  <2>3. \A s \in Slots : ~(s < 0)
    BY DEF Slots
  <2> QED
    BY <1>0, <1>1, <1>3, <1>4, <2>1, <2>2, <2>3 DEF LogInv
<1>9. MapInv'
  BY <1>1, <1>6 DEF MapInv, NoSlots, Slots
<1>10. CheckpointInv'
  BY <1>1, <1>2, <1>6 DEF CheckpointInv, InTransaction, NoSlots, Reset
<1>11. /\ Mapped = db.page /\ Mapped' = db.page
  <2>1. db.page \in [AllPages -> Contents]
    BY DEF Inv, TypeOK, DbFile
  <2>2. Mapped = db.page
    BY <1>2, <2>1 DEF Inv, CheckpointInv, Mapped
  <2>3. Mapped' = db.page
    BY <1>1, <2>1 DEF Mapped, NoSlots, Reset
  <2> QED
    BY <2>2, <2>3
<1>12. MetaInv'
  BY <1>2, <1>6, <1>11 DEF Inv, MetaInv, Reset
<1> QED
  BY <1>11, <1>7, <1>8, <1>9, <1>10, <1>12 DEF Inv

LEMMA FinishCloseInv == ASSUME Inv, FinishClose PROVE Inv' /\ Mapped' = Mapped
<1> USE DEF FinishClose, dbVars, ghosts, bounds
<1>1. /\ committed' = NoSlots /\ end' = 0 /\ commitEnd' = 0
      /\ generation' = generation + 1
      /\ lastGen' = Max({lastGen, generation + 1})
      /\ log' = EmptyLog
      /\ written' \in {written, Append(written, log')}
      /\ headerOk' = FALSE /\ pending' = pending
  BY DEF WalTruncate, Issued
<1>2. pc = "finish" /\ pc' = "down"
  OBVIOUS
<1> HIDE DEF FinishClose
<1>3. generation \in Nat /\ lastGen \in Nat
  BY DEF Inv, TypeOK, WalTypeOK
<1>4. lastGen' \in Nat /\ generation + 1 <= lastGen'
  BY <1>1, <1>3, MaxOfTwo
<1>5. /\ log'.hdr = NoGen /\ log' \in LogFile
      /\ \A s \in Slots : /\ log'.frames[s].gen = 0 /\ log'.frames[s].page = 0
                          /\ log'.frames[s].commit = FALSE
  BY <1>1 DEF EmptyLog, LogFile, Blank, Frame, AllPages, Contents, NoGen
<1>6. pending = NoSlots /\ metaDirty = FALSE /\ committed = NoSlots
  BY <1>2 DEF Inv, CheckpointInv, InTransaction, TypeOK
<1>7. TypeOK'
  <2>1. IsSlotMap(committed)' /\ IsSlotMap(pending)'
    BY <1>1, <1>6 DEF IsSlotMap, NoSlots
  <2>2. headerOk' \in BOOLEAN
    BY <1>1
  <2>3. WalTypeOK'
    BY <1>1, <1>3, <1>4, <1>5, <2>1, <2>2 DEF Inv, TypeOK, WalTypeOK
  <2> QED
    BY <1>2, <2>3 DEF Inv, TypeOK, FinishClose
<1>8. LogInv'
  <2>1. LogInv!1'
    BY <1>1, <1>5, Zenon
  <2>2. \A s \in Slots : ~(s < 0)
    BY DEF Slots
  <2>3. ~headerOk'
    BY <1>1
  <2> QED
    BY <1>1, <1>2, <1>3, <1>4, <1>5, <2>1, <2>2, <2>3 DEF LogInv
<1>9. MapInv'
  BY <1>1, <1>6 DEF MapInv, NoSlots, Slots
<1>10. CheckpointInv'
  BY <1>1, <1>2, <1>6 DEF CheckpointInv, InTransaction, NoSlots, FinishClose
<1>11. Mapped' = db.page /\ Mapped = db.page
  BY <1>1, <1>6 DEF Mapped, NoSlots, FinishClose, Inv, TypeOK, DbFile
<1>12. MetaInv'
  BY <1>2, <1>6, <1>11 DEF Inv, MetaInv, FinishClose
<1> QED
  BY <1>11, <1>7, <1>8, <1>9, <1>10, <1>12 DEF Inv

\* A generation drawn afresh is newer than every frame left in the log.
LEMMA FreshIsNew == ASSUME lastGen \in Nat PROVE FreshGeneration \in Nat /\ FreshGeneration > lastGen
<1>1. lastGen \div 1000 \in Nat /\ lastGen < (lastGen \div 1000 + 1) * 1000
  BY SMT
<1> QED
  BY <1>1 DEF FreshGeneration, Gap

\* Recovery puts back in memory what it held: the same frames, the same end.
LEMMA Reopened ==
    ASSUME Inv, pc = "down", WalOpen
    PROVE  /\ UNCHANGED <<log, written, commitEnd, committed, headerOk>>
           /\ end' = end /\ end = commitEnd
           /\ pending' = NoSlots
           /\ generation' \in Nat /\ generation' > 0
           /\ lastGen' \in Nat /\ generation' <= lastGen'
           /\ headerOk => log.hdr = generation /\ generation' = generation
           /\ ~headerOk => log.hdr = NoGen /\ generation' > generation /\ commitEnd = 0
<1> USE DEF WalOpen
<1> DEFINE gen == IF log.hdr = NoGen THEN FreshGeneration ELSE log.hdr
<1>1. /\ generation' = gen /\ lastGen' = Max({lastGen, gen})
      /\ headerOk' = (log.hdr # NoGen)
      /\ end' = ScanEnd(log) /\ commitEnd' = ScanEnd(log) /\ committed' = ScanMap(log)
      /\ pending' = NoSlots /\ UNCHANGED <<log, written>>
  OBVIOUS
<1> HIDE DEF WalOpen
<1>2. end = commitEnd
  BY DEF Inv, CheckpointInv
<1>3. end' = end /\ commitEnd' = commitEnd /\ committed' = committed
  BY <1>1, <1>2, ScanEndIsCommitEnd, InvUndoable, ScanMapIsCommitted
<1>4. /\ generation \in Nat /\ lastGen \in Nat /\ generation <= lastGen /\ log.hdr \in Nat
      /\ commitEnd \in Nat
  BY DEF Inv, TypeOK, WalTypeOK, LogInv, LogFile
<1>5. CASE headerOk
  <2>1. log.hdr = generation /\ generation > 0
    BY <1>5 DEF Inv, LogInv
  <2>2. log.hdr # NoGen
    BY <2>1 DEF NoGen
  <2>3. headerOk' = TRUE
    BY <1>1, <2>2
  <2>4. headerOk = TRUE
    BY <1>5 DEF Inv, TypeOK, WalTypeOK
  <2>5. gen = generation
    BY <2>1, <2>2
  <2>6. lastGen' = lastGen
    BY <1>1, <1>4, <2>5, MaxOfTwo
  <2> QED
    BY <1>1, <1>2, <1>3, <1>4, <1>5, <2>1, <2>3, <2>4, <2>5, <2>6
<1>6. CASE ~headerOk
  <2>1. log.hdr = NoGen
    BY <1>6 DEF Inv, LogInv
  <2>2. headerOk' = FALSE
    BY <1>1, <2>1
  <2>3. headerOk = FALSE
    BY <1>6 DEF Inv, TypeOK, WalTypeOK
  <2>4. commitEnd = 0
    BY <1>4, <1>6 DEF Inv, LogInv
  <2>5. gen = FreshGeneration
    BY <2>1
  <2>6. gen \in Nat /\ gen > generation
    BY <1>4, <2>5, FreshIsNew
  <2>7. lastGen' = gen
    <3>1. gen >= lastGen
      BY <1>4, <2>5, FreshIsNew
    <3> HIDE DEF gen
    <3> QED
      BY <1>1, <1>4, <2>6, <3>1, MaxOfTwo
  <2>8. generation' <= lastGen' /\ lastGen' \in Nat /\ generation' \in Nat /\ generation' > 0
    BY <1>1, <1>4, <2>6, <2>7
  <2>9. generation' > generation
    BY <1>1, <2>6
  <2>10. headerOk' = headerOk
    BY <2>2, <2>3
  <2> HIDE DEF gen
  <2> QED
    BY <1>1, <1>2, <1>3, <1>6, <2>1, <2>4, <2>8, <2>9, <2>10
<1> QED
  BY <1>5, <1>6

LEMMA OpenInv == ASSUME Inv, Open PROVE Inv' /\ Mapped' = Mapped
<1> USE DEF Open, dbVars, ghosts, bounds
<1> DEFINE m == IF 0 \in DOMAIN committed' THEN log.frames[committed'[0]].val
                ELSE db.page[0]
<1>1. /\ UNCHANGED <<log, written, commitEnd, committed, headerOk, end>>
      /\ end = commitEnd /\ pending' = NoSlots
      /\ generation' \in Nat /\ generation' > 0
      /\ lastGen' \in Nat /\ generation' <= lastGen'
      /\ headerOk => log.hdr = generation /\ generation' = generation
      /\ ~headerOk => log.hdr = NoGen /\ generation' > generation /\ commitEnd = 0
  BY Reopened
<1>2. /\ pc' \in {"checkpoint", "reset", "idle"}
      /\ commitEnd > 0 => pc' = "checkpoint"
      /\ meta' = m /\ committedMeta' = m /\ metaDirty' = FALSE
      /\ durability' = "full" /\ after' = "return" /\ todo' = {}
      /\ UNCHANGED <<db, dbDisk, stamp, history, promised, crashes, closes>>
  BY <1>1
<1>3. pc = "down" /\ pending = NoSlots
  BY DEF Inv, CheckpointInv, InTransaction
<1> HIDE DEF Open
<1>4. m = Mapped[0]
  BY <1>1, WalAssumption DEF Mapped, AllPages
<1>5. m \in 1..MaxPage+1
  BY <1>4 DEF Inv, MetaInv
<1> HIDE DEF m
<1>6. commitEnd = 0 \/ (commitEnd \in Nat /\ commitEnd > 0)
  BY DEF Inv, TypeOK, WalTypeOK
<1>7. TypeOK'
  <2>1. IsSlotMap(pending)'
    BY <1>1 DEF IsSlotMap, NoSlots
  <2>2. WalTypeOK'
    BY <1>1, <2>1 DEF Inv, TypeOK, WalTypeOK, IsSlotMap
  <2>3. metaDirty' \in BOOLEAN
    BY <1>2
  <2> QED
    BY <1>2, <1>5, <2>2, <2>3 DEF Inv, TypeOK
<1>8. LogInv'
  <2>1. LogInv!1'
    <3>1. CASE headerOk
      BY <1>1, <3>1, Zenon
    <3>2. CASE ~headerOk
      BY <1>1, <3>2, Zenon
    <3> QED
      BY <3>1, <3>2
  <2>2. commitEnd > 0 => headerOk /\ log.frames[commitEnd-1].commit
    BY DEF Inv, LogInv
  <2>3. \A s \in Slots : /\ log.frames[s].gen <= generation'
                         /\ log.frames[s].commit => log.frames[s].page = 0
                         /\ s < end => log.frames[s].gen = generation'
                         /\ s >= commitEnd /\ log.frames[s].commit
                               => log.frames[s].gen # generation'
    <3> TAKE s \in Slots
    <3>1. CASE headerOk
      BY <1>1, <3>1 DEF Inv, LogInv
    <3>2. CASE ~headerOk
      <4>1. log.frames[s].gen <= generation /\ log.frames[s].gen \in Nat
        BY DEF Inv, TypeOK, WalTypeOK, LogInv, LogFile, Frame
      <4>2. generation \in Nat /\ ~(s < end)
        BY <1>1, <3>2 DEF Inv, TypeOK, WalTypeOK, Slots
      <4>3. log.frames[s].commit => log.frames[s].page = 0
        BY DEF Inv, LogInv
      <4> QED
        BY <1>1, <3>2, <4>1, <4>2, <4>3
    <3> QED
      BY <3>1, <3>2
  <2> QED
    BY <1>1, <2>1, <2>2, <2>3 DEF LogInv
<1>9. MapInv'
  <2>1. pending' = pending
    BY <1>1, <1>3
  <2> QED
    BY <1>1, <1>3, <2>1 DEF Inv, MapInv, NoSlots
<1>10. CheckpointInv'
  <2>1. pc' = "reset" => committed = NoSlots
    BY <1>2, <1>6, CommittedNone
  <2> QED
    BY <1>1, <1>2, <2>1 DEF CheckpointInv, InTransaction, NoSlots
<1>11. Mapped' = Mapped
  BY <1>1, <1>2 DEF Mapped
<1>12. MetaInv'
  <2>1. pc' \in {"fileSync", "reset"} => committed = NoSlots
    BY <1>2, <1>6, CommittedNone
  <2> QED
    BY <1>1, <1>2, <1>4, <1>5, <1>11, <2>1 DEF Inv, MetaInv
<1> QED
  BY <1>11, <1>7, <1>8, <1>9, <1>10, <1>12 DEF Inv
-----------------------------------------------------------------------------
(* The theorems.  Faults without "power": the machine keeps running.       *)

\* What a running process does, whatever machine it runs on.
LEMMA RunInv == ASSUME Inv, Client \/ Step PROVE Inv'
<1>1. CASE Client
  <2>1. ASSUME NEW p \in 1..MaxPage, WritePage(p) PROVE Inv'
    BY <2>1, WritePageInv
  <2> QED
    BY <1>1, <2>1, SetDurabilityInv, AllocatePageInv, RollbackInv, InvUndoable, CommitInv,
       CallCheckpointInv DEF Client
<1>2. CASE Step
  BY <1>2, CheckpointStartInv, CopyPageInv, GrowFileInv, FileSyncInv, ResetInv,
     LogSyncInv, FinishSyncInv, FinishCloseInv DEF Step
<1> QED
  BY <1>1, <1>2

LEMMA NextInv == ASSUME ~Tracked, Inv, [Next]_vars PROVE Inv'
<1>1. CASE Open
  BY <1>1, OpenInv
<1>2. CASE Client \/ Step
  BY <1>2, RunInv
<1>3. CASE Die \/ DieInLog \/ DieInCopy
  BY <1>3, DieInv, DieInLogInv, DieInCopyInv, InvUndoable
<1>4. CASE PowerCut
  BY <1>4 DEF PowerCut, Crash, Tracked
<1>5. CASE UNCHANGED vars
  <2>1. UNCHANGED <<walVars, pagerVars, dbVars, ghosts, bounds>>
    BY <1>5 DEF vars
  <2>2. WalTypeOK'
    BY <2>1, WalUnchanged DEF Inv, TypeOK
  <2> USE DEF walVars, pagerVars, dbVars, ghosts, bounds
  <2>3. TypeOK'
    BY <2>1, <2>2 DEF Inv, TypeOK
  <2>4. LogInv' /\ MapInv'
    BY <2>1 DEF Inv, LogInv, MapInv
  <2>5. CheckpointInv' /\ MetaInv'
    BY <2>1 DEF Inv, CheckpointInv, MetaInv, Mapped, InTransaction
  <2> QED
    BY <2>3, <2>4, <2>5 DEF Inv
<1> QED
  BY <1>1, <1>2, <1>3, <1>4, <1>5 DEF Next

\* The pager's maps, log and file agree in every reachable state, whatever the
\* moment a process dies at: the invariant the other theorems follow from.
THEOREM PagerInv == ASSUME "power" \notin Faults PROVE Spec => []Inv
<1>1. ~Tracked
  BY DEF Tracked
<1>2. Init => Inv
  BY <1>1, InitInv
<1>3. Inv /\ [Next]_vars => Inv'
  BY <1>1, NextInv
<1> QED
  BY <1>2, <1>3, PTL DEF Spec

\* Every variable keeps its type: page counts, slots and maps stay in range.
THEOREM PagerType == ASSUME "power" \notin Faults PROVE Spec => []TypeOK
<1>1. Inv => TypeOK
  BY DEF Inv
<1> QED
  BY <1>1, PagerInv, PTL

\* A log the scan finds empty leaves a file as long as its meta page says.
THEOREM PagerNeverShort == ASSUME "power" \notin Faults PROVE Spec => []NeverShort
<1>1. Inv => NeverShort
  BY ScanEndIsCommitEnd, InvUndoable, CommittedNone DEF NeverShort, Inv, MetaInv
<1> QED
  BY <1>1, PagerInv, PTL

\* A frame written where the log goes on is past every committed one.
LEMMA FramePastCommitted ==
    ASSUME Inv, NEW t \in Slots, t >= commitEnd, NEW f \in Frame, WriteFrame(t, f),
           NEW s \in 0..commitEnd-1
    PROVE  log'.frames[s] = log.frames[s]
<1>1. log'.frames = [log.frames EXCEPT ![t] = f]
  BY FrameWritten
<1>2. commitEnd \in 0..MaxSlots /\ log.frames \in [Slots -> Frame]
  BY DEF Inv, TypeOK, WalTypeOK, LogFile
<1>3. s \in Slots /\ s # t
  BY <1>2 DEF Slots
<1> QED
  BY <1>1, <1>2, <1>3

LEMMA CommittedFramesKept ==
    ASSUME ~Tracked, Inv, [Next]_vars, pc \notin {"reset", "finish"},
           NEW s \in 0..commitEnd-1
    PROVE  log'.frames[s] = log.frames[s]
<1> DEFINE Kept == log'.frames[s] = log.frames[s]
<1>1. /\ end \in 0..MaxSlots /\ commitEnd \in 0..MaxSlots /\ commitEnd <= end
      /\ \A q \in DOMAIN pending : pending[q] >= commitEnd
  <2>1. end \in 0..MaxSlots /\ commitEnd \in 0..MaxSlots /\ commitEnd <= end
    BY DEF Inv, TypeOK, WalTypeOK, MapInv
  <2> QED
    BY <2>1 DEF Inv, MapInv
<1>2. ASSUME NEW p \in 1..MaxPage, WritePage(p) PROVE Kept
  <2>1. /\ SlotFor(p) \in Slots /\ WriteFrame(SlotFor(p), FrameOf(p, FALSE, stamp'))
        /\ stamp' = stamp + 1 /\ stamp < MaxStamp
    BY <1>2 DEF WritePage, WalWrite
  <2>2. SlotFor(p) >= commitEnd
    BY <1>1 DEF SlotFor
  <2>3. stamp' \in 0..MaxStamp
    BY <2>1 DEF Inv, TypeOK
  <2>4. FrameOf(p, FALSE, stamp') \in Frame
    BY <2>3 DEF FrameOf, Frame, Inv, TypeOK, WalTypeOK, Contents, AllPages
  <2> QED
    BY <2>1, <2>2, <2>4, FramePastCommitted
<1>3. ASSUME NEW then \in Endings, Commit(then) PROVE Kept
  <2>1. end \in Slots /\ WriteFrame(end, FrameOf(0, TRUE, meta))
    BY <1>3 DEF Commit, WalCommit
  <2>2. FrameOf(0, TRUE, meta) \in Frame
    BY WalAssumption DEF FrameOf, Frame, Inv, TypeOK, WalTypeOK, Contents, AllPages
  <2> QED
    BY <1>1, <2>1, <2>2, FramePastCommitted
<1>4. CASE DieInLog
  <2>1. PICK t \in ({pending[p] : p \in DOMAIN pending} \cup {end}) \cap Slots :
            DieInWriteFrame(t)
    BY <1>4 DEF DieInLog
  <2>2. t >= commitEnd
    BY <1>1, <2>1
  <2>3. PICK torn \in BOOLEAN :
          log' = [hdr |-> IF headerOk THEN log.hdr ELSE generation,
                  frames |-> IF torn THEN [log.frames EXCEPT ![t] = Blank]
                             ELSE log.frames]
    BY <2>1 DEF DieInWriteFrame
  <2>4. \/ log'.frames = log.frames
        \/ log'.frames = [log.frames EXCEPT ![t] = Blank]
    BY <2>3
  <2>5. log.frames \in [Slots -> Frame] /\ s # t
    BY <1>1, <2>2 DEF Inv, TypeOK, WalTypeOK, LogFile
  <2>6. CASE log'.frames = log.frames
    BY <2>6
  <2>7. CASE log'.frames = [log.frames EXCEPT ![t] = Blank]
    BY <1>1, <2>5, <2>7 DEF Slots
  <2> QED
    BY <2>4, <2>6, <2>7
<1>5. CASE UNCHANGED log
  BY <1>5
<1>6. CASE Client
  BY <1>2, <1>3, <1>5, <1>6
  DEF Client, SetDurability, AllocatePage, Rollback, WalRollback, CallCheckpoint, walVars
<1>7. CASE Step
  BY <1>5, <1>7
  DEF WalSync, Step, CheckpointStart, CopyPage, GrowFile, FileSync, Reset, LogSync, FinishSync,
      FinishClose, walVars
<1>8. CASE Open \/ Die \/ DieInCopy
  BY <1>5, <1>8 DEF Open, WalOpen, Die, DieInCopy
<1>9. CASE PowerCut
  BY <1>9 DEF PowerCut, Crash, Tracked
<1>10. CASE UNCHANGED vars
  BY <1>5, <1>10 DEF vars, walVars
<1> QED
  BY <1>4, <1>6, <1>7, <1>8, <1>9, <1>10 DEF Next

\* Until a checkpoint has copied it, no step overwrites a committed frame.
THEOREM PagerCommittedFramesStable ==
    ASSUME "power" \notin Faults PROVE Spec => CommittedFramesStable
<1> DEFINE Kept == \A s \in 0..ScanEnd(log)-1 :
                      \/ log'.frames[s] = log.frames[s]
                      \/ pc \in {"reset", "finish"}
<1>1. ~Tracked
  BY DEF Tracked
<1>2. Inv /\ [Next]_vars => [Kept]_vars
  BY <1>1, ScanEndIsCommitEnd, InvUndoable, CommittedFramesKept
<1> QED
  BY <1>2, PagerInv, PTL DEF Spec, CommittedFramesStable
-----------------------------------------------------------------------------
(* The pager implements the atomic store.                                  *)

\* With no transaction open, what is read is what is committed.
LEMMA Outside == ASSUME Inv, ~InTransaction, pc # "down" PROVE Readings = Mapped
<1>1. pending = NoSlots /\ meta = Mapped[0]
  BY DEF InTransaction, Inv, TypeOK, MetaInv
<1>2. ASSUME NEW q \in AllPages PROVE Read(q) = Mapped[q]
  <2>1. q \notin DOMAIN pending
    BY <1>1 DEF NoSlots
  <2>2. q \notin DOMAIN committed /\ ~(q < db.len) => db.page[q] = 0
    BY DEF Inv, TypeOK, DbFile, MetaInv, AllPages
  <2> QED
    BY <1>1, <2>1, <2>2 DEF Read, Mapped, Holds, SlotOf, WalRead
<1> QED
  BY <1>2 DEF Readings, Mapped

LEMMA ViewOutside == Inv => /\ Stable = Mapped
                            /\ ~InTransaction => View = Mapped
  BY RecoveredIsMapped, InvUndoable, Outside DEF Stable, View

\* The same of the next state.
LEMMA ViewOutsideNext == Inv' => /\ Stable' = Mapped'
                                 /\ ~InTransaction' => View' = Mapped'
<1>1. (Inv => Stable = Mapped /\ (~InTransaction => View = Mapped))'
  BY ViewOutside, PTL
<1> QED
  BY <1>1

\* A checkpoint, a reset, a sync, a close and a recovery: the store does not move.
LEMMA QuietStep ==
    ASSUME Inv, Inv', Mapped' = Mapped, ~InTransaction, ~InTransaction'
    PROVE  UNCHANGED <<Stable, View>>
  BY ViewOutside, ViewOutsideNext

\* A rollback or a crash: the store aborts.
LEMMA AbortStep ==
    ASSUME Inv, Inv', Mapped' = Mapped, ~InTransaction'
    PROVE  Store!Abort
  BY ViewOutside, ViewOutsideNext DEF Store!Abort

LEMMA ReadingsTypeNext == Inv' => Readings' \in [AllPages -> Contents]
<1>1. (Inv => Readings \in [AllPages -> Contents])'
  BY ReadingsType, PTL
<1> QED
  BY <1>1

\* A page the transaction changes: no other is read differently.
LEMMA WriteStep ==
    ASSUME Inv, Inv', Mapped' = Mapped, pc # "down", pc' # "down",
           NEW p \in AllPages, \A q \in AllPages \ {p} : Readings'[q] = Readings[q]
    PROVE  Store!Write(p)
<1>1. Stable' = Stable
  BY ViewOutside, ViewOutsideNext
<1>2. View = Readings /\ View' = Readings'
  BY DEF View
<1> QED
  BY <1>1, <1>2, ReadingsTypeNext DEF Store!Write

\* What the client does is a step of the store, or none.
LEMMA ClientSimulates ==
    ASSUME ~Tracked, Inv, Inv', Client
    PROVE  Store!Next \/ UNCHANGED <<Stable, View>>
<1> USE DEF walVars, dbVars, ghosts, bounds
<1>1. ASSUME NEW d \in Durabilities, SetDurability(d) PROVE UNCHANGED <<Stable, View>>
  BY <1>1 DEF SetDurability, Stable, View, Recovered, FramesOn, ScanEnd, CommitEnds,
              Readable, Readings, Read, Holds, SlotOf, WalRead
<1>2. ASSUME NEW p \in 1..MaxPage, WritePage(p) PROVE Store!Next
  <2>1. pc # "down" /\ pc' # "down" /\ p \in AllPages
    BY <1>2 DEF WritePage, pagerVars, AllPages
  <2>2. /\ Mapped' = Mapped
        /\ \A q \in AllPages \ {p} : Readings'[q] = Readings[q]
    BY <1>2, WritePageInv
  <2> QED
    BY <2>1, <2>2, WriteStep DEF Store!Next
<1>3. ASSUME AllocatePage PROVE Store!Next
  <2>1. pc # "down" /\ pc' # "down" /\ 0 \in AllPages
    BY <1>3, WalAssumption DEF AllocatePage, AllPages
  <2>2. Mapped' = Mapped
    BY <1>3 DEF AllocatePage, Mapped
  <2>3. \A q \in AllPages \ {0} : Readings'[q] = Readings[q]
    BY <1>3 DEF AllocatePage, Readings, Read, Holds, SlotOf, WalRead
  <2> QED
    BY <2>1, <2>2, <2>3, WriteStep DEF Store!Next
<1>4. ASSUME Rollback PROVE Store!Next
  <2>1. Mapped' = Mapped /\ ~InTransaction'
    BY <1>4 DEF Rollback, WalRollback, Mapped, InTransaction
  <2> QED
    BY <2>1, AbortStep DEF Store!Next
<1>5. ASSUME NEW then \in Endings, Commit(then) PROVE Store!Next
  <2>1. Mapped' = Readings
    BY <1>5, CommitInv
  <2>2. View = Readings
    BY <1>5 DEF View, Commit
  <2>3. ~InTransaction'
    BY <1>5 DEF Commit, WalCommit, InTransaction
  <2> QED
    BY <2>1, <2>2, <2>3, ViewOutsideNext DEF Store!Commit, Store!Next
<1>6. ASSUME NEW then \in Endings, CallCheckpoint(then) PROVE UNCHANGED <<Stable, View>>
  <2>1. Mapped' = Mapped /\ ~InTransaction /\ ~InTransaction'
    BY <1>6 DEF CallCheckpoint, Mapped, InTransaction
  <2> QED
    BY <2>1, QuietStep
<1> QED
  BY <1>1, <1>2, <1>3, <1>4, <1>5, <1>6 DEF Client

\* Checkpoints, syncs, resets, closes and recoveries leave the store alone.
LEMMA StepSimulates ==
    ASSUME ~Tracked, Inv, Inv', Open \/ Step
    PROVE  UNCHANGED <<Stable, View>>
<1> USE DEF dbVars, ghosts, bounds
<1>1. ~InTransaction
  BY DEF Open, Step, Inv, CheckpointInv, CheckpointStart, CopyPage, GrowFile, FileSync, Reset,
         LogSync, FinishSync, FinishClose
<1>2. CASE LogSync \/ CheckpointStart \/ FileSync \/ FinishSync
  <2>1. UNCHANGED logVars /\ UNCHANGED <<db, metaDirty>>
    BY <1>2, WalSyncQuiet
    DEF LogSync, CheckpointStart, FileSync, FinishSync, Inv, TypeOK
  <2>2. Mapped' = Mapped /\ ~InTransaction'
    BY <1>1, <2>1 DEF Mapped, InTransaction, logVars
  <2> QED
    BY <1>1, <2>2, QuietStep
<1>3. CASE CopyPage \/ GrowFile
  <2>1. ~InTransaction'
    BY <1>1, <1>3 DEF CopyPage, GrowFile, InTransaction, walVars
  <2> QED
    BY <1>1, <1>3, <2>1, CopyPageInv, GrowFileInv, QuietStep
<1>4. CASE Reset \/ FinishClose
  <2>1. ~InTransaction'
    BY <1>1, <1>4 DEF Reset, WalReset, FinishClose, WalTruncate, InTransaction
  <2> QED
    BY <1>1, <1>4, <2>1, ResetInv, FinishCloseInv, QuietStep
<1>5. CASE Open
  <2>1. ~InTransaction'
    BY <1>5 DEF Open, WalOpen, InTransaction
  <2> QED
    BY <1>1, <1>5, <2>1, OpenInv, QuietStep
<1> QED
  BY <1>2, <1>3, <1>4, <1>5 DEF Step

LEMMA CrashSimulates ==
    ASSUME ~Tracked, Inv, Inv', Die \/ DieInLog \/ DieInCopy
    PROVE  Store!Abort
<1>1. ~InTransaction'
  BY DEF Die, DieInLog, DieInCopy, DieInWriteFrame, Crash, WalForget, InTransaction
<1>2. Die => Mapped' = Mapped
  BY DEF Die, WalForget, Mapped, dbVars
<1> QED
  BY <1>1, <1>2, DieInLogInv, DieInCopyInv, InvUndoable, AbortStep

\* A restart finds the committed transactions, all of each and nothing else,
\* and the client reads its own changes on top of them, at every moment a
\* process may be killed: the pager implements AtomicStore (pager.hpp:9-17).
THEOREM PagerImplementsAtomicStore ==
    ASSUME "power" \notin Faults PROVE Spec => ImplementsAtomicStore
<1>1. ~Tracked
  BY DEF Tracked
<1>2. Init => Store!Init
  <2> SUFFICES ASSUME Init PROVE Store!Init
    OBVIOUS
  <2>1. Inv /\ pc = "down" /\ ~InTransaction
    BY <1>1, InitInv DEF Init, InTransaction
  <2>2. Stable = db.page
    BY <2>1, ViewOutside DEF Mapped, Init, NoSlots, Inv, TypeOK, DbFile
  <2>3. View = Stable
    BY <2>1 DEF View
  <2> QED
    BY <2>1, <2>2, <2>3 DEF Store!Init, Inv, TypeOK, DbFile
<1>3. Inv /\ Inv' /\ [Next]_vars => [Store!Next]_<<Stable, View>>
  <2> SUFFICES ASSUME Inv, Inv', [Next]_vars
               PROVE  Store!Next \/ UNCHANGED <<Stable, View>>
    OBVIOUS
  <2>1. CASE Open \/ Step
    BY <1>1, <2>1, StepSimulates
  <2>2. CASE Client
    BY <1>1, <2>2, ClientSimulates
  <2>3. CASE Die \/ DieInLog \/ DieInCopy
    BY <1>1, <2>3, CrashSimulates DEF Store!Next
  <2>4. CASE PowerCut
    BY <2>4 DEF PowerCut, Crash
  <2>5. CASE UNCHANGED vars
    BY <2>5 DEF vars, walVars, pagerVars, dbVars, Stable, View, Recovered, FramesOn, ScanEnd,
                CommitEnds, Readable, Readings, Read, Holds, SlotOf, WalRead
  <2> QED
    BY <2>1, <2>2, <2>3, <2>4, <2>5 DEF Next
<1> QED
  BY <1>2, <1>3, PagerInv, PTL DEF Spec, ImplementsAtomicStore, Store!Spec
-----------------------------------------------------------------------------
(***************************************************************************)
(* Power cuts: a disk may lose every write since its last fsync, as long   *)
(* as it loses the last of them first.  What follows holds for every       *)
(* number of pages, slots, writes and power cuts.                          *)
(***************************************************************************)

\* What the promises of the pager rest on.  The process does not die on its
\* own (the checkpoint of the recovery would copy frames nobody synced), the
\* disk keeps the order of the log's writes, the fsyncs are done (not kOff),
\* and the mode is not tightened after commits it let go unsynced.
PowerAssumption ==
    /\ "process" \notin Faults
    /\ ~Reorders
    /\ "off" \notin Durabilities
    /\ "normal" \in Durabilities => "full" \notin Durabilities
-----------------------------------------------------------------------------
(* The invariant.                                                          *)

\* An image of the log that recovery can read: no frame is of a generation
\* to come, and no commit past the scan's end could end another transaction.
Whole(lg, newest) ==
    /\ lg.hdr <= newest
    /\ \A s \in Slots :
          /\ lg.frames[s].commit => lg.frames[s].page = 0
          /\ lg.frames[s].gen <= IF lg.hdr = NoGen THEN newest ELSE lg.hdr
          /\ lg.hdr # NoGen /\ s >= ScanEnd(lg) /\ lg.frames[s].commit
                => lg.frames[s].gen # lg.hdr

\* The frames that differ from one image to the next are past the commits.
Follows(lg, next) ==
    \A s \in Slots : lg.frames[s] # next.frames[s] => s >= ScanEnd(lg)

\* The images of the log since its last fsync, oldest first.
Chain(images, newest) ==
    /\ Len(images) > 0
    /\ \A k \in DOMAIN images : Whole(images[k], newest)
    /\ \A k \in DOMAIN images : k < Len(images) => Follows(images[k], images[k+1])

\* What recovery makes of an image is a state committed and not before those
\* promised, and the check of the file's length passes.
Lasting(lg, d, states, first) ==
    /\ ScanEnd(lg) = 0 => d.len >= d.page[0]
    /\ \E j \in first..Len(states) : Recovered(lg, d) = states[j]

\* An image that holds the first e frames of the log and commits nothing else.
Same(lg, l, e) == /\ ScanEnd(lg) = e
                  /\ lg.hdr = l.hdr
                  /\ \A s \in 0..e-1 : lg.frames[s] = l.frames[s]

\* The file is being changed: the disk may hold any version of a page copied.
Copying == pc \in {"copy", "fileSync"}

ImagesInv == /\ Chain(written, lastGen)
             /\ written[Len(written)] = log
             /\ pc = "down" => log = EmptyLog \/ written = <<log>>

FileInv ==
    /\ \A p \in AllPages : p >= db.len => db.page[p] = 0
    /\ ~Copying => dbDisk = Settled(db)
    /\ Copying => /\ committed # NoSlots
                  /\ \A p \in AllPages \ DOMAIN committed :
                        /\ dbDisk.page[p] = {db.page[p]}
                        /\ \A n \in dbDisk.len : p >= n => db.page[p] = 0

HistoryInv == /\ promised \in DOMAIN history
              /\ \A j \in DOMAIN history : history[j][0] \in 1..MaxPage+1
              /\ history[Len(history)] = Stable

\* While the file is quiet, any image of the log would do.
LastingInv == ~Copying => \A k \in DOMAIN written :
                             Lasting(written[k], db, history, promised)

\* While it is not, and between the commits of kFull, every image holds them.
SyncedInv == \/ Copying
             \/ durability = "full" /\ committed # NoSlots /\ pc \notin {"logSync", "down"}
             => \A k \in DOMAIN written : Same(written[k], log, commitEnd)

ModeInv == durability \in Durabilities \cup {"full"}

DiskInv == ImagesInv /\ FileInv /\ HistoryInv /\ LastingInv /\ SyncedInv /\ ModeInv

\* The inductive invariant of the pager when power cuts happen.  A process
\* that is down remembers nothing the disk has to agree with.
PowerInv == TypeOK /\ (pc # "down" => Inv) /\ DiskInv
-----------------------------------------------------------------------------
(* What a scan finds.                                                      *)

LEMMA ScanEndIn ==
    ASSUME NEW lg
    PROVE  /\ ScanEnd(lg) \in 0..MaxSlots
           /\ ScanEnd(lg) > 0 => ScanEnd(lg) \in CommitEnds(lg)
           /\ \A n \in CommitEnds(lg) : n <= ScanEnd(lg)
<1> DEFINE S == CommitEnds(lg) \cup {0}
<1>1. S \in SUBSET (0..MaxSlots) /\ S # {}
  BY DEF CommitEnds
<1> HIDE DEF S
<1>2. Max(S) \in S /\ \A x \in S : x <= Max(S)
  BY <1>1, MaxIn
<1> QED
  BY <1>1, <1>2 DEF S, ScanEnd

\* Two images with the same commits recover alike.
LEMMA SameRecovers ==
    ASSUME NEW lg, NEW l, NEW d, Same(lg, l, ScanEnd(l))
    PROVE  Recovered(lg, d) = Recovered(l, d)
<1>1. ScanEnd(l) \in 0..MaxSlots
  BY ScanEndIn
<1>2. ASSUME NEW p \in AllPages PROVE FramesOn(lg, p) = FramesOn(l, p)
  BY DEF FramesOn, Same
<1>3. ASSUME NEW p \in AllPages, FramesOn(lg, p) # {}
      PROVE  lg.frames[Max(FramesOn(lg, p))].val = l.frames[Max(FramesOn(lg, p))].val
  <2>1. FramesOn(lg, p) \in SUBSET (0..ScanEnd(l)-1)
    BY DEF FramesOn, Same
  <2>2. Max(FramesOn(lg, p)) \in FramesOn(lg, p)
    <3> DEFINE on == FramesOn(lg, p)
               n == ScanEnd(l) - 1
    <3>1. on \in SUBSET (0..n) /\ n \in Int /\ on # {}
      BY <1>1, <1>3, <2>1
    <3> HIDE DEF on, n
    <3>2. Max(on) \in on
      BY <3>1, MaxIn
    <3> QED
      BY <3>2 DEF on
  <2> QED
    BY <2>1, <2>2 DEF Same
<1> QED
  BY <1>2, <1>3 DEF Recovered

\* A log without a commit adds nothing to the file.
LEMMA EmptyRecovers ==
    ASSUME NEW lg, ScanEnd(lg) = 0, NEW d \in DbFile
    PROVE  Recovered(lg, d) = d.page
<1>1. \A p \in AllPages : FramesOn(lg, p) = {}
  BY DEF FramesOn
<1> QED
  BY <1>1 DEF Recovered, DbFile

LEMMA EmptyLogIs ==
    /\ EmptyLog \in LogFile /\ ScanEnd(EmptyLog) = 0
    /\ \A newest \in Nat : Whole(EmptyLog, newest)
<1>1. EmptyLog \in LogFile
  BY DEF EmptyLog, LogFile, Blank, Frame, AllPages, Contents, NoGen
<1>2. CommitEnds(EmptyLog) = {}
  BY DEF CommitEnds, Readable, EmptyLog
<1>3. ScanEnd(EmptyLog) = 0
  BY <1>2, ScanEndIn
<1> QED
  BY <1>1, <1>3 DEF Whole, EmptyLog, Blank, NoGen

\* A frame past the commits may be torn: the image keeps what it commits.
LEMMA TornImage ==
    ASSUME NEW lg \in LogFile, NEW newest \in Nat, Whole(lg, newest),
           NEW t \in Slots, t >= ScanEnd(lg)
    PROVE  LET torn == [lg EXCEPT !.frames[t] = Blank]
           IN  torn \in LogFile /\ Whole(torn, newest) /\ Same(torn, lg, ScanEnd(lg))
<1> DEFINE torn == [lg EXCEPT !.frames[t] = Blank]
           e == ScanEnd(lg)
<1>1. Blank \in Frame
  BY DEF Blank, Frame, AllPages, Contents, NoGen
<1>2. /\ torn \in LogFile /\ torn.hdr = lg.hdr
      /\ torn.frames = [lg.frames EXCEPT ![t] = Blank]
      /\ lg.frames \in [Slots -> Frame] /\ lg.hdr \in Nat
  BY <1>1 DEF LogFile
<1> HIDE DEF torn
<1>3. e \in 0..MaxSlots /\ \A n \in CommitEnds(lg) : n <= e
  BY ScanEndIn
<1>30. e > 0 => e \in CommitEnds(lg)
  BY ScanEndIn
<1> HIDE DEF e
<1>4. \A s \in Slots : s # t => torn.frames[s] = lg.frames[s]
  BY <1>2
<1>5. torn.frames[t] = Blank
  BY <1>2
<1>6. \A s \in 0..e-1 : s \in Slots /\ torn.frames[s] = lg.frames[s]
  <2>1. \A s \in 0..e-1 : s \in Slots /\ s # t
    BY <1>3 DEF e, Slots
  <2> QED
    BY <1>4, <2>1
<1>7. ASSUME NEW n \in CommitEnds(torn) PROVE n \in CommitEnds(lg)
  <2>1. /\ n \in 1..MaxSlots /\ lg.hdr # NoGen
        /\ \A s \in 0..n-1 : torn.frames[s].gen = lg.hdr
        /\ torn.frames[n-1].commit
    BY <1>2, <1>7 DEF CommitEnds, Readable
  <2>2. ~(t \in 0..n-1)
    BY <1>5, <2>1 DEF Blank
  <2>3. \A s \in 0..n-1 : s \in Slots /\ s # t
    BY <2>1, <2>2 DEF Slots
  <2>4. \A s \in 0..n-1 : torn.frames[s] = lg.frames[s]
    BY <1>4, <2>3
  <2>5. n-1 \in 0..n-1
    BY <2>1
  <2> QED
    BY <2>1, <2>4, <2>5 DEF CommitEnds, Readable
<1>8. e > 0 => e \in CommitEnds(torn)
  <2> SUFFICES ASSUME e > 0 PROVE e \in CommitEnds(torn)
    OBVIOUS
  <2>1. /\ e \in 1..MaxSlots /\ lg.hdr # NoGen /\ lg.frames[e-1].commit
        /\ \A s \in 0..e-1 : lg.frames[s].gen = lg.hdr
    BY <1>30 DEF CommitEnds, Readable
  <2>2. e-1 \in 0..e-1
    BY <2>1
  <2> QED
    BY <1>2, <1>6, <2>1, <2>2 DEF CommitEnds, Readable
<1>9. ScanEnd(torn) = e
  <2> DEFINE x == ScanEnd(torn)
  <2>1. /\ x > 0 => x \in CommitEnds(torn)
        /\ \A n \in CommitEnds(torn) : n <= x
    BY ScanEndIn
  <2>2. x \in 0..MaxSlots
    BY ScanEndIn
  <2> HIDE DEF x
  <2>3. x <= e
    BY <1>3, <1>7, <2>1, <2>2
  <2>4. e <= x
    BY <1>3, <1>8, <2>1, <2>2
  <2>5. x = e
    BY <1>3, <2>2, <2>3, <2>4
  <2> QED
    BY <2>5 DEF x
<1>10. Whole(torn, newest)
  <2>1. \A s \in Slots :
          /\ torn.frames[s].commit => torn.frames[s].page = 0
          /\ torn.frames[s].gen <= IF lg.hdr = NoGen THEN newest ELSE lg.hdr
          /\ lg.hdr # NoGen /\ s >= e /\ torn.frames[s].commit => torn.frames[s].gen # lg.hdr
    <3> TAKE s \in Slots
    <3>1. CASE s = t
      <4>1. /\ torn.frames[s].commit = FALSE /\ torn.frames[s].gen = 0
            /\ torn.frames[s].page = 0
        BY <1>5, <3>1 DEF Blank, NoGen
      <4>2. 0 <= IF lg.hdr = NoGen THEN newest ELSE lg.hdr
        BY <1>2
      <4> QED
        BY <4>1, <4>2
    <3>2. CASE s # t
      BY <1>4, <3>2 DEF Whole, e
    <3> QED
      BY <3>1, <3>2
  <2> QED
    BY <1>2, <1>9, <2>1 DEF Whole
<1>11. Same(torn, lg, e)
  BY <1>2, <1>6, <1>9 DEF Same
<1> QED
  BY <1>2, <1>10, <1>11 DEF torn, e
-----------------------------------------------------------------------------
(* The images of the log, as the writes to it add to them.                 *)

LEMMA Newer ==
    ASSUME NEW lg \in LogFile, NEW g \in Nat, NEW h \in Nat, g <= h, Whole(lg, g)
    PROVE  Whole(lg, h)
<1>1. lg.hdr \in Nat /\ \A s \in Slots : lg.frames[s].gen \in Nat
  BY DEF LogFile, Frame
<1>2. lg.hdr <= h
  BY <1>1 DEF Whole
<1>3. \A s \in Slots : lg.frames[s].gen <= IF lg.hdr = NoGen THEN h ELSE lg.hdr
  BY <1>1 DEF Whole
<1> QED
  BY <1>2, <1>3 DEF Whole

LEMMA ChainOne ==
    ASSUME NEW lg, NEW g, Whole(lg, g)
    PROVE  Chain(<<lg>>, g)
  BY DEF Chain

LEMMA ChainNewer ==
    ASSUME NEW images \in Seq(LogFile), NEW g \in Nat, NEW h \in Nat, g <= h,
           Chain(images, g)
    PROVE  Chain(images, h)
<1>1. \A k \in DOMAIN images : Whole(images[k], h)
  BY Newer DEF Chain
<1> QED
  BY <1>1 DEF Chain

LEMMA ChainAppend ==
    ASSUME NEW images \in Seq(LogFile), NEW g, Chain(images, g),
           NEW lg \in LogFile, Whole(lg, g), Follows(images[Len(images)], lg)
    PROVE  Chain(Append(images, lg), g)
<1> DEFINE longer == Append(images, lg)
<1>1. /\ Len(longer) = Len(images) + 1 /\ longer[Len(longer)] = lg
      /\ \A k \in DOMAIN images : longer[k] = images[k]
      /\ DOMAIN longer = DOMAIN images \cup {Len(longer)}
      /\ Len(images) \in Nat /\ DOMAIN images = 1..Len(images)
  OBVIOUS
<1> HIDE DEF longer
<1>0. Len(images) > 0
  BY DEF Chain
<1>2. \A k \in DOMAIN longer : Whole(longer[k], g)
  BY <1>1 DEF Chain
<1>3. ASSUME NEW k \in DOMAIN longer, k < Len(longer) PROVE Follows(longer[k], longer[k+1])
  <2>1. CASE k = Len(images)
    <3>0. Len(longer) = Len(images) + 1 /\ Len(images) \in Nat /\ DOMAIN images = 1..Len(images)
      BY <1>1
    <3>1. k+1 = Len(longer) /\ k \in DOMAIN images
      BY <1>0, <2>1, <3>0
    <3>2. longer[k] = images[Len(images)] /\ longer[k+1] = lg
      BY <1>1, <2>1, <3>1
    <3> QED
      BY <3>2
  <2>2. CASE k < Len(images)
    <3>1. k \in DOMAIN images /\ k+1 \in DOMAIN images
      BY <1>1, <1>3, <2>2
    <3>2. longer[k] = images[k] /\ longer[k+1] = images[k+1]
      BY <1>1, <3>1
    <3> QED
      BY <2>2, <3>1, <3>2 DEF Chain
  <2> QED
    BY <1>1, <1>3, <2>1, <2>2
<1>4. Len(longer) > 0
  BY <1>1
<1>5. Chain(longer, g)
  BY <1>2, <1>3, <1>4 DEF Chain
<1> QED
  BY <1>5 DEF longer

\* What the images of a longer list are.
LEMMA ImagesOfAppend ==
    ASSUME NEW images \in Seq(LogFile), NEW lg
    PROVE  /\ \A k \in DOMAIN Append(images, lg) :
                 \/ Append(images, lg)[k] = lg
                 \/ k \in DOMAIN images /\ Append(images, lg)[k] = images[k]
           /\ Append(images, lg)[Len(Append(images, lg))] = lg
  OBVIOUS

\* The log of a running pager is such an image: it holds the frames committed.
LEMMA LogIsWhole == Inv => /\ Whole(log, lastGen)
                           /\ ScanEnd(log) = commitEnd
                           /\ Stable = Mapped
                           /\ committed = NoSlots => commitEnd = 0
                           /\ committed # NoSlots => commitEnd > 0
<1> SUFFICES ASSUME Inv PROVE /\ Whole(log, lastGen) /\ ScanEnd(log) = commitEnd
                              /\ Stable = Mapped
                              /\ committed = NoSlots => commitEnd = 0
                              /\ committed # NoSlots => commitEnd > 0
  OBVIOUS
<1>1. ScanEnd(log) = commitEnd
  BY ScanEndIsCommitEnd, InvUndoable
<1>2. Stable = Mapped
  BY RecoveredIsMapped, InvUndoable DEF Stable
<1>3. /\ generation \in Nat /\ lastGen \in Nat /\ generation <= lastGen
      /\ log.hdr \in Nat /\ commitEnd \in 0..MaxSlots
      /\ \A s \in Slots : log.frames[s].gen \in Nat
  BY DEF Inv, TypeOK, WalTypeOK, LogInv, LogFile, Frame
<1>4. log.hdr = NoGen \/ log.hdr = generation
  BY DEF Inv, LogInv
<1>5. \A s \in Slots : log.frames[s].gen <= IF log.hdr = NoGen THEN lastGen ELSE log.hdr
  BY <1>3, <1>4 DEF Inv, LogInv
<1>6. \A s \in Slots : /\ log.frames[s].commit => log.frames[s].page = 0
                       /\ log.hdr # NoGen /\ s >= commitEnd /\ log.frames[s].commit
                            => log.frames[s].gen # log.hdr
  BY <1>4 DEF Inv, LogInv
<1>7. Whole(log, lastGen)
  <2>1. log.hdr <= lastGen
    BY <1>3, <1>4 DEF NoGen
  <2> QED
    BY <1>1, <1>5, <1>6, <2>1 DEF Whole
<1>8. ASSUME committed = NoSlots, commitEnd # 0 PROVE FALSE
  <2>1. 0 \in Slots /\ 0 < commitEnd
    BY <1>3, <1>8 DEF Slots
  <2>2. log.frames[0].page \in DOMAIN committed
    BY <2>1 DEF Inv, MapInv
  <2> QED
    BY <1>8, <2>2 DEF NoSlots
<1>9. committed # NoSlots => commitEnd > 0
  BY CommittedMeta
<1> QED
  BY <1>1, <1>2, <1>7, <1>8, <1>9

LEMMA LogIsWholeNext == Inv' => /\ Whole(log', lastGen')
                                /\ ScanEnd(log') = commitEnd'
                                /\ Stable' = Mapped'
                                /\ committed' = NoSlots => commitEnd' = 0
                                /\ committed' # NoSlots => commitEnd' > 0
<1>1. (Inv => /\ Whole(log, lastGen)
              /\ ScanEnd(log) = commitEnd
              /\ Stable = Mapped
              /\ committed = NoSlots => commitEnd = 0
              /\ committed # NoSlots => commitEnd > 0)'
  BY LogIsWhole, PTL
<1> QED
  BY <1>1 DEF Stable
-----------------------------------------------------------------------------
(* Starting.                                                               *)

LEMMA InitDisk == ASSUME Tracked, Init PROVE PowerInv
<1> USE DEF Init
<1>1. Inv
  BY InitInv
<1>2. /\ log = EmptyLog /\ written = <<log>> /\ history = <<db.page>> /\ promised = 1
      /\ lastGen = 0 /\ pc = "down" /\ dbDisk = Settled(db) /\ durability = "full"
  OBVIOUS
<1>3. db.page[0] = db.len /\ db.len \in 1..MaxPage+1
  BY DEF AllPages
<1> HIDE DEF Init
<1>4. ImagesInv
  BY <1>2, ChainOne, EmptyLogIs DEF ImagesInv
<1>5. FileInv
  BY <1>1, <1>2 DEF FileInv, Copying, Inv, MetaInv
<1>6. Stable = db.page
  BY <1>1, <1>2, EmptyLogIs, EmptyRecovers DEF Stable, Inv, TypeOK
<1>7. HistoryInv
  BY <1>2, <1>3, <1>6 DEF HistoryInv
<1>8. LastingInv
  BY <1>2, <1>3, <1>6 DEF LastingInv, Lasting, Stable
<1>9. SyncedInv /\ ModeInv
  BY <1>2 DEF SyncedInv, ModeInv, Copying
<1> QED
  BY <1>1, <1>4, <1>5, <1>7, <1>8, <1>9 DEF PowerInv, DiskInv, Inv

\* The map a scan makes names the frames before its end, the last of each page.
LEMMA ScanMapIs ==
    ASSUME NEW lg \in LogFile
    PROVE  /\ IsSlotMap(ScanMap(lg))
           /\ \A p \in DOMAIN ScanMap(lg) :
                 /\ ScanMap(lg)[p] \in 0..ScanEnd(lg)-1
                 /\ lg.frames[ScanMap(lg)[p]].page = p
           /\ \A s \in Slots : s < ScanEnd(lg) =>
                 /\ lg.frames[s].page \in DOMAIN ScanMap(lg)
                 /\ s <= ScanMap(lg)[lg.frames[s].page]
           /\ \A p \in AllPages : p \in DOMAIN ScanMap(lg) <=> FramesOn(lg, p) # {}
           /\ \A p \in DOMAIN ScanMap(lg) : ScanMap(lg)[p] = Max(FramesOn(lg, p))
<1>1. ScanEnd(lg) \in 0..MaxSlots
  BY ScanEndIn
<1>2. ASSUME NEW p \in AllPages, FramesOn(lg, p) # {}
      PROVE  /\ Max(FramesOn(lg, p)) \in FramesOn(lg, p)
             /\ \A s \in FramesOn(lg, p) : s <= Max(FramesOn(lg, p))
  <2> DEFINE on == FramesOn(lg, p)
             n == ScanEnd(lg) - 1
  <2>1. on \in SUBSET (0..n) /\ n \in Int /\ on # {}
    BY <1>1, <1>2 DEF FramesOn
  <2> HIDE DEF on, n
  <2>2. Max(on) \in on /\ \A s \in on : s <= Max(on)
    BY <2>1, MaxIn
  <2> QED
    BY <2>2 DEF on
<1>3. /\ DOMAIN ScanMap(lg) = {q \in AllPages : FramesOn(lg, q) # {}}
      /\ \A p \in DOMAIN ScanMap(lg) : ScanMap(lg)[p] = Max(FramesOn(lg, p))
  BY DEF ScanMap
<1>4. \A p \in DOMAIN ScanMap(lg) : ScanMap(lg)[p] \in FramesOn(lg, p)
  BY <1>2, <1>3
<1>5. \A p \in AllPages : \A s \in FramesOn(lg, p) : s \in 0..ScanEnd(lg)-1
                                                      /\ s \in Slots /\ lg.frames[s].page = p
  BY <1>1 DEF FramesOn, Slots
<1>6. IsSlotMap(ScanMap(lg))
  <2>1. ScanMap(lg) = [p \in DOMAIN ScanMap(lg) |-> ScanMap(lg)[p]]
    BY DEF ScanMap
  <2>2. \A p \in DOMAIN ScanMap(lg) : ScanMap(lg)[p] \in Slots
    BY <1>3, <1>4, <1>5
  <2> QED
    BY <1>3, <2>1, <2>2 DEF IsSlotMap
<1>7. ASSUME NEW s \in Slots, s < ScanEnd(lg)
      PROVE  /\ lg.frames[s].page \in DOMAIN ScanMap(lg)
             /\ s <= ScanMap(lg)[lg.frames[s].page]
  <2> DEFINE p == lg.frames[s].page
  <2>1. p \in AllPages
    BY DEF LogFile, Frame
  <2>2. s \in FramesOn(lg, p)
    BY <1>1, <1>7 DEF FramesOn, Slots
  <2> HIDE DEF p
  <2>3. p \in DOMAIN ScanMap(lg) /\ s <= ScanMap(lg)[p]
    BY <1>2, <1>3, <2>1, <2>2
  <2> QED
    BY <2>3 DEF p
<1> QED
  BY <1>3, <1>4, <1>5, <1>6, <1>7

\* What a start finds is what recovery makes of the two files.
LEMMA OpenedMaps ==
    ASSUME TypeOK, Open
    PROVE  /\ pc = "down" /\ pc' # "down" /\ ~Copying'
           /\ committed' = ScanMap(log) /\ commitEnd' = ScanEnd(log)
           /\ end' = ScanEnd(log) /\ pending' = NoSlots
           /\ Mapped' = Recovered(log, db)
           /\ UNCHANGED <<log, written, db, dbDisk, history, promised>>
           /\ durability' = "full"
<1>1. /\ pc = "down" /\ committed' = ScanMap(log) /\ commitEnd' = ScanEnd(log)
      /\ end' = ScanEnd(log) /\ pending' = NoSlots
      /\ UNCHANGED <<log, written, db, dbDisk, history, promised>>
      /\ durability' = "full" /\ pc' \in {"checkpoint", "reset", "idle"}
  BY DEF Open, WalOpen, dbVars, ghosts
<1>2. log \in LogFile
  BY DEF TypeOK, WalTypeOK
<1>3. Mapped' = Recovered(log, db)
  BY <1>1, <1>2, ScanMapIs DEF Mapped, Recovered
<1> QED
  BY <1>1, <1>3 DEF Copying

LEMMA OpenedLog ==
    ASSUME TypeOK, Whole(log, lastGen), Open
    PROVE  /\ LogInv' /\ generation' \in Nat /\ lastGen' \in Nat /\ lastGen <= lastGen'
           /\ headerOk' \in BOOLEAN
<1> DEFINE gen == IF log.hdr = NoGen THEN FreshGeneration ELSE log.hdr
<1>1. /\ generation' = gen /\ lastGen' = Max({lastGen, gen})
      /\ headerOk' = (log.hdr # NoGen)
      /\ end' = ScanEnd(log) /\ commitEnd' = ScanEnd(log) /\ log' = log
  BY DEF Open, WalOpen
<1>2. /\ log.hdr \in Nat /\ lastGen \in Nat
      /\ \A s \in Slots : log.frames[s].gen \in Nat
  BY DEF TypeOK, WalTypeOK, LogFile, Frame
<1>3. FreshGeneration \in Nat /\ FreshGeneration > lastGen
  BY <1>2, FreshIsNew
<1>4. /\ gen \in Nat /\ gen > 0
      /\ log.hdr # NoGen => gen = log.hdr
      /\ log.hdr = NoGen => gen > lastGen
  BY <1>2, <1>3 DEF NoGen
<1> HIDE DEF gen
<1>5. lastGen' \in Nat /\ lastGen <= lastGen' /\ gen <= lastGen'
  BY <1>1, <1>2, <1>4, MaxOfTwo
<1>6. /\ ScanEnd(log) \in 0..MaxSlots
      /\ ScanEnd(log) > 0 => ScanEnd(log) \in CommitEnds(log)
  BY ScanEndIn
<1>7. ScanEnd(log) > 0 => /\ log.hdr # NoGen /\ log.frames[ScanEnd(log)-1].commit
                          /\ \A s \in 0..ScanEnd(log)-1 : log.frames[s].gen = log.hdr
  BY <1>6 DEF CommitEnds, Readable
<1>8. \A s \in Slots : /\ log.frames[s].gen <= gen
                       /\ log.frames[s].commit => log.frames[s].page = 0
                       /\ s < ScanEnd(log) => log.frames[s].gen = gen
                       /\ s >= ScanEnd(log) /\ log.frames[s].commit
                            => log.frames[s].gen # gen
  <2> TAKE s \in Slots
  <2>1. s \in Nat
    BY DEF Slots
  <2>2. s < ScanEnd(log) => log.hdr # NoGen /\ log.frames[s].gen = log.hdr
    BY <1>6, <1>7, <2>1
  <2>3. CASE log.hdr = NoGen
    BY <1>2, <1>4, <2>2, <2>3 DEF Whole
  <2>4. CASE log.hdr # NoGen
    BY <1>2, <1>4, <2>2, <2>4 DEF Whole
  <2> QED
    BY <2>3, <2>4
<1>9. LogInv!1'
  <2>1. CASE log.hdr = NoGen
    BY <1>1, <2>1, Zenon
  <2>2. CASE log.hdr # NoGen
    BY <1>1, <1>4, <2>2, Zenon
  <2> QED
    BY <2>1, <2>2
<1>10. commitEnd' > 0 => headerOk' /\ log'.frames[commitEnd'-1].commit
  BY <1>1, <1>7, Zenon
<1>11. LogInv'
  BY <1>1, <1>4, <1>5, <1>8, <1>9, <1>10 DEF LogInv
<1>12. headerOk' \in BOOLEAN
  BY <1>1
<1> QED
  BY <1>1, <1>4, <1>5, <1>11, <1>12

\* Recovery builds the invariant from nothing but the two files.
LEMMA OpenedInv ==
    ASSUME TypeOK, DiskInv, Open
    PROVE  Inv' /\ Mapped' = Stable /\ lastGen <= lastGen'
<1>1. /\ pc = "down" /\ committed' = ScanMap(log) /\ commitEnd' = ScanEnd(log)
      /\ end' = ScanEnd(log) /\ pending' = NoSlots
      /\ Mapped' = Stable
      /\ UNCHANGED <<log, written, db, dbDisk, history, promised>>
  BY OpenedMaps DEF Stable
<1>2. Whole(log, lastGen) /\ log \in LogFile /\ ScanEnd(log) \in 0..MaxSlots
  BY ScanEndIn DEF DiskInv, ImagesInv, Chain, TypeOK, WalTypeOK
<1>3. /\ LogInv' /\ generation' \in Nat /\ lastGen' \in Nat /\ lastGen <= lastGen'
      /\ headerOk' \in BOOLEAN
  BY <1>2, OpenedLog
<1>4. Stable[0] \in 1..MaxPage+1
  BY DEF DiskInv, HistoryInv, TypeOK
<1> DEFINE m == IF 0 \in DOMAIN committed' THEN log.frames[committed'[0]].val
                ELSE db.page[0]
<1>5. /\ pc' = IF commitEnd' > 0 THEN "checkpoint" ELSE IF headerOk' THEN "reset" ELSE "idle"
      /\ meta' = m /\ committedMeta' = m /\ metaDirty' = FALSE
      /\ durability' = "full" /\ after' = "return" /\ todo' = {}
      /\ UNCHANGED <<stamp, crashes, closes>>
  BY DEF Open, ghosts, bounds
<1>6. m = Mapped'[0]
  BY <1>1, WalAssumption DEF Mapped, AllPages
<1> HIDE DEF m
<1>7. m \in 1..MaxPage+1
  BY <1>1, <1>4, <1>6
<1>8. TypeOK'
  <2>1. IsSlotMap(pending)' /\ IsSlotMap(committed)'
    BY <1>1, <1>2, ScanMapIs DEF IsSlotMap, NoSlots
  <2>2. WalTypeOK'
    BY <1>1, <1>2, <1>3, <2>1 DEF TypeOK, WalTypeOK
  <2>3. metaDirty' \in BOOLEAN
    BY <1>5
  <2>4. pc' \in {"checkpoint", "reset", "idle"}
    BY <1>5
  <2> QED
    BY <1>1, <1>5, <1>7, <2>2, <2>3, <2>4 DEF TypeOK
<1>9. MapInv'
  <2>1. DOMAIN pending' = {} /\ \A s \in Slots : ~(s \in ScanEnd(log)..ScanEnd(log)-1)
    BY <1>1, <1>2 DEF NoSlots, Slots
  <2>2. \A p \in DOMAIN committed' : /\ committed'[p] < commitEnd'
                                     /\ log'.frames[committed'[p]].page = p
    BY <1>1, <1>2, ScanMapIs
  <2>3. \A s \in Slots : s < commitEnd' => /\ log'.frames[s].page \in DOMAIN committed'
                                           /\ s <= committed'[log'.frames[s].page]
    BY <1>1, <1>2, ScanMapIs
  <2> QED
    BY <1>1, <1>2, <2>1, <2>2, <2>3 DEF MapInv
<1>10. commitEnd' = 0 => committed' = NoSlots
  <2> SUFFICES ASSUME commitEnd' = 0 PROVE committed' = NoSlots
    OBVIOUS
  <2>1. \A p \in AllPages : FramesOn(log, p) = {}
    BY <1>1 DEF FramesOn
  <2> QED
    BY <1>1, <2>1 DEF ScanMap, NoSlots
<1>11. pc' \in {"checkpoint", "reset", "idle"} /\ (pc' # "checkpoint" => commitEnd' = 0)
  BY <1>1, <1>2, <1>5
<1>12. CheckpointInv'
  BY <1>1, <1>5, <1>10, <1>11 DEF CheckpointInv, InTransaction, NoSlots
<1>13. MetaInv'
  <2>1. \A p \in AllPages : p >= db.len => db.page[p] = 0
    BY DEF DiskInv, FileInv
  <2>2. ScanEnd(log) = 0 => db.len >= db.page[0]
    BY <1>1 DEF DiskInv, LastingInv, Lasting, ImagesInv, Chain, Copying, TypeOK, WalTypeOK
  <2>3. (committed' = NoSlots \/ pc' \in {"fileSync", "reset"}) => ScanEnd(log) = 0
    <3>1. ASSUME committed' = NoSlots, ScanEnd(log) # 0 PROVE FALSE
      <4>1. 0 \in Slots /\ 0 < ScanEnd(log)
        BY <1>2, <3>1 DEF Slots
      <4>2. log.frames[0].page \in DOMAIN committed'
        BY <1>1, <1>2, <4>1, ScanMapIs
      <4> QED
        BY <3>1, <4>2 DEF NoSlots
    <3> QED
      BY <1>1, <1>11, <3>1
  <2> QED
    BY <1>1, <1>5, <1>6, <1>7, <2>1, <2>2, <2>3 DEF MetaInv
<1> QED
  BY <1>1, <1>3, <1>8, <1>9, <1>12, <1>13 DEF Inv
-----------------------------------------------------------------------------
(* Steps that leave the disk alone, or add images of the log.              *)

\* When every image has to hold the committed frames.
Synced == \/ Copying
          \/ durability = "full" /\ committed # NoSlots /\ pc \notin {"logSync", "down"}

LEMMA QuietDisk ==
    ASSUME DiskInv, ~Copying, ~Copying', pc' # "down", ModeInv', Synced' => Synced,
           UNCHANGED <<log, written, committed, commitEnd, lastGen, db, dbDisk, history,
                       promised>>
    PROVE  DiskInv'
<1>1. ImagesInv' /\ FileInv'
  BY DEF DiskInv, ImagesInv, FileInv
<1>2. HistoryInv' /\ LastingInv'
  BY DEF DiskInv, HistoryInv, LastingInv, Stable
<1>3. SyncedInv'
  BY DEF DiskInv, SyncedInv, Synced
<1> QED
  BY <1>1, <1>2, <1>3 DEF DiskInv

\* What the log holds while the file is quiet is itself worth keeping.
LEMMA LogLasts == Inv /\ HistoryInv => Lasting(log, db, history, promised)
<1> SUFFICES ASSUME Inv, HistoryInv PROVE Lasting(log, db, history, promised)
  OBVIOUS
<1>1. promised \in 1..Len(history) /\ Len(history) \in Nat
  BY DEF HistoryInv, Inv, TypeOK
<1>2. Recovered(log, db) = history[Len(history)] /\ Len(history) \in promised..Len(history)
  BY <1>1 DEF HistoryInv, Stable
<1>3. ScanEnd(log) = 0 => db.len >= db.page[0]
  BY LogIsWhole DEF Inv, MetaInv
<1> QED
  BY <1>2, <1>3 DEF Lasting

LEMMA LogLastsNext == Inv' /\ HistoryInv' => Lasting(log', db', history', promised')
<1>1. (Inv /\ HistoryInv => Lasting(log, db, history, promised))'
  BY LogLasts, PTL
<1> QED
  BY <1>1

LEMMA EmptyLasts ==
    ASSUME NEW lg, NEW l, NEW d \in DbFile, NEW states, NEW first,
           Lasting(l, d, states, first), ScanEnd(l) = 0, ScanEnd(lg) = 0
    PROVE  Lasting(lg, d, states, first)
<1>1. Recovered(lg, d) = Recovered(l, d)
  BY EmptyRecovers
<1> QED
  BY <1>1 DEF Lasting

LEMMA LastsLonger ==
    ASSUME NEW S, NEW states \in Seq(S), NEW x \in S, NEW first \in Nat, first > 0,
           NEW lg, NEW d, Lasting(lg, d, states, first)
    PROVE  Lasting(lg, d, Append(states, x), first)
<1>1. PICK j \in first..Len(states) : Recovered(lg, d) = states[j]
  BY DEF Lasting
<1>2. j \in first..Len(Append(states, x)) /\ Append(states, x)[j] = states[j]
  BY <1>1
<1>3. Recovered(lg, d) = Append(states, x)[j]
  BY <1>1, <1>2
<1> QED
  BY <1>2, <1>3 DEF Lasting

\* The header written on its own, before the first frame, commits nothing.
LEMMA HeaderAlone ==
    ASSUME Inv, pc # "down", ~headerOk
    PROVE  /\ WithHeader \in LogFile /\ WithHeader.frames = log.frames
           /\ commitEnd = 0 /\ ScanEnd(WithHeader) = 0
           /\ Whole(WithHeader, lastGen)
<1>1. /\ log \in LogFile /\ generation \in Nat /\ generation > 0 /\ generation <= lastGen
      /\ commitEnd \in 0..MaxSlots /\ commitEnd = 0
  BY DEF Inv, TypeOK, WalTypeOK, LogInv
<1>2. /\ WithHeader \in LogFile /\ WithHeader.frames = log.frames
      /\ WithHeader.hdr = generation
  BY <1>1 DEF WithHeader, LogFile
<1>3. \A s \in Slots : /\ log.frames[s].gen <= generation
                       /\ log.frames[s].commit => log.frames[s].page = 0
                       /\ log.frames[s].commit => log.frames[s].gen # generation
  BY <1>1 DEF Inv, LogInv, Slots
<1>4. CommitEnds(WithHeader) = {}
  <2> SUFFICES ASSUME NEW n \in CommitEnds(WithHeader) PROVE FALSE
    OBVIOUS
  <2>1. /\ n \in 1..MaxSlots /\ log.frames[n-1].commit
        /\ \A s \in 0..n-1 : log.frames[s].gen = generation
    BY <1>2 DEF CommitEnds, Readable
  <2>2. n-1 \in 0..n-1 /\ n-1 \in Slots
    BY <2>1 DEF Slots
  <2> QED
    BY <1>3, <2>1, <2>2
<1>5. ScanEnd(WithHeader) = 0
  BY <1>4, ScanEndIn
<1>6. Whole(WithHeader, lastGen)
  <2>1. generation # NoGen
    BY <1>1 DEF NoGen
  <2> QED
    BY <1>1, <1>2, <1>3, <2>1 DEF Whole
<1> QED
  BY <1>1, <1>2, <1>5, <1>6

\* A frame written past the commits adds one image, or two with the header.
LEMMA FrameImages ==
    ASSUME Tracked, Inv, Inv', ImagesInv, pc = "idle",
           NEW s \in Slots, s >= commitEnd, NEW f \in Frame, WriteFrame(s, f),
           UNCHANGED lastGen
    PROVE  /\ Chain(written', lastGen') /\ written'[Len(written')] = log'
           /\ \A k \in DOMAIN written' :
                 \/ written'[k] = log'
                 \/ \E i \in DOMAIN written : written'[k] = written[i]
                 \/ commitEnd = 0 /\ ScanEnd(written'[k]) = 0
           /\ log' \in LogFile
           /\ log'.hdr = generation /\ log'.frames = [log.frames EXCEPT ![s] = f]
<1>1. /\ log' \in LogFile /\ log'.hdr = generation
      /\ log'.frames = [log.frames EXCEPT ![s] = f]
  BY FrameWritten
<1>2. /\ log \in LogFile /\ written \in Seq(LogFile) /\ log.frames \in [Slots -> Frame]
      /\ lastGen \in Nat
  BY DEF Inv, TypeOK, WalTypeOK, LogFile
<1>3. /\ Chain(written, lastGen) /\ written[Len(written)] = log
      /\ ScanEnd(log) = commitEnd /\ Whole(log', lastGen)
  BY LogIsWhole, LogIsWholeNext DEF ImagesInv
<1>4. CASE headerOk
  <2>1. written' = Append(written, log')
    BY <1>4 DEF WriteFrame
  <2>2. Follows(log, log')
    BY <1>1, <1>2, <1>3 DEF Follows
  <2>3. Chain(written', lastGen)
    BY <1>1, <1>2, <1>3, <2>1, <2>2, ChainAppend
  <2>4. /\ \A k \in DOMAIN written' :
              written'[k] = log' \/ \E i \in DOMAIN written : written'[k] = written[i]
        /\ written'[Len(written')] = log'
    BY <1>2, <2>1, ImagesOfAppend
  <2> QED
    BY <1>1, <2>3, <2>4
<1>5. CASE ~headerOk
  <2> DEFINE base == WithHeader
             first == Append(written, base)
  <2>0. /\ base \in LogFile /\ base.frames = log.frames /\ commitEnd = 0
        /\ ScanEnd(base) = 0 /\ Whole(base, lastGen)
    BY <1>5, HeaderAlone
  <2>1. written' = written \o <<base, log'>>
    BY <1>5 DEF WriteFrame
  <2> HIDE DEF base
  <2>2. written \o <<base, log'>> = Append(first, log')
    BY <1>1, <1>2, <2>0
  <2>3. Follows(log, base) /\ Follows(base, log')
    BY <2>0 DEF Follows, Slots
  <2>4. Chain(first, lastGen)
    BY <1>2, <1>3, <2>0, <2>3, ChainAppend
  <2>5. first \in Seq(LogFile) /\ first[Len(first)] = base
    BY <1>2, <2>0
  <2>6. \A k \in DOMAIN first : first[k] = base \/ \E i \in DOMAIN written : first[k] = written[i]
    BY <1>2, ImagesOfAppend
  <2> HIDE DEF first
  <2>7. Chain(Append(first, log'), lastGen)
    BY <1>1, <1>3, <2>3, <2>4, <2>5, ChainAppend
  <2>8. /\ \A k \in DOMAIN written' :
              written'[k] = log' \/ \E i \in DOMAIN first : written'[k] = first[i]
        /\ written'[Len(written')] = log'
    BY <2>1, <2>2, <2>5, ImagesOfAppend
  <2>9. \A k \in DOMAIN written' :
              \/ written'[k] = log'
              \/ \E i \in DOMAIN written : written'[k] = written[i]
              \/ commitEnd = 0 /\ ScanEnd(written'[k]) = 0
    <3> SUFFICES ASSUME NEW k \in DOMAIN written', written'[k] # log',
                        ~\E i \in DOMAIN written : written'[k] = written[i]
                 PROVE  commitEnd = 0 /\ ScanEnd(written'[k]) = 0
      OBVIOUS
    <3>1. PICK i \in DOMAIN first : written'[k] = first[i]
      BY <2>8
    <3>2. first[i] = base
      BY <2>6, <3>1
    <3> QED
      BY <2>0, <3>1, <3>2
  <2> QED
    BY <1>1, <2>1, <2>2, <2>7, <2>8, <2>9
<1> QED
  BY <1>4, <1>5

\* A page written or a transaction committed, whose frame goes past the commits.
LEMMA FrameDisk ==
    ASSUME Tracked, Inv, Inv', DiskInv, pc = "idle", ~Copying', pc' # "down",
           NEW s \in Slots, s >= commitEnd, NEW f \in Frame, WriteFrame(s, f),
           UNCHANGED <<lastGen, db, dbDisk, promised, durability>>,
           HistoryInv', SyncedInv',
           \A lg : Lasting(lg, db, history, promised) => Lasting(lg, db, history', promised)
    PROVE  DiskInv'
<1>1. /\ Chain(written', lastGen') /\ written'[Len(written')] = log'
      /\ \A k \in DOMAIN written' :
            \/ written'[k] = log'
            \/ \E i \in DOMAIN written : written'[k] = written[i]
            \/ commitEnd = 0 /\ ScanEnd(written'[k]) = 0
  BY FrameImages DEF DiskInv
<1>2. ImagesInv'
  BY <1>1 DEF ImagesInv
<1>3. FileInv'
  BY DEF DiskInv, FileInv, Copying
<1>4. LastingInv'
  <2> SUFFICES ASSUME NEW k \in DOMAIN written'
               PROVE  Lasting(written'[k], db', history', promised')
    BY DEF LastingInv
  <2>1. Lasting(log', db', history', promised')
    BY LogLastsNext
  <2>2. ASSUME NEW i \in DOMAIN written PROVE Lasting(written[i], db, history', promised)
    BY DEF DiskInv, LastingInv, Copying
  <2>3. ASSUME commitEnd = 0, ScanEnd(written'[k]) = 0
        PROVE  Lasting(written'[k], db, history', promised)
    <3>1. ScanEnd(log) = 0 /\ Lasting(log, db, history, promised) /\ db \in DbFile
      BY <2>3, LogIsWhole, LogLasts DEF DiskInv, Inv, TypeOK
    <3>2. Lasting(log, db, history', promised)
      BY <3>1
    <3> QED
      BY <2>3, <3>1, <3>2, EmptyLasts
  <2> QED
    BY <1>1, <2>1, <2>2, <2>3
<1>5. ModeInv'
  BY DEF DiskInv, ModeInv
<1> QED
  BY <1>2, <1>3, <1>4, <1>5 DEF DiskInv
-----------------------------------------------------------------------------
(* The actions of the client.                                              *)

LEMMA ClientDisk ==
    ASSUME Tracked, PowerAssumption, Inv, Inv', DiskInv, Client
    PROVE  DiskInv'
<1> USE DEF walVars, dbVars, ghosts
<1>1. ASSUME NEW d \in Durabilities, SetDurability(d) PROVE DiskInv'
  <2>1. /\ pc = "idle" /\ pc' = "idle" /\ durability' = d
        /\ UNCHANGED <<log, written, committed, commitEnd, lastGen, db, dbDisk, history,
                       promised>>
    BY <1>1 DEF SetDurability
  <2>2. d \in {"full", "normal", "off"}
    BY PagerAssumption
  <2>3. d = "full" => durability = "full"
    BY <2>2 DEF PowerAssumption, DiskInv, ModeInv
  <2>4. ModeInv'
    BY <2>1 DEF ModeInv
  <2>5. ~Copying /\ ~Copying' /\ (Synced' => Synced)
    BY <2>1, <2>3 DEF Copying, Synced
  <2> QED
    BY <2>1, <2>4, <2>5, QuietDisk
<1>2. ASSUME \/ AllocatePage
             \/ Rollback
             \/ \E then \in Endings : CallCheckpoint(then)
      PROVE  DiskInv'
  <2>1. /\ pc = "idle" /\ pc' \in {"idle", "checkpoint"}
        /\ UNCHANGED <<log, written, committed, commitEnd, lastGen, db, dbDisk, history,
                       promised, durability>>
    BY <1>2 DEF AllocatePage, Rollback, WalRollback, CallCheckpoint
  <2>2. ModeInv' /\ ~Copying /\ ~Copying' /\ (Synced' => Synced)
    BY <2>1 DEF DiskInv, ModeInv, Copying, Synced
  <2> QED
    BY <2>1, <2>2, QuietDisk
<1>3. ASSUME NEW p \in 1..MaxPage, WritePage(p) PROVE DiskInv'
  <2> DEFINE slot == SlotFor(p)
             f == FrameOf(p, FALSE, stamp')
  <2>1. /\ pc = "idle" /\ pc' = "idle" /\ slot \in Slots /\ WriteFrame(slot, f)
        /\ stamp' = stamp + 1 /\ stamp < MaxStamp
        /\ UNCHANGED <<commitEnd, committed, lastGen, db, dbDisk, promised, history,
                       durability>>
    BY <1>3 DEF WritePage, WalWrite, pagerVars
  <2>2. slot >= commitEnd
    <3>1. end \in Int /\ commitEnd \in Int /\ commitEnd <= end
      BY DEF Inv, TypeOK, WalTypeOK, MapInv
    <3>2. \A q \in DOMAIN pending : pending[q] \in commitEnd..end-1
      BY DEF Inv, MapInv
    <3> QED
      BY <3>1, <3>2 DEF SlotFor
  <2>3. f \in Frame
    <3>1. stamp' \in 0..MaxStamp
      BY <2>1 DEF Inv, TypeOK
    <3> QED
      BY <3>1 DEF FrameOf, Frame, Inv, TypeOK, WalTypeOK, Contents, AllPages
  <2> HIDE DEF slot, f
  <2>4. Mapped' = Mapped
    BY <1>3, WritePageInv
  <2>5. HistoryInv'
    <3>1. Stable' = Stable
      BY <2>4, LogIsWhole, LogIsWholeNext
    <3> QED
      BY <2>1, <3>1 DEF DiskInv, HistoryInv
  <2>6. SyncedInv'
    <3> SUFFICES ASSUME durability = "full", committed # NoSlots, NEW k \in DOMAIN written'
                 PROVE  Same(written'[k], log', commitEnd)
      BY <2>1 DEF SyncedInv, Copying
    <3>1. /\ commitEnd > 0 /\ commitEnd \in 0..MaxSlots /\ ScanEnd(log') = commitEnd
      BY <2>1, LogIsWhole, LogIsWholeNext DEF Inv, TypeOK, WalTypeOK
    <3>2. /\ written'[k] = log' \/ \E i \in DOMAIN written : written'[k] = written[i]
          /\ log'.hdr = generation /\ log'.frames = [log.frames EXCEPT ![slot] = f]
      BY <2>1, <2>2, <2>3, <3>1, FrameImages DEF DiskInv
    <3>3. log.hdr = generation /\ log.frames \in [Slots -> Frame]
      BY <3>1 DEF Inv, LogInv, TypeOK, WalTypeOK, LogFile
    <3>4. \A s \in 0..commitEnd-1 : log'.frames[s] = log.frames[s]
      BY <2>1, <2>2, <3>1, <3>2, <3>3 DEF Slots
    <3>5. \A i \in DOMAIN written : Same(written[i], log, commitEnd)
      BY <2>1 DEF DiskInv, SyncedInv
    <3>6. \A i \in DOMAIN written : Same(written[i], log', commitEnd)
      BY <3>2, <3>3, <3>4, <3>5 DEF Same
    <3>7. Same(log', log', commitEnd)
      BY <3>1 DEF Same
    <3> QED
      BY <3>2, <3>6, <3>7
  <2> QED
    BY <2>1, <2>2, <2>3, <2>5, <2>6, FrameDisk DEF Copying
<1>4. ASSUME NEW then \in Endings, Commit(then) PROVE DiskInv'
  <2> DEFINE f == FrameOf(0, TRUE, meta)
  <2>1. /\ pc = "idle" /\ end \in Slots /\ WriteFrame(end, f)
        /\ history' = Append(history, Readings)
        /\ UNCHANGED <<lastGen, db, dbDisk, promised, durability>>
        /\ pc' = IF durability = "full" THEN "logSync" ELSE Committed(end', then)
    BY <1>4 DEF Commit, WalCommit
  <2>2. end >= commitEnd
    BY DEF Inv, TypeOK, WalTypeOK, MapInv
  <2>3. f \in Frame
    BY WalAssumption DEF FrameOf, Frame, Inv, TypeOK, WalTypeOK, Contents, AllPages
  <2> HIDE DEF f
  <2>4. pc' \in {"idle", "checkpoint", "logSync"} /\ (durability = "full" => pc' = "logSync")
    BY <2>1 DEF Committed
  <2>5. /\ history \in Seq([AllPages -> Contents]) /\ Readings \in [AllPages -> Contents]
        /\ promised \in DOMAIN history
    BY ReadingsType DEF Inv, TypeOK, DiskInv, HistoryInv
  <2>6. Stable' = Readings
    BY <1>4, CommitInv, LogIsWholeNext
  <2>7. HistoryInv'
    <3>1. Readings[0] = meta /\ meta \in 1..MaxPage+1
      BY WalAssumption DEF Readings, Read, AllPages, Inv, TypeOK
    <3>2. /\ \A j \in DOMAIN history' :
                history'[j] = Readings \/ (j \in DOMAIN history /\ history'[j] = history[j])
          /\ history'[Len(history')] = Readings
          /\ promised \in DOMAIN history'
      BY <2>1, <2>5
    <3>3. \A j \in DOMAIN history : history[j][0] \in 1..MaxPage+1
      BY DEF DiskInv, HistoryInv
    <3>4. promised' \in DOMAIN history' /\ history'[Len(history')] = Stable'
      BY <2>1, <2>6, <3>2
    <3>5. \A j \in DOMAIN history' : history'[j][0] \in 1..MaxPage+1
      BY <3>1, <3>2, <3>3
    <3> QED
      BY <3>4, <3>5 DEF HistoryInv
  <2>8. SyncedInv'
    BY <2>1, <2>4 DEF SyncedInv, Copying
  <2>9. \A lg : Lasting(lg, db, history, promised) => Lasting(lg, db, history', promised)
    <3>1. promised \in Nat /\ promised > 0
      BY <2>5
    <3> QED
      BY <2>1, <2>5, <3>1, LastsLonger
  <2> QED
    BY <2>1, <2>2, <2>3, <2>4, <2>7, <2>8, <2>9, FrameDisk DEF Copying
<1> QED
  BY <1>1, <1>2, <1>3, <1>4 DEF Client
-----------------------------------------------------------------------------
(* The steps of a checkpoint, a sync, a close and a start.                 *)

\* The images after an fsync of the log: the log itself.
LEMMA SyncedImages ==
    ASSUME Inv, Inv', pc' # "down", written' = <<log>>, UNCHANGED <<log, lastGen>>
    PROVE  ImagesInv' /\ \A k \in DOMAIN written' : Same(written'[k], log', commitEnd')
<1>1. DOMAIN written' = {1} /\ written'[1] = log' /\ Len(written') = 1
  OBVIOUS
<1>2. ImagesInv'
  BY <1>1, LogIsWhole, ChainOne DEF ImagesInv
<1>3. Same(log', log', commitEnd')
  BY LogIsWholeNext DEF Same
<1> QED
  BY <1>1, <1>2, <1>3

LEMMA LogSyncDisk ==
    ASSUME Tracked, Inv, Inv', DiskInv, LogSync
    PROVE  DiskInv'
<1> USE DEF LogSync, WalSync, dbVars
<1>1. /\ pc = "logSync" /\ pc' \in {"idle", "checkpoint"} /\ written' = <<log>>
      /\ promised' = Len(history)
      /\ UNCHANGED <<log, lastGen, db, dbDisk, history, committed, commitEnd, durability>>
  BY DEF Committed
<1> HIDE DEF LogSync, WalSync, dbVars
<1>2. ImagesInv' /\ \A k \in DOMAIN written' : Same(written'[k], log', commitEnd')
  BY <1>1, SyncedImages
<1>3. FileInv' /\ ModeInv' /\ SyncedInv'
  BY <1>1, <1>2 DEF DiskInv, FileInv, ModeInv, SyncedInv, Copying
<1>4. HistoryInv'
  <2>1. Len(history) \in DOMAIN history
    BY DEF DiskInv, HistoryInv, Inv, TypeOK
  <2> QED
    BY <1>1, <2>1 DEF DiskInv, HistoryInv, Stable
<1>5. LastingInv'
  BY <1>1, <1>4, LogLastsNext DEF LastingInv
<1> QED
  BY <1>2, <1>3, <1>4, <1>5 DEF DiskInv

LEMMA CheckpointStartDisk ==
    ASSUME Tracked, PowerAssumption, Inv, Inv', DiskInv, CheckpointStart
    PROVE  DiskInv'
<1>1. /\ pc = "checkpoint" /\ pc' = IF committed = NoSlots THEN Checkpointed ELSE "copy"
      /\ UNCHANGED <<log, lastGen, db, dbDisk, history, promised, committed, commitEnd,
                     durability>>
      /\ \/ written' = written
         \/ durability = "normal" /\ written' = <<log>>
      /\ durability = "normal" /\ committed # NoSlots => written' = <<log>>
      /\ committed = NoSlots => written' = written
  BY DEF CheckpointStart, WalSync, walVars, dbVars, ghosts
<1>2. CASE committed = NoSlots
  <2>1. pc' \in {"idle", "finish"} /\ written' = written
    BY <1>1, <1>2 DEF Checkpointed
  <2>2. ModeInv' /\ ~Copying /\ ~Copying' /\ (Synced' => Synced)
    BY <1>1, <1>2, <2>1 DEF DiskInv, ModeInv, Copying, Synced
  <2> QED
    BY <1>1, <2>1, <2>2, QuietDisk
<1>3. CASE committed # NoSlots
  <2>1. pc' = "copy"
    BY <1>1, <1>3
  <2>2. ImagesInv' /\ \A k \in DOMAIN written' : Same(written'[k], log', commitEnd')
    <3>1. CASE durability = "normal"
      BY <1>1, <1>3, <2>1, <3>1, SyncedImages
    <3>2. CASE durability # "normal"
      <4>1. durability = "full"
        BY <3>2, PagerAssumption DEF PowerAssumption, DiskInv, ModeInv
      <4>2. written' = written
        BY <1>1, <3>2
      <4>3. \A k \in DOMAIN written : Same(written[k], log, commitEnd)
        BY <1>1, <1>3, <4>1 DEF DiskInv, SyncedInv
      <4> QED
        BY <1>1, <2>1, <4>2, <4>3 DEF DiskInv, ImagesInv
    <3> QED
      BY <3>1, <3>2
  <2>3. FileInv'
    <3>1. dbDisk = Settled(db)
      BY <1>1 DEF DiskInv, FileInv, Copying
    <3>2. \A p \in AllPages : /\ dbDisk.page[p] = {db.page[p]}
                              /\ \A n \in dbDisk.len : n = db.len
      BY <3>1 DEF Settled
    <3> QED
      BY <1>1, <1>3, <2>1, <3>2 DEF DiskInv, FileInv, Copying
  <2>4. HistoryInv' /\ LastingInv' /\ SyncedInv' /\ ModeInv'
    BY <1>1, <2>1, <2>2
    DEF DiskInv, HistoryInv, LastingInv, SyncedInv, ModeInv, Copying, Stable
  <2> QED
    BY <2>2, <2>3, <2>4 DEF DiskInv
<1> QED
  BY <1>2, <1>3

\* While pages are copied, only the file and what the disk has of it change.
LEMMA CopyingDisk ==
    ASSUME Inv, Inv', DiskInv, Copying, Copying', Mapped' = Mapped,
           UNCHANGED <<log, written, lastGen, history, promised, committed, commitEnd,
                       durability>>,
           \A p \in AllPages \ DOMAIN committed :
              /\ db'.page[p] = db.page[p]
              /\ dbDisk'.page[p] = dbDisk.page[p]
              /\ \A n \in dbDisk'.len : n \in dbDisk.len \/ n = db'.len
    PROVE  DiskInv'
<1>1. ImagesInv'
  BY DEF DiskInv, ImagesInv, Copying
<1>2. Stable' = Stable
  BY LogIsWhole, LogIsWholeNext
<1>3. HistoryInv' /\ LastingInv' /\ SyncedInv' /\ ModeInv'
  BY <1>2 DEF DiskInv, HistoryInv, LastingInv, SyncedInv, ModeInv
<1>4. \A p \in AllPages : p >= db'.len => db'.page[p] = 0
  BY DEF Inv, MetaInv
<1>5. \A p \in AllPages \ DOMAIN committed :
          /\ dbDisk.page[p] = {db.page[p]}
          /\ \A n \in dbDisk.len : p >= n => db.page[p] = 0
  BY DEF DiskInv, FileInv
<1>6. FileInv'
  BY <1>4, <1>5 DEF DiskInv, FileInv
<1> QED
  BY <1>1, <1>3, <1>6 DEF DiskInv

LEMMA CopyPageDisk == ASSUME Tracked, Inv, Inv', DiskInv, CopyPage PROVE DiskInv'
<1> DEFINE p == NextCopy
           v == log.frames[committed[p]].val
           copies == {v} \cup (IF p = 0 THEN {} ELSE {Torn})
<1>1. /\ pc = "copy" /\ pc' = "copy" /\ db' = PageWritten(db, p, v)
      /\ dbDisk' = [page |-> [dbDisk.page EXCEPT ![p] = @ \cup {v} \cup
                                (IF p = 0 THEN {} ELSE {Torn})],
                    len |-> dbDisk.len \cup {db'.len}]
      /\ UNCHANGED <<log, written, lastGen, history, promised, committed, commitEnd,
                     durability>>
  BY DEF CopyPage, walVars, ghosts
<1>2. p \in DOMAIN committed
  BY NextCopyIn DEF CopyPage, Inv, CheckpointInv
<1> HIDE DEF p, v
<1>3. db.page \in [AllPages -> Contents] /\ dbDisk.page \in [AllPages -> SUBSET Contents]
  BY DEF Inv, TypeOK, DbFile, DbDisk
<1>4. ASSUME NEW q \in AllPages \ DOMAIN committed
      PROVE  /\ db'.page[q] = db.page[q]
             /\ dbDisk'.page[q] = dbDisk.page[q]
             /\ \A n \in dbDisk'.len : n \in dbDisk.len \/ n = db'.len
  <2>1. q # p
    BY <1>2
  <2>2. db'.page = [db.page EXCEPT ![p] = v]
    BY <1>1 DEF PageWritten
  <2> QED
    BY <1>1, <1>3, <2>1, <2>2
<1>5. Mapped' = Mapped
  BY CopyPageInv
<1> QED
  BY <1>1, <1>4, <1>5, CopyingDisk DEF Copying

LEMMA GrowFileDisk ==
    ASSUME Tracked, PowerAssumption, Inv, Inv', DiskInv, GrowFile
    PROVE  DiskInv'
<1>1. /\ pc = "copy" /\ pc' = IF durability = "off" THEN "reset" ELSE "fileSync"
      /\ db'.page = db.page
      /\ dbDisk' = [dbDisk EXCEPT !.len = @ \cup {db'.len}]
      /\ UNCHANGED <<log, written, lastGen, history, promised, committed, commitEnd,
                     durability>>
  BY DEF GrowFile, Grown, walVars, ghosts
<1>2. durability # "off"
  BY DEF PowerAssumption, DiskInv, ModeInv
<1>3. dbDisk \in DbDisk
  BY DEF Inv, TypeOK
<1>4. dbDisk'.page = dbDisk.page /\ dbDisk'.len = dbDisk.len \cup {db'.len}
  BY <1>1, <1>3 DEF DbDisk
<1>5. Mapped' = Mapped
  BY GrowFileInv
<1> QED
  BY <1>1, <1>2, <1>4, <1>5, CopyingDisk DEF Copying

LEMMA FileSyncDisk ==
    ASSUME Tracked, Inv, Inv', DiskInv, FileSync
    PROVE  DiskInv'
<1>1. /\ pc = "fileSync" /\ pc' = "reset" /\ dbDisk' = Settled(db) /\ promised' = Len(history)
      /\ UNCHANGED <<log, written, lastGen, db, history, committed, commitEnd, durability>>
  BY DEF FileSync, walVars
<1>2. ImagesInv' /\ FileInv' /\ ModeInv'
  BY <1>1 DEF DiskInv, ImagesInv, FileInv, ModeInv, Copying, Inv, MetaInv
<1>3. \A k \in DOMAIN written : Same(written[k], log, commitEnd)
  BY <1>1 DEF DiskInv, SyncedInv, Copying
<1>4. SyncedInv'
  BY <1>1, <1>3 DEF SyncedInv
<1>5. HistoryInv'
  <2>1. Len(history) \in DOMAIN history
    BY DEF DiskInv, HistoryInv, Inv, TypeOK
  <2> QED
    BY <1>1, <2>1 DEF DiskInv, HistoryInv, Stable
<1>6. LastingInv'
  <2> SUFFICES ASSUME NEW k \in DOMAIN written
               PROVE  Lasting(written[k], db, history, Len(history))
    BY <1>1 DEF LastingInv
  <2>1. Recovered(written[k], db) = Recovered(log, db)
    BY <1>3, LogIsWhole, SameRecovers
  <2>2. Len(history) \in Nat /\ Recovered(log, db) = history[Len(history)]
    BY DEF DiskInv, HistoryInv, Stable, Inv, TypeOK
  <2>3. Len(history) \in Len(history)..Len(history)
    BY <2>2
  <2>4. db.len >= db.page[0]
    BY <1>1 DEF Inv, MetaInv
  <2> QED
    BY <2>1, <2>2, <2>3, <2>4 DEF Lasting
<1> QED
  BY <1>2, <1>4, <1>5, <1>6 DEF DiskInv

\* A log that forgets its commits, once the file holds them for sure.
LEMMA ForgetDisk ==
    ASSUME Inv, Inv', DiskInv, ~Copying, ~Copying', Mapped' = Mapped,
           written' = Append(written, log'), Follows(log, log'),
           lastGen <= lastGen', pc' = "down" => log' = EmptyLog, committed' = NoSlots,
           UNCHANGED <<db, dbDisk, history, promised, durability>>
    PROVE  DiskInv'
<1>1. /\ written \in Seq(LogFile) /\ log' \in LogFile /\ lastGen \in Nat /\ lastGen' \in Nat
      /\ Chain(written, lastGen) /\ written[Len(written)] = log
  BY DEF Inv, TypeOK, WalTypeOK, DiskInv, ImagesInv
<1>2. Whole(log', lastGen')
  BY LogIsWholeNext
<1>3. Chain(written, lastGen')
  BY <1>1, ChainNewer
<1>4. Chain(written', lastGen')
  BY <1>1, <1>2, <1>3, ChainAppend
<1>5. /\ \A k \in DOMAIN written' :
            written'[k] = log' \/ (k \in DOMAIN written /\ written'[k] = written[k])
      /\ written'[Len(written')] = log'
  BY <1>1, ImagesOfAppend
<1>6. ImagesInv'
  BY <1>4, <1>5 DEF ImagesInv
<1>7. FileInv' /\ ModeInv' /\ SyncedInv'
  BY DEF DiskInv, FileInv, ModeInv, SyncedInv
<1>8. HistoryInv'
  BY LogIsWhole, LogIsWholeNext DEF DiskInv, HistoryInv
<1>9. LastingInv'
  <2>1. \A k \in DOMAIN written : Lasting(written[k], db', history', promised')
    BY DEF DiskInv, LastingInv
  <2> QED
    BY <1>5, <1>8, <2>1, LogLastsNext DEF LastingInv
<1> QED
  BY <1>6, <1>7, <1>8, <1>9 DEF DiskInv

LEMMA ResetDisk == ASSUME Tracked, Inv, Inv', DiskInv, Reset PROVE DiskInv'
<1>1. /\ pc = "reset" /\ pc' \in {"idle", "finish"} /\ committed' = NoSlots
      /\ written' = Append(written, log') /\ log' = [log EXCEPT !.hdr = generation + 1]
      /\ lastGen' = Max({lastGen, generation + 1})
      /\ UNCHANGED <<db, dbDisk, history, promised, durability>>
  BY DEF Reset, WalReset, Issued, Checkpointed, dbVars, ghosts
<1>2. lastGen \in Nat /\ generation \in Nat /\ log \in LogFile
  BY DEF Inv, TypeOK, WalTypeOK
<1>3. lastGen <= lastGen'
  <2> DEFINE next == generation + 1
  <2>1. next \in Nat /\ lastGen' = Max({lastGen, next})
    BY <1>1, <1>2
  <2> HIDE DEF next
  <2> QED
    BY <1>2, <2>1, MaxOfTwo
<1>4. Follows(log, log')
  BY <1>1, <1>2 DEF Follows, LogFile
<1>5. Mapped' = Mapped
  BY ResetInv
<1> QED
  BY <1>1, <1>3, <1>4, <1>5, ForgetDisk DEF Copying

LEMMA FinishCloseDisk == ASSUME Tracked, Inv, Inv', DiskInv, FinishClose PROVE DiskInv'
<1>1. /\ pc = "finish" /\ pc' = "down" /\ committed' = NoSlots
      /\ written' = Append(written, log') /\ log' = EmptyLog
      /\ lastGen' = Max({lastGen, generation + 1})
      /\ UNCHANGED <<db, dbDisk, history, promised, durability>>
  BY DEF FinishClose, WalTruncate, Issued, dbVars, ghosts
<1>2. lastGen \in Nat /\ generation \in Nat
  BY DEF Inv, TypeOK, WalTypeOK
<1>3. lastGen <= lastGen'
  <2> DEFINE next == generation + 1
  <2>1. next \in Nat /\ lastGen' = Max({lastGen, next})
    BY <1>1, <1>2
  <2> HIDE DEF next
  <2> QED
    BY <1>2, <2>1, MaxOfTwo
<1>4. Follows(log, log')
  <2>1. ScanEnd(log) = 0
    BY <1>1, LogIsWhole DEF Inv, CheckpointInv
  <2> QED
    BY <2>1 DEF Follows, Slots
<1>5. Mapped' = Mapped
  BY FinishCloseInv
<1> QED
  BY <1>1, <1>3, <1>4, <1>5, ForgetDisk DEF Copying

LEMMA FinishSyncDisk == ASSUME Inv, Inv', DiskInv, FinishSync PROVE DiskInv'
<1>1. /\ pc = "finish" /\ pc' = "idle" /\ dbDisk' = Settled(db) /\ committed = NoSlots
      /\ UNCHANGED <<log, written, committed, commitEnd, lastGen, db, history, promised,
                     durability>>
  BY DEF FinishSync, walVars, ghosts, Inv, CheckpointInv
<1>2. dbDisk' = dbDisk
  BY <1>1 DEF DiskInv, FileInv, Copying
<1>3. ModeInv' /\ ~Copying /\ ~Copying' /\ (Synced' => Synced)
  BY <1>1 DEF DiskInv, ModeInv, Copying, Synced
<1> QED
  BY <1>1, <1>2, <1>3, QuietDisk

LEMMA OpenDisk == ASSUME TypeOK, DiskInv, Open PROVE Inv' /\ DiskInv'
<1>1. /\ Inv' /\ Mapped' = Stable /\ lastGen <= lastGen'
      /\ pc = "down" /\ pc' # "down" /\ ~Copying'
      /\ committed' = ScanMap(log)
      /\ UNCHANGED <<log, written, db, dbDisk, history, promised>>
      /\ durability' = "full"
  BY OpenedInv, OpenedMaps
<1>2. written \in Seq(LogFile) /\ lastGen \in Nat /\ lastGen' \in Nat
  BY <1>1 DEF TypeOK, WalTypeOK, Inv
<1>3. ImagesInv'
  BY <1>1, <1>2, ChainNewer DEF DiskInv, ImagesInv
<1>4. FileInv' /\ ModeInv'
  BY <1>1 DEF DiskInv, FileInv, ModeInv, Copying
<1>5. HistoryInv' /\ LastingInv'
  BY <1>1 DEF DiskInv, HistoryInv, LastingInv, Stable, Copying
<1>6. SyncedInv'
  <2> SUFFICES ASSUME committed' # NoSlots, NEW k \in DOMAIN written
               PROVE  Same(written[k], log, commitEnd')
    BY <1>1 DEF SyncedInv
  <2>1. commitEnd' > 0 /\ ScanEnd(log) = commitEnd'
    BY <1>1, LogIsWholeNext
  <2>2. written = <<log>>
    BY <1>1, <2>1, EmptyLogIs DEF DiskInv, ImagesInv
  <2> QED
    BY <2>1, <2>2 DEF Same
<1> QED
  BY <1>1, <1>3, <1>4, <1>5, <1>6 DEF DiskInv
-----------------------------------------------------------------------------
(* The power cut.                                                          *)

\* The log a power cut leaves commits what one of its images does.
LEMMA LogSurvives ==
    ASSUME TypeOK, DiskInv, NEW lg \in OrderedSurvivors
    PROVE  \E k \in DOMAIN written : /\ lg \in LogFile /\ Whole(lg, lastGen)
                                     /\ Same(lg, written[k], ScanEnd(written[k]))
<1>1. /\ written \in Seq(LogFile) /\ lastGen \in Nat /\ Len(written) \in Nat
      /\ DOMAIN written = 1..Len(written)
      /\ \A k \in DOMAIN written : written[k] \in LogFile /\ Whole(written[k], lastGen)
      /\ \A k \in DOMAIN written : k < Len(written) => Follows(written[k], written[k+1])
  BY DEF TypeOK, WalTypeOK, DiskInv, ImagesInv, Chain
<1>2. ASSUME NEW k \in DOMAIN written, lg = written[k]
      PROVE  \E i \in DOMAIN written : /\ lg \in LogFile /\ Whole(lg, lastGen)
                                       /\ Same(lg, written[i], ScanEnd(written[i]))
  BY <1>1, <1>2 DEF Same
<1>3. ASSUME NEW k \in 1..Len(written)-1, lg \in TornAfter(k)
      PROVE  \E i \in DOMAIN written : /\ lg \in LogFile /\ Whole(lg, lastGen)
                                       /\ Same(lg, written[i], ScanEnd(written[i]))
  <2>1. PICK s \in Changed(k) : lg = [written[k] EXCEPT !.frames[s] = Blank]
    BY <1>3 DEF TornAfter
  <2>2. k \in DOMAIN written /\ k < Len(written)
    BY <1>1
  <2> DEFINE image == written[k]
  <2>3. image \in LogFile /\ Whole(image, lastGen) /\ s \in Slots /\ s >= ScanEnd(image)
    BY <1>1, <2>1, <2>2 DEF Changed, Follows
  <2> HIDE DEF image
  <2>4. LET torn == [image EXCEPT !.frames[s] = Blank]
        IN  torn \in LogFile /\ Whole(torn, lastGen) /\ Same(torn, image, ScanEnd(image))
    BY <1>1, <2>3, TornImage
  <2>5. lg = [image EXCEPT !.frames[s] = Blank]
    BY <2>1 DEF image
  <2>6. lg \in LogFile /\ Whole(lg, lastGen) /\ Same(lg, image, ScanEnd(image))
    BY <2>4, <2>5
  <2> QED
    BY <2>2, <2>6 DEF image
<1> QED
  BY <1>2, <1>3 DEF OrderedSurvivors

\* The file a power cut leaves holds versions the disk had, zeros past its end.
LEMMA FileSurvives ==
    ASSUME TypeOK, NEW d \in DbSurvivors
    PROVE  /\ d \in DbFile /\ d.len \in dbDisk.len
           /\ \A p \in AllPages : IF p < d.len THEN d.page[p] \in dbDisk.page[p]
                                  ELSE d.page[p] = 0
<1>1. PICK n \in dbDisk.len,
           f \in {g \in [AllPages -> UNION {dbDisk.page[p] : p \in AllPages}] :
                     \A p \in AllPages : g[p] \in dbDisk.page[p]} :
           d = [len |-> n, page |-> [p \in AllPages |-> IF p < n THEN f[p] ELSE 0]]
  BY DEF DbSurvivors
<1>2. \A p \in AllPages : f[p] \in dbDisk.page[p]
  OBVIOUS
<1>3. /\ dbDisk.page \in [AllPages -> SUBSET Contents]
      /\ dbDisk.len \in SUBSET (1..MaxPage+1)
  BY DEF TypeOK, DbDisk
<1>4. /\ d.len = n /\ n \in 1..MaxPage+1
      /\ d.page = [p \in AllPages |-> IF p < n THEN f[p] ELSE 0]
  BY <1>1, <1>3
<1>5. \A p \in AllPages : IF p < d.len THEN d.page[p] \in dbDisk.page[p] ELSE d.page[p] = 0
  BY <1>2, <1>4
<1>6. d.page \in [AllPages -> Contents]
  <2>1. 0 \in Contents
    BY DEF Contents
  <2>2. \A p \in AllPages : f[p] \in Contents
    BY <1>2, <1>3
  <2> QED
    BY <1>4, <2>1, <2>2
<1>7. d \in DbFile
  <2> DEFINE page == [p \in AllPages |-> IF p < n THEN f[p] ELSE 0]
  <2>1. d = [len |-> n, page |-> page] /\ page \in [AllPages -> Contents]
    BY <1>1, <1>4, <1>6
  <2> HIDE DEF page
  <2> QED
    BY <1>4, <2>1 DEF DbFile
<1> QED
  BY <1>4, <1>5, <1>7

\* Whatever survives, recovery makes of it a state committed and still promised.
LEMMA SurvivorsLast ==
    ASSUME TypeOK, pc # "down" => Inv, DiskInv,
           NEW lg \in OrderedSurvivors, NEW d \in DbSurvivors
    PROVE  Lasting(lg, d, history, promised)
<1>1. PICK k \in DOMAIN written : /\ lg \in LogFile /\ Whole(lg, lastGen)
                                  /\ Same(lg, written[k], ScanEnd(written[k]))
  BY LogSurvives
<1>2. /\ d \in DbFile /\ d.len \in dbDisk.len
      /\ \A p \in AllPages : IF p < d.len THEN d.page[p] \in dbDisk.page[p]
                             ELSE d.page[p] = 0
  BY FileSurvives
<1>3. ScanEnd(lg) = ScanEnd(written[k]) /\ db \in DbFile
  BY <1>1 DEF Same, TypeOK
<1>4. \A e : Recovered(lg, e) = Recovered(written[k], e)
  BY <1>1, SameRecovers
<1>5. CASE ~Copying
  <2>1. dbDisk = Settled(db) /\ \A p \in AllPages : p >= db.len => db.page[p] = 0
    BY <1>5 DEF DiskInv, FileInv
  <2>2. d.len = db.len /\ \A p \in AllPages : d.page[p] = db.page[p]
    <3>1. d.len = db.len /\ \A p \in AllPages : dbDisk.page[p] = {db.page[p]}
      BY <1>2, <2>1 DEF Settled
    <3>2. db.len \in Int /\ \A p \in AllPages : p \in Int
      BY <1>3 DEF DbFile, AllPages
    <3> QED
      BY <1>2, <2>1, <3>1, <3>2
  <2>3. d.page = db.page
    BY <1>2, <1>3, <2>2 DEF DbFile
  <2>4. Recovered(written[k], d) = Recovered(written[k], db)
    BY <2>3 DEF Recovered
  <2>5. Lasting(written[k], db, history, promised)
    BY <1>5 DEF DiskInv, LastingInv
  <2> QED
    BY <1>3, <1>4, <2>2, <2>3, <2>4, <2>5 DEF Lasting
<1>6. CASE Copying
  <2>1. Inv /\ committed # NoSlots /\ commitEnd > 0 /\ ScanEnd(log) = commitEnd
    BY <1>6, LogIsWhole DEF Copying, DiskInv, FileInv
  <2>2. Same(written[k], log, commitEnd)
    BY <1>6 DEF DiskInv, SyncedInv
  <2>3. Recovered(written[k], d) = Recovered(log, d)
    BY <2>1, <2>2, SameRecovers
  <2>4. \A p \in AllPages : p \notin DOMAIN committed => d.page[p] = db.page[p]
    <3>1. \A p \in AllPages \ DOMAIN committed :
              /\ dbDisk.page[p] = {db.page[p]}
              /\ \A n \in dbDisk.len : p >= n => db.page[p] = 0
      BY <1>6 DEF DiskInv, FileInv
    <3>2. d.len \in Int /\ \A p \in AllPages : p \in Int
      BY <1>2 DEF DbFile, AllPages
    <3> QED
      BY <1>2, <3>1, <3>2
  <2>5. Recovered(log, d) = Recovered(log, db)
    BY <2>1, <2>4, FramesOnCommitted, InvUndoable DEF Recovered
  <2>6. Len(history) \in promised..Len(history) /\ Recovered(log, db) = history[Len(history)]
    BY DEF DiskInv, HistoryInv, Stable, TypeOK
  <2>7. ScanEnd(lg) # 0
    BY <1>3, <2>1, <2>2 DEF Same
  <2> QED
    BY <1>4, <2>3, <2>5, <2>6, <2>7 DEF Lasting
<1> QED
  BY <1>5, <1>6

LEMMA PowerCutDisk ==
    ASSUME Tracked, PowerAssumption, PowerInv, PowerCut
    PROVE  TypeOK' /\ DiskInv' /\ Len(history') >= promised
<1>1. /\ log' \in OrderedSurvivors /\ written' = <<log'>> /\ db' \in DbSurvivors
      /\ dbDisk' = Settled(db') /\ pc' = "down" /\ durability' = "full"
      /\ LET k == Held(Recovered(log', db'))
         IN  IF k = {} THEN UNCHANGED <<history, promised>>
             ELSE /\ history' = SubSeq(history, 1, Max(k))
                  /\ promised' = Max(k)
      /\ meta' = committedMeta /\ metaDirty' = FALSE /\ after' = "return" /\ todo' = {}
      /\ crashes' = crashes + 1 /\ crashes < MaxCrashes
      /\ pending' = NoSlots /\ end' = commitEnd
      /\ UNCHANGED <<committedMeta, stamp, closes, generation, commitEnd, committed, lastGen,
                     headerOk>>
  BY DEF PowerCut, Crash, WalForget, PowerAssumption
<1>2. TypeOK /\ (pc # "down" => Inv) /\ DiskInv
  BY DEF PowerInv
<1>3. log' \in LogFile /\ Whole(log', lastGen)
  BY <1>1, <1>2, LogSurvives
<1>4. /\ db' \in DbFile
      /\ \A p \in AllPages : p >= db'.len => db'.page[p] = 0
  <2>1. /\ db' \in DbFile
        /\ \A p \in AllPages : IF p < db'.len THEN db'.page[p] \in dbDisk.page[p]
                               ELSE db'.page[p] = 0
    BY <1>1, <1>2, FileSurvives
  <2>2. db'.len \in Int /\ \A p \in AllPages : p \in Int
    BY <2>1 DEF DbFile, AllPages
  <2> QED
    BY <2>1, <2>2
<1>5. Lasting(log', db', history, promised)
  BY <1>1, <1>2, SurvivorsLast
<1> DEFINE held == Held(Stable')
           last == Max(held)
<1>6. PICK j \in promised..Len(history) : Stable' = history[j]
  BY <1>5 DEF Lasting, Stable
<1>7. /\ history \in Seq([AllPages -> Contents]) /\ Len(history) \in Nat
      /\ DOMAIN history = 1..Len(history) /\ promised \in DOMAIN history
  BY <1>2 DEF TypeOK, DiskInv, HistoryInv
<1>8. held \in SUBSET (0..Len(history)) /\ j \in held
  BY <1>6, <1>7 DEF Held
<1>9. history' = SubSeq(history, 1, last) /\ promised' = last
  BY <1>1, <1>8 DEF Stable
<1> HIDE DEF last
<1>10. last \in held /\ j <= last
  <2> HIDE DEF held
  <2> DEFINE n == Len(history)
  <2>0. n \in Int /\ held \in SUBSET (0..n) /\ held # {}
    BY <1>7, <1>8
  <2> HIDE DEF n
  <2>1. Max(held) \in held /\ \A x \in held : x <= Max(held)
    BY <2>0, MaxIn
  <2> QED
    BY <1>8, <2>1 DEF last
<1>11. last \in DOMAIN history /\ history[last] = Stable' /\ last >= promised
  BY <1>6, <1>7, <1>10 DEF Held
<1>12. /\ history' \in Seq([AllPages -> Contents]) /\ Len(history') = last
       /\ DOMAIN history' = 1..last
       /\ \A i \in 1..last : history'[i] = history[i]
  BY <1>7, <1>9, <1>11
<1>13. TypeOK'
  <2>1. IsSlotMap(pending)' /\ IsSlotMap(committed)'
    BY <1>1, <1>2 DEF IsSlotMap, NoSlots, TypeOK, WalTypeOK
  <2>2. written' \in Seq(LogFile)
    BY <1>1, <1>3
  <2>3. WalTypeOK'
    BY <1>1, <1>2, <1>3, <2>1, <2>2 DEF TypeOK, WalTypeOK
  <2>4. dbDisk' \in DbDisk
    BY <1>1, <1>4 DEF DbDisk, DbFile, Settled
  <2>5. metaDirty' \in BOOLEAN
    BY <1>1
  <2>7. crashes' \in 0..MaxCrashes
    BY <1>1, <1>2, PagerAssumption DEF TypeOK
  <2>6. promised' \in Nat
    BY <1>7, <1>9, <1>11
  <2> QED
    BY <1>1, <1>2, <1>4, <1>12, <2>3, <2>4, <2>5, <2>6, <2>7 DEF TypeOK
<1>14. DOMAIN written' = {1} /\ written'[1] = log' /\ Len(written') = 1
  BY <1>1
<1>15. ImagesInv'
  BY <1>1, <1>3, <1>14, ChainOne DEF ImagesInv
<1>16. FileInv' /\ SyncedInv' /\ ModeInv'
  BY <1>1, <1>4 DEF FileInv, SyncedInv, ModeInv, Copying
<1>17. HistoryInv'
  <2>1. \A i \in DOMAIN history : history[i][0] \in 1..MaxPage+1
    BY <1>2 DEF DiskInv, HistoryInv
  <2>2. \A i \in 1..last : history'[i][0] \in 1..MaxPage+1
    BY <1>7, <1>11, <1>12, <2>1
  <2>3. last \in 1..last
    BY <1>7, <1>11
  <2> QED
    BY <1>9, <1>11, <1>12, <2>2, <2>3 DEF HistoryInv
<1>18. LastingInv'
  <2>1. last \in last..Len(history') /\ Recovered(log', db') = history'[last]
    BY <1>7, <1>11, <1>12 DEF Stable
  <2>2. Lasting(log', db', history', promised')
    BY <1>5, <1>9, <2>1 DEF Lasting
  <2> QED
    BY <1>14, <2>2 DEF LastingInv
<1> QED
  BY <1>7, <1>11, <1>12, <1>13, <1>15, <1>16, <1>17, <1>18 DEF DiskInv
-----------------------------------------------------------------------------
(* The theorems.                                                           *)

LEMMA StepDisk ==
    ASSUME Tracked, PowerAssumption, Inv, DiskInv, Client \/ Step
    PROVE  Inv' /\ DiskInv'
<1>1. Inv'
  BY RunInv
<1>2. CASE Client
  BY <1>1, <1>2, ClientDisk
<1>3. CASE Step
  BY <1>1, <1>3, CheckpointStartDisk, CopyPageDisk, GrowFileDisk, FileSyncDisk, ResetDisk,
     LogSyncDisk, FinishSyncDisk, FinishCloseDisk DEF Step
<1> QED
  BY <1>2, <1>3

LEMMA NextPower ==
    ASSUME Tracked, PowerAssumption, PowerInv, [Next]_vars
    PROVE  PowerInv' /\ Len(history') >= promised
<1>1. TypeOK /\ (pc # "down" => Inv) /\ DiskInv
  BY DEF PowerInv
<1>2. Len(history) >= promised /\ Len(history) \in Nat
  BY <1>1 DEF DiskInv, HistoryInv, TypeOK
<1>3. CASE Open
  <2>1. Inv' /\ DiskInv'
    BY <1>1, <1>3, OpenDisk
  <2>2. UNCHANGED history
    BY <1>3 DEF Open, ghosts
  <2> QED
    BY <1>2, <2>1, <2>2 DEF PowerInv, Inv
<1>4. CASE Client \/ Step
  <2>1. pc # "down"
    BY <1>4 DEF Client, SetDurability, WritePage, AllocatePage, Rollback, Commit,
                CallCheckpoint, Step, CheckpointStart, CopyPage, GrowFile, FileSync, Reset,
                LogSync, FinishSync, FinishClose
  <2>2. Inv' /\ DiskInv'
    BY <1>1, <1>4, <2>1, StepDisk
  <2>3. history' = history \/ history' = Append(history, Readings)
    BY <1>4 DEF Client, SetDurability, WritePage, AllocatePage, Rollback, Commit,
                CallCheckpoint, Step, CheckpointStart, CopyPage, GrowFile, FileSync, Reset,
                LogSync, FinishSync, FinishClose, ghosts
  <2>4. Len(history') >= promised
    BY <1>1, <1>2, <2>3 DEF TypeOK
  <2> QED
    BY <2>2, <2>4 DEF PowerInv, Inv
<1>5. CASE Die \/ DieInLog \/ DieInCopy
  BY <1>5 DEF Die, DieInLog, DieInCopy, Crash, PowerAssumption
<1>6. CASE PowerCut
  <2>1. pc' = "down"
    BY <1>6 DEF PowerCut, Crash
  <2> QED
    BY <1>6, <2>1, PowerCutDisk DEF PowerInv
<1>7. CASE UNCHANGED vars
  <2>1. UNCHANGED <<walVars, pagerVars, dbVars, ghosts, bounds>>
    BY <1>7 DEF vars
  <2> USE DEF walVars, pagerVars, dbVars, ghosts, bounds
  <2>2. TypeOK'
    BY <1>1, <2>1 DEF TypeOK, WalTypeOK, IsSlotMap
  <2>3. pc' # "down" => Inv'
    BY <1>1, <2>1, <2>2
    DEF Inv, LogInv, MapInv, CheckpointInv, MetaInv, Mapped, InTransaction
  <2>4. ImagesInv' /\ FileInv' /\ HistoryInv'
    BY <1>1, <2>1 DEF DiskInv, ImagesInv, FileInv, HistoryInv, Stable, Copying
  <2>5. LastingInv' /\ SyncedInv' /\ ModeInv'
    BY <1>1, <2>1 DEF DiskInv, LastingInv, SyncedInv, ModeInv, Copying
  <2> QED
    BY <1>2, <2>1, <2>2, <2>3, <2>4, <2>5 DEF PowerInv, DiskInv
<1> QED
  BY <1>3, <1>4, <1>5, <1>6, <1>7 DEF Next

\* The log's images, the file and the states committed agree in every
\* reachable state, wherever power cuts fall, on a disk that keeps the order
\* of the log's writes: the invariant the next theorems follow from.
THEOREM PagerPowerInv == ASSUME Tracked, PowerAssumption PROVE Spec => []PowerInv
<1>1. Init => PowerInv
  BY InitDisk
<1>2. PowerInv /\ [Next]_vars => PowerInv'
  BY NextPower
<1> QED
  BY <1>1, <1>2, PTL DEF Spec

\* What a restart would find is exactly the last state committed -- after a
\* power cut, some whole number of transactions and no part of one.
THEOREM PagerRecoveredIsLast == ASSUME PowerAssumption PROVE Spec => []RecoveredIsLast
<1>1. CASE Tracked
  <2>1. PowerInv => RecoveredIsLast
    BY DEF PowerInv, DiskInv, HistoryInv, RecoveredIsLast
  <2> QED
    BY <1>1, <2>1, PagerPowerInv, PTL
<1>2. CASE ~Tracked
  <2>1. RecoveredIsLast
    BY <1>2 DEF RecoveredIsLast
  <2> QED
    BY <2>1, PTL
<1> QED
  BY <1>1, <1>2

\* The frames a checkpoint copies are on stable storage until it is done.
THEOREM PagerFramesDurableBeforeCopy ==
    ASSUME PowerAssumption PROVE Spec => []FramesDurableBeforeCopy
<1>1. CASE Tracked
  <2>1. PowerInv => FramesDurableBeforeCopy
    BY DEF PowerInv, DiskInv, SyncedInv, Copying, Same, FramesDurableBeforeCopy
  <2> QED
    BY <1>1, <2>1, PagerPowerInv, PTL
<1>2. CASE ~Tracked
  <2>1. FramesDurableBeforeCopy
    BY <1>2 DEF FramesDurableBeforeCopy
  <2> QED
    BY <2>1, PTL
<1> QED
  BY <1>1, <1>2

\* No power cut takes back a commit the caller was told of under kFull, nor
\* one a checkpoint has copied into the file and synced there.
THEOREM PagerPromisesKept == ASSUME PowerAssumption PROVE Spec => PromisesKept
<1>1. CASE Tracked
  <2>1. PowerInv /\ [Next]_vars => [Tracked => Len(history') >= promised]_vars
    BY <1>1, NextPower
  <2> QED
    BY <1>1, <2>1, PagerPowerInv, PTL DEF Spec, PromisesKept
<1>2. CASE ~Tracked
  <2>1. [Next]_vars => [Tracked => Len(history') >= promised]_vars
    BY <1>2
  <2> QED
    BY <2>1, PTL DEF Spec, PromisesKept
<1> QED
  BY <1>1, <1>2

\* Nor does a power cut leave a file the constructor refuses as too short.
THEOREM PagerPowerNeverShort ==
    ASSUME Tracked, PowerAssumption PROVE Spec => []NeverShort
<1>1. PowerInv => NeverShort
  <2> SUFFICES ASSUME PowerInv, ScanEnd(log) = 0 PROVE db.len >= db.page[0]
    BY DEF NeverShort
  <2>1. ~Copying
    BY LogIsWhole DEF PowerInv, DiskInv, FileInv, Copying
  <2>2. Len(written) \in DOMAIN written /\ written[Len(written)] = log
    BY DEF PowerInv, DiskInv, ImagesInv, Chain, TypeOK, WalTypeOK
  <2> QED
    BY <2>1, <2>2 DEF PowerInv, DiskInv, LastingInv, Lasting
<1> QED
  BY <1>1, PagerPowerInv, PTL
=============================================================================
