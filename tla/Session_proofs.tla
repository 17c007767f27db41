---------------------------- MODULE Session_proofs ----------------------------
(***************************************************************************)
(* Proofs about module Session, for every number of pages, slots, writes,  *)
(* crashes and failing calls: what a client was told and what it reads     *)
(* agree with what a restart would find, whatever fails between them.      *)
(***************************************************************************)
EXTENDS Session, Pager_proofs

USE WalAssumption, PagerAssumption, SessionAssumption
-----------------------------------------------------------------------------
(* Types, which hold even after the failures that break the promises.      *)

LogOK == /\ log \in LogFile
         /\ generation \in Nat /\ lastGen \in Nat
MapsOK == /\ IsSlotMap(committed) /\ IsSlotMap(pending)
          /\ todo \subseteq AllPages
          /\ pc = "copy" => todo \subseteq DOMAIN committed
FileOK == /\ db.page \in [AllPages -> Contents]
          /\ db.len \in Int
MetaOK == /\ meta \in Contents /\ committedMeta \in Contents
          /\ stamp \in 0..MaxStamp

StateOK == LogOK /\ MapsOK /\ FileOK /\ MetaOK

LEMMA ReadingsOK == StateOK => Readings \in [AllPages -> Contents]
<1> SUFFICES ASSUME StateOK, NEW q \in AllPages PROVE Read(q) \in Contents
  BY DEF Readings
<1>1. CASE q = 0
  BY <1>1 DEF Read, StateOK, MetaOK
<1>2. CASE q # 0 /\ Holds(q)
  <2>1. SlotOf(q) \in Slots
    BY <1>2 DEF Holds, SlotOf, StateOK, MapsOK, IsSlotMap
  <2> QED
    BY <1>2, <2>1 DEF Read, WalRead, StateOK, LogOK, LogFile, Frame
<1>3. CASE q # 0 /\ ~Holds(q)
  <2>1. 0 \in Contents
    BY DEF Contents
  <2> QED
    BY <1>3, <2>1 DEF Read, StateOK, FileOK
<1> QED
  BY <1>1, <1>2, <1>3

\* A frame written, whatever it was written over and under whatever header.
LEMMA WriteFrameOK ==
    ASSUME LogOK, NEW s \in Slots, NEW f \in Frame, WriteFrame(s, f)
    PROVE  log' \in LogFile
<1>1. WithHeader = [hdr |-> generation, frames |-> log.frames]
  BY DEF WithHeader, LogOK, LogFile
<1>2. WithHeader \in LogFile
  BY <1>1 DEF LogOK, LogFile
<1> DEFINE base == IF headerOk THEN log ELSE WithHeader
<1>3. base \in LogFile
  BY <1>2 DEF LogOK
<1>4. log' = [base EXCEPT !.frames[s] = f]
  BY DEF WriteFrame
<1> HIDE DEF base
<1> QED
  BY <1>3, <1>4 DEF LogFile

LEMMA FrameOfOK ==
    ASSUME StateOK, NEW p \in AllPages, NEW b \in BOOLEAN, NEW v \in Contents
    PROVE  FrameOf(p, b, v) \in Frame
  BY DEF FrameOf, Frame, StateOK, LogOK

LEMMA WalCommitOK ==
    ASSUME StateOK, WalCommit(meta)
    PROVE  /\ LogOK'
           /\ IsSlotMap(committed)' /\ IsSlotMap(pending)'
<1>1. end \in Slots /\ WriteFrame(end, FrameOf(0, TRUE, meta))
  BY DEF WalCommit
<1>2. 0 \in AllPages
  BY WalAssumption DEF AllPages
<1>3. FrameOf(0, TRUE, meta) \in Frame
  BY <1>2, FrameOfOK DEF StateOK, MetaOK
<1>4. log' \in LogFile
  BY <1>1, <1>3, WriteFrameOK DEF StateOK
<1>5. LogOK'
  BY <1>4 DEF LogOK, StateOK, WalCommit
<1>6. IsSlotMap(pending)'
  BY DEF WalCommit, IsSlotMap, NoSlots
<1>7. IsSlotMap(committed)'
  BY <1>1, <1>2 DEF WalCommit, IsSlotMap, StateOK, MapsOK
<1> QED
  BY <1>5, <1>6, <1>7

LEMMA CommitOK == ASSUME StateOK, NEW then \in Endings, Commit(then) PROVE StateOK'
<1>1. /\ WalCommit(meta)
      /\ committedMeta' = meta
      /\ pc' \in {"idle", "logSync", "checkpoint"}
      /\ UNCHANGED <<meta, db, stamp, todo>>
  BY DEF Commit, Committed, dbVars
<1>2. LogOK' /\ IsSlotMap(committed)' /\ IsSlotMap(pending)'
  BY <1>1, WalCommitOK
<1> QED
  BY <1>1, <1>2 DEF StateOK, MapsOK, FileOK, MetaOK

LEMMA WritePageOK == ASSUME StateOK, NEW p \in 1..MaxPage, WritePage(p) PROVE StateOK'
<1>1. /\ pc = "idle" /\ stamp' = stamp + 1 /\ stamp < MaxStamp
      /\ SlotFor(p) \in Slots
      /\ WriteFrame(SlotFor(p), FrameOf(p, FALSE, stamp'))
      /\ pending' = [q \in DOMAIN pending \cup {p} |->
                        IF q = p THEN SlotFor(p) ELSE pending[q]]
      /\ UNCHANGED <<generation, lastGen, committed, meta, committedMeta, pc, todo, db>>
  BY DEF WritePage, WalWrite, pagerVars, dbVars
<1>2. stamp' \in 0..MaxStamp /\ stamp' \in Contents /\ p \in AllPages
  BY <1>1 DEF StateOK, MetaOK, Contents, AllPages
<1>3. FrameOf(p, FALSE, stamp') \in Frame
  BY <1>2, FrameOfOK
<1>4. log' \in LogFile
  BY <1>1, <1>3, WriteFrameOK DEF StateOK
<1>5. IsSlotMap(pending)'
  BY <1>1, <1>2 DEF IsSlotMap, StateOK, MapsOK
<1> QED
  BY <1>1, <1>2, <1>4, <1>5 DEF StateOK, LogOK, MapsOK, FileOK, MetaOK, IsSlotMap

LEMMA AllocatePageOK == ASSUME StateOK, AllocatePage PROVE StateOK'
<1>1. meta' \in Contents
  BY DEF AllocatePage, StateOK, MetaOK, Contents
<1> QED
  BY <1>1 DEF AllocatePage, walVars, dbVars, ghosts, StateOK, LogOK, MapsOK, FileOK, MetaOK,
              IsSlotMap

LEMMA RollbackOK == ASSUME StateOK, Rollback PROVE StateOK'
  BY DEF Rollback, WalRollback, dbVars, ghosts, StateOK, LogOK, MapsOK, FileOK, MetaOK,
         IsSlotMap, NoSlots

\* What a scan finds are slots of the log.
LEMMA ScanMapOK == ASSUME LogOK PROVE IsSlotMap(ScanMap(log))
<1>1. MaxSlots \in Int /\ MaxSlots-1 \in Int
  OBVIOUS
<1> DEFINE ends == CommitEnds(log) \cup {0}
<1>2. ends \in SUBSET (0..MaxSlots) /\ ends # {}
  BY DEF CommitEnds
<1> HIDE DEF ends
<1>3. Max(ends) \in ends
  BY <1>1, <1>2, MaxIn
<1>4. ScanEnd(log) \in 0..MaxSlots
  BY <1>2, <1>3 DEF ScanEnd, ends
<1>5. ASSUME NEW p \in AllPages, FramesOn(log, p) # {} PROVE Max(FramesOn(log, p)) \in Slots
  <2> DEFINE on == FramesOn(log, p)
  <2>1. on \in SUBSET (0..MaxSlots-1) /\ on # {}
    BY <1>4, <1>5 DEF FramesOn
  <2> HIDE DEF on
  <2>2. Max(on) \in on
    BY <1>1, <2>1, MaxIn
  <2> QED
    BY <2>1, <2>2 DEF Slots, on
<1> QED
  BY <1>5 DEF ScanMap, IsSlotMap

LEMMA StableOK == StateOK => Stable \in [AllPages -> Contents]
<1> SUFFICES ASSUME StateOK, NEW p \in AllPages
             PROVE  IF FramesOn(log, p) = {} THEN db.page[p] \in Contents
                    ELSE log.frames[Max(FramesOn(log, p))].val \in Contents
  BY DEF Stable, Recovered
<1>1. CASE FramesOn(log, p) = {}
  BY <1>1 DEF StateOK, FileOK
<1>2. CASE FramesOn(log, p) # {}
  <2>1. Max(FramesOn(log, p)) \in Slots
    BY <1>2, ScanMapOK DEF StateOK, ScanMap, IsSlotMap
  <2> QED
    BY <1>2, <2>1 DEF StateOK, LogOK, LogFile, Frame
<1> QED
  BY <1>1, <1>2

LEMMA OpenOK == ASSUME StateOK, Open PROVE StateOK'
<1>1. /\ generation' \in Nat /\ lastGen' \in Nat /\ UNCHANGED log
  <2> DEFINE gen == IF log.hdr = NoGen THEN FreshGeneration ELSE log.hdr
  <2>1. gen \in Nat
    BY DEF FreshGeneration, Gap, StateOK, LogOK, LogFile
  <2>2. generation' = gen /\ lastGen' = Max({lastGen, gen}) /\ UNCHANGED log
    BY DEF Open, WalOpen
  <2> HIDE DEF gen
  <2>3. lastGen \in Nat
    BY DEF StateOK, LogOK
  <2>4. Max({lastGen, gen}) \in Nat
    BY <2>1, <2>3, MaxOfTwo
  <2> QED
    BY <2>1, <2>2, <2>4
<1>2. IsSlotMap(committed)' /\ IsSlotMap(pending)'
  <2>1. committed' = ScanMap(log) /\ pending' = NoSlots
    BY DEF Open, WalOpen
  <2>2. IsSlotMap(ScanMap(log))
    BY ScanMapOK DEF StateOK
  <2> QED
    BY <2>1, <2>2 DEF IsSlotMap, NoSlots
<1>3. meta' \in Contents /\ committedMeta' \in Contents
  <2>1. meta' = (IF 0 \in DOMAIN committed' THEN log.frames[committed'[0]].val ELSE db.page[0])
        /\ committedMeta' = meta'
    BY DEF Open
  <2>2. 0 \in DOMAIN committed' => committed'[0] \in Slots
    BY <1>2 DEF IsSlotMap
  <2>3. db.page[0] \in Contents
    BY DEF StateOK, FileOK, AllPages
  <2> QED
    BY <2>1, <2>2, <2>3 DEF StateOK, LogOK, LogFile, Frame
<1>4. pc' # "copy" /\ todo' = {} /\ UNCHANGED <<db, stamp>>
  BY DEF Open, dbVars, ghosts
<1> QED
  BY <1>1, <1>2, <1>3, <1>4 DEF StateOK, LogOK, MapsOK, FileOK, MetaOK

\* Writing a page of the database file, whatever is written.
LEMMA PageWrittenOK ==
    ASSUME FileOK, NEW p \in AllPages, NEW v \in Contents, db' = PageWritten(db, p, v)
    PROVE  FileOK'
<1>1. p + 1 \in Int
  BY DEF AllPages
<1>2. db' = [page |-> [db.page EXCEPT ![p] = v], len |-> Max({db.len, p + 1})]
  BY DEF PageWritten
<1>3. Max({db.len, p + 1}) \in Int
  BY <1>1, MaxOfTwo DEF FileOK
<1> QED
  BY <1>2, <1>3 DEF FileOK

\* The next page to copy is one of the pages the log holds.
LEMMA NextCopyOK ==
    ASSUME StateOK, pc = "copy", todo # {}
    PROVE  NextCopy \in todo /\ NextCopy \in AllPages /\ committed[NextCopy] \in Slots
<1>1. todo \in SUBSET Nat /\ todo \subseteq DOMAIN committed
  BY DEF StateOK, MapsOK, IsSlotMap, AllPages
<1>2. NextCopy \in todo
  BY <1>1, MinIn DEF NextCopy
<1> QED
  BY <1>1, <1>2 DEF StateOK, MapsOK, IsSlotMap

LEMMA CopyPageOK == ASSUME StateOK, CopyPage PROVE StateOK'
<1> DEFINE v == log.frames[committed[NextCopy]].val
<1>1. /\ NextCopy \in AllPages /\ v \in Contents
  BY NextCopyOK DEF CopyPage, StateOK, LogOK, LogFile, Frame
<1>2. /\ db' = PageWritten(db, NextCopy, v)
      /\ todo' \subseteq todo
      /\ UNCHANGED <<log, generation, lastGen, committed, pending, meta, committedMeta, stamp, pc>>
  BY DEF CopyPage, walVars, ghosts
<1> HIDE DEF v
<1>3. FileOK'
  BY <1>1, <1>2, PageWrittenOK DEF StateOK
<1> QED
  BY <1>2, <1>3 DEF StateOK, LogOK, MapsOK, MetaOK, IsSlotMap

LEMMA GrowFileOK == ASSUME StateOK, GrowFile PROVE StateOK'
<1>1. /\ db' = [page |-> db.page, len |-> Max({db.len, meta})]
      /\ pc' # "copy"
      /\ UNCHANGED <<log, generation, lastGen, committed, pending, meta, committedMeta, stamp,
                     todo>>
  BY DEF GrowFile, Grown, walVars, ghosts
<1>2. Max({db.len, meta}) \in Int
  <2>1. db.len \in Int /\ meta \in Int
    BY DEF StateOK, FileOK, MetaOK, Contents
  <2> QED
    BY <2>1, MaxOfTwo
<1> QED
  BY <1>1, <1>2 DEF StateOK, LogOK, MapsOK, FileOK, MetaOK, IsSlotMap

LEMMA ResetOK ==
    ASSUME StateOK, committed' = NoSlots, generation' = generation + 1,
           lastGen' = Max({lastGen, generation + 1}), pc' # "copy",
           log' \in {log, [log EXCEPT !.hdr = generation + 1], EmptyLog},
           UNCHANGED <<pending, meta, committedMeta, stamp, db, todo>>
    PROVE  StateOK'
<1>1. generation \in Nat /\ lastGen \in Nat /\ log \in LogFile
  BY DEF StateOK, LogOK
<1>2. Max({lastGen, generation + 1}) \in Nat
  <2>1. lastGen \in Nat /\ generation + 1 \in Nat
    BY <1>1
  <2> QED
    BY <2>1, MaxOfTwo
<1>3. log' \in LogFile
  <2>1. EmptyLog \in LogFile
    BY DEF EmptyLog, LogFile, Blank, Frame, AllPages, Contents, NoGen
  <2>2. [log EXCEPT !.hdr = generation + 1] \in LogFile
    BY <1>1 DEF LogFile
  <2> QED
    BY <1>1, <2>1, <2>2
<1> QED
  BY <1>1, <1>2, <1>3 DEF StateOK, LogOK, MapsOK, FileOK, MetaOK, IsSlotMap, NoSlots

\* Without power cuts a sync of the log changes no variable.
LEMMA WalSyncIdle == ASSUME WalSync PROVE UNCHANGED walVars
  BY DEF WalSync, walVars

LEMMA StepOK == ASSUME StateOK, Step PROVE StateOK'
<1> USE DEF walVars, dbVars, ghosts
<1>1. CASE CheckpointStart
  BY <1>1, WalSyncIdle
  DEF CheckpointStart, Checkpointed, StateOK, LogOK, MapsOK, FileOK, MetaOK, IsSlotMap
<1>2. CASE CopyPage
  BY <1>2, CopyPageOK
<1>3. CASE GrowFile
  BY <1>3, GrowFileOK
<1>4. CASE FileSync \/ LogSync \/ FinishSync
  BY <1>4, WalSyncIdle
  DEF FileSync, LogSync, FinishSync, Committed, StateOK, LogOK, MapsOK, FileOK, MetaOK,
      IsSlotMap
<1>5. CASE Reset
  BY <1>5, ResetOK DEF Reset, WalReset, Checkpointed
<1>6. CASE FinishClose
  BY <1>6, ResetOK DEF FinishClose, WalTruncate
<1> QED
  BY <1>1, <1>2, <1>3, <1>4, <1>5, <1>6 DEF Step

LEMMA BlankOK == Blank \in Frame
  BY DEF Blank, Frame, AllPages, Contents, NoGen

\* A frame that is not written, or half: the log keeps its shape.
LEMMA FrameFailsOK == ASSUME StateOK, NEW slot, FrameFails(slot) PROVE StateOK'
<1>2. log' \in LogFile
  <2>1. CASE UNCHANGED log
    BY <2>1 DEF StateOK, LogOK
  <2>2. CASE ~UNCHANGED log
    <3>1. PICK torn \in BOOLEAN :
            log' = [hdr |-> generation,
                    frames |-> IF torn THEN [log.frames EXCEPT ![slot] = Blank]
                               ELSE log.frames]
      BY <2>2 DEF FrameFails
    <3>2. (IF torn THEN [log.frames EXCEPT ![slot] = Blank] ELSE log.frames)
             \in [Slots -> Frame]
      BY BlankOK DEF StateOK, LogOK, LogFile
    <3> QED
      BY <3>1, <3>2 DEF StateOK, LogOK, LogFile
  <2> QED
    BY <2>1, <2>2
<1> QED
  BY <1>2 DEF FrameFails, pagerVars, dbVars, ghosts, StateOK, LogOK, MapsOK, FileOK, MetaOK,
              IsSlotMap

LEMMA CheckpointFailsOK == ASSUME StateOK, CheckpointFails PROVE StateOK'
<1>1. FileOK'
  <2>1. CASE UNCHANGED db
    BY <2>1 DEF StateOK, FileOK
  <2>2. CASE ~UNCHANGED db
    <3>1. PICK p \in todo \ {0} : p = NextCopy /\ db' = PageWritten(db, p, Torn)
      BY <2>2 DEF CheckpointFails
    <3>2. p \in AllPages /\ Torn \in Contents
      BY <3>1 DEF StateOK, MapsOK, Torn, Contents
    <3> QED
      BY <3>1, <3>2, PageWrittenOK DEF StateOK
  <2> QED
    BY <2>1, <2>2
<1> QED
  BY <1>1 DEF CheckpointFails, walVars, ghosts, StateOK, LogOK, MapsOK, MetaOK, IsSlotMap

LEMMA CrashOK == ASSUME StateOK, Die \/ DieInLog \/ DieInCopy PROVE StateOK'
<1>1. /\ meta' = committedMeta /\ todo' = {} /\ pc' = "down"
      /\ UNCHANGED <<committedMeta, stamp>>
  BY DEF Die, DieInLog, DieInCopy, Crash
<1>2. /\ IsSlotMap(committed)' /\ IsSlotMap(pending)'
      /\ UNCHANGED <<generation, lastGen>>
  BY DEF Die, DieInLog, DieInCopy, DieInWriteFrame, WalForget, StateOK, MapsOK, IsSlotMap,
         NoSlots
<1>3. log' \in LogFile
  <2>1. CASE UNCHANGED log
    BY <2>1 DEF StateOK, LogOK
  <2>2. CASE ~UNCHANGED log
    <3>1. PICK s \in Slots : DieInWriteFrame(s)
      BY <2>2 DEF Die, DieInLog, DieInCopy
    <3>2. PICK torn \in BOOLEAN :
            log' = [hdr |-> IF headerOk THEN log.hdr ELSE generation,
                    frames |-> IF torn THEN [log.frames EXCEPT ![s] = Blank] ELSE log.frames]
      BY <3>1 DEF DieInWriteFrame
    <3>3. (IF torn THEN [log.frames EXCEPT ![s] = Blank] ELSE log.frames) \in [Slots -> Frame]
      BY BlankOK DEF StateOK, LogOK, LogFile
    <3>4. (IF headerOk THEN log.hdr ELSE generation) \in Nat
      BY DEF StateOK, LogOK, LogFile
    <3> QED
      BY <3>2, <3>3, <3>4 DEF LogFile
  <2> QED
    BY <2>1, <2>2
<1>4. FileOK'
  <2>1. CASE UNCHANGED db
    BY <2>1 DEF StateOK, FileOK
  <2>2. CASE ~UNCHANGED db
    <3>1. /\ pc = "copy" /\ todo # {}
          /\ db' = PageWritten(db, NextCopy, Torn)
      BY <2>2 DEF Die, DieInLog, DieInCopy, dbVars
    <3>2. NextCopy \in AllPages /\ Torn \in Contents
      BY <3>1, NextCopyOK DEF Torn, Contents
    <3> QED
      BY <3>1, <3>2, PageWrittenOK DEF StateOK
  <2> QED
    BY <2>1, <2>2
<1> QED
  BY <1>1, <1>2, <1>3, <1>4 DEF StateOK, LogOK, MapsOK, MetaOK

LEMMA CallCheckpointOK ==
    ASSUME StateOK, NEW then \in Endings, CallCheckpoint(then) PROVE StateOK'
  BY DEF CallCheckpoint, walVars, dbVars, ghosts, StateOK, LogOK, MapsOK, FileOK, MetaOK,
         IsSlotMap

LEMMA SameOK == ASSUME StateOK, UNCHANGED vars PROVE StateOK'
  BY DEF vars, walVars, pagerVars, dbVars, ghosts, StateOK, LogOK, MapsOK, FileOK, MetaOK,
         IsSlotMap

\* Whatever a session does, or fails to do.
LEMMA StateStep == ASSUME StateOK, [SessionNext]_allVars PROVE StateOK'
<1>0. "return" \in Endings /\ "close" \in Endings
  BY DEF Endings
<1>1. CASE Request
  <2>1. \/ UNCHANGED vars \/ Commit("return") \/ Commit("close")
        \/ CallCheckpoint("close") \/ Rollback
    BY <1>1 DEF Request, Begin, StartStatement, CallCommit, CommitAll, CallRollback, Quit
  <2> QED
    BY <1>0, <2>1, SameOK, CommitOK, CallCheckpointOK, RollbackOK
<1>2. CASE Body
  BY <1>2, AllocatePageOK, WritePageOK DEF Body
<1>3. CASE Running
  <2>1. UNCHANGED vars \/ Commit("return") \/ Rollback \/ Open \/ Step
    BY <1>3 DEF Running, EndStatement, CommitAll, Acknowledge, Catch, PagerStep, Connect
  <2> QED
    BY <1>0, <2>1, SameOK, CommitOK, RollbackOK, OpenOK, StepOK
<1>4. CASE StatementError
  BY <1>4, SameOK DEF StatementError
<1>5. CASE WriteFails \/ CommitWriteFails
  BY <1>5, FrameFailsOK DEF WriteFails, CommitWriteFails
<1>6. CASE CommitFsyncFails
  <2>1. WalCommit(meta) /\ UNCHANGED <<pagerVars, dbVars, ghosts>>
    BY <1>6 DEF CommitFsyncFails
  <2>2. LogOK' /\ IsSlotMap(committed)' /\ IsSlotMap(pending)'
    BY <2>1, WalCommitOK
  <2>3. pc' # "copy"
    BY <1>6, <2>1 DEF CommitFsyncFails, pagerVars
  <2> QED
    BY <2>1, <2>2, <2>3 DEF pagerVars, dbVars, ghosts, StateOK, MapsOK, FileOK, MetaOK
<1>7. CASE CheckpointFails
  BY <1>7, CheckpointFailsOK
<1>8. CASE HeaderFails
  BY <1>8, ResetOK DEF HeaderFails, dbVars, ghosts
<1>9. CASE Killed
  BY <1>9, CrashOK DEF Killed
<1>10. CASE UNCHANGED allVars
  BY <1>10, SameOK DEF allVars
<1> QED
  BY <1>1, <1>2, <1>3, <1>4, <1>5, <1>6, <1>7, <1>8, <1>9, <1>10 DEF SessionNext, Failure

LEMMA SessionTypeStep ==
    ASSUME StateOK, SessionTypeOK, StateOK', [SessionNext]_allVars PROVE SessionTypeOK'
<1>1. Readings \in [AllPages -> Contents] /\ Stable \in [AllPages -> Contents]
  BY ReadingsOK, StableOK
<1>2. ASSUME NEW call, Fails(call) PROVE failed' \subseteq FailingCalls
  BY <1>2 DEF Fails, SessionTypeOK
<1> USE DEF SessionTypeOK
<1>3. CASE Request
  BY <1>1, <1>3
  DEF Request, Begin, StartStatement, CallCommit, CommitAll, CallRollback, Quit, Told,
      Waiting, sessionVars
<1>4. CASE Body
  BY <1>4 DEF Body, sessionVars
<1>5. CASE Running
  <2>1. CASE EndStatement
    <3>1. /\ running' \in {"none", "commit"}
          /\ running' = "commit" => ~inTxn
          /\ attempted' \in {attempted, Readings}
      BY <2>1 DEF EndStatement, CommitAll
    <3> QED
      BY <1>1, <2>1, <3>1 DEF EndStatement
  <2>2. CASE Acknowledge
    BY <1>1, <2>2 DEF Acknowledge
  <2>3. CASE Catch
    BY <2>3 DEF Catch, Told
  <2>4. CASE PagerStep
    <3>1. CASE Connect
      <4>1. acked' = Stable /\ attempted' = Stable /\ UNCHANGED <<inTxn, running, failed>>
        BY <3>1 DEF Connect
      <4> QED
        BY <1>1, <4>1
    <3>2. CASE UNCHANGED sessionVars
      BY <3>2 DEF sessionVars
    <3> QED
      BY <2>4, <3>1, <3>2 DEF PagerStep
  <2> QED
    BY <1>5, <2>1, <2>2, <2>3, <2>4 DEF Running
<1>6. CASE StatementError
  BY <1>6 DEF StatementError, Told
<1>7. CASE WriteFails \/ CommitWriteFails
  BY <1>2, <1>7 DEF WriteFails, CommitWriteFails, Thrown, Waiting
<1>8. CASE CommitFsyncFails \/ CheckpointFails \/ HeaderFails
  BY <1>1, <1>2, <1>8 DEF CommitFsyncFails, CheckpointFails, HeaderFails, Thrown
<1>9. CASE Killed
  BY <1>9 DEF Killed, Told
<1>10. CASE UNCHANGED allVars
  BY <1>10 DEF allVars, sessionVars
<1> QED
  BY <1>3, <1>4, <1>5, <1>6, <1>7, <1>8, <1>9, <1>10 DEF SessionNext, Failure

LEMMA InvOK == Inv => StateOK
<1> SUFFICES ASSUME Inv PROVE StateOK
  OBVIOUS
<1>1. LogOK
  BY DEF Inv, TypeOK, WalTypeOK, LogOK
<1>2. MapsOK
  BY DEF Inv, TypeOK, WalTypeOK, CheckpointInv, MapsOK
<1>3. FileOK
  BY DEF Inv, TypeOK, DbFile, FileOK
<1>4. MetaOK
  BY DEF Inv, TypeOK, MetaOK, Contents
<1> QED
  BY <1>1, <1>2, <1>3, <1>4 DEF StateOK

LEMMA SessionInitOK == SessionInit => Inv /\ StateOK /\ SessionTypeOK
<1> SUFFICES ASSUME SessionInit PROVE Inv /\ StateOK /\ SessionTypeOK
  OBVIOUS
<1>1. Inv /\ StateOK
  BY InitInv, InvOK DEF SessionInit
<1>2. SessionTypeOK
  <2>1. db.page \in [AllPages -> Contents]
    BY <1>1 DEF StateOK, FileOK
  <2>2. inTxn \in BOOLEAN
    BY DEF SessionInit
  <2> QED
    BY <2>1, <2>2 DEF SessionInit, SessionTypeOK
<1> QED
  BY <1>1, <1>2

\* What a session remembers and what the client was told keep their types, and
\* a commit under way has left the transaction it ends, whatever fails.
THEOREM SessionType == SessionSpec => []SessionTypeOK
<1> DEFINE OK == StateOK /\ SessionTypeOK
<1>1. SessionInit => OK
  BY SessionInitOK
<1>2. OK /\ [SessionNext]_allVars => OK'
  BY StateStep, SessionTypeStep
<1> QED
  BY <1>1, <1>2, PTL DEF SessionSpec
-----------------------------------------------------------------------------
(* What the failures the code is written for leave true.                   *)

\* The pager's invariant -- but, between a write that failed and its rollback,
\* only what the rollback relies on -- and where a transaction can be.
Sound ==
    /\ IF running = "failed" THEN Undoable ELSE Inv
    /\ attempted = Mapped
    /\ pc # "copy" => todo = {}
    /\ running \in {"statement", "failed"} => pc = "idle"
    /\ running \in {"commit", "COMMIT"} => ~InTransaction
    /\ Waiting /\ ~inTxn => ~InTransaction

LEMMA SameMapped ==
    ASSUME UNCHANGED vars
    PROVE  Mapped' = Mapped /\ (InTransaction' <=> InTransaction)
  BY DEF vars, walVars, pagerVars, dbVars, Mapped, InTransaction

LEMMA SameInv == ASSUME Inv, UNCHANGED vars PROVE Inv'
  BY NextInv

LEMMA UndoableNext == Inv' => Undoable'
<1>1. (Inv => Undoable)'
  BY InvUndoable, PTL
<1> QED
  BY <1>1

LEMMA SameUndoable == ASSUME Undoable, UNCHANGED vars PROVE Undoable'
<1> USE DEF vars, walVars, pagerVars, dbVars, ghosts, bounds
<1>1. UndoTypeOK'
  BY DEF Undoable, UndoTypeOK, IsSlotMap
<1>2. UndoLogInv' /\ UndoMapInv'
  BY DEF Undoable, UndoLogInv, UndoMapInv
<1>3. UndoMetaInv'
  BY DEF Undoable, UndoMetaInv, Mapped
<1> QED
  BY <1>1, <1>2, <1>3 DEF Undoable

\* Recoveries, syncs and checkpoints keep what is committed, and begin and end
\* outside transactions.
LEMMA PagerStepKeeps ==
    ASSUME Inv, Open \/ Step, pc # "copy" => todo = {}
    PROVE  /\ Inv' /\ Mapped' = Mapped
           /\ ~InTransaction /\ ~InTransaction'
           /\ pc' # "copy" => todo' = {}
<1>0. DOMAIN NoSlots = {}
  BY DEF NoSlots
<1>1. CASE Open
  <2>1. Inv' /\ Mapped' = Mapped
    BY <1>1, OpenInv
  <2> QED
    BY <1>1, <2>1 DEF Open, WalOpen, InTransaction, Inv, CheckpointInv
<1>2. CASE CheckpointStart \/ LogSync \/ FileSync \/ FinishSync
  <2>1. Inv'
    BY <1>2, CheckpointStartInv, LogSyncInv, FileSyncInv, FinishSyncInv
  <2>2. UNCHANGED walVars /\ UNCHANGED <<db, metaDirty>> /\ pc # "idle"
    BY <1>2, WalSyncIdle DEF LogSync, CheckpointStart, FileSync, FinishSync, dbVars
  <2>3. pc' # "copy" => todo' = {}
    BY <1>0, <1>2 DEF LogSync, CheckpointStart, FileSync, FinishSync, Committed, Checkpointed
  <2> QED
    BY <2>1, <2>2, <2>3 DEF Mapped, InTransaction, walVars, Inv, CheckpointInv
<1>3. CASE CopyPage \/ GrowFile
  <2>1. Inv' /\ Mapped' = Mapped
    BY <1>3, CopyPageInv, GrowFileInv
  <2> QED
    BY <1>3, <2>1 DEF CopyPage, GrowFile, InTransaction, walVars, Inv, CheckpointInv
<1>4. CASE Reset \/ FinishClose
  <2>1. Inv' /\ Mapped' = Mapped
    BY <1>4, ResetInv, FinishCloseInv
  <2> QED
    BY <1>4, <2>1
    DEF Reset, WalReset, FinishClose, WalTruncate, Checkpointed, InTransaction, Inv,
        CheckpointInv
<1> QED
  BY <1>1, <1>2, <1>3, <1>4 DEF Step

\* A write that fails: what it was to change stays as far as a rollback looks.
LEMMA FrameFailsKeeps ==
    ASSUME Inv, pc = "idle",
           NEW slot \in {pending[p] : p \in DOMAIN pending} \cup {end}, FrameFails(slot)
    PROVE  Undoable' /\ Mapped' = Mapped
<1>1. Undoable /\ slot \in Nat /\ end \in Nat /\ commitEnd <= end /\ slot >= commitEnd
  <2>1. Undoable
    BY InvUndoable
  <2>2. end \in Nat /\ \A p \in DOMAIN pending : pending[p] \in Nat
    BY DEF Inv, TypeOK, WalTypeOK, IsSlotMap, Slots
  <2> QED
    BY <2>1, <2>2 DEF Undoable, UndoMapInv
<1>2. /\ end' = Max({end, slot + 1})
      /\ UNCHANGED <<written, generation, commitEnd, committed, pending, lastGen,
                     pagerVars, dbVars, ghosts, bounds>>
  BY DEF FrameFails
<1>3. end' \in Nat /\ commitEnd <= end'
  BY <1>1, <1>2, MaxOfTwo DEF Undoable, UndoTypeOK
<1>4. /\ log' \in LogFile /\ headerOk' \in BOOLEAN /\ UndoLogInv'
      /\ \A t \in Slots : t < commitEnd => log'.frames[t] = log.frames[t]
  <2>1. CASE UNCHANGED <<log, headerOk>>
    BY <1>1, <1>2, <2>1 DEF Undoable, UndoTypeOK, UndoLogInv, pagerVars
  <2>2. CASE slot \in Slots /\ headerOk' = TRUE
             /\ \E torn \in BOOLEAN :
                   log' = [hdr |-> generation,
                           frames |-> IF torn THEN [log.frames EXCEPT ![slot] = Blank]
                                      ELSE log.frames]
    BY <1>1, <1>2, <2>2, TornFrame
  <2> QED
    BY <2>1, <2>2 DEF FrameFails
<1>5. \A p \in DOMAIN committed :
          committed[p] \in Slots /\ log'.frames[committed[p]] = log.frames[committed[p]]
  BY <1>1, <1>4 DEF Undoable, UndoTypeOK, UndoMapInv, IsSlotMap
<1>6. Mapped' = Mapped
  BY <1>2, <1>5 DEF Mapped, dbVars
<1> USE DEF pagerVars, dbVars, ghosts, bounds
<1>7. UndoTypeOK'
  BY <1>1, <1>2, <1>4 DEF Undoable, UndoTypeOK, IsSlotMap
<1>8. UndoMapInv'
  BY <1>1, <1>2, <1>3, <1>4, <1>5 DEF Undoable, UndoMapInv
<1>9. UndoMetaInv'
  BY <1>1, <1>2, <1>6 DEF Undoable, UndoMetaInv
<1> QED
  BY <1>4, <1>6, <1>7, <1>8, <1>9 DEF Undoable

\* A checkpoint that throws: the pages it has copied, and the one it may have
\* torn, are committed in the log still.
LEMMA CheckpointFailsKeeps ==
    ASSUME Inv, CheckpointFails, pc # "copy" => todo = {}
    PROVE  Inv' /\ Mapped' = Mapped /\ ~InTransaction'
<1>1. /\ pc \in {"copy", "fileSync"} /\ pc' = "idle" /\ todo' = {}
      /\ dbDisk' = Settled(db')
      /\ UNCHANGED <<walVars, meta, committedMeta, metaDirty, durability, after, ghosts, bounds>>
  BY DEF CheckpointFails
<1>3. /\ db' \in DbFile /\ dbDisk' \in DbDisk /\ Mapped' = Mapped
      /\ \A q \in AllPages : q >= db'.len => db'.page[q] = 0
      /\ committed = NoSlots => UNCHANGED db
  <2>1. CASE UNCHANGED db
    <3>1. dbDisk' \in DbDisk
      BY <1>1, <2>1 DEF Inv, TypeOK, DbFile, DbDisk, Settled
    <3> QED
      BY <1>1, <2>1, <3>1 DEF Inv, TypeOK, MetaInv, Mapped, walVars
  <2>2. CASE ~UNCHANGED db
    <3>1. PICK p \in todo \ {0} : db' = PageWritten(db, p, Torn)
      BY <2>2 DEF CheckpointFails
    <3>2. pc = "copy" /\ p \in DOMAIN committed /\ p \in AllPages
      BY <3>1 DEF Inv, TypeOK, CheckpointInv
    <3>3. Torn \in Contents
      BY DEF Torn, Contents
    <3>4. /\ db' \in DbFile /\ dbDisk' \in DbDisk
          /\ db'.page = [db.page EXCEPT ![p] = Torn]
          /\ db'.len >= db.len /\ db'.len >= p + 1
      BY <1>1, <3>1, <3>2, <3>3, PageWrittenType
    <3>5. db.page \in [AllPages -> Contents] /\ db.len \in Int /\ db'.len \in Int
      BY <3>4 DEF Inv, TypeOK, DbFile
    <3>6. Mapped' = Mapped
      BY <1>1, <3>2, <3>4, <3>5 DEF Mapped, walVars
    <3>7. \A q \in AllPages : q >= db'.len => db'.page[q] = 0
      BY <3>2, <3>4, <3>5 DEF Inv, MetaInv, AllPages
    <3>8. committed # NoSlots
      BY <3>2 DEF NoSlots
    <3> QED
      BY <3>4, <3>6, <3>7, <3>8
  <2> QED
    BY <2>1, <2>2
<1>4. WalTypeOK' /\ LogInv' /\ MapInv'
  BY <1>1, WalSyncQuiet, WalQuiet DEF Inv, TypeOK
<1>5. TypeOK'
  BY <1>1, <1>3, <1>4 DEF Inv, TypeOK, ghosts, bounds
<1>6. CheckpointInv' /\ ~InTransaction'
  BY <1>1 DEF Inv, CheckpointInv, InTransaction, walVars
<1>7. MetaInv'
  BY <1>1, <1>3 DEF Inv, MetaInv, walVars
<1> QED
  BY <1>3, <1>4, <1>5, <1>6, <1>7 DEF Inv

\* The failures that are not handled leave their name in `failed' for good.
LEMMA HandledBefore ==
    ASSUME [SessionNext]_allVars, Handled'
    PROVE  /\ Handled
           /\ ~(CommitWriteFails \/ CommitFsyncFails \/ HeaderFails)
<1>1. ASSUME NEW call, Fails(call) PROVE call \in {"write", "copy"} /\ Handled
  BY <1>1 DEF Fails, Handled
<1>2. ~(CommitWriteFails \/ CommitFsyncFails \/ HeaderFails)
  BY <1>1 DEF CommitWriteFails, CommitFsyncFails, HeaderFails
<1>3. ASSUME UNCHANGED failed PROVE Handled
  BY <1>3 DEF Handled
<1>4. ASSUME WriteFails \/ CheckpointFails PROVE Handled
  BY <1>1, <1>3, <1>4 DEF WriteFails, CheckpointFails
<1>5. ASSUME Request \/ Body \/ Running PROVE Handled
  BY <1>3, <1>5
  DEF Request, Begin, StartStatement, CallCommit, CallRollback, Quit, Body, Running,
      EndStatement, Acknowledge, Catch, PagerStep, Connect, Told, sessionVars
<1>6. ASSUME StatementError \/ Killed \/ UNCHANGED allVars PROVE Handled
  BY <1>3, <1>6 DEF StatementError, Killed, Told, allVars, sessionVars
<1> QED
  BY <1>2, <1>4, <1>5, <1>6 DEF SessionNext, Failure

\* A commit, or the end of a transaction that changed nothing.
LEMMA CommitAllKeeps ==
    ASSUME Inv, NEW next \in {"commit", "COMMIT"}, CommitAll(next), pc = "idle", todo = {},
           attempted = Mapped
    PROVE  /\ Inv' /\ attempted' = Mapped' /\ ~InTransaction'
           /\ running' \in {"none", next} /\ todo' = {}
<1>0. "return" \in Endings
  BY DEF Endings
<1>1. CASE InTransaction
  <2>1. Commit("return") /\ attempted' = Readings /\ running' = next
    BY <1>1 DEF CommitAll
  <2>2. Inv' /\ Mapped' = Readings
    BY <1>0, <2>1, CommitInv
  <2> QED
    BY <2>1, <2>2 DEF Commit, WalCommit, InTransaction
<1>2. CASE ~InTransaction
  <2>1. UNCHANGED vars /\ running' = "none" /\ attempted' = attempted
    BY <1>2 DEF CommitAll
  <2>2. todo' = todo
    BY <2>1 DEF vars, pagerVars
  <2> QED
    BY <1>2, <2>1, <2>2, SameInv, SameMapped
<1> QED
  BY <1>1, <1>2

\* The client's requests, and the end of a statement's body.
LEMMA RequestSound ==
    ASSUME Sound, SessionTypeOK, Request \/ EndStatement \/ Acknowledge \/ StatementError
    PROVE  Sound'
<1> USE DEF Sound
<1>1. CASE Begin \/ StartStatement \/ Acknowledge \/ StatementError
  <2>1. UNCHANGED vars /\ running # "failed" /\ UNCHANGED attempted
    BY <1>1 DEF Begin, StartStatement, Acknowledge, StatementError, Waiting, Told
  <2>2. UNCHANGED <<pc, todo>>
    BY <2>1 DEF vars, pagerVars
  <2>3. Inv' /\ Undoable' /\ Mapped' = Mapped /\ (InTransaction' <=> InTransaction)
    BY <2>1, SameInv, SameMapped, SameUndoable, InvUndoable
  <2> QED
    BY <1>1, <2>1, <2>2, <2>3
    DEF Begin, StartStatement, Acknowledge, StatementError, Waiting
<1>2. CASE CallCommit
  <2>1. /\ Inv /\ pc = "idle" /\ todo = {} /\ CommitAll("COMMIT")
    BY <1>2 DEF CallCommit, Waiting
  <2>2. /\ Inv' /\ attempted' = Mapped' /\ ~InTransaction'
        /\ running' \in {"none", "COMMIT"} /\ todo' = {}
    BY <2>1, CommitAllKeeps
  <2> QED
    BY <2>2
<1>3. CASE EndStatement
  <2>1. Inv /\ pc = "idle" /\ todo = {}
    BY <1>3 DEF EndStatement
  <2>2. CASE inTxn
    <3>1. UNCHANGED vars /\ running' = "none" /\ attempted' = attempted /\ inTxn' = inTxn
      BY <1>3, <2>2 DEF EndStatement
    <3>2. todo' = todo
      BY <3>1 DEF vars, pagerVars
    <3>3. Inv' /\ Mapped' = Mapped
      BY <2>1, <3>1, SameInv, SameMapped
    <3> QED
      BY <2>1, <2>2, <3>1, <3>2, <3>3
  <2>3. CASE ~inTxn
    <3>1. CommitAll("commit")
      BY <1>3, <2>3 DEF EndStatement
    <3>2. /\ Inv' /\ attempted' = Mapped' /\ ~InTransaction'
          /\ running' \in {"none", "commit"} /\ todo' = {}
      BY <2>1, <3>1, CommitAllKeeps
    <3> QED
      BY <3>2
  <2> QED
    BY <2>2, <2>3
<1>4. CASE CallRollback
  <2>1. Rollback /\ running' = "none" /\ running = "none" /\ attempted' = attempted
    BY <1>4 DEF CallRollback, Waiting, Told
  <2>2. Inv' /\ Mapped' = Mapped
    BY <2>1, InvUndoable, RollbackInv
  <2>3. ~InTransaction' /\ UNCHANGED <<pc, todo>>
    BY <2>1 DEF Rollback, WalRollback, InTransaction
  <2> QED
    BY <2>1, <2>2, <2>3
<1>5. CASE Quit
  <2>1. /\ CallCheckpoint("close") /\ ~InTransaction
        /\ running = "none" /\ UNCHANGED <<running, attempted>>
    BY <1>5 DEF Quit, Waiting, sessionVars
  <2>2. "close" \in Endings
    BY DEF Endings
  <2>3. Inv'
    BY <2>1, <2>2, CallCheckpointInv
  <2>4. Mapped' = Mapped /\ pc' # "copy" /\ pc' # "idle"
    BY <2>1 DEF CallCheckpoint, Mapped, walVars, dbVars
  <2>5. todo' = {}
    BY <2>1 DEF CallCheckpoint
  <2> QED
    BY <2>1, <2>3, <2>4, <2>5 DEF Waiting
<1> QED
  BY <1>1, <1>2, <1>3, <1>4, <1>5 DEF Request

\* The body of a statement, its rollback, and the calls that throw.
LEMMA BodySound ==
    ASSUME Sound, SessionTypeOK, Body \/ Catch \/ PagerStep \/ WriteFails \/ CheckpointFails
    PROVE  Sound'
<1> USE DEF Sound
<1>1. CASE Body
  <2>1. /\ Inv /\ running = "statement" /\ pc = "idle" /\ todo = {}
        /\ UNCHANGED <<running, attempted>>
    BY <1>1 DEF Body, sessionVars
  <2>2. Inv' /\ Mapped' = Mapped /\ UNCHANGED <<pc, todo>>
    <3>1. CASE AllocatePage
      BY <2>1, <3>1, AllocatePageInv DEF AllocatePage, Mapped, walVars, dbVars
    <3>2. ASSUME NEW p \in 1..MaxPage, WritePage(p)
          PROVE  Inv' /\ Mapped' = Mapped /\ UNCHANGED <<pc, todo>>
      BY <2>1, <3>2, WritePageInv DEF WritePage, pagerVars
    <3> QED
      BY <1>1, <3>1, <3>2 DEF Body
  <2> QED
    BY <2>1, <2>2 DEF Waiting
<1>2. CASE Catch
  <2>1. Rollback /\ Undoable /\ running' = "none" /\ attempted' = attempted
    BY <1>2 DEF Catch, Told
  <2>2. Inv' /\ Mapped' = Mapped
    BY <2>1, RollbackInv
  <2>3. ~InTransaction' /\ UNCHANGED <<pc, todo>>
    BY <2>1 DEF Rollback, WalRollback, InTransaction
  <2> QED
    BY <2>1, <2>2, <2>3
<1>3. CASE PagerStep
  <2>1. (Open \/ Step) /\ running' = running /\ pc # "idle"
    BY <1>3
    DEF PagerStep, Connect, sessionVars, Open, Step, CheckpointStart, CopyPage, GrowFile,
        FileSync, Reset, LogSync, FinishSync, FinishClose
  <2>2. Inv /\ Stable = Mapped
    BY <2>1, InvUndoable, RecoveredIsMapped DEF Stable
  <2>4. attempted' = Mapped
    BY <1>3, <2>2 DEF PagerStep, Connect, sessionVars
  <2>3. /\ Inv' /\ Mapped' = Mapped /\ ~InTransaction'
        /\ pc' # "copy" => todo' = {}
    BY <2>1, <2>2, PagerStepKeeps
  <2> QED
    BY <2>1, <2>3, <2>4
<1>4. CASE WriteFails
  <2>1. /\ running = "statement" /\ running' = "failed" /\ pc = "idle"
        /\ \E slot \in {pending[p] : p \in DOMAIN pending} \cup {end} : FrameFails(slot)
        /\ attempted' = attempted
    BY <1>4 DEF WriteFails, Thrown
  <2>2. Undoable' /\ Mapped' = Mapped
    BY <2>1, FrameFailsKeeps
  <2>3. UNCHANGED <<pc, todo>>
    BY <2>1 DEF FrameFails, pagerVars
  <2> QED
    BY <2>1, <2>2, <2>3 DEF Waiting
<1>5. CASE CheckpointFails
  <2>1. running \in {"commit", "COMMIT"} /\ attempted' = attempted
        /\ pc' = "idle" /\ todo' = {} /\ running' \in {"none", "failed"}
    BY <1>5 DEF CheckpointFails, Thrown
  <2>2. Inv' /\ Mapped' = Mapped /\ ~InTransaction'
    BY <1>5, <2>1, CheckpointFailsKeeps
  <2>3. Undoable'
    BY <2>2, UndoableNext
  <2> QED
    BY <2>1, <2>2, <2>3
<1> QED
  BY <1>1, <1>2, <1>3, <1>4, <1>5

LEMMA KilledSound == ASSUME Sound, Killed PROVE Sound'
<1>1. running' = "none" /\ UNCHANGED attempted
  BY DEF Killed, Told
<1>2. pc' = "down" /\ todo' = {}
  BY DEF Killed, Die, DieInLog, DieInCopy, Crash
<1>3. Undoable
  BY InvUndoable DEF Sound
<1>4. Inv' /\ Mapped' = Mapped
  <2>1. CASE Die \/ DieInLog
    BY <1>3, <2>1, DieInv, DieInLogInv
  <2>2. CASE DieInCopy
    <3>1. Inv
      BY <2>2 DEF Sound, DieInCopy
    <3> QED
      BY <2>2, <3>1, DieInCopyInv
  <2> QED
    BY <2>1, <2>2 DEF Killed
<1> QED
  BY <1>1, <1>2, <1>4 DEF Sound, Waiting

LEMMA SoundStep ==
    ASSUME Sound, SessionTypeOK, [SessionNext]_allVars, Handled' PROVE Sound'
<1>1. CASE UNCHANGED allVars
  <2>1. UNCHANGED vars /\ UNCHANGED sessionVars
    BY <1>1 DEF allVars
  <2>2. /\ Mapped' = Mapped /\ (InTransaction' <=> InTransaction)
        /\ Inv => Inv'
        /\ Undoable => Undoable'
    BY <2>1, SameInv, SameUndoable, SameMapped
  <2> QED
    BY <2>1, <2>2 DEF vars, pagerVars, sessionVars, Sound, Waiting
<1> QED
  BY <1>1, HandledBefore, RequestSound, BodySound, KilledSound
  DEF SessionNext, Running, Failure

LEMMA SoundMeaning ==
    ASSUME Sound
    PROVE  /\ Stable = attempted
           /\ ReadsAreStable
<1>1. Undoable
  BY InvUndoable DEF Sound
<1>2. Stable = Mapped
  BY <1>1, RecoveredIsMapped DEF Stable
<1>3. ASSUME Waiting, ~inTxn PROVE Readings = Mapped
  BY <1>3, Outside DEF Sound, Waiting
<1> QED
  BY <1>2, <1>3 DEF Sound, ReadsAreStable
-----------------------------------------------------------------------------
(* What a transaction that failed leaves: nothing, if nothing but a write   *)
(* failed.                                                                 *)

\* But for a commit under way, and a kill until the next connection, what was
\* last committed is what the client knows of.
Known == running \notin {"commit", "COMMIT"} /\ pc # "down" => acked = attempted

LEMMA UndoneBefore ==
    ASSUME [SessionNext]_allVars, Undone'
    PROVE  /\ Undone
           /\ ~(CommitWriteFails \/ CommitFsyncFails \/ CheckpointFails \/ HeaderFails)
<1>1. ASSUME NEW call, Fails(call) PROVE call = "write" /\ Undone
  BY <1>1 DEF Fails, Undone
<1>2. ~(CommitWriteFails \/ CommitFsyncFails \/ CheckpointFails \/ HeaderFails)
  BY <1>1 DEF CommitWriteFails, CommitFsyncFails, CheckpointFails, HeaderFails
<1>3. ASSUME UNCHANGED failed PROVE Undone
  BY <1>3 DEF Undone
<1>4. ASSUME WriteFails PROVE Undone
  BY <1>1, <1>3, <1>4 DEF WriteFails
<1>5. ASSUME Request \/ Body \/ Running PROVE Undone
  BY <1>3, <1>5
  DEF Request, Begin, StartStatement, CallCommit, CallRollback, Quit, Body, Running,
      EndStatement, Acknowledge, Catch, PagerStep, Connect, Told, sessionVars
<1>6. ASSUME StatementError \/ Killed \/ UNCHANGED allVars PROVE Undone
  BY <1>3, <1>6 DEF StatementError, Killed, Told, allVars, sessionVars
<1> QED
  BY <1>2, <1>4, <1>5, <1>6 DEF SessionNext, Failure

LEMMA KnownStep ==
    ASSUME Sound, SessionTypeOK, Known, [SessionNext]_allVars, Undone' PROVE Known'
<1> USE DEF Known
<1>1. CASE Begin \/ StartStatement \/ CallRollback \/ Quit
  BY <1>1 DEF Begin, StartStatement, CallRollback, Quit, Waiting, Told, sessionVars
<1>2. CASE CallCommit
  BY <1>2 DEF CallCommit, CommitAll, Waiting
<1>3. CASE EndStatement
  <2>1. pc # "down"
    BY <1>3 DEF Sound, EndStatement
  <2> QED
    BY <1>3, <2>1 DEF EndStatement, CommitAll
<1>4. CASE Acknowledge
  <2>1. Inv /\ pc = "idle" /\ ~InTransaction /\ attempted = Mapped
    BY <1>4 DEF Acknowledge, Sound
  <2>2. Readings = Mapped
    BY <2>1, Outside
  <2> QED
    BY <1>4, <2>1, <2>2 DEF Acknowledge
<1>5. CASE Body \/ StatementError \/ Catch \/ WriteFails
  <2>1. running \in {"statement", "failed"} /\ UNCHANGED <<acked, attempted>>
    BY <1>5 DEF Body, StatementError, Catch, WriteFails, Told, sessionVars
  <2> QED
    BY <2>1 DEF Sound
<1>6. CASE PagerStep
  <2>1. CASE Connect
    BY <2>1 DEF Connect
  <2>2. CASE Step /\ UNCHANGED sessionVars
    <3>1. pc # "down"
      BY <2>2
      DEF Step, CheckpointStart, CopyPage, GrowFile, FileSync, Reset, LogSync, FinishSync,
          FinishClose
    <3> QED
      BY <2>2, <3>1 DEF sessionVars
  <2> QED
    BY <1>6, <2>1, <2>2 DEF PagerStep
<1>7. CASE Killed
  BY <1>7 DEF Killed, Die, DieInLog, DieInCopy, Crash
<1>8. CASE UNCHANGED allVars
  BY <1>8 DEF allVars, vars, pagerVars, sessionVars
<1> QED
  BY <1>1, <1>2, <1>3, <1>4, <1>5, <1>6, <1>7, <1>8, UndoneBefore
  DEF SessionNext, Request, Running, Failure

LEMMA KnownMeaning == ASSUME Sound, Known PROVE FailuresUndone
<1>1. ASSUME Waiting, ~inTxn PROVE Readings = attempted
  BY <1>1, Outside DEF Sound, Waiting
<1>2. ASSUME Waiting PROVE acked = attempted
  BY <1>2 DEF Known, Waiting
<1> QED
  BY <1>1, <1>2 DEF FailuresUndone

\* The inductive invariant of the session: types whatever fails, and the rest for
\* as long as the calls that failed are those that say so.
SInv == StateOK /\ SessionTypeOK /\ (Handled => Sound) /\ (Undone => Known)

THEOREM SessionInv == SessionSpec => []SInv
<1>1. SessionInit => SInv
  <2> SUFFICES ASSUME SessionInit PROVE SInv
    OBVIOUS
  <2>1. Inv /\ StateOK /\ SessionTypeOK
    BY SessionInitOK
  <2>2. Mapped = db.page
    BY <2>1 DEF SessionInit, Init, Mapped, NoSlots, StateOK, FileOK
  <2>3. ~InTransaction
    BY DEF SessionInit, Init, InTransaction
  <2> QED
    BY <2>1, <2>2, <2>3 DEF SessionInit, Init, Sound, Known, SInv
<1>2. SInv /\ [SessionNext]_allVars => SInv'
  <2> SUFFICES ASSUME SInv, [SessionNext]_allVars PROVE SInv'
    OBVIOUS
  <2>1. StateOK' /\ SessionTypeOK' /\ (Handled' => Sound')
    BY StateStep, SessionTypeStep, SoundStep, HandledBefore DEF SInv
  <2>2. Undone' => Known'
    BY UndoneBefore, KnownStep DEF SInv, Undone, Handled
  <2> QED
    BY <2>1, <2>2 DEF SInv
<1> QED
  BY <1>1, <1>2, PTL DEF SessionSpec

\* As long as the calls that fail are those the code is written for, a restart
\* finds whole transactions, and none a client was told of is missing, whatever
\* statements failed, checkpoints threw and processes were killed before it.
THEOREM SessionAllOrNothing == SessionSpec => []HandledAllOrNothing
<1>1. SInv => HandledAllOrNothing
  BY SoundMeaning DEF SInv, HandledAllOrNothing, AllOrNothing
<1> QED
  BY <1>1, SessionInv, PTL

\* And between transactions the client reads what that restart would find.
THEOREM SessionReadsAreStable == SessionSpec => []HandledReadsAreStable
<1>1. SInv => HandledReadsAreStable
  BY SoundMeaning DEF SInv, HandledReadsAreStable
<1> QED
  BY <1>1, SessionInv, PTL

\* Unless a checkpoint threw, what it reads is what it was told is committed: a
\* statement or a transaction that ended in an error has left nothing of itself.
THEOREM SessionFailuresUndone == SessionSpec => []HandledFailuresUndone
<1>1. SInv => HandledFailuresUndone
  BY KnownMeaning DEF SInv, HandledFailuresUndone, Undone, Handled
<1> QED
  BY <1>1, SessionInv, PTL
=============================================================================
