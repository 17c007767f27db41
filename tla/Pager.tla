-------------------------------- MODULE Pager --------------------------------
(***************************************************************************)
(* The pager of labdb (src/src/pager.hpp, src/src/pager.cpp) over its log  *)
(* (module Wal) and the database file: transactions, checkpoints, recovery *)
(* and the crashes they are built to survive.                              *)
(*                                                                         *)
(* One action per call of the pager, or per system call of a call that     *)
(* makes several, since a crash can fall between any two of them.          *)
(*                                                                         *)
(* Abstractions.  Of the meta page's fields only page_count is kept: the   *)
(* others (free-list head, roots) live and die by the same rule -- changed *)
(* in memory, written by the commit frame, put back by a rollback.  So     *)
(* page 0's contents are the page count.  Every write of a data page       *)
(* writes contents never written before, so two versions of a page are     *)
(* never confused.  The free list is module FreeList's.                    *)
(***************************************************************************)
EXTENDS Wal

CONSTANTS
    Durabilities,      \* what set_durability is called with
    CheckpointFrames,  \* checkpoint_frames_
    Reorders,          \* TRUE: a power cut reorders the log's unsynced writes
    MaxCrashes,        \* bound: crashes of a behaviour
    MaxCloses          \* bound: clean closes of a behaviour

ASSUME PagerAssumption ==
    /\ Durabilities \subseteq {"full", "normal", "off"}
    /\ CheckpointFrames \in Nat
    /\ Reorders \in BOOLEAN
    /\ MaxCrashes \in Nat
    /\ MaxCloses \in Nat

VARIABLES
    db,            \* the database file: its pages, and its length in pages
    dbDisk,        \* what the disk may hold of it: the versions since its fsync
    meta,          \* meta_ (its page_count)
    committedMeta, \* committed_meta_
    metaDirty,     \* meta_dirty_
    durability,    \* durability_
    pc,            \* what the process is about to do ("down": there is none)
    after,         \* what follows the call under way: "return", "sync", "close"
    todo,          \* the frames the checkpoint under way has still to copy
    stamp,         \* contents written so far (no variable of the code)
    history,       \* the committed states, oldest first (no variable of the code)
    promised,      \* how many of them no crash may take back (no variable of the code)
    crashes, closes   \* counted for the bounds

pagerVars == <<meta, committedMeta, metaDirty, durability, pc, after, todo>>
dbVars    == <<db, dbDisk>>
ghosts    == <<stamp, history, promised>>
bounds    == <<crashes, closes>>
vars      == <<walVars, pagerVars, dbVars, ghosts, bounds>>

DbFile == [page : [AllPages -> Contents], len : 1..MaxPage+1]
DbDisk == [page : [AllPages -> SUBSET Contents], len : SUBSET (1..MaxPage+1)]

\* Nothing of the file is in doubt.
Settled(d) == [page |-> [p \in AllPages |-> {d.page[p]}], len |-> {d.len}]
-----------------------------------------------------------------------------
(* What the files and the process hold.                                    *)

InTransaction == pending # NoSlots \/ metaDirty

\* Page 0 as the pager has it, a data page as read_page returns it.  A page
\* past the end of the file, and in no frame, reads as a blank one.
Read(p) == IF p = 0 THEN meta
           ELSE IF Holds(p) THEN WalRead(p)
           ELSE IF p < db.len THEN db.page[p] ELSE 0
Readings == [p \in AllPages |-> Read(p)]

\* The state a database opened from these files recovers to.
Recovered(lg, d) ==
    [p \in AllPages |-> LET on == FramesOn(lg, p)
                       IN  IF on = {} THEN d.page[p] ELSE lg.frames[Max(on)].val]
-----------------------------------------------------------------------------
(* A database just created -- or left behind by a clean close -- and no    *)
(* process.                                                                *)
Init ==
    /\ log = EmptyLog
    /\ written = IF Tracked THEN <<EmptyLog>> ELSE <<>>
    /\ generation = 0 /\ lastGen = 0 /\ headerOk = FALSE
    /\ end = 0 /\ commitEnd = 0
    /\ committed = NoSlots /\ pending = NoSlots
    /\ \E count \in 1..MaxPage+1 :
          /\ db = [page |-> [p \in AllPages |-> IF p = 0 THEN count ELSE 0],
                   len |-> count]
          /\ meta = count /\ committedMeta = count
    /\ dbDisk = Settled(db)
    /\ metaDirty = FALSE /\ durability = "full"
    /\ pc = "down" /\ after = "return" /\ todo = {}
    /\ stamp = 0
    /\ history = IF Tracked THEN <<db.page>> ELSE <<>>
    /\ promised = 1
    /\ crashes = 0 /\ closes = 0
-----------------------------------------------------------------------------
(* The constructor: load the meta page, recover the log, and checkpoint or *)
(* reset it.  durability_ has its default, kFull, all the while.           *)
Open ==
    /\ pc = "down"
    /\ WalOpen
    /\ LET m == IF 0 \in DOMAIN committed' THEN log.frames[committed'[0]].val
                ELSE db.page[0]
       IN  meta' = m /\ committedMeta' = m
    /\ metaDirty' = FALSE
    /\ durability' = "full"
    /\ pc' = IF commitEnd' > 0 THEN "checkpoint"
             ELSE IF headerOk' THEN "reset" ELSE "idle"
    /\ after' = "return"
    /\ todo' = {}
    /\ UNCHANGED <<dbVars, ghosts, bounds>>

SetDurability(d) ==
    /\ pc = "idle"
    /\ durability' = d
    /\ UNCHANGED <<walVars, meta, committedMeta, metaDirty, pc, after, todo,
                   dbVars, ghosts, bounds>>

WritePage(p) ==
    /\ pc = "idle"
    /\ p < meta
    /\ stamp < MaxStamp
    /\ stamp' = stamp + 1
    /\ WalWrite(p, stamp')
    /\ UNCHANGED <<pagerVars, dbVars, history, promised, bounds>>

\* allocate_page with an empty free list: the database grows, in memory.
AllocatePage ==
    /\ pc = "idle"
    /\ meta <= MaxPage
    /\ meta' = meta + 1
    /\ metaDirty' = TRUE
    /\ UNCHANGED <<walVars, committedMeta, durability, pc, after, todo, dbVars,
                   ghosts, bounds>>

Rollback ==
    /\ pc = "idle"
    /\ WalRollback
    /\ meta' = committedMeta
    /\ metaDirty' = FALSE
    /\ UNCHANGED <<committedMeta, durability, pc, after, todo, dbVars, ghosts,
                   bounds>>

\* Where commit goes once the log holds (and, under kFull, has synced) it.
Committed(frames, then) ==
    IF then # "return" \/ frames >= CheckpointFrames THEN "checkpoint" ELSE "idle"

\* The bound on clean closes.
Counted(then) == /\ then = "close" => closes < MaxCloses
                 /\ closes' = IF then = "close" THEN closes + 1 ELSE closes

\* commit(), alone ("return") or as the first step of sync() or the destructor.
Commit(then) ==
    /\ pc = "idle"
    /\ InTransaction
    /\ WalCommit(meta)
    /\ committedMeta' = meta
    /\ metaDirty' = FALSE
    /\ pc' = IF durability = "full" THEN "logSync" ELSE Committed(end', then)
    /\ after' = then
    /\ history' = IF Tracked THEN Append(history, Readings) ELSE history
    /\ Counted(then)
    /\ UNCHANGED <<meta, durability, todo, dbVars, stamp, promised, crashes>>

\* (A mutant of LogSync: the commit is acknowledged without its fsync.)
LogSyncSkipped ==
    /\ pc = "logSync"
    /\ promised' = IF Tracked THEN Len(history) ELSE promised
    /\ pc' = Committed(end, after)
    /\ UNCHANGED <<walVars, meta, committedMeta, metaDirty, durability, after, todo,
                   dbVars, stamp, history, bounds>>

\* kFull: the fsync of Wal::commit, after which the caller may be told.
LogSync ==
    /\ pc = "logSync"
    /\ WalSync
    /\ promised' = IF Tracked THEN Len(history) ELSE promised
    /\ pc' = Committed(end, after)
    /\ UNCHANGED <<meta, committedMeta, metaDirty, durability, after, todo,
                   dbVars, stamp, history, bounds>>

\* A call of checkpoint() itself, and of sync() or the destructor when there
\* is nothing to commit.
CallCheckpoint(then) ==
    /\ pc = "idle"
    /\ ~InTransaction
    /\ pc' = "checkpoint"
    /\ after' = then
    /\ Counted(then)
    /\ UNCHANGED <<walVars, meta, committedMeta, metaDirty, durability, todo,
                   dbVars, ghosts, crashes>>

-----------------------------------------------------------------------------
(* checkpoint(), one step per system call.                                 *)

Checkpointed == IF after = "return" THEN "idle" ELSE "finish"

\* (A mutant of CheckpointStart: kNormal copies frames the disk may not hold.)
CheckpointUnsynced ==
    /\ pc = "checkpoint"
    /\ todo' = DOMAIN committed
    /\ pc' = IF committed = NoSlots THEN Checkpointed ELSE "copy"
    /\ UNCHANGED <<walVars, meta, committedMeta, metaDirty, durability, after, dbVars,
                   ghosts, bounds>>

CheckpointStart ==
    /\ pc = "checkpoint"
    /\ IF committed # NoSlots /\ durability = "normal"
         THEN WalSync ELSE UNCHANGED walVars
    /\ todo' = DOMAIN committed
    /\ pc' = IF committed = NoSlots THEN Checkpointed ELSE "copy"
    /\ UNCHANGED <<meta, committedMeta, metaDirty, durability, after, dbVars,
                   ghosts, bounds>>

\* In page order: std::sort in committed_frames.
NextCopy == Min(todo)

\* (A mutant of PageWritten: every page copied is taken to lengthen the file.)
PageAppended(d, p, v) == [page |-> [d.page EXCEPT ![p] = v], len |-> d.len + 1]

\* The file once page p is written there: it grows to hold it.
PageWritten(d, p, v) == [page |-> [d.page EXCEPT ![p] = v],
                         len  |-> Max({d.len, p + 1})]

CopyPage ==
    /\ pc = "copy"
    /\ todo # {}
    /\ LET p == NextCopy
           v == log.frames[committed[p]].val
       IN  /\ db' = PageWritten(db, p, v)
           /\ dbDisk' = IF ~Tracked THEN Settled(db')
                        ELSE [page |-> [dbDisk.page EXCEPT ![p] =
                                 @ \cup {v} \cup (IF p = 0 THEN {} ELSE {Torn})],
                              len |-> dbDisk.len \cup {db'.len}]
           /\ todo' = todo \ {p}
    /\ UNCHANGED <<walVars, meta, committedMeta, metaDirty, durability, pc,
                   after, ghosts, bounds>>

\* (A mutant of Grown: pages allocated but never written are forgotten.)
NotGrown(d, count) == d

\* Grow the file to the page count, if the pages copied did not.
Grown(d, count) == [page |-> d.page, len |-> Max({d.len, count})]
GrowFile ==
    /\ pc = "copy"
    /\ todo = {}
    /\ db' = Grown(db, meta)
    /\ dbDisk' = IF Tracked THEN [dbDisk EXCEPT !.len = @ \cup {db'.len}]
                 ELSE Settled(db')
    /\ pc' = IF durability = "off" THEN "reset" ELSE "fileSync"
    /\ UNCHANGED <<walVars, meta, committedMeta, metaDirty, durability, after,
                   todo, ghosts, bounds>>

\* (A mutant of FileSync: the log forgets before the file is durable.)
FileSyncSkipped ==
    /\ pc = "fileSync"
    /\ promised' = IF Tracked THEN Len(history) ELSE promised
    /\ pc' = "reset"
    /\ UNCHANGED <<walVars, dbVars, meta, committedMeta, metaDirty, durability, after,
                   todo, stamp, history, bounds>>

FileSync ==
    /\ pc = "fileSync"
    /\ dbDisk' = Settled(db)
    /\ promised' = IF Tracked THEN Len(history) ELSE promised
    /\ pc' = "reset"
    /\ UNCHANGED <<walVars, meta, committedMeta, metaDirty, durability, after,
                   todo, db, stamp, history, bounds>>

Reset ==
    /\ pc = "reset"
    /\ WalReset
    /\ pc' = Checkpointed
    /\ UNCHANGED <<meta, committedMeta, metaDirty, durability, after, todo,
                   dbVars, ghosts, bounds>>

\* sync(): the last fsync of the database file.
FinishSync ==
    /\ pc = "finish"
    /\ after = "sync"
    /\ dbDisk' = Settled(db)
    /\ pc' = "idle"
    /\ UNCHANGED <<walVars, meta, committedMeta, metaDirty, durability, after,
                   todo, db, ghosts, bounds>>

\* The destructor: empty the log and go.
FinishClose ==
    /\ pc = "finish"
    /\ after = "close"
    /\ WalTruncate
    /\ pc' = "down"
    /\ UNCHANGED <<meta, committedMeta, metaDirty, durability, after, todo,
                   dbVars, ghosts, bounds>>
-----------------------------------------------------------------------------
(* Crashes.  Nothing reads the memory of a process that died before Open    *)
(* sets it again.                                                          *)

Crash(kind) ==
    /\ kind \in Faults
    /\ crashes < MaxCrashes
    /\ crashes' = crashes + 1
    /\ pc' = "down"
    /\ meta' = committedMeta
    /\ metaDirty' = FALSE
    /\ durability' = "full"
    /\ after' = "return"
    /\ todo' = {}
    /\ UNCHANGED <<committedMeta, stamp, closes>>

\* Between two system calls.
Die == /\ pc # "down"
       /\ Crash("process")
       /\ WalForget
       /\ UNCHANGED <<log, written, headerOk, dbVars, history, promised>>

\* Inside a page write or a commit, whose frame is torn.
DieInLog == /\ pc = "idle"
            /\ Crash("process")
            /\ \E s \in ({pending[p] : p \in DOMAIN pending} \cup {end}) \cap Slots :
                  DieInWriteFrame(s)
            /\ UNCHANGED <<dbVars, history, promised>>

\* Inside the copy of a page into the database file, which is torn.  The meta
\* page's fields lie in one sector: it is old or new.
DieInCopy == /\ pc = "copy"
             /\ todo # {}
             /\ NextCopy # 0
             /\ Crash("process")
             /\ db' = PageWritten(db, NextCopy, Torn)
             /\ dbDisk' = IF Tracked
                          THEN [page |-> [dbDisk.page EXCEPT ![NextCopy] = @ \cup {Torn}],
                                len |-> dbDisk.len \cup {db'.len}]
                          ELSE Settled(db')
             /\ WalForget
             /\ UNCHANGED <<log, written, headerOk, history, promised>>

\* The database files a power cut may leave: any version of any page.
DbSurvivors ==
    {[len |-> n, page |-> [p \in AllPages |-> IF p < n THEN f[p] ELSE 0]] :
        n \in dbDisk.len,
        f \in {g \in [AllPages -> UNION {dbDisk.page[p] : p \in AllPages}] :
                  \A p \in AllPages : g[p] \in dbDisk.page[p]}}

\* The committed states a crash may fall back to.
Held(state) == {k \in DOMAIN history : history[k] = state}

PowerCut ==
    /\ Crash("power")
    /\ log' \in IF Reorders THEN ReorderedSurvivors ELSE OrderedSurvivors
    /\ written' = <<log'>>
    /\ db' \in DbSurvivors
    /\ dbDisk' = Settled(db')
    /\ LET k == Held(Recovered(log', db'))
       IN  IF k = {} THEN UNCHANGED <<history, promised>>
           ELSE /\ history' = SubSeq(history, 1, Max(k))
                /\ promised' = Max(k)
    /\ WalForget
    /\ UNCHANGED headerOk
-----------------------------------------------------------------------------
Step == CheckpointStart \/ CopyPage \/ GrowFile \/ FileSync \/ Reset
          \/ LogSync \/ FinishSync \/ FinishClose

Endings == {"return", "sync", "close"}

Client ==
    \/ \E d \in Durabilities : SetDurability(d)
    \/ \E p \in 1..MaxPage : WritePage(p)
    \/ AllocatePage
    \/ Rollback
    \/ \E then \in Endings : Commit(then)
    \/ \E then \in Endings : CallCheckpoint(then)

Next == Open \/ Client \/ Step \/ Die \/ DieInLog \/ DieInCopy \/ PowerCut

Spec == Init /\ [][Next]_vars
-----------------------------------------------------------------------------
(* Properties.                                                             *)

TypeOK ==
    /\ WalTypeOK
    /\ db \in DbFile /\ dbDisk \in DbDisk
    /\ meta \in 1..MaxPage+1 /\ committedMeta \in 1..MaxPage+1
    /\ metaDirty \in BOOLEAN
    /\ durability \in {"full", "normal", "off"}
    /\ pc \in {"down", "idle", "logSync", "checkpoint", "copy", "fileSync",
               "reset", "finish"}
    /\ after \in {"return", "sync", "close"}
    /\ todo \subseteq AllPages
    /\ stamp \in 0..MaxStamp
    /\ history \in Seq([AllPages -> Contents])
    /\ promised \in Nat
    /\ crashes \in 0..MaxCrashes /\ closes \in 0..MaxCloses

\* The database as the maps in memory say it is: what a scan would rebuild.
Mapped == [p \in AllPages |-> IF p \in DOMAIN committed
                              THEN log.frames[committed[p]].val ELSE db.page[p]]

\* The slots up to commitEnd are whole frames of this generation that end in
\* a commit; none past it, left by a rollback or a crash, could end another.
LogInv ==
    /\ IF headerOk THEN log.hdr = generation ELSE log.hdr = NoGen
    /\ headerOk \/ pc # "down" => generation > 0
    /\ generation <= lastGen
    /\ commitEnd > 0 => headerOk /\ log.frames[commitEnd-1].commit
    /\ \A s \in Slots :
          /\ log.frames[s].gen <= generation
          /\ log.frames[s].commit => log.frames[s].page = 0
          /\ s < end => log.frames[s].gen = generation
          /\ s >= commitEnd /\ log.frames[s].commit => log.frames[s].gen # generation

\* committed and pending name exactly the frames of the log they stand for.
MapInv ==
    /\ commitEnd <= end
    /\ pending # NoSlots => headerOk
    /\ \A p \in DOMAIN committed : /\ committed[p] < commitEnd
                                   /\ log.frames[committed[p]].page = p
    /\ \A p \in DOMAIN pending : /\ p \in 1..meta-1
                                 /\ pending[p] \in commitEnd..end-1
                                 /\ log.frames[pending[p]].page = p
    /\ \A s \in Slots :
          LET p == log.frames[s].page
          IN  /\ s < commitEnd => p \in DOMAIN committed /\ s <= committed[p]
              /\ s \in commitEnd..end-1 => p \in DOMAIN pending /\ s = pending[p]

\* What a checkpoint has copied so far, and what it may assume.
CheckpointInv ==
    /\ pc # "idle" => ~InTransaction /\ end = commitEnd
    /\ pc = "copy" => committed # NoSlots /\ todo \subseteq DOMAIN committed
    /\ \A p \in DOMAIN committed :
          \/ pc = "copy" /\ p \notin todo
          \/ pc \in {"fileSync", "reset"}
          => db.page[p] = log.frames[committed[p]].val
    /\ pc = "finish" => committed = NoSlots

\* The meta page in memory is the committed one, but for a transaction's changes.
MetaInv ==
    /\ pc # "down" => committedMeta = Mapped[0]
    /\ ~metaDirty => meta = committedMeta
    /\ committedMeta <= meta
    /\ Mapped[0] \in 1..MaxPage+1
    /\ \A p \in AllPages : p >= db.len => db.page[p] = 0
    /\ \/ committed = NoSlots
       \/ pc \in {"fileSync", "reset"}
       => db.len >= db.page[0]

\* The inductive invariant of the pager when only processes crash.
Inv == TypeOK /\ LogInv /\ MapInv /\ CheckpointInv /\ MetaInv

\* The promise of the pager, as a store whose changes are atomic: what a
\* restart would find changes at a commit and at nothing else, all at once.
Stable == Recovered(log, db)
View   == IF pc = "down" THEN Stable ELSE Readings
Store  == INSTANCE AtomicStore
    WITH Page <- AllPages, Value <- Contents, stable <- Stable, view <- View

\* Checkpoints, resets, recoveries, crashes and torn writes neither lose nor
\* make up a change: seen through recovery and read_page, every step of the
\* pager is a step of the atomic store or none (pager.hpp:13-17).
ImplementsAtomicStore == Store!Spec

\* What a restart would find is exactly the last committed state -- so, after
\* a power cut, some whole number of transactions and no part of one.
RecoveredIsLast == Tracked => Stable = history[Len(history)]

\* No power cut takes back a commit its caller was told of (kFull), nor one a
\* checkpoint has copied into the file and let the log forget.
PromisesKept == [][Tracked => Len(history') >= promised]_vars

\* From the first copied page until the log forgets them, the frames a
\* checkpoint copies are on stable storage (checkpoint()'s comment).
FramesDurableBeforeCopy ==
    (Tracked /\ pc \in {"copy", "fileSync"} /\ durability # "off") =>
        \A lg \in {written[k] : k \in DOMAIN written} :
            /\ lg.hdr = log.hdr
            /\ \A s \in 0..commitEnd-1 : lg.frames[s] = log.frames[s]

\* A committed frame is never overwritten while a restart may still need it:
\* only a reset or a truncation, which follow the copy, give its slot away.
CommittedFramesStable ==
    [][\A s \in 0..ScanEnd(log)-1 :
          \/ log'.frames[s] = log.frames[s]
          \/ pc \in {"reset", "finish"}]_vars

\* A log the scan finds empty always leaves a file as long as its meta page
\* says: the check at the end of the constructor never fails.
NeverShort == ScanEnd(log) = 0 => db.len >= db.page[0]
=============================================================================
