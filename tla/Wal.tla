--------------------------------- MODULE Wal ---------------------------------
(***************************************************************************)
(* The write-ahead log of labdb (src/src/wal.hpp, src/src/wal.cpp).        *)
(*                                                                         *)
(* The log is a file of a header and frame slots.  The header names the    *)
(* log's generation; a frame counts only if it carries that generation and *)
(* its checksum matches.  A frame holds one page; a frame flagged `commit' *)
(* ends a transaction and holds the meta page, page 0.                     *)
(*                                                                         *)
(* This module holds the log's state and one operator per method of class  *)
(* Wal; the Pager module, the only caller, builds its actions from them.   *)
(*                                                                         *)
(* Abstractions.  A page's contents are one number.  The checksum is       *)
(* perfect: a torn frame is never taken for a whole one, so a torn slot is *)
(* the Blank frame.  Generations are numbers, and a fresh one (drawn at    *)
(* random by the code) is one never used before nor soon after.            *)
(***************************************************************************)
EXTENDS Integers, Sequences, FiniteSetsExt

CONSTANTS
    MaxPage,    \* data pages are 1..MaxPage; page 0 is the meta page
    MaxSlots,   \* bound: frame slots in the log file
    MaxStamp,   \* bound: page contents are numbered 0..MaxStamp
    Faults      \* which crashes happen: a subset of {"process", "power"}

ASSUME WalAssumption ==
    /\ MaxPage \in Nat
    /\ MaxSlots \in Nat
    /\ MaxStamp \in Nat
    /\ Faults \subseteq {"process", "power"}

VARIABLES
    log,        \* the log file as the running system sees it
    written,    \* its images since its last fsync: the first is on the disk for sure
    generation, \* generation_ of the process
    headerOk,   \* header_ok_
    end,        \* end_: the next free slot
    commitEnd,  \* commit_end_: the slot after the last commit frame
    committed,  \* committed_: page -> slot of its latest committed frame
    pending,    \* pending_: page -> slot, the transaction in progress
    lastGen     \* the largest generation ever drawn (no variable of the code)

walVars == <<log, written, generation, headerOk, end, commitEnd, committed,
             pending, lastGen>>

AllPages == 0..MaxPage
Slots    == 0..MaxSlots-1
Torn     == -1              \* a page of the database file, half old and half new
Contents == -1..(MaxStamp + MaxPage + 1)
NoGen    == 0               \* no usable header; a frame no header will match
Gap      == 1000            \* a fresh generation stays clear of generation + 1, + 2, ...

Frame == [page : AllPages, commit : BOOLEAN, gen : Nat, val : Contents]
Blank == [page |-> 0, commit |-> FALSE, gen |-> NoGen, val |-> 0]
LogFile == [hdr : Nat, frames : [Slots -> Frame]]

EmptyLog == [hdr |-> NoGen, frames |-> [s \in Slots |-> Blank]]
NoSlots  == [p \in {} |-> 0]
\* A map page -> slot, as committed and pending are.
IsSlotMap(f) == DOMAIN f \subseteq AllPages /\ f \in [DOMAIN f -> Slots]

WalTypeOK ==
    /\ log \in LogFile
    /\ written \in Seq(LogFile)
    /\ generation \in Nat /\ lastGen \in Nat
    /\ headerOk \in BOOLEAN
    /\ end \in 0..MaxSlots /\ commitEnd \in 0..MaxSlots
    /\ IsSlotMap(committed) /\ IsSlotMap(pending)

Tracked == "power" \in Faults   \* unsynced writes only matter to a power cut
Issued(image) == IF Tracked THEN Append(written, image) ELSE written
-----------------------------------------------------------------------------
(* What a scan of a log file finds.                                        *)

\* The first n slots hold whole frames of the header's generation.
Readable(lg, n) == /\ lg.hdr # NoGen
                   /\ \A s \in 0..n-1 : lg.frames[s].gen = lg.hdr

\* (A mutant of CommitEnds: recovery keeps a transaction that never committed.)
FrameEnds(lg) == {n \in 1..MaxSlots : Readable(lg, n)}

\* Where a transaction ends: after a commit frame the scan reaches.
CommitEnds(lg) == {n \in 1..MaxSlots : lg.frames[n-1].commit /\ Readable(lg, n)}

\* Wal::recover's commit_end_ ...
ScanEnd(lg) == Max(CommitEnds(lg) \cup {0})

\* The frames of page p before that end ...
FramesOn(lg, p) == {s \in 0..ScanEnd(lg)-1 : lg.frames[s].page = p}

\* ... and its committed_: the last of them, for each page that has any.
ScanMap(lg) == [p \in {q \in AllPages : FramesOn(lg, q) # {}} |-> Max(FramesOn(lg, p))]
-----------------------------------------------------------------------------
(* The methods of class Wal.  Each fixes every variable of walVars.        *)

FreshGeneration == (lastGen \div Gap + 1) * Gap

\* Wal::Wal then Wal::recover.
WalOpen ==
    LET gen == IF log.hdr = NoGen THEN FreshGeneration ELSE log.hdr
    IN  /\ generation' = gen
        /\ headerOk' = (log.hdr # NoGen)
        /\ lastGen' = Max({lastGen, gen})
        /\ end' = ScanEnd(log)
        /\ commitEnd' = ScanEnd(log)
        /\ committed' = ScanMap(log)
        /\ pending' = NoSlots
        /\ UNCHANGED <<log, written>>

WithHeader == [log EXCEPT !.hdr = generation]
\* The images of the log that write_frame(s, f) produces: the header first if
\* the file has none.
WriteFrame(s, f) ==
    LET base == IF headerOk THEN log ELSE WithHeader
        full == [base EXCEPT !.frames[s] = f]
    IN  /\ log' = full
        /\ headerOk' = TRUE
        /\ written' = IF ~Tracked THEN written
                      ELSE IF headerOk THEN Append(written, full)
                      ELSE written \o <<base, full>>

\* (A mutant of SlotFor: the page's committed frame is rewritten in place.)
SlotOfCommitted(p) == IF p \in DOMAIN pending THEN pending[p]
                      ELSE IF p \in DOMAIN committed THEN committed[p] ELSE end

\* The slot Wal::write puts page p in: the one it has, else the next free one.
SlotFor(p) == IF p \in DOMAIN pending THEN pending[p] ELSE end

FrameOf(p, isCommit, v) ==
    [page |-> p, commit |-> isCommit, gen |-> generation, val |-> v]

WalWrite(p, v) ==
    /\ SlotFor(p) \in Slots
    /\ WriteFrame(SlotFor(p), FrameOf(p, FALSE, v))
    /\ end' = IF p \in DOMAIN pending THEN end ELSE end + 1
    /\ pending' = [q \in DOMAIN pending \cup {p} |->
                      IF q = p THEN SlotFor(p) ELSE pending[q]]
    /\ UNCHANGED <<generation, commitEnd, committed, lastGen>>

\* Wal::commit up to its fsync, which is a step of the caller's (WalSync).
WalCommit(meta) ==
    /\ end \in Slots
    /\ WriteFrame(end, FrameOf(0, TRUE, meta))
    /\ committed' = [q \in DOMAIN committed \cup DOMAIN pending \cup {0} |->
                        IF q = 0 THEN end
                        ELSE IF q \in DOMAIN pending THEN pending[q]
                        ELSE committed[q]]
    /\ pending' = NoSlots
    /\ end' = end + 1
    /\ commitEnd' = end + 1
    /\ UNCHANGED <<generation, lastGen>>

\* (A mutant of WalRollback: the slots of the transaction are not given back.)
RollbackKeepingSlots ==
    /\ pending' = NoSlots
    /\ UNCHANGED <<log, written, generation, headerOk, end, commitEnd, committed, lastGen>>

WalRollback ==
    /\ pending' = NoSlots
    /\ end' = commitEnd
    /\ UNCHANGED <<log, written, generation, headerOk, commitEnd, committed, lastGen>>

\* (A mutant of WalReset: keep_generation_, the demonstration's unsafe log.)
ResetKeepingGeneration ==
    /\ committed' = NoSlots
    /\ end' = 0
    /\ commitEnd' = 0
    /\ headerOk' = TRUE
    /\ UNCHANGED <<log, written, generation, pending, lastGen>>

WalReset ==
    /\ committed' = NoSlots
    /\ end' = 0
    /\ commitEnd' = 0
    /\ generation' = generation + 1
    /\ lastGen' = Max({lastGen, generation + 1})
    /\ log' = [log EXCEPT !.hdr = generation + 1]
    /\ written' = Issued(log')
    /\ headerOk' = TRUE
    /\ UNCHANGED pending

WalTruncate ==
    /\ committed' = NoSlots
    /\ end' = 0
    /\ commitEnd' = 0
    /\ generation' = generation + 1
    /\ lastGen' = Max({lastGen, generation + 1})
    /\ log' = EmptyLog
    /\ written' = Issued(log')
    /\ headerOk' = FALSE
    /\ UNCHANGED pending

WalSync ==
    /\ written' = IF Tracked THEN <<log>> ELSE written
    /\ UNCHANGED <<log, generation, headerOk, end, commitEnd, committed,
                   pending, lastGen>>

\* The slot whose frame Wal::read returns for page p (pending first).
Holds(p)  == p \in DOMAIN pending \cup DOMAIN committed
SlotOf(p) == IF p \in DOMAIN pending THEN pending[p] ELSE committed[p]
WalRead(p) == log.frames[SlotOf(p)].val
-----------------------------------------------------------------------------
(* The log file across a crash.                                            *)

\* The memory of a process that died.  Nothing reads it before WalOpen, which
\* sets all of it again; the committed frames' part is left as it was.
WalForget == /\ pending' = NoSlots
             /\ end' = commitEnd
             /\ UNCHANGED <<generation, commitEnd, committed, lastGen>>

\* A process killed inside write_frame(s, ...) leaves the frame torn -- or
\* not begun, when it was killed after the header was written.
DieInWriteFrame(s) ==
    /\ \E torn \in BOOLEAN :
          /\ torn \/ ~headerOk
          /\ log' = [hdr |-> IF headerOk THEN log.hdr ELSE generation,
                     frames |-> IF torn THEN [log.frames EXCEPT ![s] = Blank]
                                ELSE log.frames]
    /\ headerOk' = TRUE
    /\ written' = Issued(log')
    /\ WalForget

\* A power cut on a disk that keeps the order of writes: some first part of
\* the unsynced writes happened, and the next frame may be torn.
Changed(k) == {s \in Slots : written[k].frames[s] # written[k+1].frames[s]}
TornAfter(k) == {[written[k] EXCEPT !.frames[s] = Blank] : s \in Changed(k)}
OrderedSurvivors ==
    {written[k] : k \in DOMAIN written}
      \cup UNION {TornAfter(k) : k \in 1..Len(written)-1}

\* A power cut on a disk that reorders: every 512-byte sector keeps any
\* version it had since the last fsync.  A frame spans sectors, so it is whole
\* only at one version, torn otherwise; it shares a sector with the frame
\* before it, and slot 0 with the header, so the two of them must have had
\* the versions they keep at one and the same moment -- or be torn.
Versions(s) == {written[k].frames[s] : k \in DOMAIN written}
Rewritten   == {s \in Slots : Cardinality(Versions(s)) > 1}
FramesKept(c) ==   \* c: the image each rewritten slot is taken from, 0 if torn
    [s \in Slots |-> IF s \notin Rewritten THEN log.frames[s]
                    ELSE IF c[s] = 0 THEN Blank
                    ELSE written[c[s]].frames[s]]
AtOnce(image, fs, t) == \A s \in t : fs[s] \in {Blank, image.frames[s]}
ReorderedSurvivors ==
    {lg \in [hdr : {written[k].hdr : k \in DOMAIN written},
             frames : {FramesKept(c) : c \in [Rewritten -> 0..Len(written)]}] :
        /\ \E k \in DOMAIN written :
              written[k].hdr = lg.hdr /\ AtOnce(written[k], lg.frames, {0})
        /\ \A s \in 1..MaxSlots-1 : \E k \in DOMAIN written :
              AtOnce(written[k], lg.frames, {s-1, s})}
=============================================================================
