------------------------------- MODULE Session -------------------------------
(***************************************************************************)
(* A client's session with labdb (Executor::run and the rest of its        *)
(* transaction control, src/src/executor.cpp) over the pager: statements   *)
(* that are transactions of their own, BEGIN, COMMIT and ROLLBACK, and     *)
(* statements that fail -- by an error of their own, or because a system   *)
(* call of the pager's throws.                                             *)
(*                                                                         *)
(* Abstractions.  A statement is the page writes and allocations it makes, *)
(* in any order; the buffer pool in between writes a page to the log at an *)
(* eviction or at the commit, so a write of the body stands for either.    *)
(* The machine keeps its power: processes die and system calls fail.       *)
(***************************************************************************)
EXTENDS Pager

CONSTANTS
    FailingCalls,   \* which system calls fail, of:
                    \*   "write"  a frame, in a statement or its commit
                    \*   "commit" a frame, in the commit of COMMIT
                    \*   "fsync"  the log's, in a commit
                    \*   "copy"   any call of a checkpoint up to its fsync
                    \*   "header" the log header, in the reset of a checkpoint
    MaxFailures     \* bound: calls that fail in a behaviour, each of them once

ASSUME SessionAssumption ==
    /\ FailingCalls \subseteq {"write", "commit", "fsync", "copy", "header"}
    /\ MaxFailures \in Nat
    /\ ~Tracked

VARIABLES
    inTxn,      \* in_txn_
    running,    \* "none", "statement" (its body), "commit" (of a statement),
                \* "COMMIT" (the statement), "failed" (its exception is thrown)
    acked,      \* the database as the client knows it: after the last
                \* transaction it was told is committed, or as it found it
                \* when it last connected (no variable of the code)
    attempted,  \* and after the last that wrote its commit frame (likewise)
    failed      \* which calls have failed so far (likewise)

sessionVars == <<inTxn, running, acked, attempted, failed>>
allVars     == <<vars, sessionVars>>

SessionInit ==
    /\ Init
    /\ inTxn = FALSE
    /\ running = "none"
    /\ acked = db.page /\ attempted = db.page
    /\ failed = {}

Told == <<acked, attempted, failed>>
Waiting == running = "none" /\ pc = "idle"
-----------------------------------------------------------------------------
(* Executor::run, when nothing fails.                                      *)

Begin ==
    /\ Waiting
    /\ ~inTxn
    /\ inTxn' = TRUE
    /\ UNCHANGED <<vars, running, Told>>

StartStatement ==
    /\ Waiting
    /\ running' = "statement"
    /\ UNCHANGED <<vars, inTxn, Told>>

\* A step of run_statement.
Body ==
    /\ running = "statement"
    /\ AllocatePage \/ \E p \in 1..MaxPage : WritePage(p)
    /\ UNCHANGED sessionVars

\* The end of a transaction's writing: it commits what there is to commit.
CommitAll(next) ==
    IF InTransaction
    THEN /\ Commit("return")
         /\ attempted' = Readings
         /\ running' = next
    ELSE /\ running' = "none"
         /\ UNCHANGED <<vars, attempted>>

\* (A mutant of EndStatement: a statement commits inside a transaction too.)
EndStatementCommitting ==
    /\ running = "statement"
    /\ CommitAll("commit")
    /\ UNCHANGED <<inTxn, acked, failed>>

EndStatement ==
    /\ running = "statement"
    /\ IF inTxn THEN running' = "none" /\ UNCHANGED <<vars, attempted>>
                ELSE CommitAll("commit")
    /\ UNCHANGED <<inTxn, acked, failed>>

CallCommit ==
    /\ Waiting
    /\ inTxn
    /\ inTxn' = FALSE
    /\ CommitAll("COMMIT")
    /\ UNCHANGED <<acked, failed>>

\* The commit, and the checkpoint it may have run, are done: the client is told.
Acknowledge ==
    /\ running \in {"commit", "COMMIT"}
    /\ pc = "idle"
    /\ running' = "none"
    /\ acked' = Readings
    /\ UNCHANGED <<vars, inTxn, attempted, failed>>

CallRollback ==
    /\ Waiting
    /\ inTxn
    /\ inTxn' = FALSE
    /\ Rollback
    /\ UNCHANGED <<running, Told>>

\* The client leaves: the destructors of the pool and the pager commit what is
\* uncommitted, checkpoint, and empty the log.  (A transaction it left open has
\* been rolled back before, by the executor's: CallRollback.)
Quit ==
    /\ Waiting
    /\ ~inTxn
    /\ IF InTransaction THEN Commit("close") ELSE CallCheckpoint("close")
    /\ UNCHANGED sessionVars

\* A statement that cannot be: a wrong type, no such table, a duplicate key.
StatementError ==
    /\ running = "statement"
    /\ running' = "failed"
    /\ UNCHANGED <<vars, inTxn, Told>>

\* (A mutant of Catch: the transaction is ended but not rolled back.)
CatchKeeping ==
    /\ running = "failed"
    /\ inTxn' = FALSE
    /\ running' = "none"
    /\ UNCHANGED <<vars, Told>>

\* (A mutant of Catch: it knows only of errors inside a transaction.)
CatchInTransaction ==
    /\ running = "failed"
    /\ inTxn
    /\ inTxn' = FALSE
    /\ Rollback
    /\ running' = "none"
    /\ UNCHANGED Told

\* (A mutant of Catch: what the statement wrote is committed on every way out.)
CatchCommitting ==
    /\ running = "failed"
    /\ inTxn' = FALSE
    /\ IF InTransaction THEN Commit("return") ELSE UNCHANGED vars
    /\ running' = "none"
    /\ UNCHANGED Told

\* catch (...) of Executor::run.
Catch ==
    /\ running = "failed"
    /\ inTxn' = FALSE
    /\ Rollback
    /\ running' = "none"
    /\ UNCHANGED Told
-----------------------------------------------------------------------------
(* System calls that fail: the call throws, and so do its callers up to    *)
(* the catch of Executor::run -- which COMMIT and the client's own calls   *)
(* do not have.                                                            *)

Fails(call) ==
    /\ call \in FailingCalls \ failed
    /\ Cardinality(failed) < MaxFailures
    /\ failed' = failed \cup {call}

Thrown == IF running \in {"statement", "commit"} THEN "failed" ELSE "none"

\* write_frame throws: the slot is taken, the frame is not written, or half.
\* (A log at its bound is a full disk, which fails every write.)
FrameFails(slot) ==
    /\ end' = Max({end, slot + 1})
    /\ \/ UNCHANGED <<log, headerOk>>
       \/ /\ slot \in Slots
          /\ headerOk' = TRUE
          /\ \E torn \in BOOLEAN :
                log' = [hdr |-> generation,
                        frames |-> IF torn THEN [log.frames EXCEPT ![slot] = Blank]
                                   ELSE log.frames]
    /\ UNCHANGED <<written, generation, commitEnd, committed, pending, lastGen,
                   pagerVars, dbVars, ghosts, bounds>>

WriteFails ==
    /\ running = "statement"
    /\ pc = "idle"
    /\ \E slot \in {pending[p] : p \in DOMAIN pending} \cup {end} :
          /\ FrameFails(slot)
          /\ IF slot \in Slots THEN Fails("write") ELSE UNCHANGED failed
    /\ running' = Thrown
    /\ UNCHANGED <<inTxn, acked, attempted>>

CommitWriteFails ==
    /\ Waiting
    /\ inTxn /\ InTransaction
    /\ Fails("commit")
    /\ FrameFails(end)
    /\ inTxn' = FALSE
    /\ UNCHANGED <<running, acked, attempted>>

\* Wal::commit has changed the log and its maps when its fsync throws; the
\* pager, its caller, has not changed its own committed state yet.
CommitFsyncFails ==
    /\ pc = "idle" /\ durability = "full"
    /\ InTransaction
    /\ \/ running = "statement" /\ ~inTxn
       \/ running = "none" /\ inTxn
    /\ Fails("fsync")
    /\ WalCommit(meta)
    /\ attempted' = Readings
    /\ inTxn' = FALSE
    /\ running' = Thrown
    /\ UNCHANGED <<pagerVars, dbVars, ghosts, bounds, acked>>

\* The checkpoint a commit runs throws, while the file is still being written.
CheckpointFails ==
    /\ running \in {"commit", "COMMIT"}
    /\ pc \in {"copy", "fileSync"}
    /\ Fails("copy")
    /\ pc' = "idle"
    /\ todo' = {}
    /\ db' \in {db} \cup {PageWritten(db, p, Torn) : p \in {q \in todo \ {0} : q = NextCopy}}
    /\ dbDisk' = Settled(db')
    /\ running' = Thrown
    /\ UNCHANGED <<walVars, meta, committedMeta, metaDirty, durability, after, ghosts,
                   bounds, inTxn, acked, attempted>>

\* Wal::reset has forgotten its frames when write_header throws.
HeaderFails ==
    /\ running \in {"commit", "COMMIT"}
    /\ pc = "reset"
    /\ Fails("header")
    /\ committed' = NoSlots
    /\ end' = 0
    /\ commitEnd' = 0
    /\ generation' = generation + 1
    /\ lastGen' = Max({lastGen, generation + 1})
    /\ pc' = "idle"
    /\ running' = Thrown
    /\ UNCHANGED <<log, written, headerOk, pending, meta, committedMeta, metaDirty,
                   durability, after, todo, dbVars, ghosts, bounds, inTxn, acked,
                   attempted>>
-----------------------------------------------------------------------------
\* The database is opened: a client that connects learns what is in it, and so
\* whether the commit it was waiting for when it lost its connection was made.
Connect ==
    /\ Open
    /\ acked' = Stable /\ attempted' = Stable
    /\ UNCHANGED <<inTxn, running, failed>>

\* The pager goes on with the commit, the recovery or the checkpoint it is in.
PagerStep == Connect \/ (Step /\ UNCHANGED sessionVars)

Killed == /\ Die \/ DieInLog \/ DieInCopy
          /\ inTxn' = FALSE
          /\ running' = "none"
          /\ UNCHANGED Told

Request == Begin \/ StartStatement \/ CallCommit \/ CallRollback \/ Quit
Running == EndStatement \/ Acknowledge \/ Catch \/ PagerStep
Failure == \/ StatementError \/ WriteFails \/ CommitWriteFails
           \/ CommitFsyncFails \/ CheckpointFails \/ HeaderFails

SessionNext == Request \/ Body \/ Running \/ Failure \/ Killed

\* The one thread of the process goes on with the statement it runs, whose
\* body is finite, until it has returned or thrown.
SessionSpec == /\ SessionInit /\ [][SessionNext]_allVars
               /\ WF_allVars(Body \/ Running \/ Failure)
-----------------------------------------------------------------------------
(* Properties.                                                             *)

\* A commit under way is no longer inside the transaction it ends.
SessionTypeOK ==
    /\ inTxn \in BOOLEAN
    /\ running \in {"none", "statement", "commit", "COMMIT", "failed"}
    /\ running \in {"commit", "COMMIT"} => ~inTxn
    /\ acked \in [AllPages -> Contents] /\ attempted \in [AllPages -> Contents]
    /\ failed \subseteq FailingCalls

\* What a restart would find is the database as the client knows it, or after one
\* more transaction whose commit was under way or threw: all of it, never
\* less than was acknowledged (u13_crash_test.cpp:15-22), whatever failed since.
AllOrNothing == Stable \in {acked, attempted}

\* Between transactions a client reads exactly what a restart would find:
\* nothing is left in memory for a read to see or a later commit to take along
\* (Pager::rollback, Pager::commit).  Which transactions those are it does not say.
ReadsAreStable == Waiting /\ ~inTxn => Readings = Stable

\* And that is what the client knows of: a transaction of which it was told no
\* more than an error -- of a statement of its own, of one of several, or of the
\* commit -- has left nothing of itself behind, in memory or in the log
\* (executor.hpp:97-103).
FailuresUndone == Waiting /\ ~inTxn => Readings = acked

\* They hold as long as the calls that failed are those the code is written
\* for (what the others do to them: the runs that violate them).  A checkpoint
\* that throws is one of these to the first two only: the transaction before
\* it is committed and stays so, whole, and its client is told of an error.
Handled == failed \subseteq {"write", "copy"}
HandledAllOrNothing   == Handled => AllOrNothing
HandledReadsAreStable == Handled => ReadsAreStable
Undone == failed \subseteq {"write"}
HandledFailuresUndone == Undone => FailuresUndone

\* Every statement ends, whatever fails on its way: it is acknowledged, or its
\* error is reported, or the process is killed.
StatementsEnd == running # "none" ~> running = "none"
=============================================================================
