# labdb: a TLA+ verification of the storage engine

labdb (`src/src`, C++) is a small relational engine: a SQL front end and
iterator operators over B+Trees and heaps, over a buffer pool, over a pager
with a write-ahead log. This directory holds TLA+ modules translated from its
source, the TLC runs that check them on small instances, and proofs, checked by
TLAPS, of what matters most for every instance.

## 1. The system

| component | state it keeps | operations | talks to |
|---|---|---|---|
| system calls (`io`) | none; the two files | `pread/pwrite_exact`, `truncate_exact`, `sync_exact` | the kernel |
| log (`wal`) | the log file: a header (generation) and frame slots; `generation_`, `header_ok_`, `end_`, `commit_end_`, `committed_`, `pending_` | `recover`, `write`, `commit`, `rollback`, `reset`, `truncate`, `sync`, `read` | io |
| pager (`pager`) | the database file; `meta_` (page count, free-list head, three roots), `committed_meta_`, `meta_dirty_`, `durability_` | open (recovery), `read_page`, `write_page`, `allocate_page`, `free_page`, `commit`, `rollback`, `checkpoint`, `sync`, close | log, io |
| buffer pool (`buffer_pool`) | frames (page, pins, dirty, ref), the page table, the dirty list, the clock hand | `fetch_pin`/`unpin`, read/write/allocate/free, `commit`, `rollback` | pager |
| B+Tree (`btree`) | a tree of pages; the root is recorded by its owner | `search`, `insert`, `erase`, cursors | pool; a callback to the catalog when the root moves |
| slotted page, heap | slot directory and record bytes of a page; a chain of pages | `insert`, `get`, `erase`, `compact` | pool; a callback when the head moves |
| catalog | one page of table descriptors: heap head, tree root, index roots, row count | `create_table`, `insert_row`, `create_index`, cursors | heap, B+Tree, pool |
| record codec | none | `encode`, `decode`, `project`, `order_key`, comparisons | |
| executor | `in_txn_`, the last plan | `run`: a statement, BEGIN, COMMIT, ROLLBACK; `run_select` | catalog, planner, operators, pool |
| planner (in the executor) | none | `plan_access`, the joins, grouping, order, limit: a tree of operators | catalog |
| operators | what each iterator has buffered, its cursor and the page that pins | `open`, `next`/`next_batch`, `close` of scan, lookup, filter, project, three joins, group, ends of indexes, sort, limit | each other; catalog cursors |
| SQL front end | none | lexer, parser, unparser | |

A statement is a transaction of its own unless `BEGIN` opened one. Its page
writes stay in the pool's frames until they are evicted or the transaction
commits; then they go to the log as frames, and `Pager::commit` writes a last
frame, the meta page, that ends the transaction. A checkpoint copies the log's
committed pages into the database file and starts a new generation of the log.
Opening the database scans the log up to its last commit frame and checkpoints.

**What is hard here.** The engine is one thread: nothing runs concurrently.
What makes it hard is *failure in the middle*. The process may be killed
between any two system calls, or inside one (a torn frame, a torn page); the
power may be cut, and then unsynced writes are lost, and on some disks
reordered; a crash may fall into the recovery from an earlier crash; and a
system call may fail and throw through code that has half changed its memory.
After that come *stale copies* (a page is in a pool frame, in a pending frame
of the log, in a committed frame, and in the file, and each operation must pick
the right one), and *long sequences* of legal calls on the linked structures
(splits and merges, the free list, the slot directory). `PROJECT.json` lists the
hazards line by line.

**What makes each component correct.**

- *Log and pager*: at every instant a restart would find exactly the committed
  state, which changes at a commit and nowhere else, and all at once; a running
  client reads that state with its own transaction's changes on top; what a
  commit promised, no crash it was promised against takes back.
- *Executor*: what fails leaves nothing behind; what was acknowledged stays;
  every statement ends.
- *Buffer pool*: every read through it is what a pager without a cache would
  return; a pinned frame stays; a page is never both free and in use.
- *B+Tree, heap, slotted page*: a map, a bag of records, an array of slots:
  each an abstract object the linked pages implement.
- *Catalog*: every index agrees with its table and the count with the rows.
- *Codec, planner, operators*: a query has the answer its tables define,
  whatever plan is chosen, whichever indexes it reads and in whatever batches the
  rows travel; each operator hands up its own rows, in order, none twice and none
  left out; its pins end with it; and every query ends.

## 2. Modules

| module | what it is |
|---|---|
| `Wal` | the log: its state, one operator per method of class `Wal`, the scan of a log file, and what crashes leave of the file. No behaviours of its own: only the pager calls it |
| `Pager` | the pager over the log and the database file: one action per call, or per system call where a call makes several; process crashes and power cuts; EXTENDS `Wal` |
| `AtomicStore` | the abstract specification: pages changed by one transaction at a time, atomically |
| `Pager_proofs` | the theorems about `Pager` when processes are killed, and when the power is cut |
| `BufferPool` | the buffer pool, with the pager's page allocation, over the pager as its callers see it |
| `PageSpace` | the abstract specification of the pool: pages in use, allocated, written and freed in transactions, without a cache |
| `BufferPool_proofs` | the theorems about `BufferPool` |
| `BTree` | the B+Tree: insertion, deletion, searches and cursors, one activation of the recursive functions at a time |
| `OrderedList` | the abstract specification of the tree: entries in the order of their keys, equal keys in the order of their insertion |
| `BTree_proofs` | the theorems about the pages of a tree |
| `BTreeOrder_proofs` | the theorems about the order of a unique tree; EXTENDS `BTree_proofs` |
| `MCBTree` | the trees TLC looks at |
| `SlottedPage` | the slotted page, as operators on a page: insertion, reuse of slots, erasure, compaction |
| `SlottedPage_proofs` | the theorems about a page: what compaction, insertion and erasure keep |
| `Heap` | a heap of slotted pages and its moving head; EXTENDS `SlottedPage` |
| `RecordStore` | the abstract specification of the heap: records under addresses that do not change |
| `Catalog` | tables, rows and indexes over heaps and trees; EXTENDS `Heap`, whose operators take the head of each table's heap |
| `Catalog_proofs` | the theorems about the tables: their pages, rows, counts, trees and indexes, and the heap of a database without them |
| `TableSet` | the abstract specification of the catalog: named maps from keys to rows |
| `MCCatalog` | the tables TLC looks at |
| `Records` | values, the record codec, order keys and comparisons, batches of rows, as operators |
| `Cursors` | tables as a query reads them: the cursors over trees and indexes, with the page each keeps pinned; EXTENDS `Records` |
| `Operators` | the operators of a plan as a stack machine of their `open`, `next` and `close` calls; EXTENDS `Cursors` |
| `Planner` | the plans of a SELECT: every access path and join that applies; EXTENDS `Cursors` |
| `Query_proofs` | the theorems about the ranges of keys a plan reads, the shape of plans, the pages they pin, the batches they pass, the limits and the aggregates' tables |
| `Answers` | the reference: the answer of a query, and the rows of each operator, on the values of the tables alone |
| `Query` | a SELECT from its plan to its result; EXTENDS `Operators`, `Planner`, `Answers` |
| `MCQuery` | the tables and queries TLC looks at |
| `Session` | `Executor::run` over the pager: statements, BEGIN/COMMIT/ROLLBACK, errors, system calls that throw; EXTENDS `Pager` |
| `Session_proofs` | the theorems about `Session`; EXTENDS `Pager_proofs` |

### How state and actions correspond to the code

`log` is the log file (header and frames), `generation`, `headerOk`, `end`,
`commitEnd`, `committed`, `pending` are the members of `Wal` of those names;
`db` is the database file (pages and length), `meta`, `committedMeta`,
`metaDirty`, `durability` the members of `Pager`. `pc`, `after` and `todo` are
where the process is inside a call that makes several system calls: `Commit`
appends the commit frame, `LogSync` is its fsync, `CheckpointStart` ..
`CopyPage` .. `GrowFile` .. `FileSync` .. `Reset` are the lines of
`Pager::checkpoint`, and `FinishSync`, `FinishClose` what `sync()` and the
destructor do after it. `Open` is the constructor.

`written` and `dbDisk` are the *disk*: the images the log file has had since
its last fsync, and the versions each page of the file has had. They are kept
only when `"power" \in Faults` (operator `Tracked`); a process crash does not
lose what was given to the kernel. `PowerCut` picks what survives:
`OrderedSurvivors` (a disk that performs writes in order) or
`ReorderedSurvivors` (any version of every 512-byte sector, the model of
`tests/crashsim.hpp`). The database file may always keep any version of any
page, and any page may be torn.

`stamp`, `history`, `promised`, `lastGen` are not in the code: they number the
contents written, remember the committed states and which of them no crash may
take back, and make a fresh generation fresh.

In `BufferPool`, `frame`, `listed` and `hand` are the members `frames_`,
`dirty_list_` and `hand_`; `page`, `pending`, `meta` and `committed` are what
the pager shows: the newest version of each page, the pages of the transaction,
the page count and free-list head, and what a rollback or a restart goes back
to. There is one action per method; `Obtain`/`ObtainFails` are `obtain` with
the eviction inside it, when it succeeds and when it throws. The client is any
sequence of legal calls: it uses and frees what it has allocated, and rolls
back after an exception, as `Executor::run` does. `free`, the list's pages in
order, and `stamp` are not in the code. The clock's loop is `Scan`; the actions
use its closed form (`Victim`, `Reprieved`), and `ClockFindsVictim` compares the
two in every reachable state.

In `BTree`, `node` is the pages of one tree, each a leaf or an internal node,
`root` is `root_`, and `pc`, `arg`, `at`, `path`, `split`, `under` are the
recursion of `insert_rec` and `erase_rec`: `path` holds the activations above
the one in progress, each with the *copy* of its page that it read on the way
down and will write back on the way up. `Descend` is the way down;
`UpdateEntry`, `InsertEntry`, `SplitLeaf`, `EraseAbsent`, `EraseEntry` what
happens in the leaf; `AbsorbSplit`, `SplitInternal`, `AscendErased` (with
`FixChildUnderflow`, one of two rotations or a merge) what an activation does
when the one below it returns; `GrowRoot`, `EraseReturns` the end of the call.
`Search`, `Seek`, `LastSeek` are the reads, as what they return in a state.
Between the actions of one call nothing else runs; the steps are separate
because the properties of the chain and of the pages' sizes are stated in the
middle of a call as well. Pages come from the pool of `BufferPool`: any page not
in use, and a freed one may be anyone's next. A rollback drops the tree's pages with all
others; the owner then opens the tree again from the root it has recorded.

In `SlottedPage`, a page is a record of the fields of `SlottedPage`'s header
(`freeStart`, `freeEnd`, `frag`, `next`), its directory `slots` and `bytes`,
the bytes that records have: those of no record are never read. Sizes are in
units, so that a page of seven holds a few records. In `Heap`, `head` is `head_`
and each action a whole call.

In `Catalog`, `slots` is the page of descriptors in the order they were
created; `page` the slotted pages of all heaps; `HeadOf(i)` the head of
table `i`'s heap, that its descriptor records, which `Heap`'s operators take; `tree` the
trees, as `OrderedList` describes them, by the number of their root. A tree may
move its root in any insertion: then the entries are found under the new number
and the old one keeps a part of them, so a descriptor that misses a report
reads a wrong tree. `legacyRoot` is the root in the pager's meta page, which
`create_table` and `create_index` overwrite because the tree they plant has no
callback yet; nothing reads it when there are tables. Each action is a whole
call: a row goes into the heap, the table's tree and the indexes, each of which
may rewrite the descriptor meanwhile, and then the count is added to what the
descriptor holds *by then*. What throws in between is undone with its
transaction (`BufferPool`, `Session`). `scope` keeps apart the two uses of a
database: its one heap without tables (`head`, `Heap`'s operations with
erasure), or its tables. The catalog never erases a row but the one it has just
refused, so the heap by itself is where slots are reused and pages compacted.

In `Records`, a record is a sequence of units with the layout of the code: the
null bitmap, a fixed part with a slot for every column, null or not, then the
bytes of the texts. `Encoded` and `Projected` are `encode` and `project`;
`Base ^ PrefixLen` keys stand for 2^64, so the integers' keys fill the keys'
width exactly and both ends can wrap, as in the code. In `Cursors`, a tree is the
ordered list of `OrderedList` and agrees with its table (what `MCCatalog`
checks); `Filled` is `IndexCursor::fill` with its runs of rows on one page,
`FilledByPage` is `TableCursor::fill`. A record read when its page is not the one
pinned reads as nulls, for what a reused frame would hold: so a run decoded after
its pin has moved shows in the rows. Which bytes a frame holds is
`BufferPool`'s matter.

In `Planner`, a query has its names resolved: a column is a number. A plan is a
sequence of nodes, each after its inputs. `Access` is `plan_access`, `ByIndex`
one of its candidates, `RangeKeys` is `range_keys`; `JoinsOf` holds the nested
loop, the hash join with either side built, and each index that an equality can
search, on either side; `LiteralFrom` is the planner that reads the query as
written. The code takes the cheapest of the options that apply and an option
can force any of them: here `Plans` is the set of all, and `Query` runs each.

In `Operators`, `st[n]` holds the members of node `n`, `stack` the calls under
way, `reply` what the last of them returned. A call pushes a frame, a return
leaves a reply, and one action is what an operator does between two of its calls:
so a filter that asks again, a join whose output is full in the middle of a row's
matches (`Gathered`, with `busy` and `pos`), an aggregate that grows its table,
are steps one can see. `batch` is `batch_rows_`, and 0 the interface that hands up
a row at a time. `Query`'s `Plan`, `Open`, `Take`, `Close` are the lines of
`run_select`, `Fail` its exception; `expected` is `Answers`' account of each
node, and is not in the code.

What is abstracted in the pager: a page's contents are one number (each write writes a new
one), page 0's is the page count; a torn frame or page is recognised as such
(the checksum is perfect); of the meta page only the page count is kept, since
the other fields are changed, committed and rolled back by the same
assignments; the free list is in `BufferPool`.

## 3. Runs

Every bound is a CONSTANT and a guard: `MaxPage` data pages, `MaxSlots` frame
slots, `MaxStamp` page writes, `MaxCrashes`, `MaxCloses`, `MaxFailures`, `MaxPins`; of the trees `MaxKey`,
`MaxPage` and the entries of each member of `Trees`; of the catalog `MaxPage`,
`MaxRows`, `MaxMoves` and the rows in `Row` and `Record`. `MaxTables` is the
code's own limit. Of the queries the bounds are the data: `Databases`, `Queries`
and `BatchRows`; `MaxInt`, `Base` and `PrefixLen` are the machine's widths and
`RowsPerPage` and `InitialSlots` the code's sizes, made small.

| run | question | bounds and why they are enough |
|---|---|---|
| `MCPagerProcess` | killed at any system call, is the pager still an atomic store? (`ImplementsAtomicStore`, the invariant `Inv` of the proofs, `NeverShort`, `CommittedFramesStable`) | 2 pages, 5 slots, 2 writes, checkpoint at 3 frames, 2 crashes, 1 close: a transaction of several frames, a second one in the same log, a reset with old frames behind it, a crash in the recovery from a crash |
| `MCPagerPower` | on a disk that orders its writes, do two power cuts take back a promise or split a transaction? (`RecoveredIsLast`, `FramesDurableBeforeCopy`, `PromisesKept`) | as above; the mode starts kFull and may be set to kNormal |
| `MCSession` | do statements, transactions and their failures leave what they should? (`HandledAllOrNothing`, `HandledReadsAreStable`, `HandledFailuresUndone`, `StatementsEnd`) | 2 pages, 4 slots, 2 writes, a failure of each system call, a kill, a close |
| `MCBufferPool` | is the pool a transparent cache, through commits, rollbacks, failures and restarts? (`ImplementsPageSpace`, `PoolInv`, `PinsHold`, `ClockFindsVictim`) | 2 frames, 3 pages, 1 pin a frame, 2 writes and frees: every eviction has a choice, a page can be written, evicted and read back, freed and reused |
| `MCBTree` | is the tree an ordered list, whole, within its pages, and found by every read? (`ImplementsOrderedList`, `NodesFit`, `OneTree`, `ReadsFind`) | leaves of 2 entries and nodes of 3 keys, which keep the parity of the code's 254 and 339 (an even leaf and an odd node split into halves that reach the minimum, and two minimal ones merge into a page); three trees: 6 keys, three levels, every repair at both of them; 4 keys and 2 values, with updates and refusals; 3 keys, 2 values and duplicates, 5 entries, two levels |
| `MCCatalog` | do records keep their addresses and bytes, and do the tables, their trees, indexes and counts agree? (`KeepsRecords`, `PagesSound`, `PagesOwned`, `IndexesAgree`, `CountsExact`, `ImplementsTables`) | two pages of 7 units with room for up to three records each, so a page fills up, is compacted, reuses a slot in the middle and gives back slots at its end, and a heap gets a second page; two tables, 3 rows, an index on a column with a NULL and with two values of one `order_key`, created before or after the rows; a row too long for any page, which is refused with nothing filed; each root moves once. The tables' names are interchangeable (`SYMMETRY`) |
| `MCQuery` | does every plan of a query, in batches of any size, give the answer, pin little, leave no pin, and end? (`Delivers`, `BatchesHold`, `Answered`, `PinsBounded`, `NoPinOutlives`, `TablesSound`, `LimitReadsNoMore`, `QueriesEnd`) | four tables of up to 7 rows, 2 rows a page, filled out of key order, so neighbours in an index lie on different pages; integers of 4 bits at both their ends; texts that share the two bytes of an order key, one that has the code of NULL, an empty one; an empty table; indexes made before and after the rows and none; 26 queries over one database and 23 over the other, with ranges at and past the ends, ties in the order, limits 0 to 4, groups with NULL, joins of two and three tables and of one with itself; batches of 1, 2, 3 rows and none, so every output fills in the middle of a row's matches; an aggregate's table of 2 slots that grows twice, with hashes that collide |
| `MCPagerReorder`, `MCPagerDouble`, `MCBufferPoolFree`, `MCSessionCommit`, `MCBTreeDuplicates` | expected violations: section 5 | the smallest that show it |

`CHECK_DEADLOCK` is left on everywhere: no run may stop without a step.

Fairness. `Pager`, `BufferPool`, `BTree` and `Catalog` have none, and need none for safety.
`Query`'s `RunsOn` is weak fairness of `Next`: one thread runs the query, and it
runs on. It is written as `<>[]~ENABLED Next \/ []<><<Next>>_vars` would be, with
the states in which the query has ended in place of `ENABLED`, which TLC
would evaluate by planning the query anew in each state. `QueriesEnd` says that
no operator asks for ever.
`SessionSpec` has weak fairness of `Body \/ Running \/ Failure`: the process is
one thread that goes on with the statement it runs, and its body is finite;
nothing is assumed of the client (a session may stay idle in a transaction for
ever) nor of crashes; `StatementsEnd` is its liveness property.

## 4. Proofs

`Pager_proofs` proves, for every number of pages, slots, writes, crashes and
every checkpoint limit, assuming `"power" \notin Faults` (processes are killed;
the machine keeps running):

- `PagerInv`: `Spec => []Inv`;
- `PagerType`: `Spec => []TypeOK`;
- `PagerNeverShort`: the length check at the end of the constructor never fails;
- `PagerCommittedFramesStable`: a committed frame is not overwritten before a
  checkpoint has copied it;
- `PagerImplementsAtomicStore`: `Spec => Store!Spec` -- recovery and
  `read_page` show an atomic store.

Neither `NeverShort` nor the refinement is inductive: both speak of a *scan* of
the log, which a step can disturb by writing far from the slots in use. `Inv`
is the conjunction of

- `LogInv`: the slots before `commitEnd` are whole frames of this generation
  ending in a commit frame, and no slot after them holds a commit frame of this
  generation -- although frames of it, left by rollbacks and crashes, may;
- `MapInv`: `committed` and `pending` name exactly the frames they stand for;
- `CheckpointInv`: what a checkpoint has copied equals its frame, and no
  transaction is open meanwhile;
- `MetaInv`: the meta page in memory is the committed one but for the
  transaction's changes, and the file is long enough.

From it follow `ScanEndIsCommitEnd` and `ScanMapIsCommitted` (a restart would
rebuild `committed`) and so `Stable = Mapped`. Then every action keeps `Mapped`
but `Commit`, which sets it to what the client reads; that is the refinement,
one lemma per kind of step of the store.

Its second half proves, for the same numbers, what two power cuts or any other
number of them leave:

- `PagerRecoveredIsLast`: a restart finds the last state committed;
- `PagerFramesDurableBeforeCopy`: what a checkpoint copies into the file stays
  on stable storage until the file is synced;
- `PagerPromisesKept`: no commit acknowledged under kFull is taken back;
- `PagerPowerNeverShort`: nor is the file ever shorter than its meta page says.

They assume `PowerAssumption`, each part of which the properties need:

- `"process" \notin Faults`: the process does not die before the power does.
  A recovery copies frames it never synced (`MCPagerDouble`, section 5);
- `~Reorders`: the disk keeps the order of the log's writes (`MCPagerReorder`);
- `"off" \notin Durabilities`: under kOff nothing is promised;
- kNormal is not tightened to kFull. TLC finds, with both in `Durabilities`, a
  commit under kNormal whose frames are unsynced, the switch to kFull, under
  which a checkpoint takes the log for synced, and a power cut in the copy.

`PowerInv` is the invariant. While the process runs, `Inv` holds of what it
remembers; `DiskInv` speaks of the disk, whose state is a *set* of logs and files
a cut may leave:

- `ImagesInv`: where one image of the log differs from the next, it is past the
  commits that a scan of it finds, and the last image is the log itself;
- `FileInv`: the file on disk is the one in memory except for pages a
  checkpoint is copying, whose frames the log has;
- `HistoryInv`: the last state of the history is what a restart would find;
- `LastingInv`: while the file is quiet, every image scans to a state of the
  history that is no older than the last promise;
- `SyncedInv`: while the file is changing, and between the commits of kFull,
  every image holds the committed frames.

A write past the scan's end of an image cannot change what that image scans to
(`Whole`, `Same`), and an fsync leaves one image; so each step of the log adds an
image that scans to the same state, and only `Commit`'s last frame adds to the
history.

`Session_proofs` proves, for the same numbers and every failing system call
(`SessionAssumption`):

- `SessionType`: `SessionSpec => []SessionTypeOK`, whatever fails;
- `SessionAllOrNothing`: after failures the code handles, a restart finds whole
  transactions, and every one its client was told of;
- `SessionReadsAreStable`: and between transactions a client reads what that
  restart would find;
- `SessionFailuresUndone`: and, unless a checkpoint threw, that is what it was told
  is committed -- a statement or a transaction that ended in an error has left
  nothing of itself.

The invariant is `SInv` (`SessionInv`). Between a frame that could not be written and the
rollback that answers it `Inv` is false, as the log has a frame the maps do not know:
`Undoable` is what the rollback relies on in the meantime, and `Sound` says when
which of them holds, and that where a transaction may be open follows from where
the session is. `Known` adds that, but for a commit under way and a kill until the
next connection, the last committed state is the one the client knows of: that is
what a checkpoint that throws makes false, and the only thing. An unhandled failure
(section 5) ends what `Sound` says for good.

`BufferPool_proofs` proves, for every number of frames, pages, writes and pins
(`PoolAssumption`: at least one frame):

- `PoolInvariant`: `Spec => []PoolInv`, and `PoolType` from it;
- `PoolPinsHold`: a pinned frame keeps its page until it is unpinned;
- `PoolImplementsPageSpace`: `Spec => Space!Spec` -- what clients read through
  the pool is what a store without a cache would give them;
- `PoolClockFindsVictim`: `choose_victim`'s loop ends within its two turns in the
  frame that `Victim` names in closed form, with the second chances it
  has taken: the loop is followed look by look, by the least look at which it
  would differ.

`PoolInv` is inductive as it stands. Beside the types it says that

- `Coherent`: no page is in two frames; a clean frame holds the pager's version;
  a dirty one is on the dirty list; a page that is not pending is as committed;
- `FreeListsSound`: the free list, followed through the pages themselves, is a
  list of distinct pages, and so is the committed one;
- `UsedPagesUsable`: no page in use is left marked free with nothing newer in
  the pool;
- `NewPagesKnown`: a page the transaction allocated is dirty in a frame or
  pending in the pager. The refinement does not say it, and a rollback needs it:
  it drops exactly the dirty and the pending frames, and one it missed would
  hold a page that is no longer in use.

The argument follows the calls. `TargetIs` says where `obtain` puts a page (in
its own frame, an empty one, or an unpinned victim, which exists by
`VictimUnpinned`), `ObtainEffect` and `ObtainFailsEffect` what becomes of the
frames and the pager when it succeeds and when it throws, `TakenIs` and
`FreedIs` what becomes of the free list, `WrittenFrames` what a commit or part of
one writes. Each lemma ends in what `Seen` becomes, so the refinement takes one
step of `PageSpace` per call and none per eviction.

`BTree_proofs` proves, for every size of leaf and of internal node, any keys and
any number of pages (`BTreeAssumption`: leaves of at least two entries; an odd
number of at least three keys, so the halves of a full node are of one size):

- `BTreeType`: `Spec => []TypeOK`;
- `BTreeNodesFit`: no call writes more entries into a page than it holds, and between
  calls no page but the root is less than half full;
- `BTreeOneTree`: between calls each page but the root is the child of exactly one
  page, and all leaves are at one depth.

None of them is inductive: in the middle of an insertion there is a page nothing
points to, in the middle of an erasure one page short, and a node on the way up
is written from a copy made on the way down. `IInv` says what holds then:

- `ShapeInv`: there are heights, 0 at the leaves and nowhere else, such that
  every page is the child of one page, which lies one higher, except the
  *tops*: the root, and while a split returns the page split off, which is as high
  as the page in progress (`Forest`, `Levels`, `Tops`);
- and the activations are a `Route` from the root to the page in progress, each one
  level below the last, whose copies are still what their pages hold. They
  are because a repair changes only pages below the next activation: the heights
  tell them apart;
- `SizeInv`: sizes are within their bounds, but the page in progress of an
  erasure may lack one entry, and a root that splits leaves two halves that reach the
  minimum (`Stocked`, `Lack`);
- `CallInv` and `NodeInv`: the types, and that no node has a child twice.

What a call does to the tree is one of few things, a lemma each: a page is
planted (`Planted`), adopted by a parent (`Adopted`), two nodes of a level exchange
children (`Moved`), a node is divided (`Divided`) or two merged (`Merged`), a root is
put on top (`Crowned`) or taken away (`Uncrowned`). Under them are lemmas on what
the operations on arrays do to lengths and to the set of children. That two merged
nodes fit one page is `UnitedIs`: one is one short of the minimum, the other just
reaches it. `OneTree`'s `Depth` walks down from the root; `DepthIs` solves it
in terms of the heights.

`BTreeOrder_proofs` proves, under the same assumption, that a unique tree is in order:

- `BTreeOrdered`: `Spec => [](IInv /\ OrderInv)`, the invariant of the next two;
- `BTreeReadsFind`: `Spec => [](unique => ReadsFind)` -- a search finds its key's value
  if there is one, a cursor the first entry of its key or above and all that follow,
  `last()` the last entry;
- `BTreeImplements`: `Spec /\ unique => ImplementsOrderedList` -- the chain of leaves is
  the ordered list, and changes once in each call, by the entry written or erased.

It is stated for unique trees because it is false of others (`MCBTreeDuplicates`,
section 5). That the chain is in order cannot be seen from the pages a step changes,
and the separators on the way down say which keys a page is for only together.
`OrderInv` says it page by page: there are bounds `lo` and `hi` such that

- a page's separators divide the keys from `lo` on and below `hi` between its
  children, who have the bounds between them (`Branches`, `Divides`), from 0 to beyond
  the last key at the root;
- a leaf's entries are within its bounds, in strictly ascending order, and the leaf
  after it in the chain begins at the bound where it ends, or there is none and it
  ends with the keys; no two leaves share keys (`Leaves`, `Chained`, `OwnKeys`);
- the call in progress is at a page for its key (`Placed`), so the entry it writes or
  erases is where a search would look for it;
- while a page split off is on its way up, the page it came from has its own new bound,
  and the one its parent still has it for is the new page's (`Wide`): the only
  moment at which a node and its children disagree.

The heights of `IInv` are what an update is local by: each page has its own children,
so moving the bound between two neighbours (`BoundsMoved`) touches them and the
separator between them, and the bounds of every other page stand. Each kind of step has
a lemma that says what it does to the bounds and that the entries held stay, or change
by one (`UpdateEntryOrder` to `EraseReturnsOrder`); under them are lemmas on what
inserting, removing, halving and joining do to ascending sequences.

From the bounds follows what the walks come to. `From` and `LeafBy` are functions
recursive in their number of steps, which are taken apart once (`WalkIs`, `DownIs`): the
walk along the chain from a leaf is the entries of all leaves from its bound on, in
order (`WalkedFrom`, by the least number of steps at which it would not be), and the
way down for a key ends in the leaf whose bounds hold it (`KeyLeads`). As two ascending
lists of the same entries are one (`SameList`), what `Seek` returns is a suffix
of the list, and a step that adds or removes an entry of the set the leaves hold is a
step of `OrderedList` (`ListSteps`).

`Query_proofs` proves, for integers of every width, what lets an index scan
*consume* the terms it was planned from, unlike a scan of texts, whose filter
checks them again:

- `OrderKeyKeepsOrder`: integers' keys are in the order of the integers, and
  different;
- `TightenedMeets`: a range narrowed by a term keeps the values for which the
  term holds, a NULL literal keeping none;
- `RangeKeysExact`: the keys read are those of the range's values, and none when
  an exclusive bound at either end of the integers would wrap.

There is no state in them: the fold of `TightenedMeets` over a query's terms is an
induction, and stays with `Answered`.

And for any tables, queries and batches (`QueriesNameTables`: a query names a table or
several):

- `PlansAreTrees`: in every plan an operator comes after those it reads, reads as many
  as it has inputs, and no two read the same;
- `QueryNoPinOutlives`: `Spec => []NoPinOutlives`;
- `QueryPinsBounded`: `Spec => []PinsBounded`;
- `QueryBatchesHold`: `Spec => []BatchesHold`;
- `QueryLimitReadsNoMore`: `Spec => []LimitReadsNoMore`;
- `QueryTablesSound`: `Spec => []TablesSound`, when `mix64` makes a number of every hash
  (`HashesAreNumbers`; it returns a 64-bit one).

Which cursors may pin cannot be told from what they hold: a node may be open only
because the one above it is. `IInv` says so: there is a set of open nodes, among them
all that pin or have a call under way, and each of them is under way itself, or the
root, or an input of an open node that keeps it open (`Below`) -- at rest only the
input a node streams, and while a node opens only the one that has just answered, so
that the build side of a join is closed before the other side opens. `Link` is the
rest of the protocol: which calls a node may make in which of its own. A call takes
one more node into the set (`CallStep`); an `open` or a `next` that returns leaves it
in (`ReturnOpen`), a `close` takes it out, nothing then being open below
(`ReturnClosed`); every operator's action is one of these. When the root has closed
the set is empty, for its last node would be below another (`ClosedAll`). It is
always a branch: every open node but the root is read by an open one
(`HasReader`), no open node reads two open ones (`OneOpen`), so of the nodes that
read none -- all that pin, save the index joins -- one is open at most, by counting
(`OneEnd`).

A batch is right because of all that led to it. `SInv` has a conjunct for each part:
a plan fits its tables (`DbInv`: a limit stands at the root or right below its projection, columns
are those of trees there are); a node holds sequences, its cursor is on an entry of a tree, it
has handed out no more than it holds (`NodesInv`); a call for rows asks for one at
least, and through a filter, a projection or a limit for no more than was asked of them
(`AskedInv`); what a join has gathered fits what its call may hand up, and there is
none when it is not asked (`OutInv`); a batch has rows, no more than the call it answers
wanted (`RowsInv`); a node that is called for rows has been opened (`ReadyInv`), an
index join with its cursor (`SearchInv`). It takes `TablesHaveTrees` (a table has its own tree),
`QueriesNameTables` and `CountsArePositive`. The folds of a sort and of an aggregate are
functions, each solved once (`AllHeldIs`, `AllGroupedIs`), of which only as much is shown as is
needed: they lose no entry.

A limit cannot be judged from its own node: the rows it has counted lag behind those
read for it while they are on their way. `MeterInv` states both: which of its calls the
query has made of the root (`Phase`), the rows its reader has yet to take (`Pending`),
and for each limit that all its input has counted it has handed up, but for those, and
no call under way to its input asks for more than it has left (`Metered`). As a limit is
called as the root is (`LimitCall`), its input counts no row outside `next`.

A table of groups is sound (`SoundTable`) when each of its groups stands in
one slot and is `Reached`: on the way from the slot of its hash no slot is empty
before it. With more slots than groups one is empty, by counting (`FreeSlot`), and a probe
passes every slot (`ProbeReaches`), so a probe ends (`ProbeEnds`): at a group with the
key looked for if there is one (`ProbeFinds`), else in the empty slot in which
to file it, which lengthens no other's way (`FiledNext`). Growing is a recursion over the groups
and needs room for all in twice the slots (`GrownIs`). `TableInv` adds that an aggregate has its
table whenever its input answers it as it opens.

That `from` is read from one joined table to the next is a recursive function, solved
once (`JoinedIs`, `LiterallyIs`); that its plans are trees is shown for the least number
of tables at which they would not be.

`SlottedPage_proofs` proves what one call does to a page, for every size of page,
header and directory entry (`SlottedPageAssumption`: an empty page has room for
an entry and a byte) and records of every length. A page is `Sound` when it has its
type and satisfies `SoundPage`: the directory ends where `free_start` says and
before the cells, the cells lie within the page and share no byte, the bytes
that are there are those of the cells, `frag` counts the others behind
`free_end`, and dead entries are marked as such and never last.

- `CompactedSound`: compaction keeps a page sound, makes its free bytes one run
  of exactly the length it was counted at, and changes no record;
- `ErasedSound`: erasure removes that record and no other, also when it gives
  back the dead entries at the end of the directory;
- `StoredSound`: an insertion that `Fits` accepts takes an address no live
  record has, compacts first when it must, never overwrites a byte of another
  record, and is read back as it was given.

The difficulty is in compaction, which walks the slots: `Packed` is a function
over their numbers. What holds of it for every slot is shown for the least
slot of which it might fail (`LeastElement`), since induction theorems are out
of the prover's reach. Cells packed so are disjoint because each ends where the
one before begins, and they fit because their lengths add up to what
`SoundPage` counts.

`Catalog_proofs` carries this to the database, for any tables, rows and records
(`HeapAssumption`, `CatalogAssumption`: records and encodings are sequences of units,
keys and order keys are natural numbers and columns are numbered from 1):

- `CatalogPagesSound`: `Spec => []PagesSound`, for the pages of every table's
  heap and of the heap of a database without tables;
- `CatalogPagesOwned`: `Spec => []PagesOwned`, that each page is in one heap;
- `HeapKeepsRecords`: `Spec => KeepsRecords`, that the heap of a database without
  tables implements `RecordStore`;
- `CatalogCountsExact`: `Spec => []CountsExact`;
- `CatalogIndexesAgree`: `Spec => []IndexesAgree`, that every tree files the rows
  of its table, each once and in order;
- `CatalogImplementsTables`: `Spec => ImplementsTables`, that the tables implement
  `TableSet`;
- `CatalogType`: `Spec => []TypeOK`.

`PagesSound` is not inductive: an action that inserts below a head which names no
page would apply the page theorems to nothing. `Inv` adds that each head recorded,
in a descriptor or the meta page, names a page that is there or none, that
descriptors have their types and every table its own tree, and, of the heap that
has the database to itself, that its pages are linked in the order of their numbers. From the
last it follows that the chain from the head is all of them (`ChainIs`), so
the records live are those of all pages, and an insertion adds one
(`InsertRows`), an erasure removes one (`EraseRows`). With tables this heap stays
empty.

`PagesOwned` speaks of chains, which a step could cut far from where it
writes. `OwnInv` says instead that there is an owner and a height for each page,
such that a page links to one of its own table that lies one deeper, and each
but the head is linked from one (`Parts`, `Linked`). From this the chain is solved once
for all heaps (`ChainSolved`: after `n` links it is the pages at most `n` below the
head, by the least `n` at which it is not), and a step that moves a head adds one
page on top of its heap and disturbs no other (`PageAdded`).

`CountsExact` comes on top of it: the rows and
pages a descriptor counts are those of the pages its table owns (`PartIs`), which
are finite, and an insertion or an erasure changes the part of one table by one
row and at most one page. That a refused row leaves its page counted is part of
it.

The rows of a table, by their addresses, are a function that all heaps and heads
are read into (`RowsOf`): an insertion adds one pair to it (`InsertRowRows`), a
refusal, which stores the row and erases it, changes none (`RefuseRowRows`), nor does
either change another table's. `Files` then says what a tree holds of such a function: an
entry for each row it files and no other, as many as there are, in the order of
the keys, strictly so in the table's own tree. Inserting an entry keeps it
(`FiledFiles`; it is where a key that is taken must have been refused), and a new index,
filled row by row, has it at the end (`EntriesForFiles`, by the least row at which
it would not). `IndexesAgree` is not inductive, as it says nothing of trees a
step may read by mistake: `TreesInv` adds that each root recorded belongs to its
own table and column, so a root that moves for one column or is planted for one
table is no other's, and that no two tables share a name. `ImplementsTables` follows:
what is read through a table's own tree is the map of those rows (`MapIs`), which
is determined by them (`SameMap`) and grows with them (`MoreMaps`).

Only model-checked:

- `ReadsFind` and `ImplementsOrderedList` of trees with duplicates, of which they hold
  only up to the depth that `MCBTree` looks at;
- what queries answer (`Delivers`, `Answered`) and the type invariant of `Query`: `Answers` and
  `Operators` use folds throughout, over rows and over terms, and what a fold computes is an
  induction; the types of what nodes hold follow the types of columns through every plan;
- liveness (`StatementsEnd`, `QueriesEnd`), which this prover does not reach;
- a process crash followed by a power cut, of which the promises are false
  (`MCPagerDouble`).

## 5. Disagreements between the code and its documentation

Each is a run that TLC must find violated; `PROJECT.json` quotes the lines.

1. `MCPagerReorder`: the header a reset writes is not synced. On a disk that
   keeps a later write and loses an earlier one, a commit that returned under
   kFull is lost.
   (A page written twice in a transaction overwrites its frame, and such a disk
   can also keep the commit frame and the older version: the same assumption,
   so no run of its own.)
2. `MCPagerDouble`: a recovery checkpoints without syncing the log, taking its
   frames for durable; a process crash before a commit's fsync followed by a
   power cut in the recovery leaves part of a transaction, on an ordered disk
   as well.
3. `MCSessionCommit`: a failed COMMIT is not rolled back; the hole it leaves in
   the log ends every later recovery early.
4. `MCBufferPoolFree`: the pool drops its version of a page before the pager
   checks it for a double free, so a page taken from the free list and freed
   again before it was written back is refused. Filling and emptying a B+Tree
   twice in one transaction is enough.
5. `MCBTreeDuplicates`: when an internal node splits, the new page is placed by
   its separator and not by the child it comes from. With equal separators --
   duplicates over several leaves -- it lands after pages that follow it in the
   leaf chain, and a later `seek` starts below the key it is asked for. With
   the code's sizes it takes 339 separators in one node, as when runs of more
   than 254 rows with equal column values are indexed in descending order.
   `MCBTree` therefore states `ReadsFind` for trees of duplicates whose only
   internal node is the root; unique trees have no equal separators.

A failing header write in a reset (hazard at `wal.cpp:185`, action
`HeaderFails`) has the same effect as 3. A failed fsync of a commit (hazard at
`wal.cpp:166`, action `CommitFsyncFails`) is rolled back in the meta page only:
the log's maps have moved on, and reads show the transaction that reported an
error. For these reasons `MCSession` states
`HandledAllOrNothing` and `HandledReadsAreStable` for the failures the code handles
(`Handled`): a frame that cannot be written in a statement or its commit, and a
checkpoint that fails.

The second of these disagrees with a comment, in a smaller way than those above and
without a run of its own. `Pager::commit` runs the checkpoint after the
transaction is committed (`pager.cpp:189-194`). When it throws, `Executor::run`
rolls back what is no longer there and passes the error on: the statement
failed, and all it wrote is readable and survives a restart. `executor.hpp:97-100`
says that a statement "commits when it succeeds and rolls back when it throws, so a
statement that fails halfway [...] leaves nothing of itself behind".
`HandledReadsAreStable` cannot see this, as it does not say which transactions a
client reads. `HandledFailuresUndone` does, and is stated for failing writes alone
(`Undone`): with "copy" in it TLC finds the first commit whose checkpoint throws.

`Catalog` and `Cursors` read their trees as ordered lists, which 5 refutes for deep trees of
duplicates: `IndexesAgree` speaks of what is filed, not of what such a `seek`
finds. Two small remarks without a run. A comment of `IndexMinMax`
(`operator.cpp:952-954`) takes a text shorter than its key for the only one
with that key; a text that ends in zero bytes has the key of the text without
them. `MCQuery`'s texts hold no zero byte. And `insert_row` is said to write nothing when
the key is taken (`catalog.hpp:241`); it takes the row out again, and a page the
heap had to begin stays, counted in the descriptor, as `CountsExact` requires.
The statement that failed is rolled back in any case.

## 6. Plan

In this order; the most important behaviour is first and done.

1. **done** `Wal`, `Pager`, `AtomicStore`, `Pager_proofs`, `Session`.
2. **done** `BufferPool`, `PageSpace`, `BufferPool_proofs`.
3. **done** `BTree`, `OrderedList`, `BTree_proofs`, `BTreeOrder_proofs`. All of its
   properties are proved, `ReadsFind` and the refinement for unique trees.
4. **done** `SlottedPage`, `Heap`, `RecordStore`, `SlottedPage_proofs`.
5. **done** `Catalog`, `TableSet`, `Catalog_proofs`, and the table and index cursors
   in `Cursors`. All of its properties are proved.
6. **done** `Records`, `Planner`, `Operators`, `Answers`, `Query`,
   `Query_proofs`. All of its properties are proved but its type invariant and what it
   answers (`Delivers`, `Answered`).
7. **done** power cuts in `Pager_proofs`, and `Session_proofs`: the session's
   safety properties under `Handled` and `Undone`.

Not modelled and why:

- the SQL front end: pure functions of texts;
- the planner's costs (`plan_access`, `count_index`, `index_bounds`): they pick
  one of the plans that `Query` runs all of, and so change time, never rows;
  names and the errors of their resolution, `describe`, `detail` and the texts of
  plans;
- DOUBLE and AVG, whose results are rounded; INT32 and BOOL are integers of a
  narrower slot and add no case of their own; HAVING against another column,
  which is a filter like any other;
- `RowsScan` and `ColumnsScan`, the pool's `copy_pages`, and the other switches
  that only benchmarks and demonstrations set;
- queries that run while another changes the tables: there are none, the
  executor runs one statement to its end;
- the shell, tests and demonstrations under `src/tools`, `src/tests`.
