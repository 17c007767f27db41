-------------------------------- MODULE Heap --------------------------------
(***************************************************************************)
(* A heap of labdb (src/src/heap.hpp, heap.cpp): records in a chain of     *)
(* slotted pages, the newest first.  A record's address is its page and    *)
(* its slot.  Each action is a whole call; a call that throws on the way   *)
(* is undone with its transaction (module BufferPool).                     *)
(***************************************************************************)
EXTENDS SlottedPage

CONSTANTS
    MaxPage,     \* bound: pages are 1..MaxPage
    Record       \* bound: what the client inserts

ASSUME HeapAssumption == MaxPage \in Nat /\ Record \subseteq Seq(Unit)

VARIABLES
    head,        \* head_, and what the owner has recorded
    page         \* the slotted pages of the database

NoPage == 0      \* kNullPage
Pages  == 1..MaxPage

\* The page a record goes to, in the heap of head h: the head if there is one with
\* room, else a page the pool allocates.
Fresh          == Min(Pages \ DOMAIN page)
Room(h, rec)   == h # NoPage /\ Fits(page[h], rec)
Into(h, rec)   == IF Room(h, rec) THEN h ELSE Fresh
Before(h, rec) == IF Room(h, rec) THEN page[h] ELSE EmptyPage(h)

\* What insert returns, and the pages it leaves.
NewRid(h, rec)    == <<Into(h, rec), SlotFor(Before(h, rec))>>
PagesWith(h, rec) ==
    [p \in DOMAIN page \cup {Into(h, rec)} |-> IF p = Into(h, rec) THEN Stored(Before(h, rec), rec) ELSE page[p]]

\* (Bound: a record that needs a page finds one.)
Insert(rec) ==
    /\ Len(rec) \in 1..MaxRecordSize
    /\ Room(head, rec) \/ Pages \ DOMAIN page # {}
    /\ page' = PagesWith(head, rec)
    /\ head' = Into(head, rec)

\* insert throws when the record is empty or fits no page.
Refuse(rec) == Len(rec) \notin 1..MaxRecordSize /\ UNCHANGED <<head, page>>

\* The pages from h on.
Chain(h) ==
    LET upTo[n \in 0..MaxPage] ==   \* n links on
            IF n = 0 THEN {h} \ {NoPage}
            ELSE upTo[n-1] \cup ({page[p].next : p \in upTo[n-1]} \ {NoPage})
    IN  upTo[MaxPage]

Rids(h) == UNION {{<<p, s>> : s \in 1..Len(page[p].slots)} : p \in Chain(h)}
Live(h) == {r \in Rids(h) : IsLive(page[r[1]], r[2])}
Get(r)  == ReadSlot(page[r[1]], r[2])

Erase(r) ==
    /\ page' = IF IsLive(page[r[1]], r[2]) THEN [page EXCEPT ![r[1]] = Erased(@, r[2])] ELSE page
    /\ UNCHANGED head

HeapNext == \/ \E rec \in Record : Insert(rec) \/ Refuse(rec)
            \/ \E r \in Rids(head) : Erase(r)
-----------------------------------------------------------------------------
Rows == [r \in Live(head) |-> Get(r)]

Promise == INSTANCE RecordStore WITH Rid <- Pages \X (1..PageSize), rows <- Rows

\* Live records keep their addresses and their bytes, whatever is inserted,
\* erased or compacted around them (slotted_page.hpp:111-112).
KeepsRecords == Promise!Spec
=============================================================================
