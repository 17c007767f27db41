----------------------------- MODULE Operators -----------------------------
(***************************************************************************)
(* The operators of a plan (src/src/operator.hpp, operator.cpp and         *)
(* join_hash.hpp): each hands up rows when asked, and asks the operators   *)
(* below it for theirs.                                                    *)
(*                                                                         *)
(* A plan is a sequence of nodes, every node after its inputs and the root *)
(* last.  The calls open, next and close are frames of a stack; a call     *)
(* made pushes one, a call that returns leaves a reply.  A plan runs in    *)
(* batches of rows, or a row at a time: then each call is for a batch of   *)
(* one row, and batch is 0.  Where the two paths of the code decide        *)
(* something differently the definition asks which one runs.               *)
(***************************************************************************)
EXTENDS Cursors

CONSTANTS
    Hash(_),         \* the raw hash of a key, a sequence of values
    Mix(_),          \* mix64
    InitialSlots     \* slots of an aggregate's first table (16)

VARIABLES
    plan,            \* the nodes
    batch,           \* batch_rows_ of every node; 0: a row at a time
    st,              \* what each node holds
    stack,           \* the calls under way
    reply,           \* what the last call returned, until its caller goes on
    rowsOut          \* rows_out_ of each node

opVars == <<plan, batch, st, stack, reply, rowsOut>>

\* cur: the cursor.  in, k: the input batch being read and the next of its rows.
\* busy, pos: that row's matches are being walked, and how far.  out: matches not yet
\* handed up.  rows, slots: rows or groups held, and their table.  given: of those held,
\* how many were handed out.
Idle == [cur |-> NoCursor, in |-> NoRows, k |-> 1, busy |-> FALSE, pos |-> 1, out |-> <<>>,
         rows |-> <<>>, slots |-> <<>>, given |-> 0]

NoReply == [kind |-> "none", node |-> 0, call |-> "none", max |-> 0, batch |-> NoRows]

Least(a, b) == IF a < b THEN a ELSE b
-----------------------------------------------------------------------------
(* Calls.                                                                  *)

Top  == Last(stack)
Node == plan[Top.node]
S    == st[Top.node]

\* cap: the rows this call may produce.
Want == IF batch = 0 THEN 1 ELSE Least(Top.max, batch)

Serving(ops, call) == stack # <<>> /\ Node.op \in ops /\ Top.call = call
Asked              == reply.kind = "none"
Back(call, kind)   == reply.call = call /\ reply.kind = kind

Becomes(s) == st' = [st EXCEPT ![Top.node] = s]

Call(child, call, max) ==
    /\ stack' = Append(stack, [node |-> child, call |-> call, max |-> max])
    /\ reply' = NoReply
    /\ UNCHANGED rowsOut

\* next and next_batch count what produce or produce_batch hands up.
Return(kind, b) ==
    /\ stack' = Front(stack)
    /\ reply' = [kind |-> kind, node |-> Top.node, call |-> Top.call, max |-> Top.max, batch |-> b]
    /\ rowsOut' = [rowsOut EXCEPT ![Top.node] = @ + Count(b)]

Done      == Return("done", NoRows)
End       == Return("end", NoRows)
HandUp(b) == Return("rows", b)
GoOn      == reply' = NoReply /\ UNCHANGED <<stack, rowsOut>>

\* An error leaves every operator: the plan and what it holds are gone.
Throw == /\ st' = [n \in DOMAIN st |-> Idle]
         /\ stack' = <<>>
         /\ reply' = [NoReply EXCEPT !.kind = "error"]
         /\ UNCHANGED rowsOut
-----------------------------------------------------------------------------
(* Sources.                                                                *)

OpenSource ==
    /\ Serving({"seqscan", "lookup", "indexscan"}, "open")
    /\ Becomes([Idle EXCEPT !.cur =
          CASE Node.op = "seqscan" -> Sought(CursorOn(Node.tab, 1), 0, MaxKey)
            [] Node.op = "indexscan" /\ Node.lo <= Node.hi ->
                   Sought(CursorOn(Node.tab, Node.col), Node.lo, Node.hi)
            [] OTHER -> NoCursor])
    /\ Done

CloseSource ==
    /\ Serving({"seqscan", "lookup", "indexscan"}, "close")
    /\ Becomes([S EXCEPT !.cur = NoCursor])
    /\ Done

Scan ==
    /\ Serving({"seqscan", "indexscan"}, "next")
    /\ IF S.cur = NoCursor THEN End /\ UNCHANGED st
       ELSE LET filled == IF Node.op = "seqscan" THEN FilledByPage(S.cur, Want)
                          ELSE Filled(S.cur, Want)
            IN  /\ Becomes([S EXCEPT !.cur = filled.cur])
                /\ IF filled.rows = <<>> THEN End ELSE HandUp(Whole(filled.rows))

Lookup ==
    /\ Serving({"lookup"}, "next")
    /\ Becomes([S EXCEPT !.given = 1])
    /\ LET rows == IF S.given = 1 \/ Node.key = NoKey THEN <<>> ELSE ByKey(Node.tab, Node.key)
       IN  IF rows = <<>> THEN End ELSE HandUp(Whole(rows))
-----------------------------------------------------------------------------
(* One input, passed through.                                              *)

Through == {"filter", "project", "limit"}

\* open and close go down, and come back up.
PassDown ==
    /\ \E call \in {"open", "close"} : Serving(Through, call) /\ Asked /\ Call(Node.in[1], call, 0)
    /\ UNCHANGED st

PassUp ==
    /\ \E call \in {"open", "close"} : Serving(Through, call) /\ Back(call, "done")
    /\ Becomes([S EXCEPT !.given = 0])
    /\ Done

\* (A mutant of Exhausted: a filter takes the end of its input for an empty batch.)
ExhaustedAgain ==
    /\ Serving(Through, "next") /\ Back("next", "end")
    /\ IF Node.op = "filter" THEN GoOn ELSE End
    /\ UNCHANGED st

Exhausted ==
    /\ Serving(Through, "next") /\ Back("next", "end")
    /\ End
    /\ UNCHANGED st

Ask ==
    /\ Serving({"filter", "project"}, "next") /\ Asked
    /\ Call(Node.in[1], "next", Top.max)
    /\ UNCHANGED st

\* (A mutant of FilterRows: what is left of the batch is handed up, rows or none.)
FilterRowsEmpty ==
    /\ Serving({"filter"}, "next") /\ Back("next", "rows")
    /\ HandUp(Narrowed(Node.terms, reply.batch))
    /\ UNCHANGED st

\* A batch that keeps no row is not handed up: the filter reads on.
FilterRows ==
    /\ Serving({"filter"}, "next") /\ Back("next", "rows")
    /\ LET kept == Narrowed(Node.terms, reply.batch)
       IN  IF Count(kept) > 0 THEN HandUp(kept) ELSE GoOn
    /\ UNCHANGED st

ProjectRows ==
    /\ Serving({"project"}, "next") /\ Back("next", "rows")
    /\ LET shown(row) == [i \in DOMAIN Node.cols |-> row[Node.cols[i]]]
       IN  HandUp([reply.batch EXCEPT !.rows = [r \in DOMAIN @ |-> shown(@[r])]])
    /\ UNCHANGED st

\* (A mutant of LimitAsks: it passes on what it was asked for.)
LimitAsksAll ==
    /\ Serving({"limit"}, "next") /\ Asked
    /\ IF S.given >= Node.n THEN End ELSE Call(Node.in[1], "next", Top.max)
    /\ UNCHANGED st

\* (A mutant of LimitAsks: it asks on when it has handed up its rows.)
LimitAsksOn ==
    /\ Serving({"limit"}, "next") /\ Asked
    /\ Call(Node.in[1], "next", Least(Top.max, Node.n - S.given))
    /\ UNCHANGED st

LimitAsks ==
    /\ Serving({"limit"}, "next") /\ Asked
    /\ IF S.given >= Node.n THEN End
       ELSE Call(Node.in[1], "next", Least(Top.max, Node.n - S.given))
    /\ UNCHANGED st

LimitRows ==
    /\ Serving({"limit"}, "next") /\ Back("next", "rows")
    /\ Becomes([S EXCEPT !.given = @ + Count(reply.batch)])
    /\ HandUp(reply.batch)
-----------------------------------------------------------------------------
(* HashAggregate.                                                          *)

\* The smallest power of two that is at least n.
TwoPower(n) == 2 ^ (CHOOSE k \in 0..n : 2 ^ k >= n /\ \A j \in 0..(k - 1) : 2 ^ j < n)

KeyOf(row, cols) == [i \in DOMAIN cols |-> row[cols[i]]]

\* same_key; in batches, one integer column is compared in one step, NULL being 0.
SameKey(a, b) ==
    IF batch > 0 /\ Len(a) = 1 /\ a[1].type = "int" THEN a[1].null = b[1].null /\ a[1].v = b[1].v
    ELSE \A i \in DOMAIN a : IF a[i].null \/ b[i].null THEN a[i].null = b[i].null
                             ELSE Compare(a[i], b[i]) = 0

\* Linear probing from a hash's slot: the first that is empty or holds one of gs.
FirstSlot(slots, hash, gs) ==
    LET at(d) == 1 + ((Mix(hash) + d) % Len(slots))
    IN  at(Min({d \in 0..(Len(slots) - 1) : slots[at(d)] \in gs \cup {0}}))

EmptySlots(n) == [i \in 1..n |-> 0]

\* (A mutant of Grown: the groups stay in the slots they had.)
GrownInPlace(groups, slots) ==
    [i \in 1..(2 * Len(slots)) |-> IF i <= Len(slots) THEN slots[i] ELSE 0]

Replaced(groups, g, slots) == [slots EXCEPT ![FirstSlot(slots, Hash(groups[g].key), {})] = g]

\* grow: every group is placed again, in twice the slots.
Grown(groups, slots) ==
    LET upTo[g \in 0..Len(groups)] ==
            IF g = 0 THEN EmptySlots(2 * Len(slots)) ELSE Replaced(groups, g, upTo[g - 1])
    IN  upTo[Len(groups)]

NewGroup(key, aggs) ==
    [key |-> key, states |-> [a \in DOMAIN aggs |-> [count |-> 0, sum |-> 0, best |-> Null(aggs[a].type)]]]

\* find_or_add, on s.rows and s.slots; s.g is then the group.
FoundOrAdded(s, key, aggs) ==
    LET h    == Hash(key)
        same == {g \in DOMAIN s.rows : Hash(s.rows[g].key) = h /\ SameKey(key, s.rows[g].key)}
        i    == FirstSlot(s.slots, h, same)
        rows == Append(s.rows, NewGroup(key, aggs))
        filed == [s.slots EXCEPT ![i] = Len(rows)]
    IN  IF s.slots[i] # 0 THEN [s EXCEPT !.g = s.slots[i]]
        ELSE [s EXCEPT !.g = Len(rows), !.rows = rows,
                       !.slots = IF Len(rows) * 2 > Len(filed) THEN Grown(rows, filed) ELSE filed]

\* agg_update and fold: one value into one aggregate's state.
Updated(a, s, v) ==
    IF a.func = "countstar" THEN [s EXCEPT !.count = @ + 1]
    ELSE IF v.null THEN s
    ELSE [s EXCEPT !.count = @ + 1,
                   !.sum  = IF a.func = "sum" THEN @ + v.v ELSE @,
                   !.best = IF \/ a.func = "min" /\ (s.count = 0 \/ Compare(v, @) < 0)
                               \/ a.func = "max" /\ (s.count = 0 \/ Compare(v, @) > 0)
                            THEN v ELSE @]

\* A sum past the machine's integers, found before it is made.
Overflows(a, s, v) == a.func = "sum" /\ ~v.null /\ s.sum + v.v \notin MinInt..MaxInt

\* One row into its group.  With no GROUP BY there is one group, of no key.
Grouped(n, s, row) ==
    LET t  == IF n.group = <<>> THEN [s EXCEPT !.g = 1]
              ELSE FoundOrAdded(s, KeyOf(row, n.group), n.aggs)
        of == t.rows[t.g].states
    IN  [t EXCEPT !.rows[t.g].states = [a \in DOMAIN n.aggs |-> Updated(n.aggs[a], of[a], row[n.aggs[a].col])],
                  !.over = @ \/ \E a \in DOMAIN n.aggs : Overflows(n.aggs[a], of[a], row[n.aggs[a].col])]

AllGrouped(n, s, rows) ==
    LET upTo[k \in 0..Len(rows)] ==
            IF k = 0 THEN [rows |-> s.rows, slots |-> s.slots, g |-> 0, over |-> FALSE]
            ELSE Grouped(n, upTo[k - 1], rows[k])
    IN  upTo[Len(rows)]

\* agg_result.
Result(a, s) == CASE a.func \in {"count", "countstar"} -> IntOf(s.count)
                  [] a.func = "sum" -> IF s.count > 0 THEN IntOf(s.sum) ELSE Null("int")
                  [] a.func \in {"min", "max"} -> s.best
-----------------------------------------------------------------------------
(* Sort.                                                                   *)

\* prefix_of: the first key's order key, NULL after every value, inverted for DESC.
Prefix(n, row) ==
    LET f == row[n.keys[1].col]
        p == IF f.null THEN MaxKey ELSE OrderKey(f)
    IN  IF n.keys[1].desc THEN MaxKey - p ELSE p

\* before: by the first key that differs, NULL greatest; a tie to the first to arrive.
RowBefore(n, e, f) ==
    LET p(i) == e.row[n.keys[i].col]
        q(i) == f.row[n.keys[i].col]
        differ == {i \in DOMAIN n.keys : IF p(i).null \/ q(i).null THEN p(i).null # q(i).null
                                         ELSE Compare(p(i), q(i)) # 0}
        i    == Min(differ)
        desc == n.keys[i].desc
    IN  IF differ = {} THEN e.seq < f.seq
        ELSE IF p(i).null \/ q(i).null THEN (IF desc THEN p(i).null ELSE q(i).null)
        ELSE Compare(p(i), q(i)) = (IF desc THEN 1 ELSE -1)

EntryBefore(n, e, f) == e.prefix < f.prefix \/ (e.prefix = f.prefix /\ RowBefore(n, e, f))

\* In batches a row whose prefix is past the worst's is turned away unread.
TurnedAway(n, e, worst) == n.limit = 0 \/ (batch > 0 /\ e.prefix > worst.prefix)

\* One row more.  With a limit only the best are kept.  s.k counts the rows read.
Held(n, s, row) ==
    LET e     == [prefix |-> Prefix(n, row), row |-> row, seq |-> s.k]
        read  == [s EXCEPT !.k = @ + 1]
        w     == CHOOSE i \in DOMAIN s.rows : \A j \in DOMAIN s.rows \ {i} : EntryBefore(n, s.rows[j], s.rows[i])
        worst == s.rows[w]
    IN  IF n.limit = NoLimit \/ Len(s.rows) < n.limit THEN [read EXCEPT !.rows = Append(@, e)]
        ELSE IF TurnedAway(n, e, worst) THEN read
        ELSE IF EntryBefore(n, e, worst) THEN [read EXCEPT !.rows[w] = e]
        ELSE read

AllHeld(n, s, rows) ==
    LET upTo[i \in 0..Len(rows)] == IF i = 0 THEN s ELSE Held(n, upTo[i - 1], rows[i])
    IN  upTo[Len(rows)]

\* sort: no two entries compare equal, each having its own seq.
Ordered(n, entries) ==
    LET before(i) == {j \in DOMAIN entries : EntryBefore(n, entries[j], entries[i])}
    IN  [k \in DOMAIN entries |-> entries[CHOOSE i \in DOMAIN entries : Cardinality(before(i)) = k - 1]]
-----------------------------------------------------------------------------
(* Operators that read an input to its end as they open: HashAggregate and *)
(* Sort their only input, HashJoin its build side and NestedLoopJoin its   *)
(* right, before they open the one they stream.                            *)

Drainers == {"nlj", "hash", "aggregate", "sort"}
Joins    == {"nlj", "hash", "inlj"}

Drained(n)  == IF n.op = "nlj" \/ (n.op = "hash" /\ ~n.buildLeft) THEN n.in[2] ELSE n.in[1]
Streamed(n) == IF n.op = "hash" /\ n.buildLeft THEN n.in[2] ELSE n.in[1]

\* The columns of the equalities on the side read first, and on the side streamed.
BuildCols(n) == [i \in DOMAIN n.keys |-> n.keys[i][IF n.buildLeft THEN 1 ELSE 2]]
ProbeCols(n) == [i \in DOMAIN n.keys |-> n.keys[i][IF n.buildLeft THEN 2 ELSE 1]]

NullKey(key) == \E i \in DOMAIN key : key[i].null

DrainOpens ==
    /\ Serving(Drainers, "open") /\ Asked
    /\ Becomes(IF Node.op # "aggregate" THEN Idle
               ELSE [Idle EXCEPT !.slots = EmptySlots(InitialSlots),
                                 !.rows  = IF Node.group = <<>> THEN <<NewGroup(<<>>, Node.aggs)>> ELSE <<>>])
    /\ Call(Drained(Node), "open", 0)

DrainReads ==
    /\ Serving(Drainers, "open") /\ Back("open", "done") /\ reply.node = Drained(Node)
    /\ Call(Drained(Node), "next", Unbounded)
    /\ UNCHANGED st

\* A row of the build side with a NULL in its key matches nothing, and is not filed.
DrainKeeps ==
    /\ Serving({"nlj", "hash", "sort"}, "open") /\ Back("next", "rows")
    /\ LET rows == Live(reply.batch)
           held == AllHeld(Node, S, rows)
           filed == {i \in DOMAIN rows : ~NullKey(KeyOf(rows[i], BuildCols(Node)))}
       IN  Becomes(CASE Node.op = "nlj"  -> [S EXCEPT !.rows = @ \o rows]
                     [] Node.op = "hash" -> [S EXCEPT !.rows = @ \o Picked(rows, filed)]
                     [] Node.op = "sort" -> [S EXCEPT !.rows = held.rows, !.k = held.k])
    /\ Call(Drained(Node), "next", Unbounded)

DrainGroups ==
    /\ Serving({"aggregate"}, "open") /\ Back("next", "rows")
    /\ LET all == AllGrouped(Node, S, Live(reply.batch))
       IN  IF all.over THEN Throw
           ELSE /\ Becomes([S EXCEPT !.rows = all.rows, !.slots = all.slots])
                /\ Call(Drained(Node), "next", Unbounded)

\* (A mutant of DrainCloses: the input read to its end stays open.)
DrainLeavesOpen ==
    /\ Serving(Drainers, "open") /\ Back("next", "end")
    /\ IF Node.op \in Joins THEN Call(Streamed(Node), "open", 0) ELSE Done
    /\ UNCHANGED st

DrainCloses ==
    /\ Serving(Drainers, "open") /\ Back("next", "end")
    /\ Becomes(IF Node.op # "sort" THEN S
               ELSE [S EXCEPT !.rows = Ordered(Node, @)])
    /\ Call(Drained(Node), "close", 0)

DrainEnds ==
    /\ Serving(Drainers, "open") /\ Back("close", "done")
    /\ IF Node.op \in Joins THEN Call(Streamed(Node), "open", 0) ELSE Done
    /\ UNCHANGED st

\* Groups and sorted rows are handed out, and the one row of IndexMinMax.
HandOut ==
    /\ Serving({"aggregate", "sort", "minmax"}, "next")
    /\ LET n == Least(Want, Len(S.rows) - S.given)
           row(x) == CASE Node.op = "aggregate" ->
                              x.key \o [a \in DOMAIN Node.aggs |-> Result(Node.aggs[a], x.states[a])]
                       [] Node.op = "sort"   -> x.row
                       [] Node.op = "minmax" -> x
       IN  /\ Becomes([S EXCEPT !.given = @ + n])
           /\ IF n = 0 THEN End ELSE HandUp(Whole([i \in 1..n |-> row(S.rows[S.given + i])]))

CloseHeld ==
    /\ Serving({"aggregate", "sort", "minmax"}, "close")
    /\ Done
    /\ UNCHANGED st
-----------------------------------------------------------------------------
(* IndexMinMax: the ends of the indexes, read as it opens.                 *)

\* The entries with the end's key are read: of an exact key only the first; for MIN, up
\* to a text that is all inside its key.
EndValue(tab, a) ==
    LET entries == database[tab].trees[a.col]
        end     == (IF a.func = "min" THEN Head(entries) ELSE Last(entries)).key
        better(v, best) == best.null \/ Compare(v, best) = (IF a.func = "min" THEN -1 ELSE 1)
        enough(best)    == ExactKey(a.type) \/ (a.func = "min" /\ Len(best.v) < PrefixLen)
        read(acc, row)  == LET best == IF better(row[a.col], acc.best) THEN row[a.col] ELSE acc.best
                           IN  [best |-> best, stop |-> enough(best)]
    IN  IF entries = <<>> THEN Null(a.type)
        ELSE FoldLeft(LAMBDA acc, row : IF acc.stop THEN acc ELSE read(acc, row),
                      [best |-> Null(a.type), stop |-> FALSE],
                      Filled(Sought(CursorOn(tab, a.col), end, end), Unbounded).rows).best

OpenMinMax ==
    /\ Serving({"minmax"}, "open")
    /\ Becomes([Idle EXCEPT !.rows = << [a \in DOMAIN Node.aggs |-> EndValue(Node.tab, Node.aggs[a])] >>])
    /\ Done
-----------------------------------------------------------------------------
(* Joins: the rows of the streamed side, each with its matches.            *)

\* IndexNestedLoopJoin opens its index, then the side it streams.
OpenIndexJoin ==
    /\ Serving({"inlj"}, "open") /\ Asked
    /\ Becomes([Idle EXCEPT !.cur = CursorOn(Node.tab, Node.innerCol)])
    /\ Call(Streamed(Node), "open", 0)

OpenedJoin ==
    /\ Serving(Joins, "open") /\ Back("open", "done") /\ reply.node = Streamed(Node)
    /\ Done
    /\ UNCHANGED st

\* The build side is closed; what is left to close is the streamed side.
CloseJoin ==
    /\ Serving(Joins, "close") /\ Asked
    /\ Call(Streamed(Node), "close", 0)
    /\ UNCHANGED st

\* (A mutant of ClosedJoin: the index's cursor stays.)
ClosedJoinOpen ==
    /\ Serving(Joins, "close") /\ Back("close", "done")
    /\ Done
    /\ UNCHANGED st

ClosedJoin ==
    /\ Serving(Joins, "close") /\ Back("close", "done")
    /\ Becomes([S EXCEPT !.cur = NoCursor])
    /\ Done

Used  == S.k > Count(S.in)     \* the batch of the streamed side is used up
Full  == Len(S.out) = Want
Row   == RowOf(S.in, S.k)

\* A nested loop packs its rows into batches, and goes on past the end of an input batch.
Pull ==
    /\ Serving(Joins, "next") /\ Asked /\ Used
    /\ IF Node.op = "nlj" THEN ~Full ELSE S.out = <<>>
    /\ Call(Streamed(Node), "next", Unbounded)
    /\ UNCHANGED st

Pulled ==
    /\ Serving(Joins, "next") /\ Back("next", "rows")
    /\ Becomes([S EXCEPT !.in = reply.batch, !.k = 1, !.busy = FALSE])
    /\ GoOn

PulledNone ==
    /\ Serving(Joins, "next") /\ Back("next", "end")
    /\ Becomes([S EXCEPT !.out = <<>>])
    /\ IF S.out = <<>> THEN End ELSE HandUp(Whole(S.out))

\* (A mutant of Gathered: a full output ends the walk.)
GatheredOnce(joined, hits) ==
    LET ahead == InTurn(hits)
    IN  [S EXCEPT !.out = @ \o [i \in 1..Least(Want - Len(S.out), Len(ahead)) |-> joined[ahead[i]]],
                  !.k = @ + 1]

\* The row's matches, hits, are walked until the output is full; a walk cut short is
\* taken up on the next call.  joined[j] is the row joined with the j-th candidate.
Gathered(joined, hits) ==
    LET ahead == InTurn({j \in hits : ~S.busy \/ j >= S.pos})
        room  == Want - Len(S.out)
        next  == IF Len(ahead) < room THEN Len(joined) + 1 ELSE ahead[room] + 1
        over  == next > Len(joined)
    IN  [S EXCEPT !.out  = @ \o [i \in 1..Least(room, Len(ahead)) |-> joined[ahead[i]]],
                  !.busy = ~over, !.pos = next, !.k = IF over THEN @ + 1 ELSE @]

NestedLoop ==
    /\ Serving({"nlj"}, "next") /\ Asked /\ ~Used /\ ~Full
    /\ LET joined == [j \in DOMAIN S.rows |-> Row \o S.rows[j]]
       IN  Becomes(Gathered(joined, {j \in DOMAIN joined : EvalAll(Node.on, joined[j])}))
    /\ GoOn

\* JoinHashTable: the rows held whose hashes share a bucket, in the order filed.
Bucket(hash) ==
    LET buckets == TwoPower(Len(S.rows))
        of(h)   == Mix(h) % buckets
    IN  Picked(S.rows, {i \in DOMAIN S.rows : of(Hash(KeyOf(S.rows[i], BuildCols(Node)))) = of(hash)})

HashProbe ==
    /\ Serving({"hash"}, "next") /\ Asked /\ ~Used /\ ~Full
    /\ LET key    == KeyOf(Row, ProbeCols(Node))
           bucket == Bucket(Hash(key))
           joined == [j \in DOMAIN bucket |-> IF Node.buildLeft THEN bucket[j] \o Row ELSE Row \o bucket[j]]
           equal(k) == Hash(k) = Hash(key) /\ \A i \in DOMAIN k : Compare(k[i], key[i]) = 0
       IN  Becomes(IF NullKey(key) THEN [S EXCEPT !.k = @ + 1]
                   ELSE Gathered(joined, {j \in DOMAIN bucket : equal(KeyOf(bucket[j], BuildCols(Node)))}))
    /\ GoOn

\* The index is searched for the row's key; the rows found fill what room there is, and
\* fewer than that are the last.
IndexSearch ==
    /\ Serving({"inlj"}, "next") /\ Asked /\ ~Used /\ ~Full
    /\ LET key    == Row[Node.outerCol]
           cur    == IF S.busy THEN S.cur ELSE Sought(S.cur, OrderKey(key), OrderKey(key))
           room   == Want - Len(S.out)
           filled == Filled(cur, room)
           over   == Len(filled.rows) < room
       IN  Becomes(IF key.null THEN [S EXCEPT !.k = @ + 1]
                   ELSE [S EXCEPT !.cur = filled.cur, !.busy = ~over, !.k = IF over THEN @ + 1 ELSE @,
                                  !.out = @ \o [i \in DOMAIN filled.rows |-> <<Row, filled.rows[i]>>]])
    /\ GoOn

\* Of the rows an index gave, those whose texts are equal (their keys are prefixes) and
\* that pass the inner table's own terms, joined.
IndexMatches ==
    LET matches(p) == /\ Compare(p[2][Node.innerCol], p[1][Node.outerCol]) = 0
                      /\ EvalAll(Node.inner, p[2])
        kept == Picked(S.out, {i \in DOMAIN S.out : matches(S.out[i])})
    IN  [i \in DOMAIN kept |-> IF Node.innerFirst THEN kept[i][2] \o kept[i][1] ELSE kept[i][1] \o kept[i][2]]

\* What was gathered is handed up, less what the rest of the ON refuses; if that is all
\* of it, the join goes on.
JoinHands ==
    /\ Serving({"hash", "inlj"}, "next") /\ Asked /\ S.out # <<>> /\ (Full \/ Used)
    /\ Becomes([S EXCEPT !.out = <<>>])
    /\ LET kept == Narrowed(Node.residual, Whole(IF Node.op = "hash" THEN S.out ELSE IndexMatches))
       IN  IF Count(kept) > 0 THEN HandUp(kept) ELSE GoOn

NestedLoopHands ==
    /\ Serving({"nlj"}, "next") /\ Asked /\ Full
    /\ Becomes([S EXCEPT !.out = <<>>])
    /\ HandUp(Whole(S.out))
-----------------------------------------------------------------------------
OperatorStep ==
    /\ \/ OpenSource \/ CloseSource \/ Scan \/ Lookup
       \/ PassDown \/ PassUp \/ Exhausted \/ Ask \/ FilterRows \/ ProjectRows \/ LimitAsks \/ LimitRows
       \/ DrainOpens \/ DrainReads \/ DrainKeeps \/ DrainGroups \/ DrainCloses \/ DrainEnds
       \/ HandOut \/ CloseHeld \/ OpenMinMax
       \/ OpenIndexJoin \/ OpenedJoin \/ CloseJoin \/ ClosedJoin
       \/ Pull \/ Pulled \/ PulledNone \/ NestedLoop \/ HashProbe \/ IndexSearch
       \/ JoinHands \/ NestedLoopHands
    /\ UNCHANGED <<database, plan, batch>>
==============================================================================
