------------------------------- MODULE Query -------------------------------
(***************************************************************************)
(* A SELECT run to its end (Executor::run_select, src/src/executor.cpp):   *)
(* planned (Planner), its operators opened, their rows pulled until there  *)
(* are no more, and closed (Operators).                                    *)
(***************************************************************************)
EXTENDS Operators, Answers

CONSTANTS
    Databases,       \* the databases a query may run over, each a sequence of tables
    Queries,         \* for each of them, its queries
    BatchRows        \* the batch sizes, 0 for a row at a time

ASSUME TablesHaveTrees ==
    \A d \in DOMAIN Databases :
        /\ Databases[d] \in Seq(Range(Databases[d]))
        /\ \A tab \in DOMAIN Databases[d] :
               LET trees == Databases[d][tab].trees
               IN  /\ 1 \in DOMAIN trees /\ DOMAIN trees \subseteq Nat
                   /\ \A col \in DOMAIN trees : trees[col] \in Seq([key : Int, rid : Nat \ {0}])

ASSUME QueriesNameTables ==
    \A d \in DOMAIN Databases : \A q \in Queries[d] :
        q.tables \in Seq(DOMAIN Databases[d]) /\ q.tables # <<>> /\ q.limit \in Nat \cup {NoLimit}

ASSUME CountsArePositive == BatchRows \subseteq Nat /\ {Unbounded, InitialSlots} \subseteq Nat \ {0}

VARIABLES
    query,
    result,          \* the rows of the ResultSet
    expected,        \* the rows each node of the plan is to hand up, in all
    status           \* where the query is: TypeOK lists the stages

vars == <<database, query, result, expected, status, opVars>>

Root == Len(plan)

Init ==
    /\ \E d \in DOMAIN Databases : database = Databases[d] /\ query \in Queries[d]
    /\ batch \in BatchRows
    /\ status = "new"
    /\ plan = <<>> /\ expected = <<>> /\ result = <<>>
    /\ st = <<>> /\ rowsOut = <<>> /\ stack = <<>> /\ reply = NoReply

\* Any plan, where the code takes the cheapest.
Plan ==
    /\ status = "new"
    /\ \E p \in Plans(query) :
           /\ plan' = p
           /\ expected' = RowsOf(p)
           /\ st' = [n \in DOMAIN p |-> Idle]
           /\ rowsOut' = [n \in DOMAIN p |-> 0]
    /\ status' = "planned"
    /\ UNCHANGED <<database, query, batch, result, stack, reply>>

Open ==
    /\ status = "planned"
    /\ Call(Root, "open", 0)
    /\ status' = "running"
    /\ UNCHANGED <<database, query, plan, batch, st, result, expected>>

\* What the root hands up becomes rows of the result, and more is asked for.
Take ==
    /\ status = "running" /\ stack = <<>>
    /\ Back("open", "done") \/ Back("next", "rows")
    /\ result' = result \o Live(reply.batch)
    /\ Call(Root, "next", Unbounded)
    /\ UNCHANGED <<database, query, plan, batch, st, expected, status>>

Close ==
    /\ status = "running" /\ stack = <<>> /\ Back("next", "end")
    /\ Call(Root, "close", 0)
    /\ UNCHANGED <<database, query, plan, batch, st, result, expected, status>>

\* The plan is kept, for explain_last.
Finish ==
    /\ status = "running" /\ stack = <<>> /\ Back("close", "done")
    /\ status' = "done"
    /\ reply' = NoReply
    /\ UNCHANGED <<database, query, plan, batch, st, stack, rowsOut, result, expected>>

Fail ==
    /\ status = "running" /\ reply.kind = "error"
    /\ status' = "failed"
    /\ reply' = NoReply
    /\ UNCHANGED <<database, query, plan, batch, st, stack, rowsOut, result, expected>>

Work == OperatorStep /\ UNCHANGED <<query, result, expected, status>>

Stopped == status \in {"done", "failed"} /\ UNCHANGED vars

Next == Plan \/ Open \/ Take \/ Close \/ Finish \/ Fail \/ Work \/ Stopped

\* The thread that runs the query runs on: WF_vars(Next), with the states in which Next is
\* enabled written out, for TLC's sake (the runs find no deadlock, and every step but
\* Stopped changes something: a call or a return the stack, the others st or reply).
RunsOn == []<><<Next>>_vars \/ []<>(status \in {"done", "failed"})

Spec == Init /\ [][Next]_vars /\ RunsOn
-----------------------------------------------------------------------------
CursorType == [tab : 0..Len(database), col : Nat, next : Nat, hi : Int, pin : Nat]

Calling == {"open", "next", "close"}

\* Every part keeps its type: the frames call nodes of the plan, and every node has
\* what it holds and its count.
TypeOK ==
    /\ status \in {"new", "planned", "running", "done", "failed"}
    /\ batch \in BatchRows
    /\ DOMAIN st = DOMAIN plan /\ DOMAIN rowsOut = DOMAIN plan /\ DOMAIN expected = DOMAIN plan
    /\ \A n \in DOMAIN plan : /\ DOMAIN st[n] = DOMAIN Idle
                              /\ st[n].cur \in CursorType
                              /\ \A i \in DOMAIN plan[n].in : plan[n].in[i] \in 1..(n - 1)
    /\ stack \in Seq([node : DOMAIN plan, call : Calling, max : 0..Unbounded])
    /\ reply.kind \in {"none", "done", "end", "rows", "error"}

\* Every operator hands up the rows that are its own, in their order, none twice and none
\* left out, however its rows fall into batches, and says there are no more only when
\* there are none: produce and produce_batch of every operator.
Delivers ==
    LET n == reply.node
    IN  /\ reply.kind = "rows" =>
              Live(reply.batch) = SubSeq(expected[n], rowsOut[n] - Count(reply.batch) + 1, rowsOut[n])
        /\ reply.kind = "end" => rowsOut[n] = Len(expected[n])

\* A batch handed up holds a row, and no more than were asked for (what next_batch
\* checks), though a filter may have refused every row of the one it was given.
BatchesHold ==
    reply.kind = "rows" => Count(reply.batch) \in 1..Least(reply.max, IF batch = 0 THEN 1 ELSE batch)

\* A query that ends has answered: the plan chosen, its batches and the order in which its
\* joins and its indexes meet the rows change nothing but ties.  It fails only if adding
\* up could leave the integers.
Answered ==
    /\ status = "done" => IsAnswer(query, result)
    /\ status = "failed" => SumMayOverflow(query)

Pinning == {n \in DOMAIN st : st[n].cur.pin # NoPage}

\* A plan pins at most one page for the scan under way and one for each index it
\* searches, however many tables it reads: one input is closed before the next is opened.
PinsBounded ==
    Cardinality(Pinning) <= 1 + Cardinality({n \in DOMAIN plan : plan[n].op = "inlj"})

\* No pin outlives its query, though the executor keeps the plan for explain_last.
NoPinOutlives == status \in {"done", "failed"} => Pinning = {}

\* An aggregate's table is at most half full, and every group is found in it, and only
\* once, from the slot its hash names: no group is lost or doubled as the table grows.
TablesSound ==
    \A n \in DOMAIN plan :
        plan[n].op = "aggregate" /\ plan[n].group # <<>> =>
            LET groups == st[n].rows
                slots  == st[n].slots
            IN  /\ 2 * Len(groups) <= Len(slots)
                /\ \A g \in DOMAIN groups : slots[FirstSlot(slots, Hash(groups[g].key), {g})] = g
                /\ \A g, h \in DOMAIN groups : groups[g].key = groups[h].key => g = h

\* A limit never has more rows read from its input than it hands up.
LimitReadsNoMore ==
    \A n \in DOMAIN plan : plan[n].op = "limit" => rowsOut[plan[n].in[1]] <= plan[n].n

\* Every query ends: no operator asks for ever.
QueriesEnd == <>(status \in {"done", "failed"})
==============================================================================
