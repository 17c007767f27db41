------------------------------ MODULE MCQuery ------------------------------
(***************************************************************************)
(* SELECTs over small tables, for TLC.  Integers are of four bits, bytes   *)
(* of two, and an order key holds two bytes of a text; no text has a byte  *)
(* 0.  The hashes collide: of integers as of texts.                        *)
(***************************************************************************)
EXTENDS Query

i(n) == IntOf(n)
t(s) == TextOf(s)
N    == Null("int")
NT   == Null("text")

\* ab, abc and aba share an order key; ccc has NULL's code in a sort.
a   == <<1>>
ab  == <<1, 2>>
aba == <<1, 2, 1>>
abc == <<1, 2, 3>>
ccc == <<3, 3, 3>>

\* A key, a number and a text; filled out of the order of the keys, over three pages, with
\* an index made before its rows and one after.
Parts == TableOf(<<"int", "int", "text">>, <<"before", "before", "after">>,
    << <<i(3), i(5), t(abc)>>, <<i(-8), N, t(ab)>>, <<i(7), i(5), NT>>,
       <<i(1), i(-8), t(aba)>>, <<i(0), i(7), t(abc)>> >>)

\* A text and a number beside the key, the text's column first.
Uses == TableOf(<<"int", "text", "int">>, <<"before", "before", "never">>,
    << <<i(2), t(abc), i(5)>>, <<i(1), t(aba), N>>, <<i(5), NT, i(5)>>, <<i(4), t(abc), i(-8)>> >>)

None == TableOf(<<"int", "int">>, <<"before", "after">>, <<>>)

\* Seven values of a column, enough for an aggregate's table to grow twice.
Many == TableOf(<<"int", "int", "text">>, <<"before", "after", "before">>,
    << <<i(1), i(4), t(ccc)>>, <<i(2), i(0), t(a)>>, <<i(3), i(-4), NT>>, <<i(4), N, t(ab)>>,
       <<i(5), i(1), t(<<3, 3>>)>>, <<i(6), i(4), t(<<2>>)>>, <<i(7), i(0), t(<<>>)>> >>)

MCDatabases == << <<Parts, Uses, None>>, <<Many, Uses>> >>

Is(left, op, lit)    == [left |-> left, op |-> op, right |-> 0, lit |-> lit]
Of(left, op, right)  == [left |-> left, op |-> op, right |-> right, lit |-> N]
Col(c)       == [func |-> "none", col |-> c]
Agg(func, c) == [func |-> func, col |-> c]
Up(item)     == [item |-> item, desc |-> FALSE]
Down(item)   == [item |-> item, desc |-> TRUE]

All == [tables |-> <<1>>, on |-> <<>>, where |-> <<>>, star |-> TRUE, list |-> <<>>, group |-> <<>>,
        having |-> <<>>, order |-> <<>>, limit |-> NoLimit]

Listing(items, q) == [q EXCEPT !.star = FALSE, !.list = items]
On(ts, on)      == [All EXCEPT !.tables = ts, !.on = on]

\* One table: ranges at the ends of the keys, of texts, of NULL; order and limit.
OneTable ==
    {[All EXCEPT !.where = <<Is(1, "gt", i(-8)), Is(1, "le", i(7))>>, !.order = <<Up(Col(1))>>, !.limit = 2],
     [All EXCEPT !.where = <<Is(2, "gt", i(7))>>],
     [All EXCEPT !.where = <<Is(2, "lt", i(-7)), Is(2, "ge", i(-8)), Is(2, "ne", i(0))>>],
     [All EXCEPT !.where = <<Is(2, "eq", i(5))>>, !.order = <<Down(Col(1))>>],
     [All EXCEPT !.where = <<Is(1, "eq", i(1)), Is(3, "eq", t(aba))>>],
     [All EXCEPT !.where = <<Is(1, "eq", N)>>],
     [All EXCEPT !.where = <<Is(3, "gt", t(ab)), Is(3, "lt", t(abc))>>],
     [All EXCEPT !.where = <<Is(3, "ne", t(ab))>>, !.limit = 2],
     [All EXCEPT !.order = <<Down(Col(3)), Up(Col(2))>>, !.limit = 3],
     [All EXCEPT !.order = <<Up(Col(3)), Down(Col(1))>>],
     [All EXCEPT !.order = <<Down(Col(1))>>, !.limit = 0],
     [All EXCEPT !.limit = 0],
     Listing(<<Col(2), Col(1), Col(2)>>, [All EXCEPT !.order = <<Down(Col(2))>>, !.limit = 2])}

Grouping ==
    {Listing(<<Col(2), Agg("countstar", 1), Agg("sum", 1), Agg("min", 3)>>, [All EXCEPT !.group = <<2>>]),
     Listing(<<Col(3), Agg("count", 2)>>,
          [All EXCEPT !.group = <<3, 3>>, !.having = << [item |-> Agg("max", 2), op |-> "gt", lit |-> i(-1)] >>,
                      !.order = <<Down(Agg("count", 2)), Up(Col(3))>>, !.limit = 2]),
     Listing(<<Agg("min", 1), Agg("max", 3), Agg("min", 3), Agg("max", 2)>>, All),
     Listing(<<Agg("sum", 2), Agg("max", 3)>>, [All EXCEPT !.where = <<Is(1, "ge", i(0))>>]),
     Listing(<<Col(2), Col(3), Agg("max", 1)>>, [All EXCEPT !.group = <<2, 3>>])}

Joining ==
    {On(<<1, 2>>, << <<Of(2, "eq", 6)>> >>),
     [On(<<1, 2>>, << <<Of(3, "eq", 5), Is(4, "gt", i(1))>> >>) EXCEPT !.where = <<Is(2, "ge", i(5))>>],
     [On(<<1, 2>>, << <<Of(2, "eq", 6), Of(5, "eq", 3), Of(1, "gt", 4)>> >>) EXCEPT !.order = <<Up(Col(1))>>],
     [On(<<2, 1>>, << <<Of(1, "lt", 4)>> >>) EXCEPT !.limit = 3],
     Listing(<<Col(5), Agg("countstar", 1)>>, [On(<<1, 2>>, << <<Of(1, "ge", 4)>> >>) EXCEPT !.group = <<5>>])}

\* The third table empty, and a table joined with itself twice.
JoiningThree ==
    {On(<<1, 2, 3>>, << <<Of(1, "ge", 4)>>, <<Of(7, "eq", 4)>> >>),
     On(<<3, 1>>, << <<Of(1, "eq", 3)>> >>),
     [On(<<2, 2, 2>>, << <<Of(1, "le", 4)>>, <<Of(8, "eq", 2), Of(7, "ge", 4)>> >>) EXCEPT !.limit = 4]}

Asked1 == OneTable \cup Grouping \cup Joining \cup JoiningThree
Asked2 == OneTable \cup Grouping \cup Joining

MCQueries == << {Bound(MCDatabases[1], q) : q \in Asked1}, {Bound(MCDatabases[2], q) : q \in Asked2} >>

MCHash(key) ==
    FoldLeft(LAMBDA h, f : 3 * h + (IF f.null THEN 1 ELSE IF f.type = "int" THEN f.v + 8 ELSE 1 + Len(f.v)), 0, key)

MCMix(h) == h \div 2
==============================================================================
