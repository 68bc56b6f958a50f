----------------------------- MODULE MCPbixRead -----------------------------
(* PbixRead with a file that takes a few contents in any order.            *)
EXTENDS PbixRead

Plain(columns, parts) ==
    [readable |-> TRUE, format |-> "single", columns |-> columns,
     parts |-> parts, sameName |-> FALSE, decodable |-> TRUE, convertible |-> TRUE]

Base == Plain(<<"a", "b">>, <<<<3>>>>)

MCVersions ==
    {Base,
     Plain(<<"b", "a">>, <<<<5>>>>),          \* columns swapped, rows added
     Plain(<<"a", "b">>, <<<<4, 2>>>>),       \* two segments
     Plain(<<"b">>, <<<<2>>>>),               \* a column dropped
     Plain(<<"a", "b">>, <<<<0>>>>),          \* no rows
     Plain(<<"a", "b">>, <<<<1>>, <<2>>>>),   \* partitioned
     Plain(<<>>, <<>>),                       \* no such table
     [Base EXCEPT !.format = "multi"],
     [Base EXCEPT !.sameName = TRUE],
     [Base EXCEPT !.decodable = FALSE],
     [Base EXCEPT !.convertible = FALSE],
     [Base EXCEPT !.readable = FALSE]}
=============================================================================
