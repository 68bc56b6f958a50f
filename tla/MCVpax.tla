------------------------------- MODULE MCVpax -------------------------------
(* Chunks of designed files for TLC.  Sizes are powers of two, so that no  *)
(* two sets of files have the same total.                                  *)
EXTENDS Vpax

CONSTANTS w1, w2

Column(id, table, type, key) ==
    [id |-> id, table |-> table, type |-> type, key |-> key, stored |-> TRUE]
Partition(id, table, folder, ticks) ==
    [id |-> id, table |-> table, folder |-> folder, ticks |-> ticks, mapped |-> table < 50]
Stored(folder, names) == {[folder |-> folder, name |-> n] : n \in names}
Dictionary(column, size, file) == [column |-> column, size |-> size, file |-> file]
InFile(column, name) == [column |-> column, name |-> name]

\* Two data tables and the tables of one attribute hierarchy and of one user
\* hierarchy.  Column 10 is a row number, 12 has no files of its own.
Sales ==
    [tables |-> {[id |-> 1, name |-> "sales", system |-> FALSE],
                 [id |-> 2, name |-> "date", system |-> FALSE],
                 [id |-> 51, name |-> "h11", system |-> TRUE],
                 [id |-> 61, name |-> "u91", system |-> TRUE]},
     columns |-> {Column(10, 1, 3, TRUE), Column(11, 1, 1, FALSE),
                  [Column(12, 1, 2, FALSE) EXCEPT !.stored = FALSE],
                  Column(21, 2, 1, TRUE), Column(511, 51, 1, FALSE)},
     partitions |-> {Partition(1, 1, "p1", 101), Partition(2, 2, "p2", 0),
                     Partition(51, 51, "h11", 0), Partition(61, 61, "u91", 0)},
     storageFiles |-> Stored("p1", {"rn.0", "a.0"}) \cup Stored("p2", {"d.0"})
                      \cup Stored("h11", {"h.0"}) \cup Stored("u91", {"u.0"})
                      \cup Stored("t1", {"a.dict"}) \cup Stored("t2", {"d.dict"}),
     dictionaries |-> {Dictionary(11, <<>>, <<"a.dict">>), Dictionary(21, <<256>>, <<"d.dict">>)},
     columnFiles |-> {InFile(10, "rn.0"), InFile(11, "a.0"), InFile(21, "d.0"),
                      InFile(511, "h.0")},
     attributeHierarchies |-> {[column |-> 11, system |-> 51]},
     hierarchies |-> {[id |-> 91, table |-> 1, system |-> 61]},
     relationships |-> {[fromTable |-> 1, toTable |-> 2, crossFiltering |-> "Both",
                         usedFrom |-> 3, usedTo |-> 2]},
     measures |-> {[table |-> 1], [table |-> 51]},
     permissions |-> {[table |-> 2]}]

\* A second partition of the first table, with another file of its column.
Partitioned ==
    [Sales EXCEPT
        !.partitions = @ \cup {Partition(3, 1, "p3", 103)},
        !.storageFiles = @ \cup Stored("p3", {"a.1"}),
        !.columnFiles = @ \cup {InFile(11, "a.1")}]

\* The column's file has the base name of a file in another folder.
SameName ==
    [Sales EXCEPT
        !.storageFiles = (@ \ Stored("p2", {"d.0"})) \cup Stored("p2", {"a.0"}),
        !.columnFiles = (@ \ {InFile(21, "d.0")}) \cup {InFile(21, "a.0")}]

\* Fewer files: no dictionaries, no hierarchies, no key column in one table.
Plain ==
    [Sales EXCEPT !.dictionaries = {}, !.attributeHierarchies = {}, !.hierarchies = {},
        !.relationships = {},
        !.columns = (@ \ {Column(21, 2, 1, TRUE)}) \cup {Column(21, 2, 1, FALSE)}]

Sized(name, size) == [name |-> name, size |-> size]
ModelFiles ==
    <<Sized("rn.0", 1), Sized("a.0", 2), Sized("d.0", 4), Sized("h.0", 8), Sized("u.0", 16),
      Sized("a.dict", 32), Sized("d.dict", 64), Sized("a.1", 128)>>

FileOf(db, hasSize) ==
    [parses |-> TRUE, opens |-> "ok", faults |-> {}, hasSize |-> hasSize,
     files |-> ModelFiles, db |-> db]

SameNames == [FileOf(SameName, TRUE) EXCEPT !.files[3].name = "a.0"]

Base == FileOf(Sales, TRUE)
Steps == ToSet(Queries) \cup ToSet(Sections)
MCContents ==
    [n \in {"sales", "old", "parts", "oldParts", "plain", "oldPlain", "sameNames", "unparsed",
            "refused", "damaged"} \cup Steps |->
        CASE n = "sales" -> Base
          [] n = "old" -> FileOf(Sales, FALSE)
          [] n = "parts" -> FileOf(Partitioned, TRUE)
          [] n = "oldParts" -> FileOf(Partitioned, FALSE)
          [] n = "plain" -> FileOf(Plain, TRUE)
          [] n = "oldPlain" -> FileOf(Plain, FALSE)
          [] n = "sameNames" -> SameNames
          [] n = "unparsed" -> [Base EXCEPT !.parses = FALSE]
          [] n = "refused" -> [Base EXCEPT !.opens = "refused"]
          [] n = "damaged" -> [Base EXCEPT !.opens = "undeserializable"]
          [] OTHER -> [Base EXCEPT !.faults = {n}]]

Good == {"sales", "old", "parts", "oldParts", "plain", "oldPlain", "sameNames"}
Bad == DOMAIN MCContents \ Good

\* One worker with two files, and two workers that format times.
Chunks(s, t) == (w1 :> s) @@ (w2 :> t)
MCBatches ==
    {Chunks(<<f, g>>, <<>>) : f \in Good \cup Bad, g \in {"oldPlain", "parts"}}
    \cup {Chunks(<<f, g>>, <<>>) : f \in {"sales", "damaged"}, g \in Good \cup Bad}
    \cup {Chunks(<<"sales", f>>, <<"oldParts">>) : f \in {"sales", "unparsed", "damaged"}}

=============================================================================
