------------------------------- MODULE MCSkip -------------------------------
EXTENDS Skip

R(id, c, v) == [id |-> id, c |-> c, v |-> v]
Asc(field) == [field |-> field, dir |-> "asc"]
Desc(field) == [field |-> field, dir |-> "desc"]
Query(orderBy, where, cursor, exclusive) ==
    [orderBy |-> orderBy, where |-> where, cursor |-> cursor, exclusive |-> exclusive]

(* Three ids, ties and NULLs in c, and two rows of another v.              *)
MCRow == {R(id, c, 1) : id \in 1..3, c \in {Null, 1}} \cup {R(id, 2, 1) : id \in 2..3}
         \cup {R(id, 1, 2) : id \in 1..2}
MCPrimaryKey == <<"id">>

All == MCRow
V1 == {r \in MCRow : r.v = 1}

Full(c, id) == [c |-> c, id |-> id]
Partial(c) == [c |-> c]

(* Cursors on a whole row, and on the first column where the order's last  *)
(* column is ascending or the cursor exclusive.                            *)
MCQueries ==
    { Query(order, where, cursor, exclusive) :
        order \in {<<Asc("c")>>, <<Desc("c")>>, <<Asc("c"), Desc("id")>>},
        where \in {V1}, cursor \in {Full(1, 2), Full(Null, 2)}, exclusive \in BOOLEAN }
    \cup { Query(order, All, Partial(1), exclusive) :
             order \in {<<Asc("c")>>, <<Desc("c")>>}, exclusive \in BOOLEAN }
    \cup { Query(<<Desc("c"), Desc("id")>>, All, Partial(1), TRUE),
           Query(<<>>, All, [id |-> 2], FALSE) }

(* They are the cursors that the proof about fetches is for.               *)
ASSUME MCQueriesUsual == \A q \in MCQueries : UsualCursor(q)

(* The page begins with all rows of one c, the latest id first.            *)
TieQueries == {Query(<<Asc("c"), Desc("id")>>, All, Partial(1), FALSE)}

(* That cursor is not one of them.                                         *)
ASSUME TieQueriesUnusual == \A q \in TieQueries : ~UsualCursor(q)
=============================================================================
