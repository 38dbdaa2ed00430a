-------------------------- MODULE MCAdvanceStream ---------------------------
EXTENDS AdvanceStream

(* One query of the whole table and one that an edit can enter and leave.  *)
MCWhere == [q \in Query |-> IF q = "all" THEN Val ELSE {1}]

(* From one row, one change can add, edit, remove and replace a row.       *)
MCStart == {{[key |-> 1, val |-> 1]}}
=============================================================================
