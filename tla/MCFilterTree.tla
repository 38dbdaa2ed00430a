---------------------------- MODULE MCFilterTree ----------------------------
EXTENDS FilterTree

P(id, fk, val) == [id |-> id, fk |-> fk, val |-> val]
C(id, fk, val) == [id |-> id, fk |-> fk, val |-> val]

Csq(not, parentField, where) ==
    [type |-> "correlatedSubquery", not |-> not, parentField |-> parentField, childField |-> "fk",
     where |-> where, scalar |-> FALSE, flip |-> FALSE, alias |-> 1]
Exists(parentField) == Csq(FALSE, parentField, NoWhere)
NotExists(parentField) == Csq(TRUE, parentField, NoWhere)
Val(op, v) == Simple(Column("val"), op, Literal(v))
Id(v) == Simple(Column("id"), "=", Literal(v))
And(a, b) == Conditions("and", <<a, b>>)
Or(a, b) == Conditions("or", <<a, b>>)
Flipped(csq) == [csq EXCEPT !.flip = TRUE]
Scalar(csq) == [csq EXCEPT !.scalar = TRUE]

MCParent == {P(1, 1, 1), P(1, 1, 2), P(1, Null, 1), P(2, 1, 1), P(2, 1, 2)}
MCChild == {C(1, 1, 1), C(1, 1, 2), C(2, 1, 1), C(2, Null, 1), C(3, 1, 2), C(3, 2, 2)}

MCAsts ==
    { Exists("fk"), And(Val("=", 1), NotExists("fk")),
      And(Exists("fk"), Csq(TRUE, "id", Val("=", 1))),
      Or(Exists("fk"), Val("=", 1)),
      Or(Exists("id"), And(NotExists("id"), Val("=", 2))),
      Or(And(Csq(FALSE, "fk", Val("=", 1)), Val("=", 1)), Csq(TRUE, "fk", Val("=", 2))),
      And(Or(NotExists("fk"), Val("=", 2)), Or(Val("=", 1), Val("=", 2))),
      And(Exists("fk"), Or(Flipped(Exists("id")), NotExists("id"))),
      Or(Scalar(Csq(TRUE, "fk", Id(2))), Exists("fk")),
      Scalar(Csq(FALSE, "fk", Val("=", 1))) }

(* A subquery in an OR, correlated by a column that rows may share.        *)
SharedKeyUnderOr == {Or(Exists("fk"), Val("=", 1))}

(* A scalar subquery of one child by its primary key, and nothing else.    *)
ScalarById == {Scalar(Csq(FALSE, "fk", Id(2)))}

MCStartParents == {{}, {P(1, 1, 1), P(2, 1, 2)}}
MCStartChildren == {{}, {C(1, 1, 1), C(2, 1, 1), C(3, 1, 2)}}
MCUniqueKeys == {{"id"}}
=============================================================================
