------------------------------- MODULE Builder -------------------------------
(***************************************************************************)
(* What builder/builder.go, builder/filter.go and builder/resolve_scalar.go *)
(* make of the WHERE clause of a query: simple scalar subqueries become    *)
(* literals, the part without subqueries goes to the source, every other   *)
(* subquery gets a join and an Exists operator, and an OR with subqueries  *)
(* a FanOut and a FanIn.                                                   *)
(*                                                                         *)
(* Two tables, a parent and a child.  A condition is a record with a type: *)
(*   simple               op, left, right                                  *)
(*   and, or              conditions                                       *)
(*   correlatedSubquery   not, parentField, childField, where (of the      *)
(*                        subquery), scalar, flip, alias                   *)
(*   true                 an absent WHERE                                  *)
(* A subquery's own WHERE has simple conditions only: nested subqueries    *)
(* build the same operators again on the child's side.                     *)
(*                                                                         *)
(* collectSplitEditKeysNone and stripCSQConditionsOfOr are faulty variants *)
(* of the operators they precede.                                          *)
(***************************************************************************)
EXTENDS Naturals, Sequences, SequencesExt

Null == 0
PrimaryKey == "id"

Column(name) == [type |-> "column", name |-> name]
Literal(value) == [type |-> "literal", value |-> value]
Simple(left, op, right) == [type |-> "simple", op |-> op, left |-> left, right |-> right]
Conditions(type, conds) == [type |-> type, conditions |-> conds]
NoWhere == [type |-> "true"]
AlwaysFalse == Simple(Literal(1), "=", Literal(0))

-----------------------------------------------------------------------------
(* Predicates over a row.                                                  *)

resolveValue(vp, row) == IF vp.type = "column" THEN row[vp.name] ELSE vp.value

evalOp(op, left, right) ==
    CASE op = "IS"     -> left = right
      [] op = "IS NOT" -> left # right
      [] OTHER -> /\ left # Null /\ right # Null
                  /\ CASE op = "="  -> left = right
                       [] op = "!=" -> left # right
                       [] op = "<"  -> left < right
                       [] op = ">"  -> left > right

RECURSIVE BuildPredicate(_, _)
BuildPredicate(cond, row) ==
    CASE cond.type = "simple" -> evalOp(cond.op, resolveValue(cond.left, row), resolveValue(cond.right, row))
      [] cond.type = "and" -> \A i \in DOMAIN cond.conditions : BuildPredicate(cond.conditions[i], row)
      [] cond.type = "or"  -> \E i \in DOMAIN cond.conditions : BuildPredicate(cond.conditions[i], row)
      [] OTHER -> TRUE

-----------------------------------------------------------------------------
(* Scalar subqueries (resolve_scalar.go).                                  *)

RECURSIVE collectConstraints(_)
collectConstraints(cond) ==
    CASE cond.type = "simple" ->
           IF cond.op = "=" /\ cond.left.type = "column" /\ cond.right.type = "literal"
           THEN {cond.left.name} ELSE {}
      [] cond.type = "and" -> UNION {collectConstraints(cond.conditions[i]) : i \in DOMAIN cond.conditions}
      [] OTHER -> {}

(* All columns of a unique key are compared with a literal: at most one    *)
(* row.                                                                    *)
IsSimpleSubquery(where, uniqueKeys) ==
    \E key \in uniqueKeys : key # {} /\ key \subseteq collectConstraints(where)

(* The executor runs the subquery on the table as it is now.               *)
resolveScalarSubquery(csq, uniqueKeys, table) ==
    LET matched == {r \in table : BuildPredicate(csq.where, r)}
        value == (CHOOSE r \in matched : TRUE)[csq.childField]
    IN  IF ~IsSimpleSubquery(csq.where, uniqueKeys) THEN csq
        ELSE IF matched = {} \/ value = Null THEN AlwaysFalse
        ELSE Simple(Column(csq.parentField), IF csq.not THEN "IS NOT" ELSE "=", Literal(value))

RECURSIVE resolveCondition(_, _, _)
resolveCondition(cond, uniqueKeys, table) ==
    CASE cond.type = "correlatedSubquery" ->
           IF cond.scalar THEN resolveScalarSubquery(cond, uniqueKeys, table) ELSE cond
      [] cond.type \in {"and", "or"} ->
           [cond EXCEPT !.conditions =
              [i \in DOMAIN cond.conditions |-> resolveCondition(cond.conditions[i], uniqueKeys, table)]]
      [] OTHER -> cond

-----------------------------------------------------------------------------
(* builder.go: the subqueries of a condition, in order, and their aliases. *)

RECURSIVE gatherCSQConditions(_)
gatherCSQConditions(cond) ==
    CASE cond.type = "correlatedSubquery" -> <<cond>>
      [] cond.type \in {"and", "or"} ->
           FlattenSeq([i \in DOMAIN cond.conditions |-> gatherCSQConditions(cond.conditions[i])])
      [] OTHER -> <<>>

containsCSQ(cond) == gatherCSQConditions(cond) # <<>>

CountCSQ(conds) == Len(FlattenSeq([i \in DOMAIN conds |-> gatherCSQConditions(conds[i])]))

(* Every subquery gets an alias of its own, the first one n.               *)
RECURSIVE uniquifyCSQConditionAliases(_, _)
uniquifyCSQConditionAliases(cond, n) ==
    CASE cond.type = "correlatedSubquery" -> [cond EXCEPT !.alias = n]
      [] cond.type \in {"and", "or"} ->
           [cond EXCEPT !.conditions = [i \in DOMAIN cond.conditions |->
              uniquifyCSQConditionAliases(cond.conditions[i], n + CountCSQ(SubSeq(cond.conditions, 1, i - 1)))]]
      [] OTHER -> cond

(* Edits of these columns are split into a remove and an add.              *)
collectSplitEditKeysNone(where) == {}

collectSplitEditKeys(where) ==
    {csq.parentField : csq \in ToSet(gatherCSQConditions(where))}

(* The part of the WHERE that the source applies: an AND keeps what has no *)
(* subquery, an OR with a subquery goes altogether.                        *)
RECURSIVE stripCSQConditionsOfOr(_)
stripCSQConditionsOfOr(cond) ==
    CASE cond.type = "correlatedSubquery" -> NoWhere
      [] cond.type \in {"and", "or"} ->
           LET rest == SelectSeq([i \in DOMAIN cond.conditions |-> stripCSQConditionsOfOr(cond.conditions[i])],
                                 LAMBDA c : c # NoWhere)
           IN  IF rest = <<>> THEN NoWhere ELSE Conditions(cond.type, rest)
      [] OTHER -> cond

RECURSIVE stripCSQConditions(_)
stripCSQConditions(cond) ==
    CASE cond.type = "correlatedSubquery" -> NoWhere
      [] cond.type = "and" ->
           LET rest == SelectSeq([i \in DOMAIN cond.conditions |-> stripCSQConditions(cond.conditions[i])],
                                 LAMBDA c : c # NoWhere)
           IN  IF rest = <<>> THEN NoWhere ELSE Conditions("and", rest)
      [] cond.type = "or" -> IF containsCSQ(cond) THEN NoWhere ELSE cond
      [] OTHER -> cond

-----------------------------------------------------------------------------
(* The chain of filter operators, a sequence of filter, exists and fan (a  *)
(* FanOut, its branches and their FanIn).                                  *)

FilterOp(cond) == [op |-> "filter", cond |-> cond]
ExistsOp(csq) == [op |-> "exists", csq |-> csq]
FanOp(branches) == [op |-> "fan", branches |-> branches]

(* The flipped join is not there: a flipped subquery lets everything pass. *)
applyCorrelatedSubqueryCondition(csq) == IF csq.flip THEN <<>> ELSE <<ExistsOp(csq)>>

RECURSIVE applyFilter(_)
applyFilter(cond) ==
    CASE cond.type = "and" -> FlattenSeq([i \in DOMAIN cond.conditions |-> applyFilter(cond.conditions[i])])
      [] cond.type = "or" ->
           LET subquery == SelectSeq(cond.conditions, containsCSQ)
               simple == SelectSeq(cond.conditions, LAMBDA c : ~containsCSQ(c))
               rest == IF simple = <<>> THEN <<>> ELSE <<FilterOp(Conditions("or", simple))>>
           IN  IF subquery = <<>> THEN <<FilterOp(cond)>>
               ELSE <<FanOp([i \in DOMAIN subquery |-> applyFilter(subquery[i])] \o
                            (IF rest = <<>> THEN <<>> ELSE <<rest>>))>>
      [] cond.type = "correlatedSubquery" -> applyCorrelatedSubqueryCondition(cond)
      [] OTHER -> <<FilterOp(cond)>>

(* buildPipelineInternal: the source's filter, one join per subquery by    *)
(* its alias, the operators after the joins (none without a subquery).     *)
BuildPipeline(where) ==
    LET csqs == ToSet(gatherCSQConditions(where))
    IN  [where  |-> where,
         filter |-> stripCSQConditions(where),
         split  |-> collectSplitEditKeys(where),
         joins  |-> [a \in {c.alias : c \in {d \in csqs : ~d.flip}} |-> CHOOSE c \in csqs : c.alias = a],
         chain  |-> IF csqs = {} THEN <<>> ELSE applyFilter(where)]
=============================================================================
