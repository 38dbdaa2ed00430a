-------------------------------- MODULE Skip --------------------------------
(***************************************************************************)
(* Cursor pagination: a connection of a MemorySource in its own order, and *)
(* the Skip operator on it that lets nothing before the cursor pass.       *)
(*                                                                         *)
(* The cursor may name a prefix of the order's columns only.  Downstream   *)
(* (a Take, or a join through the query's correlation) fetches forwards or *)
(* in reverse, from a row it has been given and within a constraint, also  *)
(* while it is being pushed to: the source then shows the change that its  *)
(* table does not hold yet.                                                *)
(*                                                                         *)
(* shouldBePresentFull, getStartAt, computeOverlaysForward and             *)
(* writeChangeNoRemove are faulty variants of the operators they precede.  *)
(***************************************************************************)
EXTENDS Integers, FiniteSets, SequencesExt

CONSTANTS Row,         \* the rows of the table, all versions of each
          PrimaryKey,  \* the columns of the primary key, a sequence
          Queries      \* [orderBy, where, cursor, exclusive]

(* NULL and an absent column, below every value.                           *)
Null == 0
Columns == {"id", "c", "v"}

ASSUME SkipAssumption ==
    /\ Row \subseteq [Columns -> Nat]
    /\ PrimaryKey \in Seq(Columns)
    /\ \A r \in Row, i \in DOMAIN PrimaryKey : r[PrimaryKey[i]] # Null
    /\ \A q \in Queries : /\ q.orderBy \in Seq([field: Columns, dir: {"asc", "desc"}])
                          /\ q.where \subseteq Row
                          /\ q.exclusive \in BOOLEAN
                          /\ DOMAIN q.cursor \subseteq Columns
                          /\ \A x \in DOMAIN q.cursor : q.cursor[x] \in Nat

VARIABLES query,    \* the query of the connection
          sort,     \* the order of the connection
          data,     \* the table
          change,   \* the change being pushed, or NoChange
          reached,  \* whether it has been pushed to this connection
          view,     \* the rows put out by Skip
          fits      \* every output fitted the ones before

vars == <<query, sort, data, change, reached, view, fits>>

NoRow == [x \in Columns |-> Null]
Change(type, row, old) == [type |-> type, row |-> row, old |-> old]
NoChange == Change("none", NoRow, NoRow)

SamePK(r, s) == \A i \in DOMAIN PrimaryKey : r[PrimaryKey[i]] = s[PrimaryKey[i]]
Tables == {S \in SUBSET Row : IsFiniteSet(S) /\ \A r, s \in S : SamePK(r, s) => r = s}

(* The elements of s that are in S, in their order.                        *)
Kept(s, S) == FlattenSeq(SubSeq([i \in DOMAIN s |-> IF s[i] \in S THEN <<s[i]>> ELSE <<>>], 1, Len(s)))

-----------------------------------------------------------------------------
(* Orders.                                                                 *)

Value(row, field) == IF field \in DOMAIN row THEN row[field] ELSE Null

CompareValues(a, b) == IF a = b THEN 0 ELSE IF a < b THEN -1 ELSE 1

Directed(column, cmp) == IF column.dir = "desc" THEN -cmp ELSE cmp

MakeComparator(order, reverse, a, b) ==
    LET differ == SelectInSeq(order, LAMBDA o : Value(a, o.field) # Value(b, o.field))
        cmp == Directed(order[differ], CompareValues(Value(a, order[differ].field), Value(b, order[differ].field)))
    IN  IF differ = 0 THEN 0 ELSE IF reverse THEN -cmp ELSE cmp

(* Stops at the first column the cursor does not name.                     *)
CompareWithPartialBound(bound, row, order) ==
    LET stop == SelectInSeq(order, LAMBDA o : o.field \notin DOMAIN bound \/ bound[o.field] # row[o.field])
    IN  IF stop = 0 \/ order[stop].field \notin DOMAIN bound THEN 0
        ELSE Directed(order[stop], CompareValues(bound[order[stop].field], row[order[stop].field]))

addPrimaryKeys(pk, orderBy) ==
    LET toAdd == Kept(pk, Columns \ {orderBy[i].field : i \in DOMAIN orderBy})
    IN  orderBy \o [i \in DOMAIN toAdd |-> [field |-> toAdd[i], dir |-> "asc"]]

completeOrdering == addPrimaryKeys(PrimaryKey, query.orderBy)

-----------------------------------------------------------------------------
(* The source: a fetch in the connection's order.  A request has a start,  *)
(* NoStart or a row with its basis, a direction and a constraint.          *)

NoStart == [row |-> NoRow, basis |-> "none"]
NoConstraint == [col |-> "none", value |-> Null]

ConstraintMatchesRow(constraint, row) ==
    constraint = NoConstraint \/ (row[constraint.col] # Null /\ row[constraint.col] = constraint.value)

(* The rows the change adds and removes, as far as the request may see     *)
(* them.                                                                   *)
computeOverlaysForward(req) ==
    LET seen(type) == reached /\ change.type \in type
        keep(row) == /\ req.start # NoStart => MakeComparator(sort, FALSE, row, req.start.row) >= 0
                     /\ ConstraintMatchesRow(req.constraint, row)
                     /\ row \in query.where
    IN  [add    |-> {r \in {change.row} : seen({"add", "edit"}) /\ keep(r)},
         remove |-> {r \in {IF change.type = "edit" THEN change.old ELSE change.row} :
                       seen({"remove", "edit"}) /\ keep(r)}]

computeOverlays(req) ==
    LET seen(type) == reached /\ change.type \in type
        keep(row) == /\ req.start # NoStart => MakeComparator(sort, req.reverse, row, req.start.row) >= 0
                     /\ ConstraintMatchesRow(req.constraint, row)
                     /\ row \in query.where
    IN  [add    |-> {r \in {change.row} : seen({"add", "edit"}) /\ keep(r)},
         remove |-> {r \in {IF change.type = "edit" THEN change.old ELSE change.row} :
                       seen({"remove", "edit"}) /\ keep(r)}]

(* The rows by how many come before them.                                  *)
getSortedRows(rows) ==
    LET before(r) == Cardinality({q \in rows : MakeComparator(sort, FALSE, q, r) < 0})
    IN  [k \in 1..Cardinality(rows) |-> CHOOSE r \in rows : before(r) = k - 1]

(* The added row goes before the first row that is greater, the removed    *)
(* one is passed over.                                                     *)
generateWithOverlayInner(rows, overlays) ==
    LET greater(add) == SelectInSeq(rows, LAMBDA r : MakeComparator(sort, FALSE, add, r) < 0)
        at(add) == IF greater(add) = 0 THEN Len(rows) + 1 ELSE greater(add)
        added == IF overlays.add = {} THEN rows
                 ELSE LET add == CHOOSE r \in overlays.add : TRUE IN InsertAt(rows, at(add), add)
        same(r) == \E s \in overlays.remove : MakeComparator(sort, FALSE, s, r) = 0
    IN  IF overlays.remove = {} THEN added ELSE Kept(added, {r \in Row : r \in overlays.add \/ ~same(r)})

applyStart(rows, start, reverse) ==
    LET cmp(r) == -CompareWithPartialBound(start.row, r, sort)
        started == SelectInSeq(rows, LAMBDA r : IF start.basis = "at" THEN cmp(r) >= 0 ELSE cmp(r) > 0)
    IN  CASE start = NoStart -> rows
          [] start # NoStart /\ reverse ->
               Kept(rows, {r \in Row : IF start.basis = "at" THEN cmp(r) <= 0 ELSE cmp(r) < 0})
          [] OTHER -> IF started = 0 THEN <<>> ELSE SubSeq(rows, started, Len(rows))

SourceFetch(req) ==
    LET rows == generateWithOverlayInner(getSortedRows(data), computeOverlays(req))
        kept == Kept(applyStart(rows, req.start, req.reverse),
                     {r \in query.where : ConstraintMatchesRow(req.constraint, r)})
    IN  IF req.reverse THEN Reverse(kept) ELSE kept

-----------------------------------------------------------------------------
(* Skip.                                                                   *)

basisFromExclusive(exclusive) == IF exclusive THEN "after" ELSE "at"

shouldBePresentFull(row) ==
    LET cmp == MakeComparator(sort, FALSE, query.cursor, row)
    IN  cmp < 0 \/ (cmp = 0 /\ ~query.exclusive)

shouldBePresent(row) ==
    LET cmp == CompareWithPartialBound(query.cursor, row, sort)
    IN  cmp < 0 \/ (cmp = 0 /\ ~query.exclusive)

BoundStart == [row |-> query.cursor, basis |-> basisFromExclusive(query.exclusive)]

(* The start of the request to the source; "empty" if nothing is left.     *)
Empty == [row |-> NoRow, basis |-> "empty"]

getStartAt(req) ==
    LET cmp == MakeComparator(sort, FALSE, query.cursor, req.start.row)
    IN  CASE req.start = NoStart -> IF req.reverse THEN NoStart ELSE BoundStart
          [] req.start # NoStart /\ ~req.reverse -> IF cmp >= 0 THEN BoundStart ELSE req.start
          [] OTHER -> IF cmp > 0 THEN Empty ELSE req.start

getStart(req) ==
    LET cmp == MakeComparator(sort, FALSE, query.cursor, req.start.row)
        forward == IF cmp > 0 THEN BoundStart
                   ELSE IF cmp < 0 THEN req.start
                   ELSE IF req.start.basis = "after" THEN [BoundStart EXCEPT !.basis = "after"]
                   ELSE BoundStart
        backward == IF cmp > 0 THEN Empty
                    ELSE IF cmp < 0 THEN req.start
                    ELSE IF ~query.exclusive /\ req.start.basis = "at" THEN BoundStart
                    ELSE Empty
    IN  IF req.start = NoStart
        THEN IF req.reverse THEN NoStart ELSE BoundStart
        ELSE IF req.reverse THEN backward ELSE forward

(* In reverse, the first row before the cursor ends the fetch.             *)
UntilCursor(rows, reverse) ==
    LET before == SelectInSeq(rows, LAMBDA r : ~shouldBePresent(r))
    IN  IF reverse /\ before # 0 THEN SubSeq(rows, 1, before - 1) ELSE rows

Fetch(req) ==
    LET start == getStart(req)
    IN  IF start = Empty THEN <<>>
        ELSE UntilCursor(SourceFetch([req EXCEPT !.start = start]), req.reverse)

(* The changes through a set of rows: the connection's filter, then Skip's *)
(* own.  An edit across it becomes an add or a remove.                     *)
PushIf(present, c) ==
    CASE c.type = "none" -> c
      [] c.type \in {"add", "remove"} -> IF c.row \in present THEN c ELSE NoChange
      [] c.type = "edit" ->
           CASE c.old \in present /\ c.row \in present   -> c
             [] c.old \notin present /\ c.row \in present  -> Change("add", c.row, NoRow)
             [] c.old \in present /\ c.row \notin present  -> Change("remove", c.old, NoRow)
             [] c.old \notin present /\ c.row \notin present -> NoChange

FilterPush(c) == PushIf(query.where, c)
SkipPush(c) == PushIf({r \in Row : shouldBePresent(r)}, c)

-----------------------------------------------------------------------------
(* writeChange, to the table and to what has been put out.                 *)
writeChangeNoRemove(rows, c) ==
    CASE c.type = "none"   -> rows
      [] c.type \in {"add", "edit"} -> rows \cup {c.row}
      [] c.type = "remove" -> rows \ {c.row}

writeChange(rows, c) ==
    CASE c.type = "none"   -> rows
      [] c.type = "add"    -> rows \cup {c.row}
      [] c.type = "remove" -> rows \ {c.row}
      [] c.type = "edit"   -> (rows \ {c.old}) \cup {c.row}

Fits(c) == CASE c.type = "none"   -> TRUE
             [] c.type = "add"    -> \A r \in view : ~SamePK(r, c.row)
             [] c.type = "remove" -> c.row \in view
             [] c.type = "edit"   -> c.old \in view

Hydration == ToSet(Fetch([start |-> NoStart, reverse |-> FALSE, constraint |-> NoConstraint]))

Init == /\ query \in Queries /\ sort = completeOrdering /\ data \in Tables
        /\ change = NoChange /\ reached = FALSE /\ fits = TRUE
        /\ view = Hydration

(* A change the table admits is pushed to the connections before this one. *)
Push ==
    /\ change = NoChange
    /\ \E r \in Row :
         LET olds == {s \in data : SamePK(r, s)}
         IN  \/ olds = {} /\ change' = Change("add", r, NoRow)
             \/ r \in data /\ change' = Change("remove", r, NoRow)
             \/ \E old \in olds \ {r} : change' = Change("edit", r, old)
    /\ UNCHANGED <<query, sort, data, reached, view, fits>>

PushConnection ==
    LET out == SkipPush(FilterPush(change))
    IN  /\ change # NoChange /\ ~reached /\ reached' = TRUE
        /\ view' = writeChange(view, out) /\ fits' = (fits /\ Fits(out))
        /\ UNCHANGED <<query, sort, data, change>>

Write ==
    /\ reached /\ reached' = FALSE
    /\ data' = writeChange(data, change) /\ change' = NoChange
    /\ UNCHANGED <<query, sort, view, fits>>

Next == Push \/ PushConnection \/ Write

Spec == Init /\ [][Next]_vars

-----------------------------------------------------------------------------
(* What is put out, and what a fetch returns, without a comparator: r is   *)
(* before s in the order if the first column that tells them apart says    *)
(* so, and a cursor that does not tell them apart is met by both.          *)

Precedes(a, b, columns) ==
    \E i \in 1..columns :
        /\ \A j \in 1..(i - 1) : a[sort[j].field] = b[sort[j].field]
        /\ IF sort[i].dir = "asc" THEN a[sort[i].field] < b[sort[i].field]
           ELSE a[sort[i].field] > b[sort[i].field]

(* The columns of the order the cursor names.                              *)
Named == CHOOSE n \in 0..Len(sort) :
            /\ \A i \in 1..n : sort[i].field \in DOMAIN query.cursor
            /\ n < Len(sort) => sort[n + 1].field \notin DOMAIN query.cursor

AfterCursor(r) ==
    \/ Precedes(query.cursor, r, Named)
    \/ ~query.exclusive /\ ~Precedes(r, query.cursor, Named)

Table == IF reached THEN writeChange(data, change) ELSE data

TypeOK ==
    /\ query \in Queries /\ data \in Tables /\ view \in Tables
    /\ reached \in BOOLEAN /\ (reached => change # NoChange)
    /\ change = NoChange \/ change.row \in Row
    /\ fits \in BOOLEAN

(* Every row of the table that passes the WHERE and is not before the      *)
(* cursor has been put out, and nothing else, before, while and after a    *)
(* change is pushed (Skip.Push, maybeSplitAndPushEditChange); and no       *)
(* output contradicts an earlier one.                                      *)
PageCorrect ==
    /\ view = {r \in Table : r \in query.where /\ AfterCursor(r)}
    /\ fits

(* Rows downstream may fetch from: it holds them, or has just lost one.    *)
Lost == IF reached /\ change.type \in {"remove", "edit"}
        THEN {r \in {change.row, change.old} : r \in query.where /\ AfterCursor(r) /\ r \notin view}
        ELSE {}
Starts == {NoStart} \cup {[row |-> r, basis |-> b] : r \in view \cup Lost, b \in {"at", "after"}}
Constraints == {NoConstraint} \cup {[col |-> "v", value |-> r.v] : r \in Row}

(* A cursor that a comparison in all columns, which takes the ones it does *)
(* not name for NULL, puts at the beginning of its page: it is exclusive,  *)
(* or names all columns, or the others ascend and have a column of the     *)
(* primary key, which is not NULL.                                         *)
UsualCursor(q) ==
    LET order == addPrimaryKeys(PrimaryKey, q.orderBy)
        rest == {i \in DOMAIN order : \E j \in 1..i : order[j].field \notin DOMAIN q.cursor}
    IN  \/ q.exclusive
        \/ rest = {}
        \/ /\ \A i \in rest : order[i].dir = "asc" /\ order[i].field \notin DOMAIN q.cursor
           /\ \E i \in rest, k \in DOMAIN PrimaryKey : order[i].field = PrimaryKey[k]

(* A fetch at any moment returns the rows put out so far, from the start   *)
(* on, within the constraint and in the order asked for (Skip.getStart and *)
(* the source's overlay of a change it has not written yet).               *)
FetchAgrees ==
    \A start \in Starts, reverse \in BOOLEAN, constraint \in Constraints :
        LET req == [start |-> start, reverse |-> reverse, constraint |-> constraint]
            before(a, b) == IF reverse THEN Precedes(b, a, Len(sort)) ELSE Precedes(a, b, Len(sort))
            wanted == {r \in view : /\ ConstraintMatchesRow(constraint, r)
                                    /\ start # NoStart => \/ before(start.row, r)
                                                          \/ start.basis = "at" /\ ~before(r, start.row)}
        IN  \A rows \in {Fetch(req)} :
                /\ ToSet(rows) = wanted
                /\ \A i, j \in DOMAIN rows : i < j => before(rows[i], rows[j])
=============================================================================
