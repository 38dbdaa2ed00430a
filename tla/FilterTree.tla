----------------------------- MODULE FilterTree -----------------------------
(***************************************************************************)
(* A query whose WHERE has correlated subqueries, from the source to the   *)
(* streamer, on one goroutine: the joins with their child's Take, and      *)
(* between FilterStart and FilterEnd the operators Filter, Exists, FanOut  *)
(* and FanIn that Builder makes of the WHERE.                              *)
(*                                                                         *)
(* A change of the child table reaches the query once per join, and from   *)
(* each join once per parent that matches, in the parents' order; an       *)
(* operator downstream (a Take) may fetch in the middle.  One step of the  *)
(* model is one such push through the chain and what it puts out.          *)
(*                                                                         *)
(* The child's Take is replaced by what module Take shows of it: its       *)
(* window is the first ExistsLimit rows of a partition, and a row that is  *)
(* displaced is removed before its successor is added.  A partition nobody *)
(* has fetched yet has no state, and Take drops what is pushed for it.     *)
(*                                                                         *)
(* ExistsPushReversed, PushAccumulatedAddFirst, GenerateWithOverlayOff and *)
(* InPushNever are faulty variants of the operators they precede.          *)
(***************************************************************************)
EXTENDS Builder, FiniteSets

CONSTANTS Asts,          \* the WHERE clauses
          Parent, Child, \* the rows of the two tables, all versions of each
          UniqueKeys,    \* tableUniqueKeys of the child table
          ExistsLimit,   \* existsLimit
          StartParents, StartChildren    \* tables to begin with

Table(rows) == {S \in SUBSET rows : \A r, s \in S : r.id = s.id => r = s}

ASSUME FilterTreeAssumption ==
    /\ ExistsLimit \in Nat \ {0}
    /\ StartParents \subseteq Table(Parent) /\ StartChildren \subseteq Table(Child)

VARIABLES
    ast,        \* the query's WHERE as the client sent it
    pipe,       \* its pipeline
    hydrated,   \* whether it has been hydrated
    parents, children,    \* the tables, with the change being pushed
    prev,       \* the child table without it
    todo,       \* the source changes still to be pushed
    push,       \* the push of a child change
    fetched,    \* <<alias, key>>: partitions with a take state
    view,       \* the parents put out, each with its child rows per alias
    fault       \* "none", "panic", or "illegal" (an output that does not fit view)

vars == <<ast, pipe, hydrated, parents, children, prev, todo, push, fetched, view, fault>>

NoRow == [id |-> 0]

(* A change in the pipeline.  A CHILD change names its join and the child  *)
(* change; over replaces the relationship of that join in a REMOVE.        *)
Change(type, row, old) ==
    [type |-> type, row |-> row, old |-> old, join |-> 0,
     child |-> [type |-> "none", row |-> NoRow], over |-> {}]
ChildChange(row, join, child) == [Change("child", row, NoRow) EXCEPT !.join = join, !.child = child]
PanicChange == Change("panic", NoRow, NoRow)

(* push: the joins not reached yet, the join being pushed, the calls of    *)
(* output.Push to come (a child change and a parent each, with the row     *)
(* Take hides meanwhile) and the last one made.                            *)
NoCall == [change |-> [type |-> "none", row |-> NoRow], parent |-> NoRow, hidden |-> {}]
NoPush == [waiting |-> <<>>, join |-> 0, calls |-> <<>>, last |-> NoCall]

Joins == DOMAIN pipe.joins

InOrder(rows) == SetToSortSeq(rows, LAMBDA a, b : a.id < b.id)

-----------------------------------------------------------------------------
(* Join: the child rows of a parent.                                       *)

First(rows, n) == {r \in rows : Cardinality({s \in rows : s.id < r.id}) < n}

(* The child source through the connection of join j, which shows the      *)
(* change once it has been pushed to that connection.                      *)
ChildRows(s, j, key) ==
    {r \in (IF \E i \in DOMAIN s.waiting : s.waiting[i] = j THEN prev ELSE children) :
        /\ BuildPredicate(pipe.joins[j].where, r)
        /\ key # Null /\ r[pipe.joins[j].childField] = key}

Key(j, p) == p[pipe.joins[j].parentField]

TakeRows(s, j, key) ==
    First(ChildRows(s, j, key), ExistsLimit) \ (IF s.join = j THEN s.last.hidden ELSE {})

GenerateWithOverlayOff(rows, child) == rows

GenerateWithOverlay(rows, child) ==
    CASE child.type = "add"    -> rows \ {child.row}
      [] child.type = "remove" -> rows \cup {child.row}
      [] child.type = "edit"   -> {r \in rows : r.id # child.row.id} \cup {child.old}

(* A parent after the position of the push in progress has not been told   *)
(* of the child change yet.                                                *)
Overlaid(s, j, p) ==
    /\ s.join = j /\ s.last # NoCall
    /\ Key(j, p) # Null /\ Key(j, p) = s.last.change.row[pipe.joins[j].childField]
    /\ p.id > s.last.parent.id

Related(s, j, p) ==
    LET rows == TakeRows(s, j, Key(j, p))
    IN  IF Overlaid(s, j, p) THEN GenerateWithOverlay(rows, s.last.change) ELSE rows

-----------------------------------------------------------------------------
(* Push through the operators; each puts out nothing or one change.        *)

MaybeSplitAndPushEditChange(cond, change) ==
    LET old == BuildPredicate(cond, change.old)
        new == BuildPredicate(cond, change.row)
    IN  CASE old /\ new  -> <<change>>
          [] old /\ ~new -> <<Change("remove", change.old, NoRow)>>
          [] ~old /\ new -> <<Change("add", change.row, NoRow)>>
          [] OTHER -> <<>>

FilterPush(cond, change) ==
    IF change.type = "edit" THEN MaybeSplitAndPushEditChange(cond, change)
    ELSE IF BuildPredicate(cond, change.row) THEN <<change>> ELSE <<>>

ExistsPushReversed(csq, s, change) ==
    LET size == Cardinality(Related(s, csq.alias, change.row))
        own == change.type = "child" /\ change.join = csq.alias
    IN  CASE own /\ change.child.type = "add" /\ size = 1 ->
               <<IF csq.not THEN Change("remove", change.row, NoRow) ELSE Change("add", change.row, NoRow)>>
          [] own /\ change.child.type = "remove" /\ size = 0 ->
               <<IF csq.not THEN Change("add", change.row, NoRow) ELSE Change("remove", change.row, NoRow)>>
          [] OTHER -> IF (size > 0) # csq.not THEN <<change>> ELSE <<>>

(* Exists.Push: the first child of its relationship, or the last one, is   *)
(* an ADD or a REMOVE of the parent.  The REMOVE has the relationship as   *)
(* it was put out: with the removed child, or without the added one.       *)
ExistsPush(csq, s, change) ==
    LET size == Cardinality(Related(s, csq.alias, change.row))
        own == change.type = "child" /\ change.join = csq.alias
        gone(kids) == [Change("remove", change.row, NoRow) EXCEPT !.join = csq.alias, !.over = kids]
    IN  CASE own /\ change.child.type = "add" /\ size = 1 ->
               <<IF csq.not THEN gone({}) ELSE Change("add", change.row, NoRow)>>
          [] own /\ change.child.type = "remove" /\ size = 0 ->
               <<IF csq.not THEN Change("add", change.row, NoRow) ELSE gone({change.child.row})>>
          [] OTHER -> IF (size > 0) # csq.not THEN <<change>> ELSE <<>>

(* FanIn: at most one change of each type, the first; FanOut's change says *)
(* which one is passed on.                                                 *)
OfType(changes, types) == SelectSeq(changes, LAMBDA c : c.type \in types)

PushAccumulatedAddFirst(changes, type) ==
    LET some(t) == OfType(changes, {t}) # <<>>
        first(t) == <<Head(OfType(changes, {t}))>>
    IN  CASE changes = <<>> -> <<>>
          [] some("add") -> first("add")
          [] some("remove") -> first("remove")
          [] OTHER -> <<Head(changes)>>

PushAccumulatedChanges(changes, type) ==
    LET some(t) == OfType(changes, {t}) # <<>>
        first(t) == <<Head(OfType(changes, {t}))>>
        one(t) == IF some(t) THEN first(t) ELSE <<PanicChange>>
    IN  CASE changes = <<>> -> <<>>
          [] changes # <<>> /\ type \in {"add", "remove"} -> one(type)
          [] changes # <<>> /\ type = "edit" ->
               IF some("edit") THEN first("edit")
               ELSE IF some("add") /\ some("remove")
               THEN <<Change("edit", first("add")[1].row, first("remove")[1].row)>>
               ELSE IF some("add") THEN first("add") ELSE one("remove")
          [] changes # <<>> /\ type = "child" ->
               IF some("child") THEN first("child")
               ELSE IF some("add") /\ some("remove") THEN <<PanicChange>>
               ELSE IF some("add") THEN first("add") ELSE one("remove")

(* The change put out at the end of a chain, and the aliases whose         *)
(* relationship was fetched on the way.                                    *)
RECURSIVE PushChain(_, _, _)
PushChain(chain, s, change) ==
    LET op == Head(chain)
        branches == [i \in DOMAIN op.branches |-> PushChain(op.branches[i], s, change)]
        outs == [i \in DOMAIN branches |-> branches[i].out]
        here == CASE op.op = "filter" -> [out |-> FilterPush(op.cond, change), used |-> {}]
                  [] op.op = "exists" -> [out |-> ExistsPush(op.csq, s, change), used |-> {op.csq.alias}]
                  [] op.op = "fan" -> [out |-> PushAccumulatedChanges(FlattenSeq(outs), change.type),
                                       used |-> UNION {branches[i].used : i \in DOMAIN branches}]
        next == PushChain(Tail(chain), s, here.out[1])
    IN  IF chain = <<>> THEN [out |-> <<change>>, used |-> {}]
        ELSE IF here.out = <<>> \/ here.out = <<PanicChange>> THEN here
        ELSE [out |-> next.out, used |-> here.used \cup next.used]

-----------------------------------------------------------------------------
(* Fetch through FilterStart: every parent through the chain, an Exists    *)
(* remembering its answer per join key until the end of the fetch, unless  *)
(* the key is the primary key or the Exists is itself in Push: those       *)
(* outside every fan are, while their push puts out a change.              *)

InPushNever(s, csq) == FALSE

InPush(s, csq) == s.last # NoCall /\ \E i \in DOMAIN pipe.chain : pipe.chain[i] = ExistsOp(csq)

FilterExists(s, csq, p, memo) ==
    LET key == Key(csq.alias, p)
        known == {e \in memo.cache : e.alias = csq.alias /\ e.key = key}
        reuse == csq.parentField # PrimaryKey /\ ~InPush(s, csq)
        exists == IF reuse /\ known # {} THEN (CHOOSE e \in known : TRUE).exists
                  ELSE Related(s, csq.alias, p) # {}
    IN  [ok |-> exists # csq.not,
         cache |-> IF reuse THEN memo.cache \cup {[alias |-> csq.alias, key |-> key, exists |-> exists]}
                   ELSE memo.cache,
         used |-> memo.used \cup {<<csq.alias, key>>}]

(* A fan tries its branches, each followed by what comes after the fan.    *)
RECURSIVE FilterChain(_, _, _, _)
FilterChain(chain, s, p, memo) ==
    LET op == Head(chain)
        found == FilterExists(s, op.csq, p, memo)
    IN  IF chain = <<>> THEN [memo EXCEPT !.ok = TRUE]
        ELSE CASE op.op = "filter" ->
                    IF BuildPredicate(op.cond, p) THEN FilterChain(Tail(chain), s, p, memo)
                    ELSE [memo EXCEPT !.ok = FALSE]
               [] op.op = "exists" -> IF found.ok THEN FilterChain(Tail(chain), s, p, found) ELSE found
               [] op.op = "fan" ->
                    FoldLeft(LAMBDA m, b : IF m.ok THEN m ELSE FilterChain(b \o Tail(chain), s, p, m),
                             [memo EXCEPT !.ok = FALSE], op.branches)

(* The rows of a fetch in the order of the sequence ps.                    *)
Fetch(s, ps) ==
    LET step(acc, p) ==
            LET m == FilterChain(pipe.chain, s, p, acc.memo)
            IN  [rows |-> IF m.ok THEN acc.rows \cup {p} ELSE acc.rows, memo |-> m]
    IN  FoldLeft(step, [rows |-> {}, memo |-> [ok |-> FALSE, cache |-> {}, used |-> {}]], ps)

SourceRows == InOrder({p \in parents : BuildPredicate(pipe.filter, p)})

-----------------------------------------------------------------------------
(* The streamer evaluates every relationship of what it is given.          *)

Kids(s, p) == [j \in Joins |-> Related(s, j, p)]
AllKeys(p) == {<<j, Key(j, p)>> : j \in Joins}
TakeStates(used) == {u \in used : u[2] # Null}

Entry(p) == {v \in view : v.row.id = p.id}

Fits(s, c) ==
    LET kids == [j \in Joins |-> IF j = c.join THEN c.over ELSE Related(s, j, c.row)]
    IN  CASE c.type = "add"    -> Entry(c.row) = {}
          [] c.type = "remove" -> [row |-> c.row, kids |-> kids] \in view
          [] c.type = "edit"   -> \E v \in view : v.row = c.old
          [] c.type = "child"  ->
               \E v \in Entry(c.row) :
                 CASE c.child.type = "add"    -> c.child.row \notin v.kids[c.join]
                   [] c.child.type = "remove" -> c.child.row \in v.kids[c.join]
                   [] c.child.type = "edit"   -> c.child.old \in v.kids[c.join]
          [] OTHER -> FALSE

Told(s, c) ==
    CASE c.type = "add"    -> view \cup {[row |-> c.row, kids |-> Kids(s, c.row)]}
      [] c.type = "remove" -> view \ Entry(c.row)
      [] c.type = "edit"   -> {IF v.row = c.old THEN [v EXCEPT !.row = c.row] ELSE v : v \in view}
      [] c.type = "child"  ->
           (view \ Entry(c.row)) \cup
           {[v EXCEPT !.kids[c.join] =
                CASE c.child.type = "add"    -> @ \cup {c.child.row}
                  [] c.child.type = "remove" -> @ \ {c.child.row}
                  [] c.child.type = "edit"   -> (@ \ {c.child.old}) \cup {c.child.row}] : v \in Entry(c.row)}
      [] OTHER -> view

(* One change goes through the chain and its output to the streamer.       *)
Through(s, change) ==
    LET result == PushChain(pipe.chain, s, change)
        used == {<<j, Key(j, change.row)>> : j \in result.used}
    IN  /\ IF result.out = <<>>
           THEN UNCHANGED <<view, fault>>
           ELSE /\ view' = Told(s, result.out[1])
                /\ fault' = IF result.out = <<PanicChange>> THEN "panic"
                            ELSE IF Fits(s, result.out[1]) THEN fault ELSE "illegal"
        /\ fetched' = fetched \cup TakeStates(used \cup
                         IF result.out = <<>> THEN {} ELSE AllKeys(change.row))

-----------------------------------------------------------------------------
(* AddQuery: the pipeline is built from the WHERE with its scalar          *)
(* subqueries resolved, then hydrated.                                     *)

Resolved(cond, table) ==
    uniquifyCSQConditionAliases(resolveCondition(cond, UniqueKeys, table), 1)

Hydrate ==
    LET result == Fetch(NoPush, SourceRows)
    IN  /\ ~hydrated /\ hydrated' = TRUE
        /\ view' = {[row |-> p, kids |-> Kids(NoPush, p)] : p \in result.rows}
        /\ fetched' = TakeStates(result.memo.used \cup UNION {AllKeys(p) : p \in result.rows})
        /\ UNCHANGED <<ast, pipe, parents, children, prev, todo, push, fault>>

-----------------------------------------------------------------------------
(* Source changes.  An edit of a key some connection joins or partitions   *)
(* by is split; a NULL key counts as changed.                              *)

ValuesEqual(a, b) == a # Null /\ a = b

SplitEdit(table, keys, old, new) ==
    IF \E k \in keys : ~ValuesEqual(old[k], new[k])
    THEN <<[table |-> table, change |-> Change("remove", old, NoRow)],
           [table |-> table, change |-> Change("add", new, NoRow)]>>
    ELSE <<[table |-> table, change |-> Change("edit", new, old)]>>

Write(table, rows, keys, new) ==
    LET olds == {r \in rows : r.id = new.id}
    IN  \/ /\ olds = {}
           /\ todo' = <<[table |-> table, change |-> Change("add", new, NoRow)]>>
        \/ /\ new \in rows
           /\ todo' = <<[table |-> table, change |-> Change("remove", new, NoRow)]>>
        \/ \E old \in olds \ {new} : todo' = SplitEdit(table, keys, old, new)

ChildKeys == {pipe.joins[j].childField : j \in Joins}

SourceChange ==
    /\ hydrated /\ todo = <<>> /\ fault = "none"
    /\ \/ \E p \in Parent : Write("parent", parents, pipe.split, p)
       \/ \E c \in Child : Write("child", children, ChildKeys, c)
    /\ UNCHANGED <<ast, pipe, parents, children, prev, push, fetched, view, fault, hydrated>>

writeChange(rows, change) ==
    CASE change.type = "add"    -> rows \cup {change.row}
      [] change.type = "remove" -> rows \ {change.row}
      [] change.type = "edit"   -> (rows \ {change.old}) \cup {change.row}

Pushing(table) ==
    /\ todo # <<>> /\ fault = "none"
    /\ Head(todo).table = table
    /\ UNCHANGED <<ast, pipe, hydrated>>

(* To the parent's connection, through the joins, which refuse an edit of  *)
(* their key, and the chain.                                               *)
PushParent ==
    LET change == Head(todo).change
        out == FilterPush(pipe.filter, change)
    IN  /\ Pushing("parent")
        /\ parents' = writeChange(parents, change)
        /\ todo' = Tail(todo)
        /\ IF out = <<>> THEN UNCHANGED <<view, fault, fetched>>
           ELSE IF out[1].type = "edit" /\ \E j \in Joins : Key(j, out[1].row) # Key(j, out[1].old)
           THEN fault' = "panic" /\ UNCHANGED <<view, fetched>>
           ELSE Through(NoPush, out[1])
        /\ UNCHANGED <<children, prev, push>>

(* To the child's connections, one per join.  Between two connections some *)
(* show the change and some do not.                                        *)
Settle(s, rows) ==
    /\ push' = IF s.waiting = <<>> /\ s.calls = <<>> THEN NoPush ELSE s
    /\ IF push' = NoPush THEN todo' = Tail(todo) /\ prev' = rows
       ELSE UNCHANGED <<todo, prev>>

PushChild ==
    /\ Pushing("child") /\ push = NoPush
    /\ children' = writeChange(children, Head(todo).change)
    /\ Settle([NoPush EXCEPT !.waiting = SetToSortSeq(Joins, <)], children')
    /\ UNCHANGED <<parents, fetched, view, fault>>

HasTakeState(j, key) == <<j, key>> \in fetched

(* What the child's Take puts out: one change, or the row that leaves the  *)
(* window and then the one that enters it.                                 *)
TakePush(change, before, after) ==
    LET changes(type, rows) == [i \in DOMAIN InOrder(rows) |-> [type |-> type, row |-> InOrder(rows)[i], old |-> NoRow]]
    IN  IF change.type = "edit"
        THEN IF change.row \in after
             THEN <<[type |-> "edit", row |-> change.row, old |-> change.old]>> ELSE <<>>
        ELSE changes("remove", before \ after) \o changes("add", after \ before)

PushConnection ==
    LET j == Head(push.waiting)
        s == [NoPush EXCEPT !.waiting = Tail(push.waiting), !.join = j]
        out == FilterPush(pipe.joins[j].where, Head(todo).change)
        key == out[1].row[pipe.joins[j].childField]
        before == First(ChildRows(push, j, key), ExistsLimit)
        after == First(ChildRows(s, j, key), ExistsLimit)
        taken == IF out # <<>> /\ HasTakeState(j, key) THEN TakePush(out[1], before, after) ELSE <<>>
        matching == InOrder({p \in ToSet(SourceRows) : Key(j, p) = key})
        calls(i) == [k \in DOMAIN matching |->
                       [change |-> taken[i], parent |-> matching[k],
                        hidden |-> IF i < Len(taken) THEN {taken[Len(taken)].row} ELSE {}]]
    IN  /\ Pushing("child") /\ push.waiting # <<>> /\ push.calls = <<>>
        /\ Settle([s EXCEPT !.calls = FlattenSeq([i \in DOMAIN taken |-> calls(i)])], children)
        /\ UNCHANGED <<parents, children, fetched, view, fault>>

(* Join.pushChildChange: one parent.                                       *)
PushChildChange ==
    LET call == Head(push.calls)
        s == [push EXCEPT !.calls = Tail(@), !.last = call]
    IN  /\ Pushing("child") /\ push.calls # <<>>
        /\ Through(s, ChildChange(call.parent, push.join, call.change))
        /\ Settle(s, children)
        /\ UNCHANGED <<parents, children>>

(* An operator downstream fetches, forwards or in reverse, between pushes  *)
(* or while it is being pushed to.                                         *)
Fetchable == hydrated /\ fault = "none" /\ (push = NoPush \/ push.last # NoCall)

DownstreamFetch ==
    /\ Fetchable
    /\ \E ps \in {SourceRows, Reverse(SourceRows)} :
         fetched' = fetched \cup TakeStates(Fetch(push, ps).memo.used)
    /\ UNCHANGED <<ast, pipe, parents, children, prev, todo, push, view, fault, hydrated>>

-----------------------------------------------------------------------------
Init ==
    /\ ast \in Asts /\ parents \in StartParents /\ children \in StartChildren
    /\ pipe = BuildPipeline(Resolved(ast, children))
    /\ prev = children /\ todo = <<>> /\ push = NoPush
    /\ fetched = {} /\ view = {} /\ fault = "none" /\ hydrated = FALSE

Next == \/ Hydrate \/ SourceChange
        \/ PushParent \/ PushChild \/ PushConnection \/ PushChildChange
        \/ DownstreamFetch

Spec == Init /\ [][Next]_vars

-----------------------------------------------------------------------------
TypeOK ==
    /\ parents \in Table(Parent) /\ children \in Table(Child) /\ prev \in Table(Child)
    /\ {v.row : v \in view} \in Table(Parent)
    /\ \A v \in view : v.kids \in [Joins -> SUBSET Child]
    /\ fault \in {"none", "panic", "illegal"}

(* No operator panics (Join's and FanIn's assertions), and what is put out *)
(* fits what was put out before: no row is added twice, a row is removed   *)
(* with exactly the child rows it was given, a child change is new.        *)
OutputFits == fault = "none"

(* The meaning of a condition for a row of the parent table.               *)
RECURSIVE Satisfies(_, _)
Satisfies(cond, p) ==
    CASE cond.type = "and" -> \A i \in DOMAIN cond.conditions : Satisfies(cond.conditions[i], p)
      [] cond.type = "or"  -> \E i \in DOMAIN cond.conditions : Satisfies(cond.conditions[i], p)
      [] cond.type = "correlatedSubquery" ->
           cond.flip \/ cond.not # \E c \in children : /\ BuildPredicate(cond.where, c)
                                                       /\ ValuesEqual(c[cond.childField], p[cond.parentField])
      [] OTHER -> BuildPredicate(cond, p)

Quiet == hydrated /\ push = NoPush

(* Between pushes the output holds the rows that satisfy the WHERE the     *)
(* pipeline was built from, each with its child rows, whatever the shape   *)
(* of the WHERE, the order of the pushes and the fetches in between.       *)
ViewCorrect ==
    Quiet => view = {[row |-> p, kids |-> Kids(NoPush, p)] : p \in {q \in parents : Satisfies(pipe.where, q)}}

(* A fetch in the middle of a push sees the parents that have been told of *)
(* the change with it and the others without.                              *)
FetchSeesPush ==
    Fetchable => \A ps \in {SourceRows, Reverse(SourceRows)} :
                   Fetch(push, ps).rows = {v.row : v \in view}

(* No Exists under an OR joins by anything but the primary key.            *)
NothingRemembered ==
    \A j \in Joins : \/ pipe.joins[j].parentField = PrimaryKey
                     \/ \E i \in DOMAIN pipe.chain : pipe.chain[i] = ExistsOp(pipe.joins[j])

(* FetchSeesPush for the WHEREs whose Exists operators are all in Push     *)
(* when the output is pushed to, or have nothing to remember: the ones a   *)
(* Take may follow.                                                        *)
FetchAgrees == NothingRemembered => FetchSeesPush

(* A scalar subquery stays live: the output holds the rows that satisfy    *)
(* the query as it was sent.                                               *)
ScalarStaysLive ==
    Quiet => {v.row : v \in view} = {p \in parents : Satisfies(ast, p)}
=============================================================================
