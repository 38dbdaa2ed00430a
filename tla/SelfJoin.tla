------------------------------ MODULE SelfJoin ------------------------------
(***************************************************************************)
(* One table (ivm/source.go, ivm/parallel.go) under a Join of the table    *)
(* with itself (ivm/join.go): a query whose related subquery reads the     *)
(* table of its parent.  The Join has two connections to the table, one    *)
(* for its parents and one for the children of a parent.                   *)
(*                                                                         *)
(* A change is pushed to every connection before it is written.  While it  *)
(* is pushed the table's overlay shows it to the connections it has        *)
(* reached (those with the current LastPushedEpoch) and to no other, and   *)
(* while the Join passes a child's change on to one parent after another   *)
(* it shows the children of the parents still to come as they were.  So    *)
(* whoever fetches through the Join half way sees what it has been told.   *)
(* The pushes to the connections come one after the other, or, with        *)
(* enough connections, each in a goroutine of its own; those of the        *)
(* table's other queries count, and their number is taken not to change.   *)
(*                                                                         *)
(* A change takes rows from the table and puts rows into it: ADD has a row *)
(* to come, REMOVE one to go, EDIT one of each.  Every order ends with the *)
(* primary key, so only versions of one row have the same rank.  A join of *)
(* two tables is the case in which no row passes both filters.             *)
(*                                                                         *)
(* WrittenInsertsOnly, VisibleToAll, FilterPushKeepsLeaving,               *)
(* ChildStreamNotHidden and shouldSplitNever are faulty variants of the    *)
(* operators they precede: the properties below fail with them.            *)
(***************************************************************************)
EXTENDS Naturals

CONSTANTS Row,         \* the rows, all versions of all of them
          Pk,          \* primary key of a row
          Rank,        \* position of a row in the order of the parents
          ParentKey,   \* value of the correlation's parent field, or Null
          ChildKey,    \* value of the correlation's child field, or Null
          Null,        \* the null value, which matches nothing
          ParentRows,  \* rows that pass the parent connection's filter
          ChildRows,   \* rows that pass the child connection's filter
          NoRow        \* the nil row

ASSUME SelfJoinAssumption ==
    /\ Rank \in [Row -> Nat]
    /\ DOMAIN Pk = Row /\ DOMAIN ParentKey = Row /\ DOMAIN ChildKey = Row
    /\ \A r, s \in Row : Rank[r] = Rank[s] => Pk[r] = Pk[s]
    /\ ParentRows \subseteq Row /\ ChildRows \subseteq Row
    /\ NoRow \notin Row

VARIABLES
    parallel,    \* the table has enough connections to push in parallel
    data,        \* MemorySource.data
    connected,   \* the query is registered
    overlay,     \* MemorySource.overlay: the change being pushed
    rest,        \* second half of a split edit, still to be pushed
    pushed,      \* connections whose LastPushedEpoch is the current epoch
    parentPc,    \* how far the push to the parent connection is
    childPc,     \* how far the push to the child connection is
    inprogress,  \* Join.inprogressChildChange
    position,    \* Join.inprogressChildChangePosition
    targets,     \* the fetched parents that pushChildChange has still to visit
    parents,     \* the parents the output has been told about
    pairs,       \* the children it has been told about, each with its parent
    fault        \* "none", "panic" (the code panicked) or "illegal" (an ADD of a
                 \* row the output has, or a REMOVE or EDIT of one it has not)

join == <<inprogress, position, targets>>
view == <<parents, pairs>>
vars == <<parallel, data, connected, overlay, rest, pushed, parentPc, childPc, join, view, fault>>

Change(gone, come) == [gone |-> gone, come |-> come]
None == Change({}, {})
IsEdit(ch) == ch.gone # {} /\ ch.come # {}

WrittenInsertsOnly(T, ch) == T \cup ch.come

(* The rows of T once the change is applied.                               *)
Written(T, ch) == (T \ ch.gone) \cup ch.come

(* A panic in a push ends the process or the advance.                      *)
Running == fault # "panic"
Idle == parentPc = "idle" /\ Running

-----------------------------------------------------------------------------
VisibleToAll(conn, filter) == Written(data, overlay) \cap filter

(* SourceInput.Fetch: the rows that pass the filter, with the overlay if   *)
(* the change has reached the connection.                                  *)
Visible(conn, filter) ==
    (IF conn \in pushed THEN Written(data, overlay) ELSE data) \cap filter

VisibleParents  == Visible("parent", ParentRows)
VisibleChildren == Visible("child", ChildRows)

FilterPushKeepsLeaving(ch, filter) ==
    IF IsEdit(ch) /\ ch.come \cap filter = {}
    THEN None
    ELSE Change(ch.gone \cap filter, ch.come \cap filter)

(* FilterPush: what of a change passes a filter.  An EDIT of which only    *)
(* one version passes becomes an ADD or a REMOVE.                          *)
FilterPush(ch, filter) == Change(ch.gone \cap filter, ch.come \cap filter)

IsJoinMatch(p, c) == ParentKey[p] # Null /\ ParentKey[p] = ChildKey[c]

-----------------------------------------------------------------------------
(* Join.Fetch: the parents, and the children that processParentNode gives  *)
(* a parent.                                                               *)

Touches(ch, p) == \E c \in ch.gone \cup ch.come : IsJoinMatch(p, c)

FetchedChildren(p) == {c \in VisibleChildren : IsJoinMatch(p, c)}

GenerateWithOverlay(p) == (FetchedChildren(p) \ inprogress.come) \cup inprogress.gone

(* GenerateWithOverlay panics if the row it must hide is not there.        *)
OverlayPanics(p) == ~(inprogress.come \subseteq FetchedChildren(p))

StillToCome(p) ==
    /\ inprogress # None
    /\ Touches(inprogress, p)
    /\ position # NoRow
    /\ Rank[p] > Rank[position]

ChildStreamNotHidden(p) == FetchedChildren(p)

ChildStream(p) ==
    IF StillToCome(p) THEN GenerateWithOverlay(p) ELSE FetchedChildren(p)

(* The children C[p] of the parents p of S, each with its parent.          *)
PairsOf(S, C) ==
    {pc \in {Pk[p] : p \in S} \X Row : \E p \in S : pc[1] = Pk[p] /\ pc[2] \in C[p]}

FetchedPairs == PairsOf(VisibleParents, [p \in VisibleParents |-> ChildStream(p)])

-----------------------------------------------------------------------------
(* The output: the Join tells it of a parent with its children, of a       *)
(* parent's edit, and of a change among the children of a parent.          *)

OutputNode(gone, come, goneChildren, comeChildren) ==
    /\ parents' = (parents \ gone) \cup come
    /\ pairs' = (pairs \ goneChildren) \cup comeChildren
    /\ fault' = IF /\ gone \subseteq parents /\ goneChildren \subseteq pairs
                   /\ come \cap (parents \ gone) = {}
                   /\ comeChildren \cap (pairs \ goneChildren) = {}
                THEN fault ELSE "illegal"

(* pushParent, and FilterPush before it; overlaid: the child stream of the *)
(* parent has been caught by the Join's child overlay.                     *)
pushParent(overlaid) ==
    LET ch == FilterPush(overlay, ParentRows)
        under(S) == PairsOf(S, [p \in S |-> IF overlaid THEN GenerateWithOverlay(p)
                                                       ELSE FetchedChildren(p)])
    IN IF IsEdit(ch)
       THEN OutputNode(ch.gone, ch.come, {}, {})
       ELSE OutputNode(ch.gone, ch.come, under(ch.gone), under(ch.come))

(* "Parent edit must not change relationship", and the same for a child.   *)
EditPanics(ch, key) == \E old \in ch.gone, new \in ch.come : key[old] # key[new]

Panic == fault' = "panic" /\ UNCHANGED view

-----------------------------------------------------------------------------
(* MemorySource.Push.                                                      *)

shouldSplitNever(ch) == FALSE

(* An EDIT is split if it changes a correlated column.  Two nulls do not   *)
(* count as equal.                                                         *)
shouldSplit(ch) ==
    \E old \in ch.gone, new \in ch.come :
        \/ ParentKey[old] # ParentKey[new] \/ ParentKey[new] = Null
        \/ ChildKey[old] # ChildKey[new] \/ ChildKey[new] = Null

genPush(ch) ==
    /\ overlay' = ch
    /\ pushed' = IF parallel THEN {"parent", "child"} ELSE {}
    /\ parentPc' = "todo" /\ childPc' = "todo"

has(row) == \E s \in data : Pk[s] = Pk[row]

(* genPush validates a change by primary keys only: REMOVE and EDIT need   *)
(* the one that goes, ADD needs its own to be free.  A change that fails   *)
(* panics with DriftError before anything happens.                         *)
Validated(ch) ==
    /\ \A r \in ch.gone : has(r)
    /\ ch.gone = {} => \A r \in ch.come : ~has(r)

(* The engine makes its changes of the replica's: what goes is in the      *)
(* table as it is told, and an EDIT keeps the primary key.  AdvanceStream  *)
(* is about tables that have fallen behind the replica.                    *)
InStep(ch) ==
    /\ ch.gone \subseteq data
    /\ \A old \in ch.gone, new \in ch.come : Pk[old] = Pk[new]

Valid(ch) == InStep(ch) /\ Validated(ch)

Push(ch) ==
    /\ Idle /\ connected
    /\ Valid(ch)
    /\ IF shouldSplit(ch)
       THEN genPush(Change(ch.gone, {})) /\ rest' = Change({}, ch.come)
       ELSE genPush(ch) /\ rest' = None
    /\ UNCHANGED <<parallel, data, connected, join, view, fault>>

(* Without a connection a push only writes; BulkInsert does the same.      *)
PushUnobserved(ch) ==
    /\ Idle /\ ~connected
    /\ Valid(ch)
    /\ data' = Written(data, ch)
    /\ UNCHANGED <<parallel, connected, overlay, rest, pushed, parentPc, childPc, join, view, fault>>

(* The push to the parent connection, which comes first.                   *)
PushParent ==
    /\ parentPc = "todo" /\ Running
    /\ pushed' = pushed \cup {"parent"}
    /\ parentPc' = "done"
    /\ IF EditPanics(FilterPush(overlay, ParentRows), ParentKey)
       THEN Panic
       ELSE pushParent(FALSE)
    /\ UNCHANGED <<parallel, data, connected, overlay, rest, childPc, join>>

(* In parallel the Join's fields are read and written without a lock.  The *)
(* parent's goroutine may read those of the child's one, and read them     *)
(* again after the latter has reset them.                                  *)
PushParentRaces ==
    /\ parentPc = "todo" /\ Running
    /\ parallel /\ inprogress # None
    /\ LET ch == FilterPush(overlay, ParentRows)
       IN \E p \in ch.gone \cup ch.come : Touches(inprogress, p)
    /\ parentPc' = "raced"
    /\ UNCHANGED <<parallel, data, connected, overlay, rest, pushed, childPc, join, view, fault>>

PushParentRaced ==
    /\ parentPc = "raced" /\ Running
    /\ parentPc' = "done"
    /\ LET ch == FilterPush(overlay, ParentRows)
       IN IF inprogress = None \/ \E p \in ch.gone \cup ch.come : OverlayPanics(p)
          THEN Panic
          ELSE pushParent(TRUE)
    /\ UNCHANGED <<parallel, data, connected, overlay, rest, pushed, childPc, join>>

(* The push to the child connection: fetch the parents of the child ...    *)
PushChild ==
    /\ childPc = "todo" /\ Running
    /\ parallel \/ parentPc = "done"
    /\ pushed' = pushed \cup {"child"}
    /\ LET ch == FilterPush(overlay, ChildRows)
       IN IF ch = None
          THEN childPc' = "done" /\ UNCHANGED <<join, view, fault>>
          ELSE IF EditPanics(ch, ChildKey)
          THEN childPc' = "done" /\ Panic /\ UNCHANGED join
          ELSE /\ childPc' = "loop"
               /\ inprogress' = ch
               /\ position' = NoRow
               /\ targets' = {p \in VisibleParents : Touches(ch, p)}
               /\ UNCHANGED <<view, fault>>
    /\ UNCHANGED <<parallel, data, connected, overlay, rest, parentPc>>

(* ... and tell the output of the change under each, in their order.       *)
PushChildNext ==
    /\ childPc = "loop" /\ Running
    /\ \E p \in targets :
         /\ \A q \in targets : Rank[p] <= Rank[q]
         /\ position' = p
         /\ targets' = targets \ {p}
         /\ OutputNode({}, {}, {Pk[p]} \X inprogress.gone, {Pk[p]} \X inprogress.come)
    /\ UNCHANGED <<parallel, data, connected, overlay, rest, pushed, parentPc, childPc, inprogress>>

PushChildEnd ==
    /\ childPc = "loop" /\ Running
    /\ targets = {}
    /\ childPc' = "done"
    /\ inprogress' = None
    /\ UNCHANGED <<parallel, data, connected, overlay, rest, pushed, parentPc, position, targets,
                   view, fault>>

(* All connections have the change: drop the overlay and write.            *)
writeChange ==
    /\ parentPc = "done" /\ childPc = "done" /\ Running
    /\ data' = Written(data, overlay)
    /\ rest' = None
    /\ IF rest = None
       THEN /\ overlay' = None /\ parentPc' = "idle" /\ childPc' = "idle"
            /\ UNCHANGED pushed
       ELSE genPush(rest)
    /\ UNCHANGED <<parallel, connected, join, view, fault>>

-----------------------------------------------------------------------------
(* Adding the query: connect, and hydrate by fetching everything.          *)
AddQuery ==
    /\ Idle /\ ~connected
    /\ connected' = TRUE
    /\ parents' = VisibleParents
    /\ pairs' = FetchedPairs
    /\ UNCHANGED <<parallel, data, overlay, rest, pushed, parentPc, childPc, join, fault>>

RemoveQuery ==
    /\ Idle /\ connected
    /\ connected' = FALSE
    /\ parents' = {} /\ pairs' = {}
    /\ UNCHANGED <<parallel, data, overlay, rest, pushed, parentPc, childPc, join, fault>>

-----------------------------------------------------------------------------
Init ==
    /\ parallel \in BOOLEAN
    /\ data = {} /\ connected = FALSE
    /\ overlay = None /\ rest = None /\ pushed = {}
    /\ parentPc = "idle" /\ childPc = "idle"
    /\ inprogress = None /\ position = NoRow /\ targets = {}
    /\ parents = {} /\ pairs = {}
    /\ fault = "none"

SourceChange ==
    {Change({}, {r}) : r \in Row} \cup {Change({r}, {}) : r \in Row}
        \cup {Change({r}, {s}) : r \in Row, s \in Row}

Next ==
    \/ \E ch \in SourceChange : Push(ch)
    \/ \E ch \in SourceChange : PushUnobserved(ch)
    \/ PushParent
    \/ PushParentRaces
    \/ PushParentRaced
    \/ PushChild
    \/ PushChildNext
    \/ PushChildEnd
    \/ writeChange
    \/ AddQuery
    \/ RemoveQuery

Spec == Init /\ [][Next]_vars

-----------------------------------------------------------------------------
(* Types of the state; no two rows of the table have the same primary key. *)
TypeOK ==
    /\ parallel \in BOOLEAN
    /\ data \in SUBSET Row
    /\ \A r, s \in data : Pk[r] = Pk[s] => r = s
    /\ connected \in BOOLEAN
    /\ overlay \in [gone: SUBSET Row, come: SUBSET Row]
    /\ rest \in [gone: SUBSET Row, come: SUBSET Row]
    /\ pushed \in SUBSET {"parent", "child"}
    /\ parentPc \in {"idle", "todo", "raced", "done"}
    /\ childPc \in {"idle", "todo", "loop", "done"}
    /\ inprogress \in [gone: SUBSET Row, come: SUBSET Row]
    /\ position \in Row \cup {NoRow}
    /\ targets \in SUBSET Row
    /\ parents \in SUBSET Row
    /\ pairs \in SUBSET ({Pk[r] : r \in Row} \X Row)
    /\ fault \in {"none", "panic", "illegal"}

(* No sequential push reaches one of the Join's panics ("must not change              *)
(* relationship", "overlay was never applied") or tells the output to add  *)
(* a row it has or to remove one it has not.                               *)
NoFault == ~parallel => fault = "none"

(* The same of parallel pushes: they are semantically safe (the comment at *)
(* the head of parallel.go).                                               *)
ParallelIsSafe == fault = "none"

(* What a parallel push gets wrong is confined to rows that are their own  *)
(* children: all parents, and all children under other rows, are as a      *)
(* fresh hydration would return them.                                      *)
OthersCorrect ==
    connected /\ Idle =>
        /\ parents = VisibleParents
        /\ \A p \in Row, r \in Row :
              Pk[p] # Pk[r] => (<<Pk[p], r>> \in pairs <=> <<Pk[p], r>> \in FetchedPairs)

(* Whenever an operator downstream can fetch through the Join, also        *)
(* between two of the changes that one push makes the Join tell it of, it  *)
(* gets what it has been told, and the Join's overlay finds its row.  This *)
(* is what LastPushedEpoch and inprogressChildChangePosition are for.      *)
FetchMatchesOutput ==
    ~parallel /\ connected /\ ~(childPc = "loop" /\ position = NoRow) =>
        /\ parents = VisibleParents
        /\ pairs = FetchedPairs
        /\ \A p \in VisibleParents : StillToCome(p) => ~OverlayPanics(p)

=============================================================================
