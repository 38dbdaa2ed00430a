-------------------------------- MODULE Take --------------------------------
(***************************************************************************)
(* The Take operator (ivm/take.go): LIMIT over a sorted input, globally or *)
(* per value of a partition key.  It keeps, per partition, the number of   *)
(* rows in the window and the sort position of the last one (the bound),   *)
(* and answers every change pushed by its input with zero, one or two      *)
(* changes pushed downstream.                                              *)
(*                                                                         *)
(* A row is an opaque value with a partition (Part) and a position in the  *)
(* total order of CompareRows (Rank): the sort always ends with the        *)
(* primary key, so two rows present together never compare equal, and two  *)
(* rows of the same rank are two versions of one row.  Stored bounds are   *)
(* only ever compared, so the model keeps their ranks.                     *)
(*                                                                         *)
(* While a change is pushed the input already shows the table with that    *)
(* change (the source's overlay), so source changes in the step in which   *)
(* the push starts.  A push that emits two changes takes two steps, because *)
(* operators downstream call Fetch between the two.                        *)
(*                                                                         *)
(* FetchShowsHidden, setTakeStateKeepsMaxBound, AddWithRoomOffByOne,       *)
(* RemoveShrinkingKeepsBound, RemoveOutsideDecrements, EditOutOfForwarded  *)
(* and ChildForwardedInside are faulty variants of the operators they      *)
(* precede: the properties below fail with them.                           *)
(***************************************************************************)
EXTENDS Integers, FiniteSets

CONSTANTS Row,        \* the rows, all versions of all of them
          Partition,  \* the values of the partition key
          Limit,      \* Take.limit
          Rank,       \* position of a row in the order of CompareRows
          Part,       \* partition of a row
          NoRow       \* the nil row

ASSUME TakeAssumption ==
    /\ Limit \in Nat
    /\ Rank \in [Row -> Nat \ {0}]
    /\ Part \in [Row -> Partition]
    /\ NoRow \notin Row

VARIABLES
    source,    \* the rows input.Fetch returns
    hasState,  \* the partitions whose take state is stored
    size,      \* TakeState.Size of those partitions
    bound,     \* TakeState.Bound of those partitions
    maxBound,  \* the largest bound ever stored
    hidden,    \* rowHiddenFromFetch
    pending,   \* the row whose ADD is still to be pushed, or NoRow
    view,      \* per partition, the rows the output has been told about
    fault      \* "none", "panic" (the code panicked) or "illegal" (an ADD of a
               \* row the output has, or a REMOVE or EDIT of one it has not)

vars == <<source, hasState, size, bound, maxBound, hidden, pending, view, fault>>

Nil == 0

-----------------------------------------------------------------------------
(* input.Fetch with a Start row, and the loops that break after one row.   *)

InPartition(T, p) == {r \in T : Part[r] = p}

Before(T, b)     == {r \in T : Rank[r] < b}
AtOrBefore(T, b) == {r \in T : Rank[r] <= b}
AtOrAfter(T, b)  == {r \in T : Rank[r] >= b}
After(T, b)      == {r \in T : Rank[r] > b}

(* The first (last) row fetched, as a set of at most one row.              *)
First(T) == {r \in T : \A s \in T : Rank[r] <= Rank[s]}
Last(T)  == {r \in T : \A s \in T : Rank[s] <= Rank[r]}

Unused(r, T) == \A s \in T : Rank[s] # Rank[r]

-----------------------------------------------------------------------------
(* Take.Fetch once a take state is stored: constrained on the partition    *)
(* key, and not.                                                           *)

FetchShowsHidden(p) ==
    {r \in InPartition(source, p) : bound[p] # Nil /\ Rank[r] <= bound[p]}

Fetch(p) ==
    {r \in InPartition(source, p) :
        /\ bound[p] # Nil
        /\ Rank[r] <= bound[p]
        /\ hidden # NoRow => Rank[r] # Rank[hidden]}

FetchUnconstrained ==
    {r \in source :
        /\ maxBound # Nil
        /\ Rank[r] <= maxBound
        /\ Part[r] \in hasState
        /\ bound[Part[r]] # Nil
        /\ Rank[r] <= bound[Part[r]]}

-----------------------------------------------------------------------------
(* setTakeState, the pushes to the output, and the panics.                 *)

setTakeStateKeepsMaxBound(p, s, b) ==
    /\ hasState' = hasState \cup {p}
    /\ size' = [size EXCEPT ![p] = s]
    /\ bound' = [bound EXCEPT ![p] = b]
    /\ maxBound' = IF maxBound = Nil THEN b ELSE maxBound

setTakeState(p, s, b) ==
    /\ hasState' = hasState \cup {p}
    /\ size' = [size EXCEPT ![p] = s]
    /\ bound' = [bound EXCEPT ![p] = b]
    /\ maxBound' = IF b # Nil /\ (maxBound = Nil \/ b > maxBound) THEN b ELSE maxBound

keepTakeState == UNCHANGED <<hasState, size, bound, maxBound>>

(* Pushing downstream: the output loses the rows gone and gains come.      *)
Output(p, gone, come) ==
    /\ view' = [view EXCEPT ![p] = (@ \ gone) \cup come]
    /\ fault' = IF /\ gone \subseteq view[p]
                   /\ \A r \in come : Unused(r, view[p] \ gone)
                THEN fault
                ELSE "illegal"

(* The whole answer is one pushed change.                                  *)
PushOne(p, gone, come) ==
    Output(p, gone, come) /\ UNCHANGED <<hidden, pending>>

(* The first of two: REMOVE gone now, ADD row next.                        *)
PushRemoveThenAdd(p, gone, row) ==
    /\ Output(p, {gone}, {})
    /\ pending' = row

Drop == keepTakeState /\ UNCHANGED <<hidden, pending, view, fault>>

Panic == /\ fault' = "panic"
         /\ keepTakeState
         /\ UNCHANGED <<hidden, pending, view>>

Idle == pending = NoRow /\ fault = "none"

-----------------------------------------------------------------------------
(* Hydration of a partition: the first Limit rows, in order.  With a limit *)
(* of zero no state is ever stored.                                        *)

InitialWindow(T) ==
    {r \in T : Cardinality(Before(T, Rank[r])) < Limit}

initialFetch(p) ==
    /\ Idle
    /\ p \notin hasState
    /\ Limit # 0
    /\ LET window == InitialWindow(InPartition(source, p)) IN
       /\ IF window = {}
          THEN setTakeState(p, 0, Nil)
          ELSE \E last \in Last(window) :
                  setTakeState(p, Cardinality(window), Rank[last])
       /\ view' = [view EXCEPT ![p] = window]
    /\ UNCHANGED <<source, hidden, pending, fault>>

-----------------------------------------------------------------------------
(* Push of an ADD.                                                         *)

AddWithRoomOffByOne(p, r) ==
    /\ size[p] <= Limit
    /\ setTakeState(p, size[p] + 1,
                    IF bound[p] = Nil \/ bound[p] < Rank[r] THEN Rank[r] ELSE bound[p])
    /\ PushOne(p, {}, {r})

AddWithRoom(p, r) ==
    /\ size[p] < Limit
    /\ setTakeState(p, size[p] + 1,
                    IF bound[p] = Nil \/ bound[p] < Rank[r] THEN Rank[r] ELSE bound[p])
    /\ PushOne(p, {}, {r})

(* The window is full and r sorts before its last row, which r displaces.  *)
AddDisplacing(p, r) ==
    /\ size[p] >= Limit
    /\ bound[p] # Nil /\ Rank[r] < bound[p]
    /\ LET T == InPartition(source', p)
           boundNode == IF Limit = 1 THEN First(AtOrAfter(T, bound[p]))
                                     ELSE Last(AtOrBefore(T, bound[p]))
           beforeBoundNode == IF Limit = 1 THEN {}
                              ELSE Last(AtOrBefore(T, bound[p]) \ boundNode)
       IN IF boundNode = {}
          THEN Panic
          ELSE \E b \in boundNode :
                 /\ PushRemoveThenAdd(p, b, r)
                 /\ hidden' = r
                 /\ \/ \E bb \in beforeBoundNode :
                          /\ Rank[r] <= Rank[bb]
                          /\ setTakeState(p, size[p], Rank[bb])
                    \/ /\ \A bb \in beforeBoundNode : Rank[r] > Rank[bb]
                       /\ setTakeState(p, size[p], Rank[r])

AddOutside(p, r) ==
    /\ size[p] >= Limit
    /\ bound[p] = Nil \/ Rank[r] >= bound[p]
    /\ Drop

PushAdd(r) ==
    /\ Idle
    /\ Unused(r, source)
    /\ source' = source \cup {r}
    /\ \/ Part[r] \notin hasState /\ Drop
       \/ /\ Part[r] \in hasState
          /\ \/ AddWithRoom(Part[r], r)
             \/ AddDisplacing(Part[r], r)
             \/ AddOutside(Part[r], r)

-----------------------------------------------------------------------------
(* Push of a REMOVE.  The two fetches around the bound end with the first  *)
(* row after it if there is one, else with the bound row if it is not the  *)
(* one removed, else with the row before it.                               *)

RemoveRefilling(p, r) ==
    /\ \E next \in First(After(InPartition(source', p), bound[p])) :
          PushRemoveThenAdd(p, r, next)
    /\ keepTakeState
    /\ UNCHANGED hidden

RemoveShrinkingKeepsBound(p, r) ==
    /\ First(After(InPartition(source', p), bound[p])) = {}
    /\ setTakeState(p, size[p] - 1, bound[p])
    /\ PushOne(p, {r}, {})

RemoveShrinking(p, r) ==
    LET T == InPartition(source', p)
        at == {s \in T : Rank[s] = bound[p]}
        newBound == IF at # {} THEN at ELSE Last(Before(T, bound[p]))
    IN /\ First(After(T, bound[p])) = {}
       /\ IF newBound = {}
          THEN setTakeState(p, 0, Nil)
          ELSE \E b \in newBound : setTakeState(p, size[p] - 1, Rank[b])
       /\ PushOne(p, {r}, {})

RemoveOutsideDecrements(p, r) ==
    /\ bound[p] = Nil \/ Rank[r] > bound[p]
    /\ setTakeState(p, size[p] - 1, bound[p])
    /\ UNCHANGED <<hidden, pending, view, fault>>

RemoveOutside(p, r) == (bound[p] = Nil \/ Rank[r] > bound[p]) /\ Drop

PushRemove(r) ==
    /\ Idle
    /\ source' = source \ {r}
    /\ \/ Part[r] \notin hasState /\ Drop
       \/ /\ Part[r] \in hasState
          /\ \/ RemoveOutside(Part[r], r)
             \/ /\ bound[Part[r]] # Nil /\ Rank[r] <= bound[Part[r]]
                /\ RemoveRefilling(Part[r], r) \/ RemoveShrinking(Part[r], r)

-----------------------------------------------------------------------------
(* Push of an EDIT.                                                        *)

ReplaceBoundAndForward(p, old, new) ==
    setTakeState(p, size[p], Rank[new]) /\ PushOne(p, {old}, {new})

(* The bound row moves towards the start of the window.                    *)
EditBoundDown(p, old, new) ==
    /\ Rank[old] = bound[p] /\ Rank[new] < bound[p]
    /\ IF Limit = 1
       THEN ReplaceBoundAndForward(p, old, new)
       ELSE LET before == Last(Before(InPartition(source', p), bound[p]))
            IN IF before = {}
               THEN Panic
               ELSE \E b \in before : /\ setTakeState(p, size[p], Rank[b])
                                      /\ PushOne(p, {old}, {new})

(* The bound row moves away from the start: it stays in the window only if *)
(* no other row now sorts between the old bound and it.                    *)
EditBoundUp(p, old, new) ==
    /\ Rank[old] = bound[p] /\ Rank[new] > bound[p]
    /\ LET newBoundNode == First(AtOrAfter(InPartition(source', p), bound[p]))
       IN IF newBoundNode = {}
          THEN Panic
          ELSE \E b \in newBoundNode :
                 IF Rank[b] = Rank[new]
                 THEN ReplaceBoundAndForward(p, old, new)
                 ELSE /\ setTakeState(p, size[p], Rank[b])
                      /\ PushRemoveThenAdd(p, old, b)
                      /\ hidden' = b

(* A row outside the window moves into it and displaces the bound row.     *)
EditInto(p, old, new) ==
    /\ Rank[old] > bound[p] /\ Rank[new] < bound[p]
    /\ LET upTo == AtOrBefore(InPartition(source', p), bound[p])
           oldBoundNode == Last(upTo)
           newBoundNode == Last(upTo \ oldBoundNode)
       IN IF oldBoundNode = {}
          THEN Panic
          ELSE IF newBoundNode = {}
          THEN /\ setTakeState(p, size[p] + 1, bound[p])
               /\ PushOne(p, {}, {new})
          ELSE \E ob \in oldBoundNode, nb \in newBoundNode :
                 /\ setTakeState(p, size[p], Rank[nb])
                 /\ PushRemoveThenAdd(p, ob, new)
                 /\ hidden' = new

EditOutOfForwarded(p, old, new) ==
    /\ Rank[old] < bound[p] /\ Rank[new] > bound[p]
    /\ ReplaceBoundAndForward(p, old, new)

(* A row inside the window moves past the bound.                           *)
EditOutOf(p, old, new) ==
    /\ Rank[old] < bound[p] /\ Rank[new] > bound[p]
    /\ LET afterBoundNode == First(After(InPartition(source', p), bound[p]))
       IN IF afterBoundNode = {}
          THEN Panic
          ELSE \E b \in afterBoundNode :
                 IF Rank[b] = Rank[new]
                 THEN ReplaceBoundAndForward(p, old, new)
                 ELSE /\ PushRemoveThenAdd(p, old, b)
                      /\ keepTakeState
                      /\ UNCHANGED hidden

(* Both versions on the same side of the bound, or both at it.             *)
EditInPlace(p, old, new) ==
    /\ \/ Rank[old] = bound[p] /\ Rank[new] = bound[p]
       \/ Rank[old] < bound[p] /\ Rank[new] < bound[p]
    /\ keepTakeState
    /\ PushOne(p, {old}, {new})

EditOutside(p, old, new) ==
    Rank[old] > bound[p] /\ Rank[new] > bound[p] /\ Drop

(* "Bound should be set", and the two "duplicate PK" panics.               *)
EditPanics(p, old, new) ==
    /\ bound[p] = Nil \/ (Rank[old] # bound[p] /\ Rank[new] = bound[p])
    /\ Panic

Replaced(old, new) ==
    /\ new # old
    /\ Part[new] = Part[old]
    /\ Unused(new, source \ {old})
    /\ source' = (source \ {old}) \cup {new}

pushEditChange(old, new) ==
    /\ Idle
    /\ Replaced(old, new)
    /\ \/ Part[old] \notin hasState /\ Drop
       \/ /\ Part[old] \in hasState
          /\ \/ EditPanics(Part[old], old, new)
             \/ /\ bound[Part[old]] # Nil
                /\ \/ EditBoundDown(Part[old], old, new)
                   \/ EditBoundUp(Part[old], old, new)
                   \/ EditInto(Part[old], old, new)
                   \/ EditOutOf(Part[old], old, new)
                   \/ EditInPlace(Part[old], old, new)
                   \/ EditOutside(Part[old], old, new)

ChildForwardedInside(p, r) == bound[p] # Nil /\ Rank[r] < bound[p]

(* Push of a CHILD: something below the row changed, the row's rank did    *)
(* not, so the row with its relationships is another version of itself.    *)
ChildForwarded(p, r) == bound[p] # Nil /\ Rank[r] <= bound[p]

PushChild(old, new) ==
    /\ Idle
    /\ Rank[new] = Rank[old]
    /\ Replaced(old, new)
    /\ IF Part[old] \in hasState /\ ChildForwarded(Part[old], old)
       THEN keepTakeState /\ PushOne(Part[old], {old}, {new})
       ELSE Drop

-----------------------------------------------------------------------------
(* The second half of a push that emits two changes: the hidden row        *)
(* reappears, or the state is stored only now, and the ADD is pushed.      *)

FinishPush ==
    /\ pending # NoRow /\ fault = "none"
    /\ Output(Part[pending], {}, {pending})
    /\ IF hidden = NoRow
       THEN setTakeState(Part[pending], size[Part[pending]], Rank[pending])
       ELSE keepTakeState
    /\ hidden' = NoRow
    /\ pending' = NoRow
    /\ UNCHANGED source

-----------------------------------------------------------------------------
Init ==
    /\ source = {}
    /\ hasState = {}
    /\ size = [p \in Partition |-> 0]
    /\ bound = [p \in Partition |-> Nil]
    /\ maxBound = Nil
    /\ hidden = NoRow
    /\ pending = NoRow
    /\ view = [p \in Partition |-> {}]
    /\ fault = "none"

Next ==
    \/ \E p \in Partition : initialFetch(p)
    \/ \E r \in Row : PushAdd(r)
    \/ \E r \in source : PushRemove(r)
    \/ \E old \in source, new \in Row : pushEditChange(old, new)
    \/ \E old \in source, new \in Row : PushChild(old, new)
    \/ FinishPush

Spec == Init /\ [][Next]_vars

-----------------------------------------------------------------------------
(* Types of the state; the input is finite, sizes and bounds are natural   *)
(* numbers (a bound of 0 is the nil bound).                                *)
TypeOK ==
    /\ source \in SUBSET Row /\ IsFiniteSet(source)
    /\ hasState \in SUBSET Partition
    /\ size \in [Partition -> Nat]
    /\ bound \in [Partition -> Nat]
    /\ maxBound \in Nat
    /\ hidden \in Row \cup {NoRow}
    /\ pending \in Row \cup {NoRow}
    /\ view \in [Partition -> SUBSET Row]
    /\ fault \in {"none", "panic", "illegal"}

(* No sequence of pushes reaches one of Take's panics ("Bound should be    *)
(* set", "must be found during fetch", "duplicate PK"), and the output is  *)
(* never told to add a row it has or to remove or edit one it has not.     *)
NoFault == fault = "none"

(* Between pushes the output of every hydrated partition holds exactly the *)
(* first Limit rows of the input, in their current versions: what a fresh  *)
(* hydration (initialFetch) would return.                                  *)
WindowCorrect ==
    pending = NoRow =>
        \A p \in hasState : view[p] = InitialWindow(InPartition(source, p))

(* Whenever an operator downstream can call Fetch, also between the REMOVE *)
(* and the ADD of one push, it gets the rows the output has been told      *)
(* about: that is what rowHiddenFromFetch and the late setTakeState are    *)
(* for.                                                                    *)
FetchMatchesOutput == \A p \in hasState : Fetch(p) = view[p]

(* A push makes room before it adds: the output never holds more than      *)
(* Limit rows of a partition, not even between two pushed changes.         *)
NeverOverLimit == \A p \in Partition : Cardinality(view[p]) <= Limit

(* Between pushes a fetch that is not constrained on the partition key,    *)
(* which stops at maxBound, returns the windows of all partitions: none of *)
(* them reaches past maxBound.                                             *)
UnconstrainedFetchComplete ==
    pending = NoRow =>
        FetchUnconstrained = UNION {view[p] : p \in hasState}

=============================================================================
