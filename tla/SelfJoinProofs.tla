--------------------------- MODULE SelfJoinProofs ---------------------------
(***************************************************************************)
(* Proofs about SelfJoin, for every table, every correlation and every     *)
(* pair of filters: first with sequential pushes, for which everything     *)
(* holds, and then with parallel ones, for which a row under itself must   *)
(* be left out.                                                            *)
(***************************************************************************)
EXTENDS SelfJoin, TLAPS

-----------------------------------------------------------------------------
(* Sets of rows with distinct primary keys, and what the output has been   *)
(* told: the pairs P are the children T[p] of the parents p of S.          *)

Keyed(S) == \A r, s \in S : Pk[r] = Pk[s] => r = s

Tells(P, S, T) ==
    /\ \A x \in P : \E p \in S : \E c \in T[p] : x = <<Pk[p], c>>
    /\ \A p \in S : \A c \in T[p] : <<Pk[p], c>> \in P

(* PairsOf yields exactly the children of each parent.                     *)
LEMMA PairsOfTells ==
    ASSUME NEW S \in SUBSET Row, NEW T \in [S -> SUBSET Row]
    PROVE  Tells(PairsOf(S, T), S, T)
<1>1. ASSUME NEW x \in PairsOf(S, T) PROVE \E p \in S : \E c \in T[p] : x = <<Pk[p], c>>
  <2>1. x \in {Pk[p] : p \in S} \X Row /\ \E p \in S : x[1] = Pk[p] /\ x[2] \in T[p]
    BY DEF PairsOf
  <2>2. x = <<x[1], x[2]>>
    BY <2>1
  <2> QED BY <2>1, <2>2
<1>2. ASSUME NEW p \in S, NEW c \in T[p] PROVE <<Pk[p], c>> \in PairsOf(S, T)
  BY DEF PairsOf
<1> QED BY <1>1, <1>2 DEF Tells

(* Parents and their children determine the pairs.                         *)
LEMMA TellsUnique ==
    ASSUME NEW S \in SUBSET Row, NEW T \in [S -> SUBSET Row], NEW P, NEW Q,
           Tells(P, S, T), Tells(Q, S, T)
    PROVE  P = Q
BY DEF Tells

(* For a parent of a keyed set, a pair says what its children are.         *)
LEMMA TellsChild ==
    ASSUME NEW S \in SUBSET Row, Keyed(S), NEW T \in [S -> SUBSET Row], NEW P, Tells(P, S, T),
           NEW p \in S, NEW c
    PROVE  <<Pk[p], c>> \in P <=> c \in T[p]
<1>1. ASSUME <<Pk[p], c>> \in P PROVE c \in T[p]
  <2>1. PICK q \in S : \E d \in T[q] : <<Pk[p], c>> = <<Pk[q], d>>
    BY <1>1 DEF Tells
  <2>2. Pk[p] = Pk[q] /\ c \in T[q]
    BY <2>1
  <2> QED BY <2>2 DEF Keyed
<1> QED BY <1>1 DEF Tells

(* Parents go and come, with their children; the children of those that    *)
(* stay are as before.                                                     *)
LEMMA TellParents ==
    ASSUME NEW S \in SUBSET Row, Keyed(S), NEW T \in [S -> SUBSET Row], NEW P, Tells(P, S, T),
           NEW gone \in SUBSET S, NEW come \in SUBSET Row,
           NEW S2, S2 = (S \ gone) \cup come, Keyed(S2), come \cap (S \ gone) = {},
           NEW T2 \in [S2 -> SUBSET Row], \A p \in S \ gone : T2[p] = T[p],
           NEW G, NEW C, Tells(G, gone, T), Tells(C, come, T2),
           NEW P2, P2 = (P \ G) \cup C
    PROVE  G \subseteq P /\ C \cap (P \ G) = {} /\ Tells(P2, S2, T2)
<1>1. G \subseteq P
  BY DEF Tells
<1>2. ASSUME NEW x \in P \ G
      PROVE  \E p \in S \ gone : \E c \in T2[p] : x = <<Pk[p], c>>
  <2>1. PICK p \in S : \E c \in T[p] : x = <<Pk[p], c>>
    BY <1>2 DEF Tells
  <2>2. p \notin gone
    BY <1>2, <2>1 DEF Tells
  <2> QED BY <2>1, <2>2
<1>3. ASSUME NEW p \in S \ gone, NEW c \in T2[p] PROVE <<Pk[p], c>> \in P \ G
  <2>1. <<Pk[p], c>> \in P
    BY DEF Tells
  <2>2. ASSUME <<Pk[p], c>> \in G PROVE FALSE
    <3>1. PICK q \in gone : \E d \in T[q] : <<Pk[p], c>> = <<Pk[q], d>>
      BY <2>2 DEF Tells
    <3>2. Pk[p] = Pk[q]
      BY <3>1
    <3> QED BY <3>2 DEF Keyed
  <2> QED BY <2>1, <2>2
<1>4. ASSUME NEW x \in C, x \in P \ G PROVE FALSE
  <2>1. PICK p \in S \ gone : \E c \in T2[p] : x = <<Pk[p], c>>
    BY <1>2, <1>4
  <2>2. PICK q \in come : \E d \in T2[q] : x = <<Pk[q], d>>
    BY <1>4 DEF Tells
  <2>3. Pk[p] = Pk[q]
    BY <2>1, <2>2
  <2> QED BY <2>3 DEF Keyed
<1>5. ASSUME NEW x \in P2 PROVE \E p \in S2 : \E c \in T2[p] : x = <<Pk[p], c>>
  <2>1. CASE x \in P \ G
    BY <1>2, <2>1
  <2>2. CASE x \in C
    BY <2>2 DEF Tells
  <2> QED BY <2>1, <2>2
<1>6. ASSUME NEW p \in S2, NEW c \in T2[p] PROVE <<Pk[p], c>> \in P2
  <2>1. CASE p \in S \ gone
    BY <1>3, <2>1
  <2>2. CASE p \in come
    BY <2>2 DEF Tells
  <2> QED BY <2>1, <2>2
<1> QED BY <1>1, <1>4, <1>5, <1>6 DEF Tells

(* A parent is replaced by a version with the same key and children.       *)
LEMMA TellEdit ==
    ASSUME NEW S \in SUBSET Row, NEW T \in [S -> SUBSET Row], NEW P, Tells(P, S, T),
           NEW old \in S, NEW new \in Row, Pk[old] = Pk[new],
           NEW S2, S2 = (S \ {old}) \cup {new},
           NEW T2 \in [S2 -> SUBSET Row], \A p \in S \ {old} : T2[p] = T[p], T2[new] = T[old],
           Keyed(S)
    PROVE  Tells(P, S2, T2)
<1>1. ASSUME NEW x \in P PROVE \E p \in S2 : \E c \in T2[p] : x = <<Pk[p], c>>
  <2>1. PICK p \in S : \E c \in T[p] : x = <<Pk[p], c>>
    BY DEF Tells
  <2>2. CASE p = old
    BY <2>1, <2>2
  <2>3. CASE p # old
    BY <2>1, <2>3
  <2> QED BY <2>2, <2>3
<1>2. ASSUME NEW p \in S2, NEW c \in T2[p] PROVE <<Pk[p], c>> \in P
  <2>1. CASE p = new
    BY <2>1 DEF Tells
  <2>2. CASE p # new
    BY <2>2 DEF Tells
  <2> QED BY <2>1, <2>2
<1> QED BY <1>1, <1>2 DEF Tells

(* The children of the parent p of S change.                               *)
Regroups(S, T, T2, p, gone, come) ==
    /\ p \in S /\ gone \subseteq T[p] /\ come \cap (T[p] \ gone) = {}
    /\ T2[p] = (T[p] \ gone) \cup come
    /\ \A q \in S : q # p => T2[q] = T[q]

Follows(P, P2, p, gone, come) ==
    \A x : x \in P2 <=> \/ x \in P /\ ~\E c \in gone : x = <<Pk[p], c>>
                        \/ \E c \in come : x = <<Pk[p], c>>

(* The pairs after a change of the children of one parent.                 *)
LEMMA TellChildren ==
    ASSUME NEW S \in SUBSET Row, Keyed(S), NEW T \in [S -> SUBSET Row],
           NEW T2 \in [S -> SUBSET Row], NEW P, NEW P2, NEW p, NEW gone, NEW come,
           Tells(P, S, T), Regroups(S, T, T2, p, gone, come), Follows(P, P2, p, gone, come)
    PROVE  Tells(P2, S, T2)
<1>1. ASSUME NEW x \in P2 PROVE \E q \in S : \E c \in T2[q] : x = <<Pk[q], c>>
  <2>1. CASE \E c \in come : x = <<Pk[p], c>>
    BY <2>1 DEF Regroups
  <2>2. CASE x \in P /\ ~\E c \in gone : x = <<Pk[p], c>>
    <3>1. PICK q \in S : \E c \in T[q] : x = <<Pk[q], c>>
      BY <2>2 DEF Tells
    <3>2. PICK c \in T[q] : x = <<Pk[q], c>>
      BY <3>1
    <3>3. CASE q = p
      BY <2>2, <3>2, <3>3 DEF Regroups
    <3>4. CASE q # p
      BY <3>2, <3>4 DEF Regroups
    <3> QED BY <3>3, <3>4
  <2> QED BY <2>1, <2>2 DEF Follows
<1>2. ASSUME NEW q \in S, NEW c \in T2[q] PROVE <<Pk[q], c>> \in P2
  <2>1. CASE q = p /\ c \in come
    BY <2>1 DEF Follows
  <2>2. CASE q = p /\ c \notin come
    <3>1. c \in T[p] /\ c \notin gone
      BY <2>2 DEF Regroups
    <3>2. <<Pk[p], c>> \in P
      BY <3>1, <2>2 DEF Tells
    <3> QED BY <2>2, <3>1, <3>2 DEF Follows
  <2>3. CASE q # p
    <3>1. <<Pk[q], c>> \in P
      BY <2>3 DEF Tells, Regroups
    <3>2. Pk[q] # Pk[p]
      BY <2>3 DEF Keyed, Regroups
    <3> QED BY <3>1, <3>2 DEF Follows
  <2> QED BY <2>1, <2>2, <2>3
<1> QED BY <1>1, <1>2 DEF Tells

-----------------------------------------------------------------------------
(* The inductive invariant, in parts.                                      *)

(* The children of p the output has been told about: those before the      *)
(* change while pushChildChange has still to visit p, and otherwise those  *)
(* a fetch returns.                                                        *)
Told(p) ==
    IF childPc = "loop" /\ p \in targets THEN GenerateWithOverlay(p) ELSE FetchedChildren(p)

ToldOf(S) == [p \in S |-> Told(p)]

(* How far the pushes to the two connections can be.                       *)
Shape ==
    /\ parentPc # "raced"
    /\ parentPc = "idle" => childPc = "idle" /\ overlay = None /\ rest = None
    /\ parentPc = "todo" => childPc = "todo" /\ pushed = {}
    /\ parentPc = "done" => /\ "parent" \in pushed /\ childPc # "idle"
                            /\ childPc = "todo" => "child" \notin pushed
                            /\ childPc # "todo" => "child" \in pushed
    /\ ~connected => parentPc = "idle"
    /\ inprogress = IF childPc = "loop" THEN FilterPush(overlay, ChildRows) ELSE None

(* The change being pushed takes at most one row and puts at most one into *)
(* the table, under a primary key that is free; an EDIT keeps the primary  *)
(* key and the correlated columns.                                         *)
Fresh(T, ch) ==
    /\ ch.gone \subseteq T
    /\ \A r \in ch.come : \A s \in T \ ch.gone : Pk[s] # Pk[r]
    /\ \A r, s \in ch.gone : r = s
    /\ \A r, s \in ch.come : r = s

OverlayInv ==
    /\ Fresh(data, overlay)
    /\ \A old \in overlay.gone, new \in overlay.come :
         Pk[old] = Pk[new] /\ ParentKey[old] = ParentKey[new] /\ ChildKey[old] = ChildKey[new]

RestInv == rest # None => rest.gone = {} /\ overlay.come = {} /\ Fresh(data \ overlay.gone, rest)

TargetsInv ==
    childPc = "loop" =>
        targets = {p \in VisibleParents : /\ Touches(inprogress, p)
                                          /\ position # NoRow => Rank[p] > Rank[position]}

ViewInv ==
    connected =>
        /\ parents = VisibleParents
        /\ Tells(pairs, VisibleParents, ToldOf(VisibleParents))

Faultless == fault = "none"

Inv == TypeOK /\ Faultless /\ Shape /\ OverlayInv /\ RestInv /\ TargetsInv /\ ViewInv

-----------------------------------------------------------------------------
(* A keyed set stays keyed when a fresh change is written.                 *)
LEMMA WrittenKeyed ==
    ASSUME NEW T \in SUBSET Row, Keyed(T), NEW ch \in [gone: SUBSET Row, come: SUBSET Row],
           Fresh(T, ch)
    PROVE  Written(T, ch) \in SUBSET Row /\ Keyed(Written(T, ch))
BY DEF Keyed, Fresh, Written

(* What fetches return is made of rows; the parents fetched are keyed.     *)
LEMMA FetchTypes ==
    ASSUME Inv
    PROVE  /\ data \in SUBSET Row /\ Keyed(data)
           /\ Written(data, overlay) \in SUBSET Row /\ Keyed(Written(data, overlay))
           /\ VisibleParents \in SUBSET Row /\ Keyed(VisibleParents)
           /\ VisibleChildren \in SUBSET Row
           /\ ToldOf(VisibleParents) \in [VisibleParents -> SUBSET Row]
<1>1. /\ data \in SUBSET Row /\ Keyed(data) /\ overlay \in [gone: SUBSET Row, come: SUBSET Row]
      /\ inprogress \in [gone: SUBSET Row, come: SUBSET Row] /\ Fresh(data, overlay)
  BY DEF Inv, TypeOK, Keyed, OverlayInv
<1>2. Written(data, overlay) \in SUBSET Row /\ Keyed(Written(data, overlay))
  BY <1>1, WrittenKeyed
<1>3. VisibleParents \in SUBSET Row /\ Keyed(VisibleParents)
  BY <1>1, <1>2 DEF VisibleParents, Visible, Keyed
<1>4. VisibleChildren \in SUBSET Row
  BY <1>1, <1>2 DEF VisibleChildren, Visible
<1>5. ASSUME NEW p PROVE Told(p) \in SUBSET Row
  <2>1. FetchedChildren(p) \in SUBSET Row
    BY <1>4 DEF FetchedChildren
  <2>2. GenerateWithOverlay(p) \in SUBSET Row
    BY <1>1, <2>1 DEF GenerateWithOverlay
  <2> QED BY <2>1, <2>2 DEF Told
<1> QED BY <1>1, <1>2, <1>3, <1>4, <1>5 DEF ToldOf

(* The output is told nothing, and a fetch returns what it did.            *)
LEMMA ViewKept ==
    ASSUME ViewInv, VisibleParents' = VisibleParents,
           \A p \in VisibleParents : Told(p)' = Told(p), UNCHANGED <<connected, parents, pairs>>
    PROVE  ViewInv'
<1>1. ToldOf(VisibleParents)' = ToldOf(VisibleParents)
  BY DEF ToldOf
<1> QED BY <1>1 DEF ViewInv

(* Source changes are of the right shape.                                  *)
LEMMA SourceChangeType ==
    ASSUME NEW ch \in SourceChange
    PROVE  /\ ch \in [gone: SUBSET Row, come: SUBSET Row]
           /\ \A r, s \in ch.gone : r = s
           /\ \A r, s \in ch.come : r = s
           /\ ch = Change(ch.gone, ch.come)
BY DEF SourceChange, Change

(* A validated change of the replica is fresh: what an EDIT puts into the  *)
(* table has the primary key of what it takes, and of no other row.        *)
LEMMA ValidFresh ==
    ASSUME data \in SUBSET Row, Keyed(data), NEW ch \in SourceChange, Valid(ch)
    PROVE  /\ Fresh(data, ch)
           /\ \A old \in ch.gone, new \in ch.come : Pk[old] = Pk[new]
<1>1. /\ ch \in [gone: SUBSET Row, come: SUBSET Row]
      /\ \A r, s \in ch.gone : r = s
      /\ \A r, s \in ch.come : r = s
  BY SourceChangeType
<1>2. /\ ch.gone \subseteq data
      /\ \A old \in ch.gone, new \in ch.come : Pk[old] = Pk[new]
  BY DEF Valid, InStep
<1>3. ASSUME NEW r \in ch.come, NEW s \in data \ ch.gone
      PROVE  Pk[s] # Pk[r]
  <2>1. CASE ch.gone = {}
    BY <2>1 DEF Valid, Validated, has
  <2>2. CASE ch.gone # {}
    <3>1. PICK old \in ch.gone : Pk[old] = Pk[r]
      BY <1>2, <2>2
    <3>2. old \in data /\ old # s
      BY <1>2
    <3> QED BY <3>1, <3>2 DEF Keyed
  <2> QED BY <2>1, <2>2
<1> QED BY <1>1, <1>2, <1>3 DEF Fresh

(* A push starts: no connection has the change yet.                        *)
LEMMA PushInv ==
    ASSUME ~parallel, Inv, NEW ch \in SourceChange, Push(ch)
    PROVE  Inv'
<1>1. /\ ch \in [gone: SUBSET Row, come: SUBSET Row]
      /\ \A r, s \in ch.gone : r = s
      /\ \A r, s \in ch.come : r = s
  BY SourceChangeType
<1>2. /\ parentPc = "idle" /\ connected /\ Valid(ch)
      /\ UNCHANGED <<parallel, data, connected, inprogress, position, targets, parents, pairs, fault>>
  BY DEF Push, Idle, join, view
<1>3. /\ pushed' = {} /\ parentPc' = "todo" /\ childPc' = "todo"
      /\ \/ shouldSplit(ch) /\ overlay' = Change(ch.gone, {}) /\ rest' = Change({}, ch.come)
         \/ ~shouldSplit(ch) /\ overlay' = ch /\ rest' = None
  BY DEF Push, genPush
<1>4. childPc = "idle" /\ overlay = None /\ inprogress = None
  BY <1>2 DEF Inv, Shape
<1>5. data \in SUBSET Row /\ data' = data
  BY <1>2, FetchTypes
<1>6. Written(data, overlay) = data
  BY <1>4, <1>5 DEF Written, None, Change
<1>7. VisibleParents' = VisibleParents /\ VisibleChildren' = VisibleChildren
  BY <1>3, <1>5, <1>6 DEF VisibleParents, VisibleChildren, Visible
<1>8. \A p \in VisibleParents : Told(p)' = Told(p)
  BY <1>3, <1>4, <1>7 DEF Told, FetchedChildren
<1>9. ViewInv'
  BY <1>2, <1>7, <1>8, ViewKept DEF Inv
<1>10. /\ overlay' \in [gone: SUBSET Row, come: SUBSET Row]
       /\ rest' \in [gone: SUBSET Row, come: SUBSET Row]
  BY <1>1, <1>3 DEF Change, None
<1>11. TypeOK' /\ Faultless'
  BY <1>2, <1>3, <1>10 DEF Inv, TypeOK, Faultless
<1>12. Shape'
  BY <1>2, <1>3, <1>4 DEF Inv, Shape
<1>13. OverlayInv' /\ RestInv'
  <2>1. Fresh(data, ch)
    BY <1>2, FetchTypes, ValidFresh
  <2>2. CASE shouldSplit(ch) /\ overlay' = Change(ch.gone, {}) /\ rest' = Change({}, ch.come)
    <3>1. overlay'.gone = ch.gone /\ overlay'.come = {} /\ rest'.gone = {} /\ rest'.come = ch.come
      BY <2>2 DEF Change
    <3> QED BY <1>5, <2>1, <3>1 DEF OverlayInv, RestInv, Fresh
  <2>3. CASE ~shouldSplit(ch) /\ overlay' = ch /\ rest' = None
    <3>1. \A old \in ch.gone, new \in ch.come :
            Pk[old] = Pk[new] /\ ParentKey[old] = ParentKey[new] /\ ChildKey[old] = ChildKey[new]
      BY <1>2, <2>3, FetchTypes, ValidFresh DEF shouldSplit
    <3>2. OverlayInv'
      BY <1>5, <2>1, <2>3, <3>1 DEF OverlayInv, Fresh
    <3>3. RestInv'
      BY <2>3 DEF RestInv, None, Change
    <3> QED BY <3>2, <3>3
  <2> QED BY <1>3, <2>2, <2>3
<1>14. TargetsInv'
  BY <1>3 DEF TargetsInv
<1> QED BY <1>9, <1>11, <1>12, <1>13, <1>14 DEF Inv

(* Without the query a change is only written.                             *)
LEMMA PushUnobservedInv ==
    ASSUME Inv, NEW ch \in SourceChange, PushUnobserved(ch)
    PROVE  Inv'
<1>1. /\ ch \in [gone: SUBSET Row, come: SUBSET Row]
      /\ \A r, s \in ch.gone : r = s
      /\ \A r, s \in ch.come : r = s
  BY SourceChangeType
<1>2. /\ parentPc = "idle" /\ ~connected /\ Valid(ch) /\ data' = Written(data, ch)
      /\ UNCHANGED <<parallel, connected, overlay, rest, pushed, parentPc, childPc, inprogress, position,
                     targets, parents, pairs, fault>>
  BY DEF PushUnobserved, Idle, join, view
<1>3. childPc = "idle" /\ overlay = None /\ rest = None
  BY <1>2 DEF Inv, Shape
<1>4. data' \in SUBSET Row /\ Keyed(data)'
  <2>1. Fresh(data, ch)
    BY <1>2, FetchTypes, ValidFresh
  <2>2. data \in SUBSET Row /\ Keyed(data)
    BY FetchTypes
  <2>3. data' \in SUBSET Row /\ Keyed(Written(data, ch))
    BY <1>1, <1>2, <2>1, <2>2, WrittenKeyed
  <2> QED BY <1>2, <2>3 DEF Keyed
<1>5. TypeOK' /\ Faultless'
  BY <1>2, <1>4 DEF Inv, TypeOK, Faultless, Keyed
<1>6. OverlayInv' /\ RestInv' /\ TargetsInv' /\ ViewInv'
  BY <1>2, <1>3 DEF OverlayInv, RestInv, TargetsInv, ViewInv, Fresh, None, Change
<1>7. Shape'
  BY <1>2 DEF Inv, Shape
<1> QED BY <1>5, <1>6, <1>7 DEF Inv

(* The types of the view, from what it has been told.                      *)
LEMMA ToldTypes ==
    ASSUME NEW S \in SUBSET Row, NEW T \in [S -> SUBSET Row], NEW P, Tells(P, S, T)
    PROVE  P \in SUBSET ({Pk[r] : r \in Row} \X Row)
BY DEF Tells

(* Hydration tells the output what a fetch returns.                        *)
LEMMA AddQueryInv ==
    ASSUME Inv, AddQuery
    PROVE  Inv'
<1>1. /\ parentPc = "idle" /\ connected' = TRUE
      /\ parents' = VisibleParents /\ pairs' = FetchedPairs
      /\ UNCHANGED <<parallel, data, overlay, rest, pushed, parentPc, childPc, inprogress, position, targets,
                     fault>>
  BY DEF AddQuery, Idle, join
<1>2. childPc = "idle" /\ inprogress = None
  BY <1>1 DEF Inv, Shape
<1>3. /\ VisibleParents \in SUBSET Row
      /\ ToldOf(VisibleParents) \in [VisibleParents -> SUBSET Row]
  BY FetchTypes
<1>4. [p \in VisibleParents |-> ChildStream(p)] = ToldOf(VisibleParents)
  BY <1>2 DEF ToldOf, Told, ChildStream, StillToCome
<1>5. Tells(pairs', VisibleParents, ToldOf(VisibleParents))
  BY <1>1, <1>3, <1>4, PairsOfTells DEF FetchedPairs
<1>6. VisibleParents' = VisibleParents /\ ToldOf(VisibleParents)' = ToldOf(VisibleParents)
  BY <1>1 DEF VisibleParents, VisibleChildren, Visible, ToldOf, Told, FetchedChildren,
              GenerateWithOverlay
<1>7. ViewInv'
  BY <1>1, <1>5, <1>6 DEF ViewInv
<1>8. pairs' \in SUBSET ({Pk[r] : r \in Row} \X Row)
  BY <1>3, <1>5, ToldTypes
<1>9. TypeOK' /\ Faultless'
  BY <1>1, <1>3, <1>8 DEF Inv, TypeOK, Faultless
<1>10. Shape' /\ OverlayInv' /\ RestInv' /\ TargetsInv'
  BY <1>1, <1>2 DEF Inv, Shape, OverlayInv, RestInv, TargetsInv
<1> QED BY <1>7, <1>9, <1>10 DEF Inv

(* The output of a removed query is dropped.                               *)
LEMMA RemoveQueryInv ==
    ASSUME Inv, RemoveQuery
    PROVE  Inv'
<1>1. /\ parentPc = "idle" /\ connected' = FALSE /\ parents' = {} /\ pairs' = {}
      /\ UNCHANGED <<parallel, data, overlay, rest, pushed, parentPc, childPc, inprogress, position, targets,
                     fault>>
  BY DEF RemoveQuery, Idle, join
<1>2. TypeOK' /\ Faultless' /\ ViewInv'
  BY <1>1 DEF Inv, TypeOK, Faultless, ViewInv
<1>3. childPc = "idle"
  BY <1>1 DEF Inv, Shape
<1>4. Shape' /\ OverlayInv' /\ RestInv' /\ TargetsInv'
  BY <1>1, <1>3 DEF Inv, Shape, OverlayInv, RestInv, TargetsInv
<1> QED BY <1>2, <1>4 DEF Inv

(* The push is over for both connections: they see in the table what they  *)
(* saw in the overlay.                                                     *)
LEMMA writeChangeInv ==
    ASSUME ~parallel, Inv, writeChange
    PROVE  Inv'
<1>1. /\ parentPc = "done" /\ childPc = "done" /\ data' = Written(data, overlay) /\ rest' = None
      /\ UNCHANGED <<parallel, connected, inprogress, position, targets, parents, pairs, fault>>
  BY DEF writeChange, join, view
<1>2. "parent" \in pushed /\ "child" \in pushed /\ inprogress = None /\ connected
  BY <1>1 DEF Inv, Shape
<1>3. /\ data' \in SUBSET Row /\ Keyed(data')
      /\ overlay \in [gone: SUBSET Row, come: SUBSET Row]
      /\ rest \in [gone: SUBSET Row, come: SUBSET Row]
  BY <1>1, FetchTypes DEF Inv, TypeOK
<1>4. /\ overlay' = rest /\ pushed' \in SUBSET {"parent", "child"}
      /\ \/ rest = None /\ parentPc' = "idle" /\ childPc' = "idle"
         \/ rest # None /\ pushed' = {} /\ parentPc' = "todo" /\ childPc' = "todo"
  <2>1. pushed \in SUBSET {"parent", "child"}
    BY DEF Inv, TypeOK
  <2>2. CASE rest = None
    BY <2>1, <2>2 DEF writeChange
  <2>3. CASE rest # None
    BY <2>3 DEF writeChange, genPush
  <2> QED BY <2>2, <2>3
<1>5. rest = None \/ pushed' = {}
  BY <1>4
<1>6. VisibleParents' = VisibleParents /\ VisibleChildren' = VisibleChildren
  <2>1. CASE rest = None
    <3>1. Written(data', overlay') = data'
      BY <1>3, <1>4, <2>1 DEF Written, None, Change
    <3> QED BY <1>1, <1>2, <3>1 DEF VisibleParents, VisibleChildren, Visible
  <2>2. CASE pushed' = {}
    BY <1>1, <1>2, <2>2 DEF VisibleParents, VisibleChildren, Visible
  <2> QED BY <1>5, <2>1, <2>2
<1>7. childPc' # "loop"
  BY <1>4
<1>8. \A p \in VisibleParents : Told(p)' = Told(p)
  BY <1>1, <1>6, <1>7 DEF Told, FetchedChildren
<1>9. ViewInv'
  BY <1>1, <1>6, <1>8, ViewKept DEF Inv
<1>10. TypeOK' /\ Faultless'
  <2>1. rest' \in [gone: SUBSET Row, come: SUBSET Row]
    BY <1>1 DEF None, Change
  <2>2. \A r, s \in data' : Pk[r] = Pk[s] => r = s
    BY <1>3 DEF Keyed
  <2>3. parentPc' \in {"idle", "todo"} /\ childPc' \in {"idle", "todo"}
    BY <1>4
  <2> QED BY <1>1, <1>3, <1>4, <2>1, <2>2, <2>3 DEF Inv, TypeOK, Faultless
<1>11. Shape'
  BY <1>1, <1>2, <1>4 DEF Shape
<1>12. OverlayInv' /\ RestInv' /\ TargetsInv'
  <2>1. RestInv' /\ TargetsInv'
    BY <1>1, <1>7 DEF RestInv, TargetsInv
  <2>2. CASE rest = None
    BY <1>4, <2>1, <2>2 DEF OverlayInv, Fresh, None, Change
  <2>3. CASE rest # None
    <3>1. rest.gone = {} /\ overlay.come = {} /\ Fresh(data \ overlay.gone, rest)
      BY <2>3 DEF Inv, RestInv
    <3>2. data' = data \ overlay.gone
      BY <1>1, <3>1 DEF Written
    <3> QED BY <1>4, <2>1, <3>1, <3>2 DEF OverlayInv
  <2> QED BY <2>2, <2>3
<1> QED BY <1>9, <1>10, <1>11, <1>12 DEF Inv

-----------------------------------------------------------------------------
(* How a change moves the rows behind a filter.                            *)
LEMMA FilteredWrite ==
    ASSUME NEW T, NEW ch, Fresh(T, ch), NEW filter, NEW F, F = FilterPush(ch, filter)
    PROVE  /\ F.gone = ch.gone \cap filter /\ F.come = ch.come \cap filter
           /\ Written(T, ch) \cap filter = ((T \cap filter) \ F.gone) \cup F.come
           /\ F.gone \subseteq T \cap filter
           /\ F.come \cap ((T \cap filter) \ F.gone) = {}
<1>1. F.gone = ch.gone \cap filter /\ F.come = ch.come \cap filter
  BY DEF FilterPush, Change
<1>2. ch.come \cap (T \ ch.gone) = {} /\ ch.gone \subseteq T
  BY DEF Fresh
<1>3. Written(T, ch) \cap filter = ((T \cap filter) \ F.gone) \cup F.come
  BY <1>1 DEF Written
<1> QED BY <1>1, <1>2, <1>3

(* The parent connection gets the change.                                  *)
LEMMA PushParentInv ==
    ASSUME ~parallel, Inv, PushParent
    PROVE  Inv'
<1> DEFINE ch == FilterPush(overlay, ParentRows)
<1>1. /\ parentPc = "todo" /\ pushed' = pushed \cup {"parent"} /\ parentPc' = "done"
      /\ UNCHANGED <<parallel, data, connected, overlay, rest, childPc, inprogress, position, targets>>
  BY DEF PushParent, join
<1>2. childPc = "todo" /\ pushed = {} /\ connected /\ inprogress = None
  BY <1>1 DEF Inv, Shape
<1>3. /\ data \in SUBSET Row /\ Keyed(Written(data, overlay)) /\ Fresh(data, overlay)
      /\ VisibleParents \in SUBSET Row /\ Keyed(VisibleParents)
      /\ ToldOf(VisibleParents) \in [VisibleParents -> SUBSET Row]
      /\ parents = VisibleParents /\ Tells(pairs, VisibleParents, ToldOf(VisibleParents))
      /\ overlay \in [gone: SUBSET Row, come: SUBSET Row]
  BY <1>2, FetchTypes DEF Inv, OverlayInv, ViewInv, TypeOK
<1>4. PICK S \in SUBSET Row : S = VisibleParents
  BY <1>3
<1>5. PICK gone, come, S2 : gone = ch.gone /\ come = ch.come /\ S2 = VisibleParents'
  OBVIOUS
<1>6. /\ VisibleParents = data \cap ParentRows
      /\ VisibleParents' = Written(data, overlay) \cap ParentRows
  BY <1>1, <1>2 DEF VisibleParents, Visible
<1>7. /\ gone = overlay.gone \cap ParentRows /\ come = overlay.come \cap ParentRows
      /\ S2 = (S \ gone) \cup come /\ gone \in SUBSET S /\ come \in SUBSET Row
      /\ come \cap (S \ gone) = {}
  BY <1>3, <1>4, <1>5, <1>6, FilteredWrite
<1>8. S2 \in SUBSET Row /\ Keyed(S2)
  BY <1>3, <1>4, <1>5, <1>6, <1>7 DEF Keyed
<1>9. VisibleChildren' = VisibleChildren /\ VisibleChildren \in SUBSET Row
  <2>1. VisibleChildren \in SUBSET Row
    BY FetchTypes
  <2> QED BY <1>1, <1>2, <2>1 DEF VisibleChildren, Visible
<1>10. \A p : Told(p) = FetchedChildren(p) /\ Told(p)' = FetchedChildren(p)
  BY <1>1, <1>2, <1>9 DEF Told, FetchedChildren
<1>11. PICK T : T = ToldOf(VisibleParents)
  OBVIOUS
<1>12. PICK T2 : T2 = ToldOf(VisibleParents)'
  OBVIOUS
<1>13. /\ T \in [S -> SUBSET Row] /\ \A p \in S : T[p] = FetchedChildren(p)
       /\ Tells(pairs, S, T) /\ Keyed(S) /\ parents = S
  BY <1>3, <1>4, <1>10, <1>11 DEF ToldOf
<1>14. T2 \in [S2 -> SUBSET Row] /\ \A p \in S2 : T2[p] = FetchedChildren(p)
  <2>1. T2 = [p \in S2 |-> FetchedChildren(p)]
    BY <1>5, <1>10, <1>12 DEF ToldOf
  <2>2. \A p : FetchedChildren(p) \in SUBSET Row
    BY <1>9 DEF FetchedChildren
  <2> QED BY <2>1, <2>2
<1>15. ~EditPanics(ch, ParentKey)
  BY <1>5, <1>7 DEF EditPanics, Inv, OverlayInv
<1>16. pushParent(FALSE)
  BY <1>15 DEF PushParent
<1>17. /\ Tells(pairs', S2, T2) /\ parents' = S2 /\ fault' = fault
  <2>1. CASE IsEdit(ch)
    <3>1. /\ parents' = (parents \ gone) \cup come /\ pairs' = (pairs \ {}) \cup {}
          /\ fault' = IF /\ gone \subseteq parents /\ {} \subseteq pairs
                         /\ come \cap (parents \ gone) = {}
                         /\ {} \cap (pairs \ {}) = {}
                      THEN fault ELSE "illegal"
      BY <1>5, <1>16, <2>1 DEF pushParent, OutputNode
    <3>2. pairs' = pairs /\ parents' = S2 /\ fault' = fault
      BY <1>7, <1>13, <3>1
    <3>3. PICK old \in gone, new \in come : TRUE
      BY <1>5, <2>1 DEF IsEdit
    <3>4. gone = {old} /\ come = {new} /\ Pk[old] = Pk[new] /\ ParentKey[old] = ParentKey[new]
      BY <1>7 DEF Inv, OverlayInv, Fresh
    <3>5. FetchedChildren(old) = FetchedChildren(new)
      BY <3>4 DEF FetchedChildren, IsJoinMatch
    <3>6. S2 = (S \ {old}) \cup {new} /\ old \in S /\ new \in Row
          /\ T2[new] = T[old] /\ \A p \in S \ {old} : T2[p] = T[p]
      BY <1>7, <1>13, <1>14, <3>4, <3>5
    <3>7. Tells(pairs, S2, T2)
      BY <1>13, <1>14, <3>4, <3>6, TellEdit
    <3> QED BY <3>2, <3>7
  <2>2. CASE ~IsEdit(ch)
    <3>1. PICK G : G = PairsOf(gone, [p \in gone |-> FetchedChildren(p)])
      OBVIOUS
    <3>2. PICK C : C = PairsOf(come, [p \in come |-> FetchedChildren(p)])
      OBVIOUS
    <3>3. /\ parents' = (parents \ gone) \cup come /\ pairs' = (pairs \ G) \cup C
          /\ fault' = IF /\ gone \subseteq parents /\ G \subseteq pairs
                         /\ come \cap (parents \ gone) = {}
                         /\ C \cap (pairs \ G) = {}
                      THEN fault ELSE "illegal"
      BY <1>5, <1>16, <2>2, <3>1, <3>2 DEF pushParent, OutputNode
    <3>4. Tells(G, gone, T) /\ Tells(C, come, T2)
      <4>1. \A p : FetchedChildren(p) \in SUBSET Row
        BY <1>9 DEF FetchedChildren
      <4>2. /\ Tells(G, gone, [p \in gone |-> FetchedChildren(p)])
            /\ Tells(C, come, [p \in come |-> FetchedChildren(p)])
        BY <1>7, <3>1, <3>2, <4>1, PairsOfTells
      <4>3. \A p \in gone : T[p] = [q \in gone |-> FetchedChildren(q)][p]
        BY <1>7, <1>13
      <4>4. \A p \in come : T2[p] = [q \in come |-> FetchedChildren(q)][p]
        BY <1>7, <1>14
      <4> QED BY <4>2, <4>3, <4>4 DEF Tells
    <3>5. \A p \in S \ gone : T2[p] = T[p]
      BY <1>7, <1>13, <1>14
    <3>6. PICK P2 : P2 = (pairs \ G) \cup C
      OBVIOUS
    <3>7. G \subseteq pairs /\ C \cap (pairs \ G) = {} /\ Tells(P2, S2, T2)
      <4>1. /\ S2 = (S \ gone) \cup come /\ gone \in SUBSET S /\ come \in SUBSET Row
            /\ come \cap (S \ gone) = {}
        BY <1>7
      <4>2. Keyed(S) /\ T \in [S -> SUBSET Row] /\ Tells(pairs, S, T) /\ T2 \in [S2 -> SUBSET Row]
        BY <1>13, <1>14
      <4> QED BY <1>8, <3>4, <3>5, <3>6, <4>1, <4>2, TellParents, SMTT(30)
    <3> QED BY <1>7, <1>13, <3>3, <3>6, <3>7
  <2> QED BY <2>1, <2>2
<1>18. ViewInv'
  BY <1>5, <1>12, <1>17 DEF ViewInv
<1>19. TypeOK' /\ Faultless'
  <2>1. pairs' \in SUBSET ({Pk[r] : r \in Row} \X Row) /\ parents' \in SUBSET Row
    BY <1>8, <1>14, <1>17, ToldTypes
  <2> QED BY <1>1, <1>17, <2>1 DEF Inv, TypeOK, Faultless
<1>20. Shape'
  BY <1>1, <1>2 DEF Inv, Shape
<1>21. OverlayInv' /\ RestInv' /\ TargetsInv'
  BY <1>1, <1>2 DEF Inv, OverlayInv, RestInv, TargetsInv
<1> QED BY <1>18, <1>19, <1>20, <1>21 DEF Inv

-----------------------------------------------------------------------------
(* The children of p among the rows D.                                     *)
Match(p, D) == {c \in D : IsJoinMatch(p, c)}

(* How the children of a parent change with the rows that pass the filter  *)
(* of the child connection; GenerateWithOverlay undoes the change.         *)
LEMMA TouchedChildren ==
    ASSUME NEW D, NEW ch, NEW N, N = (D \ ch.gone) \cup ch.come,
           ch.gone \subseteq D, ch.come \cap (D \ ch.gone) = {}, NEW p,
           \A c \in ch.gone \cup ch.come : IsJoinMatch(p, c)
    PROVE  /\ (Match(p, N) \ ch.come) \cup ch.gone = Match(p, D)
           /\ (Match(p, D) \ ch.gone) \cup ch.come = Match(p, N)
           /\ ch.come \cap (Match(p, D) \ ch.gone) = {}
           /\ ch.gone \subseteq Match(p, D) /\ ch.come \subseteq Match(p, N)
BY DEF Match

(* The change does not concern the children of p.                          *)
LEMMA UntouchedChildren ==
    ASSUME NEW D, NEW ch, NEW N, N = (D \ ch.gone) \cup ch.come, ch.gone \subseteq D,
           NEW p, ~Touches(ch, p)
    PROVE  Match(p, N) = Match(p, D)
BY DEF Match, Touches

(* The rows the child connection saw before the change and sees after it,  *)
(* and what the Join's overlay makes of them.                              *)
LEMMA ChildFacts ==
    ASSUME Inv, NEW ch, ch = FilterPush(overlay, ChildRows),
           NEW D, D = data \cap ChildRows, NEW N, N = Written(data, overlay) \cap ChildRows
    PROVE  /\ N = (D \ ch.gone) \cup ch.come
           /\ ch.gone \subseteq D /\ ch.come \cap (D \ ch.gone) = {}
           /\ ch.gone \in SUBSET Row /\ ch.come \in SUBSET Row
           /\ \A q : Touches(ch, q) => \A c \in ch.gone \cup ch.come : IsJoinMatch(q, c)
<1>1. Fresh(data, overlay) /\ overlay \in [gone: SUBSET Row, come: SUBSET Row]
  BY DEF Inv, OverlayInv, TypeOK
<1>2. /\ ch.gone = overlay.gone \cap ChildRows /\ ch.come = overlay.come \cap ChildRows
      /\ N = (D \ ch.gone) \cup ch.come
      /\ ch.gone \subseteq D /\ ch.come \cap (D \ ch.gone) = {}
  BY <1>1, FilteredWrite
<1>3. \A c, d \in ch.gone \cup ch.come : ChildKey[c] = ChildKey[d]
  BY <1>1, <1>2 DEF Inv, OverlayInv, Fresh
<1>4. \A q : Touches(ch, q) => \A c \in ch.gone \cup ch.come : IsJoinMatch(q, c)
  BY <1>3 DEF Touches, IsJoinMatch
<1> QED BY <1>1, <1>2, <1>4

(* The child connection gets the change: the Join has its parents, and the *)
(* children of each are still shown as they were.                          *)
LEMMA PushChildInv ==
    ASSUME ~parallel, Inv, PushChild
    PROVE  Inv'
<1>1. /\ childPc = "todo" /\ parentPc = "done" /\ pushed' = pushed \cup {"child"}
      /\ UNCHANGED <<parallel, data, connected, overlay, rest, parentPc>>
  BY DEF PushChild
<1>2. "parent" \in pushed /\ "child" \notin pushed /\ inprogress = None /\ connected
  BY <1>1 DEF Inv, Shape
<1>3. PICK ch : ch = FilterPush(overlay, ChildRows)
  OBVIOUS
<1>4. PICK D, N : D = data \cap ChildRows /\ N = Written(data, overlay) \cap ChildRows
  OBVIOUS
<1>5. /\ N = (D \ ch.gone) \cup ch.come
      /\ ch.gone \subseteq D /\ ch.come \cap (D \ ch.gone) = {}
      /\ ch.gone \in SUBSET Row /\ ch.come \in SUBSET Row
      /\ \A q : Touches(ch, q) => \A c \in ch.gone \cup ch.come : IsJoinMatch(q, c)
  BY <1>3, <1>4, ChildFacts
<1>6. ch = [gone |-> ch.gone, come |-> ch.come]
  BY <1>3 DEF FilterPush, Change
<1>7. ~EditPanics(ch, ChildKey)
  BY <1>3 DEF EditPanics, FilterPush, Change, Inv, OverlayInv
<1>8. /\ VisibleParents' = VisibleParents /\ VisibleParents \in SUBSET Row
      /\ VisibleChildren = D /\ VisibleChildren' = N
  <2>1. VisibleParents \in SUBSET Row
    BY FetchTypes
  <2> QED BY <1>1, <1>2, <1>4, <2>1 DEF VisibleParents, VisibleChildren, Visible
<1>9. \A p : FetchedChildren(p) = Match(p, D) /\ FetchedChildren(p)' = Match(p, N)
             /\ Told(p) = Match(p, D)
  BY <1>1, <1>8 DEF FetchedChildren, Match, Told
<1>10. OverlayInv' /\ RestInv'
  BY <1>1 DEF Inv, OverlayInv, RestInv
<1>11. CASE ch = None
  <2>1. childPc' = "done" /\ UNCHANGED <<inprogress, position, targets, parents, pairs, fault>>
    BY <1>3, <1>11 DEF PushChild, join, view
  <2>2. N = D
    BY <1>5, <1>11 DEF None, Change
  <2>3. \A p \in VisibleParents : Told(p)' = Told(p)
    BY <1>9, <2>1, <2>2 DEF Told
  <2>4. ViewInv'
    BY <1>1, <1>8, <2>1, <2>3, ViewKept DEF Inv
  <2>5. TypeOK' /\ Faultless' /\ TargetsInv'
    BY <1>1, <2>1 DEF Inv, TypeOK, Faultless, TargetsInv
  <2>6. Shape'
    BY <1>1, <1>2, <2>1 DEF Inv, Shape
  <2> QED BY <1>10, <2>4, <2>5, <2>6 DEF Inv
<1>12. CASE ch # None
  <2>1. /\ childPc' = "loop" /\ inprogress' = ch /\ position' = NoRow
        /\ targets' = {p \in VisibleParents : Touches(ch, p)}
        /\ UNCHANGED <<parents, pairs, fault>>
    BY <1>3, <1>7, <1>12 DEF PushChild, view
  <2>2. ASSUME NEW p \in VisibleParents PROVE Told(p)' = Told(p)
    <3>1. CASE Touches(ch, p)
      <4>1. Told(p)' = (Match(p, N) \ ch.come) \cup ch.gone
        BY <1>9, <2>1, <3>1 DEF Told, GenerateWithOverlay
      <4>2. (Match(p, N) \ ch.come) \cup ch.gone = Match(p, D)
        BY <1>5, <3>1, TouchedChildren
      <4> QED BY <1>9, <4>1, <4>2
    <3>2. CASE ~Touches(ch, p)
      <4>1. Told(p)' = Match(p, N)
        BY <1>9, <2>1, <3>2 DEF Told
      <4>2. Match(p, N) = Match(p, D)
        BY <1>5, <3>2, UntouchedChildren
      <4> QED BY <1>9, <4>1, <4>2
    <3> QED BY <3>1, <3>2
  <2>3. ViewInv'
    BY <1>1, <1>8, <2>1, <2>2, ViewKept DEF Inv
  <2>4. TypeOK' /\ Faultless'
    <3>1. targets' \in SUBSET Row
      BY <1>8, <2>1
    <3>2. inprogress' \in [gone: SUBSET Row, come: SUBSET Row]
      BY <1>5, <1>6, <2>1
    <3> QED BY <1>1, <2>1, <3>1, <3>2 DEF Inv, TypeOK, Faultless
  <2>5. TargetsInv'
    BY <1>8, <2>1 DEF TargetsInv, Touches
  <2>6. Shape'
    BY <1>1, <1>2, <1>3, <2>1 DEF Inv, Shape
  <2> QED BY <1>10, <2>3, <2>4, <2>5, <2>6 DEF Inv
<1> QED BY <1>11, <1>12

(* One parent is told of the change among its children.                    *)
LEMMA PushChildNextInv ==
    ASSUME Inv, PushChildNext
    PROVE  Inv'
<1>1. PICK p \in targets :
        /\ \A q \in targets : Rank[p] <= Rank[q]
        /\ position' = p /\ targets' = targets \ {p}
        /\ OutputNode({}, {}, {Pk[p]} \X inprogress.gone, {Pk[p]} \X inprogress.come)
  BY DEF PushChildNext
<1>2. /\ childPc = "loop"
      /\ UNCHANGED <<parallel, data, connected, overlay, rest, pushed, parentPc, childPc, inprogress>>
  BY DEF PushChildNext
<1>3. /\ "child" \in pushed /\ connected /\ inprogress = FilterPush(overlay, ChildRows)
  BY <1>2 DEF Inv, Shape, TypeOK
<1>4. PICK ch : ch = inprogress
  OBVIOUS
<1>5. PICK D, N : D = data \cap ChildRows /\ N = Written(data, overlay) \cap ChildRows
  OBVIOUS
<1>6. /\ N = (D \ ch.gone) \cup ch.come
      /\ ch.gone \subseteq D /\ ch.come \cap (D \ ch.gone) = {}
      /\ ch.gone \in SUBSET Row /\ ch.come \in SUBSET Row
      /\ \A q : Touches(ch, q) => \A c \in ch.gone \cup ch.come : IsJoinMatch(q, c)
  <2>1. ch = FilterPush(overlay, ChildRows)
    BY <1>3, <1>4
  <2> QED BY <1>5, <2>1, ChildFacts
<1>7. PICK S, T : S = VisibleParents /\ T = ToldOf(VisibleParents)
  OBVIOUS
<1>8. /\ S \in SUBSET Row /\ Keyed(S) /\ T \in [S -> SUBSET Row]
      /\ parents = S /\ Tells(pairs, S, T)
  BY <1>3, <1>7, FetchTypes DEF Inv, ViewInv
<1>9. targets = {q \in S : Touches(ch, q) /\ (position # NoRow => Rank[q] > Rank[position])}
  BY <1>2, <1>4, <1>7 DEF Inv, TargetsInv
<1>10. p \in S /\ Touches(ch, p)
  BY <1>9
<1>11. VisibleChildren = N /\ VisibleChildren' = N /\ VisibleParents' = S
  BY <1>2, <1>3, <1>5, <1>7 DEF VisibleParents, VisibleChildren, Visible
<1>12. \A q : FetchedChildren(q) = Match(q, N) /\ FetchedChildren(q)' = Match(q, N)
  BY <1>11 DEF FetchedChildren, Match
<1>13. /\ (Match(p, N) \ ch.come) \cup ch.gone = Match(p, D)
       /\ (Match(p, D) \ ch.gone) \cup ch.come = Match(p, N)
       /\ ch.come \cap (Match(p, D) \ ch.gone) = {}
       /\ ch.gone \subseteq Match(p, D) /\ ch.come \subseteq Match(p, N)
  BY <1>6, <1>10, TouchedChildren
<1>14. T[p] = Match(p, D)
  BY <1>2, <1>4, <1>7, <1>10, <1>12, <1>13 DEF ToldOf, Told, GenerateWithOverlay
<1>15. PICK T2 : T2 = ToldOf(VisibleParents)'
  OBVIOUS
<1>16. /\ T2 \in [S -> SUBSET Row] /\ T2[p] = Match(p, N) /\ \A q \in S \ {p} : T2[q] = T[q]
  <2>1. T2 = [q \in S |-> Told(q)']
    BY <1>11, <1>15 DEF ToldOf
  <2>2. Told(p)' = Match(p, N)
    BY <1>1, <1>12 DEF Told
  <2>3. \A q \in S \ {p} : Told(q)' = Told(q)
    BY <1>1, <1>2, <1>12 DEF Told, GenerateWithOverlay
  <2>4. \A q \in S : T[q] = Told(q)
    BY <1>7 DEF ToldOf
  <2>5. Match(p, N) \in SUBSET Row
    BY <1>11, FetchTypes DEF Match
  <2>6. ASSUME NEW q \in S PROVE Told(q)' \in SUBSET Row
    <3>1. CASE q = p
      BY <2>2, <2>5, <3>1
    <3>2. CASE q # p
      BY <1>8, <2>3, <2>4, <3>2
    <3> QED BY <3>1, <3>2
  <2> QED BY <1>10, <2>1, <2>2, <2>3, <2>4, <2>6
<1>17. PICK gone, come : gone = ch.gone /\ come = ch.come
  OBVIOUS
<1>18. PICK G, C : G = {Pk[p]} \X gone /\ C = {Pk[p]} \X come
  OBVIOUS
<1>19. PICK P, P2 : P = pairs /\ P2 = (P \ G) \cup C
  OBVIOUS
<1>20. G \subseteq P /\ C \cap (P \ G) = {} /\ Tells(P2, S, T2)
  <2>1. /\ gone \subseteq T[p] /\ come \cap (T[p] \ gone) = {}
        /\ T2[p] = (T[p] \ gone) \cup come
    BY <1>13, <1>14, <1>16, <1>17
  <2>2. Regroups(S, T, T2, p, gone, come)
    BY <1>10, <1>16, <2>1 DEF Regroups
  <2>3. Follows(P, P2, p, gone, come)
    BY <1>18, <1>19 DEF Follows
  <2>4. /\ S \in SUBSET Row /\ Keyed(S) /\ T \in [S -> SUBSET Row] /\ Tells(P, S, T)
        /\ T2 \in [S -> SUBSET Row]
    BY <1>8, <1>16, <1>19
  <2>5. Tells(P2, S, T2)
    BY <2>2, <2>3, <2>4, TellChildren
  <2>6. G \subseteq P
    BY <1>10, <1>18, <2>1, <2>4 DEF Tells
  <2>7. ASSUME NEW c \in come, <<Pk[p], c>> \in P, c \notin gone PROVE FALSE
    <3>1. c \in T[p]
      BY <1>10, <2>4, <2>7, TellsChild
    <3> QED BY <2>1, <2>7, <3>1
  <2>8. C \cap (P \ G) = {}
    BY <1>18, <2>7
  <2> QED BY <2>5, <2>6, <2>8
<1>21. parents' = parents /\ pairs' = P2 /\ fault' = fault
  <2>1. /\ parents' = (parents \ {}) \cup {}
        /\ pairs' = (pairs \ G) \cup C
        /\ fault' = IF /\ {} \subseteq parents /\ G \subseteq pairs
                       /\ {} \cap (parents \ {}) = {} /\ C \cap (pairs \ G) = {}
                    THEN fault ELSE "illegal"
    BY <1>1, <1>4, <1>17, <1>18 DEF OutputNode
  <2> QED BY <1>19, <1>20, <2>1
<1>22. ViewInv'
  BY <1>8, <1>11, <1>15, <1>20, <1>21 DEF ViewInv
<1>23. TypeOK' /\ Faultless'
  <2>1. pairs' \in SUBSET ({Pk[r] : r \in Row} \X Row)
    BY <1>8, <1>16, <1>20, <1>21, ToldTypes
  <2>2. position' \in Row \cup {NoRow} /\ targets' \in SUBSET Row
    BY <1>1, <1>8, <1>9
  <2> QED BY <1>2, <1>21, <2>1, <2>2 DEF Inv, TypeOK, Faultless
<1>24. TargetsInv'
  <2>1. \A q \in S : Rank[q] \in Nat
    BY <1>8, SelfJoinAssumption
  <2>2. p # NoRow /\ (position # NoRow => Rank[position] \in Nat)
    BY <1>8, <1>10, SelfJoinAssumption DEF Inv, TypeOK
  <2>3. ASSUME NEW q \in targets, q # p PROVE Rank[q] > Rank[p]
    <3>1. q \in S /\ Rank[p] <= Rank[q]
      BY <1>1, <1>9
    <3>2. Rank[p] # Rank[q]
      BY <1>8, <1>10, <2>3, <3>1, SelfJoinAssumption DEF Keyed
    <3> QED BY <1>10, <2>1, <3>1, <3>2
  <2>4. ASSUME NEW q \in S, Touches(ch, q), Rank[q] > Rank[p] PROVE q \in targets /\ q # p
    <3>1. q # p
      BY <1>10, <2>1, <2>4
    <3>2. position # NoRow => Rank[p] > Rank[position]
      BY <1>9
    <3>3. position # NoRow => Rank[q] > Rank[position]
      BY <1>10, <2>1, <2>2, <2>4, <3>2
    <3> QED BY <1>9, <2>4, <3>1, <3>3
  <2>5. targets' = {q \in S : Touches(ch, q) /\ Rank[q] > Rank[p]}
    BY <1>1, <1>9, <2>3, <2>4
  <2> QED BY <1>1, <1>2, <1>4, <1>11, <2>2, <2>5 DEF TargetsInv, Touches
<1>25. Shape' /\ OverlayInv' /\ RestInv'
  BY <1>2 DEF Inv, Shape, OverlayInv, RestInv
<1> QED BY <1>22, <1>23, <1>24, <1>25 DEF Inv

(* Every parent has been told.                                             *)
LEMMA PushChildEndInv ==
    ASSUME Inv, PushChildEnd
    PROVE  Inv'
<1>1. /\ childPc = "loop" /\ targets = {} /\ childPc' = "done" /\ inprogress' = None
      /\ UNCHANGED <<parallel, data, connected, overlay, rest, pushed, parentPc, position, targets, parents,
                     pairs, fault>>
  BY DEF PushChildEnd, view
<1>2. VisibleParents' = VisibleParents /\ VisibleChildren' = VisibleChildren
  BY <1>1 DEF VisibleParents, VisibleChildren, Visible
<1>3. \A p \in VisibleParents : Told(p)' = Told(p)
  BY <1>1, <1>2 DEF Told, FetchedChildren
<1>4. ViewInv'
  BY <1>1, <1>2, <1>3, ViewKept DEF Inv
<1>5. inprogress' \in [gone: SUBSET Row, come: SUBSET Row]
  BY <1>1 DEF None, Change
<1>6. TypeOK' /\ Faultless' /\ TargetsInv' /\ OverlayInv' /\ RestInv'
  BY <1>1, <1>5 DEF Inv, TypeOK, Faultless, TargetsInv, OverlayInv, RestInv
<1>7. Shape'
  BY <1>1 DEF Inv, Shape
<1> QED BY <1>4, <1>6, <1>7 DEF Inv

-----------------------------------------------------------------------------
(* An empty table without a query satisfies the invariant.                 *)
LEMMA InitInv ==
    ASSUME Init
    PROVE  Inv
<1>1. /\ parallel \in BOOLEAN
      /\ data = {} /\ connected = FALSE /\ overlay = None /\ rest = None /\ pushed = {}
      /\ parentPc = "idle" /\ childPc = "idle" /\ inprogress = None /\ position = NoRow
      /\ targets = {} /\ parents = {} /\ pairs = {} /\ fault = "none"
  BY DEF Init
<1>2. None = [gone |-> {}, come |-> {}] /\ None \in [gone: SUBSET Row, come: SUBSET Row]
  BY DEF None, Change
<1>3. TypeOK /\ Faultless
  BY <1>1, <1>2 DEF TypeOK, Faultless
<1>4. Shape /\ RestInv /\ TargetsInv /\ ViewInv
  BY <1>1 DEF Shape, RestInv, TargetsInv, ViewInv
<1>5. OverlayInv
  BY <1>1, <1>2 DEF OverlayInv, Fresh
<1> QED BY <1>3, <1>4, <1>5 DEF Inv

(* Every step of a table that pushes sequentially keeps the invariant.     *)
LEMMA NextInv ==
    ASSUME ~parallel, Inv, [Next]_vars
    PROVE  Inv'
<1>1. ASSUME NEW ch \in SourceChange, Push(ch) PROVE Inv'
  BY <1>1, PushInv
<1>2. ASSUME NEW ch \in SourceChange, PushUnobserved(ch) PROVE Inv'
  BY <1>2, PushUnobservedInv
<1>3. CASE PushParent
  BY <1>3, PushParentInv
<1>4. CASE PushParentRaces
  BY <1>4 DEF PushParentRaces
<1>5. CASE PushParentRaced
  BY <1>5 DEF PushParentRaced, Inv, Shape
<1>6. CASE PushChild
  BY <1>6, PushChildInv
<1>7. CASE PushChildNext
  BY <1>7, PushChildNextInv
<1>8. CASE PushChildEnd
  BY <1>8, PushChildEndInv
<1>9. CASE writeChange
  BY <1>9, writeChangeInv
<1>10. CASE AddQuery
  BY <1>10, AddQueryInv
<1>11. CASE RemoveQuery
  BY <1>11, RemoveQueryInv
<1>12. CASE UNCHANGED vars
  <2>1. UNCHANGED <<parallel, data, connected, overlay, rest, pushed, parentPc, childPc, inprogress,
                    position, targets, parents, pairs, fault>>
    BY <1>12 DEF vars, join, view
  <2>2. VisibleParents' = VisibleParents /\ VisibleChildren' = VisibleChildren
    BY <2>1 DEF VisibleParents, VisibleChildren, Visible
  <2>3. \A p \in VisibleParents : Told(p)' = Told(p)
    BY <2>1, <2>2 DEF Told, FetchedChildren, GenerateWithOverlay
  <2>4. ViewInv'
    BY <2>1, <2>2, <2>3, ViewKept DEF Inv
  <2>5. TypeOK' /\ Faultless' /\ Shape' /\ OverlayInv' /\ RestInv'
    BY <2>1 DEF Inv, TypeOK, Faultless, Shape, OverlayInv, RestInv
  <2>6. TargetsInv'
    BY <2>1, <2>2 DEF Inv, TargetsInv
  <2> QED BY <2>4, <2>5, <2>6 DEF Inv
<1> QED BY <1>1, <1>2, <1>3, <1>4, <1>5, <1>6, <1>7, <1>8, <1>9, <1>10, <1>11, <1>12 DEF Next

(* No step turns sequential pushes into parallel ones or back.             *)
LEMMA ParallelKept ==
    ASSUME [Next]_vars
    PROVE  parallel' = parallel
BY DEF Next, vars, Push, PushUnobserved, PushParent, PushParentRaces, PushParentRaced, PushChild,
   PushChildNext, PushChildEnd, writeChange, AddQuery, RemoveQuery

SequentialInv == ~parallel => Inv

(* The invariant holds throughout, with sequential pushes.                 *)
LEMMA Invariance == Spec => []SequentialInv
<1>1. Init => SequentialInv
  BY InitInv DEF SequentialInv
<1>2. SequentialInv /\ [Next]_vars => SequentialInv'
  BY NextInv, ParallelKept DEF SequentialInv
<1> QED BY <1>1, <1>2, PTL DEF Spec

(* Between two changes of one push the Join's child overlay covers exactly *)
(* the parents that pushChildChange has still to visit.                    *)
LEMMA OverlayCoversTargets ==
    ASSUME Inv, ~(childPc = "loop" /\ position = NoRow), NEW p \in VisibleParents
    PROVE  /\ StillToCome(p) <=> childPc = "loop" /\ p \in targets
           /\ ChildStream(p) = Told(p)
<1>1. CASE childPc # "loop"
  <2>1. inprogress = None
    BY <1>1 DEF Inv, Shape
  <2>2. ~StillToCome(p)
    BY <2>1 DEF StillToCome
  <2> QED BY <1>1, <2>2 DEF ChildStream, Told
<1>2. CASE childPc = "loop"
  <2>1. position # NoRow
    BY <1>2
  <2>2. p \in targets <=> Touches(inprogress, p) /\ Rank[p] > Rank[position]
    BY <1>2, <2>1 DEF Inv, TargetsInv
  <2>3. Touches(inprogress, p) => inprogress # None
    BY DEF Touches, None, Change
  <2>4. StillToCome(p) <=> p \in targets
    BY <2>1, <2>2, <2>3 DEF StillToCome
  <2> QED BY <1>2, <2>4 DEF ChildStream, Told
<1> QED BY <1>1, <1>2

(* The invariant says what FetchMatchesOutput does.                        *)
LEMMA FetchMatches ==
    ASSUME Inv
    PROVE  FetchMatchesOutput
<1> SUFFICES ASSUME connected, ~(childPc = "loop" /\ position = NoRow)
             PROVE  /\ parents = VisibleParents
                    /\ pairs = FetchedPairs
                    /\ \A p \in VisibleParents : StillToCome(p) => ~OverlayPanics(p)
  BY DEF FetchMatchesOutput
<1>1. parents = VisibleParents /\ Tells(pairs, VisibleParents, ToldOf(VisibleParents))
  BY DEF Inv, ViewInv
<1>2. pairs = FetchedPairs
  <2>1. [p \in VisibleParents |-> ChildStream(p)] = ToldOf(VisibleParents)
    BY OverlayCoversTargets DEF ToldOf
  <2>2. VisibleParents \in SUBSET Row /\ ToldOf(VisibleParents) \in [VisibleParents -> SUBSET Row]
    BY FetchTypes
  <2>3. FetchedPairs = PairsOf(VisibleParents, ToldOf(VisibleParents))
    BY <2>1 DEF FetchedPairs
  <2>4. Tells(FetchedPairs, VisibleParents, ToldOf(VisibleParents))
    BY <2>2, <2>3, PairsOfTells
  <2> QED BY <1>1, <2>2, <2>4, TellsUnique
<1>3. ASSUME NEW p \in VisibleParents, StillToCome(p) PROVE ~OverlayPanics(p)
  <2>1. childPc = "loop" /\ Touches(inprogress, p)
    BY <1>3, OverlayCoversTargets DEF StillToCome
  <2>2. "child" \in pushed /\ inprogress = FilterPush(overlay, ChildRows)
    BY <2>1 DEF Inv, Shape, TypeOK
  <2>3. PICK ch : ch = inprogress
    OBVIOUS
  <2>4. PICK D, N : D = data \cap ChildRows /\ N = Written(data, overlay) \cap ChildRows
    OBVIOUS
  <2>5. ch = FilterPush(overlay, ChildRows)
    BY <2>2, <2>3
  <2>6. /\ N = (D \ ch.gone) \cup ch.come
        /\ ch.gone \subseteq D /\ ch.come \cap (D \ ch.gone) = {}
        /\ ch.gone \in SUBSET Row /\ ch.come \in SUBSET Row
        /\ \A q : Touches(ch, q) => \A c \in ch.gone \cup ch.come : IsJoinMatch(q, c)
    BY <2>4, <2>5, ChildFacts
  <2>7. ch.come \subseteq Match(p, N)
    BY <2>1, <2>3, <2>6, TouchedChildren
  <2>8. VisibleChildren = N
    BY <2>2, <2>4 DEF VisibleChildren, Visible
  <2> QED BY <2>3, <2>7, <2>8 DEF OverlayPanics, FetchedChildren, Match
<1> QED BY <1>1, <1>2, <1>3

-----------------------------------------------------------------------------
(* With sequential pushes no push reaches a panic of Join.pushParent,      *)
(* Join.pushChild or generateWithOverlay, and the Join never tells its     *)
(* output to add what it has or to remove what it has not: shouldSplit     *)
(* takes apart the EDITs that would, and a self-join does not double       *)
(* count a row that is its own child.                                      *)
THEOREM FaultFreedom ==
    Spec => []NoFault
<1>1. SequentialInv => NoFault
  BY DEF SequentialInv, Inv, Faultless, NoFault
<1> QED BY <1>1, Invariance, PTL

(* With sequential pushes a fetch through the Join, before, after or       *)
(* between two of the changes a push makes the Join tell its output of,    *)
(* returns what the output has been told so far: LastPushedEpoch and       *)
(* inprogressChildChangePosition show each change exactly when it is due.  *)
THEOREM FetchAgreesWithOutput ==
    Spec => []FetchMatchesOutput
<1>1. SequentialInv => FetchMatchesOutput
  BY FetchMatches DEF SequentialInv, FetchMatchesOutput
<1> QED BY <1>1, Invariance, PTL

-----------------------------------------------------------------------------
(* Parallel pushes.  What the output is told of a row as its own child may *)
(* be wrong; the invariant is about the rest: the pairs P are, apart from  *)
(* those of a row and itself, the children T[p] of the parents p of S.     *)

Others(P, S, T) ==
    \A q, r \in Row :
        Pk[q] # Pk[r] => (<<Pk[q], r>> \in P <=> \E p \in S : Pk[p] = Pk[q] /\ r \in T[p])

(* The table behind the children of p that the output has been told about. *)
ChildTable(p) ==
    IF childPc = "done" \/ (childPc = "loop" /\ p \notin targets)
    THEN Written(data, overlay) ELSE data

ChildrenTold == [p \in Row |-> Match(p, ChildTable(p) \cap ChildRows)]

ParentTable == IF parentPc = "done" THEN Written(data, overlay) ELSE data

(* How far the pushes can be: both connections see the overlay from the    *)
(* start of the push, and neither waits for the other.                     *)
ParallelShape ==
    /\ parentPc = "idle" <=> childPc = "idle"
    /\ parentPc = "idle" => overlay = None /\ rest = None
    /\ parentPc # "idle" => "parent" \in pushed /\ "child" \in pushed
    /\ ~connected => parentPc = "idle"
    /\ inprogress = IF childPc = "loop" THEN FilterPush(overlay, ChildRows) ELSE None
    /\ childPc = "loop" => \A p \in targets : p \in VisibleParents /\ Touches(inprogress, p)

OthersTold ==
    connected /\ Running =>
        /\ parents = ParentTable \cap ParentRows
        /\ Others(pairs, parents, ChildrenTold)

ParallelInv == TypeOK /\ ParallelShape /\ OverlayInv /\ RestInv /\ OthersTold

(* Tables and what the connections see of them, while pushes run in        *)
(* parallel.                                                               *)
LEMMA ParallelTypes ==
    ASSUME ParallelInv
    PROVE  /\ data \in SUBSET Row /\ Keyed(data)
           /\ overlay \in [gone: SUBSET Row, come: SUBSET Row] /\ Fresh(data, overlay)
           /\ Written(data, overlay) \in SUBSET Row /\ Keyed(Written(data, overlay))
           /\ VisibleParents = Written(data, overlay) \cap ParentRows
           /\ VisibleChildren = Written(data, overlay) \cap ChildRows
           /\ VisibleParents \in SUBSET Row
           /\ ChildrenTold \in [Row -> SUBSET Row]
<1>1. /\ data \in SUBSET Row /\ Keyed(data)
      /\ overlay \in [gone: SUBSET Row, come: SUBSET Row] /\ Fresh(data, overlay)
  BY DEF ParallelInv, TypeOK, Keyed, OverlayInv
<1>2. Written(data, overlay) \in SUBSET Row /\ Keyed(Written(data, overlay))
  BY <1>1, WrittenKeyed
<1>3. parentPc = "idle" => Written(data, overlay) = data
  BY <1>1 DEF ParallelInv, ParallelShape, Written, None, Change
<1>4. /\ VisibleParents = Written(data, overlay) \cap ParentRows
      /\ VisibleChildren = Written(data, overlay) \cap ChildRows
  BY <1>3 DEF ParallelInv, ParallelShape, VisibleParents, VisibleChildren, Visible
<1>5. \A p : Match(p, ChildTable(p) \cap ChildRows) \in SUBSET Row
  BY <1>1, <1>2 DEF Match, ChildTable
<1> QED BY <1>1, <1>2, <1>4, <1>5 DEF ChildrenTold

(* The rows of a change have one primary key; all others are in the table  *)
(* before it if and only if they are in it after it.                       *)
LEMMA OneKey ==
    ASSUME ParallelInv
    PROVE  /\ \A r, s \in overlay.gone \cup overlay.come : Pk[r] = Pk[s]
           /\ \A r : r \notin overlay.gone \cup overlay.come =>
                       (r \in data <=> r \in Written(data, overlay))
           /\ \A p \in data : \A r \in overlay.gone \cup overlay.come :
                Pk[p] = Pk[r] => p \in overlay.gone \/ p \in overlay.come
<1>1. Fresh(data, overlay) /\ Keyed(data)
  BY ParallelTypes
<1>2. \A r, s \in overlay.gone \cup overlay.come : Pk[r] = Pk[s]
  BY <1>1 DEF ParallelInv, OverlayInv, Fresh
<1>3. \A p \in data : \A r \in overlay.gone \cup overlay.come :
        Pk[p] = Pk[r] => p \in overlay.gone \/ p \in overlay.come
  BY <1>1 DEF Fresh, Keyed
<1> QED BY <1>1, <1>2, <1>3 DEF Written

(* For a row of the change all tables hold the same children, itself       *)
(* apart.                                                                  *)
LEMMA OwnChildren ==
    ASSUME ParallelInv, NEW p \in overlay.gone \cup overlay.come, NEW r \in Row, Pk[r] # Pk[p]
    PROVE  /\ r \in ChildrenTold[p] <=> r \in Match(p, data \cap ChildRows)
           /\ r \in FetchedChildren(p) <=> r \in Match(p, data \cap ChildRows)
           /\ r \in GenerateWithOverlay(p) <=> r \in Match(p, data \cap ChildRows)
<1>1. r \notin overlay.gone /\ r \notin overlay.come
  BY OneKey
<1>2. r \in data <=> r \in Written(data, overlay)
  BY <1>1, OneKey
<1>3. p \in Row
  BY ParallelTypes
<1>4. r \in ChildrenTold[p] <=> r \in Match(p, data \cap ChildRows)
  BY <1>2, <1>3 DEF ChildrenTold, Match, ChildTable
<1>5. r \in FetchedChildren(p) <=> r \in Match(p, data \cap ChildRows)
  BY <1>2, ParallelTypes DEF FetchedChildren, Match
<1>6. r \notin inprogress.gone /\ r \notin inprogress.come
  BY <1>1 DEF ParallelInv, ParallelShape, FilterPush, Change, None
<1> QED BY <1>4, <1>5, <1>6 DEF GenerateWithOverlay

(* The pairs of some rows of the change.                                   *)
LEMMA OwnPairs ==
    ASSUME ParallelInv, NEW S \in SUBSET (overlay.gone \cup overlay.come), NEW C,
           \/ C = [p \in S |-> FetchedChildren(p)]
           \/ C = [p \in S |-> GenerateWithOverlay(p)]
    PROVE  Others(PairsOf(S, C), S, ChildrenTold)
<1>1. SUFFICES ASSUME NEW q \in Row, NEW r \in Row, Pk[q] # Pk[r]
               PROVE  <<Pk[q], r>> \in PairsOf(S, C) <=>
                        \E p \in S : Pk[p] = Pk[q] /\ r \in ChildrenTold[p]
  BY DEF Others
<1>2. \A p \in S : Pk[p] = Pk[q] => (r \in C[p] <=> r \in ChildrenTold[p])
  BY <1>1, OwnChildren
<1>3. <<Pk[q], r>> \in PairsOf(S, C) <=> \E p \in S : Pk[p] = Pk[q] /\ r \in C[p]
  BY DEF PairsOf
<1> QED BY <1>2, <1>3

(* Parents go and come with their children.                                *)
LEMMA OthersParents ==
    ASSUME NEW S \in SUBSET Row, Keyed(S), NEW T, NEW P, Others(P, S, T),
           NEW gone \in SUBSET S, NEW come, NEW G, NEW C, Others(G, gone, T), Others(C, come, T)
    PROVE  Others((P \ G) \cup C, (S \ gone) \cup come, T)
<1>1. SUFFICES ASSUME NEW q \in Row, NEW r \in Row, Pk[q] # Pk[r]
               PROVE  <<Pk[q], r>> \in (P \ G) \cup C <=>
                        \E p \in (S \ gone) \cup come : Pk[p] = Pk[q] /\ r \in T[p]
  BY DEF Others
<1>2. /\ <<Pk[q], r>> \in P <=> \E p \in S : Pk[p] = Pk[q] /\ r \in T[p]
      /\ <<Pk[q], r>> \in G <=> \E p \in gone : Pk[p] = Pk[q] /\ r \in T[p]
      /\ <<Pk[q], r>> \in C <=> \E p \in come : Pk[p] = Pk[q] /\ r \in T[p]
  BY <1>1 DEF Others
<1>3. <<Pk[q], r>> \in P \ G <=> \E p \in S \ gone : Pk[p] = Pk[q] /\ r \in T[p]
  BY <1>2 DEF Keyed
<1> QED BY <1>2, <1>3

-----------------------------------------------------------------------------
(* A push starts; the output has been told nothing of it.                  *)
LEMMA ParallelPush ==
    ASSUME parallel, ParallelInv, NEW ch \in SourceChange, Push(ch)
    PROVE  ParallelInv'
<1>1. /\ ch \in [gone: SUBSET Row, come: SUBSET Row]
      /\ \A r, s \in ch.gone : r = s
      /\ \A r, s \in ch.come : r = s
  BY SourceChangeType
<1>2. /\ parentPc = "idle" /\ connected /\ Valid(ch) /\ Running
      /\ UNCHANGED <<parallel, data, connected, inprogress, position, targets, parents, pairs, fault>>
  BY DEF Push, Idle, join, view
<1>3. /\ pushed' = {"parent", "child"} /\ parentPc' = "todo" /\ childPc' = "todo"
      /\ \/ shouldSplit(ch) /\ overlay' = Change(ch.gone, {}) /\ rest' = Change({}, ch.come)
         \/ ~shouldSplit(ch) /\ overlay' = ch /\ rest' = None
  BY DEF Push, genPush
<1>4. childPc = "idle" /\ inprogress = None
  BY <1>2 DEF ParallelInv, ParallelShape
<1>5. /\ overlay' \in [gone: SUBSET Row, come: SUBSET Row]
      /\ rest' \in [gone: SUBSET Row, come: SUBSET Row]
  BY <1>1, <1>3 DEF Change, None
<1>6. TypeOK'
  BY <1>2, <1>3, <1>5 DEF ParallelInv, TypeOK
<1>7. ParallelShape'
  BY <1>2, <1>3, <1>4 DEF ParallelShape
<1>8. OverlayInv' /\ RestInv'
  <2>1. Fresh(data, ch)
    BY <1>2, ParallelTypes, ValidFresh
  <2>2. CASE shouldSplit(ch) /\ overlay' = Change(ch.gone, {}) /\ rest' = Change({}, ch.come)
    <3>1. overlay'.gone = ch.gone /\ overlay'.come = {} /\ rest'.gone = {} /\ rest'.come = ch.come
      BY <2>2 DEF Change
    <3> QED BY <1>2, <2>1, <3>1 DEF OverlayInv, RestInv, Fresh
  <2>3. CASE ~shouldSplit(ch) /\ overlay' = ch /\ rest' = None
    <3>1. \A old \in ch.gone, new \in ch.come :
            Pk[old] = Pk[new] /\ ParentKey[old] = ParentKey[new] /\ ChildKey[old] = ChildKey[new]
      BY <1>2, <2>3, ParallelTypes, ValidFresh DEF shouldSplit
    <3>2. OverlayInv'
      BY <1>2, <2>1, <2>3, <3>1 DEF OverlayInv, Fresh
    <3>3. RestInv'
      BY <2>3 DEF RestInv, None, Change
    <3> QED BY <3>2, <3>3
  <2> QED BY <1>3, <2>2, <2>3
<1>9. OthersTold'
  <2>1. ParentTable' = ParentTable /\ ChildrenTold' = ChildrenTold
    BY <1>2, <1>3, <1>4 DEF ParentTable, ChildrenTold, ChildTable
  <2> QED BY <1>2, <2>1 DEF ParallelInv, OthersTold
<1> QED BY <1>6, <1>7, <1>8, <1>9 DEF ParallelInv

(* Without the query a change is only written.                             *)
LEMMA ParallelPushUnobserved ==
    ASSUME ParallelInv, NEW ch \in SourceChange, PushUnobserved(ch)
    PROVE  ParallelInv'
<1>1. /\ ch \in [gone: SUBSET Row, come: SUBSET Row]
      /\ \A r, s \in ch.gone : r = s
      /\ \A r, s \in ch.come : r = s
  BY SourceChangeType
<1>2. /\ parentPc = "idle" /\ ~connected /\ Valid(ch) /\ data' = Written(data, ch)
      /\ UNCHANGED <<parallel, connected, overlay, rest, pushed, parentPc, childPc, inprogress, position,
                     targets, parents, pairs, fault>>
  BY DEF PushUnobserved, Idle, join, view
<1>3. childPc = "idle" /\ overlay = None /\ rest = None
  BY <1>2 DEF ParallelInv, ParallelShape
<1>4. Fresh(data, ch)
  BY <1>2, ParallelTypes, ValidFresh
<1>5. data' \in SUBSET Row /\ Keyed(Written(data, ch))
  BY <1>1, <1>2, <1>4, ParallelTypes, WrittenKeyed
<1>6. TypeOK'
  BY <1>2, <1>5 DEF ParallelInv, TypeOK, Keyed
<1>7. OverlayInv' /\ RestInv' /\ OthersTold'
  BY <1>2, <1>3 DEF OverlayInv, RestInv, OthersTold, Fresh, None, Change
<1>8. ParallelShape'
  BY <1>2, <1>3 DEF ParallelInv, ParallelShape
<1> QED BY <1>6, <1>7, <1>8 DEF ParallelInv

(* Hydration tells the output what a fetch returns.                        *)
LEMMA ParallelAddQuery ==
    ASSUME ParallelInv, AddQuery
    PROVE  ParallelInv'
<1>1. /\ parentPc = "idle" /\ connected' = TRUE
      /\ parents' = VisibleParents /\ pairs' = FetchedPairs
      /\ UNCHANGED <<parallel, data, overlay, rest, pushed, parentPc, childPc, inprogress, position, targets,
                     fault>>
  BY DEF AddQuery, Idle, join
<1>2. childPc = "idle" /\ inprogress = None /\ overlay = None
  BY <1>1 DEF ParallelInv, ParallelShape
<1>3. Written(data, overlay) = data
  BY <1>2, ParallelTypes DEF Written, None, Change
<1>4. VisibleParents = ParentTable \cap ParentRows /\ ParentTable' = ParentTable
  BY <1>1, <1>3, ParallelTypes DEF ParentTable
<1>5. ChildrenTold' = ChildrenTold
  BY <1>1 DEF ChildrenTold, ChildTable
<1>6. \A p \in VisibleParents : ChildStream(p) = ChildrenTold[p]
  BY <1>2, <1>3, ParallelTypes DEF ChildStream, StillToCome, FetchedChildren, ChildrenTold,
     ChildTable, Match
<1>7. Others(FetchedPairs, VisibleParents, ChildrenTold)
  <2>1. SUFFICES ASSUME NEW q \in Row, NEW r \in Row
                 PROVE  <<Pk[q], r>> \in FetchedPairs <=>
                          \E p \in VisibleParents : Pk[p] = Pk[q] /\ r \in ChildrenTold[p]
    BY DEF Others
  <2> QED BY <1>6 DEF FetchedPairs, PairsOf
<1>8. OthersTold'
  BY <1>1, <1>4, <1>5, <1>7 DEF OthersTold
<1>9. FetchedPairs \in SUBSET ({Pk[r] : r \in Row} \X Row)
  BY ParallelTypes DEF FetchedPairs, PairsOf
<1>10. TypeOK'
  BY <1>1, <1>9, ParallelTypes DEF ParallelInv, TypeOK
<1>11. ParallelShape' /\ OverlayInv' /\ RestInv'
  BY <1>1, <1>2 DEF ParallelInv, ParallelShape, OverlayInv, RestInv
<1> QED BY <1>8, <1>10, <1>11 DEF ParallelInv

(* The output of a removed query is dropped.                               *)
LEMMA ParallelRemoveQuery ==
    ASSUME ParallelInv, RemoveQuery
    PROVE  ParallelInv'
<1>1. /\ parentPc = "idle" /\ connected' = FALSE /\ parents' = {} /\ pairs' = {}
      /\ UNCHANGED <<parallel, data, overlay, rest, pushed, parentPc, childPc, inprogress, position, targets,
                     fault>>
  BY DEF RemoveQuery, Idle, join
<1>2. childPc = "idle"
  BY <1>1 DEF ParallelInv, ParallelShape
<1>3. TypeOK' /\ OthersTold' /\ OverlayInv' /\ RestInv'
  BY <1>1 DEF ParallelInv, TypeOK, OthersTold, OverlayInv, RestInv
<1>4. ParallelShape'
  BY <1>1, <1>2 DEF ParallelInv, ParallelShape
<1> QED BY <1>3, <1>4 DEF ParallelInv

(* Both connections have the change and the table takes it; the second     *)
(* half of a split edit follows at once.                                   *)
LEMMA ParallelWrite ==
    ASSUME parallel, ParallelInv, writeChange
    PROVE  ParallelInv'
<1>1. /\ parentPc = "done" /\ childPc = "done" /\ data' = Written(data, overlay) /\ rest' = None
      /\ UNCHANGED <<parallel, connected, inprogress, position, targets, parents, pairs, fault>>
  BY DEF writeChange, join, view
<1>2. "parent" \in pushed /\ "child" \in pushed /\ inprogress = None /\ connected
  BY <1>1 DEF ParallelInv, ParallelShape
<1>3. /\ data' \in SUBSET Row /\ Keyed(data')
      /\ rest \in [gone: SUBSET Row, come: SUBSET Row]
      /\ pushed \in SUBSET {"parent", "child"}
  BY <1>1, ParallelTypes DEF ParallelInv, TypeOK
<1>4. /\ overlay' = rest /\ pushed' = {"parent", "child"}
      /\ \/ rest = None /\ parentPc' = "idle" /\ childPc' = "idle"
         \/ rest # None /\ parentPc' = "todo" /\ childPc' = "todo"
  <2>1. CASE rest = None
    BY <1>2, <1>3, <2>1 DEF writeChange
  <2>2. CASE rest # None
    BY <2>2 DEF writeChange, genPush
  <2> QED BY <2>1, <2>2
<1>5. OthersTold'
  <2>1. ParentTable' = ParentTable /\ ChildrenTold' = ChildrenTold
    BY <1>1, <1>4 DEF ParentTable, ChildrenTold, ChildTable
  <2> QED BY <1>1, <2>1 DEF ParallelInv, OthersTold, Running
<1>6. TypeOK'
  <2>1. rest' \in [gone: SUBSET Row, come: SUBSET Row]
    BY <1>1 DEF None, Change
  <2>2. \A r, s \in data' : Pk[r] = Pk[s] => r = s
    BY <1>3 DEF Keyed
  <2>3. parentPc' \in {"idle", "todo"} /\ childPc' \in {"idle", "todo"}
    BY <1>4
  <2> QED BY <1>1, <1>3, <1>4, <2>1, <2>2, <2>3 DEF ParallelInv, TypeOK
<1>7. ParallelShape'
  BY <1>1, <1>2, <1>4 DEF ParallelShape
<1>8. OverlayInv' /\ RestInv'
  <2>1. RestInv'
    BY <1>1 DEF RestInv
  <2>2. CASE rest = None
    BY <1>4, <2>1, <2>2 DEF OverlayInv, Fresh, None, Change
  <2>3. CASE rest # None
    <3>1. rest.gone = {} /\ overlay.come = {} /\ Fresh(data \ overlay.gone, rest)
      BY <2>3 DEF ParallelInv, RestInv
    <3>2. data' = data \ overlay.gone
      BY <1>1, <3>1 DEF Written
    <3> QED BY <1>4, <2>1, <3>1, <3>2 DEF OverlayInv
  <2> QED BY <2>2, <2>3
<1> QED BY <1>5, <1>6, <1>7, <1>8 DEF ParallelInv

(* The parent's goroutine tells the output of the change, whether or not   *)
(* the child's overlay catches the children it reads.                      *)
LEMMA ParallelParent ==
    ASSUME ParallelInv, NEW overlaid \in BOOLEAN, pushParent(overlaid), Running, parentPc # "idle",
           parentPc # "done", parentPc' = "done",
           UNCHANGED <<data, connected, overlay, rest, childPc, inprogress, position, targets>>
    PROVE  /\ OthersTold'
           /\ parents' \in SUBSET Row
           /\ pairs' \in SUBSET ({Pk[r] : r \in Row} \X Row)
           /\ fault' \in {"none", "panic", "illegal"}
<1> DEFINE T == ChildrenTold
<1>1. PICK ch : ch = FilterPush(overlay, ParentRows)
  OBVIOUS
<1>2. PICK S : S = data \cap ParentRows
  OBVIOUS
<1>3. /\ ch.gone = overlay.gone \cap ParentRows /\ ch.come = overlay.come \cap ParentRows
      /\ Written(data, overlay) \cap ParentRows = (S \ ch.gone) \cup ch.come
      /\ ch.gone \subseteq S
  BY <1>1, <1>2, FilteredWrite, ParallelTypes
<1>4. S \in SUBSET Row /\ Keyed(S) /\ ch.gone \in SUBSET Row /\ ch.come \in SUBSET Row
  BY <1>2, <1>3, ParallelTypes DEF Keyed
<1>5. connected
  BY DEF ParallelInv, ParallelShape
<1>6. parents = S /\ Others(pairs, S, T)
  BY <1>2, <1>5 DEF ParallelInv, OthersTold, ParentTable
<1>7. PICK gc, cc : /\ gc = PairsOf(ch.gone, [p \in ch.gone |-> IF overlaid THEN GenerateWithOverlay(p)
                                                                      ELSE FetchedChildren(p)])
                    /\ cc = PairsOf(ch.come, [p \in ch.come |-> IF overlaid THEN GenerateWithOverlay(p)
                                                                      ELSE FetchedChildren(p)])
  OBVIOUS
<1>8. IF IsEdit(ch) THEN OutputNode(ch.gone, ch.come, {}, {})
                    ELSE OutputNode(ch.gone, ch.come, gc, cc)
  BY <1>1, <1>7 DEF pushParent
<1>9. parents' = (S \ ch.gone) \cup ch.come /\ fault' \in {fault, "illegal"}
  BY <1>6, <1>8 DEF OutputNode
<1>10. T' = T
  BY DEF ChildrenTold, ChildTable
<1>11. Others(pairs', parents', T)
  <2>1. CASE IsEdit(ch)
    <3>1. pairs' = pairs
      BY <1>8, <2>1 DEF OutputNode
    <3>2. PICK old \in ch.gone, new \in ch.come : TRUE
      BY <2>1 DEF IsEdit
    <3>3. /\ ch.gone = {old} /\ ch.come = {new} /\ Pk[old] = Pk[new]
          /\ ParentKey[old] = ParentKey[new]
          /\ old \in overlay.gone \cup overlay.come /\ new \in overlay.gone \cup overlay.come
      BY <1>3, <3>2 DEF ParallelInv, OverlayInv, Fresh
    <3>4. \A r \in Row : Pk[r] # Pk[old] => (r \in T[old] <=> r \in T[new])
      <4>1. SUFFICES ASSUME NEW r \in Row, Pk[r] # Pk[old] PROVE r \in T[old] <=> r \in T[new]
        OBVIOUS
      <4>2. /\ r \in T[old] <=> r \in Match(old, data \cap ChildRows)
            /\ r \in T[new] <=> r \in Match(new, data \cap ChildRows)
        BY <3>3, <4>1, OwnChildren
      <4> QED BY <3>3, <4>2 DEF Match, IsJoinMatch
    <3>5. SUFFICES ASSUME NEW q \in Row, NEW r \in Row, Pk[q] # Pk[r]
                   PROVE  <<Pk[q], r>> \in pairs <=>
                            \E p \in (S \ {old}) \cup {new} : Pk[p] = Pk[q] /\ r \in T[p]
      BY <1>9, <3>1, <3>3 DEF Others
    <3>6. <<Pk[q], r>> \in pairs <=> \E p \in S : Pk[p] = Pk[q] /\ r \in T[p]
      BY <1>6, <3>5 DEF Others
    <3>7. old \in S /\ \A p \in S : Pk[p] = Pk[new] => p = old
      BY <1>3, <1>4, <3>2, <3>3 DEF Keyed
    <3> QED BY <3>3, <3>4, <3>5, <3>6, <3>7
  <2>2. CASE ~IsEdit(ch)
    <3>1. pairs' = (pairs \ gc) \cup cc
      BY <1>8, <2>2 DEF OutputNode
    <3>2. /\ ch.gone \in SUBSET (overlay.gone \cup overlay.come)
          /\ ch.come \in SUBSET (overlay.gone \cup overlay.come)
      BY <1>3
    <3>3. Others(gc, ch.gone, T) /\ Others(cc, ch.come, T)
      BY <1>7, <3>2, OwnPairs
    <3> QED BY <1>3, <1>4, <1>6, <1>9, <3>1, <3>3, OthersParents
  <2> QED BY <2>1, <2>2
<1>12. OthersTold'
  <2>1. parents' = (ParentTable \cap ParentRows)'
    BY <1>3, <1>9 DEF ParentTable
  <2> QED BY <1>10, <1>11, <2>1 DEF OthersTold
<1>13. /\ gc \in SUBSET ({Pk[r] : r \in Row} \X Row)
       /\ cc \in SUBSET ({Pk[r] : r \in Row} \X Row)
  BY <1>4, <1>7 DEF PairsOf
<1>14. pairs' \in SUBSET ({Pk[r] : r \in Row} \X Row)
  <2>1. pairs \in SUBSET ({Pk[r] : r \in Row} \X Row)
    BY DEF ParallelInv, TypeOK
  <2>2. CASE IsEdit(ch)
    BY <1>8, <2>1, <2>2 DEF OutputNode
  <2>3. CASE ~IsEdit(ch)
    BY <1>8, <1>13, <2>1, <2>3 DEF OutputNode
  <2> QED BY <2>2, <2>3
<1>15. parents' \in SUBSET Row /\ fault' \in {"none", "panic", "illegal"}
  BY <1>4, <1>9 DEF ParallelInv, TypeOK
<1> QED BY <1>12, <1>14, <1>15

(* The rest of the invariant, when only the parent's goroutine moves.      *)
LEMMA ParallelParentRest ==
    ASSUME ParallelInv, parentPc \in {"todo", "raced"}, parentPc' \in {"raced", "done"},
           pushed' = pushed \/ pushed' = pushed \cup {"parent"},
           UNCHANGED <<parallel, data, connected, overlay, rest, childPc, inprogress, position, targets>>,
           parents' \in SUBSET Row, pairs' \in SUBSET ({Pk[r] : r \in Row} \X Row),
           fault' \in {"none", "panic", "illegal"}
    PROVE  TypeOK' /\ ParallelShape' /\ OverlayInv' /\ RestInv'
<1>1. pushed' \in SUBSET {"parent", "child"}
  BY DEF ParallelInv, TypeOK
<1>2. TypeOK'
  BY <1>1 DEF ParallelInv, TypeOK
<1>3. OverlayInv' /\ RestInv'
  BY DEF ParallelInv, OverlayInv, RestInv
<1>4. "parent" \in pushed /\ "child" \in pushed /\ "parent" \in pushed' /\ "child" \in pushed'
  BY DEF ParallelInv, ParallelShape
<1>5. VisibleParents' = VisibleParents
  BY <1>4 DEF VisibleParents, Visible
<1>6. ParallelShape'
  BY <1>4, <1>5 DEF ParallelInv, ParallelShape
<1> QED BY <1>2, <1>3, <1>6

(* The parent's goroutine does not meet the child's overlay.               *)
LEMMA ParallelPushParent ==
    ASSUME ParallelInv, PushParent
    PROVE  ParallelInv'
<1>1. /\ parentPc = "todo" /\ parentPc' = "done" /\ pushed' = pushed \cup {"parent"} /\ Running
      /\ UNCHANGED <<parallel, data, connected, overlay, rest, childPc, inprogress, position, targets>>
      /\ \/ fault' = "panic" /\ UNCHANGED <<parents, pairs>>
         \/ pushParent(FALSE)
  BY DEF PushParent, Panic, join, view
<1>2. /\ OthersTold' /\ parents' \in SUBSET Row
      /\ pairs' \in SUBSET ({Pk[r] : r \in Row} \X Row)
      /\ fault' \in {"none", "panic", "illegal"}
  <2>1. CASE fault' = "panic" /\ UNCHANGED <<parents, pairs>>
    BY <2>1 DEF ParallelInv, TypeOK, OthersTold, Running
  <2>2. CASE pushParent(FALSE)
    BY <1>1, <2>2, ParallelParent
  <2> QED BY <1>1, <2>1, <2>2
<1> QED BY <1>1, <1>2, ParallelParentRest DEF ParallelInv

(* The parent's goroutine has met the child's overlay, and reads the       *)
(* Join's fields again.                                                    *)
LEMMA ParallelPushParentRaced ==
    ASSUME ParallelInv, PushParentRaced
    PROVE  ParallelInv'
<1>1. /\ parentPc = "raced" /\ parentPc' = "done" /\ pushed' = pushed /\ Running
      /\ UNCHANGED <<parallel, data, connected, overlay, rest, childPc, inprogress, position, targets>>
      /\ \/ fault' = "panic" /\ UNCHANGED <<parents, pairs>>
         \/ pushParent(TRUE)
  BY DEF PushParentRaced, Panic, join, view
<1>2. /\ OthersTold' /\ parents' \in SUBSET Row
      /\ pairs' \in SUBSET ({Pk[r] : r \in Row} \X Row)
      /\ fault' \in {"none", "panic", "illegal"}
  <2>1. CASE fault' = "panic" /\ UNCHANGED <<parents, pairs>>
    BY <2>1 DEF ParallelInv, TypeOK, OthersTold, Running
  <2>2. CASE pushParent(TRUE)
    BY <1>1, <2>2, ParallelParent
  <2> QED BY <1>1, <2>1, <2>2
<1> QED BY <1>1, <1>2, ParallelParentRest DEF ParallelInv

(* The parent's goroutine meets the child's overlay; nothing is told yet.  *)
LEMMA ParallelPushParentRaces ==
    ASSUME ParallelInv, PushParentRaces
    PROVE  ParallelInv'
<1>1. /\ parentPc = "todo" /\ parentPc' = "raced" /\ pushed' = pushed
      /\ UNCHANGED <<parallel, data, connected, overlay, rest, childPc, inprogress, position,
                     targets, parents, pairs, fault>>
  BY DEF PushParentRaces, join, view
<1>2. ParentTable' = ParentTable /\ ChildrenTold' = ChildrenTold
  BY <1>1 DEF ParentTable, ChildrenTold, ChildTable
<1>3. OthersTold'
  BY <1>1, <1>2 DEF ParallelInv, OthersTold, Running
<1>4. TypeOK' /\ ParallelShape' /\ OverlayInv' /\ RestInv'
  BY <1>1, ParallelParentRest DEF ParallelInv, TypeOK
<1> QED BY <1>3, <1>4 DEF ParallelInv

(* For a parent that is not of the change, which row of the change is a    *)
(* child of it decides the difference between the tables.                  *)
LEMMA OtherParent ==
    ASSUME ParallelInv, connected, Running, NEW ch, ch = FilterPush(overlay, ChildRows),
           NEW p \in parents, NEW r \in Row, Pk[p] # Pk[r]
    PROVE  /\ r \in ChildRows /\ r \notin ch.gone \cup ch.come =>
                (r \in data <=> r \in Written(data, overlay))
           /\ r \in ch.gone \cup ch.come => p \in VisibleParents
           /\ r \in ch.gone \ ch.come => r \notin Written(data, overlay)
           /\ r \in ch.come => r \in Written(data, overlay) /\ r \in ChildRows
<1>1. ch.gone = overlay.gone \cap ChildRows /\ ch.come = overlay.come \cap ChildRows
  BY DEF FilterPush, Change
<1>2. r \in ChildRows /\ r \notin ch.gone \cup ch.come =>
        (r \in data <=> r \in Written(data, overlay))
  BY <1>1, OneKey
<1>3. ASSUME r \in ch.gone \cup ch.come PROVE p \in VisibleParents
  <2>1. r \in overlay.gone \cup overlay.come
    BY <1>1, <1>3
  <2>2. p \notin overlay.gone \cup overlay.come
    BY <2>1, OneKey
  <2>3. p \in ParentTable \cap ParentRows
    BY DEF ParallelInv, OthersTold
  <2>4. p \in Written(data, overlay)
    BY <2>2, <2>3, OneKey DEF ParentTable
  <2> QED BY <2>3, <2>4, ParallelTypes
<1>4. r \in ch.gone \ ch.come => r \notin Written(data, overlay)
  BY <1>1 DEF Written
<1>5. r \in ch.come => r \in Written(data, overlay) /\ r \in ChildRows
  BY <1>1 DEF Written
<1> QED BY <1>2, <1>3, <1>4, <1>5

(* All rows of the change have the parents of one of them.                 *)
LEMMA OneCorrelation ==
    ASSUME ParallelInv, NEW ch, ch = FilterPush(overlay, ChildRows), NEW q, Touches(ch, q)
    PROVE  \A c \in ch.gone \cup ch.come : IsJoinMatch(q, c)
<1>1. ch.gone = overlay.gone \cap ChildRows /\ ch.come = overlay.come \cap ChildRows
  BY DEF FilterPush, Change
<1>2. \A c, d \in ch.gone \cup ch.come : ChildKey[c] = ChildKey[d]
  BY <1>1 DEF ParallelInv, OverlayInv, Fresh
<1> QED BY <1>2 DEF Touches, IsJoinMatch

(* The child's goroutine fetches the parents of the child.                 *)
LEMMA ParallelPushChild ==
    ASSUME ParallelInv, PushChild
    PROVE  ParallelInv'
<1>1. PICK ch : ch = FilterPush(overlay, ChildRows)
  OBVIOUS
<1>2. /\ childPc = "todo" /\ Running /\ pushed' = pushed \cup {"child"}
      /\ UNCHANGED <<parallel, data, connected, overlay, rest, parentPc, parents, pairs>>
      /\ \/ ch = None /\ childPc' = "done" /\ UNCHANGED <<inprogress, position, targets, fault>>
         \/ /\ childPc' = "done" /\ fault' = "panic"
            /\ UNCHANGED <<inprogress, position, targets>>
         \/ /\ childPc' = "loop" /\ inprogress' = ch /\ position' = NoRow
            /\ targets' = {p \in VisibleParents : Touches(ch, p)} /\ UNCHANGED fault
  BY <1>1 DEF PushChild, Panic, join, view
<1>3. /\ parentPc # "idle" /\ "parent" \in pushed /\ "child" \in pushed /\ pushed' = pushed
      /\ inprogress = None
  BY <1>2 DEF ParallelInv, ParallelShape
<1>4. /\ ch \in [gone: SUBSET Row, come: SUBSET Row] /\ VisibleParents \in SUBSET Row
      /\ pushed \in SUBSET {"parent", "child"}
  BY <1>1, ParallelTypes DEF FilterPush, Change, ParallelInv, TypeOK
<1>5. TypeOK'
  <2>1. /\ inprogress' \in [gone: SUBSET Row, come: SUBSET Row]
        /\ position' \in Row \cup {NoRow} /\ targets' \in SUBSET Row
        /\ fault' \in {"none", "panic", "illegal"} /\ childPc' \in {"loop", "done"}
    BY <1>2, <1>4 DEF ParallelInv, TypeOK
  <2> QED BY <1>2, <1>3, <2>1 DEF ParallelInv, TypeOK
<1>6. OverlayInv' /\ RestInv'
  BY <1>2 DEF ParallelInv, OverlayInv, RestInv
<1>7. ParallelShape'
  <2>1. VisibleParents' = VisibleParents
    BY <1>2, <1>3 DEF VisibleParents, Visible
  <2>2. inprogress' = IF childPc' = "loop" THEN FilterPush(overlay', ChildRows) ELSE None
    BY <1>1, <1>2, <1>3
  <2>3. childPc' = "loop" => \A p \in targets' : p \in VisibleParents' /\ Touches(inprogress', p)
    BY <1>2, <2>1
  <2>4. childPc' # "idle"
    BY <1>2
  <2> QED BY <1>2, <1>3, <2>2, <2>3, <2>4 DEF ParallelInv, ParallelShape, Touches
<1>8. OthersTold'
  <2>1. SUFFICES ASSUME connected, Running' PROVE OthersTold'
    BY <1>2 DEF OthersTold
  <2>2. parents = ParentTable \cap ParentRows /\ Others(pairs, parents, ChildrenTold)
    BY <1>2, <2>1 DEF ParallelInv, OthersTold
  <2>3. ParentTable' = ParentTable
    BY <1>2 DEF ParentTable
  <2>4. \A p \in parents : p \in Row
    BY DEF ParallelInv, TypeOK
  <2>5. ASSUME NEW p \in parents, NEW r \in Row, Pk[p] # Pk[r]
        PROVE  r \in ChildrenTold[p] <=> r \in ChildrenTold'[p]
    <3>1. r \in ChildrenTold[p] <=> r \in data /\ r \in ChildRows /\ IsJoinMatch(p, r)
      BY <1>2, <2>4 DEF ChildrenTold, ChildTable, Match
    <3>2. CASE childPc' = "done" \/ p \notin targets'
      <4>1. childPc' \in {"done", "loop"}
        BY <1>2
      <4>2. ChildTable(p)' = Written(data, overlay)
        BY <1>2, <3>2, <4>1 DEF ChildTable
      <4>3. r \in ChildrenTold'[p] <=>
              r \in Written(data, overlay) /\ r \in ChildRows /\ IsJoinMatch(p, r)
        BY <2>4, <4>2 DEF ChildrenTold, Match
      <4>4. CASE r \in ch.gone \cup ch.come
        <5>1. p \in VisibleParents
          BY <1>1, <1>2, <2>1, <2>5, <4>4, OtherParent
        <5>2. childPc' = "loop" /\ p \notin targets'
          BY <1>2, <2>1, <3>2, <4>4 DEF Running, None, Change
        <5>3. ~Touches(ch, p)
          BY <1>2, <5>1, <5>2
        <5> QED BY <3>1, <4>3, <4>4, <5>3 DEF Touches
      <4>5. CASE r \notin ch.gone \cup ch.come
        <5>1. r \in ChildRows => (r \in data <=> r \in Written(data, overlay))
          BY <1>1, <1>2, <2>1, <2>5, <4>5, OtherParent
        <5> QED BY <3>1, <4>3, <5>1
      <4> QED BY <4>4, <4>5
    <3>3. CASE ~(childPc' = "done" \/ p \notin targets')
      <4>1. ChildTable(p)' = data
        BY <1>2, <3>3 DEF ChildTable
      <4> QED BY <2>4, <3>1, <4>1 DEF ChildrenTold, Match
    <3> QED BY <3>2, <3>3
  <2>6. Others(pairs, parents, ChildrenTold')
    BY <2>2, <2>5 DEF Others
  <2> QED BY <1>2, <2>2, <2>3, <2>6 DEF OthersTold
<1> QED BY <1>5, <1>6, <1>7, <1>8 DEF ParallelInv

(* One parent's children change, and the output is told so.                *)
LEMMA ParallelPushChildNext ==
    ASSUME ParallelInv, PushChildNext
    PROVE  ParallelInv'
<1>1. PICK x \in targets :
         /\ position' = x /\ targets' = targets \ {x}
         /\ OutputNode({}, {}, {Pk[x]} \X inprogress.gone, {Pk[x]} \X inprogress.come)
  BY DEF PushChildNext
<1>2. /\ childPc = "loop" /\ Running
      /\ UNCHANGED <<parallel, data, connected, overlay, rest, pushed, parentPc, childPc, inprogress>>
  BY DEF PushChildNext
<1>3. /\ parents' = parents
      /\ pairs' = (pairs \ ({Pk[x]} \X inprogress.gone)) \cup ({Pk[x]} \X inprogress.come)
      /\ fault' \in {fault, "illegal"}
  BY <1>1 DEF OutputNode
<1>4. PICK ch : ch = inprogress
  OBVIOUS
<1>5. ch = FilterPush(overlay, ChildRows) /\ x \in VisibleParents /\ Touches(ch, x)
  BY <1>1, <1>2, <1>4 DEF ParallelInv, ParallelShape
<1>6. x \in Row /\ ch \in [gone: SUBSET Row, come: SUBSET Row]
  BY <1>1, <1>4 DEF ParallelInv, TypeOK
<1>7. TypeOK'
  <2>1. pairs' \in SUBSET ({Pk[r] : r \in Row} \X Row)
    BY <1>3, <1>4, <1>6 DEF ParallelInv, TypeOK
  <2>2. fault' \in {"none", "panic", "illegal"} /\ targets' \in SUBSET Row /\ position' \in Row
    BY <1>1, <1>3, <1>6 DEF ParallelInv, TypeOK
  <2> QED BY <1>2, <1>3, <2>1, <2>2 DEF ParallelInv, TypeOK
<1>8. OverlayInv' /\ RestInv'
  BY <1>2 DEF ParallelInv, OverlayInv, RestInv
<1>9. ParallelShape'
  <2>1. VisibleParents' = VisibleParents
    BY <1>2 DEF VisibleParents, Visible
  <2>2. \A p \in targets' : p \in VisibleParents' /\ Touches(inprogress', p)
    BY <1>1, <1>2, <2>1 DEF ParallelInv, ParallelShape
  <2> QED BY <1>2, <2>2 DEF ParallelInv, ParallelShape, Touches
<1>10. OthersTold'
  <2>1. connected
    BY <1>2 DEF ParallelInv, ParallelShape
  <2>2. parents = ParentTable \cap ParentRows /\ Others(pairs, parents, ChildrenTold)
    BY <1>2, <2>1 DEF ParallelInv, OthersTold
  <2>3. ParentTable' = ParentTable
    BY <1>2 DEF ParentTable
  <2>4. parents \in SUBSET Row /\ Keyed(parents)
    BY <2>2, ParallelTypes DEF ParentTable, Keyed
  <2>5. ASSUME NEW q \in Row, NEW r \in Row, Pk[q] # Pk[r]
        PROVE  <<Pk[q], r>> \in pairs' <=> \E p \in parents : Pk[p] = Pk[q] /\ r \in ChildrenTold'[p]
    <3>1. <<Pk[q], r>> \in pairs <=> \E p \in parents : Pk[p] = Pk[q] /\ r \in ChildrenTold[p]
      BY <2>2, <2>5 DEF Others
    <3>2. \A p \in Row : p # x => ChildrenTold'[p] = ChildrenTold[p]
      BY <1>1, <1>2 DEF ChildrenTold, ChildTable
    <3>3. CASE Pk[q] # Pk[x]
      <4>1. <<Pk[q], r>> \in pairs' <=> <<Pk[q], r>> \in pairs
        BY <1>3, <3>3
      <4> QED BY <2>4, <3>1, <3>2, <3>3, <4>1
    <3>4. CASE Pk[q] = Pk[x]
      <4>1. /\ r \in ChildrenTold[x] <=> r \in data /\ r \in ChildRows /\ IsJoinMatch(x, r)
            /\ r \in ChildrenTold'[x] <=>
                 r \in Written(data, overlay) /\ r \in ChildRows /\ IsJoinMatch(x, r)
        BY <1>1, <1>2, <1>6 DEF ChildrenTold, ChildTable, Match
      <4>2. <<Pk[q], r>> \in pairs' <=> \/ <<Pk[q], r>> \in pairs /\ r \notin ch.gone
                                        \/ r \in ch.come
        BY <1>3, <1>4, <3>4
      <4>3. CASE r \in ch.gone \cup ch.come
        <5>1. /\ r \in overlay.gone \cup overlay.come /\ r \in ChildRows /\ IsJoinMatch(x, r)
              /\ r \in ch.gone => r \in overlay.gone
              /\ r \in ch.come <=> r \in overlay.come
          BY <1>5, <4>3, OneCorrelation DEF FilterPush, Change
        <5>2. x \notin overlay.gone \cup overlay.come
          BY <2>5, <3>4, <5>1, OneKey
        <5>3. x \in parents
          BY <1>5, <2>2, <5>2, OneKey, ParallelTypes DEF ParentTable
        <5>4. \A p \in parents : Pk[p] = Pk[q] => p = x
          BY <2>4, <3>4, <5>3 DEF Keyed
        <5>5. r \in Written(data, overlay) <=> r \in ch.come
          BY <4>3, <5>1 DEF Written
        <5> QED BY <3>1, <3>4, <4>1, <4>2, <4>3, <5>1, <5>3, <5>4, <5>5
      <4>4. CASE r \notin ch.gone \cup ch.come
        <5>1. ASSUME NEW p \in parents, Pk[p] = Pk[q]
              PROVE  r \in ChildrenTold'[p] <=> r \in ChildrenTold[p]
          <6>1. CASE p = x
            <7>1. r \in ChildRows => (r \in data <=> r \in Written(data, overlay))
              BY <1>2, <1>5, <2>1, <2>5, <4>4, <5>1, OtherParent
            <7> QED BY <4>1, <6>1, <7>1
          <6>2. CASE p # x
            BY <2>4, <3>2, <6>2
          <6> QED BY <6>1, <6>2
        <5> QED BY <3>1, <4>2, <4>4, <5>1
      <4> QED BY <4>3, <4>4
    <3> QED BY <3>3, <3>4
  <2>6. Others(pairs', parents, ChildrenTold')
    BY <2>5 DEF Others
  <2> QED BY <1>3, <2>2, <2>3, <2>6 DEF OthersTold
<1> QED BY <1>7, <1>8, <1>9, <1>10 DEF ParallelInv

(* The child's goroutine is done.                                          *)
LEMMA ParallelPushChildEnd ==
    ASSUME ParallelInv, PushChildEnd
    PROVE  ParallelInv'
<1>1. /\ childPc = "loop" /\ targets = {} /\ childPc' = "done" /\ inprogress' = None
      /\ UNCHANGED <<parallel, data, connected, overlay, rest, pushed, parentPc, position, targets, parents,
                     pairs, fault>>
  BY DEF PushChildEnd, view
<1>2. None \in [gone: SUBSET Row, come: SUBSET Row]
  BY DEF None, Change
<1>3. TypeOK' /\ OverlayInv' /\ RestInv'
  BY <1>1, <1>2 DEF ParallelInv, TypeOK, OverlayInv, RestInv
<1>4. ParallelShape'
  BY <1>1 DEF ParallelInv, ParallelShape
<1>5. ParentTable' = ParentTable /\ ChildrenTold' = ChildrenTold
  BY <1>1 DEF ParentTable, ChildrenTold, ChildTable
<1>6. OthersTold'
  BY <1>1, <1>5 DEF ParallelInv, OthersTold, Running
<1> QED BY <1>3, <1>4, <1>6 DEF ParallelInv

-----------------------------------------------------------------------------
(* An empty table without a query satisfies the invariant.                 *)
LEMMA ParallelInit ==
    ASSUME Init
    PROVE  ParallelInv
<1>1. /\ parallel \in BOOLEAN
      /\ data = {} /\ connected = FALSE /\ overlay = None /\ rest = None /\ pushed = {}
      /\ parentPc = "idle" /\ childPc = "idle" /\ inprogress = None /\ position = NoRow
      /\ targets = {} /\ parents = {} /\ pairs = {} /\ fault = "none"
  BY DEF Init
<1>2. None = [gone |-> {}, come |-> {}] /\ None \in [gone: SUBSET Row, come: SUBSET Row]
  BY DEF None, Change
<1>3. TypeOK
  BY <1>1, <1>2 DEF TypeOK
<1>4. ParallelShape /\ RestInv /\ OthersTold
  BY <1>1 DEF ParallelShape, RestInv, OthersTold
<1>5. OverlayInv
  BY <1>1, <1>2 DEF OverlayInv, Fresh
<1> QED BY <1>3, <1>4, <1>5 DEF ParallelInv

(* Every step of a table that pushes in parallel keeps the invariant.      *)
LEMMA ParallelNext ==
    ASSUME parallel, ParallelInv, [Next]_vars
    PROVE  ParallelInv'
<1>1. ASSUME NEW ch \in SourceChange, Push(ch) PROVE ParallelInv'
  BY <1>1, ParallelPush
<1>2. ASSUME NEW ch \in SourceChange, PushUnobserved(ch) PROVE ParallelInv'
  BY <1>2, ParallelPushUnobserved
<1>3. CASE PushParent
  BY <1>3, ParallelPushParent
<1>4. CASE PushParentRaces
  BY <1>4, ParallelPushParentRaces
<1>5. CASE PushParentRaced
  BY <1>5, ParallelPushParentRaced
<1>6. CASE PushChild
  BY <1>6, ParallelPushChild
<1>7. CASE PushChildNext
  BY <1>7, ParallelPushChildNext
<1>8. CASE PushChildEnd
  BY <1>8, ParallelPushChildEnd
<1>9. CASE writeChange
  BY <1>9, ParallelWrite
<1>10. CASE AddQuery
  BY <1>10, ParallelAddQuery
<1>11. CASE RemoveQuery
  BY <1>11, ParallelRemoveQuery
<1>12. CASE UNCHANGED vars
  <2>1. UNCHANGED <<parallel, data, connected, overlay, rest, pushed, parentPc, childPc, inprogress,
                    position, targets, parents, pairs, fault>>
    BY <1>12 DEF vars, join, view
  <2>2. TypeOK' /\ OverlayInv' /\ RestInv'
    BY <2>1 DEF ParallelInv, TypeOK, OverlayInv, RestInv
  <2>3. VisibleParents' = VisibleParents
    BY <2>1 DEF VisibleParents, Visible
  <2>4. ParallelShape'
    BY <2>1, <2>3 DEF ParallelInv, ParallelShape, Touches
  <2>5. ParentTable' = ParentTable /\ ChildrenTold' = ChildrenTold
    BY <2>1 DEF ParentTable, ChildrenTold, ChildTable
  <2>6. OthersTold'
    BY <2>1, <2>5 DEF ParallelInv, OthersTold, Running
  <2> QED BY <2>2, <2>4, <2>6 DEF ParallelInv
<1> QED BY <1>1, <1>2, <1>3, <1>4, <1>5, <1>6, <1>7, <1>8, <1>9, <1>10, <1>11, <1>12 DEF Next

RacingInv == parallel => ParallelInv

(* The invariant holds throughout, with parallel pushes.                   *)
LEMMA ParallelInvariance == Spec => []RacingInv
<1>1. Init => RacingInv
  BY ParallelInit DEF RacingInv
<1>2. RacingInv /\ [Next]_vars => RacingInv'
  BY ParallelNext, ParallelKept DEF RacingInv
<1> QED BY <1>1, <1>2, PTL DEF Spec

(* When no push runs, a fetch returns what the invariant says has been     *)
(* told, a row as its own child apart.                                     *)
LEMMA ParallelOthersCorrect ==
    ASSUME ParallelInv
    PROVE  OthersCorrect
<1>1. SUFFICES ASSUME connected, Idle
               PROVE  /\ parents = VisibleParents
                      /\ \A q, r \in Row :
                            Pk[q] # Pk[r] => (<<Pk[q], r>> \in pairs <=> <<Pk[q], r>> \in FetchedPairs)
  BY DEF OthersCorrect
<1>2. parentPc = "idle" /\ Running /\ childPc = "idle" /\ overlay = None /\ inprogress = None
  BY <1>1 DEF Idle, ParallelInv, ParallelShape
<1>3. Written(data, overlay) = data
  BY <1>2, ParallelTypes DEF Written, None, Change
<1>4. parents = VisibleParents /\ Others(pairs, parents, ChildrenTold)
  BY <1>1, <1>2, <1>3, ParallelTypes DEF ParallelInv, OthersTold, ParentTable
<1>5. \A p \in VisibleParents : ChildStream(p) = ChildrenTold[p]
  BY <1>2, <1>3, ParallelTypes DEF ChildStream, StillToCome, FetchedChildren, ChildrenTold,
     ChildTable, Match
<1>6. ASSUME NEW q \in Row, NEW r \in Row, Pk[q] # Pk[r]
      PROVE  <<Pk[q], r>> \in pairs <=> <<Pk[q], r>> \in FetchedPairs
  <2>1. <<Pk[q], r>> \in FetchedPairs <=>
          \E p \in VisibleParents : Pk[p] = Pk[q] /\ r \in ChildrenTold[p]
    BY <1>5 DEF FetchedPairs, PairsOf
  <2> QED BY <1>4, <1>6, <2>1 DEF Others
<1> QED BY <1>4, <1>6

(* However a table pushes, it keeps its primary keys unique and the state  *)
(* of MemorySource, of the Join and of the output keeps its types,         *)
(* whatever ADDs, REMOVEs and EDITs are pushed.                            *)
THEOREM TypeCorrectness ==
    Spec => []TypeOK
<1>1. SequentialInv /\ RacingInv => TypeOK
  BY DEF SequentialInv, RacingInv, Inv, ParallelInv
<1> QED BY <1>1, Invariance, ParallelInvariance, PTL

(* However a table pushes, one connection after the other or all at once   *)
(* with the data race on the Join's fields, the output is, between two     *)
(* pushes and unless one of them panicked, what a fresh hydration would    *)
(* return: all parents, and all children except a row under itself.        *)
THEOREM OthersStayCorrect ==
    Spec => []OthersCorrect
<1>1. ASSUME SequentialInv, ~parallel PROVE OthersCorrect
  <2>1. SUFFICES ASSUME connected, Idle PROVE parents = VisibleParents /\ pairs = FetchedPairs
    BY DEF OthersCorrect
  <2>2. Inv
    BY <1>1 DEF SequentialInv
  <2>3. childPc = "idle"
    BY <2>1, <2>2 DEF Idle, Inv, Shape
  <2> QED BY <1>1, <2>1, <2>2, <2>3, FetchMatches DEF FetchMatchesOutput
<1>2. ASSUME RacingInv, parallel PROVE OthersCorrect
  BY <1>2, ParallelOthersCorrect DEF RacingInv
<1>3. SequentialInv /\ RacingInv => OthersCorrect
  BY <1>1, <1>2
<1> QED BY <1>3, Invariance, ParallelInvariance, PTL

=============================================================================
