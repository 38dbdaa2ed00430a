----------------------------- MODULE TakeProofs -----------------------------
(***************************************************************************)
(* Proofs about Take for every table, limit and set of partitions.         *)
(***************************************************************************)
EXTENDS Take, FiniteSetTheorems, WellFoundedInduction, TLAPS

-----------------------------------------------------------------------------
(* Rows of distinct ranks.                                                 *)
Sorted(T) == \A r, s \in T : Rank[r] = Rank[s] => r = s

(* What a stored size s and bound b say of the rows T of a partition: b is *)
(* the rank of a row, s rows sort at or before it, and nothing sorts after *)
(* it while there is room.                                                 *)
Window(T, s, b) ==
    /\ s = Cardinality(AtOrBefore(T, b))
    /\ s <= Limit
    /\ s < Limit => AtOrBefore(T, b) = T
    /\ b # Nil => \E r \in T : Rank[r] = b

(* A set of rows with one row more, one less, one exchanged.               *)
With(T, r)    == T \cup {r}
Without(T, r) == T \ {r}
Swap(T, x, y) == (T \ {x}) \cup {y}

(* The bound a partition has once the running push is over.                *)
EventualBound(p) ==
    IF pending # NoRow /\ Part[pending] = p /\ hidden = NoRow
    THEN Rank[pending]
    ELSE bound[p]

(* The inductive invariant, in parts.                                      *)

StatesHydrated ==
    /\ \A p \in Partition : p \notin hasState => view[p] = {} /\ bound[p] = Nil
    /\ hasState # {} => Limit # 0

WindowsInv ==
    \A p \in hasState : Window(InPartition(source, p), size[p], EventualBound(p))

ViewInv ==
    \A p \in hasState :
        view[p] = AtOrBefore(InPartition(source, p), EventualBound(p)) \ {pending}

(* A row still to be added is in the input: hidden below the stored bound, *)
(* or the next row after it.                                               *)
PendingInv ==
    /\ hidden \in {NoRow, pending}
    /\ pending # NoRow =>
         /\ pending \in source
         /\ Part[pending] \in hasState
         /\ IF hidden # NoRow
            THEN Rank[pending] <= bound[Part[pending]]
            ELSE /\ bound[Part[pending]] # Nil
                 /\ pending \in First(After(InPartition(source, Part[pending]),
                                            bound[Part[pending]]))

MaxBoundInv == \A p \in Partition : bound[p] <= maxBound

Inv ==
    /\ TypeOK
    /\ NoFault
    /\ Sorted(source)
    /\ StatesHydrated
    /\ WindowsInv
    /\ ViewInv
    /\ PendingInv
    /\ MaxBoundInv

-----------------------------------------------------------------------------
(* A non-empty set of natural numbers has a least element.                 *)
LEMMA LeastNat ==
    ASSUME NEW T \in SUBSET Nat, T # {}
    PROVE  \E m \in T : \A y \in T : m <= y
<1>1. \A a, b \in Nat : a < b => <<a, b>> \in OpToRel(<, Nat)
  BY DEF OpToRel
<1>2. \E m \in T : \A y \in T : ~ (<<y, m>> \in OpToRel(<, Nat))
  BY NatLessThanWellFounded, WFMin
<1>3. PICK m \in T : \A y \in T : ~ (<<y, m>> \in OpToRel(<, Nat))
  BY <1>2
<1>4. ASSUME NEW y \in T PROVE m <= y
  <2>1. ~ (y < m)
    BY <1>1, <1>3
  <2> QED BY <2>1
<1> QED BY <1>4

(* A non-empty set of rows has a first row: ranks are natural numbers.     *)
LEMMA FirstExists ==
    ASSUME NEW T \in SUBSET Row, T # {}
    PROVE  First(T) # {}
<1> DEFINE Ranks == {Rank[r] : r \in T}
<1>1. Ranks \in SUBSET Nat /\ Ranks # {}
  BY TakeAssumption
<1>2. PICK m \in Ranks : \A y \in Ranks : m <= y
  BY <1>1, LeastNat
<1>3. PICK r \in T : Rank[r] = m
  OBVIOUS
<1>4. r \in First(T)
  BY <1>2, <1>3 DEF First
<1> QED BY <1>4

(* A non-empty set of rows bounded by a rank has a last row.               *)
LEMMA LastExists ==
    ASSUME NEW T \in SUBSET Row, T # {}, NEW b \in Nat, \A r \in T : Rank[r] <= b
    PROVE  Last(T) # {}
<1> DEFINE Gaps == {b - Rank[r] : r \in T}
<1>1. Gaps \in SUBSET Nat /\ Gaps # {}
  BY TakeAssumption
<1>2. PICK m \in Gaps : \A y \in Gaps : m <= y
  BY <1>1, LeastNat
<1>3. PICK r \in T : b - Rank[r] = m
  OBVIOUS
<1>4. ASSUME NEW s \in T PROVE Rank[s] <= Rank[r]
  <2>1. m <= b - Rank[s]
    BY <1>2
  <2> QED BY <2>1, <1>3, TakeAssumption
<1>5. r \in Last(T)
  BY <1>4 DEF Last
<1> QED BY <1>5

(* The rows a window describes are those a fresh hydration returns.        *)
LEMMA WindowIsInitialWindow ==
    ASSUME NEW T \in SUBSET Row, IsFiniteSet(T), NEW s \in Nat, NEW b \in Nat,
           Window(T, s, b)
    PROVE  AtOrBefore(T, b) = InitialWindow(T)
<1> DEFINE W == AtOrBefore(T, b)
<1>1. W \in SUBSET T /\ IsFiniteSet(W)
  BY FS_Subset DEF AtOrBefore
<1>2. ASSUME NEW r \in W PROVE Cardinality(Before(T, Rank[r])) < Limit
  <2>1. Before(T, Rank[r]) \in SUBSET (W \ {r})
    BY TakeAssumption DEF AtOrBefore, Before
  <2>2. IsFiniteSet(W \ {r}) /\ Cardinality(W \ {r}) = Cardinality(W) - 1
    BY <1>1, FS_RemoveElement
  <2>3. Cardinality(Before(T, Rank[r])) <= Cardinality(W \ {r})
    BY <2>1, <2>2, FS_Subset
  <2>4. Cardinality(Before(T, Rank[r])) \in Nat
    BY <2>1, <2>2, FS_Subset, FS_CardinalityType
  <2> QED BY <2>2, <2>3, <2>4, TakeAssumption DEF Window
<1>3. ASSUME NEW r \in T, r \notin W PROVE ~(Cardinality(Before(T, Rank[r])) < Limit)
  <2>1. s = Limit
    BY <1>3, TakeAssumption DEF Window
  <2>2. Before(T, Rank[r]) \in SUBSET T /\ IsFiniteSet(Before(T, Rank[r]))
    BY FS_Subset DEF Before
  <2>3. W \in SUBSET Before(T, Rank[r])
    BY <1>3, TakeAssumption DEF AtOrBefore, Before
  <2>4. Cardinality(W) <= Cardinality(Before(T, Rank[r]))
    BY <2>2, <2>3, FS_Subset
  <2>5. Cardinality(Before(T, Rank[r])) \in Nat
    BY <2>2, FS_CardinalityType
  <2> QED BY <2>1, <2>4, <2>5, TakeAssumption DEF Window
<1> QED BY <1>1, <1>2, <1>3 DEF InitialWindow

-----------------------------------------------------------------------------
(* What each kind of change does to a window.  T are the rows of the       *)
(* partition before the change, T2 after it, W the rows in the window.     *)

(* Replacing one element by another keeps the cardinality.                 *)
LEMMA CardinalitySwap ==
    ASSUME NEW W, IsFiniteSet(W), NEW x \in W, NEW y, y \notin W
    PROVE  /\ IsFiniteSet((W \ {x}) \cup {y})
           /\ Cardinality((W \ {x}) \cup {y}) = Cardinality(W)
<1>1. IsFiniteSet(W \ {x}) /\ Cardinality(W \ {x}) = Cardinality(W) - 1
  BY FS_RemoveElement
<1>2. Cardinality((W \ {x}) \cup {y}) = Cardinality(W \ {x}) + 1
  BY <1>1, FS_AddElement
<1>3. Cardinality(W) \in Nat
  BY FS_CardinalityType
<1> QED BY <1>1, <1>2, <1>3, FS_AddElement

(* The rows of a window are finitely many rows of T; a window that leaves  *)
(* a row out is full.                                                      *)
LEMMA WindowFacts ==
    ASSUME NEW T \in SUBSET Row, IsFiniteSet(T), NEW s \in Nat, NEW b \in Nat,
           Window(T, s, b)
    PROVE  /\ AtOrBefore(T, b) \in SUBSET T
           /\ IsFiniteSet(AtOrBefore(T, b))
           /\ s = Cardinality(AtOrBefore(T, b))
           /\ \A r \in T : Rank[r] > b => s = Limit
<1>1. AtOrBefore(T, b) \in SUBSET T
  BY DEF AtOrBefore
<1>2. IsFiniteSet(AtOrBefore(T, b))
  BY <1>1, FS_Subset
<1>3. ASSUME NEW r \in T, Rank[r] > b PROVE s = Limit
  BY <1>3, TakeAssumption DEF Window, AtOrBefore
<1> QED BY <1>1, <1>2, <1>3 DEF Window

(* A full window of one row holds the bound row alone.                     *)
LEMMA SingleRowWindow ==
    ASSUME NEW T \in SUBSET Row, IsFiniteSet(T), NEW s \in Nat, NEW b \in Nat,
           Window(T, s, b), NEW x \in T, Rank[x] = b, Limit = 1
    PROVE  AtOrBefore(T, b) = {x}
<1>1. IsFiniteSet(AtOrBefore(T, b)) /\ Cardinality(AtOrBefore(T, b)) <= 1
  BY WindowFacts DEF Window
<1>2. x \in AtOrBefore(T, b)
  BY TakeAssumption DEF AtOrBefore
<1>3. Cardinality(AtOrBefore(T, b)) # 0 /\ Cardinality(AtOrBefore(T, b)) \in Nat
  BY <1>1, <1>2, FS_EmptySet, FS_CardinalityType
<1>4. Cardinality(AtOrBefore(T, b)) = 1
  BY <1>1, <1>3
<1>5. \E y : AtOrBefore(T, b) = {y}
  BY <1>1, <1>4, FS_Singleton
<1> QED BY <1>2, <1>5

(* How a window is established.                                            *)
LEMMA MakeWindow ==
    ASSUME NEW T, NEW s, NEW V, NEW r \in T,
           AtOrBefore(T, Rank[r]) = V, Cardinality(V) = s,
           s <= Limit, s < Limit => V = T
    PROVE  Window(T, s, Rank[r])
BY DEF Window

(* A row added while there is room joins the window.                       *)
LEMMA AddWithRoomWindow ==
    ASSUME NEW T \in SUBSET Row, IsFiniteSet(T), NEW s \in Nat, NEW b \in Nat,
           Window(T, s, b), NEW r \in Row, Unused(r, T), s < Limit,
           NEW c \in Nat, c = b \/ c = Rank[r], b <= c, Rank[r] <= c,
           NEW s2 \in Nat, s2 = s + 1
    PROVE  /\ Window(With(T, r), s2, c)
           /\ AtOrBefore(With(T, r), c) = With(AtOrBefore(T, b), r)
<1> USE DEF With
<1>1. AtOrBefore(T, b) = T /\ s = Cardinality(T)
  BY DEF Window
<1>2. AtOrBefore(T \cup {r}, c) = T \cup {r}
  BY <1>1, TakeAssumption DEF AtOrBefore, Nil
<1>3. Cardinality(T \cup {r}) = s2
  BY <1>1, FS_AddElement DEF Unused
<1>4. PICK x \in T \cup {r} : Rank[x] = c
  BY TakeAssumption DEF Window, Nil
<1>5. s2 <= Limit
  BY TakeAssumption
<1>6. Window(T \cup {r}, s2, Rank[x])
  BY <1>2, <1>3, <1>4, <1>5, MakeWindow
<1> QED BY <1>1, <1>2, <1>4, <1>6

(* A row added past the bound of a full window leaves it as it was.        *)
LEMMA AddOutsideWindow ==
    ASSUME NEW T \in SUBSET Row, IsFiniteSet(T), NEW s \in Nat, NEW b \in Nat,
           Window(T, s, b), NEW r \in Row, Unused(r, T), s >= Limit,
           b = Nil \/ Rank[r] >= b
    PROVE  /\ Window(With(T, r), s, b)
           /\ AtOrBefore(With(T, r), b) = AtOrBefore(T, b)
<1> USE DEF With
<1>1. Rank[r] > b
  BY TakeAssumption DEF Window, Unused, Nil
<1>2. AtOrBefore(T \cup {r}, b) = AtOrBefore(T, b)
  BY <1>1, TakeAssumption DEF AtOrBefore
<1> QED BY <1>2, TakeAssumption DEF Window

(* A row entering a full window below its bound row x: the new bound is    *)
(* the last of the remaining rows.  Also the case of an edit that moves a  *)
(* row into the window.                                                    *)
LEMMA DisplacingWindow ==
    ASSUME NEW T \in SUBSET Row, IsFiniteSet(T), Sorted(T), NEW s \in Nat, NEW b \in Nat,
           Window(T, s, b), s = Limit,
           NEW r \in Row, r \notin AtOrBefore(T, b), Rank[r] < b,
           NEW x \in T, Rank[x] = b,
           NEW T2 \in SUBSET Row, AtOrBefore(T2, b) = With(AtOrBefore(T, b), r),
           NEW c \in Last(Without(AtOrBefore(T2, b), x))
    PROVE  /\ Window(T2, s, Rank[c])
           /\ AtOrBefore(T2, Rank[c]) = Swap(AtOrBefore(T, b), x, r)
<1> USE DEF With, Without, Swap
<1> DEFINE W == AtOrBefore(T, b)
<1>1. x \in W /\ x # r
  BY TakeAssumption DEF AtOrBefore
<1>2. AtOrBefore(T2, b) \ {x} = (W \ {x}) \cup {r}
  BY <1>1
<1>3. c \in T2 /\ c \in Row /\ Rank[c] <= b /\ c # x
  BY DEF Last, AtOrBefore
<1>4. \A y \in AtOrBefore(T2, b) : y # x => Rank[y] <= Rank[c]
  BY DEF Last
<1>5. Rank[c] < b
  <2>1. c \in W \/ c = r
    BY <1>2 DEF Last
  <2>2. c \in W => c \in T
    BY DEF AtOrBefore
  <2>3. c \in T => Rank[c] # Rank[x]
    BY <1>3 DEF Sorted
  <2> QED BY <1>3, <2>1, <2>2, <2>3, TakeAssumption
<1>6. AtOrBefore(T2, Rank[c]) = AtOrBefore(T2, b) \ {x}
  <2>1. ASSUME NEW y \in AtOrBefore(T2, Rank[c]) PROVE y \in AtOrBefore(T2, b) \ {x}
    <3>1. y \in T2 /\ Rank[y] <= Rank[c]
      BY DEF AtOrBefore
    <3>2. Rank[y] < b
      BY <1>3, <1>5, <3>1, TakeAssumption
    <3>3. y \in {z \in T2 : Rank[z] <= b}
      BY <3>1, <3>2, TakeAssumption
    <3> QED BY <3>2, <3>3, TakeAssumption DEF AtOrBefore
  <2>2. ASSUME NEW y \in AtOrBefore(T2, b) \ {x} PROVE y \in AtOrBefore(T2, Rank[c])
    BY <1>4 DEF AtOrBefore
  <2> QED BY <2>1, <2>2
<1>7. IsFiniteSet(W) /\ Cardinality(W) = s
  BY WindowFacts
<1>8. Cardinality((W \ {x}) \cup {r}) = s
  BY <1>1, <1>7, CardinalitySwap
<1>9. AtOrBefore(T2, Rank[c]) = (W \ {x}) \cup {r}
  BY <1>2, <1>6
<1>10. s <= Limit /\ ~(s < Limit)
  BY TakeAssumption
<1>11. Window(T2, s, Rank[c])
  <2> HIDE DEF W
  <2> QED BY <1>3, <1>8, <1>9, <1>10, MakeWindow
<1> QED BY <1>9, <1>11

(* The bound row moved or a row left, and the next row n after the old     *)
(* bound fills the gap: U are the rows of the window that stay.            *)
LEMMA RefillingWindow ==
    ASSUME NEW T \in SUBSET Row, IsFiniteSet(T), NEW s \in Nat, NEW b \in Nat,
           Window(T, s, b), NEW g \in T, Rank[g] <= b,
           NEW T2 \in SUBSET Row, Sorted(T2),
           AtOrBefore(T2, b) = Without(AtOrBefore(T, b), g),
           NEW n \in First(After(T2, b)),
           s < Limit => T2 = With(AtOrBefore(T2, b), n),
           n \notin AtOrBefore(T, b)
    PROVE  /\ Window(T2, s, Rank[n])
           /\ AtOrBefore(T2, Rank[n]) = Swap(AtOrBefore(T, b), g, n)
<1> USE DEF With, Without, Swap
<1> DEFINE W == AtOrBefore(T, b)
<1>1. n \in T2 /\ Rank[n] > b /\ Rank[n] \in Nat
  BY TakeAssumption DEF First, After
<1>2. \A y \in T2 : Rank[y] > b => Rank[n] <= Rank[y]
  BY DEF First, After
<1>3. ASSUME NEW y \in T2 PROVE y \in AtOrBefore(T2, Rank[n]) <=> y \in AtOrBefore(T2, b) \/ y = n
  <2>1. Rank[y] \in Nat
    BY TakeAssumption
  <2>2. Rank[y] = Rank[n] => y = n
    BY <1>1 DEF Sorted
  <2>3. Rank[y] <= Rank[n] <=> Rank[y] <= b \/ y = n
    BY <1>1, <1>2, <2>1, <2>2
  <2>4. y \in AtOrBefore(T2, Rank[n]) <=> Rank[y] <= Rank[n]
    BY DEF AtOrBefore
  <2>5. y \in AtOrBefore(T2, b) <=> Rank[y] <= b
    <3> HIDE DEF W
    <3> QED BY DEF AtOrBefore
  <2> QED BY <2>3, <2>4, <2>5
<1>4. AtOrBefore(T2, Rank[n]) \subseteq T2 /\ AtOrBefore(T2, b) \subseteq T2
  BY DEF AtOrBefore
<1>5. AtOrBefore(T2, Rank[n]) = (W \ {g}) \cup {n}
  BY <1>1, <1>3, <1>4
<1>6. IsFiniteSet(W) /\ Cardinality(W) = s /\ s <= Limit
  BY WindowFacts DEF Window
<1>7. g \in W
  BY DEF AtOrBefore
<1>8. Cardinality((W \ {g}) \cup {n}) = s
  BY <1>6, <1>7, CardinalitySwap
<1>9. s < Limit => (W \ {g}) \cup {n} = T2
  OBVIOUS
<1>10. Window(T2, s, Rank[n])
  <2> HIDE DEF W
  <2> QED BY <1>1, <1>5, <1>6, <1>8, <1>9, MakeWindow
<1> QED BY <1>5, <1>10

(* A row leaves a window that held every row.                              *)
LEMMA ShrinkingWindow ==
    ASSUME NEW T \in SUBSET Row, IsFiniteSet(T), NEW s \in Nat, NEW b \in Nat,
           Window(T, s, b), NEW r \in T, Rank[r] <= b, AtOrBefore(T, b) = T,
           NEW c \in Without(T, r), \A y \in Without(T, r) : Rank[y] <= Rank[c],
           NEW s2, s2 = s - 1
    PROVE  /\ s2 \in Nat
           /\ Window(Without(T, r), s2, Rank[c])
           /\ AtOrBefore(Without(T, r), Rank[c]) = Without(AtOrBefore(T, b), r)
<1>1. AtOrBefore(Without(T, r), Rank[c]) = Without(T, r)
  BY DEF AtOrBefore
<1>2. Cardinality(Without(T, r)) = s2 /\ s <= Limit
  BY FS_RemoveElement DEF Window, Without
<1>3. Cardinality(Without(T, r)) \in Nat
  BY FS_RemoveElement, FS_CardinalityType DEF Without
<1>4. s2 \in Nat /\ s2 <= Limit
  BY <1>2, <1>3, TakeAssumption
<1>5. Window(Without(T, r), s2, Rank[c])
  BY <1>1, <1>2, <1>4, MakeWindow
<1> QED BY <1>1, <1>4, <1>5

(* The last row leaves.                                                    *)
LEMMA EmptyWindow == Window({}, 0, Nil) /\ AtOrBefore({}, Nil) = {}
BY FS_EmptySet, TakeAssumption DEF Window, AtOrBefore, Nil

(* A row outside the window leaves or moves.                               *)
LEMMA UntouchedWindow ==
    ASSUME NEW T \in SUBSET Row, IsFiniteSet(T), NEW s \in Nat, NEW b \in Nat,
           Window(T, s, b), NEW g \in T, Rank[g] > b,
           NEW T2 \in SUBSET Row, T \ {g} \subseteq T2,
           \A y \in T2 : y \in T \ {g} \/ Rank[y] > b
    PROVE  /\ Window(T2, s, b)
           /\ AtOrBefore(T2, b) = AtOrBefore(T, b)
<1>1. AtOrBefore(T2, b) = AtOrBefore(T, b)
  BY TakeAssumption DEF AtOrBefore
<1>2. s = Limit
  BY WindowFacts
<1>3. b # Nil => \E x \in T2 : Rank[x] = b
  BY TakeAssumption DEF Window
<1> QED BY <1>1, <1>2, <1>3, TakeAssumption DEF Window

(* A row of the window is replaced by a version that stays in it; c is the *)
(* last row of the window afterwards.                                      *)
LEMMA ReplacingWindow ==
    ASSUME NEW T \in SUBSET Row, IsFiniteSet(T), NEW s \in Nat, NEW b \in Nat,
           Window(T, s, b), NEW old \in T, Rank[old] <= b,
           NEW new \in Row, new \notin T,
           NEW c \in Swap(T, old, new),
           AtOrBefore(Swap(T, old, new), Rank[c]) = Swap(AtOrBefore(T, b), old, new)
    PROVE  Window(Swap(T, old, new), s, Rank[c])
<1> DEFINE W == AtOrBefore(T, b)
<1>1. IsFiniteSet(W) /\ Cardinality(W) = s /\ s <= Limit /\ W \subseteq T
  BY WindowFacts DEF Window
<1>2. old \in W /\ new \notin W
  BY <1>1 DEF AtOrBefore
<1>3. Cardinality(Swap(W, old, new)) = s
  BY <1>1, <1>2, CardinalitySwap DEF Swap
<1>4. s < Limit => Swap(W, old, new) = Swap(T, old, new)
  <2>1. s < Limit => W = T
    BY DEF Window
  <2> QED BY <2>1
<1> HIDE DEF W
<1> QED BY <1>1, <1>3, <1>4, MakeWindow DEF W

-----------------------------------------------------------------------------
(* How a push preserves the invariant.                                     *)

(* The rows of the partitions a change does not touch.                     *)
OthersKept(q) ==
    \A p \in Partition \ {q} : InPartition(source', p) = InPartition(source, p)

(* A step that starts on an idle Take and answers for the hydrated         *)
(* partition q with at most one change now and one later preserves Inv if  *)
(* it leaves q with a window and the output with its rows but the pending  *)
(* one.                                                                    *)
LEMMA PushStep ==
    ASSUME Inv, pending = NoRow,
           NEW q \in hasState, NEW s \in Nat, NEW b \in Nat, NEW e \in Nat, NEW V,
           source' \in SUBSET Row, IsFiniteSet(source'), Sorted(source)',
           OthersKept(q),
           hasState' = hasState,
           size' = [size EXCEPT ![q] = s],
           bound' = [bound EXCEPT ![q] = b],
           maxBound' \in Nat, maxBound <= maxBound', b <= maxBound',
           view' = [view EXCEPT ![q] = V],
           fault' = "none",
           pending' \in Row \cup {NoRow},
           pending' # NoRow => Part[pending'] = q,
           PendingInv',
           e = IF pending' # NoRow /\ hidden' = NoRow THEN Rank[pending'] ELSE b,
           Window(InPartition(source', q), s, e),
           V = AtOrBefore(InPartition(source', q), e) \ {pending'}
    PROVE  Inv'
<1>1. hidden = NoRow
  BY DEF Inv, PendingInv
<1>2. V \in SUBSET Row
  BY DEF AtOrBefore, InPartition
<1>3. hidden' \in Row \cup {NoRow}
  BY DEF PendingInv
<1>4. TypeOK'
  BY <1>2, <1>3 DEF Inv, TypeOK
<1>5. NoFault'
  BY DEF NoFault
<1>6. StatesHydrated'
  BY DEF Inv, TypeOK, StatesHydrated
<1>7. \A p \in hasState : p # q => EventualBound(p)' = EventualBound(p)
  BY <1>1 DEF EventualBound, Inv, TypeOK
<1>8. EventualBound(q)' = e
  BY <1>1 DEF EventualBound, Inv, TypeOK
<1>9. WindowsInv'
  <2> SUFFICES ASSUME NEW p \in hasState
               PROVE  Window(InPartition(source, p), size[p], EventualBound(p))'
    BY DEF WindowsInv
  <2>1. CASE p = q
    BY <1>8, <2>1 DEF Window, InPartition, AtOrBefore, Inv, TypeOK
  <2>2. CASE p # q
    <3>1. Window(InPartition(source, p), size[p], EventualBound(p))
      BY DEF Inv, WindowsInv
    <3>2. InPartition(source', p) = InPartition(source, p)
      BY <2>2 DEF OthersKept, Inv, TypeOK
    <3>3. size'[p] = size[p]
      BY <2>2 DEF Inv, TypeOK
    <3> QED BY <1>7, <2>2, <3>1, <3>2, <3>3 DEF Window, AtOrBefore, InPartition
  <2> QED BY <2>1, <2>2
<1>10. ViewInv'
  <2> SUFFICES ASSUME NEW p \in hasState
               PROVE  (view[p] = AtOrBefore(InPartition(source, p), EventualBound(p)) \ {pending})'
    BY DEF ViewInv
  <2>1. CASE p = q
    BY <1>8, <2>1 DEF InPartition, AtOrBefore, Inv, TypeOK
  <2>2. CASE p # q
    <3>1. view[p] = AtOrBefore(InPartition(source, p), EventualBound(p)) \ {pending}
      BY DEF Inv, ViewInv
    <3>2. InPartition(source', p) = InPartition(source, p)
      BY <2>2 DEF OthersKept, Inv, TypeOK
    <3>3. view'[p] = view[p]
      BY <2>2 DEF Inv, TypeOK
    <3>4. pending \notin AtOrBefore(InPartition(source, p), EventualBound(p))
      BY TakeAssumption DEF Inv, TypeOK, InPartition, AtOrBefore
    <3>5. pending' \notin AtOrBefore(InPartition(source, p), EventualBound(p))
      BY <2>2, TakeAssumption DEF Inv, TypeOK, InPartition, AtOrBefore
    <3> QED BY <1>7, <2>2, <3>1, <3>2, <3>3, <3>4, <3>5 DEF AtOrBefore, InPartition
  <2> QED BY <2>1, <2>2
<1>11. MaxBoundInv'
  BY DEF Inv, TypeOK, MaxBoundInv
<1> QED BY <1>4, <1>5, <1>6, <1>9, <1>10, <1>11 DEF Inv

(* What Inv says of a hydrated partition while Take is idle.               *)
LEMMA IdleFacts ==
    ASSUME Inv, pending = NoRow, NEW q \in hasState
    PROVE  /\ hidden = NoRow
           /\ InPartition(source, q) \in SUBSET Row
           /\ IsFiniteSet(InPartition(source, q))
           /\ Sorted(InPartition(source, q))
           /\ size[q] \in Nat /\ bound[q] \in Nat
           /\ Window(InPartition(source, q), size[q], bound[q])
           /\ view[q] = AtOrBefore(InPartition(source, q), bound[q])
           /\ bound[q] <= maxBound /\ maxBound \in Nat
           /\ Limit # 0
           /\ q \in Partition
           /\ fault = "none"
<1>1. hidden = NoRow
  BY DEF Inv, PendingInv
<1>2. EventualBound(q) = bound[q]
  BY DEF EventualBound
<1>3. InPartition(source, q) \in SUBSET source
  BY DEF InPartition
<1>4. IsFiniteSet(InPartition(source, q))
  BY <1>3, FS_Subset DEF Inv, TypeOK
<1>5. pending \notin AtOrBefore(InPartition(source, q), bound[q])
  BY TakeAssumption DEF InPartition, AtOrBefore, Inv, TypeOK
<1>6. view[q] = AtOrBefore(InPartition(source, q), bound[q])
  BY <1>2, <1>5 DEF Inv, ViewInv
<1>7. Window(InPartition(source, q), size[q], bound[q])
  BY <1>2 DEF Inv, WindowsInv
<1>8. Sorted(InPartition(source, q))
  BY <1>3 DEF Inv, Sorted
<1> QED BY <1>1, <1>3, <1>4, <1>6, <1>7, <1>8
        DEF Inv, TypeOK, StatesHydrated, MaxBoundInv, NoFault

(* A change to a partition without take state is dropped.                  *)
LEMMA DropUnhydrated ==
    ASSUME Inv, pending = NoRow, NEW q \in Partition, q \notin hasState,
           source' \in SUBSET Row, IsFiniteSet(source'), Sorted(source)',
           OthersKept(q), Drop
    PROVE  Inv'
<1> USE DEF Drop, keepTakeState
<1>1. TypeOK' /\ NoFault' /\ StatesHydrated' /\ MaxBoundInv' /\ PendingInv'
  BY DEF Inv, TypeOK, NoFault, StatesHydrated, MaxBoundInv, PendingInv
<1>2. \A p \in hasState : InPartition(source', p) = InPartition(source, p)
  BY DEF OthersKept, Inv, TypeOK
<1>3. \A p \in hasState : EventualBound(p)' = EventualBound(p)
  BY DEF EventualBound
<1>4. WindowsInv'
  BY <1>2, <1>3 DEF Inv, WindowsInv, Window, AtOrBefore, InPartition
<1>5. ViewInv'
  BY <1>2, <1>3 DEF Inv, ViewInv, AtOrBefore, InPartition
<1> QED BY <1>1, <1>4, <1>5 DEF Inv

(* A change outside the window of a hydrated partition is dropped.         *)
LEMMA DropOutside ==
    ASSUME Inv, pending = NoRow, NEW q \in hasState,
           source' \in SUBSET Row, IsFiniteSet(source'), Sorted(source)',
           OthersKept(q), Drop,
           Window(InPartition(source', q), size[q], bound[q]),
           AtOrBefore(InPartition(source', q), bound[q])
             = AtOrBefore(InPartition(source, q), bound[q])
    PROVE  Inv'
<1>1. /\ size' = [size EXCEPT ![q] = size[q]]
      /\ bound' = [bound EXCEPT ![q] = bound[q]]
      /\ view' = [view EXCEPT ![q] = view[q]]
  BY DEF Inv, TypeOK, Drop, keepTakeState
<1>2. pending' = NoRow /\ hidden' = NoRow /\ fault' = "none" /\ hasState' = hasState
  BY IdleFacts DEF Drop, keepTakeState
<1>0. /\ maxBound' \in Nat /\ maxBound <= maxBound' /\ bound[q] <= maxBound'
      /\ size[q] \in Nat /\ bound[q] \in Nat
  BY DEF Drop, keepTakeState, Inv, TypeOK, MaxBoundInv
<1>3. PendingInv'
  BY <1>2 DEF PendingInv
<1>4. view[q] = AtOrBefore(InPartition(source', q), bound[q]) \ {pending'}
  <2>1. NoRow \notin AtOrBefore(InPartition(source', q), bound[q])
    BY TakeAssumption DEF AtOrBefore, InPartition
  <2> QED BY <1>2, <2>1, IdleFacts
<1> QED BY <1>0, <1>1, <1>2, <1>3, <1>4, PushStep

(* Storing a state keeps maxBound above every bound.                       *)
LEMMA SetTakeStateFacts ==
    ASSUME Inv, NEW q \in hasState, NEW s \in Nat, NEW b \in Nat, setTakeState(q, s, b)
    PROVE  /\ hasState' = hasState
           /\ size' = [size EXCEPT ![q] = s]
           /\ bound' = [bound EXCEPT ![q] = b]
           /\ maxBound' \in Nat /\ maxBound <= maxBound' /\ b <= maxBound'
BY DEF setTakeState, Inv, TypeOK, Nil

(* A push answered with one change: the output ends with the new window.   *)
LEMMA PushOneStep ==
    ASSUME Inv, pending = NoRow, NEW q \in hasState, NEW s \in Nat, NEW b \in Nat,
           source' \in SUBSET Row, IsFiniteSet(source'), Sorted(source)',
           OthersKept(q),
           \/ setTakeState(q, s, b)
           \/ keepTakeState /\ s = size[q] /\ b = bound[q],
           NEW gone \in SUBSET view[q], NEW come \in SUBSET Row,
           \A r \in come : Unused(r, view[q] \ gone),
           PushOne(q, gone, come),
           Window(InPartition(source', q), s, b),
           AtOrBefore(InPartition(source', q), b) = (view[q] \ gone) \cup come
    PROVE  Inv'
<1>1. /\ hasState' = hasState
      /\ size' = [size EXCEPT ![q] = s]
      /\ bound' = [bound EXCEPT ![q] = b]
      /\ maxBound' \in Nat /\ maxBound <= maxBound' /\ b <= maxBound'
  <2>1. CASE setTakeState(q, s, b)
    BY <2>1, SetTakeStateFacts
  <2>2. CASE keepTakeState /\ s = size[q] /\ b = bound[q]
    BY <2>2 DEF keepTakeState, Inv, TypeOK, MaxBoundInv
  <2> QED BY <2>1, <2>2
<1>2. pending' = NoRow /\ hidden' = NoRow
  BY IdleFacts DEF PushOne
<1>3. fault' = "none" /\ view' = [view EXCEPT ![q] = (view[q] \ gone) \cup come]
  BY IdleFacts DEF PushOne, Output
<1>4. PendingInv'
  BY <1>2 DEF PendingInv
<1>5. (view[q] \ gone) \cup come = AtOrBefore(InPartition(source', q), b) \ {pending'}
  <2>1. NoRow \notin AtOrBefore(InPartition(source', q), b)
    BY TakeAssumption DEF AtOrBefore, InPartition
  <2> QED BY <1>2, <2>1
<1> QED BY <1>1, <1>2, <1>3, <1>4, <1>5, PushStep

(* The three shapes of a push answered with one change.                    *)
ForwardAdd(q, r)         == PushOne(q, {}, {r})
ForwardRemove(q, r)      == PushOne(q, {r}, {})
ForwardEdit(q, old, new) == PushOne(q, {old}, {new})

(* The stored state of q becomes s and b.                                  *)
StateBecomes(q, s, b) ==
    setTakeState(q, s, b) \/ (keepTakeState /\ s = size[q] /\ b = bound[q])

(* An ADD forwarded as it is.                                              *)
LEMMA ForwardAddStep ==
    ASSUME Inv, pending = NoRow, NEW q \in hasState, NEW s \in Nat, NEW b \in Nat,
           source' \in SUBSET Row, IsFiniteSet(source'), Sorted(source)',
           OthersKept(q), StateBecomes(q, s, b),
           NEW r \in Row, Unused(r, view[q]), ForwardAdd(q, r),
           Window(InPartition(source', q), s, b),
           AtOrBefore(InPartition(source', q), b) = With(view[q], r)
    PROVE  Inv'
<1>1. PICK gone, come : gone = {} /\ come = {r}
  OBVIOUS
<1>2. gone \in SUBSET view[q] /\ come \in SUBSET Row /\ view[q] \ gone = view[q]
  BY <1>1
<1>3. \A y \in come : Unused(y, view[q] \ gone)
  BY <1>1, <1>2
<1>4. PushOne(q, gone, come)
  BY <1>1 DEF ForwardAdd
<1>5. AtOrBefore(InPartition(source', q), b) = (view[q] \ gone) \cup come
  BY <1>1, <1>2 DEF With
<1> QED BY <1>2, <1>3, <1>4, <1>5, PushOneStep DEF StateBecomes

(* A REMOVE forwarded as it is, with nothing to refill the window.         *)
LEMMA ForwardRemoveStep ==
    ASSUME Inv, pending = NoRow, NEW q \in hasState, NEW s \in Nat, NEW b \in Nat,
           source' \in SUBSET Row, IsFiniteSet(source'), Sorted(source)',
           OthersKept(q), StateBecomes(q, s, b),
           NEW r \in view[q], ForwardRemove(q, r),
           Window(InPartition(source', q), s, b),
           AtOrBefore(InPartition(source', q), b) = Without(view[q], r)
    PROVE  Inv'
<1>1. PICK gone, come : gone = {r} /\ come = {}
  OBVIOUS
<1>2. gone \in SUBSET view[q] /\ come \in SUBSET Row
  BY <1>1
<1>3. \A y \in come : Unused(y, view[q] \ gone)
  BY <1>1
<1>4. PushOne(q, gone, come)
  BY <1>1 DEF ForwardRemove
<1>5. AtOrBefore(InPartition(source', q), b) = (view[q] \ gone) \cup come
  BY <1>1 DEF Without
<1> QED BY <1>2, <1>3, <1>4, <1>5, PushOneStep DEF StateBecomes

(* An EDIT, or a CHILD, forwarded as it is.                                *)
LEMMA ForwardEditStep ==
    ASSUME Inv, pending = NoRow, NEW q \in hasState, NEW s \in Nat, NEW b \in Nat,
           source' \in SUBSET Row, IsFiniteSet(source'), Sorted(source)',
           OthersKept(q), StateBecomes(q, s, b),
           NEW old \in view[q], NEW new \in Row, Unused(new, Without(view[q], old)),
           ForwardEdit(q, old, new),
           Window(InPartition(source', q), s, b),
           AtOrBefore(InPartition(source', q), b) = Swap(view[q], old, new)
    PROVE  Inv'
<1>1. PICK gone, come : gone = {old} /\ come = {new}
  OBVIOUS
<1>2. gone \in SUBSET view[q] /\ come \in SUBSET Row /\ view[q] \ gone = Without(view[q], old)
  BY <1>1 DEF Without
<1>3. \A y \in come : Unused(y, view[q] \ gone)
  BY <1>1, <1>2
<1>4. PushOne(q, gone, come)
  BY <1>1 DEF ForwardEdit
<1>5. AtOrBefore(InPartition(source', q), b) = (view[q] \ gone) \cup come
  BY <1>1 DEF Swap
<1> QED BY <1>2, <1>3, <1>4, <1>5, PushOneStep DEF StateBecomes

(* A push answered with a REMOVE of gone now and an ADD of x later, x      *)
(* hidden meanwhile below the new bound b.                                 *)
LEMMA PushHiddenStep ==
    ASSUME Inv, pending = NoRow, NEW q \in hasState, NEW b \in Nat,
           source' \in SUBSET Row, IsFiniteSet(source'), Sorted(source)',
           OthersKept(q),
           setTakeState(q, size[q], b),
           NEW gone \in view[q], NEW x \in InPartition(source', q), Rank[x] <= b,
           PushRemoveThenAdd(q, gone, x), hidden' = x,
           Window(InPartition(source', q), size[q], b),
           AtOrBefore(InPartition(source', q), b) = Swap(view[q], gone, x),
           x \notin view[q]
    PROVE  Inv'
<1>1. size[q] \in Nat
  BY IdleFacts
<1>2. /\ hasState' = hasState
      /\ size' = [size EXCEPT ![q] = size[q]]
      /\ bound' = [bound EXCEPT ![q] = b]
      /\ maxBound' \in Nat /\ maxBound <= maxBound' /\ b <= maxBound'
  BY <1>1, SetTakeStateFacts
<1>3. pending' = x /\ hidden' = x /\ x \in Row /\ Part[x] = q /\ x \in source' /\ x # NoRow
  BY TakeAssumption DEF PushRemoveThenAdd, InPartition
<1>4. fault' = "none" /\ view' = [view EXCEPT ![q] = view[q] \ {gone}]
  <2>1. {gone} \subseteq view[q] /\ (view[q] \ {gone}) \cup {} = view[q] \ {gone}
    OBVIOUS
  <2> QED BY <2>1, IdleFacts DEF PushRemoveThenAdd, Output
<1>5. bound'[q] = b
  BY <1>2 DEF Inv, TypeOK
<1>6. PendingInv'
  BY <1>2, <1>3, <1>5 DEF PendingInv
<1>7. view[q] \ {gone} = AtOrBefore(InPartition(source', q), b) \ {pending'}
  BY <1>3 DEF Swap
<1> QED BY <1>1, <1>2, <1>3, <1>4, <1>6, <1>7, PushStep

(* A push answered with a REMOVE of gone now and an ADD of x later, x the  *)
(* next row after the bound, which is stored with the ADD.                 *)
LEMMA PushLateStep ==
    ASSUME Inv, pending = NoRow, NEW q \in hasState,
           source' \in SUBSET Row, IsFiniteSet(source'), Sorted(source)',
           OthersKept(q),
           keepTakeState, bound[q] # Nil,
           NEW gone \in view[q], NEW x \in First(After(InPartition(source', q), bound[q])),
           PushRemoveThenAdd(q, gone, x), UNCHANGED hidden,
           Window(InPartition(source', q), size[q], Rank[x]),
           AtOrBefore(InPartition(source', q), Rank[x]) = Swap(view[q], gone, x),
           x \notin view[q]
    PROVE  Inv'
<1>1. size[q] \in Nat /\ bound[q] \in Nat
  BY IdleFacts
<1>2. /\ hasState' = hasState
      /\ size' = [size EXCEPT ![q] = size[q]]
      /\ bound' = [bound EXCEPT ![q] = bound[q]]
      /\ maxBound' \in Nat /\ maxBound <= maxBound' /\ bound[q] <= maxBound'
  BY DEF keepTakeState, Inv, TypeOK, MaxBoundInv
<1>3. /\ pending' = x /\ hidden' = NoRow /\ x \in Row /\ Part[x] = q /\ x \in source'
      /\ x # NoRow /\ Rank[x] \in Nat
  BY IdleFacts, TakeAssumption DEF PushRemoveThenAdd, InPartition, First, After
<1>4. fault' = "none" /\ view' = [view EXCEPT ![q] = view[q] \ {gone}]
  <2>1. {gone} \subseteq view[q] /\ (view[q] \ {gone}) \cup {} = view[q] \ {gone}
    OBVIOUS
  <2> QED BY <2>1, IdleFacts DEF PushRemoveThenAdd, Output
<1>5. bound' = bound
  BY DEF keepTakeState
<1>6. PendingInv'
  BY <1>2, <1>3, <1>5 DEF PendingInv, First, After, InPartition
<1>7. view[q] \ {gone} = AtOrBefore(InPartition(source', q), Rank[x]) \ {pending'}
  BY <1>3 DEF Swap
<1> QED BY <1>1, <1>2, <1>3, <1>4, <1>6, <1>7, PushStep

-----------------------------------------------------------------------------
(* One lemma per action.                                                   *)

(* An ADD: dropped, forwarded, or displacing the bound row.                *)
LEMMA PushAddPreservesInv ==
    ASSUME Inv, NEW r \in Row, PushAdd(r)
    PROVE  Inv'
<1> DEFINE q == Part[r]
           T == InPartition(source, q)
           W == AtOrBefore(T, bound[q])
<1>1. pending = NoRow /\ source' = source \cup {r} /\ Unused(r, source) /\ q \in Partition
  BY TakeAssumption DEF PushAdd, Idle
<1>2. source' \in SUBSET Row /\ IsFiniteSet(source')
  BY <1>1, FS_AddElement DEF Inv, TypeOK
<1>3. Sorted(source)'
  BY <1>1 DEF Inv, Sorted, Unused
<1>4. OthersKept(q)
  BY <1>1 DEF OthersKept, InPartition
<1>5. InPartition(source', q) = With(T, r)
  BY <1>1 DEF InPartition, With
<1>6. Unused(r, T)
  BY <1>1 DEF Unused, InPartition
<1>7. CASE q \notin hasState /\ Drop
  BY <1>1, <1>2, <1>3, <1>4, <1>7, DropUnhydrated
<1>8. CASE q \in hasState /\ AddWithRoom(q, r)
  <2>1. PICK c, s2 : /\ c = IF bound[q] = Nil \/ bound[q] < Rank[r] THEN Rank[r] ELSE bound[q]
                     /\ s2 = size[q] + 1
    OBVIOUS
  <2>2. /\ T \in SUBSET Row /\ IsFiniteSet(T)
        /\ size[q] \in Nat /\ bound[q] \in Nat
        /\ Window(T, size[q], bound[q]) /\ view[q] = W
    BY <1>1, <1>8, IdleFacts
  <2>3. size[q] < Limit /\ StateBecomes(q, s2, c) /\ ForwardAdd(q, r)
    BY <1>8, <2>1 DEF AddWithRoom, StateBecomes, ForwardAdd
  <2>4. /\ c \in Nat /\ s2 \in Nat
        /\ c = bound[q] \/ c = Rank[r]
        /\ bound[q] <= c /\ Rank[r] <= c
    BY <2>1, <2>2, TakeAssumption DEF Nil
  <2>5. Unused(r, W)
    BY <1>6 DEF Unused, AtOrBefore
  <2> HIDE DEF T, q, W
  <2>6. Window(With(T, r), s2, c) /\ AtOrBefore(With(T, r), c) = With(W, r)
    BY <1>6, <2>1, <2>2, <2>3, <2>4, AddWithRoomWindow DEF W
  <2> QED BY <1>1, <1>2, <1>3, <1>4, <1>5, <1>8, <2>2, <2>3, <2>4, <2>5, <2>6, ForwardAddStep
<1>9. CASE q \in hasState /\ AddOutside(q, r)
  <2>1. Window(With(T, r), size[q], bound[q]) /\ AtOrBefore(With(T, r), bound[q]) = W
    BY <1>1, <1>6, <1>9, IdleFacts, AddOutsideWindow DEF AddOutside
  <2>2. Drop
    BY <1>9 DEF AddOutside
  <2> QED BY <1>1, <1>2, <1>3, <1>4, <1>5, <1>9, <2>1, <2>2, DropOutside
<1>10. CASE q \in hasState /\ AddDisplacing(q, r)
  <2> DEFINE T2 == With(T, r)
             boundNode == IF Limit = 1 THEN First(AtOrAfter(T2, bound[q]))
                                       ELSE Last(AtOrBefore(T2, bound[q]))
             beforeBoundNode == IF Limit = 1 THEN {}
                                ELSE Last(AtOrBefore(T2, bound[q]) \ boundNode)
  <2>1. /\ size[q] >= Limit /\ bound[q] # Nil /\ Rank[r] < bound[q]
        /\ IF boundNode = {}
           THEN Panic
           ELSE \E b \in boundNode :
                 /\ PushRemoveThenAdd(q, b, r)
                 /\ hidden' = r
                 /\ \/ \E bb \in beforeBoundNode :
                          /\ Rank[r] <= Rank[bb]
                          /\ setTakeState(q, size[q], Rank[bb])
                    \/ /\ \A bb \in beforeBoundNode : Rank[r] > Rank[bb]
                       /\ setTakeState(q, size[q], Rank[r])
    BY <1>5, <1>10 DEF AddDisplacing
  <2>2. /\ T \in SUBSET Row /\ IsFiniteSet(T) /\ Sorted(T)
        /\ size[q] \in Nat /\ bound[q] \in Nat
        /\ Window(T, size[q], bound[q]) /\ view[q] = W
    BY <1>1, <1>10, IdleFacts
  <2>3. size[q] = Limit
    BY <2>1, <2>2, TakeAssumption DEF Window
  <2>4. PICK x \in T : Rank[x] = bound[q]
    BY <2>1, <2>2 DEF Window
  <2>5. AtOrBefore(T2, bound[q]) = With(W, r)
    <3> HIDE DEF T
    <3> QED BY <2>1, <2>2, TakeAssumption DEF AtOrBefore, With
  <2>6. r \notin W /\ T2 \in SUBSET Row /\ x \in W
    BY <1>6, <2>2, <2>4, TakeAssumption DEF Unused, AtOrBefore, With
  <2>7. boundNode = {x}
    <3>1. \A y \in T2 : Rank[y] \in Nat /\ (Rank[y] = bound[q] => y = x)
      BY <2>1, <2>2, <2>4, TakeAssumption DEF Sorted, With
    <3>2. First(AtOrAfter(T2, bound[q])) = {x}
      BY <2>2, <2>4, <3>1 DEF First, AtOrAfter, With
    <3>3. Last(AtOrBefore(T2, bound[q])) = {x}
      BY <2>2, <2>4, <3>1 DEF Last, AtOrBefore, With
    <3> QED BY <3>2, <3>3
  <2>8. PushRemoveThenAdd(q, x, r) /\ hidden' = r
    BY <2>1, <2>7
  <2>9. \E c \in Last(Without(AtOrBefore(T2, bound[q]), x)) :
           setTakeState(q, size[q], Rank[c]) /\ Rank[r] <= Rank[c]
    <3>1. CASE Limit = 1
      <4>1. W = {x}
        BY <2>2, <2>4, <3>1, SingleRowWindow
      <4>2. Without(AtOrBefore(T2, bound[q]), x) = {r}
        BY <2>5, <2>6, <4>1 DEF With, Without
      <4>3. r \in Last({r}) /\ Rank[r] <= Rank[r]
        BY TakeAssumption DEF Last
      <4>4. setTakeState(q, size[q], Rank[r])
        BY <2>1, <2>7, <3>1
      <4> QED BY <4>2, <4>3, <4>4
    <3>2. CASE Limit # 1
      <4>1. beforeBoundNode = Last(Without(AtOrBefore(T2, bound[q]), x))
        BY <2>7, <3>2 DEF Without
      <4>2. \A bb \in beforeBoundNode : Rank[r] <= Rank[bb]
        BY <2>5, <2>6, <4>1 DEF Last, With, Without
      <4>3. beforeBoundNode # {}
        <5>1. Without(AtOrBefore(T2, bound[q]), x) # {}
          BY <2>5, <2>6 DEF With, Without
        <5>2. Without(AtOrBefore(T2, bound[q]), x) \in SUBSET Row
              /\ \A y \in Without(AtOrBefore(T2, bound[q]), x) : Rank[y] <= bound[q]
          BY <2>6 DEF AtOrBefore, Without
        <5> QED BY <2>2, <4>1, <5>1, <5>2, LastExists
      <4>4. \A bb \in beforeBoundNode : Rank[bb] \in Nat /\ Rank[r] \in Nat
        BY <2>6, <4>1, TakeAssumption DEF Last, AtOrBefore, Without
      <4>5. \E bb \in beforeBoundNode : setTakeState(q, size[q], Rank[bb])
        <5> HIDE DEF beforeBoundNode, boundNode
        <5> QED BY <2>1, <2>7, <4>2, <4>3, <4>4
      <4> QED BY <4>1, <4>2, <4>5
    <3> QED BY <3>1, <3>2
  <2>10. PICK c \in Last(Without(AtOrBefore(T2, bound[q]), x)) :
           setTakeState(q, size[q], Rank[c]) /\ Rank[r] <= Rank[c]
    BY <2>9
  <2>11. /\ Window(T2, size[q], Rank[c])
         /\ AtOrBefore(T2, Rank[c]) = Swap(W, x, r)
    <3> HIDE DEF T, T2, boundNode, beforeBoundNode, q
    <3> QED BY <2>1, <2>2, <2>3, <2>4, <2>5, <2>6, DisplacingWindow
  <2>12. Rank[c] \in Nat
    BY <2>6, TakeAssumption DEF Last, AtOrBefore, Without
  <2>13. r \in InPartition(source', q)
    BY <1>5 DEF With
  <2> HIDE DEF T, T2, W, boundNode, beforeBoundNode
  <2> QED BY <1>1, <1>2, <1>3, <1>4, <1>5, <1>10, <2>2, <2>6, <2>8, <2>10, <2>11, <2>12, <2>13,
             PushHiddenStep DEF T2
<1> QED BY <1>7, <1>8, <1>9, <1>10 DEF PushAdd

(* A REMOVE: dropped, refilled from after the bound, or shrinking.         *)
LEMMA PushRemovePreservesInv ==
    ASSUME Inv, NEW r \in source, PushRemove(r)
    PROVE  Inv'
<1> DEFINE q == Part[r]
           T == InPartition(source, q)
           T2 == Without(T, r)
           W == AtOrBefore(T, bound[q])
<1>1. pending = NoRow /\ source' = source \ {r} /\ q \in Partition /\ r \in T /\ r \in Row
  BY TakeAssumption DEF PushRemove, Idle, Inv, TypeOK, InPartition
<1>2. source' \in SUBSET Row /\ IsFiniteSet(source')
  BY <1>1, FS_RemoveElement DEF Inv, TypeOK
<1>3. Sorted(source)'
  BY <1>1 DEF Inv, Sorted
<1>4. OthersKept(q)
  BY <1>1 DEF OthersKept, InPartition
<1>5. InPartition(source', q) = T2
  BY <1>1 DEF InPartition, Without
<1>6. CASE q \notin hasState /\ Drop
  BY <1>1, <1>2, <1>3, <1>4, <1>6, DropUnhydrated
<1>7. ASSUME q \in hasState
      PROVE  /\ T \in SUBSET Row /\ IsFiniteSet(T) /\ Sorted(T)
             /\ size[q] \in Nat /\ bound[q] \in Nat
             /\ Window(T, size[q], bound[q]) /\ view[q] = W
  BY <1>1, <1>7, IdleFacts
<1>8. CASE q \in hasState /\ RemoveOutside(q, r)
  <2>1. Drop /\ Rank[r] > bound[q]
    BY <1>1, <1>7, <1>8, TakeAssumption DEF RemoveOutside, Nil
  <2>2. T2 \in SUBSET Row /\ T \ {r} \subseteq T2 /\ \A y \in T2 : y \in T \ {r} \/ Rank[y] > bound[q]
    BY <1>7, <1>8 DEF Without
  <2> HIDE DEF T, T2, q
  <2>3. Window(T2, size[q], bound[q]) /\ AtOrBefore(T2, bound[q]) = W
    BY <1>1, <1>7, <1>8, <2>1, <2>2, UntouchedWindow
  <2> QED BY <1>1, <1>2, <1>3, <1>4, <1>5, <1>8, <2>1, <2>3, DropOutside DEF T
<1>9. ASSUME q \in hasState, bound[q] # Nil, Rank[r] <= bound[q]
      PROVE  /\ r \in W
             /\ AtOrBefore(T2, bound[q]) = Without(W, r)
             /\ T2 \in SUBSET Row /\ Sorted(T2)
  BY <1>1, <1>7, <1>9 DEF AtOrBefore, Without, Sorted
<1>10. CASE q \in hasState /\ bound[q] # Nil /\ Rank[r] <= bound[q] /\ RemoveRefilling(q, r)
  <2>1. PICK n \in First(After(T2, bound[q])) : PushRemoveThenAdd(q, r, n)
    BY <1>5, <1>10 DEF RemoveRefilling
  <2>2. keepTakeState /\ UNCHANGED hidden
    BY <1>10 DEF RemoveRefilling
  <2>3. n \in T /\ Rank[n] > bound[q]
    BY <2>1 DEF First, After, Without
  <2>4. size[q] = Limit /\ n \notin W
    <3>1. Rank[n] \in Nat
      BY <1>7, <1>10, <2>3, TakeAssumption
    <3>2. n \notin W
      BY <1>7, <1>10, <2>3, <3>1 DEF AtOrBefore
    <3> HIDE DEF T, q
    <3> QED BY <1>7, <1>10, <2>3, <3>2, WindowFacts
  <2>5. size[q] < Limit => T2 = With(AtOrBefore(T2, bound[q]), n)
    BY <2>4, TakeAssumption
  <2> HIDE DEF T, T2, q
  <2>6. Window(T2, size[q], Rank[n]) /\ AtOrBefore(T2, Rank[n]) = Swap(W, r, n)
    BY <1>1, <1>7, <1>9, <1>10, <2>1, <2>4, <2>5, RefillingWindow
  <2> HIDE DEF W
  <2> QED BY <1>1, <1>2, <1>3, <1>4, <1>5, <1>7, <1>9, <1>10, <2>1, <2>2, <2>4, <2>6, PushLateStep
<1>11. CASE q \in hasState /\ bound[q] # Nil /\ Rank[r] <= bound[q] /\ RemoveShrinking(q, r)
  <2> DEFINE at == {s \in T2 : Rank[s] = bound[q]}
             newBound == IF at # {} THEN at ELSE Last(Before(T2, bound[q]))
  <2>1. /\ First(After(T2, bound[q])) = {}
        /\ IF newBound = {} THEN setTakeState(q, 0, Nil)
           ELSE \E b \in newBound : setTakeState(q, size[q] - 1, Rank[b])
        /\ ForwardRemove(q, r)
    BY <1>5, <1>11 DEF RemoveShrinking, ForwardRemove
  <2>2. \A y \in T2 : Rank[y] <= bound[q]
    <3>1. After(T2, bound[q]) \in SUBSET Row
      BY <1>9, <1>11 DEF After
    <3>2. After(T2, bound[q]) = {}
      BY <2>1, <3>1, FirstExists
    <3>3. \A y \in T2 : Rank[y] \in Nat
      BY <1>9, <1>11, TakeAssumption
    <3> QED BY <1>7, <1>11, <3>2, <3>3 DEF After
  <2>3. W = T
    <3>1. \A y \in T : Rank[y] <= bound[q]
      BY <1>11, <2>2 DEF Without
    <3> HIDE DEF T
    <3> QED BY <3>1 DEF AtOrBefore
  <2>4. CASE newBound = {}
    <3>1. at = {} /\ Last(Before(T2, bound[q])) = {}
      BY <2>4
    <3>2. Before(T2, bound[q]) \in SUBSET Row
          /\ \A y \in Before(T2, bound[q]) : Rank[y] <= bound[q]
      BY <1>9, <1>11, <2>2 DEF Before
    <3>3. Before(T2, bound[q]) = {}
      BY <1>7, <1>11, <3>1, <3>2, LastExists
    <3>4. T2 = {}
      <4>1. \A y \in T2 : Rank[y] \in Nat
        BY <1>9, <1>11, TakeAssumption
      <4> QED BY <1>7, <1>11, <2>2, <3>1, <3>3, <4>1 DEF Before
    <3>5. Without(view[q], r) = {}
      BY <1>7, <1>11, <2>3, <3>4
    <3>6. Window(T2, 0, Nil) /\ AtOrBefore(T2, Nil) = Without(view[q], r)
      BY <3>4, <3>5, EmptyWindow
    <3>7. StateBecomes(q, 0, Nil) /\ Nil \in Nat
      BY <2>1, <2>4 DEF StateBecomes, Nil
    <3> HIDE DEF T, T2, q, W, newBound
    <3> QED BY <1>1, <1>2, <1>3, <1>4, <1>5, <1>7, <1>9, <1>11, <2>1, <3>6, <3>7, ForwardRemoveStep
  <2>5. CASE newBound # {}
    <3>1. PICK c \in newBound : setTakeState(q, size[q] - 1, Rank[c])
      BY <2>1, <2>5
    <3>2. c \in T2 /\ \A y \in T2 : Rank[y] <= Rank[c]
      <4>1. \A y \in T2 : Rank[y] \in Nat
        BY <1>9, <1>11, TakeAssumption
      <4>2. CASE at # {}
        BY <2>2, <4>2
      <4>3. CASE at = {}
        <5>1. c \in Last(Before(T2, bound[q]))
          BY <4>3
        <5>2. \A y \in T2 : y \in Before(T2, bound[q])
          BY <1>7, <1>11, <2>2, <4>1, <4>3 DEF Before
        <5> QED BY <5>1, <5>2 DEF Last, Before
      <4> QED BY <4>2, <4>3
    <3>3. PICK s2 : s2 = size[q] - 1
      OBVIOUS
    <3>4. StateBecomes(q, s2, Rank[c]) /\ Rank[c] \in Nat
      BY <1>9, <1>11, <3>1, <3>2, <3>3, TakeAssumption DEF StateBecomes
    <3> HIDE DEF T, q, newBound
    <3>5. /\ s2 \in Nat
          /\ Window(T2, s2, Rank[c])
          /\ AtOrBefore(T2, Rank[c]) = Without(W, r)
      BY <1>1, <1>7, <1>11, <2>3, <3>2, <3>3, ShrinkingWindow
    <3> HIDE DEF W, T2
    <3> QED BY <1>1, <1>2, <1>3, <1>4, <1>5, <1>7, <1>9, <1>11, <2>1, <3>4, <3>5, ForwardRemoveStep
  <2> QED BY <2>4, <2>5
<1> QED BY <1>6, <1>8, <1>10, <1>11 DEF PushRemove

(* What an edit or a child change does to the rows.                        *)
LEMMA ReplacedFacts ==
    ASSUME Inv, NEW old \in source, NEW new \in Row, Replaced(old, new)
    PROVE  /\ source' \in SUBSET Row /\ IsFiniteSet(source') /\ Sorted(source)'
           /\ OthersKept(Part[old])
           /\ InPartition(source', Part[old]) = Swap(InPartition(source, Part[old]), old, new)
           /\ Unused(new, Without(source, old))
           /\ new \notin source /\ new # old /\ Part[new] = Part[old]
           /\ old \in InPartition(source, Part[old])
           /\ Part[old] \in Partition /\ old \in Row
<1>1. /\ source \in SUBSET Row /\ IsFiniteSet(source) /\ old \in Row /\ Part[old] \in Partition
      /\ new # old /\ Part[new] = Part[old] /\ Unused(new, source \ {old})
      /\ source' = (source \ {old}) \cup {new}
  BY TakeAssumption DEF Inv, TypeOK, Replaced
<1>2. IsFiniteSet(source')
  <2>1. IsFiniteSet(source \ {old})
    BY <1>1, FS_RemoveElement
  <2> QED BY <1>1, <2>1, FS_AddElement
<1>3. Sorted(source)'
  BY <1>1 DEF Inv, Sorted, Unused
<1>4. OthersKept(Part[old])
  BY <1>1 DEF OthersKept, InPartition
<1>5. InPartition(source', Part[old]) = Swap(InPartition(source, Part[old]), old, new)
  BY <1>1 DEF InPartition, Swap
<1>6. new \notin source /\ Unused(new, Without(source, old))
  BY <1>1 DEF Unused, Without
<1> QED BY <1>1, <1>2, <1>3, <1>4, <1>5, <1>6 DEF InPartition

(* A version of a window row that stays within reach of the bound b2: the  *)
(* rows at or before b2 are those of the window with old exchanged.        *)
LEMMA SwappedWindow ==
    ASSUME NEW T \in SUBSET Row, NEW b \in Nat, NEW old \in T, Rank[old] <= b,
           NEW new \in Row, NEW b2 \in Nat, Rank[new] <= b2,
           \A y \in T : y # old => (Rank[y] <= b <=> Rank[y] <= b2)
    PROVE  AtOrBefore(Swap(T, old, new), b2) = Swap(AtOrBefore(T, b), old, new)
BY DEF AtOrBefore, Swap

(* Edits and child changes that are forwarded as they are.                 *)
LEMMA ForwardReplacement ==
    ASSUME Inv, pending = NoRow, NEW old \in source, NEW new \in Row, Replaced(old, new),
           NEW q, q = Part[old], q \in hasState, Rank[old] <= bound[q],
           NEW c \in InPartition(source', q), Rank[new] <= Rank[c],
           \A y \in InPartition(source, q) : y # old => (Rank[y] <= bound[q] <=> Rank[y] <= Rank[c]),
           StateBecomes(q, size[q], Rank[c]),
           ForwardEdit(q, old, new)
    PROVE  Inv'
<1> DEFINE T == InPartition(source, q)
           W == AtOrBefore(T, bound[q])
<1>1. /\ source' \in SUBSET Row /\ IsFiniteSet(source') /\ Sorted(source)'
      /\ OthersKept(q)
      /\ InPartition(source', q) = Swap(T, old, new)
      /\ new \notin T /\ old \in T
      /\ Unused(new, Without(source, old))
  BY ReplacedFacts DEF InPartition
<1>2. /\ T \in SUBSET Row /\ IsFiniteSet(T)
      /\ size[q] \in Nat /\ bound[q] \in Nat
      /\ Window(T, size[q], bound[q]) /\ view[q] = W
  BY IdleFacts
<1>3. c \in Row /\ Rank[c] \in Nat
  BY <1>1, TakeAssumption DEF InPartition
<1>4. old \in W /\ Unused(new, Without(W, old))
  BY <1>1, <1>2 DEF AtOrBefore, Unused, Without, InPartition
<1> HIDE DEF T
<1>5. AtOrBefore(Swap(T, old, new), Rank[c]) = Swap(W, old, new)
  BY <1>1, <1>2, <1>3, SwappedWindow DEF T
<1>6. c \in Swap(T, old, new)
  BY <1>1
<1>7. Window(Swap(T, old, new), size[q], Rank[c])
  BY <1>1, <1>2, <1>5, <1>6, ReplacingWindow
<1> HIDE DEF W
<1> QED BY <1>1, <1>2, <1>3, <1>4, <1>5, <1>7, ForwardEditStep

(* A CHILD: forwarded inside the window, dropped outside.                  *)
LEMMA PushChildPreservesInv ==
    ASSUME Inv, NEW old \in source, NEW new \in Row, PushChild(old, new)
    PROVE  Inv'
<1> DEFINE q == Part[old]
           T == InPartition(source, q)
<1>1. pending = NoRow /\ Replaced(old, new) /\ Rank[new] = Rank[old]
  BY DEF PushChild, Idle
<1>2. /\ source' \in SUBSET Row /\ IsFiniteSet(source') /\ Sorted(source)'
      /\ OthersKept(q) /\ q \in Partition
      /\ InPartition(source', q) = Swap(T, old, new)
      /\ old \in T /\ new \notin T /\ old \in Row
  BY <1>1, ReplacedFacts DEF InPartition
<1>3. CASE q \notin hasState
  <2>1. Drop
    BY <1>3 DEF PushChild
  <2> QED BY <1>1, <1>2, <1>3, <2>1, DropUnhydrated
<1>4. ASSUME q \in hasState
      PROVE  /\ T \in SUBSET Row /\ IsFiniteSet(T) /\ Sorted(T)
             /\ size[q] \in Nat /\ bound[q] \in Nat
             /\ Window(T, size[q], bound[q])
  BY <1>1, <1>4, IdleFacts
<1>5. CASE q \in hasState /\ ~ChildForwarded(q, old)
  <2>1. Drop
    BY <1>5 DEF PushChild
  <2>2. Rank[old] > bound[q] /\ Rank[new] > bound[q]
    BY <1>1, <1>2, <1>4, <1>5, TakeAssumption DEF ChildForwarded, Nil
  <2>3. /\ Swap(T, old, new) \in SUBSET Row /\ T \ {old} \subseteq Swap(T, old, new)
        /\ \A y \in Swap(T, old, new) : y \in T \ {old} \/ Rank[y] > bound[q]
    BY <1>4, <1>5, <2>2 DEF Swap
  <2> HIDE DEF T, q
  <2>4. /\ Window(Swap(T, old, new), size[q], bound[q])
        /\ AtOrBefore(Swap(T, old, new), bound[q]) = AtOrBefore(T, bound[q])
    BY <1>2, <1>4, <1>5, <2>2, <2>3, UntouchedWindow
  <2> QED BY <1>1, <1>2, <1>5, <2>1, <2>4, DropOutside DEF T
<1>6. CASE q \in hasState /\ ChildForwarded(q, old)
  <2>1. keepTakeState /\ ForwardEdit(q, old, new) /\ bound[q] # Nil /\ Rank[old] <= bound[q]
    BY <1>6 DEF PushChild, ChildForwarded, ForwardEdit
  <2>2. PICK c \in Swap(T, old, new) : Rank[c] = bound[q]
    <3>1. PICK x \in T : Rank[x] = bound[q]
      BY <1>4, <1>6, <2>1 DEF Window
    <3>2. CASE x = old
      BY <1>1, <3>1, <3>2 DEF Swap
    <3>3. CASE x # old
      BY <3>1, <3>3 DEF Swap
    <3> QED BY <3>2, <3>3
  <2>3. StateBecomes(q, size[q], Rank[c])
    BY <2>1, <2>2 DEF StateBecomes
  <2> QED BY <1>1, <1>2, <1>4, <1>6, <2>1, <2>2, <2>3, ForwardReplacement
<1> QED BY <1>3, <1>5, <1>6

(* A row of the window moves past the bound b, and n is the first row      *)
(* after b: either n is the moved row itself, which stays the last row of  *)
(* the window, or n replaces it.                                           *)
LEMMA EditPastBoundWindow ==
    ASSUME NEW T \in SUBSET Row, IsFiniteSet(T), NEW s \in Nat, NEW b \in Nat,
           Window(T, s, b), NEW old \in T, Rank[old] <= b,
           NEW new \in Row, Rank[new] > b, \A y \in T : y # old => Rank[y] # Rank[new],
           NEW T2 \in SUBSET Row, T2 = Swap(T, old, new), Sorted(T2),
           NEW n \in First(After(T2, b))
    PROVE  /\ n \notin AtOrBefore(T, b) /\ n \in T2
           /\ Rank[n] = Rank[new] =>
                \A y \in T : y # old => (Rank[y] <= b <=> Rank[y] <= Rank[new])
           /\ Rank[n] # Rank[new] =>
                /\ Window(T2, s, Rank[n])
                /\ AtOrBefore(T2, Rank[n]) = Swap(AtOrBefore(T, b), old, n)
<1>1. /\ Rank[new] \in Nat /\ \A y \in T2 : Rank[y] \in Nat
      /\ \A y \in T : Rank[y] \in Nat
  BY TakeAssumption
<1>2. n \in T2 /\ Rank[n] > b /\ \A y \in T2 : Rank[y] > b => Rank[n] <= Rank[y]
  BY DEF First, After
<1>3. n \notin AtOrBefore(T, b)
  BY <1>1, <1>2 DEF AtOrBefore
<1>4. ASSUME Rank[n] = Rank[new], NEW y \in T, y # old
      PROVE  Rank[y] <= b <=> Rank[y] <= Rank[new]
  <2>1. y \in T2
    BY <1>4 DEF Swap
  <2>2. Rank[y] # Rank[new] /\ Rank[y] \in Nat
    BY <1>1, <1>4
  <2> QED BY <1>1, <1>2, <1>4, <2>1, <2>2
<1>5. ASSUME Rank[n] # Rank[new]
      PROVE  /\ Window(T2, s, Rank[n])
             /\ AtOrBefore(T2, Rank[n]) = Swap(AtOrBefore(T, b), old, n)
  <2>1. AtOrBefore(T2, b) = Without(AtOrBefore(T, b), old)
    BY <1>1 DEF AtOrBefore, Swap, Without
  <2>2. n \in T
    BY <1>2, <1>5 DEF Swap
  <2>3. s = Limit
    BY <1>2, <2>2, WindowFacts
  <2>4. s < Limit => T2 = With(AtOrBefore(T2, b), n)
    BY <2>3, TakeAssumption
  <2> QED BY <1>3, <2>1, <2>4, RefillingWindow
<1> QED BY <1>2, <1>3, <1>4, <1>5

(* Every case of an edit leaves the window and the output in step.         *)
LEMMA pushEditChangePreservesInv ==
    ASSUME Inv, NEW old \in source, NEW new \in Row, pushEditChange(old, new)
    PROVE  Inv'
<1> DEFINE q == Part[old]
           T == InPartition(source, q)
           T2 == Swap(T, old, new)
           W == AtOrBefore(T, bound[q])
           bd == bound[q]
           SameSide(c) == \A y \in T : y # old => (Rank[y] <= bd <=> Rank[y] <= Rank[c])
<1>1. pending = NoRow /\ Replaced(old, new)
  BY DEF pushEditChange, Idle
<1>2. /\ source' \in SUBSET Row /\ IsFiniteSet(source') /\ Sorted(source)'
      /\ OthersKept(q) /\ q \in Partition
      /\ InPartition(source', q) = T2
      /\ old \in T /\ new \notin T /\ old \in Row
      /\ \A y \in T : y # old => Rank[y] # Rank[new]
  BY <1>1, ReplacedFacts DEF InPartition, Unused, Without
<1>3. CASE q \notin hasState /\ Drop
  BY <1>1, <1>2, <1>3, DropUnhydrated
<1>4. ASSUME q \in hasState
      PROVE  /\ T \in SUBSET Row /\ IsFiniteSet(T) /\ Sorted(T)
             /\ size[q] \in Nat /\ bd \in Nat /\ Limit # 0
             /\ Window(T, size[q], bd) /\ view[q] = W
             /\ hidden = NoRow
  BY <1>1, <1>4, IdleFacts
<1>5. Rank[old] \in Nat /\ Rank[new] \in Nat /\ Rank[old] # 0
  BY <1>2, TakeAssumption
<1>6. T2 \in SUBSET Row /\ Sorted(T2)
  <2>1. T \in SUBSET Row /\ Sorted(T)
    BY DEF Inv, TypeOK, InPartition, Sorted
  <2> QED BY <1>2, <2>1 DEF Swap, Sorted
<1>7. CASE q \in hasState /\ EditPanics(q, old, new)
  <2>1. bd # Nil
    <3>1. SUFFICES ASSUME bd = Nil PROVE FALSE
      OBVIOUS
    <3>2. W = {}
      BY <1>4, <1>7, <3>1, TakeAssumption DEF AtOrBefore, Nil
    <3>3. size[q] = 0
      BY <1>4, <1>7, <3>2, FS_EmptySet DEF Window
    <3>4. W = T
      BY <1>4, <1>7, <3>3, TakeAssumption DEF Window
    <3> QED BY <1>2, <3>2, <3>4
  <2>2. Rank[old] # bd /\ Rank[new] = bd
    BY <1>7, <2>1 DEF EditPanics
  <2>3. PICK x \in T : Rank[x] = bd
    BY <1>4, <1>7, <2>1 DEF Window
  <2> QED BY <1>2, <2>2, <2>3
<1>8. CASE q \in hasState /\ EditOutside(q, old, new)
  <2>1. Drop /\ Rank[old] > bd /\ Rank[new] > bd
    BY <1>8 DEF EditOutside
  <2>2. T \ {old} \subseteq T2 /\ \A y \in T2 : y \in T \ {old} \/ Rank[y] > bd
    BY <2>1 DEF Swap
  <2> HIDE DEF T, T2, q, bd
  <2>3. Window(T2, size[q], bd) /\ AtOrBefore(T2, bd) = AtOrBefore(T, bd)
    BY <1>2, <1>4, <1>6, <1>8, <2>1, <2>2, UntouchedWindow
  <2> QED BY <1>1, <1>2, <1>8, <2>1, <2>3, DropOutside DEF T, bd
<1>9. CASE q \in hasState /\ bd # Nil /\ EditInPlace(q, old, new)
  <2>1. keepTakeState /\ ForwardEdit(q, old, new) /\ Rank[old] <= bd /\ Rank[new] <= bd
        /\ (Rank[old] = bd <=> Rank[new] = bd)
    BY <1>4, <1>5, <1>9 DEF EditInPlace, ForwardEdit
  <2>2. PICK c \in T2 : Rank[c] = bd
    <3>1. PICK x \in T : Rank[x] = bd
      BY <1>4, <1>9 DEF Window
    <3>2. CASE x = old
      BY <2>1, <3>1, <3>2 DEF Swap
    <3>3. CASE x # old
      BY <3>1, <3>3 DEF Swap
    <3> QED BY <3>2, <3>3
  <2>3. StateBecomes(q, size[q], Rank[c])
    BY <2>1, <2>2 DEF StateBecomes
  <2> QED BY <1>1, <1>2, <1>4, <1>9, <2>1, <2>2, <2>3, ForwardReplacement
<1>10. CASE q \in hasState /\ bd # Nil /\ EditBoundDown(q, old, new)
  <2>1. Rank[old] = bd /\ Rank[new] < bd
    BY <1>10 DEF EditBoundDown
  <2>2. \A y \in T : y # old => Rank[y] # bd /\ Rank[y] \in Nat
    BY <1>2, <1>4, <1>10, <2>1, TakeAssumption DEF Sorted
  <2>3. \E c \in T2 : /\ Rank[new] <= Rank[c]
                      /\ SameSide(c)
                      /\ setTakeState(q, size[q], Rank[c])
                      /\ ForwardEdit(q, old, new)
    <3>1. CASE Limit = 1
      <4>1. setTakeState(q, size[q], Rank[new]) /\ ForwardEdit(q, old, new)
        BY <1>10, <3>1 DEF EditBoundDown, ReplaceBoundAndForward, ForwardEdit
      <4>2. W = {old}
        BY <1>2, <1>4, <1>10, <2>1, <3>1, SingleRowWindow
      <4>3. \A y \in T : y # old => ~(Rank[y] <= bd)
        BY <4>2 DEF AtOrBefore
      <4>4. \A y \in T : y # old => ~(Rank[y] <= Rank[new])
        BY <1>4, <1>5, <1>10, <2>1, <2>2, <4>3
      <4>5. new \in T2 /\ Rank[new] <= Rank[new]
        BY <1>5 DEF Swap
      <4> QED BY <4>1, <4>3, <4>4, <4>5
    <3>2. CASE Limit # 1
      <4> DEFINE B == Before(T2, bd)
      <4>1. new \in B /\ B \in SUBSET Row
        BY <1>6, <2>1 DEF Before, Swap
      <4>2. \A y \in B : Rank[y] <= bd
        BY <1>4, <1>6, <1>10, TakeAssumption DEF Before
      <4>3. Last(B) # {}
        BY <1>4, <1>10, <4>1, <4>2, LastExists
      <4>4. PICK c \in Last(B) : setTakeState(q, size[q], Rank[c]) /\ PushOne(q, {old}, {new})
        BY <1>2, <1>10, <3>2, <4>3 DEF EditBoundDown
      <4>5. c \in T2 /\ Rank[c] < bd /\ Rank[new] <= Rank[c] /\ Rank[c] \in Nat
        BY <1>6, <4>1, <4>4, TakeAssumption DEF Last, Before
      <4>6. ASSUME NEW y \in T, y # old PROVE Rank[y] <= bd <=> Rank[y] <= Rank[c]
        <5>1. y \in T2 /\ Rank[y] # bd /\ Rank[y] \in Nat
          BY <2>2, <4>6 DEF Swap
        <5>2. Rank[y] < bd => Rank[y] <= Rank[c]
          BY <4>4, <5>1 DEF Last, Before
        <5> QED BY <1>4, <1>10, <4>5, <5>1, <5>2
      <4> QED BY <4>4, <4>5, <4>6 DEF ForwardEdit
    <3> QED BY <3>1, <3>2
  <2>4. PICK c \in T2 : /\ Rank[new] <= Rank[c]
                       /\ SameSide(c)
                       /\ setTakeState(q, size[q], Rank[c])
                       /\ ForwardEdit(q, old, new)
    BY <2>3
  <2>5. StateBecomes(q, size[q], Rank[c])
    <3> HIDE DEF SameSide
    <3> QED BY <2>4 DEF StateBecomes
  <2>6. Rank[old] <= bd
    BY <1>5, <2>1
  <2> QED BY <1>1, <1>2, <1>4, <1>10, <2>4, <2>5, <2>6, ForwardReplacement
<1>11. ASSUME q \in hasState, bd # Nil, Rank[old] <= bd, Rank[new] > bd,
             NEW n \in First(After(T2, bd))
       PROVE  /\ n \notin W /\ n \in T2
              /\ Rank[n] = Rank[new] => SameSide(new)
              /\ Rank[n] # Rank[new] =>
                   Window(T2, size[q], Rank[n]) /\ AtOrBefore(T2, Rank[n]) = Swap(W, old, n)
  <2>1. PICK U : U = T2
    OBVIOUS
  <2> HIDE DEF T, T2, q, bd
  <2> QED BY <1>2, <1>4, <1>6, <1>11, <2>1, EditPastBoundWindow DEF T2, bd
<1>12. ASSUME q \in hasState, bd # Nil, Rank[old] <= bd, Rank[new] > bd,
              SameSide(new), ReplaceBoundAndForward(q, old, new)
       PROVE  Inv'
  <2>1. StateBecomes(q, size[q], Rank[new]) /\ ForwardEdit(q, old, new)
    <3> HIDE DEF SameSide
    <3> QED BY <1>12 DEF ReplaceBoundAndForward, StateBecomes, ForwardEdit
  <2>2. new \in T2 /\ Rank[new] <= Rank[new]
    BY <1>5 DEF Swap
  <2> QED BY <1>1, <1>2, <1>12, <2>1, <2>2, ForwardReplacement
<1>13. CASE q \in hasState /\ bd # Nil /\ EditBoundUp(q, old, new)
  <2>1. Rank[old] = bd /\ Rank[new] > bd /\ Rank[old] <= bd
    BY <1>5, <1>13 DEF EditBoundUp
  <2>2. AtOrAfter(T2, bd) = After(T2, bd)
    <3>1. \A y \in T2 : Rank[y] \in Nat /\ Rank[y] # bd
      BY <1>2, <1>4, <1>5, <1>13, <2>1, TakeAssumption DEF Sorted, Swap
    <3> QED BY <1>4, <1>13, <3>1 DEF AtOrAfter, After
  <2>3. First(After(T2, bd)) # {}
    <3>1. new \in After(T2, bd) /\ After(T2, bd) \in SUBSET Row
      BY <1>6, <2>1 DEF After, Swap
    <3> QED BY <3>1, FirstExists
  <2>4. PICK n \in First(After(T2, bd)) :
          IF Rank[n] = Rank[new]
          THEN ReplaceBoundAndForward(q, old, new)
          ELSE /\ setTakeState(q, size[q], Rank[n])
               /\ PushRemoveThenAdd(q, old, n)
               /\ hidden' = n
    BY <1>2, <1>13, <2>2, <2>3 DEF EditBoundUp
  <2>5. CASE Rank[n] = Rank[new]
    BY <1>11, <1>12, <1>13, <2>1, <2>4, <2>5
  <2>6. CASE Rank[n] # Rank[new]
    <3>1. /\ n \notin W /\ n \in T2
          /\ Window(T2, size[q], Rank[n]) /\ AtOrBefore(T2, Rank[n]) = Swap(W, old, n)
      BY <1>11, <1>13, <2>1, <2>6
    <3>2. setTakeState(q, size[q], Rank[n]) /\ PushRemoveThenAdd(q, old, n) /\ hidden' = n
      BY <2>4, <2>6
    <3>3. Rank[n] \in Nat /\ Rank[n] <= Rank[n]
      BY <1>6, <3>1, TakeAssumption
    <3>4. old \in W
      BY <1>2, <2>1 DEF AtOrBefore
    <3> HIDE DEF T, T2, W, bd, q, SameSide
    <3> QED BY <1>1, <1>2, <1>4, <1>13, <3>1, <3>2, <3>3, <3>4, PushHiddenStep
  <2> QED BY <2>5, <2>6
<1>14. CASE q \in hasState /\ bd # Nil /\ EditOutOf(q, old, new)
  <2>1. Rank[old] < bd /\ Rank[new] > bd /\ Rank[old] <= bd
    BY <1>4, <1>5, <1>14 DEF EditOutOf
  <2>2. First(After(T2, bd)) # {}
    <3>1. new \in After(T2, bd) /\ After(T2, bd) \in SUBSET Row
      BY <1>6, <2>1 DEF After, Swap
    <3> QED BY <3>1, FirstExists
  <2>3. PICK n \in First(After(T2, bd)) :
          IF Rank[n] = Rank[new]
          THEN ReplaceBoundAndForward(q, old, new)
          ELSE /\ PushRemoveThenAdd(q, old, n)
               /\ keepTakeState
               /\ UNCHANGED hidden
    BY <1>2, <1>14, <2>2 DEF EditOutOf
  <2>4. CASE Rank[n] = Rank[new]
    BY <1>11, <1>12, <1>14, <2>1, <2>3, <2>4
  <2>5. CASE Rank[n] # Rank[new]
    <3>1. /\ n \notin W /\ n \in T2
          /\ Window(T2, size[q], Rank[n]) /\ AtOrBefore(T2, Rank[n]) = Swap(W, old, n)
      BY <1>11, <1>14, <2>1, <2>5
    <3>2. PushRemoveThenAdd(q, old, n) /\ keepTakeState /\ UNCHANGED hidden
      BY <2>3, <2>5
    <3>3. old \in W
      BY <1>2, <2>1 DEF AtOrBefore
    <3> HIDE DEF T, T2, W, q, SameSide
    <3> QED BY <1>1, <1>2, <1>4, <1>14, <3>1, <3>2, <3>3, PushLateStep
  <2> QED BY <2>4, <2>5
<1>15. CASE q \in hasState /\ bd # Nil /\ EditInto(q, old, new)
  <2> DEFINE upTo == AtOrBefore(T2, bd)
             newBoundNode == Last(upTo \ Last(upTo))
  <2>1. Rank[old] > bd /\ Rank[new] < bd
    BY <1>15 DEF EditInto
  <2>2. upTo = With(W, new) /\ new \notin W
    <3>1. \A y \in T : Rank[y] \in Nat
      BY <1>4, <1>15, TakeAssumption
    <3>2. new \notin W
      BY <1>2 DEF AtOrBefore
    <3> QED BY <1>2, <1>4, <1>5, <1>15, <2>1, <3>1, <3>2 DEF AtOrBefore, Swap, With
  <2>3. PICK x \in T : Rank[x] = bd
    BY <1>4, <1>15 DEF Window
  <2>4. x \in W /\ x # old /\ x # new
    BY <1>2, <1>4, <1>5, <1>15, <2>1, <2>3 DEF AtOrBefore
  <2>5. Last(upTo) = {x}
    <3>1. \A y \in upTo : Rank[y] \in Nat /\ Rank[y] <= bd /\ (Rank[y] = bd => y = x)
      BY <1>6, <2>3, <2>4, TakeAssumption DEF AtOrBefore, Sorted, Swap
    <3>2. x \in upTo
      BY <2>2, <2>4 DEF With
    <3> HIDE DEF upTo
    <3> QED BY <1>4, <1>15, <2>3, <3>1, <3>2 DEF Last
  <2>6. newBoundNode = Last(Without(upTo, x)) /\ new \in Without(upTo, x)
    BY <2>2, <2>4, <2>5 DEF Without, With
  <2>7. newBoundNode # {}
    <3>1. Without(upTo, x) \in SUBSET Row /\ \A y \in Without(upTo, x) : Rank[y] <= bd
      BY <1>6 DEF Without, AtOrBefore
    <3> QED BY <1>4, <1>15, <2>6, <3>1, LastExists
  <2>8. PICK c \in Last(Without(upTo, x)) : /\ setTakeState(q, size[q], Rank[c])
                                           /\ PushRemoveThenAdd(q, x, new)
                                           /\ hidden' = new
    BY <1>2, <1>15, <2>5, <2>6, <2>7 DEF EditInto
  <2>9. Rank[new] <= Rank[c] /\ Rank[c] \in Nat
    BY <1>6, <2>6, TakeAssumption DEF Last, Without, AtOrBefore
  <2>10. size[q] = Limit
    BY <1>2, <1>4, <1>15, <2>1, WindowFacts
  <2>11. new \in T2
    BY DEF Swap
  <2> HIDE DEF T, T2, SameSide
  <2>12. Window(T2, size[q], Rank[c]) /\ AtOrBefore(T2, Rank[c]) = Swap(W, x, new)
    BY <1>4, <1>6, <1>15, <2>1, <2>2, <2>3, <2>8, <2>10, DisplacingWindow
  <2> HIDE DEF W, bd, q, upTo
  <2> QED BY <1>1, <1>2, <1>4, <1>15, <2>2, <2>4, <2>8, <2>9, <2>11, <2>12, PushHiddenStep
<1> QED BY <1>3, <1>7, <1>8, <1>9, <1>10, <1>13, <1>14, <1>15 DEF pushEditChange

(* A set smaller than the limit and the sets below it.                     *)
LEMMA SubsetBelowLimit ==
    ASSUME NEW A, NEW B \in SUBSET A, IsFiniteSet(A), Cardinality(A) < Limit
    PROVE  Cardinality(B) < Limit
<1>1. IsFiniteSet(B) /\ Cardinality(B) <= Cardinality(A)
  BY FS_Subset
<1>2. Cardinality(A) \in Nat /\ Cardinality(B) \in Nat
  BY <1>1, FS_CardinalityType
<1> QED BY <1>1, <1>2, TakeAssumption

(* With a limit above zero only an empty partition hydrates empty.         *)
LEMMA EmptyHydration ==
    ASSUME NEW T \in SUBSET Row, Limit # 0, InitialWindow(T) = {}
    PROVE  T = {}
<1>1. SUFFICES ASSUME T # {} PROVE FALSE
  OBVIOUS
<1>2. PICK r : r \in First(T)
  BY <1>1, FirstExists
<1>3. \A y \in T : Rank[y] \in Nat
  BY TakeAssumption
<1>4. r \in T /\ Before(T, Rank[r]) = {}
  BY <1>2, <1>3 DEF First, Before
<1>5. Cardinality(Before(T, Rank[r])) < Limit
  BY <1>4, FS_EmptySet, TakeAssumption
<1> QED BY <1>4, <1>5 DEF InitialWindow

(* What initialFetch stores describes what it returns.                     *)
LEMMA HydratedWindow ==
    ASSUME NEW T \in SUBSET Row, IsFiniteSet(T), Sorted(T),
           NEW last \in Last(InitialWindow(T))
    PROVE  /\ Cardinality(InitialWindow(T)) \in Nat
           /\ Window(T, Cardinality(InitialWindow(T)), Rank[last])
           /\ AtOrBefore(T, Rank[last]) = InitialWindow(T)
<1> DEFINE V == InitialWindow(T)
           B == Before(T, Rank[last])
<1>1. V \in SUBSET T /\ IsFiniteSet(V) /\ IsFiniteSet(B) /\ B \in SUBSET T
  BY FS_Subset DEF InitialWindow, Before
<1>2. \A y \in T : Rank[y] \in Nat
  BY TakeAssumption
<1>3. last \in V /\ last \in T /\ Cardinality(B) < Limit /\ \A y \in V : Rank[y] <= Rank[last]
  BY <1>1 DEF Last, InitialWindow
<1>4. ASSUME NEW r \in T, Rank[r] <= Rank[last] PROVE r \in V
  <2>1. Before(T, Rank[r]) \in SUBSET B
    BY <1>2, <1>3, <1>4 DEF Before
  <2>2. Cardinality(Before(T, Rank[r])) < Limit
    <3> HIDE DEF B
    <3> QED BY <1>1, <1>3, <2>1, SubsetBelowLimit
  <2> QED BY <2>2 DEF InitialWindow
<1>5. AtOrBefore(T, Rank[last]) = V
  <2> HIDE DEF V
  <2> QED BY <1>1, <1>3, <1>4 DEF AtOrBefore
<1>6. V = B \cup {last} /\ last \notin B
  <2>1. last \notin B
    BY <1>2, <1>3 DEF Before
  <2>2. ASSUME NEW y \in V PROVE y \in B \/ y = last
    BY <1>1, <1>2, <1>3 DEF Before, Sorted
  <2>3. ASSUME NEW y \in B PROVE y \in V
    BY <1>2, <1>3, <1>4 DEF Before
  <2> QED BY <1>3, <2>1, <2>2, <2>3
<1>7. Cardinality(V) = Cardinality(B) + 1 /\ Cardinality(B) \in Nat
  BY <1>1, <1>6, FS_AddElement, FS_CardinalityType
<1>8. Cardinality(V) <= Limit /\ Cardinality(V) \in Nat
  BY <1>3, <1>7, TakeAssumption
<1>9. Cardinality(V) < Limit => V = T
  <2> SUFFICES ASSUME Cardinality(V) < Limit, T \ V # {} PROVE FALSE
    BY <1>1
  <2>1. PICK r : r \in First(T \ V)
    BY FirstExists
  <2>2. r \in T /\ r \notin V /\ \A y \in T \ V : Rank[r] <= Rank[y]
    BY <2>1 DEF First
  <2>3. Before(T, Rank[r]) \in SUBSET V
    BY <1>2, <2>2 DEF Before
  <2>4. Cardinality(Before(T, Rank[r])) < Limit
    <3> HIDE DEF V
    <3> QED BY <1>1, <2>3, SubsetBelowLimit
  <2> QED BY <2>2, <2>4 DEF InitialWindow
<1>10. Window(T, Cardinality(V), Rank[last])
  <2> HIDE DEF V
  <2> QED BY <1>3, <1>5, <1>8, <1>9, MakeWindow
<1> QED BY <1>5, <1>8, <1>10

(* Hydration of a partition.                                               *)
LEMMA initialFetchPreservesInv ==
    ASSUME Inv, NEW q \in Partition, initialFetch(q)
    PROVE  Inv'
<1> DEFINE T == InPartition(source, q)
           V == InitialWindow(T)
<1>1. /\ pending = NoRow /\ hidden = NoRow /\ q \notin hasState /\ Limit # 0
      /\ UNCHANGED <<source, hidden, pending, fault>>
      /\ view' = [view EXCEPT ![q] = V]
  BY DEF initialFetch, Idle, Inv, PendingInv
<1>2. T \in SUBSET Row /\ IsFiniteSet(T) /\ Sorted(T)
  <2>1. T \in SUBSET source
    BY DEF InPartition
  <2> QED BY <2>1, FS_Subset DEF Inv, TypeOK, Sorted
<1>3. \E s, b \in Nat : /\ setTakeState(q, s, b)
                       /\ Window(T, s, b)
                       /\ AtOrBefore(T, b) = V
  <2>1. CASE V = {}
    <3>1. T = {}
      BY <1>1, <1>2, <2>1, EmptyHydration
    <3>2. Window(T, 0, Nil) /\ AtOrBefore(T, Nil) = V
      BY <2>1, <3>1, EmptyWindow
    <3>3. setTakeState(q, 0, Nil) /\ 0 \in Nat /\ Nil \in Nat
      BY <2>1 DEF initialFetch, Nil
    <3> HIDE DEF T, V
    <3> QED BY <3>2, <3>3
  <2>2. CASE V # {}
    <3>1. PICK last \in Last(V) : setTakeState(q, Cardinality(V), Rank[last])
      BY <2>2 DEF initialFetch
    <3>2. Rank[last] \in Nat
      BY <1>2, <3>1, TakeAssumption DEF Last, InitialWindow
    <3>3. /\ Cardinality(V) \in Nat
          /\ Window(T, Cardinality(V), Rank[last])
          /\ AtOrBefore(T, Rank[last]) = V
      <4> HIDE DEF T
      <4> QED BY <1>2, <3>1, HydratedWindow
    <3> HIDE DEF T, V
    <3> QED BY <3>1, <3>2, <3>3
  <2> QED BY <2>1, <2>2
<1>4. PICK s, b \in Nat : /\ setTakeState(q, s, b)
                        /\ Window(T, s, b)
                        /\ AtOrBefore(T, b) = V
  BY <1>3
<1>5. /\ hasState' = hasState \cup {q}
      /\ size' = [size EXCEPT ![q] = s]
      /\ bound' = [bound EXCEPT ![q] = b]
      /\ maxBound' \in Nat /\ maxBound <= maxBound' /\ b <= maxBound'
  BY <1>4 DEF setTakeState, Inv, TypeOK, Nil
<1>6. V \in SUBSET Row
  BY <1>2 DEF InitialWindow
<1> HIDE DEF V
<1>7. TypeOK' /\ NoFault' /\ Sorted(source)'
  BY <1>1, <1>5, <1>6 DEF Inv, TypeOK, NoFault, Sorted
<1>8. StatesHydrated' /\ PendingInv'
  BY <1>1, <1>5 DEF Inv, TypeOK, StatesHydrated, PendingInv
<1>9. MaxBoundInv'
  BY <1>5 DEF Inv, TypeOK, MaxBoundInv
<1>10. \A p \in Partition : EventualBound(p)' = bound'[p] /\ EventualBound(p) = bound[p]
  BY <1>1 DEF EventualBound
<1>11. ASSUME NEW p \in hasState'
       PROVE  /\ Window(InPartition(source, p), size[p], EventualBound(p))'
              /\ view'[p] = AtOrBefore(InPartition(source, p), EventualBound(p)')
  <2>1. CASE p = q
    <3>1. size'[q] = s /\ bound'[q] = b /\ view'[q] = V /\ InPartition(source, q)' = T
      BY <1>1, <1>5 DEF Inv, TypeOK, InPartition
    <3>2. EventualBound(q)' = b
      BY <1>10, <3>1
    <3>3. Window(InPartition(source, q), size[q], EventualBound(q))'
      BY <1>4, <3>1, <3>2 DEF Window, AtOrBefore, InPartition
    <3> QED BY <1>4, <2>1, <3>1, <3>2, <3>3
  <2>2. CASE p # q
    <3>1. p \in hasState /\ p \in Partition
      BY <1>5, <2>2 DEF Inv, TypeOK
    <3>2. size'[p] = size[p] /\ bound'[p] = bound[p] /\ view'[p] = view[p]
      BY <1>1, <1>5, <2>2, <3>1 DEF Inv, TypeOK
    <3>3. EventualBound(p)' = EventualBound(p)
      BY <1>10, <3>1, <3>2
    <3>4. Window(InPartition(source, p), size[p], EventualBound(p))
      BY <3>1 DEF Inv, WindowsInv
    <3>5. view[p] = AtOrBefore(InPartition(source, p), EventualBound(p)) \ {pending}
      BY <3>1 DEF Inv, ViewInv
    <3>6. pending \notin AtOrBefore(InPartition(source, p), EventualBound(p))
      BY <1>1, TakeAssumption DEF AtOrBefore, InPartition, Inv, TypeOK
    <3> QED BY <1>1, <3>2, <3>3, <3>4, <3>5, <3>6 DEF Window, AtOrBefore, InPartition
  <2> QED BY <2>1, <2>2
<1>12. WindowsInv'
  BY <1>11 DEF WindowsInv
<1>13. ViewInv'
  <2>1. ASSUME NEW p \in hasState'
        PROVE  (view[p] = AtOrBefore(InPartition(source, p), EventualBound(p)) \ {pending})'
    <3>1. pending' \notin AtOrBefore(InPartition(source, p), EventualBound(p)')
      BY <1>1, TakeAssumption DEF AtOrBefore, InPartition, Inv, TypeOK
    <3> QED BY <1>1, <1>11, <3>1 DEF AtOrBefore, InPartition
  <2> QED BY <2>1 DEF ViewInv
<1> QED BY <1>7, <1>8, <1>9, <1>12, <1>13 DEF Inv

(* The second change of a push: the pending row joins the output.          *)
LEMMA FinishPushPreservesInv ==
    ASSUME Inv, FinishPush
    PROVE  Inv'
<1> DEFINE q == Part[pending]
           T == InPartition(source, q)
           e == EventualBound(q)
<1>1. /\ pending \in Row /\ pending # NoRow /\ q \in hasState /\ q \in Partition
      /\ pending \in source /\ pending \in T /\ fault = "none"
  BY DEF FinishPush, Inv, PendingInv, TypeOK, InPartition
<1>2. /\ pending' = NoRow /\ hidden' = NoRow /\ source' = source
  BY DEF FinishPush
<1>3. /\ size[q] \in Nat /\ bound[q] \in Nat /\ e \in Nat
      /\ \A p \in Partition : bound[p] <= maxBound /\ bound[p] \in Nat
      /\ maxBound \in Nat
  BY <1>1, TakeAssumption DEF Inv, TypeOK, EventualBound, MaxBoundInv
<1>4. /\ hasState' = hasState /\ size' = size
      /\ bound' = [bound EXCEPT ![q] = e]
      /\ maxBound' \in Nat /\ maxBound <= maxBound' /\ e <= maxBound'
  <2>1. CASE hidden = NoRow
    <3>1. setTakeState(q, size[q], Rank[pending]) /\ e = Rank[pending]
      BY <1>1, <2>1 DEF FinishPush, EventualBound
    <3>2. size' = [size EXCEPT ![q] = size[q]]
      BY <3>1 DEF setTakeState
    <3>3. size' = size
      BY <3>2 DEF Inv, TypeOK
    <3>4. hasState' = hasState /\ bound' = [bound EXCEPT ![q] = e]
      BY <1>1, <3>1 DEF setTakeState
    <3>5. maxBound' \in Nat /\ maxBound <= maxBound' /\ e <= maxBound'
      BY <1>3, <3>1 DEF setTakeState, Nil
    <3> QED BY <3>3, <3>4, <3>5
  <2>2. CASE hidden # NoRow
    <3>1. keepTakeState /\ e = bound[q]
      BY <2>2 DEF FinishPush, EventualBound
    <3> QED BY <1>1, <1>3, <3>1 DEF keepTakeState, Inv, TypeOK
  <2> QED BY <2>1, <2>2
<1>5. /\ view[q] = AtOrBefore(T, e) \ {pending}
      /\ Window(T, size[q], e)
  BY <1>1 DEF Inv, ViewInv, WindowsInv
<1>6. Rank[pending] <= e /\ pending \in AtOrBefore(T, e)
  <2>1. Rank[pending] <= e
    BY <1>1, TakeAssumption DEF Inv, PendingInv, EventualBound
  <2> QED BY <1>1, <2>1 DEF AtOrBefore
<1>7. Unused(pending, view[q])
  BY <1>1, <1>5 DEF Inv, Sorted, Unused, AtOrBefore, InPartition
<1>8. /\ view' = [view EXCEPT ![q] = AtOrBefore(T, e)]
      /\ fault' = "none"
  <2>1. {} \subseteq view[q] /\ view[q] \ {} = view[q]
        /\ (view[q] \ {}) \cup {pending} = AtOrBefore(T, e)
    BY <1>5, <1>6
  <2>2. \A r \in {pending} : Unused(r, view[q] \ {})
    BY <1>7, <2>1
  <2>3. Output(q, {}, {pending})
    BY DEF FinishPush
  <2> HIDE DEF T, e
  <2> QED BY <1>1, <2>1, <2>2, <2>3 DEF Output
<1>9. TypeOK' /\ NoFault' /\ Sorted(source)' /\ PendingInv'
  <2>1. AtOrBefore(T, e) \in SUBSET Row
    BY DEF AtOrBefore, InPartition, Inv, TypeOK
  <2> HIDE DEF T, e
  <2> QED BY <1>1, <1>2, <1>3, <1>4, <1>8, <2>1 DEF Inv, TypeOK, NoFault, Sorted, PendingInv
<1>10. StatesHydrated' /\ MaxBoundInv'
  <2> HIDE DEF T, e
  <2> QED BY <1>1, <1>3, <1>4, <1>8 DEF Inv, TypeOK, StatesHydrated, MaxBoundInv
<1>11. ASSUME NEW p \in hasState
       PROVE  EventualBound(p)' = EventualBound(p)
  <2>1. EventualBound(p)' = bound'[p]
    BY <1>2 DEF EventualBound
  <2>2. CASE p = q
    <3> HIDE DEF e
    <3> QED BY <1>1, <1>4, <2>1, <2>2 DEF Inv, TypeOK, e
  <2>3. CASE p # q
    BY <1>4, <2>1, <2>3 DEF EventualBound, Inv, TypeOK
  <2> QED BY <2>2, <2>3
<1>12. WindowsInv'
  BY <1>2, <1>4, <1>11 DEF Inv, WindowsInv, Window, AtOrBefore, InPartition
<1>13. ViewInv'
  <2> SUFFICES ASSUME NEW p \in hasState
               PROVE  view'[p] = AtOrBefore(InPartition(source, p), EventualBound(p))
    <3>1. \A p \in hasState :
             NoRow \notin AtOrBefore(InPartition(source, p), EventualBound(p))
      BY TakeAssumption DEF AtOrBefore, InPartition, Inv, TypeOK
    <3> QED BY <1>2, <1>4, <1>11, <3>1 DEF ViewInv, AtOrBefore, InPartition
  <2>1. CASE p = q
    BY <1>1, <1>8, <2>1 DEF Inv, TypeOK
  <2>2. CASE p # q
    <3>1. view'[p] = view[p]
      BY <1>8, <2>2 DEF Inv, TypeOK
    <3>2. pending \notin InPartition(source, p)
      BY <2>2 DEF InPartition
    <3> QED BY <3>1, <3>2 DEF Inv, ViewInv, AtOrBefore
  <2> QED BY <2>1, <2>2
<1> QED BY <1>9, <1>10, <1>12, <1>13 DEF Inv

-----------------------------------------------------------------------------
(* The theorems.                                                           *)

(* An empty input, nothing hydrated.                                       *)
LEMMA InitInv == Init => Inv
<1> SUFFICES ASSUME Init PROVE Inv
  OBVIOUS
<1>1. TypeOK /\ NoFault /\ Sorted(source)
  BY FS_EmptySet DEF Init, TypeOK, NoFault, Sorted, Nil
<1>2. StatesHydrated /\ WindowsInv /\ ViewInv /\ PendingInv /\ MaxBoundInv
  BY DEF Init, StatesHydrated, WindowsInv, ViewInv, PendingInv, MaxBoundInv, Nil
<1> QED BY <1>1, <1>2 DEF Inv

(* Every step preserves the invariant.                                     *)
LEMMA NextInv == Inv /\ [Next]_vars => Inv'
<1> SUFFICES ASSUME Inv, [Next]_vars PROVE Inv'
  OBVIOUS
<1>1. CASE UNCHANGED vars
  BY <1>1 DEF vars, Inv, TypeOK, NoFault, Sorted, StatesHydrated, WindowsInv, ViewInv, PendingInv,
              MaxBoundInv, EventualBound, Window, AtOrBefore, InPartition, First, After
<1>2. ASSUME NEW p \in Partition, initialFetch(p) PROVE Inv'
  BY <1>2, initialFetchPreservesInv
<1>3. ASSUME NEW r \in Row, PushAdd(r) PROVE Inv'
  BY <1>3, PushAddPreservesInv
<1>4. ASSUME NEW r \in source, PushRemove(r) PROVE Inv'
  BY <1>4, PushRemovePreservesInv
<1>5. ASSUME NEW old \in source, NEW new \in Row, pushEditChange(old, new) PROVE Inv'
  BY <1>5, pushEditChangePreservesInv
<1>6. ASSUME NEW old \in source, NEW new \in Row, PushChild(old, new) PROVE Inv'
  BY <1>6, PushChildPreservesInv
<1>7. ASSUME FinishPush PROVE Inv'
  BY <1>7, FinishPushPreservesInv
<1> QED BY <1>1, <1>2, <1>3, <1>4, <1>5, <1>6, <1>7 DEF Next

(* The inductive invariant holds in every behaviour of Take, for every     *)
(* table, order, partitioning and limit.                                   *)
THEOREM Invariance == Spec => []Inv
BY InitInv, NextInv, PTL DEF Spec

(* Between pushes every hydrated partition's output is what a fresh        *)
(* hydration would return: the first Limit rows in their current versions. *)
THEOREM WindowCorrectness == Spec => []WindowCorrect
<1>1. Inv => WindowCorrect
  <2> SUFFICES ASSUME Inv, pending = NoRow, NEW p \in hasState
               PROVE  view[p] = InitialWindow(InPartition(source, p))
    BY DEF WindowCorrect
  <2> DEFINE T == InPartition(source, p)
  <2>1. /\ T \in SUBSET Row /\ IsFiniteSet(T) /\ size[p] \in Nat /\ bound[p] \in Nat
        /\ Window(T, size[p], bound[p]) /\ view[p] = AtOrBefore(T, bound[p])
    BY IdleFacts
  <2> HIDE DEF T
  <2>2. AtOrBefore(T, bound[p]) = InitialWindow(T)
    BY <2>1, WindowIsInitialWindow
  <2> QED BY <2>1, <2>2 DEF T
<1> QED BY <1>1, Invariance, PTL

(* No sequence of changes makes Take panic, or makes it add a row its      *)
(* output has, or remove or edit one it has not.                           *)
THEOREM FaultFreedom == Spec => []NoFault
<1>1. Inv => NoFault
  BY DEF Inv
<1> QED BY <1>1, Invariance, PTL

(* Every variable keeps its type.                                          *)
THEOREM TypeCorrectness == Spec => []TypeOK
<1>1. Inv => TypeOK
  BY DEF Inv
<1> QED BY <1>1, Invariance, PTL

(* A Fetch from downstream, in the middle of a push too, returns the rows  *)
(* the output has been told about.                                         *)
THEOREM FetchAgreesWithOutput == Spec => []FetchMatchesOutput
<1>1. Inv => FetchMatchesOutput
  <2> SUFFICES ASSUME Inv, NEW p \in hasState PROVE Fetch(p) = view[p]
    BY DEF FetchMatchesOutput
  <2>1. view[p] = AtOrBefore(InPartition(source, p), EventualBound(p)) \ {pending}
    BY DEF Inv, ViewInv
  <2>2. p \in Partition /\ bound[p] \in Nat /\ source \in SUBSET Row
        /\ \A r \in source : Rank[r] \in Nat /\ Rank[r] > 0
    BY TakeAssumption DEF Inv, TypeOK
  <2>3. CASE hidden # NoRow
    <3>1. hidden = pending /\ pending \in source /\ EventualBound(p) = bound[p]
      BY <2>3 DEF Inv, PendingInv, EventualBound
    <3>2. \A r \in source : Rank[r] = Rank[pending] <=> r = pending
      BY <3>1 DEF Inv, Sorted
    <3>3. Fetch(p) = {r \in InPartition(source, p) : Rank[r] <= bound[p] /\ r # pending}
      BY <2>2, <2>3, <3>1, <3>2 DEF Fetch, InPartition, Nil
    <3> QED BY <2>1, <3>1, <3>3 DEF AtOrBefore
  <2>4. CASE hidden = NoRow
    <3>1. Fetch(p) = AtOrBefore(InPartition(source, p), bound[p])
      BY <2>2, <2>4 DEF Fetch, AtOrBefore, InPartition, Nil
    <3>2. CASE pending # NoRow /\ Part[pending] = p
      <4> DEFINE U == InPartition(source, p)
      <4>1. pending \in U /\ Rank[pending] > bound[p] /\ EventualBound(p) = Rank[pending]
            /\ \A y \in U : Rank[y] > bound[p] => Rank[pending] <= Rank[y]
        BY <2>4, <3>2 DEF Inv, PendingInv, EventualBound, First, After, InPartition
      <4>2. ASSUME NEW y \in U
            PROVE  Rank[y] <= Rank[pending] /\ y # pending <=> Rank[y] <= bound[p]
        <5>1. Rank[y] \in Nat /\ Rank[pending] \in Nat
          BY <2>2, <4>1 DEF InPartition
        <5>2. Rank[y] = Rank[pending] => y = pending
          BY <4>1 DEF Inv, Sorted, InPartition
        <5> QED BY <2>2, <4>1, <5>1, <5>2
      <4>3. AtOrBefore(U, Rank[pending]) \ {pending} = AtOrBefore(U, bound[p])
        <5> HIDE DEF U
        <5> QED BY <4>2 DEF AtOrBefore
      <4> QED BY <2>1, <3>1, <4>1, <4>3
    <3>3. CASE ~(pending # NoRow /\ Part[pending] = p)
      <4>1. EventualBound(p) = bound[p]
        BY <3>3 DEF EventualBound
      <4>2. pending \notin InPartition(source, p)
        BY <2>2, <3>3, TakeAssumption DEF InPartition
      <4> QED BY <2>1, <3>1, <4>1, <4>2 DEF AtOrBefore
    <3> QED BY <3>2, <3>3
  <2> QED BY <2>3, <2>4
<1> QED BY <1>1, Invariance, PTL

(* The output never holds more than Limit rows of a partition.             *)
THEOREM LimitRespected == Spec => []NeverOverLimit
<1>1. Inv => NeverOverLimit
  <2> SUFFICES ASSUME Inv, NEW p \in Partition PROVE Cardinality(view[p]) <= Limit
    BY DEF NeverOverLimit
  <2>1. CASE p \notin hasState
    <3>1. view[p] = {}
      BY <2>1 DEF Inv, StatesHydrated
    <3>2. Cardinality(view[p]) = 0
      BY <3>1, FS_EmptySet
    <3> QED BY <3>2, TakeAssumption
  <2>2. CASE p \in hasState
    <3> DEFINE W == AtOrBefore(InPartition(source, p), EventualBound(p))
    <3>1. Cardinality(W) = size[p] /\ size[p] <= Limit /\ size[p] \in Nat
      BY <2>2 DEF Inv, WindowsInv, Window, TypeOK
    <3>2. W \in SUBSET source /\ IsFiniteSet(source)
      BY DEF AtOrBefore, InPartition, Inv, TypeOK
    <3>3. IsFiniteSet(W)
      BY <3>2, FS_Subset
    <3>4. view[p] \in SUBSET W
      BY <2>2 DEF Inv, ViewInv
    <3>5. Cardinality(view[p]) <= Cardinality(W) /\ Cardinality(view[p]) \in Nat
      BY <3>3, <3>4, FS_Subset, FS_CardinalityType
    <3> QED BY <3>1, <3>5, TakeAssumption
  <2> QED BY <2>1, <2>2
<1> QED BY <1>1, Invariance, PTL

(* Between pushes an unconstrained fetch returns every partition's window: *)
(* maxBound is never below a stored bound.                                 *)
THEOREM UnconstrainedFetchIsComplete == Spec => []UnconstrainedFetchComplete
<1>1. Inv => UnconstrainedFetchComplete
  <2> SUFFICES ASSUME Inv, pending = NoRow
               PROVE  FetchUnconstrained = UNION {view[p] : p \in hasState}
    BY DEF UnconstrainedFetchComplete
  <2>1. \A p \in hasState : view[p] = AtOrBefore(InPartition(source, p), bound[p])
    BY IdleFacts
  <2>2. /\ source \in SUBSET Row /\ maxBound \in Nat
        /\ \A p \in hasState : bound[p] \in Nat /\ bound[p] <= maxBound
        /\ \A r \in source : Rank[r] \in Nat /\ Rank[r] > 0
    BY TakeAssumption DEF Inv, TypeOK, MaxBoundInv
  <2>3. ASSUME NEW r \in FetchUnconstrained PROVE r \in UNION {view[p] : p \in hasState}
    <3>1. r \in source /\ Part[r] \in hasState /\ Rank[r] <= bound[Part[r]]
      BY DEF FetchUnconstrained
    <3>2. r \in view[Part[r]]
      BY <2>1, <3>1 DEF AtOrBefore, InPartition
    <3> QED BY <3>1, <3>2
  <2>4. ASSUME NEW r \in UNION {view[p] : p \in hasState} PROVE r \in FetchUnconstrained
    <3>1. PICK p \in hasState : r \in view[p]
      OBVIOUS
    <3>2. r \in source /\ Part[r] = p /\ Rank[r] <= bound[p]
      BY <2>1, <3>1 DEF AtOrBefore, InPartition
    <3>3. bound[p] # Nil /\ maxBound # Nil /\ Rank[r] <= maxBound
      BY <2>2, <3>2 DEF Nil
    <3> QED BY <3>2, <3>3 DEF FetchUnconstrained
  <2> QED BY <2>3, <2>4
<1> QED BY <1>1, Invariance, PTL

=============================================================================
