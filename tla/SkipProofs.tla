----------------------------- MODULE SkipProofs -----------------------------
(***************************************************************************)
(* Proofs about Skip, for every table, primary key, query and cursor.      *)
(*                                                                         *)
(* The argument goes from sequences to orders to fetches.  A sequence      *)
(* lists a set in an order when it has every element once and no later     *)
(* one before an earlier one; filtering, cutting, reversing and inserting  *)
(* keep that.  The two comparators of the code say what Precedes says, so  *)
(* the source's fetch lists the rows of the table, with the change it      *)
(* shows, that pass.  The invariant is PageCorrect with the fact that the  *)
(* change being pushed is one the table admits; what a fetch returns       *)
(* follows from it.                                                        *)
(***************************************************************************)
EXTENDS Skip, FlattenProofs

-----------------------------------------------------------------------------
(* Sequences in an order, given as a set of pairs.                         *)

(* s has no later element before an earlier one, every element once, and   *)
(* is a list of S if it has all of it.                                     *)
Sorted(s, R) == \A i, j \in DOMAIN s : i < j => <<s[j], s[i]>> \notin R
Once(s) == \A i, j \in DOMAIN s : s[i] = s[j] => i = j
Lists(s, S, R) ==
    /\ s \in Seq(S) /\ \A x \in S : \E i \in DOMAIN s : s[i] = x
    /\ Sorted(s, R) /\ Once(s)

(* A nonempty set of natural numbers has a least element.                  *)
LEMMA MinIs ==
    ASSUME NEW S \in SUBSET Nat, S # {}
    PROVE  Min(S) \in S /\ \A y \in S : Min(S) <= y
<1>1. \A a, b \in Nat : a < b => <<a, b>> \in OpToRel(<, Nat)
  BY DEF OpToRel
<1>2. S \subseteq Nat /\ S # {}
  OBVIOUS
<1>3. PICK m \in S : \A y \in S : ~ (<<y, m>> \in OpToRel(<, Nat))
  BY <1>2, NatLessThanWellFounded, WFMin
<1>4. \A y \in S : ~ (y < m)
  BY <1>1, <1>2, <1>3, Zenon
<1>5. \A y \in S : m <= y
  BY <1>2, <1>4
<1> QED BY <1>3, <1>5 DEF Min

(* The parts of s that Kept puts together.                                 *)
Part(x, S) == IF x \in S THEN <<x>> ELSE <<>>
Parts(s, S) == [i \in DOMAIN s |-> Part(s[i], S)]

(* Kept flattens one sequence per element.                                 *)
LEMMA KeptParts ==
    ASSUME NEW A, NEW S, NEW s \in Seq(A)
    PROVE  /\ Parts(s, S) \in Seq(Seq(A)) /\ Len(Parts(s, S)) = Len(s)
           /\ Kept(s, S) = FlattenSeq(Parts(s, S))
<1>1. DOMAIN s = 1..Len(s) /\ Len(s) \in Nat
  OBVIOUS
<1>2. \A i \in DOMAIN s : Part(s[i], S) \in Seq(A)
  BY DEF Part
<1>3. Parts(s, S) \in Seq(Seq(A)) /\ Len(Parts(s, S)) = Len(s)
  BY <1>1, <1>2 DEF Parts
<1> DEFINE p == Parts(s, S)
<1>4. SubSeq(p, 1, Len(s)) = p
  <2> HIDE DEF p
  <2>1. p \in Seq(Seq(A)) /\ Len(p) = Len(s)
    BY <1>3 DEF p
  <2> QED BY <2>1
<1>5. [i \in DOMAIN s |-> IF s[i] \in S THEN <<s[i]>> ELSE <<>>] = p
  BY DEF Parts, Part
<1> QED BY <1>3, <1>4, <1>5 DEF Kept

(* What Kept has taken from the first n elements of s: every element of S  *)
(* among them, nothing else, and in the order of s.                        *)
TakenFrom(t, s, S, n) ==
    /\ \A k \in DOMAIN t : \E i \in 1..n : t[k] = s[i] /\ s[i] \in S
    /\ \A i \in 1..n : s[i] \in S => \E k \in DOMAIN t : t[k] = s[i]
    /\ \A k, l \in DOMAIN t : k < l => \E i, j \in 1..n : i < j /\ t[k] = s[i] /\ t[l] = s[j]

(* One element more: it is at the end if it is in S.                       *)
LEMMA TakenStep ==
    ASSUME NEW A, NEW S, NEW s \in Seq(A), NEW n \in Nat, n + 1 \in DOMAIN s,
           NEW t \in Seq(A), TakenFrom(t, s, S, n)
    PROVE  t \o Part(s[n + 1], S) \in Seq(A) /\ TakenFrom(t \o Part(s[n + 1], S), s, S, n + 1)
<1>1. s[n + 1] \in A /\ \A i \in 1..n : i \in 1..(n + 1) /\ i < n + 1
  OBVIOUS
<1>2. n + 1 \in 1..(n + 1) /\ \A i \in 1..(n + 1) : i \in 1..n \/ i = n + 1
  OBVIOUS
<1>3. CASE s[n + 1] \notin S
  <2>1. t \o Part(s[n + 1], S) = t
    BY <1>3 DEF Part
  <2>2. \A k \in DOMAIN t : \E i \in 1..(n + 1) : t[k] = s[i] /\ s[i] \in S
    BY <1>1 DEF TakenFrom
  <2>3. \A i \in 1..(n + 1) : s[i] \in S => \E k \in DOMAIN t : t[k] = s[i]
    BY <1>2, <1>3 DEF TakenFrom
  <2>4. \A k, l \in DOMAIN t : k < l => \E i, j \in 1..(n + 1) : i < j /\ t[k] = s[i] /\ t[l] = s[j]
    BY <1>1 DEF TakenFrom
  <2>5. TakenFrom(t, s, S, n + 1)
    BY <2>2, <2>3, <2>4, Zenon DEF TakenFrom
  <2> QED BY <2>1, <2>5
<1>4. CASE s[n + 1] \in S
  <2>1. PICK u : u = t \o Part(s[n + 1], S)
    OBVIOUS
  <2>2. u = Append(t, s[n + 1])
    BY <1>1, <1>4, <2>1 DEF Part
  <2>3. /\ u \in Seq(A) /\ Len(u) \in DOMAIN u /\ u[Len(u)] = s[n + 1]
        /\ \A i \in DOMAIN t : i \in DOMAIN u /\ u[i] = t[i] /\ i < Len(u)
        /\ \A i \in DOMAIN u : i \in DOMAIN t \/ i = Len(u)
        /\ DOMAIN t \subseteq Nat /\ Len(u) \in Nat
    BY <1>1, <2>2, AppendIs
  <2>4. \A k \in DOMAIN u : \E i \in 1..(n + 1) : u[k] = s[i] /\ s[i] \in S
    BY <1>1, <1>2, <1>4, <2>3, SMTT(30) DEF TakenFrom
  <2>5. \A i \in 1..(n + 1) : s[i] \in S => \E k \in DOMAIN u : u[k] = s[i]
    BY <1>1, <1>2, <2>3 DEF TakenFrom
  <2>6. ASSUME NEW k \in DOMAIN u, NEW l \in DOMAIN u, k < l
        PROVE  \E i, j \in 1..(n + 1) : i < j /\ u[k] = s[i] /\ u[l] = s[j]
    <3>1. k \in DOMAIN t
      BY <2>3, <2>6
    <3>2. CASE l \in DOMAIN t
      <4>1. PICK i \in 1..n, j \in 1..n : i < j /\ t[k] = s[i] /\ t[l] = s[j]
        BY <2>6, <3>1, <3>2 DEF TakenFrom
      <4> QED BY <1>1, <2>3, <3>1, <3>2, <4>1
    <3>3. CASE l = Len(u)
      <4>1. PICK i \in 1..n : t[k] = s[i]
        BY <3>1 DEF TakenFrom
      <4> QED BY <1>1, <1>2, <2>3, <3>1, <3>3, <4>1
    <3> QED BY <2>3, <3>2, <3>3
  <2>7. TakenFrom(u, s, S, n + 1)
    BY <2>4, <2>5, <2>6, Zenon DEF TakenFrom
  <2> QED BY <2>1, <2>3, <2>7
<1> QED BY <1>3, <1>4

(* Kept keeps the elements of a sequence that are in a set, in their order.*)
LEMMA KeptIs ==
    ASSUME NEW A, NEW S, NEW s \in Seq(A)
    PROVE  Kept(s, S) \in Seq(A) /\ TakenFrom(Kept(s, S), s, S, Len(s))
<1> DEFINE pre(n) == SubSeq(s, 1, n)
           P == {n \in Nat : n <= Len(s) => /\ Kept(pre(n), S) \in Seq(A)
                                            /\ TakenFrom(Kept(pre(n), S), s, S, n)}
<1>1. Len(s) \in Nat /\ DOMAIN s = 1..Len(s) /\ pre(Len(s)) = s
  OBVIOUS
<1>2. 0 \in P
  <2>1. pre(0) = <<>> /\ <<>> \in Seq(A)
    OBVIOUS
  <2>2. Parts(<<>>, S) = <<>>
    BY DEF Parts
  <2>3. Kept(<<>>, S) = <<>>
    BY <2>1, <2>2, KeptParts, FlattenType
  <2>4. TakenFrom(<<>>, s, S, 0)
    BY DEF TakenFrom
  <2> QED BY <2>1, <2>3, <2>4
<1>3. ASSUME NEW n \in Nat, n \in P PROVE n + 1 \in P
  <2>1. SUFFICES ASSUME n + 1 <= Len(s)
                 PROVE  Kept(pre(n + 1), S) \in Seq(A) /\ TakenFrom(Kept(pre(n + 1), S), s, S, n + 1)
    OBVIOUS
  <2>2. PICK u : u = pre(n)
    OBVIOUS
  <2>3. PICK v : v = pre(n + 1)
    OBVIOUS
  <2>4. /\ u \in Seq(A) /\ v \in Seq(A) /\ Len(u) = n /\ Len(v) = n + 1
        /\ \A i \in 1..n : u[i] = s[i] /\ v[i] = s[i]
        /\ v[n + 1] = s[n + 1] /\ n + 1 \in DOMAIN s
    BY <2>1, <2>2, <2>3
  <2>5. /\ Parts(u, S) \in Seq(Seq(A)) /\ Len(Parts(u, S)) = n
        /\ Parts(v, S) \in Seq(Seq(A)) /\ Len(Parts(v, S)) = n + 1
        /\ Kept(u, S) = FlattenSeq(Parts(u, S)) /\ Kept(v, S) = FlattenSeq(Parts(v, S))
    BY <2>4, KeptParts
  <2>6. /\ \A i \in 1..n : Parts(v, S)[i] = Parts(u, S)[i]
        /\ Parts(v, S)[n + 1] = Part(s[n + 1], S)
    BY <2>4 DEF Parts
  <2>7. Kept(v, S) = Kept(u, S) \o Part(s[n + 1], S)
    <3> HIDE DEF pre
    <3>1. PICK a : a = Parts(u, S)
      OBVIOUS
    <3>2. PICK b : b = Parts(v, S)
      OBVIOUS
    <3>3. FlattenSeq(b) = Cat(FlattenSeq(a), b[n + 1])
      BY <2>5, <2>6, <3>1, <3>2, FlattenLonger
    <3> QED BY <2>5, <2>6, <3>1, <3>2, <3>3 DEF Cat
  <2>8. Kept(u, S) \in Seq(A) /\ TakenFrom(Kept(u, S), s, S, n)
    BY <1>3, <2>1, <2>2
  <2>9. Kept(v, S) \in Seq(A) /\ TakenFrom(Kept(v, S), s, S, n + 1)
    <3>1. PICK t : t = Kept(u, S)
      OBVIOUS
    <3>2. t \o Part(s[n + 1], S) \in Seq(A) /\ TakenFrom(t \o Part(s[n + 1], S), s, S, n + 1)
      BY <2>4, <2>8, <3>1, TakenStep
    <3> QED BY <2>7, <3>1, <3>2
  <2> QED BY <2>3, <2>9
<1>4. P = Nat
  <2> HIDE DEF P
  <2> QED BY <1>2, <1>3, Induction DEF P
<1>5. Kept(pre(Len(s)), S) \in Seq(A) /\ TakenFrom(Kept(pre(Len(s)), S), s, S, Len(s))
  <2>1. Len(s) \in P
    BY <1>1, <1>4
  <2> HIDE DEF pre
  <2> QED BY <1>1, <2>1
<1> QED BY <1>1, <1>5, Zenon

(* Keeping elements of a list keeps its order.                             *)
LEMMA KeptLists ==
    ASSUME NEW S, NEW T, NEW R, NEW s, Lists(s, T, R)
    PROVE  Lists(Kept(s, S), T \cap S, R)
<1>1. s \in Seq(T) /\ DOMAIN s = 1..Len(s)
  BY DEF Lists
<1>2. PICK t : t = Kept(s, S)
  OBVIOUS
<1>3. t \in Seq(T) /\ TakenFrom(t, s, S, Len(s))
  BY <1>1, <1>2, KeptIs
<1>4. t \in Seq(T \cap S)
  <2>1. \A k \in DOMAIN t : t[k] \in T \cap S
    BY <1>1, <1>3 DEF TakenFrom
  <2> QED BY <1>3, <2>1
<1>5. \A x \in T \cap S : \E k \in DOMAIN t : t[k] = x
  BY <1>1, <1>3 DEF TakenFrom, Lists
<1>6. ASSUME NEW k \in DOMAIN t, NEW l \in DOMAIN t, k < l PROVE <<t[l], t[k]>> \notin R
  <2>1. PICK i \in 1..Len(s), j \in 1..Len(s) : i < j /\ t[k] = s[i] /\ t[l] = s[j]
    BY <1>3, <1>6 DEF TakenFrom
  <2> QED BY <1>1, <2>1 DEF Lists, Sorted
<1>7. Once(t)
  <2>1. SUFFICES ASSUME NEW k \in DOMAIN t, NEW l \in DOMAIN t, k < l PROVE t[k] # t[l]
    <3>1. \A k, l \in DOMAIN t : k < l \/ l < k \/ k = l
      BY <1>3
    <3> QED BY <2>1, <3>1 DEF Once
  <2>2. PICK i \in 1..Len(s), j \in 1..Len(s) : i < j /\ t[k] = s[i] /\ t[l] = s[j]
    BY <1>3, <2>1 DEF TakenFrom
  <2>3. i # j
    BY <2>2
  <2> QED BY <1>1, <2>2, <2>3 DEF Lists, Once
<1>8. Sorted(t, R)
  BY <1>6 DEF Sorted
<1> QED BY <1>2, <1>4, <1>5, <1>7, <1>8 DEF Lists

(* A part of a list from one position to another.                          *)
LEMMA PartLists ==
    ASSUME NEW T, NEW R, NEW s, Lists(s, T, R), NEW v \in Nat, NEW w \in Nat,
           1 <= v, v <= Len(s) + 1, w <= Len(s), NEW U,
           \A i \in DOMAIN s : s[i] \in U <=> v <= i /\ i <= w
    PROVE  Lists(SubSeq(s, v, w), T \cap U, R)
<1>1. s \in Seq(T) /\ DOMAIN s = 1..Len(s) /\ Len(s) \in Nat
  BY DEF Lists
<1>2. PICK t : t = SubSeq(s, v, w)
  OBVIOUS
<1>3. t = [k \in 1..(1 + w - v) |-> s[k + v - 1]] /\ DOMAIN t = 1..(1 + w - v) /\ t \in Seq(T)
  BY <1>1, <1>2
<1>4. \A k \in DOMAIN t : k + v - 1 \in DOMAIN s /\ v <= k + v - 1 /\ k + v - 1 <= w /\ t[k] = s[k + v - 1]
  BY <1>1, <1>3
<1>5. t \in Seq(T \cap U)
  <2>1. \A k \in DOMAIN t : t[k] \in T \cap U
    BY <1>1, <1>4
  <2> QED BY <1>3, <2>1
<1>6. ASSUME NEW x \in T \cap U PROVE \E k \in DOMAIN t : t[k] = x
  <2>1. PICK i \in DOMAIN s : s[i] = x
    BY DEF Lists
  <2>2. v <= i /\ i <= w /\ i \in Nat
    BY <1>1, <2>1
  <2>3. i - v + 1 \in DOMAIN t /\ (i - v + 1) + v - 1 = i
    <3>1. i - v + 1 \in 1..(1 + w - v) /\ (i - v + 1) + v - 1 = i
      BY <2>2
    <3> QED BY <1>3, <3>1
  <2> QED BY <1>4, <2>1, <2>3
<1>7. Sorted(t, R)
  <2>1. \A k, l \in DOMAIN t : k < l => k + v - 1 < l + v - 1
    BY <1>3
  <2> QED BY <1>4, <2>1 DEF Lists, Sorted
<1>8. Once(t)
  <2>1. \A k, l \in DOMAIN t : k + v - 1 = l + v - 1 => k = l
    BY <1>3
  <2> QED BY <1>4, <2>1 DEF Lists, Once
<1> QED BY <1>2, <1>5, <1>6, <1>7, <1>8 DEF Lists

(* A list backwards lists the same in the opposite order.                  *)
LEMMA ReverseLists ==
    ASSUME NEW T, NEW R, NEW Q, NEW s, Lists(s, T, R), \A x, y \in T : <<x, y>> \in Q => <<y, x>> \in R
    PROVE  Lists(Reverse(s), T, Q)
<1>1. s \in Seq(T) /\ DOMAIN s = 1..Len(s) /\ Len(s) \in Nat /\ \A i \in DOMAIN s : s[i] \in T
  BY DEF Lists
<1>2. PICK t : t = Reverse(s)
  OBVIOUS
<1>3. DOMAIN t = 1..Len(s) /\ \A i \in DOMAIN t : t[i] = s[(Len(s) - i) + 1] /\ (Len(s) - i) + 1 \in DOMAIN s
  BY <1>1, <1>2 DEF Reverse
<1>4. t \in Seq(T)
  BY <1>1, <1>2 DEF Reverse
<1>5. ASSUME NEW x \in T PROVE \E i \in DOMAIN t : t[i] = x
  <2>1. PICK i \in DOMAIN s : s[i] = x
    BY DEF Lists
  <2>2. (Len(s) - i) + 1 \in DOMAIN t /\ (Len(s) - ((Len(s) - i) + 1)) + 1 = i
    BY <1>1, <1>3
  <2> QED BY <1>3, <2>1, <2>2
<1>6. Sorted(t, Q)
  <2>1. \A i, j \in DOMAIN t : i < j => (Len(s) - j) + 1 < (Len(s) - i) + 1
    BY <1>1, <1>3
  <2>2. ASSUME NEW i \in DOMAIN t, NEW j \in DOMAIN t, i < j PROVE <<t[j], t[i]>> \notin Q
    <3>1. <<t[i], t[j]>> \notin R
      BY <1>3, <2>1, <2>2 DEF Lists, Sorted
    <3>2. t[i] \in T /\ t[j] \in T
      BY <1>1, <1>3
    <3> QED BY <3>1, <3>2
  <2> QED BY <2>2 DEF Sorted
<1>7. Once(t)
  <2>1. \A i, j \in DOMAIN t : (Len(s) - j) + 1 = (Len(s) - i) + 1 => i = j
    BY <1>1, <1>3
  <2> QED BY <1>3, <2>1 DEF Lists, Once
<1> QED BY <1>2, <1>4, <1>5, <1>6, <1>7 DEF Lists

(* An element put between those not after it and those not before it.      *)
LEMMA InsertLists ==
    ASSUME NEW T, NEW R, NEW s, Lists(s, T, R), NEW x, x \notin T, NEW p \in Nat, 1 <= p, p <= Len(s) + 1,
           \A i \in DOMAIN s : IF i < p THEN <<x, s[i]>> \notin R ELSE <<s[i], x>> \notin R
    PROVE  Lists(InsertAt(s, p, x), T \cup {x}, R)
<1>1. s \in Seq(T) /\ DOMAIN s = 1..Len(s) /\ Len(s) \in Nat /\ \A i \in DOMAIN s : s[i] \in T
  BY DEF Lists
<1>2. PICK t : t = InsertAt(s, p, x)
  OBVIOUS
<1>3. /\ t \in Seq(T \cup {x}) /\ DOMAIN t = 1..(Len(s) + 1) /\ t[p] = x
      /\ \A i \in 1..Len(s) : (i < p => t[i] = s[i]) /\ (i >= p => t[i + 1] = s[i])
  <2>1. PICK a : a = SubSeq(s, 1, p - 1)
    OBVIOUS
  <2>2. PICK b : b = SubSeq(s, p, Len(s))
    OBVIOUS
  <2>3. a \in Seq(T \cup {x}) /\ Len(a) = p - 1 /\ \A i \in 1..(p - 1) : a[i] = s[i]
    BY <1>1, <2>1
  <2>4. b \in Seq(T \cup {x}) /\ Len(b) = Len(s) + 1 - p /\ \A i \in 1..(Len(s) + 1 - p) : b[i] = s[i + p - 1]
    BY <1>1, <2>2
  <2>5. t = (a \o <<x>>) \o b
    BY <1>2, <2>1, <2>2 DEF InsertAt
  <2>6. PICK c : c = a \o <<x>>
    OBVIOUS
  <2>7. c \in Seq(T \cup {x}) /\ Len(c) = p /\ c[p] = x /\ \A i \in 1..(p - 1) : c[i] = s[i]
    BY <2>3, <2>6
  <2>8. /\ t \in Seq(T \cup {x}) /\ Len(t) = Len(s) + 1
        /\ \A i \in 1..p : t[i] = c[i]
        /\ \A i \in 1..(Len(s) + 1 - p) : t[p + i] = b[i]
    <3>1. t = c \o b
      BY <2>5, <2>6
    <3>2. /\ c \o b \in Seq(T \cup {x}) /\ Len(c \o b) = Len(c) + Len(b)
          /\ \A i \in DOMAIN c : (c \o b)[i] = c[i]
          /\ \A i \in DOMAIN b : (c \o b)[Len(c) + i] = b[i]
          /\ DOMAIN c = 1..Len(c) /\ DOMAIN b = 1..Len(b)
      <4>1. PICK A : A = T \cup {x}
        OBVIOUS
      <4>2. c \in Seq(A) /\ b \in Seq(A)
        BY <2>4, <2>7, <4>1, Zenon
      <4>3. /\ c \o b \in Seq(A) /\ Len(c \o b) = Len(c) + Len(b)
            /\ \A i \in DOMAIN c : (c \o b)[i] = c[i]
            /\ \A i \in DOMAIN b : (c \o b)[Len(c) + i] = b[i]
            /\ DOMAIN c = 1..Len(c) /\ DOMAIN b = 1..Len(b)
        BY <4>2, ConcatIs, SMTT(30)
      <4> QED BY <4>1, <4>3, Zenon
    <3>3. p + (Len(s) + 1 - p) = Len(s) + 1
      BY <1>1
    <3>4. /\ c \o b \in Seq(T \cup {x}) /\ Len(c \o b) = Len(s) + 1
          /\ \A i \in 1..p : (c \o b)[i] = c[i]
          /\ \A i \in 1..(Len(s) + 1 - p) : (c \o b)[p + i] = b[i]
      <4>1. Len(c \o b) = Len(s) + 1
        BY <2>4, <2>7, <3>2, <3>3, Zenon
      <4>2. DOMAIN c = 1..p /\ DOMAIN b = 1..(Len(s) + 1 - p)
        BY <2>4, <2>7, <3>2, Zenon
      <4>3. \A i \in 1..(Len(s) + 1 - p) : (c \o b)[p + i] = b[i]
        BY <2>7, <3>2, <4>2, Zenon
      <4> QED BY <3>2, <4>1, <4>2, <4>3, Zenon
    <3> QED BY <3>1, <3>4, Zenon
  <2>9. ASSUME NEW i \in 1..Len(s), i >= p PROVE t[i + 1] = s[i]
    <3>1. PICK j \in 1..(Len(s) + 1 - p) : p + j = i + 1 /\ j + p - 1 = i
      <4>1. i - p + 1 \in 1..(Len(s) + 1 - p) /\ p + (i - p + 1) = i + 1 /\ (i - p + 1) + p - 1 = i
        BY <1>1, <2>9
      <4> QED BY <4>1
    <3>2. t[p + j] = b[j] /\ b[j] = s[j + p - 1]
      BY <2>4, <2>8, Zenon
    <3> QED BY <3>1, <3>2
  <2> QED BY <1>1, <2>7, <2>8, <2>9
<1>4. \A k \in DOMAIN t : \/ k = p
                          \/ k < p /\ k \in DOMAIN s /\ t[k] = s[k]
                          \/ k > p /\ k - 1 \in DOMAIN s /\ k - 1 >= p /\ t[k] = s[k - 1]
  <2>1. ASSUME NEW k \in DOMAIN t, k > p PROVE k - 1 \in DOMAIN s /\ k - 1 >= p /\ t[k] = s[k - 1]
    <3>1. k - 1 \in DOMAIN s /\ k - 1 >= p /\ (k - 1) + 1 = k
      BY <1>1, <1>3, <2>1
    <3> QED BY <1>1, <1>3, <3>1
  <2> QED BY <1>1, <1>3, <2>1
<1>5. ASSUME NEW y \in T \cup {x} PROVE \E k \in DOMAIN t : t[k] = y
  <2>1. CASE y = x
    BY <1>1, <1>3, <2>1
  <2>2. CASE y \in T
    <3>1. PICK i \in DOMAIN s : s[i] = y
      BY <2>2 DEF Lists
    <3>2. i \in DOMAIN t /\ i + 1 \in DOMAIN t
      BY <1>1, <1>3
    <3>3. t[i] = y \/ t[i + 1] = y
      BY <1>1, <1>3, <3>1
    <3> QED BY <3>2, <3>3
  <2> QED BY <2>1, <2>2
<1>6. ASSUME NEW k \in DOMAIN t, NEW l \in DOMAIN t, k < l PROVE t[k] # t[l] /\ <<t[l], t[k]>> \notin R
  <2>1. k \in Nat /\ l \in Nat
    BY <1>3
  <2>2. CASE k = p
    <3>1. l - 1 \in DOMAIN s /\ l - 1 >= p /\ t[l] = s[l - 1]
      BY <1>4, <1>6, <2>1, <2>2
    <3>2. ~ (l - 1 < p) /\ t[k] = x
      BY <1>3, <2>1, <2>2, <3>1
    <3>3. <<s[l - 1], x>> \notin R /\ s[l - 1] # x
      BY <1>1, <3>1, <3>2
    <3> QED BY <3>1, <3>2, <3>3
  <2>3. CASE l = p
    <3>1. k < p /\ k \in DOMAIN s /\ t[k] = s[k]
      BY <1>4, <1>6, <2>1, <2>3
    <3> QED BY <1>1, <1>3, <2>3, <3>1
  <2>4. CASE k # p /\ l # p
    <3>1. PICK i \in DOMAIN s, j \in DOMAIN s : i < j /\ t[k] = s[i] /\ t[l] = s[j]
      <4>1. CASE l < p
        BY <1>4, <1>6, <2>1, <2>4, <4>1
      <4>2. CASE k < p /\ l > p
        <5>1. k \in DOMAIN s /\ t[k] = s[k] /\ l - 1 \in DOMAIN s /\ t[l] = s[l - 1] /\ k < l - 1
          BY <1>4, <2>1, <4>2
        <5> QED BY <5>1
      <4>3. CASE k > p
        <5>1. k - 1 \in DOMAIN s /\ t[k] = s[k - 1] /\ l - 1 \in DOMAIN s /\ t[l] = s[l - 1] /\ k - 1 < l - 1
          BY <1>4, <1>6, <2>1, <4>3
        <5> QED BY <5>1
      <4> QED BY <1>6, <2>1, <2>4, <4>1, <4>2, <4>3
    <3>2. i # j
      BY <1>1, <3>1
    <3> QED BY <3>1, <3>2 DEF Lists, Sorted, Once
  <2> QED BY <2>2, <2>3, <2>4
<1>7. \A k, l \in DOMAIN t : k < l \/ l < k \/ k = l
  BY <1>3
<1>8. Sorted(t, R)
  BY <1>6 DEF Sorted
<1>9. Once(t)
  BY <1>6, <1>7 DEF Once
<1> QED BY <1>2, <1>3, <1>5, <1>8, <1>9 DEF Lists

(* How many elements of T are before x.                                    *)
Rank(T, R, x) == Cardinality({y \in T : <<y, x>> \in R})

(* Counting what is before an element tells its place.                     *)
LEMMA RankLists ==
    ASSUME NEW T, IsFiniteSet(T), NEW R,
           \A x, y \in T : x = y \/ <<x, y>> \in R \/ <<y, x>> \in R,
           \A x, y \in T : <<x, y>> \in R => <<y, x>> \notin R,
           \A x, y, z \in T : <<x, y>> \in R /\ <<y, z>> \in R => <<x, z>> \in R
    PROVE  Lists([k \in 1..Cardinality(T) |-> CHOOSE x \in T : Rank(T, R, x) = k - 1], T, R)
<1> DEFINE n == Cardinality(T)
           lower(x) == {y \in T : <<y, x>> \in R}
<1>1. n \in Nat
  BY FS_CardinalityType
<1>2. ASSUME NEW x \in T PROVE Rank(T, R, x) \in Nat /\ Rank(T, R, x) < n
  <2>1. lower(x) \in SUBSET T /\ x \notin lower(x)
    OBVIOUS
  <2>2. IsFiniteSet(lower(x)) /\ Cardinality(lower(x)) <= n /\ Cardinality(lower(x)) # n
    BY <2>1, FS_Subset
  <2>3. Cardinality(lower(x)) \in Nat
    BY <2>2, FS_CardinalityType
  <2> QED BY <1>1, <2>2, <2>3 DEF Rank
<1>3. ASSUME NEW x \in T, NEW y \in T, <<x, y>> \in R PROVE Rank(T, R, x) < Rank(T, R, y)
  <2>1. lower(x) \in SUBSET lower(y) /\ x \in lower(y) /\ x \notin lower(x)
    BY <1>3
  <2>2. IsFiniteSet(lower(y))
    <3>1. lower(y) \in SUBSET T
      OBVIOUS
    <3> QED BY <3>1, FS_Subset
  <2>3. Cardinality(lower(x)) <= Cardinality(lower(y)) /\ Cardinality(lower(x)) # Cardinality(lower(y))
    BY <2>1, <2>2, FS_Subset
  <2> QED BY <1>2, <2>3 DEF Rank
<1>4. ASSUME NEW x \in T, NEW y \in T, Rank(T, R, x) = Rank(T, R, y) PROVE x = y
  <2>1. ~ (Rank(T, R, x) < Rank(T, R, y)) /\ ~ (Rank(T, R, y) < Rank(T, R, x))
    BY <1>2, <1>4
  <2> QED BY <1>3, <2>1
<1> DEFINE f == [x \in T |-> Rank(T, R, x) + 1]
<1>5. f \in Injection(T, 1..n)
  <2>1. f \in [T -> 1..n]
    BY <1>1, <1>2
  <2>2. \A x, y \in T : f[x] = f[y] => x = y
    BY <1>2, <1>4
  <2> HIDE DEF f
  <2> QED BY <2>1, <2>2 DEF Injection, IsInjective
<1>6. f \in Surjection(T, 1..n)
  <2>1. IsFiniteSet(1..n) /\ Cardinality(1..n) = n
    BY <1>1, FS_Interval
  <2> HIDE DEF f
  <2> QED BY <1>5, <2>1, FS_Injection
<1>7. ASSUME NEW k \in 1..n PROVE \E x \in T : Rank(T, R, x) = k - 1
  <2>1. PICK x \in T : f[x] = k
    <3> HIDE DEF f
    <3> QED BY <1>6 DEF Surjection
  <2> QED BY <1>2, <2>1
<1>8. PICK s : s = [k \in 1..n |-> CHOOSE x \in T : Rank(T, R, x) = k - 1]
  OBVIOUS
<1>9. DOMAIN s = 1..n /\ \A k \in 1..n : s[k] \in T /\ Rank(T, R, s[k]) = k - 1
  BY <1>7, <1>8
<1>10. s \in Seq(T)
  BY <1>1, <1>8, <1>9
<1>11. ASSUME NEW x \in T PROVE \E k \in DOMAIN s : s[k] = x
  <2>1. Rank(T, R, x) + 1 \in 1..n /\ (Rank(T, R, x) + 1) - 1 = Rank(T, R, x)
    BY <1>1, <1>2
  <2> QED BY <1>4, <1>9, <2>1
<1>12. Sorted(s, R)
  <2>1. ASSUME NEW i \in DOMAIN s, NEW j \in DOMAIN s, i < j, <<s[j], s[i]>> \in R PROVE FALSE
    <3>1. Rank(T, R, s[j]) < Rank(T, R, s[i])
      BY <1>3, <1>9, <2>1
    <3>2. j - 1 < i - 1
      BY <1>9, <3>1
    <3> QED BY <1>9, <2>1, <3>2
  <2> QED BY <2>1 DEF Sorted
<1>13. Once(s)
  <2>1. \A i, j \in DOMAIN s : i - 1 = j - 1 => i = j
    BY <1>9
  <2> QED BY <1>9, <2>1 DEF Once
<1> QED BY <1>8, <1>10, <1>11, <1>12, <1>13 DEF Lists

-----------------------------------------------------------------------------
(* The order of rows and cursors.                                          *)

Column == [field: Columns, dir: {"asc", "desc"}]
Order == Seq(Column)

(* A column of an order has a field and a direction.                       *)
LEMMA ColumnIs ==
    ASSUME sort \in Order
    PROVE  /\ Len(sort) \in Nat /\ DOMAIN sort = 1..Len(sort)
           /\ \A i \in 1..Len(sort) : sort[i].field \in Columns /\ sort[i].dir \in {"asc", "desc"}
<1>1. Len(sort) \in Nat /\ DOMAIN sort = 1..Len(sort) /\ \A i \in 1..Len(sort) : sort[i] \in Column
  BY DEF Order
<1>2. \A c \in Column : c.field \in Columns /\ c.dir \in {"asc", "desc"}
  BY DEF Column
<1> QED BY <1>1, <1>2

(* a has a value in the first n columns of the order; a and b have the     *)
(* same there.                                                             *)
Has(a, n) == \A i \in 1..n : a[sort[i].field] \in Nat
Agrees(a, b, n) == \A i \in 1..n : a[sort[i].field] = b[sort[i].field]

(* Column i puts a before b.                                               *)
Less(a, b, i) == IF sort[i].dir = "asc" THEN a[sort[i].field] < b[sort[i].field]
                 ELSE a[sort[i].field] > b[sort[i].field]

(* Precedes in these words.                                                *)
LEMMA PrecedesIs ==
    ASSUME NEW a, NEW b, NEW n
    PROVE  Precedes(a, b, n) <=> \E i \in 1..n : Agrees(a, b, i - 1) /\ Less(a, b, i)
  BY Zenon DEF Precedes, Agrees, Less

(* Whatever is before b is before what b is before.                        *)
LEMMA PrecedesTransitive ==
    ASSUME NEW n \in Nat, NEW a, NEW b, NEW c, Has(a, n), Has(b, n), Has(c, n),
           Precedes(a, b, n), Precedes(b, c, n)
    PROVE  Precedes(a, c, n)
<1>1. PICK i \in 1..n : Agrees(a, b, i - 1) /\ Less(a, b, i)
  BY PrecedesIs
<1>2. PICK j \in 1..n : Agrees(b, c, j - 1) /\ Less(b, c, j)
  BY PrecedesIs
<1>3. CASE i < j
  <2>1. Agrees(b, c, i - 1) /\ b[sort[i].field] = c[sort[i].field]
    BY <1>2, <1>3 DEF Agrees
  <2>2. Agrees(a, c, i - 1) /\ Less(a, c, i)
    BY <1>1, <2>1 DEF Agrees, Less
  <2> QED BY <2>2, PrecedesIs
<1>4. CASE j < i
  <2>1. Agrees(a, b, j - 1) /\ a[sort[j].field] = b[sort[j].field]
    BY <1>1, <1>4 DEF Agrees
  <2>2. Agrees(a, c, j - 1) /\ Less(a, c, j)
    BY <1>2, <2>1 DEF Agrees, Less
  <2> QED BY <2>2, PrecedesIs
<1>5. CASE i = j
  <2>1. a[sort[i].field] \in Nat /\ b[sort[i].field] \in Nat /\ c[sort[i].field] \in Nat
    BY DEF Has
  <2>2. Agrees(a, c, i - 1) /\ Less(a, c, i)
    BY <1>1, <1>2, <1>5, <2>1 DEF Agrees, Less
  <2> QED BY <2>2, PrecedesIs
<1> QED BY <1>3, <1>4, <1>5

(* No two are before each other.                                           *)
LEMMA PrecedesAsymmetric ==
    ASSUME NEW n \in Nat, NEW a, NEW b, Has(a, n), Has(b, n), Precedes(a, b, n)
    PROVE  ~Precedes(b, a, n)
<1>1. SUFFICES ASSUME Precedes(b, a, n) PROVE FALSE
  OBVIOUS
<1>2. PICK i \in 1..n : Agrees(a, b, i - 1) /\ Less(a, b, i)
  BY PrecedesIs
<1>3. PICK j \in 1..n : Agrees(b, a, j - 1) /\ Less(b, a, j)
  BY <1>1, PrecedesIs
<1>4. a[sort[i].field] \in Nat /\ b[sort[i].field] \in Nat /\ a[sort[j].field] \in Nat /\ b[sort[j].field] \in Nat
  BY DEF Has
<1>5. a[sort[i].field] # b[sort[i].field] /\ a[sort[j].field] # b[sort[j].field]
  BY <1>2, <1>3, <1>4 DEF Less
<1>6. i = j
  BY <1>2, <1>3, <1>5 DEF Agrees
<1> QED BY <1>2, <1>3, <1>4, <1>6 DEF Less

(* Two that are not before each other agree.                               *)
LEMMA PrecedesTotal ==
    ASSUME NEW n \in Nat, NEW a, NEW b, Has(a, n), Has(b, n)
    PROVE  Precedes(a, b, n) \/ Precedes(b, a, n) \/ Agrees(a, b, n)
<1>1. SUFFICES ASSUME ~Agrees(a, b, n) PROVE Precedes(a, b, n) \/ Precedes(b, a, n)
  OBVIOUS
<1> DEFINE D == {i \in 1..n : a[sort[i].field] # b[sort[i].field]}
<1>2. D \in SUBSET Nat /\ D # {}
  BY <1>1 DEF Agrees
<1>3. PICK i : i = Min(D)
  OBVIOUS
<1>4. i \in D /\ \A j \in D : i <= j
  BY <1>2, <1>3, MinIs
<1>5. Agrees(a, b, i - 1) /\ Agrees(b, a, i - 1)
  BY <1>4 DEF Agrees
<1>6. i \in 1..n /\ a[sort[i].field] \in Nat /\ b[sort[i].field] \in Nat /\ a[sort[i].field] # b[sort[i].field]
  BY <1>4 DEF Has
<1>7. Less(a, b, i) \/ Less(b, a, i)
  BY <1>6 DEF Less
<1> QED BY <1>5, <1>6, <1>7, PrecedesIs

(* Nothing tells two that agree apart.                                     *)
LEMMA PrecedesAgrees ==
    ASSUME NEW n \in Nat, NEW a, NEW b, NEW c, Agrees(a, b, n)
    PROVE  /\ Precedes(a, c, n) <=> Precedes(b, c, n)
           /\ Precedes(c, a, n) <=> Precedes(c, b, n)
<1>1. \A i \in 1..n : a[sort[i].field] = b[sort[i].field]
  BY DEF Agrees
<1>2. \A i \in 1..n : Agrees(a, b, i - 1)
  BY DEF Agrees
<1>3. \A i \in 1..n : (Agrees(a, c, i - 1) <=> Agrees(b, c, i - 1)) /\ (Agrees(c, a, i - 1) <=> Agrees(c, b, i - 1))
  BY <1>2 DEF Agrees
<1>4. \A i \in 1..n : (Less(a, c, i) <=> Less(b, c, i)) /\ (Less(c, a, i) <=> Less(c, b, i))
  BY <1>1 DEF Less
<1> QED BY <1>3, <1>4, PrecedesIs

(* What the first columns tell apart, all do.                              *)
LEMMA PrecedesMore ==
    ASSUME NEW n \in Nat, NEW m \in 0..n, NEW a, NEW b, Precedes(a, b, m)
    PROVE  Precedes(a, b, n)
<1>1. \A i \in 1..m : i \in 1..n
  OBVIOUS
<1> QED BY <1>1, PrecedesIs

(* A bound that is before a row in its columns is before all rows that     *)
(* follow; one that is after a row is after all rows before.               *)
LEMMA BoundsSplit ==
    ASSUME NEW n \in Nat, NEW m \in 0..n, NEW a, NEW b, NEW c, Has(a, n), Has(b, n), Has(c, m), ~Precedes(b, a, n)
    PROVE  /\ Precedes(c, a, m) => Precedes(c, b, m)
           /\ Precedes(b, c, m) => Precedes(a, c, m)
<1>1. m \in Nat /\ Has(a, m) /\ Has(b, m)
  BY DEF Has
<1>2. ~Precedes(b, a, m)
  BY PrecedesMore
<1>3. CASE Precedes(a, b, m)
  BY <1>1, <1>3, PrecedesTransitive
<1>4. CASE Agrees(a, b, m)
  BY <1>1, <1>4, PrecedesAgrees
<1> QED BY <1>1, <1>2, <1>3, <1>4, PrecedesTotal

(* A bound: values for some of the columns.  The comparators take the      *)
(* others for NULL.                                                        *)
IsBound(a) == DOMAIN a \subseteq Columns /\ \A x \in DOMAIN a : a[x] \in Nat
Filled(a) == [x \in Columns |-> Value(a, x)]

(* A bound keeps its values when the others are filled in.                 *)
LEMMA FilledIs ==
    ASSUME NEW a, IsBound(a)
    PROVE  Filled(a) \in [Columns -> Nat] /\ \A x \in DOMAIN a : Filled(a)[x] = a[x]
  BY DEF IsBound, Filled, Value, Null

(* A row has all values.                                                   *)
LEMMA RowIsBound ==
    ASSUME NEW a \in [Columns -> Nat]
    PROVE  IsBound(a) /\ Filled(a) = a
  BY DEF IsBound, Filled, Value

(* A row has a value in every column of the order.                         *)
LEMMA RowHas ==
    ASSUME sort \in Order, NEW a \in [Columns -> Nat], NEW n \in 0..Len(sort)
    PROVE  Has(a, n)
<1>1. \A i \in 1..n : sort[i].field \in Columns
  BY ColumnIs
<1> QED BY <1>1 DEF Has

(* SelectInSeq finds the first of a set of positions.                      *)
First(I) == IF I # {} THEN Min(I) ELSE 0

(* It is the least, or 0 where there is none.                              *)
LEMMA FirstIs ==
    ASSUME NEW n \in Nat, NEW I \in SUBSET (1..n)
    PROVE  /\ I = {} => First(I) = 0
           /\ I # {} => First(I) \in I /\ First(I) # 0 /\ \A j \in I : First(I) <= j
<1>1. I \in SUBSET Nat /\ 0 \notin I
  OBVIOUS
<1> QED BY <1>1, MinIs DEF First

(* The comparison of one column, in its direction.                         *)
LEMMA DirectedIs ==
    ASSUME NEW a, NEW b, NEW i, a[sort[i].field] \in Nat, b[sort[i].field] \in Nat,
           a[sort[i].field] # b[sort[i].field], sort[i].dir \in {"asc", "desc"},
           NEW c, c = Directed(sort[i], CompareValues(a[sort[i].field], b[sort[i].field]))
    PROVE  c \in {-1, 1} /\ (c < 0 <=> Less(a, b, i)) /\ (c > 0 <=> Less(b, a, i))
<1>1. PICK x : x = a[sort[i].field]
  OBVIOUS
<1>2. PICK y : y = b[sort[i].field]
  OBVIOUS
<1>3. x \in Nat /\ y \in Nat /\ x # y
  BY <1>1, <1>2
<1>4. CASE sort[i].dir = "asc"
  <2>1. c = IF x < y THEN -1 ELSE 1
    BY <1>1, <1>2, <1>3, <1>4 DEF Directed, CompareValues
  <2>2. (Less(a, b, i) <=> x < y) /\ (Less(b, a, i) <=> y < x)
    BY <1>1, <1>2, <1>4, Zenon DEF Less
  <2> QED BY <1>3, <2>1, <2>2
<1>5. CASE sort[i].dir = "desc"
  <2>1. c = IF x < y THEN 1 ELSE -1
    BY <1>1, <1>2, <1>3, <1>5 DEF Directed, CompareValues
  <2>2. (Less(a, b, i) <=> x > y) /\ (Less(b, a, i) <=> y > x)
    <3>1. sort[i].dir # "asc"
      BY <1>5
    <3> QED BY <1>1, <1>2, <3>1, Zenon DEF Less
  <2> QED BY <1>3, <2>1, <2>2
<1> QED BY <1>4, <1>5

(* MakeComparator compares as Precedes does, in all columns.               *)
LEMMA ComparatorIs ==
    ASSUME sort \in Order, NEW a, NEW b, IsBound(a), IsBound(b)
    PROVE  /\ MakeComparator(sort, FALSE, a, b) \in {-1, 0, 1}
           /\ MakeComparator(sort, FALSE, a, b) < 0 <=> Precedes(Filled(a), Filled(b), Len(sort))
           /\ MakeComparator(sort, FALSE, a, b) > 0 <=> Precedes(Filled(b), Filled(a), Len(sort))
           /\ MakeComparator(sort, TRUE, a, b) >= 0 <=> MakeComparator(sort, FALSE, a, b) <= 0
<1> DEFINE D == {i \in 1..Len(sort) : Value(a, sort[i].field) # Value(b, sort[i].field)}
<1>1. Len(sort) \in Nat /\ \A i \in 1..Len(sort) : sort[i].field \in Columns /\ sort[i].dir \in {"asc", "desc"}
  BY ColumnIs
<1>2. PICK f : f = Filled(a)
  OBVIOUS
<1>3. PICK g : g = Filled(b)
  OBVIOUS
<1>4. f \in [Columns -> Nat] /\ g \in [Columns -> Nat]
  BY <1>2, <1>3, FilledIs
<1>5. \A i \in 1..Len(sort) : Value(a, sort[i].field) = f[sort[i].field] /\ Value(b, sort[i].field) = g[sort[i].field]
  BY <1>1, <1>2, <1>3 DEF Filled
<1>6. PICK k : k = First(D)
  OBVIOUS
<1> DEFINE c == Directed(sort[k], CompareValues(Value(a, sort[k].field), Value(b, sort[k].field)))
<1>7. /\ MakeComparator(sort, FALSE, a, b) = IF k = 0 THEN 0 ELSE c
      /\ MakeComparator(sort, TRUE, a, b) = IF k = 0 THEN 0 ELSE -c
  BY <1>6 DEF MakeComparator, SelectInSeq, First
<1>8. /\ D = {} => k = 0
      /\ D # {} => k \in D /\ k # 0 /\ \A j \in D : k <= j
  <2>1. D \in SUBSET (1..Len(sort))
    OBVIOUS
  <2> QED BY <1>1, <1>6, <2>1, FirstIs
<1> HIDE DEF c
<1>9. CASE D = {}
  <2>1. Agrees(f, g, Len(sort))
    BY <1>5, <1>9 DEF Agrees
  <2>2. ~Precedes(f, g, Len(sort)) /\ ~Precedes(g, f, Len(sort))
    <3>1. Has(f, Len(sort)) /\ Has(g, Len(sort))
      BY <1>1, <1>4 DEF Has
    <3> QED BY <1>1, <2>1, <3>1, PrecedesAgrees, PrecedesAsymmetric
  <2>3. MakeComparator(sort, FALSE, a, b) = 0 /\ MakeComparator(sort, TRUE, a, b) = 0
    BY <1>7, <1>8, <1>9
  <2>4. 0 \in {-1, 0, 1} /\ ~ (0 < 0) /\ ~ (0 > 0) /\ 0 >= 0 /\ 0 <= 0
    OBVIOUS
  <2> QED BY <1>2, <1>3, <2>2, <2>3, <2>4, Zenon
<1>10. CASE D # {}
  <2>1. k \in 1..Len(sort) /\ k # 0 /\ f[sort[k].field] # g[sort[k].field]
    BY <1>5, <1>8, <1>10
  <2>2. f[sort[k].field] \in Nat /\ g[sort[k].field] \in Nat /\ sort[k].dir \in {"asc", "desc"}
    BY <1>1, <1>4, <2>1
  <2>3. c \in {-1, 1} /\ (c < 0 <=> Less(f, g, k)) /\ (c > 0 <=> Less(g, f, k))
    <3>1. c = Directed(sort[k], CompareValues(f[sort[k].field], g[sort[k].field]))
      BY <1>5, <2>1 DEF c
    <3> QED BY <2>1, <2>2, <3>1, DirectedIs
  <2>4. Agrees(f, g, k - 1) /\ Agrees(g, f, k - 1)
    <3>1. \A i \in 1..(k - 1) : i \in 1..Len(sort) /\ ~ (k <= i)
      BY <1>1, <2>1
    <3>2. \A i \in 1..(k - 1) : f[sort[i].field] = g[sort[i].field]
      BY <1>5, <1>8, <1>10, <3>1
    <3> QED BY <3>2 DEF Agrees
  <2>5. (c < 0 => Precedes(f, g, Len(sort))) /\ (c > 0 => Precedes(g, f, Len(sort)))
    BY <2>1, <2>3, <2>4, PrecedesIs
  <2>6. Has(f, Len(sort)) /\ Has(g, Len(sort))
    BY <1>1, <1>4 DEF Has
  <2>7. ~ (Precedes(f, g, Len(sort)) /\ Precedes(g, f, Len(sort)))
    BY <1>1, <2>6, PrecedesAsymmetric
  <2>8. MakeComparator(sort, FALSE, a, b) = c /\ MakeComparator(sort, TRUE, a, b) = -c
    BY <1>7, <2>1
  <2>9. c < 0 \/ c > 0
    BY <2>3
  <2>10. (c < 0 <=> Precedes(f, g, Len(sort))) /\ (c > 0 <=> Precedes(g, f, Len(sort)))
    BY <2>3, <2>5, <2>7, <2>9
  <2>11. c \in {-1, 0, 1} /\ (-c >= 0 <=> c <= 0)
    BY <2>3
  <2> QED BY <1>2, <1>3, <2>8, <2>10, <2>11, Zenon
<1> QED BY <1>9, <1>10

(* The first n columns of the order are the ones a names before the first  *)
(* that it does not.                                                       *)
Names(a, n) ==
    /\ n \in 0..Len(sort)
    /\ \A i \in 1..n : sort[i].field \in DOMAIN a
    /\ n < Len(sort) => sort[n + 1].field \notin DOMAIN a

(* CompareWithPartialBound compares in the columns the bound names.        *)
LEMMA PartialBoundIs ==
    ASSUME sort \in Order, NEW a, IsBound(a), NEW n, Names(a, n), NEW b \in [Columns -> Nat]
    PROVE  /\ CompareWithPartialBound(a, b, sort) \in {-1, 0, 1}
           /\ CompareWithPartialBound(a, b, sort) < 0 <=> Precedes(a, b, n)
           /\ CompareWithPartialBound(a, b, sort) > 0 <=> Precedes(b, a, n)
<1> DEFINE D == {i \in 1..Len(sort) : sort[i].field \notin DOMAIN a \/ a[sort[i].field] # b[sort[i].field]}
<1>1. /\ Len(sort) \in Nat /\ n \in Nat /\ n <= Len(sort)
      /\ \A i \in 1..Len(sort) : sort[i].field \in Columns /\ sort[i].dir \in {"asc", "desc"}
  BY ColumnIs DEF Names
<1>2. Has(a, n) /\ Has(b, n)
  <2>1. \A i \in 1..n : i \in 1..Len(sort) /\ sort[i].field \in DOMAIN a
    BY <1>1 DEF Names
  <2> QED BY <1>1, <2>1 DEF Has, IsBound
<1>3. PICK k : k = First(D)
  OBVIOUS
<1> DEFINE c == Directed(sort[k], CompareValues(a[sort[k].field], b[sort[k].field]))
<1>4. CompareWithPartialBound(a, b, sort) = IF k = 0 \/ sort[k].field \notin DOMAIN a THEN 0 ELSE c
  BY <1>3 DEF CompareWithPartialBound, SelectInSeq, First
<1>5. /\ D = {} => k = 0
      /\ D # {} => k \in D /\ k # 0 /\ \A j \in D : k <= j
  <2>1. D \in SUBSET (1..Len(sort))
    OBVIOUS
  <2> QED BY <1>1, <1>3, <2>1, FirstIs
<1> HIDE DEF c
<1>6. CASE k = 0 \/ sort[k].field \notin DOMAIN a
  <2>1. Agrees(a, b, n)
    <3>1. CASE k = 0
      BY <1>1, <1>5, <3>1 DEF Agrees
    <3>2. CASE k # 0
      <4>1. k \in 1..Len(sort) /\ sort[k].field \notin DOMAIN a /\ \A j \in D : k <= j
        BY <1>5, <1>6, <3>2
      <4>2. ~ (k \in 1..n)
        BY <4>1 DEF Names
      <4>3. \A i \in 1..n : i \in 1..Len(sort) /\ ~ (k <= i)
        BY <1>1, <4>1, <4>2
      <4> QED BY <4>1, <4>3 DEF Agrees
    <3> QED BY <3>1, <3>2
  <2>2. ~Precedes(a, b, n) /\ ~Precedes(b, a, n)
    BY <1>1, <1>2, <2>1, PrecedesAgrees, PrecedesAsymmetric
  <2> QED BY <1>4, <1>6, <2>2
<1>7. CASE ~ (k = 0 \/ sort[k].field \notin DOMAIN a)
  <2>1. k \in 1..Len(sort) /\ sort[k].field \in DOMAIN a /\ a[sort[k].field] # b[sort[k].field] /\ \A j \in D : k <= j
    BY <1>5, <1>7
  <2>2. k \in 1..n
    <3>1. CASE n = Len(sort)
      BY <2>1, <3>1
    <3>2. CASE n < Len(sort)
      <4>1. n + 1 \in D
        BY <1>1, <3>2 DEF Names
      <4>2. k # n + 1 /\ k <= n + 1
        BY <2>1, <3>2, <4>1 DEF Names
      <4> QED BY <1>1, <2>1, <4>2
    <3> QED BY <1>1, <3>1, <3>2
  <2>3. a[sort[k].field] \in Nat /\ b[sort[k].field] \in Nat /\ sort[k].dir \in {"asc", "desc"}
    BY <1>1, <1>2, <2>1, <2>2 DEF Has
  <2>4. c \in {-1, 1} /\ (c < 0 <=> Less(a, b, k)) /\ (c > 0 <=> Less(b, a, k))
    BY <2>1, <2>3, DirectedIs DEF c
  <2>5. Agrees(a, b, k - 1) /\ Agrees(b, a, k - 1)
    <3>1. \A i \in 1..(k - 1) : i \in 1..Len(sort) /\ ~ (k <= i)
      BY <1>1, <2>1
    <3> QED BY <2>1, <3>1 DEF Agrees
  <2>6. (c < 0 => Precedes(a, b, n)) /\ (c > 0 => Precedes(b, a, n))
    BY <2>2, <2>4, <2>5, PrecedesIs
  <2>7. ~ (Precedes(a, b, n) /\ Precedes(b, a, n))
    BY <1>1, <1>2, PrecedesAsymmetric
  <2>8. c < 0 \/ c > 0
    BY <2>4
  <2>9. (c < 0 <=> Precedes(a, b, n)) /\ (c > 0 <=> Precedes(b, a, n))
    BY <2>4, <2>6, <2>7, <2>8
  <2> QED BY <1>4, <1>7, <2>4, <2>9
<1> QED BY <1>6, <1>7

-----------------------------------------------------------------------------
(* The connection's order.                                                 *)

QueryInv == query \in Queries /\ sort = completeOrdering

(* What the assumption says of the query of the connection.                *)
LEMMA QueryIs ==
    ASSUME query \in Queries
    PROVE  /\ query.orderBy \in Order /\ query.where \subseteq Row /\ query.exclusive \in BOOLEAN
           /\ IsBound(query.cursor)
  BY SkipAssumption DEF Order, Column, IsBound

(* A row is a bound that names all columns.                                *)
LEMMA RowIs ==
    ASSUME NEW r \in Row
    PROVE  r \in [Columns -> Nat] /\ IsBound(r) /\ Filled(r) = r
<1>1. r \in [Columns -> Nat]
  BY SkipAssumption
<1> QED BY <1>1, RowIsBound

(* It ends in the columns of the primary key that it does not have yet.    *)
LEMMA SortIs ==
    ASSUME QueryInv
    PROVE  /\ sort \in Order
           /\ \A i \in DOMAIN PrimaryKey : \E j \in 1..Len(sort) : sort[j].field = PrimaryKey[i]
<1>1. PICK o : o = query.orderBy
  OBVIOUS
<1>2. o \in Order /\ o \in Seq(Column) /\ Len(o) \in Nat /\ DOMAIN o = 1..Len(o)
  BY <1>1, QueryIs DEF QueryInv, Order
<1>3. PICK S : S = Columns \ {o[i].field : i \in DOMAIN o}
  OBVIOUS
<1>4. PICK t : t = Kept(PrimaryKey, S)
  OBVIOUS
<1>5. PrimaryKey \in Seq(Columns) /\ DOMAIN PrimaryKey = 1..Len(PrimaryKey)
  BY SkipAssumption
<1>6. t \in Seq(Columns) /\ TakenFrom(t, PrimaryKey, S, Len(PrimaryKey))
  BY <1>4, <1>5, KeptIs
<1>7. PICK u : u = [i \in DOMAIN t |-> [field |-> t[i], dir |-> "asc"]]
  OBVIOUS
<1>8. u \in Seq(Column) /\ DOMAIN u = DOMAIN t /\ Len(u) \in Nat /\ DOMAIN u = 1..Len(u)
  <2>1. DOMAIN t = 1..Len(t) /\ Len(t) \in Nat /\ \A i \in DOMAIN t : t[i] \in Columns
    BY <1>6
  <2>2. \A i \in DOMAIN t : [field |-> t[i], dir |-> "asc"] \in Column
    BY <2>1 DEF Column
  <2> QED BY <1>7, <2>1, <2>2
<1>9. sort = o \o u
  BY <1>1, <1>3, <1>4, <1>7 DEF QueryInv, completeOrdering, addPrimaryKeys
<1>10. /\ sort \in Seq(Column) /\ DOMAIN sort = 1..Len(sort)
       /\ \A i \in DOMAIN o : i \in DOMAIN sort /\ sort[i] = o[i]
       /\ \A i \in DOMAIN u : Len(o) + i \in DOMAIN sort /\ sort[Len(o) + i] = u[i]
  <2>1. /\ o \o u \in Seq(Column)
        /\ \A i \in DOMAIN o : i \in DOMAIN (o \o u) /\ (o \o u)[i] = o[i]
        /\ \A i \in DOMAIN u : Len(o) + i \in DOMAIN (o \o u) /\ (o \o u)[Len(o) + i] = u[i]
    BY <1>2, <1>8, ConcatIs
  <2>2. \A q \in Seq(Column) : DOMAIN q = 1..Len(q)
    OBVIOUS
  <2> QED BY <1>9, <2>1, <2>2, Zenon
<1>11. ASSUME NEW i \in DOMAIN PrimaryKey PROVE \E j \in 1..Len(sort) : sort[j].field = PrimaryKey[i]
  <2>1. CASE PrimaryKey[i] \in S
    <3>1. PICK k \in DOMAIN t : t[k] = PrimaryKey[i]
      BY <1>5, <1>6, <2>1 DEF TakenFrom
    <3>2. k \in DOMAIN u /\ u[k].field = PrimaryKey[i]
      BY <1>7, <1>8, <3>1
    <3>3. Len(o) + k \in 1..Len(sort) /\ sort[Len(o) + k].field = PrimaryKey[i]
      BY <1>10, <3>2
    <3> QED BY <3>3
  <2>2. CASE PrimaryKey[i] \notin S
    <3>1. PICK k \in DOMAIN o : o[k].field = PrimaryKey[i]
      BY <1>3, <1>5, <2>2
    <3> QED BY <1>10, <3>1
  <2> QED BY <2>1, <2>2
<1> QED BY <1>10, <1>11 DEF Order

(* So it tells any two rows of a table apart.                              *)
LEMMA TableOrdered ==
    ASSUME QueryInv, NEW T \in Tables, NEW r \in T, NEW s \in T, Agrees(r, s, Len(sort))
    PROVE  r = s
<1>1. SamePK(r, s)
  BY SortIs DEF SamePK, Agrees
<1> QED BY <1>1 DEF Tables

(* The cursor names the first columns of the order.                        *)
LEMMA NamedIs ==
    ASSUME QueryInv
    PROVE  Names(query.cursor, Named) /\ Has(query.cursor, Named)
<1>1. sort \in Order /\ Len(sort) \in Nat /\ IsBound(query.cursor)
  BY SortIs, ColumnIs, QueryIs DEF QueryInv
<1> DEFINE D == {i \in 1..Len(sort) : sort[i].field \notin DOMAIN query.cursor}
<1>2. \E n \in 0..Len(sort) : /\ \A i \in 1..n : sort[i].field \in DOMAIN query.cursor
                              /\ n < Len(sort) => sort[n + 1].field \notin DOMAIN query.cursor
  <2>1. CASE D = {}
    <3>1. Len(sort) \in 0..Len(sort) /\ ~ (Len(sort) < Len(sort))
      BY <1>1
    <3> QED BY <2>1, <3>1
  <2>2. CASE D # {}
    <3>1. PICK k : k = Min(D)
      OBVIOUS
    <3>2. k \in D /\ \A j \in D : k <= j
      <4>1. D \in SUBSET Nat
        OBVIOUS
      <4> QED BY <2>2, <3>1, <4>1, MinIs
    <3>3. k - 1 \in 0..Len(sort) /\ (k - 1) + 1 = k /\ \A i \in 1..(k - 1) : i \in 1..Len(sort) /\ ~ (k <= i)
      BY <1>1, <3>2
    <3>4. \A i \in 1..(k - 1) : sort[i].field \in DOMAIN query.cursor
      BY <3>2, <3>3
    <3> QED BY <3>2, <3>3, <3>4
  <2> QED BY <2>1, <2>2
<1>3. Names(query.cursor, Named)
  BY <1>2 DEF Named, Names
<1>4. Has(query.cursor, Named)
  BY <1>1, <1>3 DEF Has, Names, IsBound
<1> QED BY <1>3, <1>4

(* Skip.shouldBePresent says whether a row is after the cursor.            *)
LEMMA PresentIs ==
    ASSUME QueryInv, NEW r \in Row
    PROVE  shouldBePresent(r) <=> AfterCursor(r)
<1>1. sort \in Order /\ IsBound(query.cursor) /\ query.exclusive \in BOOLEAN
  BY SortIs, QueryIs DEF QueryInv
<1>2. Names(query.cursor, Named)
  BY NamedIs
<1>3. PICK c : c = CompareWithPartialBound(query.cursor, r, sort)
  OBVIOUS
<1>4. r \in [Columns -> Nat]
  BY RowIs
<1>5. /\ c \in {-1, 0, 1}
      /\ c < 0 <=> Precedes(query.cursor, r, Named)
      /\ c > 0 <=> Precedes(r, query.cursor, Named)
  BY <1>1, <1>2, <1>3, <1>4, PartialBoundIs
<1>6. shouldBePresent(r) <=> c < 0 \/ (c = 0 /\ ~query.exclusive)
  BY <1>3 DEF shouldBePresent
<1>7. c = 0 <=> ~ (c < 0) /\ ~ (c > 0)
  BY <1>5
<1>8. ~ (c < 0 /\ c > 0)
  BY <1>5
<1> QED BY <1>5, <1>6, <1>7, <1>8, Zenon DEF AfterCursor

-----------------------------------------------------------------------------
(* A fetch from the source.                                                *)

(* The order as a set of pairs.                                            *)
Rel == {p \in Row \X Row : Precedes(p[1], p[2], Len(sort))}

(* The comparator of the code says the same of two rows.                   *)
LEMMA RelIs ==
    ASSUME QueryInv, NEW a \in Row, NEW b \in Row
    PROVE  /\ <<a, b>> \in Rel <=> Precedes(a, b, Len(sort))
           /\ MakeComparator(sort, FALSE, a, b) \in {-1, 0, 1}
           /\ MakeComparator(sort, FALSE, a, b) < 0 <=> Precedes(a, b, Len(sort))
           /\ MakeComparator(sort, FALSE, a, b) > 0 <=> Precedes(b, a, Len(sort))
           /\ MakeComparator(sort, TRUE, a, b) >= 0 <=> MakeComparator(sort, FALSE, a, b) <= 0
<1>1. sort \in Order
  BY SortIs
<1>2. IsBound(a) /\ IsBound(b) /\ Filled(a) = a /\ Filled(b) = b
  BY RowIs
<1>3. /\ MakeComparator(sort, FALSE, a, b) \in {-1, 0, 1}
      /\ MakeComparator(sort, FALSE, a, b) < 0 <=> Precedes(Filled(a), Filled(b), Len(sort))
      /\ MakeComparator(sort, FALSE, a, b) > 0 <=> Precedes(Filled(b), Filled(a), Len(sort))
      /\ MakeComparator(sort, TRUE, a, b) >= 0 <=> MakeComparator(sort, FALSE, a, b) <= 0
  BY <1>1, <1>2, ComparatorIs
<1>4. <<a, b>> \in Rel <=> Precedes(a, b, Len(sort))
  BY DEF Rel
<1> QED BY <1>2, <1>3, <1>4, Zenon

(* It orders rows as Precedes does.                                        *)
LEMMA RelOrders ==
    ASSUME QueryInv
    PROVE  /\ \A a, b \in Row : <<a, b>> \in Rel => <<b, a>> \notin Rel
           /\ \A a, b, c \in Row : <<a, b>> \in Rel /\ <<b, c>> \in Rel => <<a, c>> \in Rel
           /\ \A a, b \in Row : <<a, b>> \in Rel \/ <<b, a>> \in Rel \/ Agrees(a, b, Len(sort))
<1>1. sort \in Order /\ Len(sort) \in Nat /\ Len(sort) \in 0..Len(sort)
  BY SortIs, ColumnIs
<1>2. \A a \in Row : Has(a, Len(sort))
  BY <1>1, RowIs, RowHas
<1>3. \A a, b \in Row : <<a, b>> \in Rel <=> Precedes(a, b, Len(sort))
  BY RelIs
<1>4. \A a, b \in Row : <<a, b>> \in Rel => <<b, a>> \notin Rel
  BY <1>1, <1>2, <1>3, PrecedesAsymmetric
<1>5. \A a, b, c \in Row : <<a, b>> \in Rel /\ <<b, c>> \in Rel => <<a, c>> \in Rel
  BY <1>1, <1>2, <1>3, PrecedesTransitive
<1>6. \A a, b \in Row : <<a, b>> \in Rel \/ <<b, a>> \in Rel \/ Agrees(a, b, Len(sort))
  BY <1>1, <1>2, <1>3, PrecedesTotal
<1> QED BY <1>4, <1>5, <1>6

(* getSortedRows lists the table.                                          *)
LEMMA SortedRowsList ==
    ASSUME QueryInv, data \in Tables
    PROVE  Lists(getSortedRows(data), data, Rel)
<1>1. data \subseteq Row /\ IsFiniteSet(data)
  BY DEF Tables
<1>2. \A x, y \in data : x = y \/ <<x, y>> \in Rel \/ <<y, x>> \in Rel
  <2>1. \A x, y \in data : Agrees(x, y, Len(sort)) => x = y
    BY TableOrdered
  <2> QED BY <1>1, <2>1, RelOrders
<1>3. \A x, y \in data : <<x, y>> \in Rel => <<y, x>> \notin Rel
  BY <1>1, RelOrders
<1>4. \A x, y, z \in data : <<x, y>> \in Rel /\ <<y, z>> \in Rel => <<x, z>> \in Rel
  BY <1>1, RelOrders
<1>5. \A r \in data : {q \in data : MakeComparator(sort, FALSE, q, r) < 0} = {q \in data : <<q, r>> \in Rel}
  BY <1>1, RelIs
<1>6. \A r \in data : Cardinality({q \in data : MakeComparator(sort, FALSE, q, r) < 0}) = Rank(data, Rel, r)
  BY <1>5 DEF Rank
<1> DEFINE f(k) == CHOOSE r \in data : Cardinality({q \in data : MakeComparator(sort, FALSE, q, r) < 0}) = k - 1
           g(k) == CHOOSE r \in data : Rank(data, Rel, r) = k - 1
<1>7. \A k \in 1..Cardinality(data) : f(k) = g(k)
  BY <1>6
<1>8. getSortedRows(data) = [k \in 1..Cardinality(data) |-> g(k)]
  <2>1. getSortedRows(data) = [k \in 1..Cardinality(data) |-> f(k)]
    BY Zenon DEF getSortedRows
  <2> HIDE DEF f, g
  <2> QED BY <1>7, <2>1
<1>9. Lists([k \in 1..Cardinality(data) |-> CHOOSE r \in data : Rank(data, Rel, r) = k - 1], data, Rel)
  BY <1>1, <1>2, <1>3, <1>4, RankLists
<1> QED BY <1>8, <1>9

(* A change that a table admits.                                           *)
Legal(T, c) ==
    \/ c = NoChange
    \/ \E r \in Row : c = Change("add", r, NoRow) /\ \A s \in T : ~SamePK(r, s)
    \/ \E r \in T : c = Change("remove", r, NoRow)
    \/ \E r \in Row : \E old \in T : r # old /\ SamePK(r, old) /\ c = Change("edit", r, old)

(* The change being pushed is one the table admits.                        *)
ChangeInv ==
    /\ data \in Tables /\ reached \in BOOLEAN /\ (reached => change # NoChange)
    /\ Legal(data, change)

(* The rows that it adds to the table and takes from it, once it shows.    *)
Adds == IF reached /\ change.type \in {"add", "edit"} THEN {change.row} ELSE {}
Removes == IF reached /\ change.type = "remove" THEN {change.row}
           ELSE IF reached /\ change.type = "edit" THEN {change.old} ELSE {}

(* A row has its own primary key.                                          *)
LEMMA SamePKItself ==
    ASSUME NEW r
    PROVE  SamePK(r, r)
  BY DEF SamePK

(* They are rows that the table does not have, and rows it has.            *)
LEMMA ChangeIs ==
    ASSUME ChangeInv
    PROVE  /\ Table = (data \ Removes) \cup Adds
           /\ Removes \subseteq data /\ Adds \subseteq Row /\ data \subseteq Row
           /\ \A r \in Adds : r \notin data /\ Adds = {r}
<1>1. data \subseteq Row
  BY DEF ChangeInv, Tables
<1>2. CASE ~reached
  BY <1>1, <1>2 DEF Table, Adds, Removes
<1>3. CASE reached
  <2>1. change # NoChange
    BY <1>3 DEF ChangeInv
  <2>2. ASSUME NEW r \in Row, change = Change("add", r, NoRow), \A s \in data : ~SamePK(r, s)
        PROVE  Adds = {r} /\ Removes = {} /\ Table = data \cup {r} /\ r \notin data
    BY <1>3, <2>2, SamePKItself DEF Adds, Removes, Table, writeChange, Change
  <2>3. ASSUME NEW r \in data, change = Change("remove", r, NoRow)
        PROVE  Adds = {} /\ Removes = {r} /\ Table = data \ {r}
    BY <1>3, <2>3 DEF Adds, Removes, Table, writeChange, Change
  <2>4. ASSUME NEW r \in Row, NEW old \in data, r # old, SamePK(r, old), change = Change("edit", r, old)
        PROVE  Adds = {r} /\ Removes = {old} /\ Table = (data \ {old}) \cup {r} /\ r \notin data
    <3>1. r \notin data
      BY <2>4 DEF ChangeInv, Tables
    <3> QED BY <1>3, <2>4, <3>1 DEF Adds, Removes, Table, writeChange, Change
  <2>5. \/ \E r \in Row : change = Change("add", r, NoRow) /\ \A s \in data : ~SamePK(r, s)
        \/ \E r \in data : change = Change("remove", r, NoRow)
        \/ \E r \in Row : \E old \in data : r # old /\ SamePK(r, old) /\ change = Change("edit", r, old)
    BY <2>1 DEF ChangeInv, Legal
  <2>6. CASE \E r \in Row : change = Change("add", r, NoRow) /\ \A s \in data : ~SamePK(r, s)
    BY <1>1, <2>2, <2>6
  <2>7. CASE \E r \in data : change = Change("remove", r, NoRow)
    BY <1>1, <2>3, <2>7
  <2>8. CASE \E r \in Row : \E old \in data : r # old /\ SamePK(r, old) /\ change = Change("edit", r, old)
    BY <1>1, <2>4, <2>8
  <2> QED BY <2>5, <2>6, <2>7, <2>8
<1>4. reached \in BOOLEAN
  BY DEF ChangeInv
<1> QED BY <1>2, <1>3

(* The source's overlay of rows the change adds and takes away.            *)
LEMMA OverlayLists ==
    ASSUME QueryInv, ChangeInv, NEW A \in SUBSET Adds, NEW D \in SUBSET Removes,
           NEW o, o.add = A, o.remove = D
    PROVE  Lists(generateWithOverlayInner(getSortedRows(data), o), (data \ D) \cup A, Rel)
<1>1. /\ Removes \subseteq data /\ Adds \subseteq Row /\ data \subseteq Row
      /\ \A r \in Adds : r \notin data /\ Adds = {r}
  BY ChangeIs
<1>2. PICK s : s = getSortedRows(data)
  OBVIOUS
<1>3. Lists(s, data, Rel) /\ s \in Seq(data) /\ Len(s) \in Nat /\ DOMAIN s = 1..Len(s)
  BY <1>2, SortedRowsList DEF ChangeInv, Lists
<1> DEFINE greater(x) == {i \in 1..Len(s) : MakeComparator(sort, FALSE, x, s[i]) < 0}
           at(x) == IF First(greater(x)) = 0 THEN Len(s) + 1 ELSE First(greater(x))
           added == IF A = {} THEN s ELSE InsertAt(s, at(CHOOSE r \in A : TRUE), CHOOSE r \in A : TRUE)
           same(r) == \E q \in D : MakeComparator(sort, FALSE, q, r) = 0
           S == {r \in Row : r \in A \/ ~same(r)}
<1>4. generateWithOverlayInner(s, o) = IF D = {} THEN added ELSE Kept(added, S)
  BY DEF generateWithOverlayInner, SelectInSeq, First
<1>5. ASSUME NEW x \in A PROVE Lists(InsertAt(s, at(x), x), data \cup {x}, Rel)
  <2>1. x \in Row /\ x \notin data
    BY <1>1
  <2>2. \A i \in DOMAIN s : s[i] \in Row /\ (MakeComparator(sort, FALSE, x, s[i]) < 0 <=> <<x, s[i]>> \in Rel)
    <3>1. \A i \in DOMAIN s : s[i] \in Row
      BY <1>1, <1>3
    <3>2. \A y \in Row : MakeComparator(sort, FALSE, x, y) < 0 <=> <<x, y>> \in Rel
      BY <2>1, RelIs
    <3> QED BY <3>1, <3>2
  <2>3. PICK G : G = greater(x)
    OBVIOUS
  <2>4. G \in SUBSET (1..Len(s)) /\ \A i \in 1..Len(s) : i \in G <=> <<x, s[i]>> \in Rel
    BY <1>3, <2>2, <2>3
  <2>5. PICK p : p = at(x)
    OBVIOUS
  <2> HIDE DEF greater
  <2>6. CASE G = {}
    <3>1. p = Len(s) + 1
      BY <1>3, <2>3, <2>4, <2>5, <2>6, FirstIs
    <3>2. \A i \in DOMAIN s : i < p /\ <<x, s[i]>> \notin Rel
      BY <1>3, <2>4, <2>6, <3>1
    <3>3. p \in Nat /\ 1 <= p /\ p <= Len(s) + 1
      BY <1>3, <3>1
    <3>4. Lists(InsertAt(s, p, x), data \cup {x}, Rel)
      BY <1>3, <2>1, <3>2, <3>3, InsertLists
    <3> QED BY <2>5, <3>4
  <2>7. CASE G # {}
    <3>1. p \in G /\ p # 0 /\ \A j \in G : p <= j
      <4>1. First(G) \in G /\ First(G) # 0 /\ \A j \in G : First(G) <= j
        BY <1>3, <2>4, <2>7, FirstIs
      <4>2. p = First(G)
        BY <2>3, <2>5, <4>1
      <4> QED BY <4>1, <4>2
    <3>2. p \in Nat /\ 1 <= p /\ p <= Len(s) + 1 /\ p \in DOMAIN s /\ <<x, s[p]>> \in Rel
      BY <1>3, <2>4, <3>1
    <3>3. ASSUME NEW i \in DOMAIN s, i < p PROVE <<x, s[i]>> \notin Rel
      <4>1. i \notin G
        BY <1>3, <3>1, <3>2, <3>3
      <4> QED BY <1>3, <2>4, <4>1
    <3>4. ASSUME NEW i \in DOMAIN s, ~ (i < p) PROVE <<s[i], x>> \notin Rel
      <4>1. p = i \/ p < i
        BY <1>3, <3>2, <3>4
      <4>2. p = i \/ <<s[i], s[p]>> \notin Rel
        BY <1>3, <3>2, <4>1 DEF Lists, Sorted
      <4> QED BY <2>1, <2>2, <3>2, <4>2, RelOrders
    <3>5. Lists(InsertAt(s, p, x), data \cup {x}, Rel)
      BY <1>3, <2>1, <3>2, <3>3, <3>4, InsertLists
    <3> QED BY <2>5, <3>5
  <2> QED BY <2>6, <2>7
<1>6. PICK t : t = added
  OBVIOUS
<1>7. Lists(t, data \cup A, Rel)
  <2>1. CASE A = {}
    BY <1>3, <1>6, <2>1
  <2>2. CASE A # {}
    <3>1. PICK x : x = CHOOSE r \in A : TRUE
      OBVIOUS
    <3>2. x \in A /\ A = {x}
      BY <1>1, <2>2, <3>1
    <3>3. t = InsertAt(s, at(x), x)
      <4> HIDE DEF at
      <4> QED BY <1>6, <2>2, <3>1
    <3> HIDE DEF at
    <3> QED BY <1>5, <3>2, <3>3
  <2> QED BY <2>1, <2>2
<1> HIDE DEF added
<1>8. CASE D = {}
  <2>1. generateWithOverlayInner(s, o) = t /\ (data \ D) \cup A = data \cup A
    BY <1>4, <1>6, <1>8
  <2> QED BY <1>2, <1>7, <2>1
<1>9. CASE D # {}
  <2>1. \A r \in data : same(r) <=> r \in D
    <3>1. ASSUME NEW r \in data, NEW q \in D PROVE MakeComparator(sort, FALSE, q, r) = 0 <=> q = r
      <4>1. q \in data /\ q \in Row /\ r \in Row
        BY <1>1
      <4>2. MakeComparator(sort, FALSE, q, r) = 0 <=> ~ (<<q, r>> \in Rel) /\ ~ (<<r, q>> \in Rel)
        <5>1. PICK c : c = MakeComparator(sort, FALSE, q, r)
          OBVIOUS
        <5>2. c \in {-1, 0, 1} /\ (c < 0 <=> <<q, r>> \in Rel) /\ (c > 0 <=> <<r, q>> \in Rel)
          BY <4>1, <5>1, RelIs
        <5>3. c = 0 <=> ~ (c < 0) /\ ~ (c > 0)
          BY <5>2
        <5> QED BY <5>1, <5>2, <5>3, Zenon
      <4>3. <<q, r>> \in Rel \/ <<r, q>> \in Rel \/ q = r
        BY <4>1, RelOrders, TableOrdered DEF ChangeInv
      <4>4. q = r => ~ (<<q, r>> \in Rel) /\ ~ (<<r, q>> \in Rel)
        BY <4>1, RelOrders
      <4> QED BY <4>2, <4>3, <4>4
    <3> QED BY <3>1
  <2>2. (data \cup A) \cap S = (data \ D) \cup A
    BY <1>1, <2>1
  <2> HIDE DEF S
  <2>3. generateWithOverlayInner(s, o) = Kept(t, S)
    BY <1>4, <1>6, <1>9
  <2>4. Lists(Kept(t, S), (data \cup A) \cap S, Rel)
    BY <1>7, KeptLists
  <2> QED BY <1>2, <2>2, <2>3, <2>4
<1> QED BY <1>8, <1>9

(* Whether a row is on the right side of the start of a fetch, in the      *)
(* first n columns.                                                        *)
Passes(start, reverse, n, r) ==
    IF reverse
    THEN IF start.basis = "at" THEN ~Precedes(start.row, r, n) ELSE Precedes(r, start.row, n)
    ELSE IF start.basis = "at" THEN ~Precedes(r, start.row, n) ELSE Precedes(start.row, r, n)

(* applyStart drops the rows on the wrong side.                            *)
LEMMA StartLists ==
    ASSUME QueryInv, NEW U \in SUBSET Row, NEW rows, Lists(rows, U, Rel),
           NEW start, start # NoStart, NEW reverse \in BOOLEAN, NEW n, IsBound(start.row), Names(start.row, n)
    PROVE  Lists(applyStart(rows, start, reverse), {r \in U : Passes(start, reverse, n, r)}, Rel)
<1>1. sort \in Order /\ Len(sort) \in Nat /\ Len(sort) \in 0..Len(sort) /\ n \in 0..Len(sort)
  BY SortIs, ColumnIs DEF Names
<1>2. Has(start.row, n)
  BY DEF Has, Names, IsBound
<1>3. rows \in Seq(U) /\ Len(rows) \in Nat /\ DOMAIN rows = 1..Len(rows) /\ \A i \in DOMAIN rows : rows[i] \in U
  BY DEF Lists
<1> DEFINE cmp(r) == -CompareWithPartialBound(start.row, r, sort)
           back(r) == IF start.basis = "at" THEN cmp(r) <= 0 ELSE cmp(r) < 0
           on(r) == IF start.basis = "at" THEN cmp(r) >= 0 ELSE cmp(r) > 0
<1>4. ASSUME NEW r \in Row
      PROVE  (back(r) <=> Passes(start, TRUE, n, r)) /\ (on(r) <=> Passes(start, FALSE, n, r))
  <2>1. PICK c : c = CompareWithPartialBound(start.row, r, sort)
    OBVIOUS
  <2>2. c \in {-1, 0, 1} /\ (c < 0 <=> Precedes(start.row, r, n)) /\ (c > 0 <=> Precedes(r, start.row, n))
    <3>1. r \in [Columns -> Nat]
      BY RowIs
    <3> QED BY <1>1, <2>1, <3>1, PartialBoundIs
  <2>3. (-c <= 0 <=> ~ (c < 0)) /\ (-c < 0 <=> c > 0) /\ (-c >= 0 <=> ~ (c > 0)) /\ (-c > 0 <=> c < 0)
    BY <2>2
  <2> QED BY <2>1, <2>2, <2>3, Zenon DEF Passes
<1>5. CASE reverse
  <2>1. PICK S : S = {r \in Row : back(r)}
    OBVIOUS
  <2>2. applyStart(rows, start, reverse) = Kept(rows, S)
    BY <1>5, <2>1 DEF applyStart
  <2>3. U \cap S = {r \in U : Passes(start, TRUE, n, r)}
    <3> HIDE DEF back
    <3> QED BY <1>4, <2>1
  <2>4. Lists(Kept(rows, S), U \cap S, Rel)
    BY KeptLists
  <2> QED BY <1>5, <2>2, <2>3, <2>4
<1>6. CASE ~reverse
  <2>1. PICK G : G = {i \in 1..Len(rows) : on(rows[i])}
    OBVIOUS
  <2>2. applyStart(rows, start, reverse) = IF First(G) = 0 THEN <<>> ELSE SubSeq(rows, First(G), Len(rows))
    BY <1>6, <2>1 DEF applyStart, SelectInSeq, First
  <2> HIDE DEF on, back
  <2>3. G \in SUBSET (1..Len(rows)) /\ \A i \in DOMAIN rows : i \in G <=> Passes(start, FALSE, n, rows[i])
    BY <1>3, <1>4, <2>1
  <2>4. PICK S : S = {r \in Row : Passes(start, FALSE, n, r)}
    OBVIOUS
  <2>5. U \cap S = {r \in U : Passes(start, reverse, n, r)}
    BY <1>6, <2>4
  <2>6. CASE G = {}
    <3>1. applyStart(rows, start, reverse) = <<>>
      BY <1>3, <2>2, <2>3, <2>6, FirstIs
    <3>2. U \cap S = {}
      BY <2>3, <2>4, <2>6 DEF Lists
    <3>3. Lists(<<>>, {}, Rel)
      BY DEF Lists, Sorted, Once
    <3> QED BY <2>5, <3>1, <3>2, <3>3
  <2>7. CASE G # {}
    <3>1. PICK p : p = First(G)
      OBVIOUS
    <3>2. p \in G /\ p # 0 /\ \A j \in G : p <= j
      BY <1>3, <2>3, <2>7, <3>1, FirstIs
    <3>3. p \in DOMAIN rows /\ p \in Nat /\ 1 <= p /\ p <= Len(rows) + 1 /\ Passes(start, FALSE, n, rows[p])
      <4>1. p \in DOMAIN rows /\ p \in Nat /\ 1 <= p /\ p <= Len(rows) + 1
        BY <1>3, <2>3, <3>2
      <4> QED BY <2>3, <3>2, <4>1, Zenon
    <3>4. ASSUME NEW i \in DOMAIN rows, p < i PROVE Passes(start, FALSE, n, rows[i])
      <4>1. rows[i] \in Row /\ rows[p] \in Row
        BY <1>3, <3>3
      <4>2. <<rows[i], rows[p]>> \notin Rel
        BY <3>3, <3>4 DEF Lists, Sorted
      <4>3. ~Precedes(rows[i], rows[p], Len(sort))
        BY <4>1, <4>2, RelIs
      <4>4. Has(rows[i], Len(sort)) /\ Has(rows[p], Len(sort))
        BY <1>1, <4>1, RowIs, RowHas
      <4>5. /\ Precedes(start.row, rows[p], n) => Precedes(start.row, rows[i], n)
            /\ Precedes(rows[i], start.row, n) => Precedes(rows[p], start.row, n)
        BY <1>1, <1>2, <4>3, <4>4, BoundsSplit
      <4> QED BY <3>3, <4>5 DEF Passes
    <3>5. \A i \in DOMAIN rows : rows[i] \in S <=> p <= i /\ i <= Len(rows)
      <4>1. ASSUME NEW i \in DOMAIN rows PROVE Passes(start, FALSE, n, rows[i]) <=> p <= i
        <5>1. (i < p => i \notin G) /\ (i < p \/ i = p \/ p < i) /\ (i < p <=> ~ (p <= i))
          BY <1>3, <3>2, <3>3
        <5> QED BY <2>3, <3>3, <3>4, <5>1, Zenon
      <4>2. \A i \in DOMAIN rows : rows[i] \in Row /\ i <= Len(rows)
        BY <1>3
      <4> QED BY <2>4, <4>1, <4>2, Zenon
    <3>6. Lists(SubSeq(rows, p, Len(rows)), U \cap S, Rel)
      <4>1. Len(rows) \in Nat /\ Len(rows) <= Len(rows)
        BY <1>3
      <4> QED BY <3>3, <3>5, <4>1, PartLists
    <3>7. applyStart(rows, start, reverse) = SubSeq(rows, p, Len(rows))
      BY <2>2, <3>1, <3>2
    <3> QED BY <2>5, <3>6, <3>7
  <2> QED BY <2>6, <2>7
<1> QED BY <1>5, <1>6

(* The order of a fetch in reverse.                                        *)
BackRel == {p \in Row \X Row : Precedes(p[2], p[1], Len(sort))}

(* What a fetch is to return: the rows that pass.                          *)
Shown(req, n) ==
    {r \in Table : /\ r \in query.where /\ ConstraintMatchesRow(req.constraint, r)
                   /\ req.start # NoStart => Passes(req.start, req.reverse, n, r)}

(* A start with its named columns; the source's overlay drops no row that  *)
(* passes it.                                                              *)
StartFits(req, n) ==
    /\ IsBound(req.start.row) /\ Names(req.start.row, n)
    /\ reached => \A r \in Row : Passes(req.start, req.reverse, n, r)
                                 => MakeComparator(sort, req.reverse, r, req.start.row) >= 0

(* The source returns them all, in the order asked for.                    *)
LEMMA SourceLists ==
    ASSUME QueryInv, ChangeInv, NEW req, req.reverse \in BOOLEAN, NEW n, req.start # NoStart => StartFits(req, n)
    PROVE  Lists(SourceFetch(req), Shown(req, n), IF req.reverse THEN BackRel ELSE Rel)
<1> DEFINE keep(r) == /\ req.start # NoStart => MakeComparator(sort, req.reverse, r, req.start.row) >= 0
                      /\ ConstraintMatchesRow(req.constraint, r)
                      /\ r \in query.where
           good(r) == r \in query.where /\ ConstraintMatchesRow(req.constraint, r)
           pass(r) == req.start # NoStart => Passes(req.start, req.reverse, n, r)
<1>1. PICK o : o = computeOverlays(req)
  OBVIOUS
<1>2. PICK A : A = {r \in Adds : keep(r)}
  OBVIOUS
<1>3. PICK D : D = {r \in Removes : keep(r)}
  OBVIOUS
<1>4. o.add = A /\ o.remove = D
  <2>1. change.type \in {"add", "edit", "remove"} \/ ~reached
    BY DEF ChangeInv, Legal, Change, NoChange
  <2> QED BY <1>1, <1>2, <1>3, <2>1 DEF computeOverlays, Adds, Removes
<1>5. /\ Table = (data \ Removes) \cup Adds /\ Removes \subseteq data /\ Adds \subseteq Row /\ data \subseteq Row
      /\ \A r \in Adds : r \notin data
  BY ChangeIs
<1>6. PICK rows : rows = generateWithOverlayInner(getSortedRows(data), o)
  OBVIOUS
<1>7. PICK U : U = (data \ D) \cup A
  OBVIOUS
<1>8. Lists(rows, U, Rel) /\ U \in SUBSET Row
  <2>1. A \in SUBSET Adds /\ D \in SUBSET Removes
    BY <1>2, <1>3
  <2>2. Lists(rows, U, Rel)
    BY <1>4, <1>6, <1>7, <2>1, OverlayLists
  <2> QED BY <1>5, <1>7, <2>1, <2>2
<1>9. PICK t : t = applyStart(rows, req.start, req.reverse)
  OBVIOUS
<1>10. Lists(t, {r \in U : pass(r)}, Rel)
  <2>1. CASE req.start = NoStart
    <3>1. t = rows
      BY <1>9, <2>1 DEF applyStart
    <3>2. {r \in U : pass(r)} = U
      BY <2>1
    <3> QED BY <1>8, <3>1, <3>2
  <2>2. CASE req.start # NoStart
    <3>1. {r \in U : pass(r)} = {r \in U : Passes(req.start, req.reverse, n, r)}
      BY <2>2
    <3>2. IsBound(req.start.row) /\ Names(req.start.row, n)
      BY <2>2 DEF StartFits
    <3>3. Lists(applyStart(rows, req.start, req.reverse), {r \in U : Passes(req.start, req.reverse, n, r)}, Rel)
      BY <1>8, <2>2, <3>2, StartLists
    <3> QED BY <1>9, <3>1, <3>3
  <2> QED BY <2>1, <2>2
<1>11. PICK S : S = {r \in query.where : ConstraintMatchesRow(req.constraint, r)}
  OBVIOUS
<1>12. Lists(Kept(t, S), {r \in U : pass(r)} \cap S, Rel)
  <2> HIDE DEF pass
  <2> QED BY <1>10, KeptLists
<1>13. {r \in U : pass(r)} \cap S = Shown(req, n)
  <2>1. ASSUME NEW r \in Row, good(r), pass(r), reached PROVE keep(r)
    BY <2>1 DEF StartFits
  <2>2. ~reached => Adds = {} /\ Removes = {}
    BY DEF Adds, Removes
  <2> HIDE DEF keep
  <2>3. ASSUME NEW r \in Row, good(r), pass(r) PROVE r \in U <=> r \in Table
    BY <1>2, <1>3, <1>5, <1>7, <2>1, <2>2, <2>3 DEF ChangeInv
  <2>4. U \subseteq Row /\ Table \subseteq Row
    BY <1>5, <1>8
  <2>5. \A r : r \in Shown(req, n) <=> r \in Table /\ good(r) /\ pass(r)
    BY DEF Shown
  <2>6. \A r : r \in S <=> good(r)
    BY <1>11
  <2> HIDE DEF good, pass
  <2> QED BY <2>3, <2>4, <2>5, <2>6
<1>14. PICK u : u = Kept(t, S)
  OBVIOUS
<1>15. Lists(u, Shown(req, n), Rel) /\ SourceFetch(req) = IF req.reverse THEN Reverse(u) ELSE u
  <2>1. SourceFetch(req) = IF req.reverse THEN Reverse(u) ELSE u
    BY <1>1, <1>6, <1>9, <1>11, <1>14, Zenon DEF SourceFetch
  <2> QED BY <1>12, <1>13, <1>14, <2>1, Zenon
<1>16. Shown(req, n) \subseteq Row
  BY <1>5 DEF Shown
<1>17. \A x, y \in Shown(req, n) : <<x, y>> \in BackRel => <<y, x>> \in Rel
  BY <1>16 DEF BackRel, Rel
<1>18. Lists(Reverse(u), Shown(req, n), BackRel)
  BY <1>15, <1>17, ReverseLists
<1> QED BY <1>15, <1>18

-----------------------------------------------------------------------------
(* Pushes.                                                                 *)

(* A push through a set of rows is the push of the table's part in it.     *)
LEMMA PushIfIs ==
    ASSUME NEW T \in Tables, NEW c, Legal(T, c), NEW P
    PROVE  /\ Legal(T \cap P, PushIf(P, c))
           /\ writeChange(T \cap P, PushIf(P, c)) = writeChange(T, c) \cap P
<1>1. T \subseteq Row /\ \A r, s \in T : SamePK(r, s) => r = s
  BY DEF Tables
<1>2. /\ \A r, s, t : SamePK(r, s) /\ SamePK(r, t) => SamePK(s, t)
      /\ \A r, s : SamePK(r, s) => SamePK(s, r)
  BY DEF SamePK
<1>3. CASE c = NoChange
  BY <1>3 DEF PushIf, writeChange, Legal, NoChange, Change
<1>4. ASSUME NEW r \in Row, c = Change("add", r, NoRow), \A s \in T : ~SamePK(r, s)
      PROVE  /\ Legal(T \cap P, PushIf(P, c))
             /\ writeChange(T \cap P, PushIf(P, c)) = writeChange(T, c) \cap P
  <2>1. PushIf(P, c) = IF r \in P THEN c ELSE NoChange
    BY <1>4 DEF PushIf, Change
  <2>2. writeChange(T, c) = T \cup {r} /\ writeChange(T \cap P, c) = (T \cap P) \cup {r}
    BY <1>4 DEF writeChange, Change
  <2>3. writeChange(T \cap P, NoChange) = T \cap P
    BY DEF writeChange, NoChange, Change
  <2>4. Legal(T \cap P, c) /\ Legal(T \cap P, NoChange)
    BY <1>4 DEF Legal
  <2> QED BY <2>1, <2>2, <2>3, <2>4
<1>5. ASSUME NEW r \in T, c = Change("remove", r, NoRow)
      PROVE  /\ Legal(T \cap P, PushIf(P, c))
             /\ writeChange(T \cap P, PushIf(P, c)) = writeChange(T, c) \cap P
  <2>1. PushIf(P, c) = IF r \in P THEN c ELSE NoChange
    BY <1>5 DEF PushIf, Change
  <2>2. writeChange(T, c) = T \ {r} /\ writeChange(T \cap P, c) = (T \cap P) \ {r}
    BY <1>5 DEF writeChange, Change
  <2>3. writeChange(T \cap P, NoChange) = T \cap P
    BY DEF writeChange, NoChange, Change
  <2>4. (r \in P => Legal(T \cap P, c)) /\ Legal(T \cap P, NoChange)
    BY <1>5 DEF Legal
  <2> QED BY <2>1, <2>2, <2>3, <2>4
<1>6. ASSUME NEW r \in Row, NEW old \in T, r # old, SamePK(r, old), c = Change("edit", r, old)
      PROVE  /\ Legal(T \cap P, PushIf(P, c))
             /\ writeChange(T \cap P, PushIf(P, c)) = writeChange(T, c) \cap P
  <2>1. writeChange(T, c) = (T \ {old}) \cup {r} /\ r \notin T
    BY <1>1, <1>6 DEF writeChange, Change
  <2>2. CASE old \in P /\ r \in P
    <3>1. PushIf(P, c) = c
      BY <1>6, <2>2 DEF PushIf, Change
    <3>2. writeChange(T \cap P, c) = ((T \cap P) \ {old}) \cup {r}
      BY <1>6 DEF writeChange, Change
    <3>3. Legal(T \cap P, c)
      BY <1>6, <2>2 DEF Legal
    <3> QED BY <2>1, <2>2, <3>1, <3>2, <3>3
  <2>3. CASE old \notin P /\ r \in P
    <3>1. PushIf(P, c) = Change("add", r, NoRow)
      BY <1>6, <2>3 DEF PushIf, Change
    <3>2. writeChange(T \cap P, Change("add", r, NoRow)) = (T \cap P) \cup {r}
      BY DEF writeChange, Change
    <3>3. \A s \in T \cap P : ~SamePK(r, s)
      BY <1>1, <1>2, <1>6, <2>3
    <3>4. Legal(T \cap P, Change("add", r, NoRow))
      BY <3>3 DEF Legal
    <3> QED BY <2>1, <2>3, <3>1, <3>2, <3>4
  <2>4. CASE old \in P /\ r \notin P
    <3>1. PushIf(P, c) = Change("remove", old, NoRow)
      BY <1>6, <2>4 DEF PushIf, Change
    <3>2. writeChange(T \cap P, Change("remove", old, NoRow)) = (T \cap P) \ {old}
      BY DEF writeChange, Change
    <3>3. Legal(T \cap P, Change("remove", old, NoRow))
      BY <2>4 DEF Legal
    <3> QED BY <2>1, <2>4, <3>1, <3>2, <3>3
  <2>5. CASE old \notin P /\ r \notin P
    <3>1. PushIf(P, c) = NoChange
      BY <1>6, <2>5 DEF PushIf, Change
    <3>2. writeChange(T \cap P, NoChange) = T \cap P
      BY DEF writeChange, NoChange, Change
    <3>3. Legal(T \cap P, NoChange)
      BY DEF Legal
    <3> QED BY <2>1, <2>5, <3>1, <3>2, <3>3
  <2> QED BY <2>2, <2>3, <2>4, <2>5
<1> QED BY <1>3, <1>4, <1>5, <1>6 DEF Legal

(* A legal change makes a table of a table.                                *)
LEMMA WriteIs ==
    ASSUME NEW T \in Tables, NEW c, Legal(T, c)
    PROVE  writeChange(T, c) \in Tables
<1>1. T \subseteq Row /\ IsFiniteSet(T) /\ \A r, s \in T : SamePK(r, s) => r = s
  BY DEF Tables
<1>2. /\ \A r, s, t : SamePK(r, s) /\ SamePK(r, t) => SamePK(s, t)
      /\ \A r, s : SamePK(r, s) => SamePK(s, r)
  BY DEF SamePK
<1>3. ASSUME NEW S \in SUBSET T, NEW r \in Row, \A s \in S : ~SamePK(r, s)
      PROVE  S \cup {r} \in Tables /\ S \in Tables
  <2>1. IsFiniteSet(S)
    BY <1>1, FS_Subset
  <2>2. IsFiniteSet(S \cup {r})
    BY <2>1, FS_AddElement
  <2>3. \A a, b \in S \cup {r} : SamePK(a, b) => a = b
    BY <1>1, <1>2, <1>3
  <2> QED BY <1>1, <2>1, <2>2, <2>3 DEF Tables
<1>4. CASE c = NoChange
  BY <1>4 DEF writeChange, NoChange, Change
<1>5. ASSUME NEW r \in Row, c = Change("add", r, NoRow), \A s \in T : ~SamePK(r, s)
      PROVE  writeChange(T, c) \in Tables
  <2>1. writeChange(T, c) = T \cup {r}
    BY <1>5 DEF writeChange, Change
  <2> QED BY <1>3, <1>5, <2>1
<1>6. ASSUME NEW r \in T, c = Change("remove", r, NoRow)
      PROVE  writeChange(T, c) \in Tables
  <2>1. writeChange(T, c) = T \ {r}
    BY <1>6 DEF writeChange, Change
  <2>2. T \ {r} \in SUBSET T /\ r \in Row /\ \A s \in T \ {r} : ~SamePK(r, s)
    BY <1>1, <1>6
  <2> QED BY <1>3, <2>1, <2>2
<1>7. ASSUME NEW r \in Row, NEW old \in T, r # old, SamePK(r, old), c = Change("edit", r, old)
      PROVE  writeChange(T, c) \in Tables
  <2>1. writeChange(T, c) = (T \ {old}) \cup {r}
    BY <1>7 DEF writeChange, Change
  <2>2. T \ {old} \in SUBSET T /\ \A s \in T \ {old} : ~SamePK(r, s)
    BY <1>1, <1>2, <1>7
  <2> QED BY <1>3, <2>1, <2>2
<1> QED BY <1>4, <1>5, <1>6, <1>7 DEF Legal

(* A legal change of what has been put out fits it.                        *)
LEMMA LegalFits ==
    ASSUME NEW c, Legal(view, c)
    PROVE  Fits(c)
<1>1. \A r, s : SamePK(r, s) => SamePK(s, r)
  BY DEF SamePK
<1>2. CASE c = NoChange
  BY <1>2 DEF Fits, NoChange, Change
<1>3. ASSUME NEW r \in Row, c = Change("add", r, NoRow), \A s \in view : ~SamePK(r, s)
      PROVE  Fits(c)
  BY <1>1, <1>3 DEF Fits, Change
<1>4. ASSUME NEW r \in view, c = Change("remove", r, NoRow)
      PROVE  Fits(c)
  BY <1>4 DEF Fits, Change
<1>5. ASSUME NEW r \in Row, NEW old \in view, c = Change("edit", r, old)
      PROVE  Fits(c)
  BY <1>5 DEF Fits, Change
<1> QED BY <1>2, <1>3, <1>4, <1>5 DEF Legal

-----------------------------------------------------------------------------
(* The page.                                                               *)

(* The start at the cursor lets exactly the rows of the page pass.         *)
LEMMA BoundPasses ==
    ASSUME QueryInv, NEW r \in Row
    PROVE  Passes(BoundStart, FALSE, Named, r) <=> AfterCursor(r)
<1>1. Named \in 0..Len(sort) /\ Named \in Nat /\ Has(query.cursor, Named) /\ sort \in Order
  <2>1. Len(sort) \in Nat
    BY SortIs, ColumnIs
  <2> QED BY <2>1, NamedIs, SortIs DEF Names
<1>2. Has(r, Named)
  BY <1>1, RowIs, RowHas
<1>3. ~ (Precedes(query.cursor, r, Named) /\ Precedes(r, query.cursor, Named))
  BY <1>1, <1>2, PrecedesAsymmetric
<1>4. query.exclusive \in BOOLEAN
  BY QueryIs DEF QueryInv
<1>5. BoundStart.row = query.cursor /\ (BoundStart.basis = "at" <=> ~query.exclusive)
  BY <1>4 DEF BoundStart, basisFromExclusive
<1> QED BY <1>3, <1>5, Zenon DEF Passes, AfterCursor

(* A list has its elements.                                                *)
LEMMA ListsSet ==
    ASSUME NEW s, NEW S, NEW R, Lists(s, S, R)
    PROVE  ToSet(s) = S
<1>1. s \in Seq(S) /\ \A i \in DOMAIN s : s[i] \in S
  BY DEF Lists
<1> QED BY <1>1 DEF Lists, ToSet

(* Hydration puts the page out.                                            *)
LEMMA HydrationIs ==
    ASSUME QueryInv, ChangeInv, ~reached
    PROVE  Hydration = {r \in Table : r \in query.where /\ AfterCursor(r)}
<1> PICK forth : forth = FALSE
  OBVIOUS
<1> DEFINE req == [start |-> NoStart, reverse |-> forth, constraint |-> NoConstraint]
           src == [start |-> BoundStart, reverse |-> forth, constraint |-> NoConstraint]
<1>1. BoundStart # NoStart /\ BoundStart # Empty /\ BoundStart.row = query.cursor
  BY DEF BoundStart, NoStart, Empty, basisFromExclusive
<1>2. getStart(req) = BoundStart /\ [req EXCEPT !.start = BoundStart] = src
  <2>1. req.start = NoStart /\ req.reverse = FALSE
    OBVIOUS
  <2>2. [req EXCEPT !.start = BoundStart] = src
    OBVIOUS
  <2> HIDE DEF req
  <2>3. getStart(req) = BoundStart
    BY <2>1, Zenon DEF getStart
  <2> QED BY <2>2, <2>3
<1>3. Fetch(req) = SourceFetch(src)
  <2>1. req.reverse = FALSE
    OBVIOUS
  <2> HIDE DEF req, src
  <2> QED BY <1>1, <1>2, <2>1, Zenon DEF Fetch, UntilCursor
<1>4. StartFits(src, Named)
  BY <1>1, NamedIs, QueryIs DEF StartFits, QueryInv
<1>5. src.reverse = FALSE /\ src.start = BoundStart /\ src.constraint = NoConstraint
  OBVIOUS
<1> HIDE DEF src
<1>6. Lists(SourceFetch(src), Shown(src, Named), Rel)
  <2>1. src.reverse \in BOOLEAN /\ (src.start # NoStart => StartFits(src, Named))
    BY <1>4, <1>5
  <2>2. Lists(SourceFetch(src), Shown(src, Named), IF src.reverse THEN BackRel ELSE Rel)
    BY <2>1, SourceLists
  <2> QED BY <1>5, <2>2
<1>7. ToSet(SourceFetch(src)) = Shown(src, Named)
  BY <1>6, ListsSet
<1>8. Table \subseteq Row
  BY ChangeIs
<1>9. \A r \in Table : Passes(BoundStart, FALSE, Named, r) <=> AfterCursor(r)
  BY <1>8, BoundPasses
<1>10. Shown(src, Named) = {r \in Table : r \in query.where /\ AfterCursor(r)}
  BY <1>1, <1>5, <1>9, Zenon DEF Shown, ConstraintMatchesRow
<1> QED BY <1>3, <1>7, <1>10, Zenon DEF Hydration

(* A part of a table is one.                                               *)
LEMMA PartIsTable ==
    ASSUME NEW T \in Tables, NEW S \in SUBSET T
    PROVE  S \in Tables
<1>1. T \subseteq Row /\ IsFiniteSet(T) /\ \A r, s \in T : SamePK(r, s) => r = s
  BY DEF Tables
<1>2. IsFiniteSet(S)
  BY <1>1, FS_Subset
<1> QED BY <1>1, <1>2 DEF Tables

(* PushIfIs, for all tables and changes at once.                           *)
LEMMA PushIfAlways ==
    \A P, T, c : T \in Tables /\ Legal(T, c)
                 => /\ Legal(T \cap P, PushIf(P, c))
                    /\ writeChange(T \cap P, PushIf(P, c)) = writeChange(T, c) \cap P
  BY PushIfIs

(* What the connection puts out of a change brings the page up to date.    *)
LEMMA PushIs ==
    ASSUME QueryInv, NEW T \in Tables, NEW c, Legal(T, c), NEW V,
           V = {r \in T : r \in query.where /\ AfterCursor(r)}
    PROVE  /\ Legal(V, SkipPush(FilterPush(c)))
           /\ writeChange(V, SkipPush(FilterPush(c))) = {r \in writeChange(T, c) : r \in query.where /\ AfterCursor(r)}
<1>1. PICK W : W = query.where
  OBVIOUS
<1>2. PICK Q : Q = {r \in Row : shouldBePresent(r)}
  OBVIOUS
<1>3. PICK d : d = PushIf(W, c)
  OBVIOUS
<1>4. SkipPush(FilterPush(c)) = PushIf(Q, d)
  BY <1>1, <1>2, <1>3 DEF SkipPush, FilterPush
<1>5. \A r \in Row : r \in Q <=> AfterCursor(r)
  BY <1>2, PresentIs
<1>6. T \subseteq Row /\ writeChange(T, c) \subseteq Row
  BY WriteIs DEF Tables
<1>7. PICK U : U = T \cap W
  OBVIOUS
<1>8. U \in Tables /\ U \cap Q = V
  <2>1. U \in Tables
    BY <1>7, PartIsTable
  <2> QED BY <1>1, <1>5, <1>6, <1>7, <2>1
<1>9. Legal(U, d) /\ writeChange(U, d) = writeChange(T, c) \cap W
  BY <1>3, <1>7, PushIfIs
<1>10. Legal(U \cap Q, PushIf(Q, d)) /\ writeChange(U \cap Q, PushIf(Q, d)) = writeChange(U, d) \cap Q
  <2>1. U \in Tables /\ Legal(U, d)
    BY <1>8, <1>9
  <2> QED BY <2>1, PushIfAlways, Zenon
<1>11. (writeChange(T, c) \cap W) \cap Q = {r \in writeChange(T, c) : r \in query.where /\ AfterCursor(r)}
  BY <1>1, <1>5, <1>6
<1> QED BY <1>4, <1>8, <1>9, <1>10, <1>11

-----------------------------------------------------------------------------
(* The inductive invariant, and the theorems about it.                     *)

Inv == QueryInv /\ ChangeInv /\ fits \in BOOLEAN /\ PageCorrect

(* A step leaves the cursor and the order alone.                           *)
LEMMA QueryStays ==
    ASSUME query' = query, sort' = sort
    PROVE  /\ completeOrdering' = completeOrdering
           /\ \A r : AfterCursor(r)' <=> AfterCursor(r)
<1>1. Named' = Named
  BY DEF Named
<1>2. \A a, b, n : Precedes(a, b, n)' <=> Precedes(a, b, n)
  BY DEF Precedes
<1>3. completeOrdering' = completeOrdering
  BY DEF completeOrdering
<1> QED BY <1>1, <1>2, <1>3 DEF AfterCursor

(* The first page is the page of the first table.                          *)
LEMMA InvInit == Init => Inv
<1>1. SUFFICES ASSUME Init PROVE Inv
  OBVIOUS
<1>2. QueryInv /\ ChangeInv /\ ~reached /\ view = Hydration /\ fits /\ fits \in BOOLEAN
  BY <1>1 DEF Init, QueryInv, ChangeInv, Legal
<1>3. view = {r \in Table : r \in query.where /\ AfterCursor(r)}
  BY <1>2, HydrationIs
<1> QED BY <1>2, <1>3 DEF Inv, PageCorrect

(* Every step keeps it.                                                    *)
LEMMA InvNext == Inv /\ [Next]_vars => Inv'
<1>1. SUFFICES ASSUME Inv, [Next]_vars PROVE Inv'
  OBVIOUS
<1>2. QueryInv /\ ChangeInv /\ view = {r \in Table : r \in query.where /\ AfterCursor(r)} /\ fits = TRUE
  <2>1. fits /\ fits \in BOOLEAN
    BY <1>1 DEF Inv, PageCorrect
  <2> QED BY <1>1, <2>1 DEF Inv, PageCorrect
<1>3. query' = query /\ sort' = sort
  BY <1>1 DEF Next, Push, PushConnection, Write, vars
<1>4. QueryInv' /\ \A r : AfterCursor(r)' <=> AfterCursor(r)
  BY <1>2, <1>3, QueryStays DEF QueryInv
<1>5. data \in Tables /\ reached \in BOOLEAN /\ (reached => change # NoChange) /\ Legal(data, change)
  BY <1>2 DEF ChangeInv
<1>6. SUFFICES /\ data' \in Tables /\ reached' \in BOOLEAN /\ (reached' => change' # NoChange) /\ Legal(data', change')
               /\ view' = {r \in Table' : r \in query.where /\ AfterCursor(r)} /\ fits' = TRUE
  <2>1. {r \in Table' : r \in query'.where /\ AfterCursor(r)'} = {r \in Table' : r \in query.where /\ AfterCursor(r)}
    BY <1>3, <1>4
  <2>2. Legal(data, change)' = Legal(data', change')
    BY DEF Legal, SamePK
  <2> QED BY <1>4, <2>1, <2>2 DEF Inv, ChangeInv, PageCorrect
<1>7. CASE Push
  <2>1. change = NoChange /\ reached = FALSE /\ reached' = FALSE /\ data' = data /\ view' = view /\ fits' = fits
    BY <1>5, <1>7 DEF Push
  <2>2. Legal(data, change')
    <3>1. PICK r \in Row :
            \/ {s \in data : SamePK(r, s)} = {} /\ change' = Change("add", r, NoRow)
            \/ r \in data /\ change' = Change("remove", r, NoRow)
            \/ \E old \in {s \in data : SamePK(r, s)} \ {r} : change' = Change("edit", r, old)
      BY <1>7 DEF Push
    <3>2. CASE {s \in data : SamePK(r, s)} = {} /\ change' = Change("add", r, NoRow)
      BY <3>2 DEF Legal
    <3>3. CASE r \in data /\ change' = Change("remove", r, NoRow)
      BY <3>3 DEF Legal
    <3>4. CASE \E old \in {s \in data : SamePK(r, s)} \ {r} : change' = Change("edit", r, old)
      BY <3>4 DEF Legal
    <3> QED BY <3>1, <3>2, <3>3, <3>4
  <2>3. Table = data /\ Table' = data
    BY <2>1 DEF Table
  <2> QED BY <1>2, <1>5, <2>1, <2>2, <2>3
<1>8. CASE PushConnection
  <2>1. PICK out : out = SkipPush(FilterPush(change))
    OBVIOUS
  <2>2. /\ change # NoChange /\ reached = FALSE /\ reached' = TRUE /\ data' = data /\ change' = change
        /\ view' = writeChange(view, out) /\ fits' = (fits /\ Fits(out))
    BY <1>5, <1>8, <2>1 DEF PushConnection
  <2>3. Table = data /\ Table' = writeChange(data, change)
    BY <2>2 DEF Table, writeChange
  <2>4. view = {r \in data : r \in query.where /\ AfterCursor(r)}
    BY <1>2, <2>3
  <2>5. /\ Legal(view, out)
        /\ writeChange(view, out) = {r \in writeChange(data, change) : r \in query.where /\ AfterCursor(r)}
    BY <1>2, <1>5, <2>1, <2>4, PushIs
  <2>6. Fits(out)
    BY <2>5, LegalFits
  <2> QED BY <1>2, <1>5, <2>2, <2>3, <2>5, <2>6
<1>9. CASE Write
  <2>1. /\ reached = TRUE /\ reached' = FALSE /\ data' = writeChange(data, change) /\ change' = NoChange
        /\ view' = view /\ fits' = fits
    BY <1>5, <1>9 DEF Write
  <2>2. Table = writeChange(data, change) /\ Table' = writeChange(data, change)
    BY <2>1 DEF Table
  <2>3. data' \in Tables
    BY <1>5, <2>1, WriteIs
  <2>4. Legal(data', change')
    BY <2>1 DEF Legal
  <2> QED BY <1>2, <2>1, <2>2, <2>3, <2>4
<1>10. CASE UNCHANGED vars
  <2>1. data' = data /\ change' = change /\ reached' = reached /\ view' = view /\ fits' = fits
    BY <1>10 DEF vars
  <2>2. Table' = Table
    BY <2>1 DEF Table, writeChange
  <2> QED BY <1>2, <1>5, <2>1, <2>2
<1> QED BY <1>1, <1>7, <1>8, <1>9, <1>10 DEF Next

(* It is an invariant.                                                     *)
LEMMA InvAlways == Spec => []Inv
  BY InvInit, InvNext, PTL DEF Spec

(* The table and the rows put out always are tables of legal rows, and a   *)
(* change is under way whenever the source shows one: every row put out    *)
(* is one the source has.                                                  *)
THEOREM SkipTypeCorrect == Spec => []TypeOK
<1>1. Inv => TypeOK
  <2>1. SUFFICES ASSUME Inv PROVE TypeOK
    OBVIOUS
  <2>2. QueryInv /\ ChangeInv /\ view = {r \in Table : r \in query.where /\ AfterCursor(r)} /\ fits \in BOOLEAN
    BY <2>1 DEF Inv, PageCorrect
  <2>3. data \in Tables /\ Legal(data, change)
    BY <2>2 DEF ChangeInv
  <2>4. Table \in Tables
    BY <2>3, WriteIs DEF Table
  <2>5. view \in Tables
    <3>1. view \in SUBSET Table
      BY <2>2
    <3> QED BY <2>4, <3>1, PartIsTable
  <2>6. change = NoChange \/ change.row \in Row
    BY <2>3 DEF Legal, Change, Tables
  <2> QED BY <2>2, <2>3, <2>5, <2>6 DEF TypeOK, QueryInv, ChangeInv
<1> QED BY <1>1, InvAlways, PTL

(* Skip puts out exactly the page, whatever is pushed and while it is      *)
(* pushed, and no output contradicts an earlier one: every row of the      *)
(* table that passes the WHERE and is not before the cursor.               *)
THEOREM PageStaysCorrect == Spec => []PageCorrect
<1>1. Inv => PageCorrect
  BY DEF Inv
<1> QED BY <1>1, InvAlways, PTL

-----------------------------------------------------------------------------
(* Fetches.                                                                *)

(* The page has all rows after one of it.                                  *)
LEMMA AfterUp ==
    ASSUME QueryInv, NEW a \in Row, NEW b \in Row, AfterCursor(a), ~Precedes(b, a, Len(sort))
    PROVE  AfterCursor(b)
<1>1. sort \in Order /\ Len(sort) \in Nat /\ Len(sort) \in 0..Len(sort) /\ Named \in 0..Len(sort) /\ Has(query.cursor, Named)
  BY SortIs, ColumnIs, NamedIs DEF Names
<1>2. Has(a, Len(sort)) /\ Has(b, Len(sort))
  BY <1>1, RowIs, RowHas
<1>3. /\ Precedes(query.cursor, a, Named) => Precedes(query.cursor, b, Named)
      /\ Precedes(b, query.cursor, Named) => Precedes(a, query.cursor, Named)
  BY <1>1, <1>2, BoundsSplit
<1> QED BY <1>3, Zenon DEF AfterCursor

(* A usual cursor is before every row of the page in all columns, or is    *)
(* one itself.                                                             *)
LEMMA UsualIs ==
    ASSUME QueryInv, UsualCursor(query), NEW r \in Row, AfterCursor(r)
    PROVE  /\ ~Precedes(r, Filled(query.cursor), Len(sort))
           /\ \/ Precedes(Filled(query.cursor), r, Len(sort))
              \/ Named = Len(sort) /\ Agrees(query.cursor, r, Len(sort)) /\ ~query.exclusive
<1>1. PICK c : c = query.cursor
  OBVIOUS
<1>2. PICK f : f = Filled(c)
  OBVIOUS
<1>3. PICK n : n = Named
  OBVIOUS
<1>4. PICK m : m = Len(sort)
  OBVIOUS
<1>5. /\ sort \in Order /\ m \in Nat /\ n \in 0..m /\ n \in Nat /\ m \in 0..m /\ IsBound(c) /\ Names(c, n) /\ Has(c, n)
      /\ DOMAIN sort = 1..m
  <2>1. sort \in Order /\ m \in Nat /\ IsBound(c) /\ DOMAIN sort = 1..m
    BY <1>1, <1>4, SortIs, ColumnIs, QueryIs DEF QueryInv, Order
  <2>2. Names(c, n) /\ Has(c, n)
    BY <1>1, <1>3, NamedIs
  <2> QED BY <1>4, <2>1, <2>2 DEF Names
<1>6. f \in [Columns -> Nat] /\ \A x \in DOMAIN c : f[x] = c[x]
  BY <1>2, <1>5, FilledIs
<1>7. Agrees(c, f, n)
  BY <1>5, <1>6 DEF Agrees, Names
<1>8. Has(f, m) /\ Has(r, m) /\ Has(f, n) /\ Has(r, n)
  BY <1>4, <1>5, <1>6, RowIs, RowHas
<1>9. CASE Precedes(c, r, n)
  <2>1. Precedes(f, r, n)
    BY <1>5, <1>7, <1>9, PrecedesAgrees
  <2>2. Precedes(f, r, m)
    BY <1>5, <2>1, PrecedesMore
  <2>3. ~Precedes(r, f, m)
    BY <1>5, <1>8, <2>2, PrecedesAsymmetric
  <2> QED BY <1>1, <1>2, <1>4, <2>2, <2>3
<1>10. CASE ~Precedes(c, r, n)
  <2>1. ~query.exclusive /\ ~Precedes(r, c, n)
    BY <1>1, <1>3, <1>10 DEF AfterCursor
  <2>2. Agrees(c, r, n)
    BY <1>5, <1>8, <1>10, <2>1, PrecedesTotal
  <2>3. CASE n = m
    <3>1. Agrees(f, r, m)
      BY <1>7, <2>2, <2>3 DEF Agrees
    <3>2. ~Precedes(r, f, m)
      BY <1>5, <1>8, <3>1, PrecedesAgrees, PrecedesAsymmetric
    <3> QED BY <1>1, <1>2, <1>3, <1>4, <2>1, <2>2, <2>3, <3>2
  <2>4. CASE n < m
    <3> DEFINE rest == {i \in DOMAIN sort : \E j \in 1..i : sort[j].field \notin DOMAIN c}
    <3>1. n + 1 \in 1..m /\ sort[n + 1].field \notin DOMAIN c
      BY <1>4, <1>5, <2>4 DEF Names
    <3>2. \A i \in 1..m : i > n => i \in rest
      <4>1. \A i \in 1..m : i > n => n + 1 \in 1..i
        BY <1>5
      <4> QED BY <1>5, <3>1, <4>1
    <3>3. \A i \in 1..m : i \in rest => i > n
      <4>1. \A i \in 1..m : ~ (i > n) => \A j \in 1..i : j \in 1..n
        BY <1>5
      <4> QED BY <1>5, <4>1 DEF Names
    <3>4. rest # {}
      <4>1. n + 1 > n
        BY <1>5
      <4> HIDE DEF rest
      <4> QED BY <3>1, <3>2, <4>1
    <3>5. /\ \A i \in rest : sort[i].dir = "asc" /\ sort[i].field \notin DOMAIN c
          /\ \E i \in rest, k \in DOMAIN PrimaryKey : sort[i].field = PrimaryKey[k]
      <4>1. sort = addPrimaryKeys(PrimaryKey, query.orderBy)
        BY DEF QueryInv, completeOrdering
      <4>2. \/ query.exclusive
            \/ rest = {}
            \/ /\ \A i \in rest : sort[i].dir = "asc" /\ sort[i].field \notin DOMAIN c
               /\ \E i \in rest, k \in DOMAIN PrimaryKey : sort[i].field = PrimaryKey[k]
        BY <1>1, <4>1, Zenon DEF UsualCursor
      <4> HIDE DEF rest
      <4> QED BY <2>1, <3>4, <4>2
    <3>6. ASSUME NEW i \in 1..m, i > n
          PROVE  sort[i].dir = "asc" /\ f[sort[i].field] = 0 /\ r[sort[i].field] \in Nat
      <4>1. sort[i].dir = "asc" /\ sort[i].field \notin DOMAIN c
        BY <3>2, <3>5, <3>6
      <4>2. sort[i].field \in Columns
        BY <1>4, <1>5, ColumnIs
      <4>3. f[sort[i].field] = 0
        BY <1>2, <4>1, <4>2 DEF Filled, Value, Null
      <4> QED BY <1>8, <4>1, <4>3 DEF Has
    <3>7. PICK k \in 1..m : r[sort[k].field] # 0 /\ f[sort[k].field] = 0
      <4>1. PICK k \in rest, l \in DOMAIN PrimaryKey : sort[k].field = PrimaryKey[l]
        BY <3>5
      <4>2. k \in 1..m /\ k > n
        BY <1>5, <3>3, <4>1
      <4>3. r[PrimaryKey[l]] # 0
        BY SkipAssumption DEF Null
      <4> QED BY <3>6, <4>1, <4>2, <4>3
    <3>8. ~Precedes(r, f, m)
      <4>1. ASSUME NEW i \in 1..m, Less(r, f, i) PROVE FALSE
        <5>1. CASE i > n
          BY <3>6, <4>1, <5>1 DEF Less
        <5>2. CASE ~ (i > n)
          <6>1. i \in 1..n
            BY <1>5, <5>2
          <6>2. r[sort[i].field] = f[sort[i].field] /\ r[sort[i].field] \in Nat
            BY <1>7, <1>8, <2>2, <6>1 DEF Agrees, Has
          <6> QED BY <4>1, <6>2 DEF Less
        <5> QED BY <5>1, <5>2
      <4> QED BY <1>5, <4>1, PrecedesIs
    <3>9. ~Agrees(f, r, m)
      BY <3>7 DEF Agrees
    <3>10. Precedes(f, r, m)
      BY <1>5, <1>8, <3>8, <3>9, PrecedesTotal
    <3> QED BY <1>1, <1>2, <1>4, <3>8, <3>10
  <2> QED BY <1>5, <2>3, <2>4
<1> QED BY <1>9, <1>10

(* The order of a fetch.                                                   *)
Way(reverse) == IF reverse THEN BackRel ELSE Rel

(* A list of rows of one table is in the strict order.                     *)
LEMMA ListsStrict ==
    ASSUME QueryInv, NEW T \in Tables, NEW S \in SUBSET T, NEW reverse \in BOOLEAN, NEW s, Lists(s, S, Way(reverse)),
           NEW i \in DOMAIN s, NEW j \in DOMAIN s, i < j
    PROVE  IF reverse THEN Precedes(s[j], s[i], Len(sort)) ELSE Precedes(s[i], s[j], Len(sort))
<1>1. s[i] \in T /\ s[j] \in T /\ T \subseteq Row /\ i # j
  <2>1. s \in Seq(S) /\ DOMAIN s = 1..Len(s)
    BY DEF Lists
  <2> QED BY <2>1 DEF Tables
<1>2. s[i] # s[j] /\ <<s[j], s[i]>> \notin Way(reverse)
  BY <1>1 DEF Lists, Sorted, Once
<1>3. ~Agrees(s[i], s[j], Len(sort))
  BY <1>1, <1>2, TableOrdered
<1>4. Precedes(s[i], s[j], Len(sort)) \/ Precedes(s[j], s[i], Len(sort))
  BY <1>1, <1>3, RelOrders, RelIs
<1>5. CASE reverse
  <2>1. ~Precedes(s[i], s[j], Len(sort))
    BY <1>1, <1>2, <1>5 DEF Way, BackRel
  <2> QED BY <1>4, <1>5, <2>1
<1>6. CASE ~reverse
  <2>1. ~Precedes(s[j], s[i], Len(sort))
    BY <1>1, <1>2, <1>6 DEF Way, Rel
  <2> QED BY <1>4, <1>6, <2>1
<1> QED BY <1>5, <1>6

(* In reverse, Skip cuts what the source returns at the first row before   *)
(* the cursor, and with it all rows before the cursor.                     *)
LEMMA CutLists ==
    ASSUME QueryInv, NEW S \in SUBSET Row, NEW rows, Lists(rows, S, BackRel)
    PROVE  LET cut == SelectInSeq(rows, LAMBDA r : ~shouldBePresent(r))
           IN  Lists(IF cut # 0 THEN SubSeq(rows, 1, cut - 1) ELSE rows, {r \in S : AfterCursor(r)}, BackRel)
<1> DEFINE G == {i \in 1..Len(rows) : ~shouldBePresent(rows[i])}
           cut == SelectInSeq(rows, LAMBDA r : ~shouldBePresent(r))
<1>1. PICK k : k = First(G)
  OBVIOUS
<1>2. cut = k
  BY <1>1 DEF SelectInSeq, First
<1>3. rows \in Seq(S) /\ Len(rows) \in Nat /\ DOMAIN rows = 1..Len(rows) /\ \A i \in DOMAIN rows : rows[i] \in Row
  BY DEF Lists
<1>4. \A i \in DOMAIN rows : i \in G <=> ~AfterCursor(rows[i])
  BY <1>3, PresentIs
<1>5. /\ G = {} => k = 0
      /\ G # {} => k \in G /\ k # 0 /\ \A j \in G : k <= j
  <2>1. G \in SUBSET (1..Len(rows))
    OBVIOUS
  <2> HIDE DEF G
  <2> QED BY <1>1, <1>3, <2>1, FirstIs
<1>6. G \in SUBSET (1..Len(rows))
  OBVIOUS
<1> PICK A : A = {r \in Row : AfterCursor(r)}
  OBVIOUS
<1>7. S \cap A = {r \in S : AfterCursor(r)}
  OBVIOUS
<1> HIDE DEF G, cut
<1>8. CASE G = {}
  <2>1. \A r \in S : AfterCursor(r)
    BY <1>3, <1>4, <1>8 DEF Lists
  <2>2. {r \in S : AfterCursor(r)} = S
    BY <2>1
  <2>3. cut = 0
    BY <1>2, <1>5, <1>8
  <2>4. Lists(IF cut # 0 THEN SubSeq(rows, 1, cut - 1) ELSE rows, {r \in S : AfterCursor(r)}, BackRel)
    BY <2>2, <2>3
  <2> QED BY <2>4 DEF cut
<1>9. CASE G # {}
  <2>1. k \in DOMAIN rows /\ k \in Nat /\ 1 <= k /\ k <= Len(rows) /\ ~AfterCursor(rows[k]) /\ k # 0
    <3>1. k \in G /\ k # 0
      BY <1>5, <1>9
    <3> QED BY <1>3, <1>4, <1>6, <3>1
  <2>2. ASSUME NEW i \in DOMAIN rows, k < i PROVE ~AfterCursor(rows[i])
    <3>1. <<rows[i], rows[k]>> \notin BackRel /\ rows[i] \in Row /\ rows[k] \in Row
      BY <1>3, <2>1, <2>2 DEF Lists, Sorted
    <3>2. ~Precedes(rows[k], rows[i], Len(sort))
      BY <3>1 DEF BackRel
    <3> QED BY <2>1, <3>1, <3>2, AfterUp
  <2>3. ASSUME NEW i \in DOMAIN rows PROVE rows[i] \in A <=> 1 <= i /\ i <= k - 1
    <3>1. (i <= k - 1 => ~ (k <= i)) /\ (i <= k - 1 \/ i = k \/ k < i) /\ 1 <= i
      BY <1>3, <2>1
    <3>2. i <= k - 1 => AfterCursor(rows[i])
      BY <1>4, <1>5, <1>9, <3>1
    <3>3. AfterCursor(rows[i]) => i <= k - 1
      BY <2>1, <2>2, <3>1
    <3>4. rows[i] \in A <=> AfterCursor(rows[i])
      BY <1>3
    <3> QED BY <3>1, <3>2, <3>3, <3>4
  <2>4. Lists(SubSeq(rows, 1, k - 1), S \cap A, BackRel)
    <3>1. k - 1 \in Nat /\ k - 1 <= Len(rows) /\ 1 \in Nat /\ 1 <= 1 /\ 1 <= Len(rows) + 1
      BY <1>3, <2>1
    <3> QED BY <2>3, <3>1, PartLists
  <2>5. (IF cut # 0 THEN SubSeq(rows, 1, cut - 1) ELSE rows) = SubSeq(rows, 1, k - 1)
    BY <1>2, <2>1
  <2>6. Lists(IF cut # 0 THEN SubSeq(rows, 1, cut - 1) ELSE rows, {r \in S : AfterCursor(r)}, BackRel)
    BY <1>7, <2>4, <2>5
  <2> QED BY <2>6 DEF cut
<1> QED BY <1>8, <1>9

(* A request.                                                              *)
Request(start, reverse, constraint) == [start |-> start, reverse |-> reverse, constraint |-> constraint]

(* Skip's fetch, from the start it asks the source for.                    *)
LEMMA FetchLists ==
    ASSUME QueryInv, ChangeInv, NEW start, NEW reverse \in BOOLEAN, NEW k, NEW n, NEW e,
           e = getStart(Request(start, reverse, k)), e # Empty,
           e # NoStart => StartFits(Request(e, reverse, k), n)
    PROVE  Lists(Fetch(Request(start, reverse, k)),
                 {r \in Shown(Request(e, reverse, k), n) : reverse => AfterCursor(r)}, Way(reverse))
<1>1. PICK req : req = Request(start, reverse, k)
  OBVIOUS
<1>2. PICK src : src = Request(e, reverse, k)
  OBVIOUS
<1>3. [req EXCEPT !.start = e] = src /\ req.reverse = reverse /\ src.reverse = reverse /\ src.start = e
  BY <1>1, <1>2 DEF Request
<1>4. PICK rows : rows = SourceFetch(src)
  OBVIOUS
<1>5. PICK S : S = Shown(src, n)
  OBVIOUS
<1>6. Lists(rows, S, Way(reverse))
  <2>1. src.reverse \in BOOLEAN /\ (src.start # NoStart => StartFits(src, n))
    BY <1>2, <1>3
  <2>2. Lists(SourceFetch(src), Shown(src, n), IF src.reverse THEN BackRel ELSE Rel)
    BY <2>1, SourceLists
  <2> QED BY <1>3, <1>4, <1>5, <2>2, Zenon DEF Way
<1> DEFINE cut == SelectInSeq(rows, LAMBDA r : ~shouldBePresent(r))
<1>7. Fetch(req) = IF reverse /\ cut # 0 THEN SubSeq(rows, 1, cut - 1) ELSE rows
  BY <1>1, <1>3, <1>4, Zenon DEF Fetch, UntilCursor
<1>8. CASE reverse
  <2>1. S \in SUBSET Row
    BY <1>5, ChangeIs DEF Shown
  <2>2. Lists(IF cut # 0 THEN SubSeq(rows, 1, cut - 1) ELSE rows, {r \in S : AfterCursor(r)}, BackRel)
    <3>1. Lists(rows, S, BackRel)
      BY <1>6, <1>8 DEF Way
    <3> QED BY <2>1, <3>1, CutLists
  <2> HIDE DEF cut
  <2>3. Fetch(req) = IF cut # 0 THEN SubSeq(rows, 1, cut - 1) ELSE rows
    BY <1>7, <1>8
  <2>4. {r \in S : reverse => AfterCursor(r)} = {r \in S : AfterCursor(r)} /\ Way(reverse) = BackRel
    BY <1>8 DEF Way
  <2>5. Lists(Fetch(req), {r \in S : reverse => AfterCursor(r)}, Way(reverse))
    BY <2>2, <2>3, <2>4, Zenon
  <2> QED BY <1>1, <1>2, <1>5, <2>5
<1>9. CASE ~reverse
  <2> HIDE DEF cut
  <2>1. Fetch(req) = rows
    BY <1>7, <1>9
  <2>2. {r \in S : reverse => AfterCursor(r)} = S
    BY <1>9
  <2> QED BY <1>1, <1>2, <1>5, <1>6, <2>1, <2>2
<1> QED BY <1>8, <1>9

(* The overlay drops no row that passes a start with all columns.          *)
LEMMA FullStartFits ==
    ASSUME QueryInv, NEW req, req.reverse \in BOOLEAN, IsBound(req.start.row), Names(req.start.row, Len(sort))
    PROVE  StartFits(req, Len(sort))
<1>1. PICK a : a = req.start.row
  OBVIOUS
<1>2. PICK m : m = Len(sort)
  OBVIOUS
<1>3. sort \in Order /\ m \in Nat /\ m \in 0..Len(sort) /\ IsBound(a) /\ Names(a, m)
  BY <1>1, <1>2, SortIs, ColumnIs
<1>4. PICK f : f = Filled(a)
  OBVIOUS
<1>5. f \in [Columns -> Nat] /\ Agrees(a, f, m) /\ Has(a, m)
  <2>1. f \in [Columns -> Nat] /\ \A x \in DOMAIN a : f[x] = a[x]
    BY <1>3, <1>4, FilledIs
  <2>2. \A i \in 1..m : sort[i].field \in DOMAIN a
    BY <1>3 DEF Names
  <2> QED BY <1>3, <2>1, <2>2 DEF Agrees, Has, IsBound
<1>6. ASSUME NEW r \in Row, Passes(req.start, req.reverse, m, r)
      PROVE  MakeComparator(sort, req.reverse, r, a) >= 0
  <2>1. IsBound(r) /\ Filled(r) = r /\ Has(r, m)
    BY <1>3, RowIs, RowHas
  <2>2. PICK c : c = MakeComparator(sort, FALSE, r, a)
    OBVIOUS
  <2>3. /\ c \in {-1, 0, 1}
        /\ c < 0 <=> Precedes(r, f, m)
        /\ c > 0 <=> Precedes(f, r, m)
        /\ MakeComparator(sort, TRUE, r, a) >= 0 <=> c <= 0
    <3>1. /\ c \in {-1, 0, 1}
          /\ c < 0 <=> Precedes(Filled(r), Filled(a), Len(sort))
          /\ c > 0 <=> Precedes(Filled(a), Filled(r), Len(sort))
          /\ MakeComparator(sort, TRUE, r, a) >= 0 <=> c <= 0
      BY <1>3, <2>1, <2>2, ComparatorIs
    <3> QED BY <1>2, <1>4, <2>1, <3>1, Zenon
  <2>4. (Precedes(r, f, m) <=> Precedes(r, a, m)) /\ (Precedes(f, r, m) <=> Precedes(a, r, m))
    BY <1>3, <1>5, PrecedesAgrees
  <2>5. ~ (Precedes(r, a, m) /\ Precedes(a, r, m))
    BY <1>3, <1>5, <2>1, PrecedesAsymmetric
  <2>6. (c <= 0 <=> ~ (c > 0)) /\ (c >= 0 <=> ~ (c < 0))
    BY <2>3
  <2>7. CASE req.reverse
    <3>1. ~Precedes(a, r, m)
      BY <1>1, <1>6, <2>5, <2>7 DEF Passes
    <3>2. MakeComparator(sort, TRUE, r, a) >= 0
      BY <2>3, <2>4, <2>6, <3>1
    <3>3. req.reverse = TRUE
      BY <2>7
    <3> QED BY <3>2, <3>3
  <2>8. CASE ~req.reverse
    <3>1. ~Precedes(r, a, m)
      BY <1>1, <1>6, <2>5, <2>8 DEF Passes
    <3>2. c >= 0
      BY <2>3, <2>4, <2>6, <3>1
    <3>3. req.reverse = FALSE
      BY <2>8
    <3> QED BY <2>2, <3>2, <3>3
  <2> QED BY <2>7, <2>8
<1> QED BY <1>1, <1>2, <1>3, <1>6 DEF StartFits

(* The rows a fetch is to return.                                          *)
Wanted(start, reverse, k) ==
    {r \in view : /\ ConstraintMatchesRow(k, r)
                  /\ start # NoStart => Passes(start, reverse, Len(sort), r)}

(* A fetch from the cursor on.                                             *)
LEMMA FetchFromCursor ==
    ASSUME Inv, UsualCursor(query), NEW k
    PROVE  Lists(Fetch(Request(NoStart, FALSE, k)), Wanted(NoStart, FALSE, k), Way(FALSE))
<1>1. QueryInv /\ ChangeInv /\ view = {r \in Table : r \in query.where /\ AfterCursor(r)} /\ Table \subseteq Row
  BY ChangeIs DEF Inv, PageCorrect
<1>0. PICK forth : forth = FALSE
  OBVIOUS
<1>2. PICK req : req = Request(NoStart, forth, k)
  OBVIOUS
<1>3. PICK src : src = Request(BoundStart, forth, k)
  OBVIOUS
<1>4. req.start = NoStart /\ req.reverse = FALSE
  BY <1>0, <1>2 DEF Request
<1>5. src.start = BoundStart /\ src.reverse = FALSE /\ src.constraint = k
  BY <1>0, <1>3 DEF Request
<1>6. getStart(req) = BoundStart /\ BoundStart # Empty /\ BoundStart # NoStart /\ BoundStart.row = query.cursor
  <2>1. getStart(req) = BoundStart
    BY <1>4, Zenon DEF getStart
  <2> QED BY <2>1 DEF BoundStart, NoStart, Empty, basisFromExclusive
<1>7. StartFits(src, Named)
  <2>1. IsBound(query.cursor) /\ Names(query.cursor, Named) /\ sort \in Order
    BY <1>1, QueryIs, NamedIs, SortIs DEF QueryInv
  <2>2. ASSUME NEW r \in Row, AfterCursor(r) PROVE MakeComparator(sort, FALSE, r, query.cursor) >= 0
    <3>1. ~Precedes(r, Filled(query.cursor), Len(sort))
      BY <1>1, <2>2, UsualIs
    <3>2. IsBound(r) /\ Filled(r) = r
      BY RowIs
    <3>3. PICK c : c = MakeComparator(sort, FALSE, r, query.cursor)
      OBVIOUS
    <3>4. c \in {-1, 0, 1} /\ (c < 0 <=> Precedes(Filled(r), Filled(query.cursor), Len(sort)))
      BY <2>1, <3>2, <3>3, ComparatorIs
    <3>5. ~ (c < 0)
      BY <3>1, <3>2, <3>4, Zenon
    <3>6. c >= 0
      BY <3>4, <3>5
    <3> QED BY <3>3, <3>6
  <2>3. ASSUME NEW r \in Row, Passes(BoundStart, FALSE, Named, r)
        PROVE  MakeComparator(sort, FALSE, r, query.cursor) >= 0
    BY <1>1, <2>2, <2>3, BoundPasses
  <2> QED BY <1>5, <1>6, <2>1, <2>3, Zenon DEF StartFits
<1>8. Lists(Fetch(req), {r \in Shown(src, Named) : forth => AfterCursor(r)}, Way(forth))
  <2>1. forth \in BOOLEAN
    BY <1>0
  <2>2. PICK e : e = BoundStart
    OBVIOUS
  <2>3. e = getStart(Request(NoStart, forth, k)) /\ e # Empty /\ StartFits(Request(e, forth, k), Named)
    BY <1>2, <1>3, <1>6, <1>7, <2>2
  <2>4. Lists(Fetch(Request(NoStart, forth, k)), {r \in Shown(Request(e, forth, k), Named) : forth => AfterCursor(r)}, Way(forth))
    BY <1>1, <2>1, <2>3, FetchLists
  <2> QED BY <1>2, <1>3, <2>2, <2>4, Zenon
<1>9. {r \in Shown(src, Named) : forth => AfterCursor(r)} = Wanted(NoStart, FALSE, k)
  <2>1. \A r \in Table : Passes(BoundStart, FALSE, Named, r) <=> AfterCursor(r)
    BY <1>1, BoundPasses
  <2>2. \A r : r \in Shown(src, Named) <=> r \in Table /\ r \in query.where /\ ConstraintMatchesRow(k, r) /\ AfterCursor(r)
    BY <1>5, <1>6, <2>1, Zenon DEF Shown
  <2>3. \A r : r \in Wanted(NoStart, FALSE, k) <=> r \in view /\ ConstraintMatchesRow(k, r)
    BY DEF Wanted
  <2> QED BY <1>0, <1>1, <2>2, <2>3
<1> QED BY <1>0, <1>2, <1>8, <1>9

(* A fetch of the whole page in reverse.                                   *)
LEMMA FetchFromEnd ==
    ASSUME Inv, NEW k
    PROVE  Lists(Fetch(Request(NoStart, TRUE, k)), Wanted(NoStart, TRUE, k), Way(TRUE))
<1>0. PICK back : back = TRUE
  OBVIOUS
<1>1. QueryInv /\ ChangeInv /\ view = {r \in Table : r \in query.where /\ AfterCursor(r)}
  BY DEF Inv, PageCorrect
<1>2. PICK req : req = Request(NoStart, back, k)
  OBVIOUS
<1>3. req.start = NoStart /\ req.reverse = TRUE /\ req.constraint = k
  BY <1>0, <1>2 DEF Request
<1>4. getStart(req) = NoStart
  BY <1>3, Zenon DEF getStart
<1>5. NoStart # Empty
  BY DEF NoStart, Empty
<1>6. Lists(Fetch(req), {r \in Shown(req, 0) : back => AfterCursor(r)}, Way(back))
  <2>1. back \in BOOLEAN
    BY <1>0
  <2>2. PICK e : e = NoStart
    OBVIOUS
  <2>3. e = getStart(Request(NoStart, back, k)) /\ e # Empty /\ ~ (e # NoStart)
    BY <1>2, <1>4, <1>5, <2>2
  <2>4. Lists(Fetch(Request(NoStart, back, k)), {r \in Shown(Request(e, back, k), 0) : back => AfterCursor(r)}, Way(back))
    BY <1>1, <2>1, <2>3, FetchLists
  <2> QED BY <1>2, <2>2, <2>4, Zenon
<1>7. {r \in Shown(req, 0) : back => AfterCursor(r)} = Wanted(NoStart, TRUE, k)
  <2>1. \A r : r \in Shown(req, 0) <=> r \in Table /\ r \in query.where /\ ConstraintMatchesRow(k, r)
    BY <1>3, Zenon DEF Shown
  <2>2. \A r : r \in Wanted(NoStart, TRUE, k) <=> r \in view /\ ConstraintMatchesRow(k, r)
    BY DEF Wanted
  <2> QED BY <1>0, <1>1, <2>1, <2>2
<1> QED BY <1>0, <1>2, <1>6, <1>7

(* A fetch from a row of the page, by a start with all columns that stands *)
(* where the row does.                                                     *)
LEMMA FetchFromRow ==
    ASSUME Inv, NEW s \in Row, AfterCursor(s), NEW basis, basis \in {"at", "after"}, NEW reverse \in BOOLEAN, NEW k,
           NEW a, IsBound(a), Names(a, Len(sort)), Agrees(s, a, Len(sort)), NEW start, start = [row |-> s, basis |-> basis],
           [row |-> a, basis |-> basis] = getStart(Request(start, reverse, k))
    PROVE  Lists(Fetch(Request(start, reverse, k)), Wanted(start, reverse, k), Way(reverse))
<1>1. QueryInv /\ ChangeInv /\ view = {r \in Table : r \in query.where /\ AfterCursor(r)} /\ Table \subseteq Row
  BY ChangeIs DEF Inv, PageCorrect
<1>2. PICK m : m = Len(sort)
  OBVIOUS
<1>3. sort \in Order /\ m \in Nat /\ m \in 0..Len(sort) /\ Has(s, m)
  <2>1. sort \in Order /\ m \in Nat /\ m \in 0..Len(sort)
    BY <1>1, <1>2, SortIs, ColumnIs
  <2> QED BY <2>1, RowIs, RowHas
<1>4. PICK e : e = [row |-> a, basis |-> basis]
  OBVIOUS
<1>5. PICK src : src = Request(e, reverse, k)
  OBVIOUS
<1>6. src.start = e /\ src.reverse = reverse /\ src.constraint = k /\ e.row = a /\ e.basis = basis /\ start.row = s /\ start.basis = basis
  BY <1>4, <1>5 DEF Request
<1>7. e # Empty /\ e # NoStart /\ start # NoStart
  BY <1>4 DEF Empty, NoStart
<1>8. StartFits(src, Len(sort))
  <2>1. src.reverse \in BOOLEAN /\ IsBound(src.start.row) /\ Names(src.start.row, Len(sort))
    BY <1>6
  <2> QED BY <1>1, <2>1, FullStartFits
<1>9. Lists(Fetch(Request(start, reverse, k)), {r \in Shown(src, Len(sort)) : reverse => AfterCursor(r)}, Way(reverse))
  <2>1. e = getStart(Request(start, reverse, k)) /\ (e # NoStart => StartFits(Request(e, reverse, k), Len(sort)))
    BY <1>4, <1>5, <1>8
  <2> QED BY <1>1, <1>5, <1>7, <2>1, FetchLists
<1>10. ASSUME NEW r \in Row PROVE Passes(e, reverse, m, r) <=> Passes(start, reverse, m, r)
  <2>1. (Precedes(s, r, m) <=> Precedes(a, r, m)) /\ (Precedes(r, s, m) <=> Precedes(r, a, m))
    BY <1>2, <1>3, PrecedesAgrees
  <2> QED BY <1>6, <2>1, Zenon DEF Passes
<1>11. ASSUME NEW r \in Row, Passes(start, reverse, m, r), ~reverse PROVE AfterCursor(r)
  <2>1. ~ (Precedes(s, r, m) /\ Precedes(r, s, m))
    <3>1. Has(r, m)
      BY <1>3, RowIs, RowHas
    <3> QED BY <1>3, <3>1, PrecedesAsymmetric
  <2>2. ~Precedes(r, s, m)
    BY <1>6, <1>11, <2>1 DEF Passes
  <2> QED BY <1>1, <1>2, <2>2, AfterUp
<1>12. {r \in Shown(src, Len(sort)) : reverse => AfterCursor(r)} = Wanted(start, reverse, k)
  <2>1. \A r : r \in Shown(src, Len(sort)) <=> /\ r \in Table /\ r \in query.where /\ ConstraintMatchesRow(k, r)
                                               /\ Passes(e, reverse, m, r)
    BY <1>2, <1>6, <1>7, Zenon DEF Shown
  <2>2. \A r : r \in Wanted(start, reverse, k) <=> r \in view /\ ConstraintMatchesRow(k, r) /\ Passes(start, reverse, m, r)
    BY <1>2, <1>7, Zenon DEF Wanted
  <2> QED BY <1>1, <1>10, <1>11, <2>1, <2>2
<1> QED BY <1>9, <1>12

(* Nothing of the page is before the cursor.                               *)
LEMMA FetchFromFirst ==
    ASSUME Inv, NEW s \in Row, Named = Len(sort), Agrees(query.cursor, s, Len(sort)), NEW k,
           NEW start, start = [row |-> s, basis |-> "after"], Empty = getStart(Request(start, TRUE, k))
    PROVE  Lists(Fetch(Request(start, TRUE, k)), Wanted(start, TRUE, k), Way(TRUE))
<1>1. QueryInv /\ ChangeInv /\ view = {r \in Table : r \in query.where /\ AfterCursor(r)} /\ Table \subseteq Row
  BY ChangeIs DEF Inv, PageCorrect
<1>2. PICK m : m = Len(sort)
  OBVIOUS
<1>3. sort \in Order /\ m \in Nat /\ m \in 0..Len(sort) /\ Has(query.cursor, m)
  BY <1>1, <1>2, SortIs, ColumnIs, NamedIs
<1>4. start # NoStart /\ start.row = s /\ start.basis = "after"
  BY DEF NoStart
<1>5. ASSUME NEW r \in Row, AfterCursor(r) PROVE ~Precedes(r, s, m)
  <2>1. Has(r, m)
    BY <1>3, RowIs, RowHas
  <2>2. ~Precedes(r, query.cursor, m)
    <3>1. Precedes(query.cursor, r, m) => ~Precedes(r, query.cursor, m)
      BY <1>3, <2>1, PrecedesAsymmetric
    <3> QED BY <1>2, <1>5, <3>1 DEF AfterCursor
  <2> QED BY <1>2, <1>3, <2>2, PrecedesAgrees
<1>6. \A r : Passes(start, TRUE, m, r) <=> Precedes(r, s, m)
  BY <1>4 DEF Passes
<1>7. Wanted(start, TRUE, k) = {}
  BY <1>1, <1>2, <1>4, <1>5, <1>6 DEF Wanted
<1>8. Fetch(Request(start, TRUE, k)) = <<>>
  BY Zenon DEF Fetch
<1>9. Lists(<<>>, {}, Way(TRUE))
  BY DEF Lists, Sorted, Once
<1> QED BY <1>7, <1>8, <1>9

(* Every fetch from a row that downstream holds or has just lost.          *)
LEMMA FetchFromStart ==
    ASSUME Inv, UsualCursor(query), NEW s \in Row, AfterCursor(s), NEW basis, basis \in {"at", "after"},
           NEW reverse \in BOOLEAN, NEW k, NEW start, start = [row |-> s, basis |-> basis]
    PROVE  Lists(Fetch(Request(start, reverse, k)), Wanted(start, reverse, k), Way(reverse))
<1>1. QueryInv /\ sort \in Order /\ IsBound(query.cursor) /\ query.exclusive \in BOOLEAN /\ Len(sort) \in Nat
  BY SortIs, ColumnIs, QueryIs DEF Inv, QueryInv
<1>2. PICK req : req = Request(start, reverse, k)
  OBVIOUS
<1>3. req.start = start /\ req.reverse = reverse /\ start.row = s /\ start.basis = basis /\ start # NoStart
  BY <1>2 DEF Request, NoStart
<1>4. PICK c : c = MakeComparator(sort, FALSE, query.cursor, s)
  OBVIOUS
<1>5. /\ c \in {-1, 0, 1}
      /\ c < 0 <=> Precedes(Filled(query.cursor), s, Len(sort))
      /\ c > 0 <=> Precedes(s, Filled(query.cursor), Len(sort))
  <2>1. IsBound(s) /\ Filled(s) = s /\ sort \in Order /\ IsBound(query.cursor)
    BY <1>1, RowIs
  <2>2. /\ c \in {-1, 0, 1}
        /\ c < 0 <=> Precedes(Filled(query.cursor), Filled(s), Len(sort))
        /\ c > 0 <=> Precedes(Filled(s), Filled(query.cursor), Len(sort))
    BY <1>4, <2>1, ComparatorIs
  <2> QED BY <2>1, <2>2, Zenon
<1>6. ~ (c > 0)
  BY <1>1, <1>5, UsualIs
<1>7. \/ c < 0
      \/ Named = Len(sort) /\ Agrees(query.cursor, s, Len(sort)) /\ ~query.exclusive
  BY <1>1, <1>5, UsualIs
<1>8. CASE c < 0
  <2>1. getStart(req) = start
    BY <1>3, <1>4, <1>6, <1>8, Zenon DEF getStart
  <2>2. IsBound(s) /\ Names(s, Len(sort)) /\ Agrees(s, s, Len(sort))
    <3>1. IsBound(s) /\ DOMAIN s = Columns
      BY RowIs
    <3>2. \A i \in 1..Len(sort) : sort[i].field \in Columns
      BY <1>1, ColumnIs
    <3>3. Len(sort) \in 0..Len(sort) /\ ~ (Len(sort) < Len(sort))
      BY <1>1
    <3> QED BY <3>1, <3>2, <3>3 DEF Names, Agrees
  <2>3. [row |-> s, basis |-> basis] = getStart(Request(start, reverse, k))
    BY <1>2, <2>1
  <2> QED BY <2>2, <2>3, FetchFromRow
<1>9. CASE ~ (c < 0)
  <2>1. Named = Len(sort) /\ Agrees(query.cursor, s, Len(sort)) /\ query.exclusive = FALSE
    BY <1>1, <1>7, <1>9
  <2>2. PICK a : a = query.cursor
    OBVIOUS
  <2>3. IsBound(a) /\ Names(a, Len(sort)) /\ Agrees(s, a, Len(sort))
    <3>1. Agrees(s, a, Len(sort))
      BY <2>1, <2>2 DEF Agrees
    <3> QED BY <1>1, <2>1, <2>2, <3>1, NamedIs
  <2>4. BoundStart = [row |-> a, basis |-> "at"]
    BY <2>1, <2>2 DEF BoundStart, basisFromExclusive
  <2>5. [BoundStart EXCEPT !.basis = "after"] = [row |-> a, basis |-> "after"]
    BY <2>4
  <2>6. CASE ~reverse
    <3>1. getStart(req) = IF basis = "after" THEN [BoundStart EXCEPT !.basis = "after"] ELSE BoundStart
      BY <1>3, <1>4, <1>6, <1>9, <2>6, Zenon DEF getStart
    <3>2. [row |-> a, basis |-> basis] = getStart(Request(start, reverse, k))
      BY <1>2, <2>4, <2>5, <3>1
    <3> QED BY <2>3, <3>2, FetchFromRow
  <2>7. CASE reverse /\ basis = "at"
    <3>1. getStart(req) = BoundStart
      BY <1>3, <1>4, <1>6, <1>9, <2>1, <2>7, Zenon DEF getStart
    <3>2. [row |-> a, basis |-> basis] = getStart(Request(start, reverse, k))
      BY <1>2, <2>4, <2>7, <3>1
    <3> QED BY <2>3, <3>2, FetchFromRow
  <2>8. CASE reverse /\ basis = "after"
    <3>1. "after" # "at" /\ reverse = TRUE
      BY <2>8
    <3>2. getStart(req) = Empty
      BY <1>3, <1>4, <1>6, <1>9, <2>8, <3>1, Zenon DEF getStart
    <3>3. Empty = getStart(Request(start, TRUE, k)) /\ start = [row |-> s, basis |-> "after"]
      BY <1>2, <2>8, <3>1, <3>2
    <3>4. Lists(Fetch(Request(start, TRUE, k)), Wanted(start, TRUE, k), Way(TRUE))
      BY <2>1, <3>3, FetchFromFirst
    <3> QED BY <3>1, <3>4
  <2> QED BY <2>6, <2>7, <2>8
<1> QED BY <1>8, <1>9

(* The rows downstream may fetch from are of the page.                     *)
LEMMA StartsAre ==
    ASSUME Inv, NEW start \in Starts, start # NoStart
    PROVE  \E s \in Row, b \in {"at", "after"} : AfterCursor(s) /\ start = [row |-> s, basis |-> b]
<1>1. PICK s \in view \cup Lost, b \in {"at", "after"} : start = [row |-> s, basis |-> b]
  BY DEF Starts
<1>2. view = {r \in Table : r \in query.where /\ AfterCursor(r)} /\ query.where \subseteq Row
  BY QueryIs DEF Inv, PageCorrect, QueryInv
<1>3. s \in query.where /\ AfterCursor(s)
  BY <1>1, <1>2 DEF Lost
<1> QED BY <1>1, <1>2, <1>3

(* A fetch lists what it is to return.                                     *)
LEMMA FetchIs ==
    ASSUME Inv, UsualCursor(query), NEW start \in Starts, NEW reverse \in BOOLEAN, NEW k
    PROVE  Lists(Fetch(Request(start, reverse, k)), Wanted(start, reverse, k), Way(reverse))
<1>1. CASE start = NoStart /\ reverse = TRUE
  BY <1>1, FetchFromEnd
<1>2. CASE start = NoStart /\ reverse = FALSE
  BY <1>2, FetchFromCursor
<1>3. CASE start # NoStart
  <2>1. PICK s \in Row, b \in {"at", "after"} : AfterCursor(s) /\ start = [row |-> s, basis |-> b]
    BY <1>3, StartsAre
  <2> QED BY <2>1, FetchFromStart
<1> QED BY <1>1, <1>2, <1>3

(* The invariant says what every fetch returns.                            *)
LEMMA InvFetch == Inv /\ UsualCursor(query) => FetchAgrees
<1>1. SUFFICES ASSUME Inv, UsualCursor(query) PROVE FetchAgrees
  OBVIOUS
<1>2. QueryInv /\ ChangeInv /\ view = {r \in Table : r \in query.where /\ AfterCursor(r)}
  BY <1>1 DEF Inv, PageCorrect
<1>3. Table \in Tables /\ view \in SUBSET Table /\ view \subseteq Row
  <2>1. Table \in Tables
    BY <1>2, WriteIs DEF Table, ChangeInv
  <2> QED BY <1>2, <2>1 DEF Tables
<1>4. SUFFICES ASSUME NEW start \in Starts, NEW reverse \in BOOLEAN, NEW k \in Constraints
      PROVE  LET before(a, b) == IF reverse THEN Precedes(b, a, Len(sort)) ELSE Precedes(a, b, Len(sort))
                 wanted == {r \in view : /\ ConstraintMatchesRow(k, r)
                                         /\ start # NoStart => \/ before(start.row, r)
                                                               \/ start.basis = "at" /\ ~before(r, start.row)}
             IN  \A rows \in {Fetch(Request(start, reverse, k))} :
                     /\ ToSet(rows) = wanted
                     /\ \A i, j \in DOMAIN rows : i < j => before(rows[i], rows[j])
  BY Zenon DEF FetchAgrees, Request
<1>5. PICK rows : rows = Fetch(Request(start, reverse, k))
  OBVIOUS
<1> DEFINE before(a, b) == IF reverse THEN Precedes(b, a, Len(sort)) ELSE Precedes(a, b, Len(sort))
           wanted == {r \in view : /\ ConstraintMatchesRow(k, r)
                                   /\ start # NoStart => \/ before(start.row, r)
                                                         \/ start.basis = "at" /\ ~before(r, start.row)}
<1>6. Lists(rows, Wanted(start, reverse, k), Way(reverse))
  BY <1>1, <1>5, FetchIs
<1>7. ASSUME NEW r \in view, start # NoStart
      PROVE  Passes(start, reverse, Len(sort), r) <=> before(start.row, r) \/ (start.basis = "at" /\ ~before(r, start.row))
  <2>1. PICK s \in Row, b \in {"at", "after"} : AfterCursor(s) /\ start = [row |-> s, basis |-> b]
    BY <1>1, <1>7, StartsAre
  <2>2. start.row = s
    BY <2>1
  <2>3. ~ (Precedes(s, r, Len(sort)) /\ Precedes(r, s, Len(sort)))
    <3>1. sort \in Order /\ Len(sort) \in Nat /\ Len(sort) \in 0..Len(sort) /\ r \in Row
      BY <1>2, <1>3, SortIs, ColumnIs
    <3>2. Has(s, Len(sort)) /\ Has(r, Len(sort))
      BY <3>1, RowIs, RowHas
    <3> QED BY <3>1, <3>2, PrecedesAsymmetric
  <2> QED BY <2>2, <2>3, Zenon DEF Passes
<1>8. Wanted(start, reverse, k) = wanted
  <2> HIDE DEF before
  <2> QED BY <1>7 DEF Wanted
<1>9. ToSet(rows) = wanted
  BY <1>6, <1>8, ListsSet, Zenon
<1>10. ASSUME NEW i \in DOMAIN rows, NEW j \in DOMAIN rows, i < j PROVE before(rows[i], rows[j])
  <2>1. Wanted(start, reverse, k) \in SUBSET Table
    BY <1>3 DEF Wanted
  <2> QED BY <1>2, <1>3, <1>6, <1>10, <2>1, ListsStrict
<1> QED BY <1>5, <1>9, <1>10, Zenon

(* A fetch at any moment, also while a change is pushed that the table     *)
(* does not hold yet, returns the rows put out so far, from the start on,  *)
(* within the constraint and in the order asked for, if the connection's   *)
(* cursor is a usual one (Skip.Fetch, getStart, generateWithOverlay).      *)
THEOREM FetchStaysRight == Spec => [](UsualCursor(query) => FetchAgrees)
<1>1. Inv => (UsualCursor(query) => FetchAgrees)
  BY InvFetch
<1> QED BY <1>1, InvAlways, PTL
=============================================================================
