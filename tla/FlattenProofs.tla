---------------------------- MODULE FlattenProofs ---------------------------
(***************************************************************************)
(* Facts about the sequences of SequencesExt that the proofs about         *)
(* AdvanceStream and Skip rest on: SetToSeq lists a finite set once,       *)
(* FlattenSeq concatenates.  FlattenSeq is a recursive function, so the    *)
(* existence and the uniqueness of the solution come first.                *)
(***************************************************************************)
EXTENDS Integers, SequencesExt, FiniteSetTheorems, SequenceTheorems,
        NaturalsInduction, WellFoundedInduction, TLAPS

(* SetToSeq lists every element of a finite set once.                      *)
LEMMA SetToSeqIs ==
    ASSUME NEW S, IsFiniteSet(S)
    PROVE  /\ SetToSeq(S) \in Seq(S)
           /\ \A x \in S : \E i \in DOMAIN SetToSeq(S) : SetToSeq(S)[i] = x
           /\ \A i, j \in DOMAIN SetToSeq(S) : SetToSeq(S)[i] = SetToSeq(S)[j] => i = j
<1> DEFINE n == Cardinality(S)
<1>1. n \in Nat /\ ExistsBijection(1..n, S)
  BY FS_CardinalityType
<1>2. \E f \in [1..n -> S] : IsInjective(f)
  BY <1>1 DEF ExistsBijection, Bijection, Injection, IsInjective
<1> DEFINE f == SetToSeq(S)
<1>3. f \in [1..n -> S] /\ IsInjective(f)
  BY <1>2 DEF SetToSeq
<1> HIDE DEF f
<1>4. f \in Injection(1..n, S)
  BY <1>3 DEF Injection, IsInjective
<1>5. IsFiniteSet(1..n) /\ Cardinality(1..n) = n
  BY <1>1, FS_Interval
<1>6. f \in Surjection(1..n, S)
  BY <1>4, <1>5, FS_Injection
<1>7. f \in Seq(S) /\ DOMAIN f = 1..n
  BY <1>1, <1>3, IsASeq
<1> QED BY <1>3, <1>6, <1>7 DEF f, Surjection, IsInjective

(* A property that holds at 0 and is inherited by successors holds         *)
(* everywhere; the set is the property's extension.                        *)
LEMMA Induction ==
    ASSUME NEW P \in SUBSET Nat, 0 \in P, \A n \in Nat : n \in P => n + 1 \in P
    PROVE  P = Nat
<1>1. SUFFICES ASSUME Nat \ P # {} PROVE FALSE
  OBVIOUS
<1>2. \A a, b \in Nat : a < b => <<a, b>> \in OpToRel(<, Nat)
  BY DEF OpToRel
<1>3. PICK m \in Nat \ P : \A y \in Nat \ P : ~ (<<y, m>> \in OpToRel(<, Nat))
  BY <1>1, NatLessThanWellFounded, WFMin
<1>4. m # 0 /\ m - 1 \in Nat /\ m - 1 < m /\ (m - 1) + 1 = m
  OBVIOUS
<1>5. m - 1 \in P
  BY <1>2, <1>3, <1>4
<1> QED BY <1>4, <1>5

(* The recursion of FlattenSeq, and that it has one solution.              *)
Cat(s, t) == s \o t
Flat(f, s, n) ==
    /\ DOMAIN f = 1..n
    /\ \A i \in 1..n : f[i] = IF i = 1 THEN s[i] ELSE Cat(f[i - 1], s[i])

Agree(s, t, n) == \A i \in 1..n : s[i] = t[i]

(* The partial concatenations of a sequence of sequences exist.            *)
LEMMA FlatExists ==
    ASSUME NEW A, NEW s \in Seq(Seq(A))
    PROVE  \E f \in [1..Len(s) -> Seq(A)] : Flat(f, s, Len(s))
<1> DEFINE P == {n \in Nat : n <= Len(s) => \E f \in [1..n -> Seq(A)] : Flat(f, s, n)}
<1>1. 0 \in P
  <2>1. [i \in 1..0 |-> <<>>] \in [1..0 -> Seq(A)] /\ Flat([i \in 1..0 |-> <<>>], s, 0)
    BY DEF Flat
  <2> QED BY <2>1
<1>2. ASSUME NEW n \in Nat, n \in P PROVE n + 1 \in P
  <2>1. SUFFICES ASSUME n + 1 <= Len(s) PROVE \E f \in [1..(n + 1) -> Seq(A)] : Flat(f, s, n + 1)
    OBVIOUS
  <2>2. PICK f \in [1..n -> Seq(A)] : Flat(f, s, n)
    BY <1>2, <2>1
  <2>3. s[n + 1] \in Seq(A)
    BY <2>1
  <2>4. n > 0 => f[n] \in Seq(A) /\ Cat(f[n], s[n + 1]) \in Seq(A)
    BY <2>2, <2>3 DEF Cat
  <2> DEFINE last == IF n = 0 THEN s[1] ELSE Cat(f[n], s[n + 1])
             g == [i \in 1..(n + 1) |-> IF i <= n THEN f[i] ELSE last]
  <2>5. last \in Seq(A)
    BY <2>3, <2>4
  <2>6. g \in [1..(n + 1) -> Seq(A)]
    BY <2>2, <2>5
  <2>7. ASSUME NEW i \in 1..(n + 1) PROVE g[i] = IF i = 1 THEN s[i] ELSE Cat(g[i - 1], s[i])
    <3>1. CASE i <= n
      <4>1. f[i] = IF i = 1 THEN s[i] ELSE Cat(f[i - 1], s[i])
        BY <2>2, <3>1 DEF Flat
      <4>2. g[i] = f[i] /\ (i # 1 => g[i - 1] = f[i - 1])
        BY <3>1
      <4> QED BY <4>1, <4>2
    <3>2. CASE i = n + 1
      BY <3>2
    <3> QED BY <3>1, <3>2
  <2> QED BY <2>6, <2>7 DEF Flat
<1>3. P = Nat
  BY <1>1, <1>2, Induction
<1> QED BY <1>3

(* Two lists of partial concatenations agree as far as their sequences do. *)
LEMMA FlatUnique ==
    ASSUME NEW s, NEW t, NEW f, NEW g, NEW m \in Nat, NEW n \in Nat,
           Flat(f, s, m), Flat(g, t, n), n <= m, Agree(s, t, n)
    PROVE  Agree(f, g, n)
<1> DEFINE P == {k \in Nat : k \in 1..n => f[k] = g[k]}
<1>1. 0 \in P
  OBVIOUS
<1>2. ASSUME NEW k \in Nat, k \in P PROVE k + 1 \in P
  <2>1. SUFFICES ASSUME k + 1 \in 1..n PROVE f[k + 1] = g[k + 1]
    OBVIOUS
  <2>2. f[k + 1] = IF k + 1 = 1 THEN s[k + 1] ELSE Cat(f[k], s[k + 1])
    BY <2>1 DEF Flat
  <2>3. g[k + 1] = IF k + 1 = 1 THEN t[k + 1] ELSE Cat(g[k], t[k + 1])
    BY <2>1 DEF Flat
  <2>4. k # 0 => f[k] = g[k]
    BY <1>2, <2>1
  <2> QED BY <2>1, <2>2, <2>3, <2>4 DEF Agree
<1>3. P = Nat
  BY <1>1, <1>2, Induction
<1> QED BY <1>3 DEF Agree

(* FlattenSeq is the last of the partial concatenations.                   *)
LEMMA FlattenIs ==
    ASSUME NEW A, NEW s \in Seq(Seq(A))
    PROVE  /\ s = <<>> => FlattenSeq(s) = <<>>
           /\ s # <<>> => \E f \in [1..Len(s) -> Seq(A)] :
                            Flat(f, s, Len(s)) /\ FlattenSeq(s) = f[Len(s)]
<1>1. s = <<>> => FlattenSeq(s) = <<>>
  BY DEF FlattenSeq
<1>2. ASSUME s # <<>>
      PROVE  \E f \in [1..Len(s) -> Seq(A)] : Flat(f, s, Len(s)) /\ FlattenSeq(s) = f[Len(s)]
  <2> DEFINE flatten == CHOOSE f : f = [i \in 1..Len(s) |-> IF i = 1 THEN s[i] ELSE Cat(f[i - 1], s[i])]
  <2>1. Len(s) # 0
    BY <1>2
  <2>2. FlattenSeq(s) = flatten[Len(s)]
    BY <2>1 DEF FlattenSeq, Cat
  <2>3. PICK f \in [1..Len(s) -> Seq(A)] : Flat(f, s, Len(s))
    BY FlatExists
  <2>4. f = [i \in 1..Len(s) |-> IF i = 1 THEN s[i] ELSE Cat(f[i - 1], s[i])]
    BY <2>3 DEF Flat
  <2>5. flatten = [i \in 1..Len(s) |-> IF i = 1 THEN s[i] ELSE Cat(flatten[i - 1], s[i])]
    BY <2>4
  <2> HIDE DEF flatten
  <2>6. Flat(flatten, s, Len(s))
    BY <2>5 DEF Flat
  <2>7. \A i \in 1..Len(s) : flatten[i] = f[i]
    <3>1. Agree(s, s, Len(s)) /\ Len(s) \in Nat
      BY DEF Agree
    <3>2. Agree(flatten, f, Len(s))
      BY <2>3, <2>6, <3>1, FlatUnique
    <3> QED BY <3>2 DEF Agree
  <2>8. flatten \in [1..Len(s) -> Seq(A)]
    BY <2>3, <2>5, <2>7
  <2> QED BY <2>2, <2>6, <2>8
<1> QED BY <1>1, <1>2

(* FlattenSeq of sequences over A is a sequence over A.                    *)
LEMMA FlattenType ==
    ASSUME NEW A, NEW s \in Seq(Seq(A))
    PROVE  FlattenSeq(s) \in Seq(A) /\ FlattenSeq(<<>>) = <<>>
<1>1. CASE s = <<>>
  <2>1. FlattenSeq(s) = <<>>
    BY <1>1, FlattenIs, Zenon
  <2>2. <<>> \in Seq(A)
    OBVIOUS
  <2> QED BY <1>1, <2>1, <2>2, Zenon
<1>2. CASE s # <<>>
  <2>1. Len(s) \in 1..Len(s)
    BY <1>2
  <2>2. FlattenSeq(s) \in Seq(A)
    BY <1>2, <2>1, FlattenIs
  <2>3. <<>> \in Seq(Seq(A))
    OBVIOUS
  <2>4. FlattenSeq(<<>>) = <<>>
    BY <2>3, FlattenIs
  <2> QED BY <2>2, <2>4
<1> QED BY <1>1, <1>2

(* One more element adds its own elements at the end.                      *)
LEMMA FlattenLonger ==
    ASSUME NEW A, NEW s \in Seq(Seq(A)), NEW t \in Seq(Seq(A)), NEW n \in Nat,
           Len(s) = n, Len(t) = n + 1, \A i \in 1..n : t[i] = s[i]
    PROVE  FlattenSeq(s) \in Seq(A) /\ FlattenSeq(t) = Cat(FlattenSeq(s), t[n + 1])
<1>1. t # <<>> /\ (n # 0 => s # <<>>) /\ (n = 0 => s = <<>>)
  OBVIOUS
<1>2. PICK g \in [1..Len(t) -> Seq(A)] : Flat(g, t, Len(t)) /\ FlattenSeq(t) = g[Len(t)]
  BY <1>1, FlattenIs
<1>3. CASE n = 0
  <2>1. FlattenSeq(s) = <<>>
    BY <1>1, <1>3, FlattenIs
  <2>2. g[1] = t[1] /\ t[1] \in Seq(A)
    BY <1>2, <1>3 DEF Flat
  <2>3. Cat(<<>>, t[1]) = t[1]
    BY <2>2 DEF Cat
  <2> QED BY <1>2, <1>3, <2>1, <2>2, <2>3
<1>4. CASE n # 0
  <2>1. PICK f \in [1..Len(s) -> Seq(A)] : Flat(f, s, Len(s)) /\ FlattenSeq(s) = f[Len(s)]
    BY <1>1, <1>4, FlattenIs
  <2>2. \A i \in 1..n : g[i] = f[i]
    <3>1. Flat(g, t, n + 1) /\ Flat(f, s, n) /\ n <= n + 1 /\ n + 1 \in Nat
      BY <1>2, <2>1
    <3>2. Agree(t, s, n)
      BY DEF Agree
    <3>3. Agree(g, f, n)
      BY <3>1, <3>2, FlatUnique
    <3> QED BY <3>3 DEF Agree
  <2>3. g[n + 1] = Cat(g[n], t[n + 1])
    <3>1. n + 1 \in 1..Len(t) /\ n + 1 # 1 /\ (n + 1) - 1 = n
      BY <1>4
    <3> QED BY <1>2, <3>1 DEF Flat
  <2> QED BY <1>2, <1>4, <2>1, <2>2, <2>3
<1> QED BY <1>3, <1>4

(* Flattening a sequence and one more is flattening it and concatenating.  *)
LEMMA FlattenAppend ==
    ASSUME NEW A, NEW s \in Seq(Seq(A)), NEW x \in Seq(A)
    PROVE  FlattenSeq(s) \in Seq(A) /\ FlattenSeq(Append(s, x)) = FlattenSeq(s) \o x
<1>1. /\ Append(s, x) \in Seq(Seq(A)) /\ Len(Append(s, x)) = Len(s) + 1
      /\ \A i \in 1..Len(s) : Append(s, x)[i] = s[i]
      /\ Append(s, x)[Len(s) + 1] = x
  BY AppendProperties
<1>2. Len(s) \in Nat
  BY LenProperties
<1> DEFINE t == Append(s, x)
<1> HIDE DEF t
<1>3. FlattenSeq(s) \in Seq(A) /\ FlattenSeq(t) = Cat(FlattenSeq(s), t[Len(s) + 1])
  BY <1>1, <1>2, FlattenLonger DEF t
<1> QED BY <1>1, <1>3 DEF t, Cat

(* Flattening commutes with concatenation.                                 *)
LEMMA FlattenConcat ==
    ASSUME NEW A, NEW s \in Seq(Seq(A)), NEW t \in Seq(Seq(A))
    PROVE  FlattenSeq(s \o t) = FlattenSeq(s) \o FlattenSeq(t)
<1> DEFINE P == {n \in Nat : n <= Len(t) =>
                   FlattenSeq(s \o SubSeq(t, 1, n)) = FlattenSeq(s) \o FlattenSeq(SubSeq(t, 1, n))}
<1>1. FlattenSeq(s) \in Seq(A) /\ FlattenSeq(<<>>) = <<>>
  BY FlattenType
<1>2. 0 \in P
  <2>1. SubSeq(t, 1, 0) = <<>> /\ s \o <<>> = s
    OBVIOUS
  <2>2. FlattenSeq(s) \o <<>> = FlattenSeq(s)
    BY <1>1, ConcatEmptySeq
  <2>3. FlattenSeq(s \o SubSeq(t, 1, 0)) = FlattenSeq(s) \o FlattenSeq(SubSeq(t, 1, 0))
    BY <1>1, <2>1, <2>2, Zenon
  <2> QED BY <2>3
<1>3. ASSUME NEW n \in Nat, n \in P PROVE n + 1 \in P
  <2>1. SUFFICES ASSUME n + 1 <= Len(t)
                 PROVE  FlattenSeq(s \o SubSeq(t, 1, n + 1)) = FlattenSeq(s) \o FlattenSeq(SubSeq(t, 1, n + 1))
    OBVIOUS
  <2> DEFINE u == SubSeq(t, 1, n)
  <2>2. u \in Seq(Seq(A)) /\ t[n + 1] \in Seq(A) /\ SubSeq(t, 1, n + 1) = Append(u, t[n + 1])
    BY <2>1
  <2>3. s \o u \in Seq(Seq(A)) /\ s \o Append(u, t[n + 1]) = Append(s \o u, t[n + 1])
    BY <2>2, SMTT(30)
  <2>4. FlattenSeq(s \o u) = FlattenSeq(s) \o FlattenSeq(u)
    BY <1>3, <2>1
  <2> HIDE DEF u
  <2>5. FlattenSeq(s \o Append(u, t[n + 1])) = (FlattenSeq(s) \o FlattenSeq(u)) \o t[n + 1]
    <3>1. FlattenSeq(Append(s \o u, t[n + 1])) = FlattenSeq(s \o u) \o t[n + 1]
      BY <2>2, <2>3, FlattenAppend, Zenon
    <3> QED BY <2>3, <2>4, <3>1, Zenon
  <2>6. FlattenSeq(Append(u, t[n + 1])) = FlattenSeq(u) \o t[n + 1] /\ FlattenSeq(u) \in Seq(A)
    BY <2>2, FlattenAppend
  <2>7. (FlattenSeq(s) \o FlattenSeq(u)) \o t[n + 1] = FlattenSeq(s) \o (FlattenSeq(u) \o t[n + 1])
    <3>1. \A a, b, c \in Seq(A) : (a \o b) \o c = a \o (b \o c)
      OBVIOUS
    <3> QED BY <1>1, <2>2, <2>6, <3>1, Zenon
  <2> QED BY <2>2, <2>5, <2>6, <2>7
<1>4. P = Nat
  BY <1>2, <1>3, Induction
<1>5. Len(t) \in Nat /\ SubSeq(t, 1, Len(t)) = t
  OBVIOUS
<1> HIDE DEF P
<1>6. Len(t) \in P
  BY <1>4, <1>5
<1>7. FlattenSeq(s \o SubSeq(t, 1, Len(t))) = FlattenSeq(s) \o FlattenSeq(SubSeq(t, 1, Len(t)))
  BY <1>5, <1>6 DEF P
<1> QED BY <1>5, <1>7, Zenon

(* The length and the elements of a concatenation.                         *)
LEMMA ConcatIs ==
    ASSUME NEW A, NEW s \in Seq(A), NEW t \in Seq(A)
    PROVE  /\ s \o t \in Seq(A) /\ Len(s \o t) = Len(s) + Len(t)
           /\ DOMAIN s = 1..Len(s) /\ DOMAIN t = 1..Len(t)
           /\ DOMAIN (s \o t) = 1..(Len(s) + Len(t))
           /\ \A i \in DOMAIN s : i \in DOMAIN (s \o t) /\ (s \o t)[i] = s[i]
           /\ \A i \in DOMAIN t : Len(s) + i \in DOMAIN (s \o t) /\ (s \o t)[Len(s) + i] = t[i]
           /\ \A i \in DOMAIN (s \o t) : i \in DOMAIN s \/ (i > Len(s) /\ i - Len(s) \in DOMAIN t)
           /\ Len(s) \in Nat /\ Len(t) \in Nat
  OBVIOUS

(* A prefix of a concatenation that ends in its second part.               *)
LEMMA PrefixOfConcat ==
    ASSUME NEW A, NEW s \in Seq(A), NEW t \in Seq(A), NEW k \in 0..Len(t)
    PROVE  SubSeq(s \o t, 1, Len(s) + k) = s \o SubSeq(t, 1, k)
<1>4. Len(s) \in Nat /\ Len(t) \in Nat /\ k \in Nat /\ k <= Len(t)
  OBVIOUS
<1>10. PICK r : r = SubSeq(t, 1, k)
  OBVIOUS
<1>1. r \in Seq(A) /\ Len(r) = k /\ \A i \in 1..k : r[i] = t[i]
  BY <1>10
<1>11. PICK u : u = s \o t
  OBVIOUS
<1>2. /\ u \in Seq(A) /\ Len(u) = Len(s) + Len(t)
      /\ \A i \in 1..Len(s) : u[i] = s[i]
      /\ \A i \in 1..Len(t) : u[Len(s) + i] = t[i]
  BY <1>11, ConcatIs
<1>12. PICK v : v = s \o r
  OBVIOUS
<1>3. /\ v \in Seq(A) /\ Len(v) = Len(s) + Len(r)
      /\ \A i \in 1..Len(s) : v[i] = s[i]
      /\ \A i \in 1..Len(r) : v[Len(s) + i] = r[i]
  <2>1. r \in Seq(A)
    BY <1>1
  <2> QED BY <2>1, <1>12, ConcatIs
<1>13. PICK p : p = SubSeq(u, 1, Len(s) + k)
  OBVIOUS
<1>5. /\ p \in Seq(A) /\ Len(p) = Len(s) + k
      /\ \A i \in 1..(Len(s) + k) : p[i] = u[i]
  BY <1>2, <1>4, <1>13
<1>6. ASSUME NEW i \in 1..(Len(s) + k) PROVE p[i] = v[i]
  <2>1. CASE i <= Len(s)
    BY <1>2, <1>3, <1>4, <1>5, <2>1
  <2>2. CASE i > Len(s)
    <3>1. PICK j \in 1..k : j \in 1..Len(t) /\ i = Len(s) + j
      BY <1>4, <2>2
    <3>2. p[i] = t[j]
      BY <1>2, <1>5, <3>1
    <3>3. v[i] = t[j]
      BY <1>1, <1>3, <3>1
    <3> QED BY <3>2, <3>3
  <2> QED BY <1>4, <2>1, <2>2
<1>7. Len(p) = Len(v) /\ \A i \in 1..Len(p) : p[i] = v[i]
  BY <1>1, <1>3, <1>5, <1>6
<1>8. p = v
  BY <1>3, <1>5, <1>7, SeqEqual
<1> QED BY <1>8, <1>10, <1>11, <1>12, <1>13

(* The domain and the elements of Append.                                  *)
LEMMA AppendIs ==
    ASSUME NEW A, NEW s \in Seq(A), NEW x \in A, NEW t, t = Append(s, x)
    PROVE  /\ t \in Seq(A) /\ Len(t) = Len(s) + 1 /\ Len(s) \in Nat
           /\ DOMAIN s = 1..Len(s) /\ DOMAIN t = 1..Len(t) /\ Len(t) \in DOMAIN t /\ t[Len(t)] = x
           /\ \A i \in DOMAIN s : i \in DOMAIN t /\ t[i] = s[i] /\ i < Len(t)
           /\ \A i \in DOMAIN t : i \in DOMAIN s \/ i = Len(t)
  OBVIOUS

(* The domain and the elements of Tail.                                    *)
LEMMA TailIs ==
    ASSUME NEW A, NEW s \in Seq(A), s # <<>>, NEW t, t = Tail(s)
    PROVE  /\ t \in Seq(A) /\ Len(t) = Len(s) - 1 /\ Len(s) \in Nat /\ Len(s) >= 1
           /\ DOMAIN s = 1..Len(s) /\ DOMAIN t = 1..Len(t)
           /\ 1 \in DOMAIN s /\ Head(s) = s[1] /\ s[1] \in A
           /\ \A i \in DOMAIN t : i \in Nat /\ i + 1 \in DOMAIN s /\ t[i] = s[i + 1]
           /\ \A i \in DOMAIN s : i = 1 \/ (i - 1 \in DOMAIN t /\ t[i - 1] = s[i])
  OBVIOUS

(* A part of a sequence depends on its own elements alone.                 *)
LEMMA SubSeqSame ==
    ASSUME NEW A, NEW a \in Seq(A), NEW b \in Seq(A), NEW v \in Nat, NEW w \in Int, v >= 1,
           \A i \in v..w : i \in DOMAIN a /\ i \in DOMAIN b /\ a[i] = b[i]
    PROVE  SubSeq(a, v, w) = SubSeq(b, v, w)
<1>1. SubSeq(a, v, w) = [i \in 1..(1 + w - v) |-> a[i + v - 1]]
  OBVIOUS
<1>2. SubSeq(b, v, w) = [i \in 1..(1 + w - v) |-> b[i + v - 1]]
  OBVIOUS
<1>3. \A i \in 1..(1 + w - v) : i + v - 1 \in v..w
  OBVIOUS
<1>4. \A i \in 1..(1 + w - v) : a[i + v - 1] = b[i + v - 1]
  BY <1>3
<1> QED BY <1>1, <1>2, <1>4
=============================================================================
