------------------------ MODULE AdvanceStreamLemmas -------------------------
(***************************************************************************)
(* Facts about the operators of AdvanceStream, for every table, query and  *)
(* change: what Apply makes of a sequence of row changes, what one source  *)
(* change puts out, that the source changes of a list of snapshot changes  *)
(* lead from one version to another (Path), what a hydration sends.        *)
(***************************************************************************)
EXTENDS AdvanceStream, FlattenProofs

-----------------------------------------------------------------------------
(* Applying row changes.                                                   *)

Rows(S, q) == {r \in S : r.val \in Where[q]}
SourceChange ==
    {sc \in [type: {"add", "remove", "edit"}, row: Row, old: Row \cup {NoRow}] :
        sc.type = "edit" => sc.old \in Row /\ sc.old.key = sc.row.key}
RowChangeOf == [type: {"add", "remove", "edit"}, query: Query, row: Row]

ApplyOne(rows, c) ==
    {r \in rows : r.key # c.row.key} \cup (IF c.type = "remove" THEN {} ELSE {c.row})

(* No changes leave the rows as they are.                                  *)
LEMMA ApplyNothing ==
    ASSUME NEW q, NEW rows
    PROVE  Apply(q, rows, <<>>) = rows
  BY DEF Apply

(* Changes of other queries do not count.                                  *)
LEMMA ApplyOthers ==
    ASSUME NEW q, NEW rows, NEW s \in Seq(RowChangeOf), NEW t \in Seq(RowChangeOf),
           \A i \in DOMAIN t : t[i].query # q
    PROVE  Apply(q, rows, s \o t) = Apply(q, rows, s)
<1> DEFINE u == s \o t
<1>1. /\ DOMAIN s = 1..Len(s) /\ DOMAIN t = 1..Len(t) /\ DOMAIN u = 1..(Len(s) + Len(t))
      /\ \A i \in DOMAIN s : i \in DOMAIN u /\ u[i] = s[i]
      /\ \A i \in DOMAIN t : Len(s) + i \in DOMAIN u /\ u[Len(s) + i] = t[i]
      /\ \A i \in DOMAIN u : i \in DOMAIN s \/ (i > Len(s) /\ i - Len(s) \in DOMAIN t)
      /\ Len(s) \in Nat /\ Len(t) \in Nat
  BY ConcatIs
<1> HIDE DEF u
<1>2. \A i \in DOMAIN u : i \in DOMAIN s \/ u[i].query # q
  <2> TAKE i \in DOMAIN u
  <2>1. CASE i > Len(s) /\ i - Len(s) \in DOMAIN t
    <3>1. Len(s) + (i - Len(s)) = i
      BY <1>1, <2>1
    <3>2. u[i] = t[i - Len(s)]
      BY <1>1, <2>1, <3>1
    <3> QED BY <2>1, <3>2
  <2> QED BY <1>1, <2>1
<1>3. \A r : (\A i \in DOMAIN u : ~Touches(u[i], q, r)) <=> (\A i \in DOMAIN s : ~Touches(s[i], q, r))
  BY <1>1, <1>2 DEF Touches
<1>4. \A r : \A i \in DOMAIN s : (\A j \in DOMAIN u : j > i => ~Touches(u[j], q, r))
                              <=> (\A j \in DOMAIN s : j > i => ~Touches(s[j], q, r))
  BY <1>1, <1>2 DEF Touches
<1>5. {i \in DOMAIN u : /\ u[i].query = q /\ u[i].type # "remove"
                        /\ \A j \in DOMAIN u : j > i => ~Touches(u[j], q, u[i].row)}
      = {i \in DOMAIN s : /\ s[i].query = q /\ s[i].type # "remove"
                          /\ \A j \in DOMAIN s : j > i => ~Touches(s[j], q, s[i].row)}
  BY <1>1, <1>2, <1>4
<1>6. {u[i].row : i \in {i \in DOMAIN u : /\ u[i].query = q /\ u[i].type # "remove"
                        /\ \A j \in DOMAIN u : j > i => ~Touches(u[j], q, u[i].row)}}
      = {s[i].row : i \in {i \in DOMAIN s : /\ s[i].query = q /\ s[i].type # "remove"
                          /\ \A j \in DOMAIN s : j > i => ~Touches(s[j], q, s[i].row)}}
  BY <1>1, <1>5
<1> QED BY <1>3, <1>6 DEF Apply, u

(* Of several changes of which one is for the query only that one counts.  *)
LEMMA ApplyLast ==
    ASSUME NEW q, NEW rows, NEW s \in Seq(RowChangeOf), NEW t \in Seq(RowChangeOf),
           NEW k \in DOMAIN t, t[k].query = q, \A i \in DOMAIN t : t[i].query = q => i = k
    PROVE  Apply(q, rows, s \o t) = ApplyOne(Apply(q, rows, s), t[k])
<1> DEFINE u == s \o t
           n == Len(s) + k
<1>1. /\ DOMAIN s = 1..Len(s) /\ DOMAIN t = 1..Len(t) /\ DOMAIN u = 1..(Len(s) + Len(t))
      /\ \A i \in DOMAIN s : i \in DOMAIN u /\ u[i] = s[i]
      /\ \A i \in DOMAIN t : Len(s) + i \in DOMAIN u /\ u[Len(s) + i] = t[i]
      /\ \A i \in DOMAIN u : i \in DOMAIN s \/ (i > Len(s) /\ i - Len(s) \in DOMAIN t)
      /\ Len(s) \in Nat /\ Len(t) \in Nat
  BY ConcatIs
<1> HIDE DEF u
<1>2. n \in DOMAIN u /\ u[n] = t[k] /\ \A i \in DOMAIN s : i < n
  BY <1>1
<1>3. \A i \in DOMAIN u : i \in DOMAIN s \/ i = n \/ u[i].query # q
  <2> TAKE i \in DOMAIN u
  <2>1. CASE i > Len(s) /\ i - Len(s) \in DOMAIN t
    <3>1. Len(s) + (i - Len(s)) = i
      BY <1>1, <2>1
    <3>2. u[i] = t[i - Len(s)]
      BY <1>1, <2>1, <3>1
    <3>3. i - Len(s) = k => i = n
      BY <1>1, <3>1
    <3> QED BY <2>1, <3>2, <3>3
  <2> QED BY <1>1, <2>1
<1> HIDE DEF n
<1>4. n \notin DOMAIN s
  BY <1>2
<1> DEFINE Wins(v) == {i \in DOMAIN v : /\ v[i].query = q /\ v[i].type # "remove"
                                        /\ \A j \in DOMAIN v : j > i => ~Touches(v[j], q, v[i].row)}
<1>5. \A r : (\A i \in DOMAIN u : ~Touches(u[i], q, r))
             <=> (r.key # t[k].row.key /\ \A i \in DOMAIN s : ~Touches(s[i], q, r))
  BY <1>1, <1>2, <1>3 DEF Touches
<1>6. n \in Wins(u) <=> t[k].type # "remove"
  <2>1. \A j \in DOMAIN u : j > n => ~Touches(u[j], q, u[n].row)
    <3> TAKE j \in DOMAIN u
    <3>1. j > n => j \notin DOMAIN s
      BY <1>1, <1>2
    <3> QED BY <1>1, <1>2, <1>3, <3>1 DEF Touches
  <2> QED BY <1>2, <2>1
<1>7. ASSUME NEW i \in DOMAIN s
      PROVE  i \in Wins(u) <=> i \in Wins(s) /\ s[i].row.key # t[k].row.key
  <2>1. i \in DOMAIN u /\ u[i] = s[i] /\ i < n
    BY <1>1, <1>2
  <2>2. Touches(u[n], q, s[i].row) <=> s[i].row.key = t[k].row.key
    BY <1>2 DEF Touches
  <2>3. \A j \in DOMAIN u : j \in DOMAIN s \/ j = n \/ ~Touches(u[j], q, s[i].row)
    BY <1>3 DEF Touches
  <2>4. (\A j \in DOMAIN u : j > i => ~Touches(u[j], q, s[i].row))
        <=> (s[i].row.key # t[k].row.key /\ \A j \in DOMAIN s : j > i => ~Touches(s[j], q, s[i].row))
    BY <1>1, <1>2, <2>1, <2>2, <2>3
  <2> QED BY <2>1, <2>4
<1>8. \A i \in Wins(u) : i \in DOMAIN s \/ i = n
  BY <1>3
<1> DEFINE Left(v) == {r \in rows : \A i \in DOMAIN v : ~Touches(v[i], q, r)}
           Set(v) == {v[i].row : i \in Wins(v)}
<1>9. Apply(q, rows, u) = Left(u) \cup Set(u) /\ Apply(q, rows, s) = Left(s) \cup Set(s)
  BY DEF Apply
<1>10. Left(u) = {r \in Left(s) : r.key # t[k].row.key}
  BY <1>5
<1>11. Set(u) = {r \in Set(s) : r.key # t[k].row.key} \cup (IF t[k].type = "remove" THEN {} ELSE {t[k].row})
  <2> HIDE DEF Wins
  <2>1. \A i \in Wins(s) : i \in DOMAIN s
    BY DEF Wins
  <2>2. ASSUME NEW r \in Set(u)
        PROVE  (r \in Set(s) /\ r.key # t[k].row.key) \/ (t[k].type # "remove" /\ r = t[k].row)
    <3>1. PICK i \in Wins(u) : r = u[i].row
      OBVIOUS
    <3> QED BY <1>1, <1>2, <1>6, <1>7, <1>8, <3>1
  <2>3. ASSUME NEW r \in Set(s), r.key # t[k].row.key PROVE r \in Set(u)
    <3>1. PICK i \in Wins(s) : r = s[i].row
      OBVIOUS
    <3> QED BY <1>1, <1>7, <2>1, <2>3, <3>1
  <2>4. t[k].type # "remove" => t[k].row \in Set(u)
    BY <1>2, <1>6
  <2> HIDE DEF Set
  <2> QED BY <2>2, <2>3, <2>4
<1> HIDE DEF Left, Set
<1> QED BY <1>9, <1>10, <1>11 DEF ApplyOne, u

-----------------------------------------------------------------------------
(* One source change.                                                      *)

UniqueKeys(S) == S \in SUBSET Row /\ \A r, s \in S : r.key = s.key => r = s

(* The change the table admits, exactly as it is.                          *)
Allowed(S, sc) ==
    /\ sc.type = "add" => ~has(S, sc.row)
    /\ sc.type = "remove" => sc.row \in S
    /\ sc.type = "edit" => sc.old \in S

(* NoRow, the absent row, is not a row: its key 0 is no key.               *)
LEMMA NoRowIsNone == NoRow \notin Row
  BY AdvanceStreamAssumption DEF Row, NoRow

(* FilterPush puts out at most one row change, of the query itself.        *)
LEMMA RowChangesIs ==
    ASSUME NEW q \in Query, NEW sc \in SourceChange, NEW c \in RowChanges(q, sc)
    PROVE  c \in RowChangeOf /\ c.query = q /\ RowChanges(q, sc) = {c}
<1>1. sc.type = "add" \/ sc.type = "remove" \/ sc.type = "edit"
  BY DEF SourceChange
<1>2. sc.row \in Row /\ (sc.type = "edit" => sc.old \in Row)
  BY DEF SourceChange
<1>3. \A type \in {"add", "remove", "edit"}, r \in Row : RowChange(type, q, r) \in RowChangeOf
       /\ RowChange(type, q, r).query = q
  BY DEF RowChange, RowChangeOf
<1>4. CASE sc.type # "edit"
  BY <1>1, <1>2, <1>3, <1>4 DEF RowChanges
<1>5. CASE sc.type = "edit"
  BY <1>2, <1>3, <1>5 DEF RowChanges
<1> QED BY <1>4, <1>5

(* A source change that fits the table exactly passes the checks of        *)
(* MemorySource.genPush.                                                   *)
LEMMA AllowedNoDrift ==
    ASSUME NEW S \in SUBSET Row, NEW sc \in SourceChange, Allowed(S, sc)
    PROVE  ~Drifted(S, sc)
  BY DEF Allowed, Drifted, has, SourceChange

(* The table after the change, seen by a query that the change does not    *)
(* concern, and by one that it does.                                       *)
LEMMA WriteUnseen ==
    ASSUME NEW S, UniqueKeys(S), NEW sc \in SourceChange, Allowed(S, sc), NEW q \in Query,
           RowChanges(q, sc) = {}
    PROVE  Rows(writeChange(S, sc), q) = Rows(S, q)
<1>1. sc.row \in Row /\ (sc.type = "edit" => sc.old \in Row /\ sc.old # NoRow /\ sc.old.key = sc.row.key)
  BY NoRowIsNone DEF SourceChange
<1>2. CASE sc.type = "add"
  <2>1. sc.row.val \notin Where[q]
    BY <1>2 DEF RowChanges
  <2> QED BY <1>2, <2>1 DEF writeChange, Rows
<1>3. CASE sc.type = "remove"
  <2>1. sc.row.val \notin Where[q]
    BY <1>3 DEF RowChanges
  <2> QED BY <1>3, <2>1 DEF writeChange, Rows, Allowed, UniqueKeys
<1>4. CASE sc.type = "edit"
  <2>1. sc.row.val \notin Where[q] /\ sc.old.val \notin Where[q]
    BY <1>1, <1>4 DEF RowChanges
  <2> QED BY <1>4, <2>1 DEF writeChange, Rows, Allowed, UniqueKeys
<1> QED BY <1>2, <1>3, <1>4 DEF SourceChange

(* A query sees the row change it is sent: applied to its old rows it      *)
(* gives the new ones, and it finds the row it is about, or none if it is  *)
(* an add.                                                                 *)
LEMMA WriteSeen ==
    ASSUME NEW S, UniqueKeys(S), NEW sc \in SourceChange, Allowed(S, sc), NEW q \in Query,
           NEW c \in RowChanges(q, sc)
    PROVE  /\ Rows(writeChange(S, sc), q) = ApplyOne(Rows(S, q), c)
           /\ has(Rows(S, q), c.row) <=> c.type # "add"
<1>1. sc.row \in Row /\ (sc.type = "edit" => sc.old \in Row /\ sc.old # NoRow /\ sc.old.key = sc.row.key)
  BY NoRowIsNone DEF SourceChange
<1>2. CASE sc.type = "add"
  <2>1. sc.row.val \in Where[q] /\ c = RowChange("add", q, sc.row)
    BY <1>2 DEF RowChanges
  <2>2. c.row = sc.row /\ c.type = "add"
    BY <2>1 DEF RowChange
  <2> QED BY <1>2, <2>1, <2>2 DEF writeChange, Rows, ApplyOne, Allowed, has
<1>3. CASE sc.type = "remove"
  <2>1. sc.row.val \in Where[q] /\ c = RowChange("remove", q, sc.row)
    BY <1>3 DEF RowChanges
  <2>2. c.row = sc.row /\ c.type = "remove"
    BY <2>1 DEF RowChange
  <2> QED BY <1>3, <2>1, <2>2 DEF writeChange, Rows, ApplyOne, Allowed, has
<1>4. CASE sc.type = "edit"
  <2>1. CASE sc.old.val \in Where[q] /\ sc.row.val \in Where[q]
    <3>1. c = RowChange("edit", q, sc.row)
      BY <1>1, <1>4, <2>1 DEF RowChanges
    <3>2. c.row = sc.row /\ c.type = "edit"
      BY <3>1 DEF RowChange
    <3> QED BY <1>1, <1>4, <2>1, <3>2 DEF writeChange, Rows, ApplyOne, Allowed, has
  <2>2. CASE sc.old.val \in Where[q] /\ sc.row.val \notin Where[q]
    <3>1. c = RowChange("remove", q, sc.old)
      BY <1>1, <1>4, <2>2 DEF RowChanges
    <3>2. c.row = sc.old /\ c.type = "remove"
      BY <3>1 DEF RowChange
    <3> QED BY <1>1, <1>4, <2>2, <3>2 DEF writeChange, Rows, ApplyOne, Allowed, has
  <2>3. CASE sc.old.val \notin Where[q] /\ sc.row.val \in Where[q]
    <3>1. c = RowChange("add", q, sc.row)
      BY <1>1, <1>4, <2>3 DEF RowChanges
    <3>2. c.row = sc.row /\ c.type = "add"
      BY <3>1 DEF RowChange
    <3>3. \A r \in S : r.key = sc.row.key => r = sc.old
      BY <1>1, <1>4 DEF UniqueKeys, Allowed
    <3> QED BY <1>1, <1>4, <2>3, <3>2, <3>3 DEF writeChange, Rows, ApplyOne, Allowed, has, UniqueKeys
  <2>4. CASE sc.old.val \notin Where[q] /\ sc.row.val \notin Where[q]
    BY <1>1, <1>4, <2>4 DEF RowChanges
  <2> QED BY <2>1, <2>2, <2>3, <2>4
<1> QED BY <1>2, <1>3, <1>4 DEF SourceChange

(* What a push puts out: for each query of S its change, once.             *)
LEMMA OutputIs ==
    ASSUME NEW S \in SUBSET Query, NEW sc \in SourceChange
    PROVE  /\ Output(S, sc) \in Seq(RowChangeOf)
           /\ \A q \in S : \A c \in RowChanges(q, sc) : \E k \in DOMAIN Output(S, sc) : Output(S, sc)[k] = c
           /\ \A k \in DOMAIN Output(S, sc) :
                /\ Output(S, sc)[k].query \in S
                /\ Output(S, sc)[k] \in RowChanges(Output(S, sc)[k].query, sc)
           /\ \A j, k \in DOMAIN Output(S, sc) : Output(S, sc)[j].query = Output(S, sc)[k].query => j = k
<1> DEFINE O == UNION {RowChanges(q, sc) : q \in S}
<1>1. \A c \in O : c \in RowChangeOf /\ c.query \in S /\ RowChanges(c.query, sc) = {c}
  <2> TAKE c \in O
  <2>1. PICK q \in S : c \in RowChanges(q, sc)
    OBVIOUS
  <2> QED BY <2>1, RowChangesIs
<1> DEFINE f == [c \in O |-> c.query]
<1>2. f \in Injection(O, S)
  <2>1. f \in [O -> S]
    BY <1>1
  <2>2. \A a, b \in O : a.query = b.query => a = b
    BY <1>1
  <2> QED BY <2>1, <2>2 DEF Injection, IsInjective
<1>3. IsFiniteSet(S)
  BY AdvanceStreamAssumption, FS_Subset
<1>4. IsFiniteSet(O)
  BY <1>2, <1>3, FS_Injection
<1>5. Output(S, sc) = SetToSeq(O)
  BY DEF Output
<1>6. \A q \in S : \A c \in RowChanges(q, sc) : c \in O
  OBVIOUS
<1> HIDE DEF O
<1> DEFINE s == SetToSeq(O)
<1>7. /\ s \in Seq(O)
      /\ \A x \in O : \E i \in DOMAIN s : s[i] = x
      /\ \A i, j \in DOMAIN s : s[i] = s[j] => i = j
  BY <1>4, SetToSeqIs
<1> HIDE DEF s
<1>8. \A i \in DOMAIN s : s[i] \in O
  BY <1>7
<1>9. s \in Seq(RowChangeOf)
  BY <1>1, <1>7, SeqMonotonic
<1>10. \A j, k \in DOMAIN s : s[j].query = s[k].query => j = k
  <2>1. \A a, b \in O : a.query = b.query => a = b
    BY <1>1
  <2> QED BY <1>7, <1>8, <2>1, Zenon
<1>11. \A k \in DOMAIN s : s[k].query \in S /\ s[k] \in RowChanges(s[k].query, sc)
  BY <1>1, <1>8
<1>12. \A q \in S : \A c \in RowChanges(q, sc) : \E k \in DOMAIN s : s[k] = c
  BY <1>6, <1>7
<1> QED BY <1>5, <1>9, <1>10, <1>11, <1>12 DEF s

(* A client that has applied everything put out so far has the rows of the *)
(* engine's table; so it has after the output of one more change.          *)
LEMMA PushApplies ==
    ASSUME NEW S \in SUBSET Query, NEW q \in S, NEW sc \in SourceChange,
           NEW T, UniqueKeys(T), Allowed(T, sc),
           NEW rows, NEW s \in Seq(RowChangeOf), Apply(q, rows, s) = Rows(T, q)
    PROVE  Apply(q, rows, s \o Output(S, sc)) = Rows(writeChange(T, sc), q)
<1> DEFINE t == Output(S, sc)
<1>1. /\ t \in Seq(RowChangeOf)
      /\ \A c \in RowChanges(q, sc) : \E k \in DOMAIN t : t[k] = c
      /\ \A k \in DOMAIN t : t[k].query \in S /\ t[k] \in RowChanges(t[k].query, sc)
      /\ \A j, k \in DOMAIN t : t[j].query = t[k].query => j = k
  BY OutputIs
<1> HIDE DEF t
<1>2. CASE RowChanges(q, sc) = {}
  <2>1. \A i \in DOMAIN t : t[i].query # q
    BY <1>1, <1>2
  <2>2. Apply(q, rows, s \o t) = Apply(q, rows, s)
    BY <1>1, <2>1, ApplyOthers
  <2> QED BY <1>2, <2>2, WriteUnseen DEF t
<1>3. CASE RowChanges(q, sc) # {}
  <2>1. PICK c \in RowChanges(q, sc) : TRUE
    BY <1>3
  <2>2. PICK k \in DOMAIN t : t[k] = c
    BY <1>1, <2>1
  <2>3. c.query = q
    BY <2>1, RowChangesIs
  <2>4. Apply(q, rows, s \o t) = ApplyOne(Apply(q, rows, s), t[k])
    BY <1>1, <2>2, <2>3, ApplyLast
  <2>5. Rows(writeChange(T, sc), q) = ApplyOne(Rows(T, q), c)
    BY <2>1, WriteSeen
  <2> QED BY <2>2, <2>4, <2>5 DEF t
<1> QED BY <1>2, <1>3

(* Every change finds the row it is about, and an add finds none.          *)
Fit(q, rows, s) ==
    \A i \in DOMAIN s : s[i].query = q =>
        (has(Apply(q, rows, SubSeq(s, 1, i - 1)), s[i].row) <=> s[i].type # "add")

(* The output of one push fits the rows after what was put out before.     *)
LEMMA PushFits ==
    ASSUME NEW S \in SUBSET Query, NEW q \in S, NEW sc \in SourceChange,
           NEW T, UniqueKeys(T), Allowed(T, sc),
           NEW rows, NEW s \in Seq(RowChangeOf), Apply(q, rows, s) = Rows(T, q), Fit(q, rows, s)
    PROVE  Fit(q, rows, s \o Output(S, sc))
<1> DEFINE t == Output(S, sc)
           u == s \o t
<1>1. /\ t \in Seq(RowChangeOf)
      /\ \A k \in DOMAIN t : t[k] \in RowChanges(t[k].query, sc)
      /\ \A j, k \in DOMAIN t : t[j].query = t[k].query => j = k
  BY OutputIs
<1> HIDE DEF t
<1>2. SUFFICES ASSUME NEW i \in DOMAIN u, u[i].query = q
               PROVE  has(Apply(q, rows, SubSeq(u, 1, i - 1)), u[i].row) <=> u[i].type # "add"
  BY DEF Fit, t
<1>3. /\ DOMAIN s = 1..Len(s) /\ DOMAIN t = 1..Len(t) /\ DOMAIN u = 1..(Len(s) + Len(t))
      /\ \A j \in DOMAIN s : u[j] = s[j]
      /\ \A j \in DOMAIN t : Len(s) + j \in DOMAIN u /\ u[Len(s) + j] = t[j]
      /\ i \in DOMAIN s \/ (i > Len(s) /\ i - Len(s) \in DOMAIN t)
      /\ Len(s) \in Nat /\ Len(t) \in Nat
  BY <1>1, ConcatIs
<1>4. CASE i \in DOMAIN s
  <2>1. SubSeq(u, 1, i - 1) = SubSeq(s, 1, i - 1)
    BY <1>1, <1>3, <1>4
  <2> QED BY <1>2, <1>3, <1>4, <2>1 DEF Fit
<1>5. CASE i > Len(s) /\ i - Len(s) \in DOMAIN t
  <2> DEFINE k == i - Len(s)
             b == SubSeq(t, 1, k - 1)
  <2>1. k \in DOMAIN t /\ k \in Nat /\ i = Len(s) + k /\ u[i] = t[k]
    BY <1>3, <1>5
  <2> HIDE DEF k
  <2>2. b \in Seq(RowChangeOf) /\ \A j \in DOMAIN b : j \in DOMAIN t /\ j < k /\ b[j] = t[j]
    BY <1>1, <1>3, <2>1
  <2>3. SubSeq(u, 1, i - 1) = s \o b
    <3> DEFINE m == k - 1
    <3>1. i - 1 = Len(s) + m /\ m \in 0..Len(t)
      BY <1>3, <2>1
    <3> HIDE DEF m
    <3>2. SubSeq(s \o t, 1, Len(s) + m) = s \o SubSeq(t, 1, m)
      BY <1>1, <3>1, PrefixOfConcat, SMTT(30)
    <3> QED BY <3>1, <3>2 DEF m
  <2> HIDE DEF b
  <2>4. \A j \in DOMAIN b : b[j].query # q
    BY <1>1, <1>2, <2>1, <2>2
  <2>5. Apply(q, rows, s \o b) = Rows(T, q)
    BY <2>2, <2>4, ApplyOthers
  <2>6. t[k] \in RowChanges(q, sc)
    BY <1>1, <1>2, <2>1
  <2>7. has(Rows(T, q), t[k].row) <=> t[k].type # "add"
    BY <2>6, WriteSeen
  <2> QED BY <2>1, <2>3, <2>5, <2>7, Zenon
<1> QED BY <1>3, <1>4, <1>5

-----------------------------------------------------------------------------
(* A sequence of source changes that leads from one table to another and   *)
(* that every table on the way admits.                                     *)

Path(todo, S, T) ==
    \E f \in [0..Len(todo) -> SUBSET Row] :
        /\ f[0] = S /\ f[Len(todo)] = T
        /\ \A i \in 1..Len(todo) : /\ UniqueKeys(f[i - 1]) /\ Allowed(f[i - 1], todo[i])
                                    /\ f[i] = writeChange(f[i - 1], todo[i])

(* Nothing to push: the table is the target.                               *)
LEMMA PathEnds ==
    ASSUME NEW S \in SUBSET Row, NEW T
    PROVE  Path(<<>>, S, T) <=> S = T
<1>1. Len(<<>>) = 0
  OBVIOUS
<1>2. S = T => Path(<<>>, S, T)
  <2> DEFINE f == [i \in 0..0 |-> S]
  <2>1. f \in [0..0 -> SUBSET Row] /\ f[0] = S
    OBVIOUS
  <2> HIDE DEF f
  <2> QED BY <1>1, <2>1 DEF Path
<1> QED BY <1>1, <1>2 DEF Path

(* The first change of a path is allowed, and the rest leads on from the   *)
(* table after it.                                                         *)
LEMMA PathStep ==
    ASSUME NEW todo \in Seq(SourceChange), todo # <<>>, NEW S, NEW T, Path(todo, S, T)
    PROVE  /\ UniqueKeys(S) /\ Allowed(S, Head(todo))
           /\ Path(Tail(todo), writeChange(S, Head(todo)), T)
<1> DEFINE n == Len(todo)
           rest == Tail(todo)
<1>1. n \in Nat /\ n >= 1 /\ Head(todo) = todo[1] /\ Len(rest) = n - 1
      /\ \A i \in 1..(n - 1) : rest[i] = todo[i + 1]
  OBVIOUS
<1>2. PICK f \in [0..n -> SUBSET Row] :
        /\ f[0] = S /\ f[n] = T
        /\ \A i \in 1..n : /\ UniqueKeys(f[i - 1]) /\ Allowed(f[i - 1], todo[i])
                           /\ f[i] = writeChange(f[i - 1], todo[i])
  BY DEF Path
<1> HIDE DEF n, rest
<1>3. UniqueKeys(S) /\ Allowed(S, todo[1]) /\ f[1] = writeChange(S, todo[1])
  <2>1. 1 \in 1..n /\ 1 - 1 = 0
    BY <1>1
  <2> QED BY <1>2, <2>1
<1> DEFINE g == [i \in 0..(n - 1) |-> f[i + 1]]
<1>4. g \in [0..(n - 1) -> SUBSET Row] /\ g[0] = f[1] /\ g[n - 1] = T
  BY <1>1, <1>2
<1>5. ASSUME NEW i \in 1..(n - 1)
      PROVE  /\ UniqueKeys(g[i - 1]) /\ Allowed(g[i - 1], rest[i])
             /\ g[i] = writeChange(g[i - 1], rest[i])
  <2>1. i + 1 \in 1..n /\ (i + 1) - 1 = i /\ i - 1 \in 0..(n - 1) /\ (i - 1) + 1 = i /\ i \in 0..(n - 1)
    BY <1>1
  <2>2. g[i - 1] = f[i] /\ g[i] = f[i + 1] /\ rest[i] = todo[i + 1]
    BY <1>1, <2>1
  <2>3. /\ UniqueKeys(f[(i + 1) - 1]) /\ Allowed(f[(i + 1) - 1], todo[i + 1])
        /\ f[i + 1] = writeChange(f[(i + 1) - 1], todo[i + 1])
    BY <1>2, <2>1
  <2> QED BY <2>1, <2>2, <2>3
<1> HIDE DEF g
<1>6. Path(rest, f[1], T)
  BY <1>1, <1>4, <1>5 DEF Path
<1> QED BY <1>1, <1>3, <1>6 DEF rest

(* Two paths in a row are a path.                                          *)
LEMMA PathJoins ==
    ASSUME NEW a \in Seq(SourceChange), NEW b \in Seq(SourceChange), NEW S, NEW T, NEW U,
           Path(a, S, T), Path(b, T, U)
    PROVE  Path(a \o b, S, U)
<1> DEFINE m == Len(a)
           n == Len(b)
           c == a \o b
<1>1. m \in Nat /\ n \in Nat /\ Len(c) = m + n
      /\ (\A i \in 1..m : c[i] = a[i]) /\ \A i \in 1..n : c[m + i] = b[i]
  BY ConcatIs
<1>2. PICK f \in [0..m -> SUBSET Row] :
        /\ f[0] = S /\ f[m] = T
        /\ \A i \in 1..m : /\ UniqueKeys(f[i - 1]) /\ Allowed(f[i - 1], a[i])
                           /\ f[i] = writeChange(f[i - 1], a[i])
  BY DEF Path
<1>3. PICK g \in [0..n -> SUBSET Row] :
        /\ g[0] = T /\ g[n] = U
        /\ \A i \in 1..n : /\ UniqueKeys(g[i - 1]) /\ Allowed(g[i - 1], b[i])
                           /\ g[i] = writeChange(g[i - 1], b[i])
  BY DEF Path
<1> HIDE DEF m, n, c
<1> DEFINE h == [i \in 0..(m + n) |-> IF i <= m THEN f[i] ELSE g[i - m]]
<1>4. h \in [0..(m + n) -> SUBSET Row] /\ h[0] = S /\ h[m + n] = U
  BY <1>1, <1>2, <1>3
<1>5. ASSUME NEW i \in 1..(m + n)
      PROVE  /\ UniqueKeys(h[i - 1]) /\ Allowed(h[i - 1], c[i])
             /\ h[i] = writeChange(h[i - 1], c[i])
  <2>1. CASE i <= m
    <3>1. i \in 1..m /\ h[i] = f[i] /\ h[i - 1] = f[i - 1] /\ c[i] = a[i]
      BY <1>1, <2>1
    <3> QED BY <1>2, <3>1
  <2>2. CASE i > m
    <3>1. i - m \in 1..n /\ h[i] = g[i - m] /\ c[i] = b[i - m]
      <4>1. m + (i - m) = i
        BY <1>1
      <4> QED BY <1>1, <2>2, <4>1
    <3>2. h[i - 1] = g[(i - m) - 1]
      <4>1. CASE i = m + 1
        <5>1. i - 1 = m /\ (i - m) - 1 = 0 /\ m \in 0..(m + n)
          BY <1>1, <4>1
        <5>2. h[m] = f[m]
          BY <1>1, <5>1
        <5> QED BY <1>2, <1>3, <5>1, <5>2
      <4>2. CASE i # m + 1
        <5>1. i - 1 > m /\ (i - 1) - m = (i - m) - 1 /\ i - 1 \in 0..(m + n)
          BY <1>1, <2>2, <4>2
        <5>2. h[i - 1] = g[(i - 1) - m]
          BY <1>1, <5>1
        <5> QED BY <5>1, <5>2
      <4> QED BY <4>1, <4>2
    <3> QED BY <1>3, <3>1, <3>2
  <2> QED BY <1>1, <2>1, <2>2
<1> HIDE DEF h
<1>6. Path(c, S, U)
  BY <1>1, <1>4, <1>5 DEF Path
<1> QED BY <1>6 DEF c

(* One allowed change is a path.                                           *)
LEMMA PathOne ==
    ASSUME NEW S, UniqueKeys(S), NEW sc \in SourceChange, Allowed(S, sc),
           writeChange(S, sc) \in SUBSET Row
    PROVE  Path(<<sc>>, S, writeChange(S, sc))
<1> DEFINE f == [i \in 0..1 |-> IF i = 0 THEN S ELSE writeChange(S, sc)]
<1>1. Len(<<sc>>) = 1 /\ <<sc>>[1] = sc
  OBVIOUS
<1>2. S \in SUBSET Row
  BY DEF UniqueKeys
<1>3. f \in [0..1 -> SUBSET Row] /\ f[0] = S /\ f[1] = writeChange(S, sc)
  BY <1>2
<1> HIDE DEF f
<1>4. ASSUME NEW i \in 1..1
      PROVE  /\ UniqueKeys(f[i - 1]) /\ Allowed(f[i - 1], <<sc>>[i])
             /\ f[i] = writeChange(f[i - 1], <<sc>>[i])
  <2>1. i = 1 /\ i - 1 = 0
    OBVIOUS
  <2> QED BY <1>1, <1>3, <2>1
<1> QED BY <1>1, <1>3, <1>4 DEF Path

(* The removal of some of the rows of a table, one by one.                 *)
Removes(s) == [i \in DOMAIN s |-> [type |-> "remove", row |-> s[i], old |-> NoRow]]

(* The removals of a finite set of rows are source changes.                *)
LEMMA RemovesType ==
    ASSUME NEW X \in SUBSET Row, IsFiniteSet(X)
    PROVE  Removes(SetToSeq(X)) \in Seq(SourceChange)
<1> DEFINE s == SetToSeq(X)
<1>1. s \in Seq(X)
  BY SetToSeqIs
<1> HIDE DEF s
<1>2. Len(s) \in Nat /\ DOMAIN s = 1..Len(s) /\ \A i \in DOMAIN s : s[i] \in Row
  BY <1>1
<1>3. \A i \in DOMAIN s : [type |-> "remove", row |-> s[i], old |-> NoRow] \in SourceChange
  BY <1>2 DEF SourceChange
<1>4. Removes(s) \in [1..Len(s) -> SourceChange]
  BY <1>2, <1>3 DEF Removes
<1> QED BY <1>2, <1>4, IsASeq DEF s

(* Removing rows of the table one after the other leads to the table       *)
(* without them, in whatever order.                                        *)
LEMMA RemovesPath ==
    ASSUME NEW S, UniqueKeys(S), NEW X \in SUBSET S, IsFiniteSet(X)
    PROVE  Path(Removes(SetToSeq(X)), S, S \ X)
<1> DEFINE s == SetToSeq(X)
<1>1. /\ s \in Seq(X)
      /\ \A x \in X : \E i \in DOMAIN s : s[i] = x
      /\ \A i, j \in DOMAIN s : s[i] = s[j] => i = j
  BY SetToSeqIs
<1>2. S \in SUBSET Row /\ \A r, u \in S : r.key = u.key => r = u
  BY DEF UniqueKeys
<1> HIDE DEF s
<1> DEFINE n == Len(s)
           f == [i \in 0..n |-> S \ {s[j] : j \in 1..i}]
<1>3. n \in Nat /\ DOMAIN s = 1..n /\ \A i \in 1..n : s[i] \in X
  BY <1>1
<1> HIDE DEF n
<1>4. Len(Removes(s)) = n
  BY <1>3 DEF Removes
<1>5. \A i \in 1..n : Removes(s)[i].type = "remove" /\ Removes(s)[i].row = s[i]
  BY <1>3 DEF Removes
<1>6. f \in [0..n -> SUBSET Row] /\ f[0] = S
  BY <1>2, <1>3
<1>7. f[n] = S \ X
  <2>1. {s[j] : j \in 1..n} = X
    BY <1>1, <1>3
  <2> QED BY <1>3, <2>1
<1>8. ASSUME NEW i \in 1..n
      PROVE  /\ UniqueKeys(f[i - 1]) /\ Allowed(f[i - 1], Removes(s)[i])
             /\ f[i] = writeChange(f[i - 1], Removes(s)[i])
  <2>1. i - 1 \in 0..n /\ i \in 0..n /\ \A j \in 1..(i - 1) : j \in 1..n /\ j # i
    BY <1>3
  <2>2. f[i - 1] = S \ {s[j] : j \in 1..(i - 1)} /\ f[i] = S \ {s[j] : j \in 1..i}
    BY <2>1
  <2>3. \A j \in 1..i : j \in 1..(i - 1) \/ j = i
    BY <1>3
  <2>4. f[i] = f[i - 1] \ {s[i]}
    BY <1>3, <2>1, <2>2, <2>3
  <2>5. s[i] \in S /\ s[i] \in f[i - 1]
    BY <1>1, <1>3, <2>1, <2>2
  <2>6. f[i - 1] \in SUBSET S
    BY <2>2
  <2> HIDE DEF f
  <2>7. UniqueKeys(f[i - 1])
    BY <1>2, <2>6 DEF UniqueKeys
  <2>8. {r \in f[i - 1] : r.key # s[i].key} = f[i - 1] \ {s[i]}
    BY <1>2, <2>5, <2>6
  <2>9. writeChange(f[i - 1], Removes(s)[i]) = {r \in f[i - 1] : r.key # s[i].key}
    BY <1>5 DEF writeChange
  <2> QED BY <1>5, <2>4, <2>5, <2>7, <2>8, <2>9 DEF Allowed
<1> HIDE DEF f
<1>9. Path(Removes(s), S, S \ X)
  BY <1>4, <1>6, <1>7, <1>8 DEF Path
<1> QED BY <1>9 DEF s

-----------------------------------------------------------------------------
(* A snapshot change, and several.                                         *)

Diff == {d \in [prev: SUBSET Row, next: Row \cup {NoRow}] : IsFiniteSet(d.prev)}

IsChange(S, d, T) ==
    /\ \/ /\ d.next \in Row /\ d.next \notin S
          /\ d.prev = {p \in S : p.key = d.next.key \/ p.val = d.next.val}
       \/ d.next = NoRow /\ \E r \in S : d.prev = {r}
    /\ T = (S \ d.prev) \cup ({d.next} \ {NoRow})

Olds(d) == {p \in d.prev : d.next # NoRow /\ primaryKeysMatch(p, d.next)}
LastChange(d) ==
    IF d.next = NoRow THEN <<>>
    ELSE IF Olds(d) = {} THEN <<[type |-> "add", row |-> d.next, old |-> NoRow]>>
    ELSE <<[type |-> "edit", row |-> d.next, old |-> CHOOSE o \in Olds(d) : TRUE]>>

(* snapshotToSourceChanges: the removals, then the edit or the add.        *)
LEMMA SnapshotIs ==
    ASSUME NEW d \in Diff
    PROVE  /\ snapshotToSourceChanges(d) = Removes(SetToSeq(d.prev \ Olds(d))) \o LastChange(d)
           /\ Removes(SetToSeq(d.prev \ Olds(d))) \in Seq(SourceChange)
           /\ LastChange(d) \in Seq(SourceChange)
           /\ snapshotToSourceChanges(d) \in Seq(SourceChange)
<1>1. snapshotToSourceChanges(d) = Removes(SetToSeq(d.prev \ Olds(d))) \o LastChange(d)
  BY DEF snapshotToSourceChanges, Removes, LastChange, Olds
<1>2. d.prev \ Olds(d) \in SUBSET Row /\ IsFiniteSet(d.prev \ Olds(d))
  <2>1. d.prev \in SUBSET Row /\ IsFiniteSet(d.prev) /\ d.prev \ Olds(d) \in SUBSET d.prev
    BY DEF Diff
  <2> QED BY <2>1, FS_Subset
<1>3. Removes(SetToSeq(d.prev \ Olds(d))) \in Seq(SourceChange)
  BY <1>2, RemovesType
<1>4. LastChange(d) \in Seq(SourceChange)
  <2>1. d.next \in Row \cup {NoRow} /\ d.prev \in SUBSET Row
    BY DEF Diff
  <2>2. d.next # NoRow => [type |-> "add", row |-> d.next, old |-> NoRow] \in SourceChange
    BY <2>1 DEF SourceChange
  <2>3. ASSUME d.next # NoRow, Olds(d) # {}
        PROVE  [type |-> "edit", row |-> d.next, old |-> CHOOSE o \in Olds(d) : TRUE] \in SourceChange
    <3> DEFINE o == CHOOSE o \in Olds(d) : TRUE
    <3>1. o \in Olds(d)
      BY <2>3
    <3> HIDE DEF o
    <3>2. o \in Row /\ o.key = d.next.key
      BY <2>1, <3>1 DEF Olds, primaryKeysMatch
    <3>3. [type |-> "edit", row |-> d.next, old |-> o] \in SourceChange
      BY <2>1, <2>3, <3>2 DEF SourceChange
    <3> QED BY <3>3 DEF o
  <2> QED BY <2>2, <2>3 DEF LastChange
<1> QED BY <1>1, <1>3, <1>4

(* The source changes of a snapshot change lead from its version to the    *)
(* next: the unique row in the way is gone before the edit or the add.     *)
LEMMA PathOfChange ==
    ASSUME NEW S \in Table, NEW T \in SUBSET Row, NEW d \in Diff, IsChange(S, d, T)
    PROVE  Path(snapshotToSourceChanges(d), S, T)
<1> DEFINE X == d.prev \ Olds(d)
           M == S \ X
<1>1. S \in SUBSET Row /\ \A r, s \in S : r.key = s.key => r = s
  BY DEF Table
<1>2. UniqueKeys(S)
  BY <1>1 DEF UniqueKeys
<1>3. d.prev \in SUBSET S
  BY DEF IsChange
<1>4. X \in SUBSET S /\ IsFiniteSet(X)
  <2>1. IsFiniteSet(d.prev) /\ X \in SUBSET d.prev
    BY DEF Diff
  <2> QED BY <1>3, <2>1, FS_Subset
<1>5. Path(Removes(SetToSeq(X)), S, M)
  BY <1>2, <1>4, RemovesPath
<1>6. UniqueKeys(M) /\ M \in SUBSET Row
  BY <1>1 DEF UniqueKeys
<1>7. Path(LastChange(d), M, T)
  <2>1. CASE d.next = NoRow
    <3>1. Olds(d) = {} /\ LastChange(d) = <<>>
      BY <2>1 DEF Olds, LastChange
    <3>2. M = T
      BY <2>1, <3>1 DEF IsChange
    <3> HIDE DEF M
    <3>3. Path(<<>>, M, T)
      BY <1>6, <3>2, PathEnds
    <3> QED BY <3>1, <3>3
  <2>2. CASE d.next # NoRow
    <3>1. /\ d.next \in Row /\ d.next \notin S
          /\ d.prev = {p \in S : p.key = d.next.key \/ p.val = d.next.val}
          /\ T = (S \ d.prev) \cup {d.next}
      BY <2>2 DEF IsChange
    <3>2. Olds(d) = {p \in S : p.key = d.next.key}
      BY <2>2, <3>1 DEF Olds, primaryKeysMatch
    <3>3. CASE Olds(d) = {}
      <4> DEFINE sc == [type |-> "add", row |-> d.next, old |-> NoRow]
      <4>1. LastChange(d) = <<sc>> /\ sc \in SourceChange
        BY <2>2, <3>1, <3>3 DEF LastChange, SourceChange
      <4>2. sc.type = "add" /\ sc.row = d.next
        OBVIOUS
      <4> HIDE DEF sc
      <4>3. Allowed(M, sc)
        BY <3>2, <3>3, <4>2 DEF Allowed, has
      <4>4. writeChange(M, sc) = T
        BY <3>1, <3>3, <4>2 DEF writeChange
      <4> QED BY <1>6, <4>1, <4>3, <4>4, PathOne
    <3>4. CASE Olds(d) # {}
      <4> DEFINE o == CHOOSE o \in Olds(d) : TRUE
                 sc == [type |-> "edit", row |-> d.next, old |-> o]
      <4>1. LastChange(d) = <<sc>>
        BY <2>2, <3>4 DEF LastChange
      <4>2. o \in Olds(d)
        BY <3>4
      <4> HIDE DEF o
      <4>3. o \in S /\ o.key = d.next.key /\ o \in M /\ Olds(d) = {o}
        BY <1>1, <3>2, <4>2
      <4>4. sc \in SourceChange
        BY <1>1, <3>1, <4>3 DEF SourceChange
      <4>5. sc.type = "edit" /\ sc.row = d.next /\ sc.old = o
        OBVIOUS
      <4> HIDE DEF sc
      <4>6. Allowed(M, sc)
        BY <4>3, <4>5 DEF Allowed
      <4>7. writeChange(M, sc) = {r \in M : r.key # o.key} \cup {d.next}
        BY <4>5 DEF writeChange
      <4>8. {r \in M : r.key # o.key} = S \ d.prev
        BY <1>1, <3>1, <3>2, <4>3
      <4>9. writeChange(M, sc) = T
        BY <3>1, <4>7, <4>8
      <4> HIDE DEF M
      <4> QED BY <1>6, <4>1, <4>4, <4>6, <4>9, PathOne
    <3> QED BY <3>3, <3>4
  <2> QED BY <2>1, <2>2
<1> HIDE DEF X, M
<1>8. Path(Removes(SetToSeq(X)) \o LastChange(d), S, T)
  BY <1>5, <1>7, SnapshotIs, PathJoins DEF X
<1> QED BY <1>8, SnapshotIs DEF X

(* One more snapshot change adds its source changes at the end.            *)
LEMMA SourceChangesAppend ==
    ASSUME NEW s \in Seq(Diff), NEW d \in Diff
    PROVE  /\ SourceChanges(<<>>) = <<>>
           /\ SourceChanges(s) \in Seq(SourceChange)
           /\ SourceChanges(Append(s, d)) = SourceChanges(s) \o snapshotToSourceChanges(d)
<1> DEFINE m(t) == [i \in DOMAIN t |-> snapshotToSourceChanges(t[i])]
<1>1. \A t \in Seq(Diff) : m(t) \in Seq(Seq(SourceChange))
  <2> TAKE t \in Seq(Diff)
  <2>1. Len(t) \in Nat /\ DOMAIN t = 1..Len(t) /\ \A i \in DOMAIN t : t[i] \in Diff
    OBVIOUS
  <2>2. m(t) \in [1..Len(t) -> Seq(SourceChange)]
    BY <2>1, SnapshotIs
  <2> QED BY <2>1, <2>2, IsASeq
<1>2. m(Append(s, d)) = Append(m(s), snapshotToSourceChanges(d))
  <2> DEFINE x == snapshotToSourceChanges(d)
             a == Append(s, d)
             b == Append(m(s), x)
  <2>1. x \in Seq(SourceChange) /\ m(s) \in Seq(Seq(SourceChange))
    BY <1>1, SnapshotIs
  <2>2. Len(s) \in Nat /\ DOMAIN s = 1..Len(s) /\ DOMAIN a = 1..(Len(s) + 1)
        /\ (\A i \in 1..Len(s) : a[i] = s[i]) /\ a[Len(s) + 1] = d
    OBVIOUS
  <2>3. Len(m(s)) = Len(s)
    BY <2>2
  <2>4. DOMAIN b = 1..(Len(s) + 1) /\ (\A i \in 1..Len(s) : b[i] = m(s)[i]) /\ b[Len(s) + 1] = x
        /\ b \in Seq(Seq(SourceChange))
    <3> HIDE DEF m, x
    <3> QED BY <2>1, <2>2, <2>3
  <2> HIDE DEF a, b, x
  <2>5. \A i \in 1..(Len(s) + 1) : m(a)[i] = b[i]
    <3> TAKE i \in 1..(Len(s) + 1)
    <3>1. CASE i \in 1..Len(s)
      BY <2>2, <2>4, <3>1
    <3>2. CASE i = Len(s) + 1
      BY <2>2, <2>4, <3>2 DEF x
    <3> QED BY <2>2, <3>1, <3>2
  <2>6. DOMAIN m(a) = 1..(Len(s) + 1)
    BY <2>2
  <2>7. m(a) = b
    <3>1. a \in Seq(Diff)
      BY DEF a
    <3>2. m(a) \in Seq(Seq(SourceChange))
      BY <1>1, <3>1
    <3> HIDE DEF m
    <3>3. Len(m(a)) = Len(s) + 1 /\ Len(b) = Len(s) + 1
      BY <2>2, <2>4, <2>6, <3>2
    <3> QED BY <2>4, <2>5, <3>2, <3>3, SeqEqual
  <2> QED BY <2>7 DEF a, b, x
<1>3. m(<<>>) = <<>>
  OBVIOUS
<1>4. \A t : SourceChanges(t) = FlattenSeq(m(t))
  BY DEF SourceChanges
<1> HIDE DEF m
<1>5. snapshotToSourceChanges(d) \in Seq(SourceChange) /\ m(s) \in Seq(Seq(SourceChange))
  BY <1>1, SnapshotIs
<1>6. /\ FlattenSeq(m(s)) \in Seq(SourceChange)
      /\ FlattenSeq(Append(m(s), snapshotToSourceChanges(d))) = FlattenSeq(m(s)) \o snapshotToSourceChanges(d)
  BY <1>5, FlattenAppend
<1>7. FlattenSeq(<<>>) = <<>>
  BY <1>5, FlattenType
<1> QED BY <1>2, <1>3, <1>4, <1>6, <1>7, Zenon

-----------------------------------------------------------------------------
(* Frames.                                                                 *)

Status == {"ok", "error", "drift", "closed"}
Frame == [type: {"partial", "reply"}, id: {0, 1, RemoveId}, query: Query \cup {NoQuery},
          changes: Seq(RowChangeOf), index: Nat, final: BOOLEAN, status: Status]

(* The changes of frames are row changes.                                  *)
LEMMA ChangesType ==
    ASSUME NEW s \in Seq(Frame)
    PROVE  /\ Changes(<<>>) = <<>>
           /\ [i \in DOMAIN s |-> s[i].changes] \in Seq(Seq(RowChangeOf))
           /\ Changes(s) \in Seq(RowChangeOf)
<1>1. Len(s) \in Nat /\ DOMAIN s = 1..Len(s) /\ \A i \in DOMAIN s : s[i].changes \in Seq(RowChangeOf)
  <2>1. \A f \in Frame : f.changes \in Seq(RowChangeOf)
    BY DEF Frame
  <2>2. Len(s) \in Nat /\ DOMAIN s = 1..Len(s) /\ \A i \in DOMAIN s : s[i] \in Frame
    OBVIOUS
  <2> QED BY <2>1, <2>2
<1>2. [i \in DOMAIN s |-> s[i].changes] \in [1..Len(s) -> Seq(RowChangeOf)]
  BY <1>1
<1>3. [i \in DOMAIN s |-> s[i].changes] \in Seq(Seq(RowChangeOf))
  BY <1>1, <1>2, IsASeq
<1>4. [i \in DOMAIN <<>> |-> <<>>[i].changes] = <<>>
  OBVIOUS
<1> QED BY <1>3, <1>4, FlattenType DEF Changes

(* The changes of frames in a row are those of the first, then of the      *)
(* rest.                                                                   *)
LEMMA ChangesConcat ==
    ASSUME NEW s \in Seq(Frame), NEW t \in Seq(Frame)
    PROVE  Changes(s \o t) = Changes(s) \o Changes(t)
<1> DEFINE m(v) == [i \in DOMAIN v |-> v[i].changes]
           u == s \o t
           b == m(s) \o m(t)
<1>1. m(s) \in Seq(Seq(RowChangeOf)) /\ m(t) \in Seq(Seq(RowChangeOf))
  BY ChangesType
<1>2. /\ u \in Seq(Frame) /\ DOMAIN s = 1..Len(s) /\ DOMAIN t = 1..Len(t)
      /\ DOMAIN u = 1..(Len(s) + Len(t)) /\ Len(u) = Len(s) + Len(t)
      /\ \A i \in DOMAIN s : u[i] = s[i]
      /\ \A i \in DOMAIN t : u[Len(s) + i] = t[i]
      /\ Len(s) \in Nat /\ Len(t) \in Nat
  BY ConcatIs
<1>3. Len(m(s)) = Len(s) /\ Len(m(t)) = Len(t)
  BY <1>2
<1>4. /\ b \in Seq(Seq(RowChangeOf)) /\ Len(b) = Len(m(s)) + Len(m(t))
      /\ \A i \in DOMAIN m(s) : b[i] = m(s)[i]
      /\ \A i \in DOMAIN m(t) : b[Len(m(s)) + i] = m(t)[i]
  <2> HIDE DEF m
  <2> QED BY <1>1, ConcatIs
<1>5. m(u) \in Seq(Seq(RowChangeOf))
  BY <1>2, ChangesType
<1>6. Len(m(u)) = Len(s) + Len(t)
  BY <1>2
<1> HIDE DEF u, b
<1>7. ASSUME NEW i \in 1..(Len(s) + Len(t)) PROVE m(u)[i] = b[i]
  <2>1. CASE i \in DOMAIN s
    BY <1>2, <1>4, <2>1
  <2>2. CASE i \notin DOMAIN s
    <3>1. PICK j \in DOMAIN t : i = Len(s) + j
      <4>1. Len(s) \in Nat /\ Len(t) \in Nat /\ DOMAIN s = 1..Len(s) /\ DOMAIN t = 1..Len(t)
        BY <1>2
      <4>2. i - Len(s) \in 1..Len(t) /\ i = Len(s) + (i - Len(s))
        BY <2>2, <4>1
      <4> QED BY <4>1, <4>2
    <3>2. b[i] = t[j].changes
      BY <1>3, <1>4, <3>1
    <3>3. m(u)[i] = t[j].changes
      BY <1>2, <3>1
    <3> QED BY <3>2, <3>3
  <2> QED BY <2>1, <2>2
<1> HIDE DEF m
<1>8. m(u) = b
  BY <1>3, <1>4, <1>5, <1>6, <1>7, SeqEqual
<1>9. FlattenSeq(m(s) \o m(t)) = FlattenSeq(m(s)) \o FlattenSeq(m(t))
  BY <1>1, FlattenConcat
<1>10. \A v : Changes(v) = FlattenSeq(m(v))
  BY DEF Changes, m
<1> QED BY <1>8, <1>9, <1>10, Zenon DEF u, b

(* The changes of one frame.                                               *)
LEMMA ChangesOne ==
    ASSUME NEW f \in Frame
    PROVE  Changes(<<f>>) = f.changes
<1>1. f.changes \in Seq(RowChangeOf)
  BY DEF Frame
<1>2. [i \in DOMAIN <<f>> |-> <<f>>[i].changes] = Append(<<>>, f.changes)
  BY <1>1
<1>3. <<>> \in Seq(Seq(RowChangeOf))
  OBVIOUS
<1>4. FlattenSeq(Append(<<>>, f.changes)) = FlattenSeq(<<>>) \o f.changes /\ FlattenSeq(<<>>) = <<>>
  BY <1>1, <1>3, FlattenAppend, FlattenType
<1>5. <<>> \o f.changes = f.changes
  BY <1>1
<1> QED BY <1>2, <1>4, <1>5, Zenon DEF Changes

(* One more frame adds its changes at the end.                             *)
LEMMA ChangesAppend ==
    ASSUME NEW s \in Seq(Frame), NEW f \in Frame
    PROVE  Changes(Append(s, f)) = Changes(s) \o f.changes
<1>1. Append(s, f) = s \o <<f>> /\ <<f>> \in Seq(Frame)
  OBVIOUS
<1>2. Changes(s \o <<f>>) = Changes(s) \o Changes(<<f>>)
  BY <1>1, ChangesConcat
<1> QED BY <1>1, <1>2, ChangesOne, Zenon

(* Frames without changes.                                                 *)
LEMMA ChangesNone ==
    ASSUME NEW s \in Seq(Frame), \A i \in DOMAIN s : s[i].changes = <<>>
    PROVE  Changes(s) = <<>>
<1> DEFINE P == {n \in Nat : n <= Len(s) => Changes(SubSeq(s, 1, n)) = <<>>}
<1>1. 0 \in P
  <2>1. SubSeq(s, 1, 0) = <<>>
    OBVIOUS
  <2> QED BY <2>1, ChangesType
<1>2. ASSUME NEW n \in Nat, n \in P PROVE n + 1 \in P
  <2> SUFFICES ASSUME n + 1 <= Len(s) PROVE Changes(SubSeq(s, 1, n + 1)) = <<>>
    OBVIOUS
  <2>1. SubSeq(s, 1, n) \in Seq(Frame) /\ s[n + 1] \in Frame /\ s[n + 1].changes = <<>>
        /\ SubSeq(s, 1, n + 1) = Append(SubSeq(s, 1, n), s[n + 1])
    OBVIOUS
  <2>2. Changes(SubSeq(s, 1, n)) = <<>>
    BY <1>2
  <2>3. <<>> \o <<>> = <<>>
    OBVIOUS
  <2> HIDE DEF P
  <2>4. Changes(Append(SubSeq(s, 1, n), s[n + 1])) = Changes(SubSeq(s, 1, n)) \o s[n + 1].changes
    BY <2>1, ChangesAppend
  <2> QED BY <2>1, <2>2, <2>3, <2>4, Zenon
<1>3. P = Nat
  BY <1>1, <1>2, Induction
<1>4. Len(s) \in Nat /\ SubSeq(s, 1, Len(s)) = s
  OBVIOUS
<1>5. Changes(SubSeq(s, 1, Len(s))) = <<>>
  BY <1>3, <1>4
<1> QED BY <1>4, <1>5, Zenon

(* The changes between two versions of a replica lead from one to the      *)
(* other.                                                                  *)
LEMMA PathOfChanges ==
    ASSUME NEW h \in Seq(Table), NEW d \in Seq(Diff), Len(h) = Len(d) + 1,
           \A i \in DOMAIN d : IsChange(h[i], d[i], h[i + 1]),
           NEW v \in DOMAIN h, NEW w \in DOMAIN h, v <= w
    PROVE  /\ SubSeq(d, v, w - 1) \in Seq(Diff)
           /\ SourceChanges(SubSeq(d, v, w - 1)) \in Seq(SourceChange)
           /\ Path(SourceChanges(SubSeq(d, v, w - 1)), h[v], h[w])
<1>1. /\ Len(d) \in Nat /\ DOMAIN d = 1..Len(d) /\ DOMAIN h = 1..(Len(d) + 1)
      /\ v \in 1..(Len(d) + 1) /\ w \in 1..(Len(d) + 1)
  OBVIOUS
<1>2. \A i \in DOMAIN h : h[i] \in Table /\ h[i] \in SUBSET Row
  BY DEF Table
<1> DEFINE Leads(u) == Path(SourceChanges(SubSeq(d, v, u - 1)), h[v], h[u])
           P == {n \in Nat : v + n \in DOMAIN h => Leads(v + n)}
<1>3. 0 \in P
  <2>1. SubSeq(d, v, v - 1) = <<>>
    BY <1>1
  <2>2. Path(<<>>, h[v], h[v])
    BY <1>2, PathEnds
  <2>3. SourceChanges(<<>>) = <<>>
    BY DEF SourceChanges, FlattenSeq
  <2>4. Leads(v)
    BY <2>1, <2>2, <2>3, Zenon
  <2>5. v + 0 = v
    BY <1>1
  <2>6. Leads(v + 0)
    BY <2>4, <2>5, Zenon
  <2> HIDE DEF Leads
  <2> QED BY <2>6
<1>4. ASSUME NEW n \in Nat, n \in P PROVE n + 1 \in P
  <2> DEFINE u == v + n
  <2>1. SUFFICES ASSUME v + (n + 1) \in DOMAIN h PROVE Leads(v + (n + 1))
    BY DEF P
  <2> HIDE DEF Leads
  <2>2. u \in DOMAIN d /\ u \in DOMAIN h /\ v + (n + 1) = u + 1 /\ v <= u /\ u \in Nat /\ v \in Nat /\ u >= 1
    BY <1>1, <2>1
  <2>3. Leads(u)
    BY <1>4, <2>2
  <2> HIDE DEF u, P
  <2> USE DEF Leads
  <2>4. d[u] \in Diff /\ IsChange(h[u], d[u], h[u + 1])
    BY <2>2
  <2>5. SubSeq(d, v, u - 1) \in Seq(Diff) /\ SubSeq(d, v, (u + 1) - 1) = Append(SubSeq(d, v, u - 1), d[u])
    <3>1. SubSeq(d, v, u - 1) \in Seq(Diff)
      BY <1>1, <2>2
    <3>2. (u + 1) - 1 = u
      BY <2>2
    <3>3. SubSeq(d, v, u) = Append(SubSeq(d, v, u - 1), d[u])
      <4>1. v \in 1..Len(d) /\ u \in v..Len(d) /\ d[u] \in Diff
        BY <1>1, <2>2, <2>4
      <4>2. SubSeq(d, v, u) = SubSeq(d, v, u - 1) \o <<d[u]>>
        BY <4>1, SubSeqRecursiveSecond
      <4>3. Append(SubSeq(d, v, u - 1), d[u]) = SubSeq(d, v, u - 1) \o <<d[u]>>
        BY <3>1, <4>1, AppendIsConcat
      <4> QED BY <4>2, <4>3, Zenon
    <3> QED BY <3>1, <3>2, <3>3, Zenon
  <2>6. Path(snapshotToSourceChanges(d[u]), h[u], h[u + 1])
    BY <1>2, <2>1, <2>2, <2>4, PathOfChange
  <2>7. /\ SourceChanges(SubSeq(d, v, u - 1)) \in Seq(SourceChange)
        /\ SourceChanges(Append(SubSeq(d, v, u - 1), d[u]))
             = SourceChanges(SubSeq(d, v, u - 1)) \o snapshotToSourceChanges(d[u])
    BY <2>4, <2>5, SourceChangesAppend
  <2>8. snapshotToSourceChanges(d[u]) \in Seq(SourceChange)
    BY <2>4, SnapshotIs
  <2>9. Path(SourceChanges(SubSeq(d, v, u - 1)) \o snapshotToSourceChanges(d[u]), h[v], h[u + 1])
    BY <2>3, <2>6, <2>7, <2>8, PathJoins
  <2>10. Leads(u + 1)
    BY <2>5, <2>7, <2>9, Zenon
  <2> HIDE DEF Leads
  <2> QED BY <2>2, <2>10
<1>5. P = Nat
  <2> HIDE DEF Leads
  <2>1. P \in SUBSET Nat
    OBVIOUS
  <2> HIDE DEF P
  <2> QED BY <1>3, <1>4, <2>1, Induction
<1>6. Leads(w)
  <2> HIDE DEF Leads
  <2>1. w - v \in Nat /\ v + (w - v) = w
    BY <1>1
  <2>2. w - v \in P
    BY <1>5, <2>1
  <2> QED BY <2>1, <2>2
<1>7. SubSeq(d, v, w - 1) \in Seq(Diff)
  BY <1>1
<1>8. SourceChanges(SubSeq(d, v, w - 1)) \in Seq(SourceChange)
  <2>1. CASE Len(d) = 0
    <3>1. SubSeq(d, v, w - 1) = <<>>
      BY <1>1, <2>1
    <3>2. <<>> \in Seq(SourceChange)
      OBVIOUS
    <3>3. SourceChanges(<<>>) = <<>>
      BY DEF SourceChanges, FlattenSeq
    <3> QED BY <3>1, <3>2, <3>3, Zenon
  <2>2. CASE Len(d) # 0
    <3>1. d[1] \in Diff
      BY <1>1, <2>2
    <3> QED BY <1>7, <3>1, SourceChangesAppend
  <2> QED BY <2>1, <2>2
<1> QED BY <1>6, <1>7, <1>8

-----------------------------------------------------------------------------
(* Hydration.                                                              *)

(* The sequence holds, for the query, adds of rows of T only.              *)
AddsOf(s, q, T) == \A i \in DOMAIN s : s[i].query = q => s[i].type = "add" /\ s[i].row \in T
(* ... and it holds the add of this row.                                   *)
Adds(s, q, r) == \E i \in DOMAIN s : s[i].query = q /\ s[i].row = r

(* hydrateEntry: one add per row of the query.                             *)
LEMMA HydrationIs ==
    ASSUME NEW q \in Query, eng.source \in SUBSET Row, IsFiniteSet(eng.source)
    PROVE  /\ \A c \in Hydration(q) : /\ c \in RowChangeOf /\ c.query = q /\ c.type = "add"
                                      /\ c.row \in Rows(eng.source, q)
           /\ \A r \in Rows(eng.source, q) : \E c \in Hydration(q) : c.row = r
           /\ \A c, e \in Hydration(q) : c.row = e.row => c = e
           /\ IsFiniteSet(Hydration(q))
<1>1. /\ \A c \in Hydration(q) : /\ c \in RowChangeOf /\ c.query = q /\ c.type = "add"
                                 /\ c.row \in Rows(eng.source, q) /\ c = RowChange("add", q, c.row)
      /\ \A r \in Rows(eng.source, q) : \E c \in Hydration(q) : c.row = r
  <2>1. \A r \in Rows(eng.source, q) :
           /\ RowChange("add", q, r) \in RowChangeOf /\ RowChange("add", q, r).query = q
           /\ RowChange("add", q, r).type = "add" /\ RowChange("add", q, r).row = r
    BY DEF Rows, RowChange, RowChangeOf
  <2>2. Hydration(q) = {RowChange("add", q, r) : r \in Rows(eng.source, q)}
    BY DEF Hydration, Rows
  <2> QED BY <2>1, <2>2
<1>2. \A c, e \in Hydration(q) : c.row = e.row => c = e
  BY <1>1, Zenon
<1> DEFINE f == [c \in Hydration(q) |-> c.row]
<1>3. f \in Injection(Hydration(q), eng.source)
  <2>1. f \in [Hydration(q) -> eng.source]
    BY <1>1 DEF Rows
  <2> QED BY <1>2, <2>1 DEF Injection, IsInjective
<1>4. IsFiniteSet(Hydration(q))
  BY <1>3, FS_Injection
<1> QED BY <1>1, <1>2, <1>4

(* The adds of a hydration goroutine, as it will send them.                *)
LEMMA HydrateEntryIs ==
    ASSUME NEW q \in Query, eng.source \in SUBSET Row, IsFiniteSet(eng.source)
    PROVE  /\ hydrateEntry(q) \in Seq(RowChangeOf)
           /\ \A i \in DOMAIN hydrateEntry(q) : hydrateEntry(q)[i].query = q
           /\ AddsOf(hydrateEntry(q), q, Rows(eng.source, q))
           /\ \A r \in Rows(eng.source, q) : Adds(hydrateEntry(q), q, r)
<1> DEFINE H == Hydration(q)
           s == SetToSeq(H)
<1>1. /\ \A c \in H : /\ c \in RowChangeOf /\ c.query = q /\ c.type = "add"
                      /\ c.row \in Rows(eng.source, q)
      /\ \A r \in Rows(eng.source, q) : \E c \in H : c.row = r
      /\ IsFiniteSet(H)
  BY HydrationIs
<1>2. s \in Seq(H) /\ \A x \in H : \E i \in DOMAIN s : s[i] = x
  BY <1>1, SetToSeqIs
<1>3. hydrateEntry(q) = s
  BY DEF hydrateEntry
<1> HIDE DEF H, s
<1>4. \A i \in DOMAIN s : s[i] \in H
  BY <1>2
<1>5. s \in Seq(RowChangeOf)
  BY <1>1, <1>2, SeqMonotonic
<1>6. (\A i \in DOMAIN s : s[i].query = q) /\ AddsOf(s, q, Rows(eng.source, q))
  BY <1>1, <1>4 DEF AddsOf
<1>7. \A r \in Rows(eng.source, q) : Adds(s, q, r)
  BY <1>1, <1>2 DEF Adds
<1> QED BY <1>3, <1>5, <1>6, <1>7

(* The adds of a plain addQueries, of all its queries together.            *)
LEMMA AddQueriesIs ==
    ASSUME NEW S \in SUBSET Query, eng.source \in SUBSET Row, IsFiniteSet(eng.source)
    PROVE  /\ AddQueries(S) \in Seq(RowChangeOf)
           /\ \A q \in S : /\ AddsOf(AddQueries(S), q, Rows(eng.source, q))
                           /\ \A r \in Rows(eng.source, q) : Adds(AddQueries(S), q, r)
<1> DEFINE H == UNION {Hydration(q) : q \in S}
           s == SetToSeq(H)
<1>1. \A c \in H : /\ c \in RowChangeOf /\ c.query \in S /\ c.type = "add"
                   /\ c.row \in Rows(eng.source, c.query) /\ c \in Hydration(c.query)
  <2> TAKE c \in H
  <2>1. PICK q \in S : c \in Hydration(q)
    OBVIOUS
  <2> QED BY <2>1, HydrationIs
<1>2. \A q \in S : \A r \in Rows(eng.source, q) : \E c \in H : c.query = q /\ c.row = r
  <2> TAKE q \in S
  <2> TAKE r \in Rows(eng.source, q)
  <2>1. PICK c \in Hydration(q) : c.row = r
    BY HydrationIs
  <2> QED BY <2>1, HydrationIs
<1>3. IsFiniteSet(H)
  <2> DEFINE f == [c \in H |-> <<c.query, c.row>>]
  <2>1. f \in [H -> S \X eng.source]
    BY <1>1 DEF Rows
  <2>2. \A c, e \in H : <<c.query, c.row>> = <<e.query, e.row>> => c = e
    <3> TAKE c, e \in H
    <3>1. HAVE <<c.query, c.row>> = <<e.query, e.row>>
    <3>2. c.query = e.query /\ c.row = e.row
      BY <3>1
    <3>3. c \in Hydration(c.query) /\ e \in Hydration(c.query) /\ c.query \in Query
      BY <1>1, <3>2
    <3> QED BY <3>2, <3>3, HydrationIs
  <2>3. f \in Injection(H, S \X eng.source)
    <3> HIDE DEF H
    <3> QED BY <2>1, <2>2 DEF Injection, IsInjective
  <2>4. IsFiniteSet(S)
    BY AdvanceStreamAssumption, FS_Subset
  <2>5. IsFiniteSet(S \X eng.source)
    BY <2>4, FS_Product
  <2> QED BY <2>3, <2>5, FS_Injection
<1>4. AddQueries(S) = s
  BY DEF AddQueries
<1>5. s \in Seq(H) /\ \A x \in H : \E i \in DOMAIN s : s[i] = x
  BY <1>3, SetToSeqIs
<1> HIDE DEF H, s
<1>6. \A i \in DOMAIN s : s[i] \in H
  BY <1>5
<1>7. s \in Seq(RowChangeOf)
  BY <1>1, <1>5, SeqMonotonic
<1>8. \A q \in S : AddsOf(s, q, Rows(eng.source, q))
  BY <1>1, <1>6 DEF AddsOf
<1>9. \A q \in S : \A r \in Rows(eng.source, q) : Adds(s, q, r)
  BY <1>2, <1>5 DEF Adds
<1> QED BY <1>4, <1>7, <1>8, <1>9

(* A nonempty set of places of a sequence has a last one.                  *)
LEMMA Greatest ==
    ASSUME NEW n \in Nat, NEW D \in SUBSET (1..n), D # {}
    PROVE  \E m \in D : \A j \in D : j <= m
<1> DEFINE P == {k \in Nat : \A E \in SUBSET (1..k) : E # {} => \E m \in E : \A j \in E : j <= m}
<1>1. 0 \in P
  <2>1. \A E \in SUBSET (1..0) : E = {}
    <3>1. 1..0 = {}
      OBVIOUS
    <3> QED BY <3>1
  <2> QED BY <2>1
<1>2. ASSUME NEW k \in Nat, k \in P PROVE k + 1 \in P
  <2> SUFFICES ASSUME NEW E \in SUBSET (1..(k + 1)), E # {} PROVE \E m \in E : \A j \in E : j <= m
    OBVIOUS
  <2>1. CASE k + 1 \in E
    BY <2>1
  <2>2. CASE k + 1 \notin E
    <3>1. E \in SUBSET (1..k)
      BY <2>2
    <3> QED BY <1>2, <3>1
  <2> QED BY <2>1, <2>2
<1>3. P = Nat
  <2>1. P \in SUBSET Nat
    OBVIOUS
  <2> HIDE DEF P
  <2> QED BY <1>1, <1>2, <2>1, Induction
<1> QED BY <1>3

(* A client with no rows that is told of all of T, and of nothing else,    *)
(* has T.                                                                  *)
LEMMA ApplyAdds ==
    ASSUME NEW q, NEW T, UniqueKeys(T), NEW s \in Seq(RowChangeOf),
           AddsOf(s, q, T), \A r \in T : Adds(s, q, r)
    PROVE  Apply(q, {}, s) = T
<1>1. Len(s) \in Nat /\ DOMAIN s = 1..Len(s)
  OBVIOUS
<1>2. Apply(q, {}, s) \subseteq T
  BY DEF Apply, AddsOf
<1>3. ASSUME NEW r \in T PROVE r \in Apply(q, {}, s)
  <2> DEFINE D == {i \in DOMAIN s : Touches(s[i], q, r)}
  <2>1. D \in SUBSET (1..Len(s)) /\ D # {}
    BY <1>1 DEF Adds, Touches
  <2>2. PICK m \in D : \A j \in D : j <= m
    <3> HIDE DEF D
    <3> QED BY <1>1, <2>1, Greatest
  <2>3. m \in DOMAIN s /\ s[m].query = q /\ s[m].row.key = r.key
    BY <2>2 DEF Touches
  <2>4. s[m].type = "add" /\ s[m].row \in T
    BY <2>3 DEF AddsOf
  <2>5. s[m].row = r
    BY <2>3, <2>4 DEF UniqueKeys
  <2>6. \A j \in DOMAIN s : j > m => ~Touches(s[j], q, s[m].row)
    BY <1>1, <2>2, <2>3, <2>5
  <2> QED BY <2>3, <2>4, <2>5, <2>6 DEF Apply
<1> QED BY <1>2, <1>3

(* The source changes of an advance are source changes.                    *)
LEMMA SourceChangesType ==
    ASSUME NEW s \in Seq(Diff)
    PROVE  SourceChanges(s) \in Seq(SourceChange)
<1>1. CASE s = <<>>
  <2>1. SourceChanges(<<>>) = <<>>
    BY DEF SourceChanges, FlattenSeq
  <2>2. <<>> \in Seq(SourceChange)
    OBVIOUS
  <2> QED BY <1>1, <2>1, <2>2, Zenon
<1>2. CASE s # <<>>
  <2>1. s[1] \in Diff
    BY <1>2
  <2> QED BY <2>1, SourceChangesAppend
<1> QED BY <1>1, <1>2
=============================================================================
