------------------------ MODULE AdvanceStreamProofs -------------------------
(***************************************************************************)
(* Types and frames of AdvanceStream, for every table, query, chunk size   *)
(* and bound.                                                              *)
(*                                                                         *)
(* FrameContract is not inductive: that a frame has the next index and     *)
(* that no final frame is before it follows from what the worker still has *)
(* to send (HydrateFrames, AdvanceFrames), that a reply comes after all    *)
(* frames from the fact that a call is in one place only: queued, being    *)
(* worked on, in a writer's hands or on the connection (LaneInv).          *)
(***************************************************************************)
EXTENDS AdvanceStreamLemmas

-----------------------------------------------------------------------------
(* The inductive invariant: types.                                         *)

ClientState == [pc: {"reset", "init", "load", "rehydrate", "idle", "add", "advance"},
                id: {0, 1}, at: Nat, target: Nat, left: SUBSET Row, adding: SUBSET Query,
                got: Seq(Frame), lossy: BOOLEAN]
Part == [left: Seq(RowChangeOf), index: Nat, done: BOOLEAN]
WorkState == [pc: {"idle", "hydrate", "advance"}, id: {0, 1}, stream: BOOLEAN,
              todo: Seq(SourceChange), pending: Seq(RowChangeOf), index: Nat,
              parts: UNION {[Q -> Part] : Q \in SUBSET Query}]
EngineState == [open: BOOLEAN, source: SUBSET Row, pipelines: SUBSET Query,
                accumulated: Seq(RowChangeOf)]
Request ==
    [method: {"init", "loadRows"}, id: {0, 1}, arg: {S \in SUBSET Row : IsFiniteSet(S)}]
    \cup [method: {"addQueries", "addQueriesStream"}, id: {0, 1}, arg: SUBSET Query]
    \cup [method: {"removeQuery"}, id: {RemoveId}, arg: SUBSET Query]
    \cup [method: {"advance", "advanceStream"}, id: {0, 1}, arg: Seq(Diff)]

ReplicaInv ==
    /\ hist \in Seq(Table) /\ diffs \in Seq(Diff) /\ Len(hist) = Len(diffs) + 1
    /\ \A i \in DOMAIN hist : IsFiniteSet(hist[i])
    /\ \A i \in DOMAIN diffs : IsChange(hist[i], diffs[i], hist[i + 1])

ClientInv ==
    /\ client \in ClientState /\ client.at \in DOMAIN hist /\ client.target \in DOMAIN hist
    /\ client.pc \in {"init", "load", "rehydrate", "advance"} => client.at <= client.target
    /\ client.pc \in {"idle", "add"} /\ ~client.lossy => client.target = client.at
    /\ client.pc \in {"init", "load", "rehydrate"} => ~client.lossy
    /\ client.pc \in {"rehydrate", "idle", "add", "advance"} => client.left = {}
    /\ IsFiniteSet(client.left)
    /\ client.adding # {} => client.pc = "add"
    /\ client.adding \cap held = {}
    /\ held \in SUBSET Query /\ view \in [Query -> SUBSET Row]

SidecarInv ==
    /\ wire \in Seq(Frame) /\ replies \in SUBSET Frame /\ reqs \in Seq(Request)
    /\ work \in WorkState /\ eng \in EngineState /\ IsFiniteSet(eng.source)

TypeInv == ReplicaInv /\ ClientInv /\ SidecarInv

-----------------------------------------------------------------------------
(* One call at a time: a call is in the queue, in the worker's hands, in a *)
(* writer's or answered on the wire, and its frames are the only ones with *)
(* its id.                                                                 *)

Waiting == client.pc \in {"init", "rehydrate", "add", "advance"}

IdInv ==
    /\ \A i \in DOMAIN reqs : reqs[i].id \in {client.id, RemoveId}
    /\ \A r \in replies : /\ r.type = "reply" /\ r.status # "closed"
                          /\ r.id = client.id \/ (r.id = RemoveId /\ r.changes = <<>>)
    /\ \A i \in DOMAIN wire :
         \/ wire[i].id = client.id /\ wire[i].status # "closed"
         \/ wire[i].id = RemoveId /\ wire[i].type = "reply" /\ wire[i].changes = <<>>
    /\ \A i \in DOMAIN client.got : client.got[i].id = client.id /\ client.got[i].type = "partial"
    /\ work.pc = "idle" => work = Idle
    /\ work.pc # "idle" => work.id = client.id

RestInv ==
    ~Waiting =>
        /\ \A i \in DOMAIN reqs : reqs[i].id # client.id
        /\ work.pc = "idle" /\ client.got = <<>>
        /\ \A r \in replies : r.id # client.id
        /\ \A i \in DOMAIN wire : wire[i].id # client.id

QueuedInv ==
    \A i \in DOMAIN reqs : reqs[i].id = client.id =>
        /\ \A j \in DOMAIN reqs : reqs[j].id = client.id => j = i
        /\ work.pc = "idle" /\ client.got = <<>>
        /\ \A r \in replies : r.id # client.id
        /\ \A j \in DOMAIN wire : wire[j].id # client.id

BusyInv ==
    work.pc # "idle" =>
        /\ \A r \in replies : r.id # client.id
        /\ \A j \in DOMAIN wire : wire[j].id = client.id => wire[j].type = "partial"

AnsweredInv ==
    /\ \A r \in replies : r.id = client.id =>
        /\ \A s \in replies : s.id = client.id => s = r
        /\ \A j \in DOMAIN wire : wire[j].id = client.id => wire[j].type = "partial"
    /\ \A i \in DOMAIN wire : wire[i].id = client.id /\ wire[i].type = "reply" =>
        \A j \in DOMAIN wire : j > i => wire[j].id # client.id

ClosedInv ==
    \A i \in DOMAIN wire : wire[i].status = "closed" =>
        i = Len(wire) /\ reqs = <<>> /\ replies = {} /\ work.pc = "idle" /\ eng = NoEngine

LoadInv ==
    client.pc = "init" =>
        /\ client.got = <<>> /\ work.pc = "idle"
        /\ \A i \in DOMAIN wire : wire[i].id = client.id => wire[i].type = "reply"
        /\ \A i \in DOMAIN reqs : reqs[i].id = client.id => reqs[i].method \in {"init", "loadRows"}

LaneInv == IdInv /\ RestInv /\ QueuedInv /\ BusyInv /\ AnsweredInv /\ ClosedInv /\ LoadInv

-----------------------------------------------------------------------------
(* The frames of the call.                                                 *)

HydrateFrames ==
    work.pc = "hydrate" =>
        /\ \A i \in Mine : /\ Frames[i].query \in DOMAIN work.parts
                           /\ Frames[i].index < work.parts[Frames[i].query].index
                           /\ Frames[i].final => work.parts[Frames[i].query].done
        /\ \A q \in DOMAIN work.parts :
             /\ \A n \in 0..(work.parts[q].index - 1) : \E i \in Stream(q) : Frames[i].index = n
             /\ work.parts[q].done => \E i \in Stream(q) : Frames[i].final

AdvanceFrames ==
    work.pc = "advance" =>
        /\ \A i \in Mine : Frames[i].query = NoQuery /\ Frames[i].index < work.index /\ ~Frames[i].final
        /\ \A n \in 0..(work.index - 1) : \E i \in Stream(NoQuery) : Frames[i].index = n
        /\ work.stream \/ work.index = 0

Finals == \A q \in Query \cup {NoQuery} : Stream(q) # {} => \E j \in Stream(q) : Frames[j].final

AnswerFrames == \A r \in replies : r.id = client.id => Finals

FrameInv == FrameContract /\ HydrateFrames /\ AdvanceFrames /\ AnswerFrames

(* What a request's argument is, by its method.                            *)
LEMMA RequestIs ==
    ASSUME NEW r \in Request
    PROVE  /\ r.id \in {0, 1, RemoveId}
           /\ r.method \in {"init", "loadRows", "addQueries", "addQueriesStream",
                            "removeQuery", "advance", "advanceStream"}
           /\ r.method \in {"init", "loadRows"} => r.arg \in SUBSET Row /\ IsFiniteSet(r.arg)
           /\ r.method \in {"addQueries", "addQueriesStream", "removeQuery"} => r.arg \in SUBSET Query
           /\ r.method \in {"advance", "advanceStream"} => r.arg \in Seq(Diff)
           /\ r.method = "removeQuery" <=> r.id = RemoveId
  BY DEF Request, RemoveId

(* The steps of the sidecar, of the view-syncer and of the replica.        *)
SidecarStep == Work \/ WriteReply \/ Kill \/ PushPanics
ClientStep == Read \/ Call \/ (\E q \in Query : RemoveQuery(q)) \/ DropAdvance
ReplicaStep == \E r \in Row : Put(r) \/ Delete(r)

(* Every step is one of the sidecar, the view-syncer or the replica.       *)
LEMMA Steps == Next <=> SidecarStep \/ ClientStep \/ ReplicaStep
  BY DEF Next, SidecarStep, ClientStep, ReplicaStep

(* The sidecar touches neither the replica nor the view-syncer.            *)
LEMMA SidecarFrame ==
    ASSUME SidecarStep
    PROVE  UNCHANGED <<replica, viewSyncer, removes>>
<1>1. CASE Handle
  BY <1>1 DEF Handle, handleInit, Refused, handleLoadRows, handleRemoveQuery, handleAddQueries,
     handleAddQueriesStream, handleAdvance, handleAdvanceStream, Taking
<1>2. CASE \E q \in Query : HydrateChunk(q)
  BY <1>2 DEF HydrateChunk, HydrateFrame
<1>3. CASE HydrateDone
  BY <1>3 DEF HydrateDone
<1>4. CASE Push
  BY <1>4 DEF Push
<1>5. CASE AdvanceDone \/ AdvanceDrifts
  BY <1>5 DEF AdvanceDone, AdvanceDrifts, Finish
<1>6. CASE WriteReply \/ Kill \/ PushPanics
  BY <1>6 DEF WriteReply, Kill, PushPanics
<1> QED BY <1>1, <1>2, <1>3, <1>4, <1>5, <1>6 DEF SidecarStep, Work

(* The view-syncer touches neither the replica nor the worker, its engine  *)
(* and its replies.                                                        *)
LEMMA ClientFrame ==
    ASSUME ClientStep
    PROVE  UNCHANGED <<replica, replies, work, eng>>
<1>1. CASE Read
  BY <1>1 DEF Read, ReadOther, ReadPartial, ReadFailure, ReadLoaded, ReadRehydrated, ReadAdded,
     ReadAdvanced, ReadOk, Reading, sidecar
<1>2. CASE Call
  BY <1>2 DEF Call, CallInit, CallLoadRows, CallRehydrate, CallAddQueries, CallAdvance, Calls
<1>3. CASE (\E q \in Query : RemoveQuery(q)) \/ DropAdvance
  BY <1>3 DEF RemoveQuery, DropAdvance, sidecar
<1> QED BY <1>1, <1>2, <1>3 DEF ClientStep

(* The replica touches nothing else.                                       *)
LEMMA ReplicaFrame ==
    ASSUME ReplicaStep
    PROVE  UNCHANGED <<client, held, view, wire, replies, reqs, work, eng, faults, removes>>
  BY DEF ReplicaStep, Put, Delete, CommitVersion, viewSyncer, sidecar

-----------------------------------------------------------------------------
(* Types: the replica.                                                     *)
LEMMA ReplicaNext ==
    ASSUME ReplicaInv, ReplicaStep
    PROVE  /\ ReplicaInv' /\ DOMAIN hist \subseteq DOMAIN hist'
           /\ \A i \in DOMAIN hist : hist'[i] = hist[i]
           /\ Len(hist') = Len(hist) + 1 /\ SubSeq(hist', 1, Len(hist)) = hist
           /\ \A i \in DOMAIN diffs : i \in DOMAIN diffs' /\ diffs'[i] = diffs[i]
<1> DEFINE n == Len(hist)
           S == hist[n]
<1>1. /\ hist \in Seq(Table) /\ diffs \in Seq(Diff) /\ n = Len(diffs) + 1
      /\ Len(diffs) \in Nat /\ n \in Nat /\ DOMAIN hist = 1..n /\ DOMAIN diffs = 1..Len(diffs)
      /\ \A i \in DOMAIN hist : IsFiniteSet(hist[i])
      /\ \A i \in DOMAIN diffs : IsChange(hist[i], diffs[i], hist[i + 1])
  BY DEF ReplicaInv
<1>2. S \in Table /\ S \in SUBSET Row /\ IsFiniteSet(S) /\ \A r, s \in S : r.key = s.key \/ r.val = s.val => r = s
  BY <1>1 DEF Table
<1> HIDE DEF n, S
<1>3. PICK prev, next : /\ hist' = Append(hist, (S \ prev) \cup ({next} \ {NoRow}))
                        /\ diffs' = Append(diffs, [prev |-> prev, next |-> next])
                        /\ prev \in SUBSET S
                        /\ \/ /\ next \in Row /\ next \notin S
                              /\ prev = {p \in S : p.key = next.key \/ p.val = next.val}
                           \/ next = NoRow /\ \E r \in S : prev = {r}
  <2>1. PICK r \in Row : Put(r) \/ Delete(r)
    BY DEF ReplicaStep
  <2>2. CASE Put(r)
    <3> DEFINE prev == {p \in S : p.key = r.key \/ p.val = r.val}
    <3>1. r \notin S /\ CommitVersion(prev, r)
      BY <2>2 DEF Put, S, n
    <3>2. /\ hist' = Append(hist, (S \ prev) \cup ({r} \ {NoRow}))
          /\ diffs' = Append(diffs, [prev |-> prev, next |-> r])
      BY <3>1 DEF CommitVersion, S, n
    <3> QED BY <2>1, <3>1, <3>2
  <2>3. CASE Delete(r)
    <3>1. r \in S /\ CommitVersion({r}, NoRow)
      BY <2>3 DEF Delete, S, n
    <3>2. /\ hist' = Append(hist, (S \ {r}) \cup ({NoRow} \ {NoRow}))
          /\ diffs' = Append(diffs, [prev |-> {r}, next |-> NoRow])
      BY <3>1 DEF CommitVersion, S, n
    <3> QED BY <3>1, <3>2
  <2> QED BY <2>1, <2>2, <2>3
<1> DEFINE T == (S \ prev) \cup ({next} \ {NoRow})
           d == [prev |-> prev, next |-> next]
<1>4. d \in Diff /\ d.prev = prev /\ d.next = next
  <2>1. IsFiniteSet(prev)
    BY <1>2, <1>3, FS_Subset
  <2>2. prev \in SUBSET Row /\ next \in Row \cup {NoRow}
    BY <1>2, <1>3
  <2> QED BY <2>1, <2>2 DEF Diff
<1>5. T \in Table
  <2>1. CASE next = NoRow
    BY <1>2, <2>1 DEF Table
  <2>2. CASE next # NoRow
    BY <1>2, <1>3, <2>2 DEF Table
  <2> QED BY <2>1, <2>2
<1>6. IsFiniteSet(T)
  <2>1. IsFiniteSet(S \cup {next})
    BY <1>2, FS_AddElement
  <2>2. T \in SUBSET (S \cup {next})
    OBVIOUS
  <2> QED BY <2>1, <2>2, FS_Subset
<1>7. IsChange(S, d, T)
  <2> HIDE DEF d
  <2> QED BY <1>3, <1>4 DEF IsChange
<1>8. hist' = Append(hist, T) /\ diffs' = Append(diffs, d)
  BY <1>3
<1> HIDE DEF T, d
<1>9. /\ hist' \in Seq(Table) /\ Len(hist') = n + 1 /\ DOMAIN hist' = 1..(n + 1)
      /\ (\A i \in 1..n : hist'[i] = hist[i]) /\ hist'[n + 1] = T
  BY <1>1, <1>5, <1>8
<1>10. /\ diffs' \in Seq(Diff) /\ Len(diffs') = n /\ DOMAIN diffs' = 1..n
       /\ (\A i \in 1..Len(diffs) : diffs'[i] = diffs[i]) /\ diffs'[n] = d
  BY <1>1, <1>4, <1>8
<1>11. \A i \in DOMAIN hist' : IsFiniteSet(hist'[i])
  BY <1>1, <1>6, <1>9
<1>12. \A i \in DOMAIN diffs' : IsChange(hist'[i], diffs'[i], hist'[i + 1])
  <2> TAKE i \in DOMAIN diffs'
  <2>1. CASE i \in DOMAIN diffs
    BY <1>1, <1>9, <1>10, <2>1
  <2>2. CASE i = n
    <3>1. n \in 1..n
      BY <1>1
    <3> QED BY <1>7, <1>9, <1>10, <2>2, <3>1 DEF S
  <2> QED BY <1>1, <1>10, <2>1, <2>2
<1>13. SubSeq(hist', 1, n) = hist
  <2>1. SubSeq(hist', 1, n) \in Seq(Table) /\ Len(SubSeq(hist', 1, n)) = n
        /\ \A i \in 1..n : SubSeq(hist', 1, n)[i] = hist'[i]
    BY <1>1, <1>9
  <2> QED BY <1>1, <1>9, <2>1, SeqEqual DEF n
<1>14. ReplicaInv'
  BY <1>1, <1>9, <1>10, <1>11, <1>12 DEF ReplicaInv, n
<1> QED BY <1>1, <1>9, <1>10, <1>13, <1>14 DEF n

(* Types: the view-syncer.                                                 *)
LEMMA ClientNext ==
    ASSUME TypeInv, ClientStep
    PROVE  ClientInv'
<1>1. /\ client \in ClientState /\ client.at \in DOMAIN hist /\ client.target \in DOMAIN hist
      /\ client.pc \in {"init", "load", "rehydrate", "advance"} => client.at <= client.target
      /\ client.pc \in {"idle", "add"} /\ ~client.lossy => client.target = client.at
      /\ client.pc \in {"init", "load", "rehydrate"} => ~client.lossy
      /\ client.pc \in {"rehydrate", "idle", "add", "advance"} => client.left = {}
      /\ IsFiniteSet(client.left)
      /\ client.adding # {} => client.pc = "add"
      /\ client.adding \cap held = {}
      /\ held \in SUBSET Query /\ view \in [Query -> SUBSET Row]
  BY DEF TypeInv, ClientInv
<1>0. <<>> \in Seq(Frame) /\ \A c \in ClientState : c.got \in Seq(Frame) /\ \A f \in Frame : Append(c.got, f) \in Seq(Frame)
  <2>1. \A c \in ClientState : c.got \in Seq(Frame)
    BY DEF ClientState
  <2> QED BY <2>1
<1>2. /\ DOMAIN hist = 1..Len(hist) /\ Len(hist) \in Nat /\ Len(hist) \in DOMAIN hist
      /\ hist[Len(hist)] \in SUBSET Row /\ IsFiniteSet(hist[Len(hist)])
      /\ \A i \in DOMAIN hist : i \in Nat /\ i <= Len(hist)
  <2>1. hist \in Seq(Table) /\ diffs \in Seq(Diff) /\ Len(hist) = Len(diffs) + 1
        /\ \A i \in DOMAIN hist : IsFiniteSet(hist[i])
    BY DEF TypeInv, ReplicaInv
  <2>2. Len(hist) \in DOMAIN hist
    BY <2>1
  <2> QED BY <2>1, <2>2 DEF Table
<1>3. UNCHANGED <<replica, replies, work, eng>> /\ hist' = hist
  BY ClientFrame DEF replica
<1>4. CASE Read
  <2>0. wire \in Seq(Frame)
    BY DEF TypeInv, SidecarInv
  <2>1. CASE ReadOther
    BY <1>1, <1>3, <2>1 DEF ReadOther, viewSyncer, ClientInv
  <2>2. CASE ReadPartial
    <3>1. wire # <<>> /\ client' = [client EXCEPT !.got = Append(@, Head(wire))] /\ held' = held /\ view' = view
      BY <2>2 DEF ReadPartial, Reading
    <3>2. Head(wire) \in Frame
      BY <2>0, <3>1
    <3>3. client' \in ClientState /\ (client'.pc = client.pc /\ client'.at = client.at /\ client'.target = client.target /\ client'.left = client.left /\ client'.adding = client.adding /\ client'.lossy = client.lossy)
      BY <1>0, <1>1, <3>1, <3>2 DEF ClientState
    <3> QED BY <1>1, <1>3, <3>1, <3>3 DEF ClientInv
  <2>3. CASE ReadFailure
    <3>1. client' = [client EXCEPT !.pc = "reset", !.got = <<>>, !.adding = {}, !.target = client.at]
          /\ held' = held /\ view' = view
      BY <2>3 DEF ReadFailure
    <3>2. client' \in ClientState /\ client'.pc = "reset" /\ client'.at = client.at /\ client'.target = client.at
          /\ client'.adding = {} /\ client'.left = client.left
      BY <1>0, <1>1, <3>1 DEF ClientState
    <3> QED BY <1>1, <1>3, <3>1, <3>2 DEF ClientInv
  <2>4. CASE ReadLoaded
    <3>1. client' = [client EXCEPT !.pc = "load"] /\ client.pc = "init" /\ held' = held /\ view' = view
      BY <2>4 DEF ReadLoaded, ReadOk
    <3>2. client' \in ClientState /\ client'.pc = "load" /\ (client'.at = client.at /\ client'.target = client.target /\ client'.left = client.left /\ client'.adding = client.adding /\ client'.lossy = client.lossy)
      BY <1>0, <1>1, <3>1 DEF ClientState
    <3> QED BY <1>1, <1>3, <3>1, <3>2 DEF ClientInv
  <2> DEFINE s == Received
  <2>5. wire # <<>> => \A q, X : X \in SUBSET Row => Apply(q, X, s) \in SUBSET Row
    <3> SUFFICES ASSUME wire # <<>> PROVE \A q, X : X \in SUBSET Row => Apply(q, X, s) \in SUBSET Row
      OBVIOUS
    <3>1. Append(client.got, Head(wire)) \in Seq(Frame)
      <4>1. Head(wire) \in Frame
        BY <2>0
      <4> QED BY <1>0, <1>1, <4>1
    <3>2. s \in Seq(RowChangeOf)
      BY <3>1, ChangesType DEF Received
    <3> HIDE DEF s
    <3>3. \A i \in DOMAIN s : s[i].row \in Row
      <4>1. \A c \in RowChangeOf : c.row \in Row
        BY DEF RowChangeOf
      <4> QED BY <3>2, <4>1
    <3> QED BY <3>3 DEF Apply
  <2> HIDE DEF s
  <2>6. CASE ReadRehydrated \/ ReadAdvanced
    <3>1. client' = [client EXCEPT !.pc = "idle", !.got = <<>>, !.at = client.target] /\ held' = held
          /\ client.pc \in {"rehydrate", "advance"} /\ wire # <<>>
      BY <2>6 DEF ReadRehydrated, ReadAdvanced, ReadOk, Reading
    <3>2. client' \in ClientState /\ client'.pc = "idle" /\ client'.at = client.target
          /\ (client'.target = client.target /\ client'.left = client.left /\ client'.adding = client.adding /\ client'.lossy = client.lossy)
      BY <1>0, <1>1, <1>2, <3>1 DEF ClientState
    <3>3. view' \in [Query -> SUBSET Row]
      <4>2. CASE ReadRehydrated
        BY <2>5, <3>1, <4>2 DEF ReadRehydrated, s
      <4>3. CASE ReadAdvanced
        BY <1>1, <2>5, <3>1, <4>3 DEF ReadAdvanced, s
      <4> QED BY <2>6, <4>2, <4>3
    <3> QED BY <1>1, <1>3, <3>1, <3>2, <3>3 DEF ClientInv
  <2>7. CASE ReadAdded
    <3>1. client' = [client EXCEPT !.pc = "idle", !.got = <<>>, !.adding = {}] /\ held' = held \cup client.adding
          /\ client.pc = "add" /\ wire # <<>>
      BY <2>7 DEF ReadAdded, ReadOk, Reading
    <3>2. client' \in ClientState /\ client'.pc = "idle" /\ client'.adding = {}
          /\ (client'.at = client.at /\ client'.target = client.target /\ client'.left = client.left /\ client'.lossy = client.lossy)
      BY <1>0, <1>1, <3>1 DEF ClientState
    <3>3. client.adding \in SUBSET Query
      BY <1>1 DEF ClientState
    <3>4. view' \in [Query -> SUBSET Row]
      BY <1>1, <2>5, <2>7, <3>1 DEF ReadAdded, s
    <3> QED BY <1>1, <1>3, <3>1, <3>2, <3>3, <3>4 DEF ClientInv
  <2> QED BY <1>4, <2>1, <2>2, <2>3, <2>4, <2>6, <2>7 DEF Read
<1>5. CASE Call
  <2>0. ASSUME NEW m, NEW a, NEW n \in ClientState, Calls(m, a, n)
        PROVE  /\ client' \in ClientState /\ held' = held /\ view' = view
               /\ client'.pc = n.pc /\ client'.at = n.at /\ client'.target = n.target
               /\ client'.left = n.left /\ client'.adding = n.adding /\ client'.lossy = n.lossy
    <3>1. client' = [n EXCEPT !.id = 1 - n.id] /\ held' = held /\ view' = view
      BY <2>0 DEF Calls
    <3>2. n.id \in {0, 1}
      BY DEF ClientState
    <3>3. 1 - n.id \in {0, 1}
      BY <3>2
    <3> QED BY <3>1, <3>3 DEF ClientState
  <2>1. CASE CallInit
    <3> DEFINE n == [client EXCEPT !.pc = "init", !.target = Len(hist), !.left = hist[Len(hist)], !.lossy = FALSE]
    <3>1. client.pc = "reset" /\ \E m1, a : Calls(m1, a, n)
      BY <2>1 DEF CallInit
    <3>4. n \in ClientState
      BY <1>1, <1>2 DEF ClientState
    <3>5. /\ n.pc = "init" /\ n.at = client.at /\ n.target = Len(hist)
          /\ n.left = hist[Len(hist)] /\ ~n.lossy /\ n.adding = client.adding
      BY <1>1 DEF ClientState
    <3> HIDE DEF n
    <3>2. /\ held' = held /\ view' = view /\ client' \in ClientState /\ client'.pc = "init" /\ client'.at = client.at /\ client'.target = Len(hist)
          /\ client'.left = hist[Len(hist)] /\ ~client'.lossy /\ client'.adding = client.adding
      BY <2>0, <3>1, <3>4, <3>5
    <3> QED BY <1>1, <1>2, <1>3, <3>1, <3>2 DEF ClientInv
  <2>2. CASE \E S \in SUBSET Row : CallLoadRows(S)
    <3>0. PICK S \in SUBSET Row : CallLoadRows(S)
      BY <2>2
    <3> DEFINE n == [client EXCEPT !.pc = "init", !.left = @ \ S]
    <3>1. client.pc = "load" /\ \E m1, a : Calls(m1, a, n)
      BY <3>0 DEF CallLoadRows
    <3>4. n \in ClientState
      BY <1>1, <1>2 DEF ClientState
    <3>5. /\ n.pc = "init" /\ n.left = client.left \ S
          /\ (n.at = client.at /\ n.target = client.target /\ n.adding = client.adding /\ n.lossy = client.lossy)
      BY <1>1 DEF ClientState
    <3> HIDE DEF n
    <3>2. /\ held' = held /\ view' = view /\ client' \in ClientState /\ client'.pc = "init" /\ client'.left = client.left \ S
          /\ (client'.at = client.at /\ client'.target = client.target /\ client'.adding = client.adding /\ client'.lossy = client.lossy)
      BY <2>0, <3>1, <3>4, <3>5
    <3>3. IsFiniteSet(client.left \ S)
      BY <1>1, FS_Difference
    <3> QED BY <1>1, <1>2, <1>3, <3>1, <3>2, <3>3 DEF ClientInv
  <2>3. CASE CallRehydrate
    <3> DEFINE n == [client EXCEPT !.pc = "rehydrate"]
    <3>1. client.pc = "load" /\ client.left = {} /\ \E m1, a : Calls(m1, a, n)
      BY <2>3 DEF CallRehydrate
    <3>4. n \in ClientState
      BY <1>1, <1>2 DEF ClientState
    <3>5. /\ n.pc = "rehydrate"
          /\ (n.at = client.at /\ n.target = client.target /\ n.left = client.left /\ n.adding = client.adding /\ n.lossy = client.lossy)
      BY <1>1 DEF ClientState
    <3> HIDE DEF n
    <3>2. /\ held' = held /\ view' = view /\ client' \in ClientState /\ client'.pc = "rehydrate"
          /\ (client'.at = client.at /\ client'.target = client.target /\ client'.left = client.left /\ client'.adding = client.adding /\ client'.lossy = client.lossy)
      BY <2>0, <3>1, <3>4, <3>5
    <3> QED BY <1>1, <1>2, <1>3, <3>1, <3>2 DEF ClientInv
  <2>4. CASE \E m \in {"addQueries", "addQueriesStream"}, S \in SUBSET Query : CallAddQueries(m, S)
    <3>0. PICK m \in {"addQueries", "addQueriesStream"}, S \in SUBSET Query : CallAddQueries(m, S)
      BY <2>4
    <3> DEFINE n == [client EXCEPT !.pc = "add", !.adding = S]
    <3>1. client.pc = "idle" /\ S \cap held = {} /\ \E m1, a : Calls(m1, a, n)
      BY <3>0 DEF CallAddQueries
    <3>4. n \in ClientState
      BY <1>1, <1>2 DEF ClientState
    <3>5. /\ n.pc = "add" /\ n.adding = S
          /\ (n.at = client.at /\ n.target = client.target /\ n.left = client.left /\ n.lossy = client.lossy)
      BY <1>1 DEF ClientState
    <3> HIDE DEF n
    <3>2. /\ held' = held /\ view' = view /\ client' \in ClientState /\ client'.pc = "add" /\ client'.adding = S
          /\ (client'.at = client.at /\ client'.target = client.target /\ client'.left = client.left /\ client'.lossy = client.lossy)
      BY <2>0, <3>1, <3>4, <3>5
    <3> QED BY <1>1, <1>2, <1>3, <3>1, <3>2 DEF ClientInv
  <2>5. CASE \E m \in {"advance", "advanceStream"} : CallAdvance(m)
    <3>0. PICK m \in {"advance", "advanceStream"} : CallAdvance(m)
      BY <2>5
    <3> DEFINE n == [client EXCEPT !.pc = "advance", !.target = Len(hist)]
    <3>1. client.pc = "idle" /\ \E m1, a : Calls(m1, a, n)
      BY <3>0 DEF CallAdvance
    <3>4. n \in ClientState
      BY <1>1, <1>2 DEF ClientState
    <3>5. /\ n.pc = "advance" /\ n.target = Len(hist)
          /\ (n.at = client.at /\ n.adding = client.adding /\ n.left = client.left /\ n.lossy = client.lossy)
      BY <1>1 DEF ClientState
    <3> HIDE DEF n
    <3>2. /\ held' = held /\ view' = view /\ client' \in ClientState /\ client'.pc = "advance" /\ client'.target = Len(hist)
          /\ (client'.at = client.at /\ client'.adding = client.adding /\ client'.left = client.left /\ client'.lossy = client.lossy)
      BY <2>0, <3>1, <3>4, <3>5
    <3> QED BY <1>1, <1>2, <1>3, <3>1, <3>2 DEF ClientInv
  <2> QED BY <1>5, <2>1, <2>2, <2>3, <2>4, <2>5 DEF Call
<1>6. CASE \E q \in Query : RemoveQuery(q)
  <2>1. PICK q \in Query : held' = held \ {q} /\ view' = [view EXCEPT ![q] = {}] /\ client' = client
    BY <1>6 DEF RemoveQuery
  <2>2. view' \in [Query -> SUBSET Row] /\ held' \in SUBSET Query
    BY <1>1, <2>1
  <2> QED BY <1>1, <1>3, <2>1, <2>2 DEF ClientInv
<1>7. CASE DropAdvance
  <2>1. client' = [client EXCEPT !.at = Len(hist), !.lossy = TRUE] /\ client.pc = "idle" /\ held' = held /\ view' = view
    BY <1>7 DEF DropAdvance
  <2>2. /\ client' \in ClientState /\ client'.at = Len(hist) /\ client'.lossy
        /\ (client'.pc = client.pc /\ client'.target = client.target /\ client'.adding = client.adding /\ client'.left = client.left)
    BY <1>1, <1>2, <2>1 DEF ClientState
  <2> QED BY <1>1, <1>2, <1>3, <2>1, <2>2 DEF ClientInv
<1> QED BY <1>4, <1>5, <1>6, <1>7 DEF ClientStep

-----------------------------------------------------------------------------
(* Types: the sidecar.                                                     *)
LEMMA PartialIs ==
    ASSUME NEW id \in {0, 1}, NEW q \in Query \cup {NoQuery}, NEW s \in Seq(RowChangeOf), NEW n \in Nat,
           NEW final \in BOOLEAN, NEW drift \in BOOLEAN
    PROVE  Partial(id, q, s, n, final, drift) \in Frame
  BY DEF Partial, Frame, Status, NoQuery, RemoveId

(* The fields of a partial frame.                                          *)
LEMMA PartialFields ==
    ASSUME NEW id, NEW q, NEW s, NEW n, NEW final, NEW drift, NEW f, f = Partial(id, q, s, n, final, drift)
    PROVE  /\ f.type = "partial" /\ f.id = id /\ f.query = q /\ f.changes = s
           /\ f.index = n /\ f.final = final /\ f.status = (IF drift THEN "drift" ELSE "ok")
  BY DEF Partial

(* A reply is a frame.                                                     *)
LEMMA ReplyIs ==
    ASSUME NEW id \in {0, 1, RemoveId}, NEW status \in Status, NEW s \in Seq(RowChangeOf)
    PROVE  Reply(id, status, s) \in Frame
  BY DEF Reply, Frame, Status, NoQuery, RemoveId

(* The fields of a reply.                                                  *)
LEMMA ReplyFields ==
    ASSUME NEW id, NEW status, NEW s, NEW f, f = Reply(id, status, s)
    PROVE  /\ f.type = "reply" /\ f.id = id /\ f.query = NoQuery /\ f.changes = s
           /\ f.status = status /\ f.final
  BY DEF Reply

(* The end of the connection, as a frame.                                  *)
LEMMA ClosedIs ==
    /\ ConnectionClosed \in Frame /\ ConnectionClosed.type = "reply" /\ ConnectionClosed.id = RemoveId
    /\ ConnectionClosed.changes = <<>> /\ ConnectionClosed.status = "closed"
<1>1. <<>> \in Seq(RowChangeOf) /\ "closed" \in Status
  BY DEF Status
<1> QED BY <1>1 DEF ConnectionClosed, Reply, Frame, NoQuery, RemoveId

(* The worker between requests.                                            *)
LEMMA IdleIs == Idle \in WorkState /\ Idle.pc = "idle"
<1>1. <<>> \in Seq(SourceChange) /\ <<>> \in Seq(RowChangeOf)
  OBVIOUS
<1>2. <<>> \in [{} -> Part]
  OBVIOUS
<1>3. <<>> \in UNION {[Q -> Part] : Q \in SUBSET Query}
  BY <1>2
<1> QED BY <1>1, <1>3 DEF Idle, WorkState

(* A new engine and no engine: both are empty.                             *)
LEMMA EnginesAre ==
    /\ NewEngine \in EngineState /\ NewEngine.open /\ NewEngine.source = {} /\ NewEngine.pipelines = {}
    /\ NewEngine.accumulated = <<>> /\ NoEngine \in EngineState /\ ~NoEngine.open /\ NoEngine.source = {}
    /\ NoEngine.pipelines = {} /\ NoEngine.accumulated = <<>> /\ IsFiniteSet({})
<1>1. <<>> \in Seq(RowChangeOf) /\ IsFiniteSet({})
  BY FS_EmptySet
<1> QED BY <1>1 DEF NewEngine, NoEngine, EngineState

(* MemorySource.writeChange leaves a finite set of rows.                   *)
LEMMA WriteType ==
    ASSUME NEW S \in SUBSET Row, IsFiniteSet(S), NEW sc \in SourceChange
    PROVE  writeChange(S, sc) \in SUBSET Row /\ IsFiniteSet(writeChange(S, sc))
<1>1. sc.row \in Row /\ sc.type \in {"add", "remove", "edit"}
  BY DEF SourceChange
<1>2. writeChange(S, sc) \in SUBSET (S \cup {sc.row})
  BY <1>1 DEF writeChange
<1>3. IsFiniteSet(S \cup {sc.row})
  BY FS_AddElement
<1> QED BY <1>1, <1>2, <1>3, FS_Subset

(* Types: the process dies.                                                *)
LEMMA DiesType ==
    ASSUME SidecarInv, Dies
    PROVE  SidecarInv'
<1>1. wire' \in Seq(Frame)
  BY ClosedIs DEF Dies, SidecarInv
<1> QED BY <1>1, IdleIs, EnginesAre DEF Dies, SidecarInv

(* Types: the worker takes a request.                                      *)
LEMMA HandleType ==
    ASSUME SidecarInv, Handle
    PROVE  SidecarInv'
<1> DEFINE r == Head(reqs)
<1>1. /\ wire \in Seq(Frame) /\ replies \in SUBSET Frame /\ reqs \in Seq(Request)
      /\ work \in WorkState /\ eng \in EngineState /\ IsFiniteSet(eng.source)
  BY DEF SidecarInv
<1>2. /\ reqs # <<>> /\ reqs' = Tail(reqs) /\ wire' = wire
  BY DEF Handle, handleInit, Refused, handleLoadRows, handleRemoveQuery, handleAddQueries,
     handleAddQueriesStream, handleAdvance, handleAdvanceStream, Taking
<1>3. r \in Request /\ reqs' \in Seq(Request)
  BY <1>1, <1>2
<1> HIDE DEF r
<1>4. r.id \in {0, 1, RemoveId} /\ (r.method # "removeQuery" => r.id \in {0, 1})
  BY <1>3, RequestIs
<1>5. /\ eng.source \in SUBSET Row /\ eng.pipelines \in SUBSET Query
      /\ eng.accumulated \in Seq(RowChangeOf) /\ eng.open \in BOOLEAN
  BY <1>1 DEF EngineState
<1>6. <<>> \in Seq(RowChangeOf) /\ "ok" \in Status /\ "error" \in Status
  BY DEF Status
<1>7. ASSUME NEW st \in {"ok", "error"}, NEW s \in Seq(RowChangeOf), Answers(r.id, st, s)
      PROVE  replies' \in SUBSET Frame
  <2>1. Reply(r.id, st, s) \in Frame
    BY <1>4, <1>6, ReplyIs
  <2> QED BY <1>1, <1>7, <2>1 DEF Answers
<1>8. CASE handleInit
  <2>1. replies' \in SUBSET Frame
    BY <1>6, <1>7, <1>8 DEF handleInit, r
  <2> QED BY <1>1, <1>2, <1>3, <1>8, <2>1, EnginesAre DEF handleInit, SidecarInv
<1>9. CASE Refused
  <2>1. replies' \in SUBSET Frame
    BY <1>6, <1>7, <1>9 DEF Refused, r
  <2> QED BY <1>1, <1>2, <1>3, <1>9, <2>1 DEF Refused, SidecarInv
<1>10. CASE handleLoadRows
  <2>1. replies' \in SUBSET Frame
    BY <1>6, <1>7, <1>10 DEF handleLoadRows, r
  <2>2. r.arg \in SUBSET Row /\ IsFiniteSet(r.arg)
    BY <1>3, <1>10, RequestIs DEF handleLoadRows, Taking, r
  <2>3. eng' = [eng EXCEPT !.source = eng.source \cup r.arg]
    BY <1>10 DEF handleLoadRows, BulkInsert, r
  <2>4. eng' \in EngineState /\ eng'.source = eng.source \cup r.arg
    BY <1>1, <1>5, <2>2, <2>3 DEF EngineState
  <2>5. IsFiniteSet(eng.source \cup r.arg)
    BY <1>1, <2>2, FS_Union
  <2> QED BY <1>1, <1>2, <1>3, <1>10, <2>1, <2>4, <2>5 DEF handleLoadRows, SidecarInv
<1>11. CASE handleRemoveQuery
  <2>1. replies' \in SUBSET Frame
    BY <1>6, <1>7, <1>11 DEF handleRemoveQuery, r
  <2>2. eng' = [eng EXCEPT !.pipelines = eng.pipelines \ r.arg]
    BY <1>11 DEF handleRemoveQuery, removeQuery, r
  <2>3. eng' \in EngineState /\ eng'.source = eng.source
    BY <1>1, <1>5, <2>2 DEF EngineState
  <2> QED BY <1>1, <1>2, <1>3, <1>11, <2>1, <2>3 DEF handleRemoveQuery, SidecarInv
<1>12. ASSUME r.arg \in SUBSET Query, eng' = [eng EXCEPT !.pipelines = eng.pipelines \cup r.arg]
       PROVE  eng' \in EngineState /\ eng'.source = eng.source
  BY <1>1, <1>5, <1>12 DEF EngineState
<1>13. CASE handleAddQueries
  <2>1. r.arg \in SUBSET Query
    BY <1>3, <1>13, RequestIs DEF handleAddQueries, Taking, r
  <2>2. eng' \in EngineState /\ eng'.source = eng.source
    BY <1>12, <1>13, <2>1 DEF handleAddQueries, buildAndRegister, r
  <2>3. AddQueries(r.arg) \in Seq(RowChangeOf)
    BY <1>1, <1>5, <2>1, AddQueriesIs
  <2>4. Answers(r.id, "ok", AddQueries(r.arg)) /\ work' = work
    BY <1>13 DEF handleAddQueries, r
  <2>5. replies' \in SUBSET Frame
    BY <1>7, <2>3, <2>4
  <2> QED BY <1>1, <1>2, <1>3, <2>2, <2>4, <2>5 DEF SidecarInv
<1>14. CASE handleAddQueriesStream
  <2>1. r.arg \in SUBSET Query /\ r.id \in {0, 1}
    BY <1>3, <1>4, <1>14, RequestIs DEF handleAddQueriesStream, Taking, r
  <2>2. eng' \in EngineState /\ eng'.source = eng.source
    BY <1>12, <1>14, <2>1 DEF handleAddQueriesStream, buildAndRegister, r
  <2> DEFINE parts == AddQueriesStream(r.arg)
  <2>3. parts \in [r.arg -> Part]
    <3>1. \A q \in r.arg : hydrateEntry(q) \in Seq(RowChangeOf)
      BY <1>1, <1>5, <2>1, HydrateEntryIs
    <3>2. \A q \in r.arg : [left |-> hydrateEntry(q), index |-> 0, done |-> FALSE] \in Part
      BY <3>1 DEF Part
    <3> QED BY <3>2 DEF AddQueriesStream
  <2>4. work' = [Idle EXCEPT !.pc = "hydrate", !.id = r.id, !.parts = parts] /\ replies' = replies
    BY <1>14 DEF handleAddQueriesStream, r
  <2> HIDE DEF parts
  <2>5. parts \in UNION {[Q -> Part] : Q \in SUBSET Query}
    BY <2>1, <2>3
  <2>6. work' \in WorkState
    BY <2>1, <2>4, <2>5, IdleIs DEF WorkState
  <2> QED BY <1>1, <1>2, <1>3, <2>2, <2>4, <2>6 DEF SidecarInv
<1>15. CASE handleAdvance \/ handleAdvanceStream
  <2>1. r.arg \in Seq(Diff) /\ r.id \in {0, 1}
    BY <1>3, <1>4, <1>15, RequestIs DEF handleAdvance, handleAdvanceStream, Taking, r
  <2>2. PICK b \in BOOLEAN : Advancing(b)
    BY <1>15 DEF handleAdvance, handleAdvanceStream
  <2> DEFINE todo == SourceChanges(r.arg)
  <2>3. todo \in Seq(SourceChange)
    BY <2>1, SourceChangesType
  <2>4. work' = [Idle EXCEPT !.pc = "advance", !.id = r.id, !.stream = b, !.todo = todo]
        /\ replies' = replies /\ eng' = eng
    BY <2>2 DEF Advancing, r
  <2> HIDE DEF todo
  <2>5. work' \in WorkState
    BY <2>1, <2>3, <2>4, IdleIs DEF WorkState
  <2> QED BY <1>1, <1>2, <1>3, <2>4, <2>5 DEF SidecarInv
<1> QED BY <1>8, <1>9, <1>10, <1>11, <1>13, <1>14, <1>15 DEF Handle

(* A frame of a hydration takes a prefix of the rows left; the final one   *)
(* takes them all.                                                         *)
ChunkTaken(q, a, b, final) ==
    LET part == work.parts[q]
        f == Partial(work.id, q, a, part.index, final, FALSE)
        next == [left |-> b, index |-> part.index + 1, done |-> final]
    IN  /\ part.left = a \o b /\ (final => b = <<>>)
        /\ wire' = Append(wire, f)
        /\ work' = [work EXCEPT !.parts = [work.parts EXCEPT ![q] = next]]

(* A goroutine takes the first rows left for a frame; a final frame takes  *)
(* them all.                                                               *)
LEMMA ChunkIs ==
    ASSUME SidecarInv, NEW q, HydrateChunk(q)
    PROVE  /\ work.pc = "hydrate" /\ q \in DOMAIN work.parts /\ q \in Query
           /\ work.parts[q] \in Part /\ ~work.parts[q].done
           /\ \E a, b \in Seq(RowChangeOf), final \in BOOLEAN : ChunkTaken(q, a, b, final)
<1> DEFINE part == work.parts[q]
           full == Len(part.left) >= ChunkSize
           n == IF full THEN ChunkSize ELSE Len(part.left)
           a == SubSeq(part.left, 1, n)
           b == SubSeq(part.left, n + 1, Len(part.left))
           final == ~full
<1>1. /\ work.pc = "hydrate" /\ q \in DOMAIN work.parts /\ ~part.done
      /\ wire' = Append(wire, Partial(work.id, q, a, part.index, final, FALSE))
      /\ work' = [work EXCEPT !.parts[q] = [left |-> b, index |-> part.index + 1, done |-> final]]
  BY DEF HydrateChunk, HydrateFrame
<1>2. work \in WorkState
  BY DEF SidecarInv
<1>3. PICK Q \in SUBSET Query : work.parts \in [Q -> Part]
  BY <1>2 DEF WorkState
<1>4. part \in Part /\ q \in Query
  BY <1>1, <1>3
<1>5. part.left \in Seq(RowChangeOf)
  BY <1>4 DEF Part
<1> HIDE DEF part
<1>6. ChunkSize \in Nat /\ ChunkSize # 0
  BY AdvanceStreamAssumption
<1>7. PICK left : left = part.left
  OBVIOUS
<1>8. n \in 0..Len(left) /\ (final => n = Len(left)) /\ final \in BOOLEAN
  BY <1>5, <1>6, <1>7
<1> HIDE DEF n, final
<1>9. a \in Seq(RowChangeOf) /\ b \in Seq(RowChangeOf) /\ left = a \o b
  <2>1. a \in Seq(RowChangeOf) /\ b \in Seq(RowChangeOf)
    BY <1>5, <1>7, <1>8
  <2>2. /\ left \in Seq(RowChangeOf) /\ 1 \in 1..(Len(left) + 1) /\ n \in (1 - 1)..Len(left)
        /\ Len(left) \in n..Len(left)
    BY <1>5, <1>7, <1>8
  <2>3. SubSeq(left, 1, n) \o SubSeq(left, n + 1, Len(left)) = SubSeq(left, 1, Len(left))
    BY <2>2, ConcatAdjacentSubSeq
  <2>4. SubSeq(left, 1, Len(left)) = left
    BY <2>2, SubSeqFull
  <2> QED BY <1>7, <2>1, <2>3, <2>4, Zenon
<1>10. final => b = <<>>
  BY <1>5, <1>7, <1>8
<1>11. work' = [work EXCEPT !.parts = [work.parts EXCEPT ![q] = [left |-> b, index |-> part.index + 1, done |-> final]]]
  BY <1>1, <1>2 DEF WorkState
<1> HIDE DEF a, b
<1>12. ChunkTaken(q, a, b, final)
  BY <1>1, <1>7, <1>9, <1>10, <1>11 DEF ChunkTaken, part
<1> QED BY <1>1, <1>4, <1>8, <1>9, <1>12 DEF part

(* Types: a hydration goroutine writes a frame.                            *)
LEMMA ChunkType ==
    ASSUME SidecarInv, NEW q, HydrateChunk(q)
    PROVE  SidecarInv'
<1>1. /\ wire \in Seq(Frame) /\ work \in WorkState
  BY DEF SidecarInv
<1>2. PICK a, b \in Seq(RowChangeOf), final \in BOOLEAN : ChunkTaken(q, a, b, final)
  BY ChunkIs
<1>3. q \in DOMAIN work.parts /\ q \in Query /\ work.parts[q] \in Part
  BY ChunkIs
<1> DEFINE f == Partial(work.id, q, a, work.parts[q].index, final, FALSE)
           next == [left |-> b, index |-> work.parts[q].index + 1, done |-> final]
           parts == [work.parts EXCEPT ![q] = next]
<1>4. work.id \in {0, 1} /\ work.parts[q].index \in Nat
  BY <1>1, <1>3 DEF WorkState, Part
<1>5. f \in Frame
  BY <1>3, <1>4, PartialIs
<1>6. next \in Part
  BY <1>4 DEF Part
<1>7. wire' = Append(wire, f) /\ work' = [work EXCEPT !.parts = parts]
  BY <1>2 DEF ChunkTaken
<1>8. PICK Q \in SUBSET Query : work.parts \in [Q -> Part]
  BY <1>1 DEF WorkState
<1> HIDE DEF f, next
<1>9. parts \in [Q -> Part]
  BY <1>6, <1>8
<1> HIDE DEF parts
<1>10. work' \in WorkState
  BY <1>1, <1>7, <1>9 DEF WorkState
<1>11. wire' \in Seq(Frame)
  BY <1>1, <1>5, <1>7
<1>12. UNCHANGED <<replies, reqs, eng>>
  BY DEF HydrateChunk, HydrateFrame
<1> QED BY <1>10, <1>11, <1>12 DEF SidecarInv

(* A push: the row changes it puts out go to the open frame, or, with all  *)
(* that is in it, to the wire.                                             *)
Pushed(s, full) ==
    /\ eng' = [eng EXCEPT !.source = writeChange(eng.source, Head(work.todo)), !.accumulated = <<>>]
    /\ wire' = IF full THEN Append(wire, Partial(work.id, NoQuery, s, work.index, FALSE, FALSE)) ELSE wire
    /\ work' = [work EXCEPT !.todo = Tail(work.todo), !.pending = IF full THEN <<>> ELSE s,
                            !.index = IF full THEN work.index + 1 ELSE work.index]

(* A push as one record of what it writes, holds back and puts out.        *)
LEMMA PushIs ==
    ASSUME SidecarInv, Push
    PROVE  /\ work.pc = "advance" /\ work.todo # <<>> /\ Head(work.todo) \in SourceChange
           /\ UNCHANGED <<replies, reqs>>
           /\ \E s \in Seq(RowChangeOf), full \in BOOLEAN :
                /\ s = work.pending \o (eng.accumulated \o Output(eng.pipelines, Head(work.todo)))
                /\ Pushed(s, full) /\ (full => work.stream)
<1> DEFINE sc == Head(work.todo)
           s == work.pending \o (eng.accumulated \o Output(eng.pipelines, sc))
           full == work.stream /\ Len(s) >= ChunkSize
<1>1. /\ work.pc = "advance" /\ work.todo # <<>>
      /\ Pushed(s, full) /\ UNCHANGED <<replies, reqs>>
  BY DEF Push, Pushed, Residue
<1>2. /\ work.todo \in Seq(SourceChange) /\ work.pending \in Seq(RowChangeOf) /\ work.stream \in BOOLEAN
      /\ eng.pipelines \in SUBSET Query /\ eng.accumulated \in Seq(RowChangeOf)
  BY DEF SidecarInv, WorkState, EngineState
<1>3. sc \in SourceChange
  BY <1>1, <1>2
<1>4. Output(eng.pipelines, sc) \in Seq(RowChangeOf)
  BY <1>2, <1>3, OutputIs
<1>5. s \in Seq(RowChangeOf)
  BY <1>2, <1>4
<1>6. full \in BOOLEAN /\ (full => work.stream)
  OBVIOUS
<1> HIDE DEF s, full
<1> QED BY <1>1, <1>3, <1>5, <1>6 DEF s

(* Types: one source change is pushed.                                     *)
LEMMA PushType ==
    ASSUME SidecarInv, Push
    PROVE  SidecarInv'
<1>1. /\ wire \in Seq(Frame) /\ work \in WorkState /\ eng \in EngineState /\ IsFiniteSet(eng.source)
  BY DEF SidecarInv
<1>2. PICK s \in Seq(RowChangeOf), full \in BOOLEAN : Pushed(s, full)
  BY PushIs
<1>3. work.todo # <<>> /\ Head(work.todo) \in SourceChange /\ UNCHANGED <<replies, reqs>>
  BY PushIs
<1> DEFINE f == Partial(work.id, NoQuery, s, work.index, FALSE, FALSE)
           T == writeChange(eng.source, Head(work.todo))
<1>4. work.id \in {0, 1} /\ work.index \in Nat /\ work.todo \in Seq(SourceChange) /\ eng.source \in SUBSET Row
  BY <1>1 DEF WorkState, EngineState
<1>5. f \in Frame
  BY <1>4, PartialIs
<1>6. T \in SUBSET Row /\ IsFiniteSet(T)
  BY <1>1, <1>3, <1>4, WriteType
<1>7. /\ eng' = [eng EXCEPT !.source = T, !.accumulated = <<>>]
      /\ wire' = IF full THEN Append(wire, f) ELSE wire
      /\ work' = [work EXCEPT !.todo = Tail(work.todo), !.pending = IF full THEN <<>> ELSE s,
                            !.index = IF full THEN work.index + 1 ELSE work.index]
  BY <1>2 DEF Pushed
<1> HIDE DEF f, T
<1>8. Tail(work.todo) \in Seq(SourceChange) /\ <<>> \in Seq(RowChangeOf) /\ work.index + 1 \in Nat
  BY <1>3, <1>4
<1>9. work' \in WorkState
  BY <1>1, <1>4, <1>7, <1>8 DEF WorkState
<1>10. eng' \in EngineState /\ eng'.source = T
  BY <1>1, <1>6, <1>7, <1>8 DEF EngineState
<1>11. wire' \in Seq(Frame)
  BY <1>1, <1>5, <1>7
<1> QED BY <1>3, <1>6, <1>9, <1>10, <1>11 DEF SidecarInv

(* Types: an advance ends.                                                 *)
LEMMA FinishType ==
    ASSUME SidecarInv, NEW drift \in BOOLEAN, NEW s \in Seq(RowChangeOf), Finish(drift, s),
           eng' \in EngineState, IsFiniteSet(eng'.source)
    PROVE  SidecarInv'
<1>1. /\ wire \in Seq(Frame) /\ work \in WorkState /\ replies \in SUBSET Frame
  BY DEF SidecarInv
<1> DEFINE f == Partial(work.id, NoQuery, s, work.index, TRUE, drift)
           st == IF drift THEN "drift" ELSE "ok"
<1>2. work.id \in {0, 1} /\ work.index \in Nat
  BY <1>1 DEF WorkState
<1>3. f \in Frame
  BY <1>2, PartialIs
<1>4. <<>> \in Seq(RowChangeOf) /\ st \in Status /\ "ok" \in Status /\ work.id \in {0, 1, RemoveId}
  BY <1>2 DEF Status
<1>5. Reply(work.id, "ok", <<>>) \in Frame /\ Reply(work.id, st, s) \in Frame
  <2> HIDE DEF st
  <2> QED BY <1>4, ReplyIs
<1>6. replies' \in SUBSET Frame
  BY <1>1, <1>5 DEF Finish, Answers
<1>7. wire' \in Seq(Frame)
  <2>1. wire' = wire \/ wire' = Append(wire, f)
    BY DEF Finish
  <2> HIDE DEF f
  <2> QED BY <1>1, <1>3, <2>1
<1>8. work' = Idle /\ reqs' = reqs
  BY DEF Finish
<1> QED BY <1>6, <1>7, <1>8, IdleIs DEF SidecarInv

(* Types: every step of the sidecar.                                       *)
LEMMA SidecarNext ==
    ASSUME SidecarInv, SidecarStep
    PROVE  SidecarInv'
<1>1. /\ wire \in Seq(Frame) /\ work \in WorkState /\ replies \in SUBSET Frame
      /\ eng \in EngineState /\ IsFiniteSet(eng.source)
  BY DEF SidecarInv
<1>2. work.id \in {0, 1, RemoveId} /\ work.pending \in Seq(RowChangeOf) /\ work.todo \in Seq(SourceChange)
  BY <1>1 DEF WorkState
<1>3. <<>> \in Seq(RowChangeOf) /\ "ok" \in Status /\ "error" \in Status
  BY DEF Status
<1>4. Reply(work.id, "ok", <<>>) \in Frame /\ Reply(work.id, "error", <<>>) \in Frame
  BY <1>2, <1>3, ReplyIs
<1>5. CASE HydrateDone
  BY <1>1, <1>4, <1>5, IdleIs DEF HydrateDone, Answers, SidecarInv
<1>6. CASE AdvanceDone
  <2>1. Finish(FALSE, work.pending) /\ eng' = eng
    BY <1>6 DEF AdvanceDone
  <2> QED BY <1>1, <1>2, <2>1, FinishType
<1>7. CASE AdvanceDrifts
  <2>1. Finish(TRUE, <<>>) /\ eng' = [eng EXCEPT !.accumulated = <<>>]
    BY <1>7 DEF AdvanceDrifts, Residue
  <2>2. eng' \in EngineState /\ eng'.source = eng.source
    BY <1>1, <1>3, <2>1 DEF EngineState
  <2> QED BY <1>1, <1>3, <2>1, <2>2, FinishType
<1>8. CASE WriteReply
  <2>1. PICK r \in replies : replies' = replies \ {r} /\ wire' = Append(wire, r)
    BY <1>8 DEF WriteReply
  <2>2. wire' \in Seq(Frame) /\ replies' \in SUBSET Frame /\ UNCHANGED <<reqs, work, eng>>
    BY <1>1, <1>8, <2>1 DEF WriteReply
  <2> QED BY <2>2 DEF SidecarInv
<1>9. CASE Kill
  BY <1>9, DiesType DEF Kill
<1>10. CASE PushPanics
  <2>1. CASE Dies
    BY <2>1, DiesType
  <2>2. CASE ~Dies
    <3>1. /\ \E S \in SUBSET eng.pipelines :
               eng' = [eng EXCEPT !.accumulated = eng.accumulated \o Output(S, Head(work.todo))]
          /\ Answers(work.id, "error", <<>>) /\ work' = Idle /\ UNCHANGED <<reqs, wire>> /\ work.todo # <<>>
      BY <1>10, <2>2 DEF PushPanics
    <3>2. PICK S \in SUBSET eng.pipelines :
               eng' = [eng EXCEPT !.accumulated = eng.accumulated \o Output(S, Head(work.todo))]
      BY <3>1
    <3>3. S \in SUBSET Query /\ Head(work.todo) \in SourceChange /\ eng.accumulated \in Seq(RowChangeOf)
      BY <1>1, <1>2, <3>1 DEF EngineState
    <3> DEFINE o == Output(S, Head(work.todo))
    <3>4. o \in Seq(RowChangeOf)
      BY <3>3, OutputIs
    <3> HIDE DEF o
    <3>5. eng.accumulated \o o \in Seq(RowChangeOf)
      BY <3>3, <3>4
    <3>6. eng' \in EngineState /\ eng'.source = eng.source
      BY <1>1, <3>2, <3>5 DEF EngineState, o
    <3> QED BY <1>1, <1>4, <3>1, <3>6, IdleIs DEF SidecarInv, Answers
  <2> QED BY <2>1, <2>2
<1> QED BY <1>5, <1>6, <1>7, <1>8, <1>9, <1>10, HandleType, ChunkType, PushType DEF SidecarStep, Work

(* A call goes to the end of the queue, unless the connection is gone.     *)
Queues(r) == reqs' = IF Connected THEN Append(reqs, r) ELSE reqs

(* A call takes the other id, leaves the connection alone and queues one   *)
(* request.                                                                *)
LEMMA CallIs ==
    ASSUME TypeInv, Call
    PROVE  /\ UNCHANGED <<wire, held, view>>
           /\ client' \in ClientState /\ client'.id = 1 - client.id /\ client'.id # client.id
           /\ client'.id \in {0, 1} /\ client'.got = client.got
           /\ client.pc \in {"reset", "load", "idle"} /\ client'.pc \in {"init", "rehydrate", "add", "advance"}
           /\ client'.at = client.at
           /\ \E r \in Request : /\ r.id = client'.id /\ Queues(r)
                                 /\ client'.pc = "init" => r.method \in {"init", "loadRows"}
<1>1. client \in ClientState /\ held \in SUBSET Query /\ IsFiniteSet(client.left)
  BY DEF TypeInv, ClientInv
<1>2. /\ hist \in Seq(Table) /\ diffs \in Seq(Diff) /\ Len(hist) = Len(diffs) + 1 /\ client.at \in DOMAIN hist
      /\ \A i \in DOMAIN hist : IsFiniteSet(hist[i])
  BY DEF TypeInv, ReplicaInv, ClientInv
<1>3. Len(hist) \in Nat /\ Len(hist) \in DOMAIN hist /\ DOMAIN hist = 1..Len(hist) /\ DOMAIN diffs = 1..Len(diffs)
  BY <1>2
<1>4. client.id \in {0, 1}
  BY <1>1 DEF ClientState
<1>5. 1 - client.id \in {0, 1} /\ 1 - client.id # client.id
  BY <1>4
<1>6. PICK m, a, n : /\ Calls(m, a, n) /\ n \in ClientState /\ n.id = client.id /\ n.got = client.got /\ n.at = client.at
                     /\ client.pc \in {"reset", "load", "idle"}
                     /\ n.pc \in {"init", "rehydrate", "add", "advance"}
                     /\ n.pc = "init" => m \in {"init", "loadRows"}
                     /\ \/ m \in {"init", "loadRows"} /\ a \in SUBSET Row /\ IsFiniteSet(a)
                        \/ m \in {"addQueries", "addQueriesStream"} /\ a \in SUBSET Query
                        \/ m \in {"advance", "advanceStream"} /\ a \in Seq(Diff)
  <2>1. CASE CallInit
    <3> DEFINE n == [client EXCEPT !.pc = "init", !.target = Len(hist), !.left = hist[Len(hist)], !.lossy = FALSE]
    <3>1. Calls("init", {}, n) /\ client.pc = "reset"
      BY <2>1 DEF CallInit
    <3>2. hist[Len(hist)] \in SUBSET Row
      BY <1>2, <1>3 DEF Table
    <3>3. n \in ClientState /\ n.id = client.id /\ n.got = client.got /\ n.pc = "init" /\ n.at = client.at
      BY <1>1, <1>3, <3>2 DEF ClientState
    <3> HIDE DEF n
    <3>4. {} \in SUBSET Row /\ IsFiniteSet({})
      BY FS_EmptySet
    <3> QED BY <3>1, <3>3, <3>4
  <2>2. CASE \E S \in SUBSET Row : CallLoadRows(S)
    <3>0. PICK S \in SUBSET Row : CallLoadRows(S)
      BY <2>2
    <3> DEFINE n == [client EXCEPT !.pc = "init", !.left = @ \ S]
    <3>1. Calls("loadRows", S, n) /\ client.pc = "load" /\ S \in SUBSET client.left
      BY <3>0 DEF CallLoadRows
    <3>2. IsFiniteSet(S)
      BY <1>1, <3>1, FS_Subset
    <3>3. n \in ClientState /\ n.id = client.id /\ n.got = client.got /\ n.pc = "init" /\ n.at = client.at
      BY <1>1, <1>3 DEF ClientState
    <3> HIDE DEF n
    <3> QED BY <3>1, <3>2, <3>3
  <2>3. CASE CallRehydrate
    <3> DEFINE n == [client EXCEPT !.pc = "rehydrate"]
    <3>1. Calls("addQueriesStream", held, n) /\ client.pc = "load"
      BY <2>3 DEF CallRehydrate
    <3>3. n \in ClientState /\ n.id = client.id /\ n.got = client.got /\ n.pc = "rehydrate" /\ n.at = client.at
      BY <1>1 DEF ClientState
    <3> HIDE DEF n
    <3> QED BY <1>1, <3>1, <3>3
  <2>4. CASE \E m \in {"addQueries", "addQueriesStream"}, S \in SUBSET Query : CallAddQueries(m, S)
    <3>0. PICK m \in {"addQueries", "addQueriesStream"}, S \in SUBSET Query : CallAddQueries(m, S)
      BY <2>4
    <3> DEFINE n == [client EXCEPT !.pc = "add", !.adding = S]
    <3>1. Calls(m, S, n) /\ client.pc = "idle"
      BY <3>0 DEF CallAddQueries
    <3>3. n \in ClientState /\ n.id = client.id /\ n.got = client.got /\ n.pc = "add" /\ n.at = client.at
      BY <1>1 DEF ClientState
    <3> HIDE DEF n
    <3> QED BY <1>1, <3>1, <3>3
  <2>5. CASE \E m \in {"advance", "advanceStream"} : CallAdvance(m)
    <3>0. PICK m \in {"advance", "advanceStream"} : CallAdvance(m)
      BY <2>5
    <3> DEFINE n == [client EXCEPT !.pc = "advance", !.target = Len(hist)]
               a == SubSeq(diffs, client.at, Len(hist) - 1)
    <3>1. Calls(m, a, n) /\ client.pc = "idle"
      BY <3>0 DEF CallAdvance
    <3>2. a \in Seq(Diff)
      BY <1>2, <1>3
    <3>3. n \in ClientState /\ n.id = client.id /\ n.got = client.got /\ n.pc = "advance" /\ n.at = client.at
      BY <1>1, <1>3 DEF ClientState
    <3> HIDE DEF n, a
    <3> QED BY <3>1, <3>2, <3>3
  <2> QED BY <2>1, <2>2, <2>3, <2>4, <2>5 DEF Call
<1>7. client' = [n EXCEPT !.id = 1 - n.id] /\ UNCHANGED <<wire, held, view>>
  BY <1>6 DEF Calls
<1>8. /\ client' \in ClientState /\ client'.id = 1 - client.id /\ client'.got = client.got /\ client'.pc = n.pc
      /\ client'.at = client.at
  BY <1>5, <1>6, <1>7 DEF ClientState
<1> DEFINE r == [method |-> m, id |-> 1 - client.id, arg |-> a]
<1>9. r \in Request
  BY <1>5, <1>6 DEF Request
<1>10. r.id = client'.id /\ Queues(r) /\ r.method = m
  BY <1>6, <1>8 DEF Calls, Send, Queues
<1> HIDE DEF r
<1> QED BY <1>5, <1>6, <1>7, <1>8, <1>9, <1>10

(* A removal leaves the call alone and queues one request with an id of    *)
(* its own.                                                                *)
LEMMA RemoveIs ==
    ASSUME NEW q \in Query, RemoveQuery(q)
    PROVE  /\ UNCHANGED <<client, wire>> /\ q \in held /\ held' = held \ {q}
           /\ view' = [view EXCEPT ![q] = {}]
           /\ \E r \in Request : r.id = RemoveId /\ r.method = "removeQuery" /\ r.arg = {q} /\ Queues(r)
<1> DEFINE r == [method |-> "removeQuery", id |-> RemoveId, arg |-> {q}]
<1>1. r \in Request /\ r.id = RemoveId /\ r.method = "removeQuery" /\ r.arg = {q}
  BY DEF Request
<1>2. Queues(r)
  BY DEF RemoveQuery, Send, Queues
<1> HIDE DEF r
<1> QED BY <1>1, <1>2 DEF RemoveQuery

(* Types: what the view-syncer does to the queue and the connection.       *)
LEMMA ClientSidecarNext ==
    ASSUME TypeInv, ClientStep
    PROVE  SidecarInv'
<1>1. SidecarInv /\ wire \in Seq(Frame) /\ reqs \in Seq(Request)
  BY DEF TypeInv, SidecarInv
<1>2. UNCHANGED <<replica, replies, work, eng>>
  BY ClientFrame
<1>3. ASSUME NEW r \in Request, Queues(r) PROVE reqs' \in Seq(Request)
  BY <1>1, <1>3 DEF Queues
<1>4. CASE Read
  <2>1. reqs' = reqs /\ wire # <<>> /\ wire' = Tail(wire)
    BY <1>4 DEF Read, ReadOther, ReadPartial, ReadFailure, ReadLoaded, ReadRehydrated, ReadAdded,
       ReadAdvanced, ReadOk, Reading, sidecar
  <2>2. wire' \in Seq(Frame)
    BY <1>1, <2>1
  <2> QED BY <1>1, <1>2, <2>1, <2>2 DEF SidecarInv
<1>5. CASE Call
  <2>1. wire' = wire /\ \E r \in Request : Queues(r)
    BY <1>5, CallIs
  <2>2. reqs' \in Seq(Request)
    BY <1>3, <2>1
  <2> QED BY <1>1, <1>2, <2>1, <2>2 DEF SidecarInv
<1>6. CASE \E q \in Query : RemoveQuery(q)
  <2>1. wire' = wire /\ reqs' \in Seq(Request)
    BY <1>3, <1>6, RemoveIs
  <2> QED BY <1>1, <1>2, <2>1 DEF SidecarInv
<1>7. CASE DropAdvance
  <2>1. wire' = wire /\ reqs' = reqs
    BY <1>7 DEF DropAdvance, sidecar
  <2> QED BY <1>1, <1>2, <2>1 DEF SidecarInv
<1> QED BY <1>4, <1>5, <1>6, <1>7 DEF ClientStep

(* Types: the beginning.                                                   *)
LEMMA InitTypeInv == Init => TypeInv
<1> SUFFICES ASSUME Init PROVE TypeInv
  OBVIOUS
<1>1. PICK S \in Start : hist = <<S>>
  BY DEF Init
<1>2. S \in Table /\ IsFiniteSet(S)
  BY AdvanceStreamAssumption
<1>3. ReplicaInv
  <2>1. diffs = <<>> /\ diffs \in Seq(Diff) /\ Len(diffs) = 0 /\ DOMAIN diffs = {}
    BY DEF Init
  <2>2. hist \in Seq(Table) /\ Len(hist) = 1 /\ DOMAIN hist = 1..1 /\ hist[1] = S
    BY <1>1, <1>2
  <2>3. \A i \in DOMAIN hist : IsFiniteSet(hist[i])
    BY <1>2, <2>2
  <2> QED BY <2>1, <2>2, <2>3 DEF ReplicaInv
<1>4. ClientInv
  <2>1. <<>> \in Seq(Frame) /\ IsFiniteSet({}) /\ 1 \in DOMAIN hist
    BY <1>1, FS_EmptySet
  <2>2. client \in ClientState /\ client.at = 1 /\ client.target = 1 /\ client.left = {} /\ client.adding = {}
        /\ client.pc = "reset"
    BY <2>1 DEF Init, ClientState
  <2>3. held = {} /\ view \in [Query -> SUBSET Row]
    BY DEF Init
  <2> QED BY <2>1, <2>2, <2>3 DEF ClientInv
<1>5. SidecarInv
  <2>1. wire = <<>> /\ replies = {} /\ reqs = <<>> /\ work = Idle /\ eng = NoEngine
    BY DEF Init
  <2>2. wire \in Seq(Frame) /\ reqs \in Seq(Request)
    BY <2>1
  <2> QED BY <2>1, <2>2, IdleIs, EnginesAre DEF SidecarInv
<1> QED BY <1>3, <1>4, <1>5 DEF TypeInv

(* Types: every step.                                                      *)
LEMMA NextTypeInv == TypeInv /\ [Next]_vars => TypeInv'
<1> SUFFICES ASSUME TypeInv, [Next]_vars PROVE TypeInv'
  OBVIOUS
<1>1. CASE SidecarStep
  <2>1. UNCHANGED <<hist, diffs, client, held, view>>
    BY <1>1, SidecarFrame DEF replica, viewSyncer
  <2>2. ReplicaInv'
    BY <2>1 DEF TypeInv, ReplicaInv
  <2>3. ClientInv'
    BY <2>1 DEF TypeInv, ClientInv
  <2> QED BY <1>1, <2>2, <2>3, SidecarNext DEF TypeInv
<1>2. CASE ClientStep
  <2>1. UNCHANGED <<hist, diffs>>
    BY <1>2, ClientFrame DEF replica
  <2>2. ReplicaInv'
    BY <2>1 DEF TypeInv, ReplicaInv
  <2> QED BY <1>2, <2>2, ClientNext, ClientSidecarNext DEF TypeInv
<1>3. CASE ReplicaStep
  <2>1. UNCHANGED <<client, held, view, wire, replies, reqs, work, eng, faults, removes>>
    BY <1>3, ReplicaFrame
  <2>2. ReplicaInv' /\ DOMAIN hist \subseteq DOMAIN hist'
    BY <1>3, ReplicaNext DEF TypeInv
  <2>3. ClientInv'
    BY <2>1, <2>2 DEF TypeInv, ClientInv
  <2>4. SidecarInv'
    BY <2>1 DEF TypeInv, SidecarInv
  <2> QED BY <2>2, <2>3, <2>4 DEF TypeInv
<1>4. CASE UNCHANGED vars
  <2>1. UNCHANGED <<hist, diffs, client, held, view, wire, replies, reqs, work, eng>>
    BY <1>4 DEF vars, replica, viewSyncer, sidecar
  <2>2. ReplicaInv'
    BY <2>1 DEF TypeInv, ReplicaInv
  <2>3. ClientInv'
    BY <2>1 DEF TypeInv, ClientInv
  <2>4. SidecarInv'
    BY <2>1 DEF TypeInv, SidecarInv
  <2> QED BY <2>2, <2>3, <2>4 DEF TypeInv
<1> QED BY <1>1, <1>2, <1>3, <1>4, Steps

(* The state stays of its type; the replica's versions stay tables with    *)
(* unique keys and values.                                                 *)
THEOREM TypeCorrect == Spec => []TypeOK
<1>1. TypeInv => TypeOK
  BY DEF TypeInv, ReplicaInv, ClientInv, SidecarInv, EngineState, TypeOK
<1> QED BY <1>1, InitTypeInv, NextTypeInv, PTL DEF Spec

-----------------------------------------------------------------------------
(* One call at a time.                                                     *)

LEMMA InitLane == Init => LaneInv
<1> SUFFICES ASSUME Init PROVE LaneInv
  OBVIOUS
<1>1. /\ wire = <<>> /\ replies = {} /\ reqs = <<>> /\ work = Idle /\ client.got = <<>> /\ client.pc = "reset"
  BY DEF Init
<1>2. DOMAIN wire = {} /\ DOMAIN reqs = {} /\ DOMAIN client.got = {}
  BY <1>1
<1> QED BY <1>1, <1>2, IdleIs DEF LaneInv, IdInv, RestInv, QueuedInv, BusyInv, AnsweredInv, ClosedInv, LoadInv

(* A call is queued.                                                       *)
LEMMA LaneCall ==
    ASSUME TypeInv, LaneInv, Call
    PROVE  LaneInv'
<1>1. /\ wire' = wire /\ replies' = replies /\ work' = work /\ eng' = eng
      /\ client'.id # client.id /\ client'.id \in {0, 1} /\ client'.got = client.got
      /\ client.pc \in {"reset", "load", "idle"} /\ client'.pc \in {"init", "rehydrate", "add", "advance"}
  BY CallIs, ClientFrame DEF ClientStep
<1>2. PICK r \in Request : /\ r.id = client'.id /\ Queues(r)
                           /\ client'.pc = "init" => r.method \in {"init", "loadRows"}
  BY CallIs
<1>3. client'.id # RemoveId
  BY <1>1 DEF RemoveId
<1>4. /\ \A i \in DOMAIN reqs : reqs[i].id = RemoveId
      /\ \A f \in replies : f.type = "reply" /\ f.status # "closed" /\ f.id = RemoveId /\ f.changes = <<>>
      /\ \A i \in DOMAIN wire : wire[i].id = RemoveId /\ wire[i].type = "reply" /\ wire[i].changes = <<>>
      /\ client.got = <<>> /\ work.pc = "idle" /\ work = Idle
  BY <1>1 DEF LaneInv, IdInv, RestInv, Waiting
<1>5. reqs \in Seq(Request)
  BY DEF TypeInv, SidecarInv
<1>6. /\ \A i \in DOMAIN reqs' : reqs'[i].id = RemoveId \/ (reqs'[i] = r /\ i = Len(reqs) + 1)
      /\ reqs' # reqs => Connected
  <2>1. CASE Connected
    <3>1. reqs' = Append(reqs, r)
      BY <1>2, <2>1 DEF Queues
    <3> QED BY <1>4, <1>5, <2>1, <3>1, AppendIs
  <2>2. CASE ~Connected
    BY <1>2, <1>4, <2>2 DEF Queues
  <2> QED BY <2>1, <2>2
<1>7. DOMAIN client.got = {} /\ Waiting'
  BY <1>1, <1>4 DEF Waiting
<1>8. IdInv'
  BY <1>1, <1>2, <1>4, <1>6, <1>7 DEF IdInv
<1>9. RestInv'
  BY <1>7 DEF RestInv
<1>10. QueuedInv'
  BY <1>1, <1>3, <1>4, <1>6 DEF QueuedInv
<1>11. BusyInv' /\ AnsweredInv'
  BY <1>1, <1>3, <1>4 DEF BusyInv, AnsweredInv
<1>12. ClosedInv'
  BY <1>1, <1>6 DEF LaneInv, ClosedInv, Connected
<1>13. LoadInv'
  BY <1>1, <1>2, <1>3, <1>4, <1>6 DEF LoadInv
<1> QED BY <1>8, <1>9, <1>10, <1>11, <1>12, <1>13 DEF LaneInv

(* One call at a time: a removal is queued.                                *)
LEMMA LaneRemove ==
    ASSUME TypeInv, LaneInv, NEW q \in Query, RemoveQuery(q)
    PROVE  LaneInv'
<1>1. UNCHANGED <<client, wire, replies, work, eng>>
  BY DEF RemoveQuery
<1>2. PICK r \in Request : r.id = RemoveId /\ Queues(r)
  BY RemoveIs
<1>3. reqs \in Seq(Request) /\ client.id # RemoveId
  BY DEF TypeInv, SidecarInv, ClientInv, ClientState, RemoveId
<1>4. /\ \A i \in DOMAIN reqs' : reqs'[i].id = RemoveId \/ (i \in DOMAIN reqs /\ reqs'[i] = reqs[i])
      /\ \A i \in DOMAIN reqs : i \in DOMAIN reqs' /\ reqs'[i] = reqs[i]
      /\ reqs' # reqs => Connected
  <2>1. CASE Connected
    <3>1. reqs' = Append(reqs, r)
      BY <1>2, <2>1 DEF Queues
    <3> QED BY <1>2, <1>3, <2>1, <3>1, AppendIs
  <2>2. CASE ~Connected
    BY <1>2, <2>2 DEF Queues
  <2> QED BY <2>1, <2>2
<1>5. IdInv'
  BY <1>1, <1>4 DEF LaneInv, IdInv
<1>6. RestInv'
  BY <1>1, <1>3, <1>4 DEF LaneInv, RestInv, Waiting
<1>7. QueuedInv'
  BY <1>1, <1>3, <1>4 DEF LaneInv, QueuedInv
<1>8. BusyInv' /\ AnsweredInv'
  BY <1>1 DEF LaneInv, BusyInv, AnsweredInv
<1>9. ClosedInv'
  BY <1>1, <1>4 DEF LaneInv, ClosedInv, Connected
<1>10. LoadInv'
  BY <1>1, <1>3, <1>4 DEF LaneInv, LoadInv
<1> QED BY <1>5, <1>6, <1>7, <1>8, <1>9, <1>10 DEF LaneInv

(* The worker takes a request.                                             *)
LEMMA TakenIs ==
    ASSUME TypeInv, LaneInv, Handle
    PROVE  /\ reqs # <<>> /\ Head(reqs) = reqs[1] /\ 1 \in DOMAIN reqs /\ reqs[1] \in Request
           /\ reqs' = Tail(reqs) /\ work = Idle /\ work.pc = "idle"
           /\ UNCHANGED <<wire, client>> /\ Connected
           /\ \A i \in DOMAIN reqs' : i + 1 \in DOMAIN reqs /\ i \in Nat /\ reqs'[i] = reqs[i + 1]
           /\ \A i \in DOMAIN reqs : i = 1 \/ (i - 1 \in DOMAIN reqs' /\ reqs'[i - 1] = reqs[i])
           /\ reqs[1].id = client.id \/ (reqs[1].id = RemoveId /\ reqs[1].method = "removeQuery")
           /\ reqs[1].id = client.id =>
                /\ \A i \in DOMAIN reqs' : reqs'[i].id # client.id
                /\ client.got = <<>> /\ (\A f \in replies : f.id # client.id)
                /\ (\A j \in DOMAIN wire : wire[j].id # client.id) /\ Waiting
<1>1. /\ reqs # <<>> /\ reqs' = Tail(reqs) /\ work = Idle /\ UNCHANGED <<wire, client>>
  BY DEF Handle, handleInit, Refused, handleLoadRows, handleRemoveQuery, handleAddQueries,
     handleAddQueriesStream, handleAdvance, handleAdvanceStream, Taking, viewSyncer
<1>2. reqs \in Seq(Request)
  BY DEF TypeInv, SidecarInv
<1>3. /\ Head(reqs) = reqs[1] /\ 1 \in DOMAIN reqs /\ reqs[1] \in Request
      /\ \A i \in DOMAIN reqs' : i + 1 \in DOMAIN reqs /\ i \in Nat /\ reqs'[i] = reqs[i + 1]
      /\ \A i \in DOMAIN reqs : i = 1 \/ (i - 1 \in DOMAIN reqs' /\ reqs'[i - 1] = reqs[i])
  BY <1>1, <1>2, TailIs
<1>4. Connected
  BY <1>1 DEF LaneInv, ClosedInv, Connected
<1>5. reqs[1].id = client.id \/ (reqs[1].id = RemoveId /\ reqs[1].method = "removeQuery")
  BY <1>3, RequestIs DEF LaneInv, IdInv
<1>6. ASSUME reqs[1].id = client.id
      PROVE  /\ \A i \in DOMAIN reqs' : reqs'[i].id # client.id
             /\ client.got = <<>> /\ (\A f \in replies : f.id # client.id)
             /\ (\A j \in DOMAIN wire : wire[j].id # client.id) /\ Waiting
  <2>1. \A j \in DOMAIN reqs : reqs[j].id = client.id => j = 1
    BY <1>3, <1>6 DEF LaneInv, QueuedInv
  <2>2. \A i \in DOMAIN reqs' : reqs'[i].id # client.id
    <3> TAKE i \in DOMAIN reqs'
    <3>1. i + 1 \in DOMAIN reqs /\ reqs'[i] = reqs[i + 1] /\ i \in Nat /\ 1 \notin {i + 1} \ {1}
      BY <1>3
    <3>2. i # 0
      BY <1>1, <1>2, TailIs
    <3>3. i + 1 # 1
      BY <3>1, <3>2
    <3> QED BY <2>1, <3>1, <3>3
  <2>3. /\ client.got = <<>> /\ (\A f \in replies : f.id # client.id)
        /\ (\A j \in DOMAIN wire : wire[j].id # client.id)
    BY <1>3, <1>6 DEF LaneInv, QueuedInv
  <2>4. Waiting
    BY <1>3, <1>6 DEF LaneInv, RestInv
  <2> QED BY <2>2, <2>3, <2>4
<1> QED BY <1>1, <1>3, <1>4, <1>5, <1>6, IdleIs

(* ... and answers it,                                                     *)
LEMMA LaneAnswer ==
    ASSUME TypeInv, LaneInv, Handle, work' = work, NEW st \in {"ok", "error"}, NEW s,
           Answers(reqs[1].id, st, s), reqs[1].id = RemoveId => s = <<>>
    PROVE  LaneInv'
<1> DEFINE f == Reply(reqs[1].id, st, s)
<1>1. f.type = "reply" /\ f.id = reqs[1].id /\ f.changes = s /\ f.status = st
  BY ReplyFields
<1>2. replies' = replies \cup {f}
  BY DEF Answers
<1> HIDE DEF f
<1>3. client.id # RemoveId
  BY DEF TypeInv, ClientInv, ClientState, RemoveId
<1>4. IdInv'
  BY <1>1, <1>2, TakenIs DEF LaneInv, IdInv
<1>5. RestInv'
  BY <1>1, <1>2, <1>3, TakenIs DEF LaneInv, RestInv, Waiting
<1>6. QueuedInv'
  <2>1. CASE reqs[1].id = client.id
    BY <2>1, TakenIs DEF QueuedInv
  <2>2. CASE reqs[1].id # client.id
    <3>1. SUFFICES ASSUME NEW i \in DOMAIN reqs', reqs'[i].id = client'.id
                   PROVE  /\ \A j \in DOMAIN reqs' : reqs'[j].id = client'.id => j = i
                          /\ work'.pc = "idle" /\ client'.got = <<>>
                          /\ \A g \in replies' : g.id # client'.id
                          /\ \A j \in DOMAIN wire' : wire'[j].id # client'.id
      BY DEF QueuedInv
    <3>2. i + 1 \in DOMAIN reqs /\ reqs[i + 1].id = client.id /\ i \in Nat
      BY <3>1, TakenIs
    <3>3. /\ \A j \in DOMAIN reqs : reqs[j].id = client.id => j = i + 1
          /\ client.got = <<>> /\ \A g \in replies : g.id # client.id
          /\ \A j \in DOMAIN wire : wire[j].id # client.id
      BY <3>2 DEF LaneInv, QueuedInv
    <3>4. \A j \in DOMAIN reqs' : reqs'[j].id = client'.id => j = i
      <4>1. \A j \in DOMAIN reqs' : j \in Nat /\ (reqs'[j].id = client'.id => j + 1 = i + 1)
        BY <3>3, TakenIs
      <4> QED BY <3>2, <4>1
    <3> QED BY <1>1, <1>2, <2>2, <3>3, <3>4, TakenIs
  <2> QED BY <2>1, <2>2
<1>7. BusyInv'
  BY TakenIs DEF BusyInv
<1>8. AnsweredInv'
  BY <1>1, <1>2, <1>3, TakenIs DEF LaneInv, AnsweredInv
<1>9. ClosedInv'
  BY TakenIs DEF ClosedInv, Connected
<1>10. LoadInv'
  BY TakenIs DEF LaneInv, LoadInv
<1> QED BY <1>4, <1>5, <1>6, <1>7, <1>8, <1>9, <1>10 DEF LaneInv

(* ... or starts on it.                                                    *)
LEMMA LaneStart ==
    ASSUME TypeInv, LaneInv, Handle, replies' = replies,
           reqs[1].method \in {"addQueriesStream", "advance", "advanceStream"},
           work'.pc # "idle", work'.id = reqs[1].id
    PROVE  LaneInv'
<1>1. reqs[1].id = client.id
  BY TakenIs
<1>2. client.pc # "init"
  BY <1>1, TakenIs DEF LaneInv, LoadInv
<1>3. IdInv'
  BY <1>1, TakenIs DEF LaneInv, IdInv
<1>4. RestInv'
  BY <1>1, TakenIs DEF RestInv, Waiting
<1>5. QueuedInv'
  BY <1>1, TakenIs DEF QueuedInv
<1>6. BusyInv' /\ AnsweredInv'
  BY <1>1, TakenIs DEF BusyInv, AnsweredInv
<1>7. ClosedInv'
  BY TakenIs DEF ClosedInv, Connected
<1>8. LoadInv'
  BY <1>2, TakenIs DEF LoadInv
<1> QED BY <1>3, <1>4, <1>5, <1>6, <1>7, <1>8 DEF LaneInv

(* While the worker is busy.                                               *)
LEMMA BusyIs ==
    ASSUME TypeInv, LaneInv, work.pc # "idle"
    PROVE  /\ work.id = client.id /\ Waiting /\ Connected /\ client.pc # "init" /\ client.id # RemoveId
           /\ \A i \in DOMAIN reqs : reqs[i].id # client.id
           /\ \A r \in replies : r.id # client.id
           /\ \A j \in DOMAIN wire : wire[j].id = client.id => wire[j].type = "partial"
<1>1. client.id # RemoveId
  BY DEF TypeInv, ClientInv, ClientState, RemoveId
<1>2. Waiting
  BY DEF LaneInv, RestInv
<1>3. Connected
  BY DEF LaneInv, ClosedInv, Connected
<1>4. client.pc # "init"
  BY DEF LaneInv, LoadInv
<1>5. \A i \in DOMAIN reqs : reqs[i].id # client.id
  BY DEF LaneInv, QueuedInv
<1> QED BY <1>1, <1>2, <1>3, <1>4, <1>5 DEF LaneInv, IdInv, BusyInv

(* It may write a partial frame, and goes on or answers the call.          *)
Sends(f) == /\ f \in Frame /\ f.type = "partial" /\ f.id = client.id /\ f.status # "closed"
            /\ wire' = Append(wire, f)

(* One call at a time: the worker writes a frame of the call, and goes on. *)
LEMMA LaneSend ==
    ASSUME TypeInv, LaneInv, work.pc # "idle", UNCHANGED <<client, reqs, replies>>,
           wire' = wire \/ \E f : Sends(f), work'.pc # "idle", work'.id = work.id
    PROVE  LaneInv'
<1>1. wire \in Seq(Frame)
  BY DEF TypeInv, SidecarInv
<1>2. \A i \in DOMAIN wire' : \/ i \in DOMAIN wire /\ wire'[i] = wire[i]
                              \/ wire'[i].id = client.id /\ wire'[i].type = "partial" /\ wire'[i].status # "closed"
  <2>1. CASE wire' = wire
    BY <2>1
  <2>2. CASE \E f : Sends(f)
    <3>1. PICK f : Sends(f)
      BY <2>2
    <3> QED BY <1>1, <3>1, AppendIs DEF Sends
  <2> QED BY <2>1, <2>2
<1>3. IdInv'
  BY <1>2, BusyIs DEF LaneInv, IdInv
<1>4. RestInv'
  BY BusyIs DEF RestInv, Waiting
<1>5. QueuedInv'
  BY BusyIs DEF QueuedInv
<1>6. BusyInv' /\ AnsweredInv'
  BY <1>2, BusyIs DEF BusyInv, AnsweredInv
<1>7. ClosedInv'
  BY <1>2, BusyIs DEF ClosedInv, Connected
<1>8. LoadInv'
  BY BusyIs DEF LoadInv
<1> QED BY <1>3, <1>4, <1>5, <1>6, <1>7, <1>8 DEF LaneInv

(* One call at a time: the worker answers the call.                        *)
LEMMA LaneDone ==
    ASSUME TypeInv, LaneInv, work.pc # "idle", UNCHANGED <<client, reqs>>,
           wire' = wire \/ \E f : Sends(f), work' = Idle,
           NEW st \in {"ok", "error", "drift"}, NEW s, Answers(work.id, st, s)
    PROVE  LaneInv'
<1>1. wire \in Seq(Frame)
  BY DEF TypeInv, SidecarInv
<1>2. \A i \in DOMAIN wire' : \/ i \in DOMAIN wire /\ wire'[i] = wire[i]
                              \/ wire'[i].id = client.id /\ wire'[i].type = "partial" /\ wire'[i].status # "closed"
  <2>1. CASE wire' = wire
    BY <2>1
  <2>2. CASE \E f : Sends(f)
    <3>1. PICK f : Sends(f)
      BY <2>2
    <3> QED BY <1>1, <3>1, AppendIs DEF Sends
  <2> QED BY <2>1, <2>2
<1> DEFINE r == Reply(work.id, st, s)
<1>3. r.type = "reply" /\ r.id = work.id /\ r.changes = s /\ r.status = st
  BY ReplyFields
<1>4. replies' = replies \cup {r}
  BY DEF Answers
<1> HIDE DEF r
<1>5. IdInv'
  BY <1>2, <1>3, <1>4, BusyIs, IdleIs DEF LaneInv, IdInv
<1>6. RestInv'
  BY BusyIs DEF RestInv, Waiting
<1>7. QueuedInv'
  BY BusyIs DEF QueuedInv
<1>8. BusyInv'
  BY IdleIs DEF BusyInv
<1>9. AnsweredInv'
  BY <1>2, <1>3, <1>4, BusyIs DEF AnsweredInv
<1>10. ClosedInv'
  BY <1>2, BusyIs DEF ClosedInv, Connected
<1>11. LoadInv'
  BY BusyIs DEF LoadInv
<1> QED BY <1>5, <1>6, <1>7, <1>8, <1>9, <1>10, <1>11 DEF LaneInv

(* The process dies.                                                       *)
LEMMA LaneDies ==
    ASSUME TypeInv, LaneInv, Connected, Dies, client' = client
    PROVE  LaneInv'
<1>1. wire \in Seq(Frame) /\ client.id # RemoveId
  BY DEF TypeInv, SidecarInv, ClientInv, ClientState, RemoveId
<1>2. eng' = NoEngine /\ reqs' = <<>> /\ work' = Idle /\ replies' = {} /\ wire' = Append(wire, ConnectionClosed)
  BY DEF Dies
<1>3. /\ \A i \in DOMAIN wire' : (i \in DOMAIN wire /\ wire'[i] = wire[i]) \/ (wire'[i] = ConnectionClosed /\ i = Len(wire'))
      /\ DOMAIN wire' = 1..Len(wire') /\ Len(wire') \in Nat /\ \A i \in DOMAIN wire : i < Len(wire')
      /\ Len(wire') \in DOMAIN wire'
  BY <1>1, <1>2, ClosedIs, AppendIs
<1>4. DOMAIN reqs' = {}
  BY <1>2
<1>5. IdInv'
  BY <1>2, <1>3, <1>4, ClosedIs, IdleIs DEF LaneInv, IdInv
<1>6. RestInv'
  BY <1>1, <1>2, <1>3, <1>4, ClosedIs, IdleIs DEF LaneInv, RestInv, Waiting
<1>7. QueuedInv' /\ BusyInv'
  BY <1>2, <1>4, IdleIs DEF QueuedInv, BusyInv
<1>8. AnsweredInv'
  <2>1. \A i, j \in DOMAIN wire' : i \in DOMAIN wire \/ wire'[i].id # client.id
    BY <1>1, <1>3, ClosedIs
  <2> QED BY <1>1, <1>2, <1>3, <2>1, ClosedIs DEF LaneInv, AnsweredInv
<1>9. ClosedInv'
  BY <1>2, <1>3, IdleIs DEF ClosedInv, Connected
<1>10. LoadInv'
  BY <1>1, <1>2, <1>3, <1>4, ClosedIs, IdleIs DEF LaneInv, LoadInv
<1> QED BY <1>5, <1>6, <1>7, <1>8, <1>9, <1>10 DEF LaneInv

(* A reply is written.                                                     *)
LEMMA LaneWrite ==
    ASSUME TypeInv, LaneInv, WriteReply
    PROVE  LaneInv'
<1>1. PICK r \in replies : replies' = replies \ {r} /\ wire' = Append(wire, r)
  BY DEF WriteReply
<1>2. UNCHANGED <<client, reqs, work, eng>>
  BY DEF WriteReply, viewSyncer
<1>3. wire \in Seq(Frame) /\ replies \in SUBSET Frame /\ client.id # RemoveId
  BY DEF TypeInv, SidecarInv, ClientInv, ClientState, RemoveId
<1>4. /\ \A i \in DOMAIN wire' : (i \in DOMAIN wire /\ wire'[i] = wire[i]) \/ (wire'[i] = r /\ i = Len(wire'))
      /\ DOMAIN wire' = 1..Len(wire') /\ Len(wire') \in Nat /\ \A i \in DOMAIN wire : i \in DOMAIN wire' /\ wire'[i] = wire[i]
  BY <1>1, <1>3, AppendIs
<1>5. /\ r.type = "reply" /\ r.status # "closed" /\ (r.id = client.id \/ (r.id = RemoveId /\ r.changes = <<>>))
      /\ Connected
  BY <1>1 DEF LaneInv, IdInv, ClosedInv, Connected
<1>6. IdInv'
  BY <1>1, <1>2, <1>4, <1>5 DEF LaneInv, IdInv
<1>7. RestInv'
  BY <1>1, <1>2, <1>4, <1>5 DEF LaneInv, RestInv, Waiting
<1>8. QueuedInv'
  BY <1>1, <1>2, <1>4 DEF LaneInv, QueuedInv
<1>9. BusyInv'
  BY <1>1, <1>2, <1>4 DEF LaneInv, BusyInv
<1>10. AnsweredInv'
  <2>1. CASE r.id = client.id
    <3>1. /\ \A s \in replies : s.id = client.id => s = r
          /\ \A j \in DOMAIN wire : wire[j].id = client.id => wire[j].type = "partial"
      BY <1>1, <2>1 DEF LaneInv, AnsweredInv
    <3>2. \A s \in replies' : s.id # client.id
      BY <1>1, <3>1
    <3>3. \A i \in DOMAIN wire' : wire'[i].id = client.id /\ wire'[i].type = "reply" => i = Len(wire')
      BY <1>4, <3>1
    <3>4. \A i, j \in DOMAIN wire' : i = Len(wire') /\ j > i => FALSE
      BY <1>4
    <3>5. AnsweredInv!2'
      BY <1>2, <3>3, <3>4
    <3>6. AnsweredInv!1'
      BY <1>2, <3>2
    <3> QED BY <3>5, <3>6 DEF AnsweredInv
  <2>2. CASE r.id # client.id
    <3>1. \A i \in DOMAIN wire' : wire'[i].id = client.id => i \in DOMAIN wire
      BY <1>4, <2>2
    <3> QED BY <1>1, <1>2, <1>4, <3>1 DEF LaneInv, AnsweredInv
  <2> QED BY <2>1, <2>2
<1>11. ClosedInv'
  BY <1>4, <1>5 DEF ClosedInv, Connected
<1>12. LoadInv'
  BY <1>2, <1>4, <1>5 DEF LaneInv, LoadInv
<1> QED BY <1>6, <1>7, <1>8, <1>9, <1>10, <1>11, <1>12 DEF LaneInv

(* The client reads a frame.                                               *)
LEMMA WireTail ==
    ASSUME TypeInv, Reading
    PROVE  /\ wire \in Seq(Frame) /\ wire # <<>> /\ wire' = Tail(wire) /\ Head(wire) = wire[1] /\ 1 \in DOMAIN wire
           /\ wire[1] \in Frame /\ Len(wire) \in Nat
           /\ UNCHANGED <<hist, diffs, replies, reqs, work, eng>>
           /\ DOMAIN wire' = 1..(Len(wire) - 1)
           /\ \A i \in DOMAIN wire' : i \in Nat /\ i >= 1 /\ i + 1 \in DOMAIN wire /\ wire'[i] = wire[i + 1]
<1>1. wire \in Seq(Frame) /\ wire # <<>> /\ wire' = Tail(wire)
  BY DEF TypeInv, SidecarInv, Reading
<1> QED BY <1>1, TailIs DEF Reading, replica, sidecar

(* One call at a time: a reply to a removal is read.                       *)
LEMMA LaneReadOther ==
    ASSUME TypeInv, LaneInv, ReadOther
    PROVE  LaneInv'
<1>1. Reading /\ UNCHANGED client /\ wire[1].id # client.id /\ wire[1].status # "closed"
  BY WireTail DEF ReadOther, viewSyncer
<1>2. /\ UNCHANGED <<replies, reqs, work, eng>> /\ DOMAIN wire' = 1..(Len(wire) - 1) /\ Len(wire) \in Nat
      /\ \A i \in DOMAIN wire' : i \in Nat /\ i + 1 \in DOMAIN wire /\ wire'[i] = wire[i + 1]
      /\ wire' \in Seq(Frame) /\ Len(wire') = Len(wire) - 1
  BY <1>1, WireTail, TailIs
<1>3. IdInv'
  BY <1>1, <1>2 DEF LaneInv, IdInv
<1>4. RestInv'
  BY <1>1, <1>2 DEF LaneInv, RestInv, Waiting
<1>5. QueuedInv'
  BY <1>1, <1>2 DEF LaneInv, QueuedInv
<1>6. BusyInv'
  BY <1>1, <1>2 DEF LaneInv, BusyInv
<1>7. AnsweredInv'
  <2>1. AnsweredInv!1'
    BY <1>1, <1>2 DEF LaneInv, AnsweredInv
  <2>2. ASSUME NEW i \in DOMAIN wire', wire'[i].id = client'.id, wire'[i].type = "reply",
               NEW j \in DOMAIN wire', j > i
        PROVE  wire'[j].id # client'.id
    <3>1. i + 1 \in DOMAIN wire /\ j + 1 \in DOMAIN wire /\ j + 1 > i + 1
      BY <1>2, <2>2
    <3>2. wire[i + 1].id = client.id /\ wire[i + 1].type = "reply"
      BY <1>1, <1>2, <2>2
    <3>3. wire[j + 1].id # client.id
      BY <3>1, <3>2 DEF LaneInv, AnsweredInv
    <3> QED BY <1>1, <1>2, <3>3
  <2> QED BY <2>1, <2>2 DEF AnsweredInv
<1>8. ClosedInv'
  <2>1. SUFFICES ASSUME NEW i \in DOMAIN wire', wire'[i].status = "closed"
                 PROVE  i = Len(wire') /\ reqs = <<>> /\ replies = {} /\ work.pc = "idle" /\ eng = NoEngine
    BY <1>2 DEF ClosedInv
  <2>2. i + 1 = Len(wire) /\ reqs = <<>> /\ replies = {} /\ work.pc = "idle" /\ eng = NoEngine
    BY <1>2, <2>1 DEF LaneInv, ClosedInv
  <2>3. i = Len(wire')
    BY <1>2, <2>2
  <2> QED BY <2>2, <2>3
<1>9. LoadInv'
  BY <1>1, <1>2 DEF LaneInv, LoadInv
<1> QED BY <1>3, <1>4, <1>5, <1>6, <1>7, <1>8, <1>9 DEF LaneInv

(* A partial frame is on the wire: the call is past the queue.             *)
LEMMA PartialRead ==
    ASSUME TypeInv, LaneInv, ReadPartial
    PROVE  /\ wire[1].id = client.id /\ wire[1].type = "partial" /\ wire[1].status # "closed"
           /\ client' = [client EXCEPT !.got = Append(client.got, wire[1])]
           /\ client' \in ClientState /\ client'.got = Append(client.got, wire[1])
           /\ client'.pc = client.pc /\ client'.id = client.id /\ client'.at = client.at
           /\ client'.target = client.target /\ client'.left = client.left /\ client'.adding = client.adding
           /\ client'.lossy = client.lossy /\ Waiting /\ client.pc # "init"
           /\ Reading /\ UNCHANGED <<held, view>>
           /\ \A i \in DOMAIN reqs : reqs[i].id # client.id
<1>1. /\ Reading /\ UNCHANGED <<held, view>> /\ wire[1].id = client.id /\ wire[1].type = "partial"
      /\ client' = [client EXCEPT !.got = Append(client.got, wire[1])]
  BY WireTail DEF ReadPartial, Awaited
<1>2. 1 \in DOMAIN wire /\ wire[1] \in Frame
  BY <1>1, WireTail
<1>3. client \in ClientState
  BY DEF TypeInv, ClientInv
<1>4. client.got \in Seq(Frame)
  BY <1>3 DEF ClientState
<1>5. Append(client.got, wire[1]) \in Seq(Frame)
  BY <1>2, <1>4
<1>6. /\ client' \in ClientState /\ client'.got = Append(client.got, wire[1])
      /\ client'.pc = client.pc /\ client'.id = client.id /\ client'.at = client.at
      /\ client'.target = client.target /\ client'.left = client.left /\ client'.adding = client.adding
      /\ client'.lossy = client.lossy
  BY <1>1, <1>3, <1>5 DEF ClientState
<1>7. Waiting
  BY <1>1, <1>2 DEF LaneInv, RestInv
<1>8. client.pc # "init"
  BY <1>1, <1>2 DEF LaneInv, LoadInv
<1>9. \A i \in DOMAIN reqs : reqs[i].id # client.id
  BY <1>1, <1>2 DEF LaneInv, QueuedInv
<1>10. wire[1].status # "closed"
  BY <1>1, <1>2, <1>3 DEF LaneInv, IdInv, ClientState, RemoveId
<1> QED BY <1>1, <1>6, <1>7, <1>8, <1>9, <1>10

(* One call at a time: a frame of the call is read.                        *)
LEMMA LaneReadPartial ==
    ASSUME TypeInv, LaneInv, ReadPartial
    PROVE  LaneInv'
<1>1. /\ wire[1].id = client.id /\ wire[1].type = "partial" /\ client'.got = Append(client.got, wire[1])
      /\ client'.pc = client.pc /\ client'.id = client.id /\ Waiting /\ client.pc # "init" /\ Reading
      /\ \A i \in DOMAIN reqs : reqs[i].id # client.id
  BY PartialRead
<1>2. /\ UNCHANGED <<replies, reqs, work, eng>> /\ DOMAIN wire' = 1..(Len(wire) - 1) /\ Len(wire) \in Nat
      /\ \A i \in DOMAIN wire' : i \in Nat /\ i + 1 \in DOMAIN wire /\ wire'[i] = wire[i + 1]
      /\ wire' \in Seq(Frame) /\ Len(wire') = Len(wire) - 1
  BY <1>1, WireTail, TailIs
<1>3. IdInv'
  <2>1. client.got \in Seq(Frame) /\ wire[1] \in Frame
    BY <1>1, WireTail DEF TypeInv, ClientInv, ClientState
  <2>2. \A i \in DOMAIN client'.got : \/ client'.got[i] = wire[1]
                                      \/ i \in DOMAIN client.got /\ client'.got[i] = client.got[i]
    BY <1>1, <2>1, AppendIs
  <2>3. \A i \in DOMAIN client'.got : client'.got[i].id = client'.id /\ client'.got[i].type = "partial"
    BY <1>1, <2>2 DEF LaneInv, IdInv
  <2> QED BY <1>1, <1>2, <2>3 DEF LaneInv, IdInv
<1>4. RestInv' /\ QueuedInv' /\ LoadInv'
  BY <1>1, <1>2 DEF RestInv, Waiting, QueuedInv, LoadInv
<1>5. BusyInv'
  BY <1>1, <1>2 DEF LaneInv, BusyInv
<1>6. AnsweredInv'
  <2>1. AnsweredInv!1'
    BY <1>1, <1>2 DEF LaneInv, AnsweredInv
  <2>2. ASSUME NEW i \in DOMAIN wire', wire'[i].id = client'.id, wire'[i].type = "reply",
               NEW j \in DOMAIN wire', j > i
        PROVE  wire'[j].id # client'.id
    <3>1. i + 1 \in DOMAIN wire /\ j + 1 \in DOMAIN wire /\ j + 1 > i + 1
      BY <1>2, <2>2
    <3>2. wire[i + 1].id = client.id /\ wire[i + 1].type = "reply"
      BY <1>1, <1>2, <2>2
    <3>3. wire[j + 1].id # client.id
      BY <3>1, <3>2 DEF LaneInv, AnsweredInv
    <3> QED BY <1>1, <1>2, <3>3
  <2> QED BY <2>1, <2>2 DEF AnsweredInv
<1>7. ClosedInv'
  <2>1. SUFFICES ASSUME NEW i \in DOMAIN wire', wire'[i].status = "closed"
                 PROVE  i = Len(wire') /\ reqs = <<>> /\ replies = {} /\ work.pc = "idle" /\ eng = NoEngine
    BY <1>2 DEF ClosedInv
  <2>2. i + 1 = Len(wire) /\ reqs = <<>> /\ replies = {} /\ work.pc = "idle" /\ eng = NoEngine
    BY <1>2, <2>1 DEF LaneInv, ClosedInv
  <2>3. i = Len(wire')
    BY <1>2, <2>2
  <2> QED BY <2>2, <2>3
<1> QED BY <1>3, <1>4, <1>5, <1>6, <1>7 DEF LaneInv

(* The answer, or the end of the connection: nothing of the call is left   *)
(* behind it.                                                              *)
LEMMA NothingLeft ==
    ASSUME TypeInv, LaneInv, Reading, (wire[1].id = client.id /\ wire[1].type = "reply") \/ wire[1].status = "closed"
    PROVE  /\ \A i \in DOMAIN reqs : reqs[i].id # client.id
           /\ work.pc = "idle" /\ work = Idle
           /\ \A r \in replies : r.id # client.id
           /\ \A i \in DOMAIN wire' : wire'[i].id # client.id
<1>1. 1 \in DOMAIN wire /\ DOMAIN wire' = 1..(Len(wire) - 1) /\ Len(wire) \in Nat
      /\ \A i \in DOMAIN wire' : i \in Nat /\ i >= 1 /\ i + 1 \in DOMAIN wire /\ wire'[i] = wire[i + 1]
  BY WireTail
<1>2. CASE wire[1].id = client.id /\ wire[1].type = "reply"
  <2>1. \A i \in DOMAIN reqs : reqs[i].id # client.id
    BY <1>1, <1>2 DEF LaneInv, QueuedInv
  <2>2. work.pc = "idle"
    BY <1>1, <1>2 DEF LaneInv, BusyInv
  <2>3. \A r \in replies : r.id # client.id
    BY <1>1, <1>2 DEF LaneInv, AnsweredInv
  <2>4. ASSUME NEW i \in DOMAIN wire' PROVE wire'[i].id # client.id
    <3>1. i + 1 \in DOMAIN wire /\ i + 1 > 1 /\ wire'[i] = wire[i + 1]
      BY <1>1
    <3> QED BY <1>1, <1>2, <3>1 DEF LaneInv, AnsweredInv
  <2> QED BY <2>1, <2>2, <2>3, <2>4 DEF LaneInv, IdInv
<1>3. CASE wire[1].status = "closed"
  <2>1. 1 = Len(wire) /\ reqs = <<>> /\ replies = {} /\ work.pc = "idle"
    BY <1>1, <1>3 DEF LaneInv, ClosedInv
  <2>2. DOMAIN wire' = {} /\ DOMAIN reqs = {}
    BY <1>1, <2>1
  <2> QED BY <2>1, <2>2 DEF LaneInv, IdInv
<1> QED BY <1>2, <1>3

(* One call at a time: the answer is read, nothing of the call is left     *)
(* anywhere.                                                               *)
LEMMA LaneReadEnd ==
    ASSUME TypeInv, LaneInv, Reading,
           (wire[1].id = client.id /\ wire[1].type = "reply") \/ wire[1].status = "closed",
           client'.id = client.id, client'.pc \in {"reset", "load", "idle"}, client'.got = <<>>
    PROVE  LaneInv'
<1>1. /\ UNCHANGED <<replies, reqs, work, eng>> /\ DOMAIN wire' = 1..(Len(wire) - 1) /\ Len(wire) \in Nat
      /\ \A i \in DOMAIN wire' : i \in Nat /\ i + 1 \in DOMAIN wire /\ wire'[i] = wire[i + 1]
      /\ wire' \in Seq(Frame) /\ Len(wire') = Len(wire) - 1
  BY WireTail, TailIs
<1>2. /\ \A i \in DOMAIN reqs : reqs[i].id # client.id
      /\ work.pc = "idle" /\ work = Idle
      /\ \A r \in replies : r.id # client.id
      /\ \A i \in DOMAIN wire' : wire'[i].id # client.id
  BY NothingLeft
<1>3. DOMAIN client'.got = {}
  OBVIOUS
<1>4. IdInv'
  BY <1>1, <1>2, <1>3 DEF LaneInv, IdInv
<1>5. RestInv' /\ QueuedInv' /\ BusyInv' /\ AnsweredInv' /\ LoadInv'
  BY <1>1, <1>2 DEF RestInv, QueuedInv, BusyInv, AnsweredInv, LoadInv
<1>6. ClosedInv'
  <2>1. SUFFICES ASSUME NEW i \in DOMAIN wire', wire'[i].status = "closed"
                 PROVE  i = Len(wire') /\ reqs = <<>> /\ replies = {} /\ work.pc = "idle" /\ eng = NoEngine
    BY <1>1 DEF ClosedInv
  <2>2. i + 1 = Len(wire) /\ reqs = <<>> /\ replies = {} /\ work.pc = "idle" /\ eng = NoEngine
    BY <1>1, <2>1 DEF LaneInv, ClosedInv
  <2>3. i = Len(wire')
    BY <1>1, <2>2
  <2> QED BY <2>2, <2>3
<1> QED BY <1>4, <1>5, <1>6 DEF LaneInv

(* What the client is after the last frame of a call.                      *)
LEMMA EndIs ==
    ASSUME TypeInv, LaneInv, ReadFailure \/ ReadLoaded \/ ReadRehydrated \/ ReadAdded \/ ReadAdvanced
    PROVE  /\ Reading
           /\ (wire[1].id = client.id /\ wire[1].type = "reply") \/ wire[1].status = "closed"
           /\ client'.id = client.id /\ client'.got = <<>>
           /\ client'.pc \in {"reset", "load", "idle"} /\ client'.lossy = client.lossy
<1>1. client \in ClientState
  BY DEF TypeInv, ClientInv
<1>2. ReadLoaded => client.got = <<>>
  BY DEF LaneInv, LoadInv, ReadLoaded, ReadOk
<1>3. Reading
  BY DEF ReadFailure, ReadLoaded, ReadRehydrated, ReadAdded, ReadAdvanced, ReadOk
<1>4. (wire[1].id = client.id /\ wire[1].type = "reply") \/ wire[1].status = "closed"
  BY <1>3, WireTail DEF ReadFailure, ReadLoaded, ReadRehydrated, ReadAdded, ReadAdvanced, ReadOk, Awaited
<1>5. /\ client'.id = client.id /\ client'.got = <<>>
      /\ client'.pc \in {"reset", "load", "idle"} /\ client'.lossy = client.lossy
  BY <1>1, <1>2 DEF ReadFailure, ReadLoaded, ReadRehydrated, ReadAdded, ReadAdvanced, ClientState
<1> QED BY <1>3, <1>4, <1>5

(* One call at a time: the worker takes a request.                         *)
LEMMA LaneHandle ==
    ASSUME TypeInv, LaneInv, Handle
    PROVE  LaneInv'
<1>1. Head(reqs) = reqs[1] /\ reqs[1] \in Request
  BY TakenIs
<1>2. CASE handleInit
  <2>1. work' = work /\ Answers(reqs[1].id, "ok", <<>>)
    BY <1>1, <1>2 DEF handleInit
  <2> QED BY <2>1, LaneAnswer
<1>3. CASE Refused
  <2>1. work' = work /\ Answers(reqs[1].id, "error", <<>>)
    BY <1>1, <1>3 DEF Refused
  <2> QED BY <2>1, LaneAnswer
<1>4. CASE handleLoadRows
  <2>1. work' = work /\ Answers(reqs[1].id, "ok", <<>>)
    BY <1>1, <1>4 DEF handleLoadRows
  <2> QED BY <2>1, LaneAnswer
<1>5. CASE handleRemoveQuery
  <2>1. work' = work /\ Answers(reqs[1].id, "ok", <<>>)
    BY <1>1, <1>5 DEF handleRemoveQuery
  <2> QED BY <2>1, LaneAnswer
<1>6. CASE handleAddQueries
  <2>1. work' = work /\ Answers(reqs[1].id, "ok", AddQueries(reqs[1].arg)) /\ reqs[1].method = "addQueries"
    BY <1>1, <1>6 DEF handleAddQueries, Taking
  <2>2. reqs[1].id # RemoveId
    BY <1>1, <2>1, RequestIs
  <2> QED BY <2>1, <2>2, LaneAnswer
<1>7. CASE handleAddQueriesStream
  <2>1. /\ work' = [Idle EXCEPT !.pc = "hydrate", !.id = reqs[1].id, !.parts = AddQueriesStream(reqs[1].arg)]
        /\ replies' = replies /\ reqs[1].method = "addQueriesStream"
    BY <1>1, <1>7 DEF handleAddQueriesStream, Taking
  <2>2. work'.pc = "hydrate" /\ work'.id = reqs[1].id
    BY <2>1 DEF Idle
  <2> QED BY <2>1, <2>2, LaneStart
<1>8. CASE handleAdvance \/ handleAdvanceStream
  <2>1. PICK b \in BOOLEAN : Advancing(b) /\ reqs[1].method \in {"advance", "advanceStream"}
    BY <1>1, <1>8 DEF handleAdvance, handleAdvanceStream, Taking
  <2>2. work'.pc = "advance" /\ work'.id = reqs[1].id /\ replies' = replies
    BY <1>1, <2>1 DEF Advancing, Idle
  <2> QED BY <2>1, <2>2, LaneStart
<1> QED BY <1>2, <1>3, <1>4, <1>5, <1>6, <1>7, <1>8 DEF Handle

(* What a step of the worker at a call sends.                              *)
LEMMA ChunkSends ==
    ASSUME TypeInv, LaneInv, NEW q, HydrateChunk(q)
    PROVE  /\ \E f : Sends(f)
           /\ work'.pc = "hydrate" /\ work'.id = work.id
           /\ work.pc = "hydrate" /\ UNCHANGED <<client, reqs, replies>>
<1>1. SidecarInv /\ work \in WorkState
  BY DEF TypeInv, SidecarInv
<1>2. PICK a, b \in Seq(RowChangeOf), final \in BOOLEAN : ChunkTaken(q, a, b, final)
  BY <1>1, ChunkIs
<1>3. work.pc = "hydrate" /\ q \in Query /\ work.parts[q] \in Part
  BY <1>1, ChunkIs
<1> DEFINE f == Partial(work.id, q, a, work.parts[q].index, final, FALSE)
<1>4. work.parts[q].index \in Nat /\ work.id \in {0, 1} /\ work.id = client.id
  BY <1>1, <1>3, BusyIs DEF Part, WorkState
<1>5. f \in Frame
  BY <1>3, <1>4, PartialIs
<1>6. f.type = "partial" /\ f.id = client.id /\ f.status = "ok"
  BY <1>4 DEF Partial
<1>7. wire' = Append(wire, f) /\ work'.pc = work.pc /\ work'.id = work.id
  BY <1>1, <1>2 DEF ChunkTaken, WorkState
<1> HIDE DEF f
<1>8. Sends(f)
  BY <1>5, <1>6, <1>7 DEF Sends
<1> QED BY <1>3, <1>7, <1>8 DEF HydrateChunk, HydrateFrame, viewSyncer

(* A push writes at most one frame, of the call.                           *)
LEMMA PushSends ==
    ASSUME TypeInv, LaneInv, Push
    PROVE  /\ wire' = wire \/ \E f : Sends(f)
           /\ work'.pc = "advance" /\ work'.id = work.id
           /\ work.pc = "advance" /\ UNCHANGED <<client, reqs, replies>>
<1>1. SidecarInv /\ work \in WorkState
  BY DEF TypeInv, SidecarInv
<1>2. PICK s \in Seq(RowChangeOf), full \in BOOLEAN : Pushed(s, full)
  BY <1>1, PushIs
<1>3. work.pc = "advance" /\ UNCHANGED <<reqs, replies, client>>
  BY <1>1, PushIs DEF Push, viewSyncer
<1> DEFINE f == Partial(work.id, NoQuery, s, work.index, FALSE, FALSE)
<1>4. work.index \in Nat /\ work.id \in {0, 1} /\ work.id = client.id
  BY <1>1, <1>3, BusyIs DEF WorkState
<1>5. f \in Frame
  BY <1>3, <1>4, PartialIs
<1>6. f.type = "partial" /\ f.id = client.id /\ f.status = "ok"
  BY <1>4 DEF Partial
<1>7. (wire' = Append(wire, f) \/ wire' = wire) /\ work'.pc = work.pc /\ work'.id = work.id
  BY <1>1, <1>2 DEF Pushed, WorkState
<1> HIDE DEF f
<1>8. wire' = Append(wire, f) => Sends(f)
  BY <1>5, <1>6 DEF Sends
<1> QED BY <1>3, <1>7, <1>8

(* An advance ends with at most one frame, and one reply.                  *)
LEMMA FinishSends ==
    ASSUME TypeInv, LaneInv, NEW drift \in BOOLEAN, NEW s \in Seq(RowChangeOf), Finish(drift, s), work.pc # "idle"
    PROVE  /\ wire' = wire \/ \E f : Sends(f)
           /\ work' = Idle /\ UNCHANGED <<client, reqs>>
           /\ \E st \in {"ok", "drift"} : \E t : Answers(work.id, st, t)
<1>1. work \in WorkState
  BY DEF TypeInv, SidecarInv
<1> DEFINE f == Partial(work.id, NoQuery, s, work.index, TRUE, drift)
<1>2. work.index \in Nat /\ work.id \in {0, 1} /\ work.id = client.id
  BY <1>1, BusyIs DEF WorkState
<1>3. f \in Frame
  BY <1>2, PartialIs
<1>4. f.type = "partial" /\ f.id = client.id /\ f.status # "closed"
  BY <1>2 DEF Partial
<1>5. wire' = Append(wire, f) \/ wire' = wire
  BY DEF Finish
<1> HIDE DEF f
<1>6. wire' = Append(wire, f) => Sends(f)
  BY <1>3, <1>4 DEF Sends
<1>7. \E st \in {"ok", "drift"} : \E t : Answers(work.id, st, t)
  BY DEF Finish
<1> QED BY <1>5, <1>6, <1>7 DEF Finish, viewSyncer

(* One call at a time: every step.                                         *)
LEMMA NextLane == TypeInv /\ LaneInv /\ [Next]_vars => LaneInv'
<1> SUFFICES ASSUME TypeInv, LaneInv, [Next]_vars PROVE LaneInv'
  OBVIOUS
<1>0. ASSUME UNCHANGED <<client.pc, client.id, client.got, wire, replies, reqs, work, eng>> PROVE LaneInv'
  BY <1>0 DEF LaneInv, IdInv, RestInv, QueuedInv, BusyInv, AnsweredInv, ClosedInv, LoadInv, Waiting
<1>1. CASE Work
  <2>1. CASE \E q \in Query : HydrateChunk(q)
    <3>1. PICK q \in Query : HydrateChunk(q)
      BY <2>1
    <3> QED BY <3>1, ChunkSends, LaneSend
  <2>2. CASE HydrateDone
    <3>1. work.pc = "hydrate" /\ Answers(work.id, "ok", <<>>) /\ work' = Idle /\ UNCHANGED <<client, wire, reqs>>
      BY <2>2 DEF HydrateDone, viewSyncer
    <3> QED BY <3>1, LaneDone
  <2>3. CASE Push
    BY <2>3, PushSends, LaneSend
  <2>4. CASE AdvanceDone \/ AdvanceDrifts
    <3>1. PICK drift \in BOOLEAN, s \in Seq(RowChangeOf) : Finish(drift, s) /\ work.pc = "advance"
      <4>1. work.pending \in Seq(RowChangeOf) /\ <<>> \in Seq(RowChangeOf)
        BY DEF TypeInv, SidecarInv, WorkState
      <4> QED BY <2>4, <4>1 DEF AdvanceDone, AdvanceDrifts
    <3>2. /\ wire' = wire \/ \E f : Sends(f)
          /\ work' = Idle /\ UNCHANGED <<client, reqs>>
          /\ \E st \in {"ok", "drift"} : \E t : Answers(work.id, st, t)
      BY <3>1, FinishSends
    <3> QED BY <3>1, <3>2, LaneDone
  <2> QED BY <1>1, <2>1, <2>2, <2>3, <2>4, LaneHandle DEF Work
<1>2. CASE Kill
  BY <1>2, LaneDies DEF Kill, viewSyncer
<1>3. CASE PushPanics
  <2>1. work.pc # "idle" /\ client' = client
    BY <1>3 DEF PushPanics, viewSyncer
  <2>2. CASE Dies
    BY <2>1, <2>2, BusyIs, LaneDies
  <2>3. CASE ~Dies
    <3>1. Answers(work.id, "error", <<>>) /\ work' = Idle /\ UNCHANGED <<reqs, wire>>
      BY <1>3, <2>3 DEF PushPanics
    <3> QED BY <2>1, <3>1, LaneDone
  <2> QED BY <2>2, <2>3
<1>4. CASE Read
  <2>1. CASE ReadFailure \/ ReadLoaded \/ ReadRehydrated \/ ReadAdded \/ ReadAdvanced
    BY <2>1, EndIs, LaneReadEnd
  <2> QED BY <1>4, <2>1, LaneReadOther, LaneReadPartial DEF Read
<1>5. CASE DropAdvance
  <2>1. UNCHANGED <<client.pc, client.id, client.got>>
    BY <1>5 DEF DropAdvance, TypeInv, ClientInv, ClientState
  <2> QED BY <1>0, <1>5, <2>1 DEF DropAdvance, sidecar
<1>6. CASE ReplicaStep
  BY <1>0, <1>6, ReplicaFrame
<1>7. CASE UNCHANGED vars
  BY <1>0, <1>7 DEF vars, viewSyncer, sidecar
<1> QED BY <1>1, <1>2, <1>3, <1>4, <1>5, <1>6, <1>7, LaneWrite, LaneCall, LaneRemove, Steps
        DEF SidecarStep, ClientStep

-----------------------------------------------------------------------------
(* The frames of the call.                                                 *)

LEMMA FramesType ==
    ASSUME TypeInv
    PROVE  /\ client.got \in Seq(Frame) /\ wire \in Seq(Frame) /\ Frames \in Seq(Frame)
           /\ DOMAIN Frames = 1..Len(Frames) /\ Len(Frames) \in Nat /\ Len(Frames) = Len(client.got) + Len(wire)
           /\ \A i \in DOMAIN Frames : /\ Frames[i] \in Frame /\ Frames[i].index \in Nat
                                       /\ Frames[i].type \in {"partial", "reply"}
                                       /\ Frames[i].query \in Query \cup {NoQuery}
           /\ \A i \in DOMAIN client.got : i \in DOMAIN Frames /\ Frames[i] = client.got[i]
           /\ \A i \in DOMAIN wire : Len(client.got) + i \in DOMAIN Frames /\ Frames[Len(client.got) + i] = wire[i]
           /\ \A i \in DOMAIN Frames : \/ i \in DOMAIN client.got /\ Frames[i] = client.got[i]
                                       \/ i - Len(client.got) \in DOMAIN wire /\ Frames[i] = wire[i - Len(client.got)]
<1>1. client.got \in Seq(Frame) /\ wire \in Seq(Frame)
  BY DEF TypeInv, ClientInv, ClientState, SidecarInv
<1>2. PICK g : g = client.got
  OBVIOUS
<1> DEFINE F == g \o wire
<1>3. /\ F \in Seq(Frame) /\ Len(F) = Len(g) + Len(wire)
      /\ DOMAIN g = 1..Len(g) /\ DOMAIN wire = 1..Len(wire)
      /\ DOMAIN F = 1..(Len(g) + Len(wire))
      /\ \A i \in DOMAIN g : i \in DOMAIN F /\ F[i] = g[i]
      /\ \A i \in DOMAIN wire : Len(g) + i \in DOMAIN F /\ F[Len(g) + i] = wire[i]
      /\ \A i \in DOMAIN F : i \in DOMAIN g \/ (i > Len(g) /\ i - Len(g) \in DOMAIN wire)
      /\ Len(g) \in Nat /\ Len(wire) \in Nat
  BY <1>1, <1>2, ConcatIs, SMTT(30)
<1> HIDE DEF F
<1>4. \A i \in DOMAIN F : \/ i \in DOMAIN g /\ F[i] = g[i]
                          \/ i - Len(g) \in DOMAIN wire /\ F[i] = wire[i - Len(g)]
  <2> TAKE i \in DOMAIN F
  <2>1. CASE i > Len(g) /\ i - Len(g) \in DOMAIN wire
    <3>1. Len(g) + (i - Len(g)) = i
      BY <1>3, <2>1
    <3> QED BY <1>3, <2>1, <3>1
  <2> QED BY <1>3, <2>1
<1>5. \A f \in Frame : f.index \in Nat /\ f.type \in {"partial", "reply"} /\ f.query \in Query \cup {NoQuery}
  BY DEF Frame
<1>6. \A i \in DOMAIN F : F[i] \in Frame
  BY <1>3
<1>7. Frames = F
  BY <1>2 DEF Frames, F
<1> QED BY <1>1, <1>2, <1>3, <1>4, <1>5, <1>6, <1>7

(* All frames of the call are partial while the worker is busy, and there  *)
(* are none when it takes the call or when the call is over.               *)
LEMMA MinePartial ==
    ASSUME TypeInv, LaneInv, work.pc # "idle"
    PROVE  \A i \in Mine : Frames[i].type = "partial"
<1>1. \A i \in DOMAIN client.got : client.got[i].type = "partial"
  BY DEF LaneInv, IdInv
<1>2. \A j \in DOMAIN wire : wire[j].id = client.id => wire[j].type = "partial"
  BY BusyIs
<1>3. \A i \in DOMAIN Frames : \/ i \in DOMAIN client.got /\ Frames[i] = client.got[i]
                               \/ i - Len(client.got) \in DOMAIN wire /\ Frames[i] = wire[i - Len(client.got)]
  BY FramesType
<1> QED BY <1>1, <1>2, <1>3 DEF Mine

(* No frame of the call has been received or is on its way.                *)
LEMMA MineNone ==
    ASSUME TypeInv, client.got = <<>>, \A j \in DOMAIN wire : wire[j].id # client.id
    PROVE  Mine = {} /\ \A q : Stream(q) = {}
<1>1. DOMAIN client.got = {}
  OBVIOUS
<1> QED BY <1>1, FramesType DEF Mine, Stream

(* Frames: a call of which there are none yet.                             *)
LEMMA FrameNone ==
    ASSUME Mine' = {}, work'.pc = "advance" => work'.index = 0,
           work'.pc = "hydrate" => \A q \in DOMAIN work'.parts : work'.parts[q].index = 0 /\ ~work'.parts[q].done
    PROVE  FrameInv'
<1>1. \A q : Stream(q)' = {}
  BY DEF Stream
<1>2. FrameContract' /\ Finals'
  BY <1>1 DEF FrameContract, Finals
<1>3. 0..(0 - 1) = {}
  OBVIOUS
<1>4. HydrateFrames'
  BY <1>3 DEF HydrateFrames
<1>5. AdvanceFrames'
  BY <1>3 DEF AdvanceFrames
<1> QED BY <1>2, <1>4, <1>5 DEF FrameInv, AnswerFrames

(* A frame is written.                                                     *)
LEMMA FramesAppend ==
    ASSUME TypeInv, NEW f \in Frame, wire' = Append(wire, f), client' = client
    PROVE  /\ Frames' = Append(Frames, f) /\ DOMAIN Frames' = DOMAIN Frames \cup {Len(Frames) + 1}
           /\ Frames'[Len(Frames) + 1] = f /\ Len(Frames) + 1 \notin DOMAIN Frames
           /\ \A i \in DOMAIN Frames : Frames'[i] = Frames[i] /\ i < Len(Frames) + 1
           /\ Mine' = Mine \cup (IF f.id = client.id THEN {Len(Frames) + 1} ELSE {})
           /\ \A q : Stream(q)' = Stream(q) \cup
                (IF f.id = client.id /\ f.type = "partial" /\ f.query = q THEN {Len(Frames) + 1} ELSE {})
<1>1. /\ client.got \in Seq(Frame) /\ wire \in Seq(Frame) /\ Frames \in Seq(Frame)
      /\ DOMAIN Frames = 1..Len(Frames) /\ Len(Frames) \in Nat
  BY FramesType
<1>2. Frames' = Append(Frames, f)
  <2>1. PICK g : g = client.got
    OBVIOUS
  <2>2. g \o Append(wire, f) = Append(g \o wire, f)
    <3>1. Append(wire, f) = wire \o <<f>> /\ Append(g \o wire, f) = (g \o wire) \o <<f>>
      BY <1>1, <2>1, AppendIsConcat, ConcatProperties
    <3>2. g \o (wire \o <<f>>) = (g \o wire) \o <<f>>
      <4>1. <<f>> \in Seq(Frame)
        OBVIOUS
      <4>2. g \in Seq(Frame) /\ wire \in Seq(Frame)
        BY <1>1, <2>1
      <4>3. PICK e, w : e = <<f>> /\ w = wire
        OBVIOUS
      <4>4. (g \o w) \o e = g \o (w \o e)
        BY <4>1, <4>2, <4>3, ConcatAssociative
      <4> QED BY <4>3, <4>4, Zenon
    <3> QED BY <3>1, <3>2, Zenon
  <2> QED BY <2>1, <2>2 DEF Frames
<1>3. /\ DOMAIN Frames' = DOMAIN Frames \cup {Len(Frames) + 1}
      /\ Frames'[Len(Frames) + 1] = f /\ Len(Frames) + 1 \notin DOMAIN Frames
      /\ \A i \in DOMAIN Frames : Frames'[i] = Frames[i] /\ i < Len(Frames) + 1
  BY <1>1, <1>2
<1>4. PICK n : n = Len(Frames) + 1
  OBVIOUS
<1>5. Mine' = Mine \cup (IF f.id = client.id THEN {n} ELSE {})
  BY <1>3, <1>4 DEF Mine
<1>6. \A q : Stream(q)' = Stream(q) \cup
                (IF f.id = client.id /\ f.type = "partial" /\ f.query = q THEN {n} ELSE {})
  <2> TAKE q
  <2>1. \A i : i \in Stream(q) <=> i \in DOMAIN Frames /\ Frames[i].id = client.id /\ Frames[i].type = "partial" /\ Frames[i].query = q
    BY DEF Stream, Mine
  <2>2. \A i : i \in Stream(q)' <=> i \in DOMAIN Frames' /\ Frames'[i].id = client.id /\ Frames'[i].type = "partial" /\ Frames'[i].query = q
    BY DEF Stream, Mine
  <2> QED BY <1>3, <1>4, <2>1, <2>2
<1> QED BY <1>2, <1>3, <1>4, <1>5, <1>6

(* The next frame of a stream that has none that is final.                 *)
LEMMA FrameSent ==
    ASSUME TypeInv, FrameContract, NEW f \in Frame, wire' = Append(wire, f), client' = client,
           f.id = client.id, f.type = "partial", \A i \in Mine : Frames[i].type = "partial",
           \A i \in Stream(f.query) : Frames[i].index < f.index /\ ~Frames[i].final,
           \A n \in 0..(f.index - 1) : \E i \in Stream(f.query) : Frames[i].index = n
    PROVE  FrameContract'
<1>0. /\ Frames'[Len(Frames) + 1] = f /\ Len(Frames) + 1 \notin DOMAIN Frames
      /\ \A i \in DOMAIN Frames : Frames'[i] = Frames[i] /\ i < Len(Frames) + 1
      /\ Mine' = Mine \cup (IF f.id = client.id THEN {Len(Frames) + 1} ELSE {})
      /\ \A q : Stream(q)' = Stream(q) \cup
           (IF f.id = client.id /\ f.type = "partial" /\ f.query = q THEN {Len(Frames) + 1} ELSE {})
  BY FramesAppend
<1>1. PICK m : m = Len(Frames) + 1
  OBVIOUS
<1>2. /\ Frames'[m] = f /\ m \notin DOMAIN Frames
      /\ \A i \in DOMAIN Frames : Frames'[i] = Frames[i] /\ i < m
      /\ Mine' = Mine \cup {m}
      /\ \A q : Stream(q)' = Stream(q) \cup (IF f.query = q THEN {m} ELSE {})
  <2>1. Frames'[m] = f /\ m \notin DOMAIN Frames
    BY <1>0, <1>1
  <2>2. \A i \in DOMAIN Frames : Frames'[i] = Frames[i] /\ i < m
    BY <1>0, <1>1
  <2>3. Mine' = Mine \cup {m}
    BY <1>0, <1>1
  <2>4. \A q : Stream(q)' = Stream(q) \cup (IF f.query = q THEN {m} ELSE {})
    BY <1>0, <1>1
  <2> QED BY <2>1, <2>2, <2>3, <2>4
<1>3. Mine \subseteq DOMAIN Frames /\ \A q : Stream(q) \subseteq DOMAIN Frames
  BY DEF Mine, Stream
<1>4. m \in Nat /\ \A i \in DOMAIN Frames : i \in Nat
  <2>1. Len(Frames) \in Nat /\ DOMAIN Frames = 1..Len(Frames)
    BY FramesType
  <2> QED BY <1>1, <2>1
<1>5. ASSUME NEW q \in Query \cup {NoQuery}, NEW i \in Stream(q)', NEW j \in Stream(q)', j < i
      PROVE  Frames'[j].index < Frames'[i].index /\ ~Frames'[j].final
  <2>1. j # m
    BY <1>2, <1>3, <1>4, <1>5
  <2>2. j \in Stream(q) /\ Frames'[j] = Frames[j]
    BY <1>2, <1>3, <2>1
  <2>3. CASE i = m
    <3>1. f.query = q
      BY <1>2, <1>3, <2>3
    <3> QED BY <1>2, <2>2, <2>3, <3>1
  <2>4. CASE i # m
    <3>1. i \in Stream(q) /\ Frames'[i] = Frames[i]
      BY <1>2, <1>3, <2>4
    <3>2. Frames[j].index < Frames[i].index /\ ~Frames[j].final
      BY <1>5, <2>2, <3>1 DEF FrameContract
    <3> QED BY <2>2, <3>1, <3>2
  <2> QED BY <2>3, <2>4
<1>6. ASSUME NEW q \in Query \cup {NoQuery}, NEW i \in Stream(q)', NEW n \in 0..(Frames'[i].index - 1)
      PROVE  \E j \in Stream(q)' : Frames'[j].index = n
  <2>1. CASE i = m
    <3>1. f.query = q /\ n \in 0..(f.index - 1)
      BY <1>2, <1>3, <1>6, <2>1
    <3>2. PICK j \in Stream(q) : Frames[j].index = n
      BY <3>1
    <3> QED BY <1>2, <1>3, <3>2
  <2>2. CASE i # m
    <3>1. i \in Stream(q) /\ Frames'[i] = Frames[i]
      BY <1>2, <1>3, <2>2
    <3>2. PICK j \in Stream(q) : Frames[j].index = n
      BY <1>6, <3>1 DEF FrameContract
    <3> QED BY <1>2, <1>3, <3>2
  <2> QED BY <2>1, <2>2
<1>7. \A i \in Mine' : Frames'[i].type # "reply"
  BY <1>2, <1>3
<1> QED BY <1>5, <1>6, <1>7 DEF FrameContract

(* A frame that is not a partial frame of the call leaves the streams as   *)
(* they are.                                                               *)
LEMMA StreamsStay ==
    ASSUME TypeInv, NEW f \in Frame, wire' = Append(wire, f), client' = client,
           f.id # client.id \/ f.type = "reply"
    PROVE  /\ \A q : Stream(q)' = Stream(q)
           /\ \A q : \A i \in Stream(q) : Frames'[i] = Frames[i]
           /\ Finals => Finals'
<1>1. /\ \A i \in DOMAIN Frames : Frames'[i] = Frames[i]
      /\ \A q : Stream(q)' = Stream(q) \cup
                (IF f.id = client.id /\ f.type = "partial" /\ f.query = q THEN {Len(Frames) + 1} ELSE {})
  BY FramesAppend
<1>2. \A q : Stream(q) \subseteq DOMAIN Frames
  BY DEF Mine, Stream
<1>3. \A q : Stream(q)' = Stream(q)
  BY <1>1
<1> QED BY <1>1, <1>2, <1>3 DEF Finals

(* Frames: a reply behind the streams it ends, or to another call.         *)
LEMMA FrameOther ==
    ASSUME TypeInv, FrameContract, NEW f \in Frame, wire' = Append(wire, f), client' = client,
           \/ f.id # client.id
           \/ f.type = "reply" /\ Finals /\ \A i \in Mine : Frames[i].type = "partial"
    PROVE  FrameContract'
<1>0. /\ Frames'[Len(Frames) + 1] = f /\ Len(Frames) + 1 \notin DOMAIN Frames
      /\ \A i \in DOMAIN Frames : Frames'[i] = Frames[i] /\ i < Len(Frames) + 1
      /\ Mine' = Mine \cup (IF f.id = client.id THEN {Len(Frames) + 1} ELSE {})
      /\ \A q : Stream(q)' = Stream(q) \cup
           (IF f.id = client.id /\ f.type = "partial" /\ f.query = q THEN {Len(Frames) + 1} ELSE {})
  BY FramesAppend
<1>1. PICK m : m = Len(Frames) + 1
  OBVIOUS
<1>2. /\ Frames'[m] = f /\ m \notin DOMAIN Frames
      /\ \A i \in DOMAIN Frames : Frames'[i] = Frames[i] /\ i < m
      /\ Mine' = Mine \cup (IF f.id = client.id THEN {m} ELSE {})
  <2>1. Frames'[m] = f /\ m \notin DOMAIN Frames
    BY <1>0, <1>1
  <2>2. \A i \in DOMAIN Frames : Frames'[i] = Frames[i] /\ i < m
    BY <1>0, <1>1
  <2>3. Mine' = Mine \cup (IF f.id = client.id THEN {m} ELSE {})
    BY <1>0, <1>1
  <2> QED BY <2>1, <2>2, <2>3
<1>3. Mine \subseteq DOMAIN Frames /\ \A q : Stream(q) \subseteq DOMAIN Frames
  BY DEF Mine, Stream
<1>4. m \in Nat /\ \A i \in DOMAIN Frames : i \in Nat
  <2>1. Len(Frames) \in Nat /\ DOMAIN Frames = 1..Len(Frames)
    BY FramesType
  <2> QED BY <1>1, <2>1
<1>5. /\ \A q : Stream(q)' = Stream(q)
      /\ \A q : \A i \in Stream(q) : Frames'[i] = Frames[i]
  BY StreamsStay
<1>6. FrameContract!1'
  BY <1>5 DEF FrameContract
<1>7. ASSUME NEW i \in Mine', Frames'[i].type = "reply"
      PROVE  /\ \A j \in Mine' : j <= i
             /\ \A q \in Query \cup {NoQuery} : Stream(q)' # {} => \E j \in Stream(q)' : Frames'[j].final
  <2>1. CASE f.id # client.id
    BY <1>2, <1>3, <1>5, <1>7, <2>1 DEF FrameContract
  <2>2. CASE f.type = "reply" /\ Finals /\ (\A k \in Mine : Frames[k].type = "partial") /\ f.id = client.id
    <3>1. i = m
      BY <1>2, <1>3, <1>7, <2>2
    <3>2. \A j \in Mine' : j <= i
      BY <1>2, <1>3, <1>4, <3>1
    <3> QED BY <1>5, <2>2, <3>2 DEF Finals
  <2> QED BY <2>1, <2>2
<1> QED BY <1>6, <1>7 DEF FrameContract

(* A frame of another call is read: the frames of the call stay in order.  *)
LEMMA FrameShift ==
    ASSUME NEW h, FrameInv, DOMAIN Frames \subseteq Nat, (DOMAIN Frames)' \subseteq Nat,
           \A i \in DOMAIN Frames' : h[i] \in DOMAIN Frames /\ Frames'[i] = Frames[h[i]],
           \A i, j \in DOMAIN Frames' : j < i <=> h[j] < h[i],
           \A k \in Mine : \E i \in DOMAIN Frames' : h[i] = k,
           client'.id = client.id, work' = work, replies' = replies
    PROVE  FrameInv'
<1>1. /\ \A i \in Mine' : i \in DOMAIN Frames' /\ h[i] \in Mine /\ Frames'[i] = Frames[h[i]]
      /\ \A k \in Mine : \E i \in Mine' : h[i] = k
  BY DEF Mine
<1>2. \A q : /\ \A i \in Stream(q)' : h[i] \in Stream(q) /\ i \in DOMAIN Frames' /\ Frames'[i] = Frames[h[i]]
             /\ \A k \in Stream(q) : \E i \in Stream(q)' : h[i] = k
  <2>1. \A q, i : i \in Stream(q) <=> i \in DOMAIN Frames /\ Frames[i].id = client.id /\ Frames[i].type = "partial" /\ Frames[i].query = q
    BY DEF Stream, Mine
  <2>2. \A q, i : i \in Stream(q)' <=> i \in DOMAIN Frames' /\ Frames'[i].id = client.id /\ Frames'[i].type = "partial" /\ Frames'[i].query = q
    BY DEF Stream, Mine
  <2>3. \A q : \A i \in Stream(q) : i \in Mine
    BY DEF Stream
  <2> QED BY <2>1, <2>2, <2>3
<1>3. Mine \subseteq DOMAIN Frames
  BY DEF Mine
<1>4. ASSUME NEW q \in Query \cup {NoQuery}, NEW i \in Stream(q)', NEW j \in Stream(q)', j < i
      PROVE  Frames'[j].index < Frames'[i].index /\ ~Frames'[j].final
  <2>1. h[i] \in Stream(q) /\ h[j] \in Stream(q) /\ h[j] < h[i]
    BY <1>2, <1>4
  <2>2. Frames[h[j]].index < Frames[h[i]].index /\ ~Frames[h[j]].final
    BY <2>1 DEF FrameInv, FrameContract
  <2> QED BY <1>2, <2>2
<1>5. ASSUME NEW q \in Query \cup {NoQuery}, NEW i \in Stream(q)', NEW n \in 0..(Frames'[i].index - 1)
      PROVE  \E j \in Stream(q)' : Frames'[j].index = n
  <2>1. h[i] \in Stream(q) /\ Frames'[i] = Frames[h[i]]
    BY <1>2
  <2>2. PICK k \in Stream(q) : Frames[k].index = n
    BY <2>1 DEF FrameInv, FrameContract
  <2> QED BY <1>2, <2>2
<1>6. Finals => Finals'
  <2> SUFFICES ASSUME Finals, NEW q \in Query \cup {NoQuery}, Stream(q)' # {}
               PROVE  \E j \in Stream(q)' : Frames'[j].final
    BY DEF Finals
  <2>1. PICK k \in Stream(q) : Frames[k].final
    BY <1>2 DEF Finals
  <2> QED BY <1>2, <2>1
<1>7. ASSUME NEW i \in Mine', Frames'[i].type = "reply"
      PROVE  (\A j \in Mine' : j <= i) /\ Finals'
  <2>1. h[i] \in Mine /\ Frames[h[i]].type = "reply"
    BY <1>1, <1>7
  <2>2. \A k \in Mine : k <= h[i]
    BY <2>1 DEF FrameInv, FrameContract
  <2>3. Finals
    BY <2>1 DEF FrameInv, FrameContract, Finals
  <2>4. ASSUME NEW j \in Mine' PROVE j <= i
    <3>1. i \in Nat /\ j \in Nat /\ h[i] \in Nat /\ h[j] \in Nat /\ h[j] <= h[i] /\ (i < j <=> h[i] < h[j])
      BY <1>1, <1>3, <2>2
    <3> QED BY <3>1
  <2> QED BY <1>6, <2>3, <2>4
<1>8. FrameContract'
  <2>1. FrameContract!1'
    BY <1>4, <1>5
  <2>2. FrameContract!2'
    BY <1>7 DEF Finals
  <2> QED BY <2>1, <2>2 DEF FrameContract
<1>9. HydrateFrames'
  BY <1>1, <1>2 DEF FrameInv, HydrateFrames
<1>10. AdvanceFrames'
  BY <1>1, <1>2 DEF FrameInv, AdvanceFrames
<1>11. AnswerFrames'
  BY <1>6 DEF FrameInv, AnswerFrames
<1> QED BY <1>8, <1>9, <1>10, <1>11 DEF FrameInv

(* Frames: the beginning.                                                  *)
LEMMA InitFrame == Init => FrameInv
<1> SUFFICES ASSUME Init PROVE FrameInv
  OBVIOUS
<1>1. wire = <<>> /\ replies = {} /\ work = Idle /\ client.got = <<>>
  BY DEF Init
<1>2. Frames = <<>>
  BY <1>1 DEF Frames
<1>3. Mine = {} /\ \A q : Stream(q) = {}
  BY <1>2 DEF Mine, Stream
<1>4. FrameContract
  BY <1>3 DEF FrameContract
<1> QED BY <1>1, <1>4, IdleIs DEF FrameInv, HydrateFrames, AdvanceFrames, AnswerFrames

(* The frames of the call stay as they are.                                *)
LEMMA FrameSame ==
    ASSUME FrameInv, Frames' = Frames, client'.id = client.id, work' = work,
           \A r \in replies' : r.id = client.id => r \in replies
    PROVE  FrameInv'
<1>1. Mine' = Mine /\ \A q : Stream(q)' = Stream(q)
  BY DEF Mine, Stream
<1>2. FrameContract'
  BY <1>1 DEF FrameInv, FrameContract
<1>3. HydrateFrames'
  BY <1>1 DEF FrameInv, HydrateFrames
<1>4. AdvanceFrames'
  BY <1>1 DEF FrameInv, AdvanceFrames
<1>5. AnswerFrames'
  BY <1>1 DEF FrameInv, AnswerFrames, Finals
<1> QED BY <1>2, <1>3, <1>4, <1>5 DEF FrameInv

(* Frames: the worker takes a request.                                     *)
LEMMA FrameHandle ==
    ASSUME TypeInv, LaneInv, FrameInv, Handle
    PROVE  FrameInv'
<1>1. /\ Head(reqs) = reqs[1] /\ reqs[1] \in Request /\ work.pc = "idle" /\ UNCHANGED <<wire, client>>
      /\ reqs[1].id = client.id \/ (reqs[1].id = RemoveId /\ reqs[1].method = "removeQuery")
  BY TakenIs
<1>2. Frames' = Frames /\ Mine' = Mine
  BY <1>1 DEF Frames, Mine
<1>3. reqs[1].id = client.id => Mine = {}
  BY TakenIs, MineNone
<1>4. client.id # RemoveId
  BY DEF TypeInv, ClientInv, ClientState, RemoveId
<1>5. ASSUME work' = work, NEW st, NEW s, Answers(reqs[1].id, st, s) PROVE FrameInv'
  <2>1. CASE reqs[1].id = client.id
    BY <1>1, <1>2, <1>3, <1>5, <2>1, FrameNone
  <2>2. CASE reqs[1].id # client.id
    <3>1. \A r \in replies' : r.id = client.id => r \in replies
      BY <1>5, <2>2, ReplyFields DEF Answers
    <3> QED BY <1>1, <1>2, <1>5, <3>1, FrameSame
  <2> QED BY <2>1, <2>2
<1>6. CASE handleInit \/ Refused \/ handleLoadRows \/ handleRemoveQuery \/ handleAddQueries
  <2>1. work' = work /\ \E st, s : Answers(reqs[1].id, st, s)
    BY <1>1, <1>6 DEF handleInit, Refused, handleLoadRows, handleRemoveQuery, handleAddQueries
  <2> QED BY <1>5, <2>1
<1>7. CASE handleAddQueriesStream
  <2>1. /\ work' = [Idle EXCEPT !.pc = "hydrate", !.id = reqs[1].id, !.parts = AddQueriesStream(reqs[1].arg)]
        /\ reqs[1].method = "addQueriesStream"
    BY <1>1, <1>7 DEF handleAddQueriesStream, Taking
  <2>2. work'.pc = "hydrate" /\ work'.parts = AddQueriesStream(reqs[1].arg)
    BY <2>1 DEF Idle
  <2>3. \A q \in DOMAIN work'.parts : work'.parts[q].index = 0 /\ ~work'.parts[q].done
    BY <2>2 DEF AddQueriesStream
  <2>4. reqs[1].id = client.id
    BY <1>1, <2>1
  <2> QED BY <1>2, <1>3, <2>2, <2>3, <2>4, FrameNone
<1>8. CASE handleAdvance \/ handleAdvanceStream
  <2>1. PICK b \in BOOLEAN : Advancing(b) /\ reqs[1].method \in {"advance", "advanceStream"}
    BY <1>1, <1>8 DEF handleAdvance, handleAdvanceStream, Taking
  <2>2. work'.pc = "advance" /\ work'.index = 0
    BY <1>1, <2>1 DEF Advancing, Idle
  <2>3. reqs[1].id = client.id
    BY <1>1, <2>1
  <2> QED BY <1>2, <1>3, <2>2, <2>3, FrameNone
<1> QED BY <1>6, <1>7, <1>8 DEF Handle

(* Frames: one moves from the connection to those received.                *)
LEMMA FrameReadPartial ==
    ASSUME TypeInv, LaneInv, FrameInv, ReadPartial
    PROVE  Frames' = Frames /\ FrameInv'
<1>1. /\ client'.got = Append(client.got, wire[1]) /\ client'.id = client.id /\ Reading
  BY PartialRead
<1>2. wire \in Seq(Frame) /\ wire # <<>> /\ wire' = Tail(wire) /\ UNCHANGED <<replies, work>>
  BY <1>1, WireTail
<1>3. PICK g \in Seq(Frame) : g = client.got
  BY FramesType
<1>4. PICK g1 : g1 = client'.got
  OBVIOUS
<1>5. g1 = Append(g, wire[1])
  BY <1>1, <1>3, <1>4
<1>6. g1 \o Tail(wire) = g \o wire
  <2>1. Append(g, wire[1]) = g \o <<wire[1]>> /\ wire[1] \in Frame
    BY <1>2, AppendIsConcat
  <2>2. <<wire[1]>> \o Tail(wire) = wire
    BY <1>2
  <2>3. PICK e, t : e = <<wire[1]>> /\ t = Tail(wire)
    OBVIOUS
  <2>4. e \in Seq(Frame) /\ t \in Seq(Frame)
    BY <1>2, <2>1, <2>3
  <2>5. (g \o e) \o t = g \o (e \o t)
    BY <2>4, ConcatAssociative
  <2> QED BY <1>5, <2>1, <2>2, <2>3, <2>5, Zenon
<1>7. Frames' = Frames
  BY <1>2, <1>3, <1>4, <1>6 DEF Frames
<1> QED BY <1>1, <1>2, <1>7, FrameSame

(* Frames: the answer is read, and what was received is discarded.         *)
LEMMA FrameReadEnd ==
    ASSUME TypeInv, TypeInv', LaneInv, ReadFailure \/ ReadLoaded \/ ReadRehydrated \/ ReadAdded \/ ReadAdvanced
    PROVE  FrameInv'
<1>1. /\ Reading /\ client'.id = client.id /\ client'.got = <<>>
      /\ (wire[1].id = client.id /\ wire[1].type = "reply") \/ wire[1].status = "closed"
  BY EndIs
<1>2. work.pc = "idle" /\ work' = work /\ \A i \in DOMAIN wire' : wire'[i].id # client'.id
  BY <1>1, NothingLeft, WireTail
<1>3. Frames' = wire'
  <2>1. wire' \in Seq(Frame)
    BY DEF TypeInv, SidecarInv
  <2> QED BY <1>1, <2>1 DEF Frames
<1>4. Mine' = {}
  BY <1>2, <1>3 DEF Mine
<1> QED BY <1>2, <1>4, FrameNone

(* Frames: a new call has none.                                            *)
LEMMA FrameCall ==
    ASSUME TypeInv, LaneInv, Call
    PROVE  FrameInv'
<1>1. /\ wire' = wire /\ work' = work
      /\ client'.id # client.id /\ client'.id \in {0, 1} /\ client'.got = client.got
      /\ client.pc \in {"reset", "load", "idle"}
  BY CallIs, ClientFrame DEF ClientStep
<1>2. client'.id # RemoveId
  BY <1>1 DEF RemoveId
<1>3. client.got = <<>> /\ work.pc = "idle" /\ \A i \in DOMAIN wire : wire[i].id = RemoveId
  BY <1>1 DEF LaneInv, IdInv, RestInv, Waiting
<1>4. Frames = wire /\ Frames' = wire
  <2>1. wire \in Seq(Frame)
    BY DEF TypeInv, SidecarInv
  <2> QED BY <1>1, <1>3, <2>1 DEF Frames
<1>5. Mine' = {}
  BY <1>2, <1>3, <1>4 DEF Mine
<1> QED BY <1>1, <1>3, <1>5, FrameNone

(* Frames: the reply to a removal leaves the connection.                   *)
LEMMA FrameReadOther ==
    ASSUME TypeInv, FrameInv, ReadOther
    PROVE  FrameInv'
<1>1. Reading /\ UNCHANGED client /\ wire[1].id # client.id
  BY WireTail DEF ReadOther, viewSyncer
<1>2. wire \in Seq(Frame) /\ wire # <<>> /\ wire' = Tail(wire) /\ UNCHANGED <<replies, work>>
  BY <1>1, WireTail
<1>3. PICK g \in Seq(Frame) : g = client.got
  BY FramesType
<1>4. PICK n \in Nat, w \in Nat : n = Len(g) /\ w = Len(wire) /\ w # 0
  BY <1>2
<1>5. Frames = g \o wire /\ Frames' = g \o Tail(wire)
  BY <1>1, <1>2, <1>3 DEF Frames
<1>6. /\ DOMAIN Frames = 1..(n + w) /\ DOMAIN Frames' = 1..(n + w - 1)
      /\ \A i \in 1..n : Frames[i] = g[i] /\ Frames'[i] = g[i]
      /\ \A i \in 1..w : Frames[n + i] = wire[i]
      /\ \A i \in 1..(w - 1) : Frames'[n + i] = wire[i + 1]
  <2>1. Tail(wire) \in Seq(Frame) /\ Len(Tail(wire)) = w - 1 /\ \A i \in 1..(w - 1) : Tail(wire)[i] = wire[i + 1]
    BY <1>2, <1>4
  <2>2. PICK t : t = Tail(wire)
    OBVIOUS
  <2>3. /\ DOMAIN (g \o wire) = 1..(n + w) /\ \A i \in 1..n : (g \o wire)[i] = g[i]
        /\ \A i \in 1..w : (g \o wire)[n + i] = wire[i]
    BY <1>2, <1>3, <1>4, ConcatIs
  <2>4. /\ DOMAIN (g \o t) = 1..(n + (w - 1)) /\ \A i \in 1..n : (g \o t)[i] = g[i]
        /\ \A i \in 1..(w - 1) : (g \o t)[n + i] = t[i]
    BY <1>3, <1>4, <2>1, <2>2, ConcatIs
  <2>5. n + (w - 1) = n + w - 1
    BY <1>4
  <2>6. DOMAIN Frames = 1..(n + w) /\ \A i \in 1..n : Frames[i] = g[i]
    BY <1>5, <2>3
  <2>7. \A i \in 1..w : Frames[n + i] = wire[i]
    BY <1>5, <2>3
  <2>8. DOMAIN Frames' = 1..(n + w - 1) /\ \A i \in 1..n : Frames'[i] = g[i]
    BY <1>5, <2>2, <2>4, <2>5
  <2>9. \A i \in 1..(w - 1) : Frames'[n + i] = wire[i + 1]
    BY <1>5, <2>1, <2>2, <2>4
  <2> QED BY <2>6, <2>7, <2>8, <2>9
<1> DEFINE h == [i \in 1..(n + w - 1) |-> IF i <= n THEN i ELSE i + 1]
<1>7. \A i \in 1..(n + w - 1) : h[i] = (IF i <= n THEN i ELSE i + 1)
  OBVIOUS
<1> HIDE DEF h
<1>8. \A i \in DOMAIN Frames' : h[i] \in DOMAIN Frames
  BY <1>4, <1>6, <1>7
<1>9. ASSUME NEW i \in DOMAIN Frames' PROVE Frames'[i] = Frames[h[i]]
  <2>1. CASE i <= n
    BY <1>4, <1>6, <1>7, <2>1
  <2>2. CASE ~(i <= n)
    <3>1. PICK j \in 1..(w - 1) : i = n + j
      <4>1. i - n \in 1..(w - 1) /\ i = n + (i - n)
        BY <1>4, <1>6, <2>2
      <4> QED BY <4>1
    <3>2. h[i] = n + (j + 1) /\ j + 1 \in 1..w
      BY <1>4, <1>6, <1>7, <2>2, <3>1
    <3> QED BY <1>6, <3>1, <3>2
  <2> QED BY <2>1, <2>2
<1>10. \A i, j \in DOMAIN Frames' : j < i <=> h[j] < h[i]
  BY <1>4, <1>6, <1>7
<1>11. ASSUME NEW k \in Mine PROVE \E i \in DOMAIN Frames' : h[i] = k
  <2>1. k \in 1..(n + w) /\ Frames[k].id = client.id
    BY <1>6 DEF Mine
  <2>2. k # n + 1
    <3>1. 1 \in 1..w
      BY <1>4
    <3>2. Frames[n + 1] = wire[1]
      BY <1>6, <3>1
    <3> QED BY <1>1, <2>1, <3>2
  <2>3. CASE k <= n
    BY <1>4, <1>6, <1>7, <2>1, <2>3
  <2>4. CASE k > n + 1
    <3>1. k - 1 \in 1..(n + w - 1) /\ h[k - 1] = k
      BY <1>4, <1>7, <2>1, <2>4
    <3> QED BY <1>6, <3>1
  <2> QED BY <1>4, <2>1, <2>2, <2>3, <2>4
<1>12. DOMAIN Frames \subseteq Nat /\ (DOMAIN Frames)' \subseteq Nat
  BY <1>4, <1>6
<1>13. client'.id = client.id
  BY <1>1
<1> QED BY <1>2, <1>8, <1>9, <1>10, <1>11, <1>12, <1>13, FrameShift

(* Frames: a writer goroutine gets writeMu.                                *)
LEMMA FrameWrite ==
    ASSUME TypeInv, LaneInv, FrameInv, WriteReply
    PROVE  FrameInv'
<1>1. PICK f \in replies : replies' = replies \ {f} /\ wire' = Append(wire, f)
  BY DEF WriteReply
<1>2. client' = client /\ work' = work
  BY DEF WriteReply, viewSyncer
<1>3. f \in Frame /\ f.type = "reply"
  BY DEF TypeInv, SidecarInv, LaneInv, IdInv
<1>4. CASE f.id = client.id
  <2>1. Finals
    BY <1>4 DEF FrameInv, AnswerFrames
  <2>2. \A i \in Mine : Frames[i].type = "partial"
    <3>1. \A i \in DOMAIN client.got : client.got[i].type = "partial"
      BY DEF LaneInv, IdInv
    <3>2. \A j \in DOMAIN wire : wire[j].id = client.id => wire[j].type = "partial"
      BY <1>4 DEF LaneInv, AnsweredInv
    <3>3. \A i \in DOMAIN Frames :
            \/ i \in DOMAIN client.got /\ Frames[i] = client.got[i]
            \/ i - Len(client.got) \in DOMAIN wire /\ Frames[i] = wire[i - Len(client.got)]
      BY FramesType
    <3> QED BY <3>1, <3>2, <3>3 DEF Mine
  <2>3. FrameContract' /\ Finals'
    BY <1>1, <1>2, <1>3, <2>1, <2>2, FrameOther, StreamsStay DEF FrameInv
  <2>4. work.pc = "idle"
    BY <1>4 DEF LaneInv, BusyInv
  <2> QED BY <1>2, <2>3, <2>4 DEF FrameInv, HydrateFrames, AdvanceFrames, AnswerFrames
<1>5. CASE f.id # client.id
  <2>1. FrameContract' /\ (Finals => Finals')
    BY <1>1, <1>2, <1>3, <1>5, FrameOther, StreamsStay DEF FrameInv
  <2>2. /\ \A q : Stream(q)' = Stream(q)
        /\ \A q : \A i \in Stream(q) : Frames'[i] = Frames[i]
    BY <1>1, <1>2, <1>3, StreamsStay
  <2>3. Mine' = Mine /\ \A i \in Mine : Frames'[i] = Frames[i]
    <3>1. /\ \A i \in DOMAIN Frames : Frames'[i] = Frames[i]
          /\ Mine' = Mine \cup (IF f.id = client.id THEN {Len(Frames) + 1} ELSE {})
      BY <1>1, <1>2, <1>3, FramesAppend
    <3> QED BY <1>5, <3>1 DEF Mine
  <2>4. HydrateFrames'
    BY <1>2, <2>2, <2>3 DEF FrameInv, HydrateFrames
  <2>5. AdvanceFrames'
    BY <1>2, <2>2, <2>3 DEF FrameInv, AdvanceFrames
  <2>6. AnswerFrames'
    BY <1>1, <1>2, <2>1 DEF FrameInv, AnswerFrames
  <2> QED BY <2>1, <2>4, <2>5, <2>6 DEF FrameInv
<1> QED BY <1>4, <1>5

(* Frames: those written before the process died can still be read.        *)
LEMMA FrameDies ==
    ASSUME TypeInv, FrameInv, Dies, client' = client
    PROVE  FrameInv'
<1>1. work' = Idle /\ replies' = {} /\ wire' = Append(wire, ConnectionClosed)
  BY DEF Dies
<1>2. client.id # RemoveId
  BY DEF TypeInv, ClientInv, ClientState, RemoveId
<1>3. FrameContract'
  BY <1>1, <1>2, ClosedIs, FrameOther DEF FrameInv
<1> QED BY <1>1, <1>3, IdleIs DEF FrameInv, HydrateFrames, AdvanceFrames, AnswerFrames

(* What a partial frame of the call adds to its frames.                    *)
LEMMA SentIs ==
    ASSUME TypeInv, NEW f, Sends(f), client' = client
    PROVE  /\ \A q : Stream(q) \subseteq Mine
           /\ \E m : /\ Frames'[m] = f /\ m \notin Mine /\ Mine' = Mine \cup {m}
                     /\ \A i \in Mine : Frames'[i] = Frames[i]
                     /\ \A q : Stream(q)' = IF f.query = q THEN Stream(q) \cup {m} ELSE Stream(q)
<1>1. f \in Frame /\ f.type = "partial" /\ f.id = client.id /\ wire' = Append(wire, f)
  BY DEF Sends
<1>2. /\ Frames'[Len(Frames) + 1] = f /\ Len(Frames) + 1 \notin DOMAIN Frames
      /\ \A i \in DOMAIN Frames : Frames'[i] = Frames[i]
      /\ Mine' = Mine \cup (IF f.id = client.id THEN {Len(Frames) + 1} ELSE {})
      /\ \A q : Stream(q)' = Stream(q) \cup
           (IF f.id = client.id /\ f.type = "partial" /\ f.query = q THEN {Len(Frames) + 1} ELSE {})
  BY <1>1, FramesAppend
<1>3. PICK m : m = Len(Frames) + 1
  OBVIOUS
<1>4. Mine \subseteq DOMAIN Frames /\ \A q : Stream(q) \subseteq Mine
  BY DEF Mine, Stream
<1>5. Frames'[m] = f /\ m \notin Mine /\ Mine' = Mine \cup {m} /\ \A i \in Mine : Frames'[i] = Frames[i]
  BY <1>1, <1>2, <1>3, <1>4
<1>6. \A q : Stream(q)' = IF f.query = q THEN Stream(q) \cup {m} ELSE Stream(q)
  BY <1>1, <1>2, <1>3
<1> QED BY <1>4, <1>5, <1>6

(* A hydration's goroutine writes a frame of its query.                    *)
LEMMA FrameChunk ==
    ASSUME TypeInv, LaneInv, FrameInv, NEW q, HydrateChunk(q)
    PROVE  FrameInv'
<1>1. SidecarInv /\ work \in WorkState
  BY DEF TypeInv, SidecarInv
<1>2. PICK a, b \in Seq(RowChangeOf), final \in BOOLEAN : ChunkTaken(q, a, b, final)
  BY <1>1, ChunkIs
<1>3. work.pc = "hydrate" /\ q \in Query /\ q \in DOMAIN work.parts /\ work.parts[q] \in Part /\ ~work.parts[q].done
  BY <1>1, ChunkIs
<1> DEFINE n == work.parts[q].index
           f == Partial(work.id, q, a, n, final, FALSE)
<1>4. n \in Nat /\ work.id \in {0, 1} /\ work.id = client.id
  BY <1>1, <1>3, BusyIs DEF Part, WorkState
<1>5. f \in Frame
  BY <1>3, <1>4, PartialIs
<1>6. f.type = "partial" /\ f.id = client.id /\ f.status = "ok" /\ f.query = q /\ f.index = n /\ f.final = final
  BY <1>4 DEF Partial
<1>7. wire' = Append(wire, f) /\ work'.pc = work.pc
  BY <1>1, <1>2 DEF ChunkTaken, WorkState
<1>8. /\ DOMAIN work'.parts = DOMAIN work.parts
      /\ work'.parts[q].index = n + 1 /\ work'.parts[q].done = final
      /\ \A k \in DOMAIN work.parts : k # q => work'.parts[k] = work.parts[k]
  BY <1>1, <1>2, <1>3 DEF ChunkTaken, WorkState
<1>9. client' = client /\ replies' = replies
  BY DEF HydrateChunk, HydrateFrame, viewSyncer
<1> HIDE DEF f, n
<1>10. Sends(f)
  BY <1>5, <1>6, <1>7 DEF Sends
<1>11. PICK m : /\ Frames'[m] = f /\ m \notin Mine /\ Mine' = Mine \cup {m}
                /\ \A i \in Mine : Frames'[i] = Frames[i]
                /\ \A k : Stream(k)' = IF f.query = k THEN Stream(k) \cup {m} ELSE Stream(k)
  BY <1>9, <1>10, SentIs
<1>12. /\ \A i \in Mine : /\ Frames[i].query \in DOMAIN work.parts
                          /\ Frames[i].index < work.parts[Frames[i].query].index
                          /\ Frames[i].final => work.parts[Frames[i].query].done
       /\ \A k \in DOMAIN work.parts :
             /\ \A j \in 0..(work.parts[k].index - 1) : \E i \in Stream(k) : Frames[i].index = j
             /\ work.parts[k].done => \E i \in Stream(k) : Frames[i].final
  BY <1>3 DEF FrameInv, HydrateFrames
<1>13. \A k : \A i \in Stream(k) : i \in Mine /\ Frames[i].query = k
  BY DEF Stream
<1>14. FrameContract'
  <2>1. \A i \in Mine : Frames[i].type = "partial"
    BY <1>3, MinePartial
  <2>2. \A i \in Stream(f.query) : Frames[i].index < f.index /\ ~Frames[i].final
    BY <1>3, <1>6, <1>12, <1>13 DEF n
  <2>3. \A j \in 0..(f.index - 1) : \E i \in Stream(f.query) : Frames[i].index = j
    BY <1>3, <1>6, <1>12 DEF n
  <2> QED BY <1>5, <1>6, <1>7, <1>9, <2>1, <2>2, <2>3, FrameSent DEF FrameInv
<1>15. ASSUME NEW i \in Mine'
       PROVE  /\ Frames'[i].query \in DOMAIN work'.parts
              /\ Frames'[i].index < work'.parts[Frames'[i].query].index
              /\ Frames'[i].final => work'.parts[Frames'[i].query].done
  <2>1. CASE i = m
    <3>1. Frames'[i] = f /\ n < n + 1
      BY <1>4, <1>11, <2>1
    <3> QED BY <1>3, <1>6, <1>8, <3>1
  <2>2. CASE i # m
    <3>1. i \in Mine /\ Frames'[i] = Frames[i]
      BY <1>11, <2>2
    <3>2. CASE Frames[i].query = q
      <4>1. Frames[i].index < n /\ ~Frames[i].final /\ i \in DOMAIN Frames
        BY <1>3, <1>12, <3>1, <3>2 DEF n, Mine
      <4>2. Frames[i].index \in Nat
        BY <4>1, FramesType
      <4>3. Frames[i].index < n + 1
        BY <1>4, <4>1, <4>2
      <4> QED BY <1>3, <1>8, <3>1, <3>2, <4>1, <4>3
    <3>3. CASE Frames[i].query # q
      BY <1>8, <1>12, <3>1, <3>3
    <3> QED BY <3>2, <3>3
  <2> QED BY <2>1, <2>2
<1>16. ASSUME NEW k \in DOMAIN work'.parts
       PROVE  /\ \A j \in 0..(work'.parts[k].index - 1) : \E i \in Stream(k)' : Frames'[i].index = j
              /\ work'.parts[k].done => \E i \in Stream(k)' : Frames'[i].final
  <2>1. CASE k = q
    <3>1. Stream(k)' = Stream(k) \cup {m}
      BY <1>6, <1>11, <2>1
    <3>2. ASSUME NEW j \in 0..(work'.parts[k].index - 1) PROVE \E i \in Stream(k)' : Frames'[i].index = j
      <4>1. j \in 0..n
        BY <1>4, <1>8, <2>1
      <4>2. CASE j = n
        BY <1>6, <1>11, <3>1, <4>2
      <4>3. CASE j # n
        <5>1. j \in 0..(n - 1)
          BY <1>4, <4>1, <4>3
        <5>2. PICK i \in Stream(q) : Frames[i].index = j
          BY <1>3, <1>12, <5>1 DEF n
        <5> QED BY <1>11, <1>13, <2>1, <3>1, <5>2
      <4> QED BY <4>2, <4>3
    <3>3. work'.parts[k].done => \E i \in Stream(k)' : Frames'[i].final
      BY <1>6, <1>8, <1>11, <2>1, <3>1
    <3> QED BY <3>2, <3>3
  <2>2. CASE k # q
    <3>1. Stream(k)' = Stream(k) /\ work'.parts[k] = work.parts[k] /\ k \in DOMAIN work.parts
      BY <1>6, <1>8, <1>11, <2>2
    <3> QED BY <1>11, <1>12, <1>13, <3>1
  <2> QED BY <2>1, <2>2
<1>17. HydrateFrames'
  BY <1>15, <1>16 DEF HydrateFrames
<1>18. AdvanceFrames'
  BY <1>3, <1>7 DEF AdvanceFrames
<1>19. AnswerFrames'
  BY <1>3, <1>9, BusyIs DEF AnswerFrames
<1> QED BY <1>14, <1>17, <1>18, <1>19 DEF FrameInv

(* A source change is pushed.                                              *)
LEMMA FramePush ==
    ASSUME TypeInv, LaneInv, FrameInv, Push
    PROVE  FrameInv'
<1>1. SidecarInv /\ work \in WorkState
  BY DEF TypeInv, SidecarInv
<1>2. PICK s \in Seq(RowChangeOf), full \in BOOLEAN : Pushed(s, full) /\ (full => work.stream)
  BY <1>1, PushIs
<1>3. work.pc = "advance" /\ UNCHANGED <<replies, client>>
  BY <1>1, PushIs DEF Push, viewSyncer
<1> DEFINE n == work.index
           f == Partial(work.id, NoQuery, s, n, FALSE, FALSE)
<1>4. n \in Nat /\ work.id \in {0, 1} /\ work.id = client.id
  BY <1>1, <1>3, BusyIs DEF WorkState
<1>5. f \in Frame
  BY <1>3, <1>4, PartialIs
<1>6. f.type = "partial" /\ f.id = client.id /\ f.status = "ok" /\ f.query = NoQuery /\ f.index = n /\ ~f.final
  BY <1>4 DEF Partial
<1>7. /\ wire' = IF full THEN Append(wire, f) ELSE wire
      /\ work'.pc = "advance" /\ work'.stream = work.stream
      /\ work'.index = IF full THEN n + 1 ELSE n
  BY <1>1, <1>2, <1>3 DEF Pushed, WorkState
<1> HIDE DEF f, n
<1>8. /\ \A i \in Mine : Frames[i].query = NoQuery /\ Frames[i].index < n /\ ~Frames[i].final
      /\ \A j \in 0..(n - 1) : \E i \in Stream(NoQuery) : Frames[i].index = j
      /\ work.stream \/ n = 0
  BY <1>3 DEF FrameInv, AdvanceFrames, n
<1>9. HydrateFrames' /\ AnswerFrames'
  BY <1>3, <1>7, BusyIs DEF HydrateFrames, AnswerFrames
<1>10. CASE full
  <2>1. Sends(f)
    BY <1>5, <1>6, <1>7, <1>10 DEF Sends
  <2>2. PICK m : /\ Frames'[m] = f /\ m \notin Mine /\ Mine' = Mine \cup {m}
                 /\ \A i \in Mine : Frames'[i] = Frames[i]
                 /\ \A k : Stream(k)' = IF f.query = k THEN Stream(k) \cup {m} ELSE Stream(k)
    BY <1>3, <2>1, SentIs
  <2>3. \A k : \A i \in Stream(k) : i \in Mine
    BY DEF Stream
  <2>4. FrameContract'
    <3>1. \A i \in Mine : Frames[i].type = "partial"
      BY <1>3, MinePartial
    <3>2. \A i \in Stream(f.query) : Frames[i].index < f.index /\ ~Frames[i].final
      BY <1>6, <1>8, <2>3
    <3>3. \A j \in 0..(f.index - 1) : \E i \in Stream(f.query) : Frames[i].index = j
      BY <1>6, <1>8
    <3> QED BY <1>3, <1>5, <1>6, <1>7, <1>10, <3>1, <3>2, <3>3, FrameSent DEF FrameInv
  <2>5. ASSUME NEW i \in Mine' PROVE Frames'[i].query = NoQuery /\ Frames'[i].index < n + 1 /\ ~Frames'[i].final
    <3>1. CASE i = m
      BY <1>4, <1>6, <2>2, <3>1
    <3>2. CASE i # m
      <4>1. i \in Mine /\ i \in DOMAIN Frames /\ Frames'[i] = Frames[i]
        BY <2>2, <3>2 DEF Mine
      <4>2. Frames[i].index \in Nat
        BY <4>1, FramesType
      <4>3. Frames[i].index < n + 1
        BY <1>4, <1>8, <4>1, <4>2
      <4> QED BY <1>8, <4>1, <4>3
    <3> QED BY <3>1, <3>2
  <2>6. ASSUME NEW j \in 0..n PROVE \E i \in Stream(NoQuery)' : Frames'[i].index = j
    <3>1. Stream(NoQuery)' = Stream(NoQuery) \cup {m}
      BY <1>6, <2>2
    <3>2. CASE j = n
      BY <1>6, <2>2, <3>1, <3>2
    <3>3. CASE j # n
      <4>1. j \in 0..(n - 1)
        BY <1>4, <3>3
      <4>2. PICK i \in Stream(NoQuery) : Frames[i].index = j
        BY <1>8, <4>1
      <4> QED BY <2>2, <2>3, <3>1, <4>2
    <3> QED BY <3>2, <3>3
  <2>7. AdvanceFrames'
    <3>1. work'.index = n + 1 /\ n + 1 - 1 = n
      BY <1>4, <1>7, <1>10
    <3>2. work'.stream
      BY <1>2, <1>7, <1>10
    <3>3. \A i \in Mine' : Frames'[i].query = NoQuery /\ Frames'[i].index < work'.index /\ ~Frames'[i].final
      BY <2>5, <3>1
    <3>4. \A j \in 0..(work'.index - 1) : \E i \in Stream(NoQuery)' : Frames'[i].index = j
      <4>0. work'.index - 1 = n
        BY <1>4, <3>1
      <4>1. 0..(work'.index - 1) = 0..n
        BY <4>0, Zenon
      <4> QED BY <2>6, <4>1
    <3> QED BY <3>2, <3>3, <3>4 DEF AdvanceFrames
  <2> QED BY <1>9, <2>4, <2>7 DEF FrameInv
<1>11. CASE ~full
  <2>1. Frames' = Frames /\ work'.index = n
    BY <1>3, <1>7, <1>11 DEF Frames
  <2>2. Mine' = Mine /\ \A k : Stream(k)' = Stream(k)
    BY <1>3, <2>1 DEF Mine, Stream
  <2>3. FrameContract'
    BY <2>1, <2>2 DEF FrameInv, FrameContract
  <2>4. AdvanceFrames'
    BY <1>7, <1>8, <2>1, <2>2 DEF AdvanceFrames
  <2> QED BY <1>9, <2>3, <2>4 DEF FrameInv
<1> QED BY <1>10, <1>11

(* A plain advance has no frames.                                          *)
LEMMA PlainIs ==
    ASSUME TypeInv, FrameInv, work.pc = "advance", ~work.stream
    PROVE  Mine = {}
<1>1. \A i \in Mine : Frames[i].index < 0
  BY DEF FrameInv, AdvanceFrames
<1>2. \A i \in Mine : i \in DOMAIN Frames
  BY DEF Mine
<1>3. \A i \in Mine : Frames[i].index \in Nat
  BY <1>2, FramesType
<1> QED BY <1>1, <1>3

(* An advance ends.                                                        *)
LEMMA FrameFinish ==
    ASSUME TypeInv, LaneInv, FrameInv, NEW drift \in BOOLEAN, NEW s \in Seq(RowChangeOf), Finish(drift, s),
           work.pc = "advance"
    PROVE  FrameInv'
<1>1. work \in WorkState
  BY DEF TypeInv, SidecarInv
<1> DEFINE f == Partial(work.id, NoQuery, s, work.index, TRUE, drift)
<1>2. work.index \in Nat /\ work.id \in {0, 1} /\ work.id = client.id
  BY <1>1, BusyIs DEF WorkState
<1>3. f \in Frame
  BY <1>2, PartialIs
<1>4. f.type = "partial" /\ f.id = client.id /\ f.status # "closed" /\ f.query = NoQuery /\ f.index = work.index /\ f.final
  BY <1>2 DEF Partial
<1>5. (wire' = IF work.stream THEN Append(wire, f) ELSE wire) /\ work' = Idle /\ client' = client
  BY DEF Finish, viewSyncer
<1> HIDE DEF f
<1>6. CASE work.stream
  <2>1. Sends(f)
    BY <1>3, <1>4, <1>5, <1>6 DEF Sends
  <2>2. PICK m : /\ Frames'[m] = f /\ m \notin Mine /\ Mine' = Mine \cup {m}
                 /\ \A i \in Mine : Frames'[i] = Frames[i]
                 /\ \A k : Stream(k)' = IF f.query = k THEN Stream(k) \cup {m} ELSE Stream(k)
    BY <1>5, <2>1, SentIs
  <2>3. \A k : \A i \in Stream(k) : i \in Mine /\ Frames[i].query = k
    BY DEF Stream
  <2>4. /\ \A i \in Mine : Frames[i].query = NoQuery /\ Frames[i].index < work.index /\ ~Frames[i].final
        /\ \A j \in 0..(work.index - 1) : \E i \in Stream(NoQuery) : Frames[i].index = j
    BY DEF FrameInv, AdvanceFrames
  <2>5. FrameContract'
    <3>1. \A i \in Mine : Frames[i].type = "partial"
      BY MinePartial
    <3>2. \A i \in Stream(f.query) : Frames[i].index < f.index /\ ~Frames[i].final
      BY <1>4, <2>3, <2>4
    <3>3. \A j \in 0..(f.index - 1) : \E i \in Stream(f.query) : Frames[i].index = j
      BY <1>4, <2>4
    <3> QED BY <1>3, <1>4, <1>5, <1>6, <3>1, <3>2, <3>3, FrameSent DEF FrameInv
  <2>6. Finals'
    <3> SUFFICES ASSUME NEW q \in Query \cup {NoQuery}, Stream(q)' # {}
                 PROVE  \E j \in Stream(q)' : Frames'[j].final
      BY DEF Finals
    <3>1. q = NoQuery
      BY <1>4, <2>2, <2>3, <2>4
    <3> QED BY <1>4, <2>2, <3>1
  <2> QED BY <1>5, <2>5, <2>6, IdleIs DEF FrameInv, HydrateFrames, AdvanceFrames, AnswerFrames
<1>7. CASE ~work.stream
  <2>1. Mine = {}
    BY <1>7, PlainIs
  <2>2. Mine' = {}
    BY <1>5, <1>7, <2>1 DEF Mine, Frames
  <2> QED BY <1>5, <2>2, FrameNone, IdleIs
<1> QED BY <1>6, <1>7

(* Frames: wg.Wait, then the reply.                                        *)
LEMMA FrameHydrateDone ==
    ASSUME TypeInv, LaneInv, FrameInv, HydrateDone
    PROVE  FrameInv'
<1>1. /\ work.pc = "hydrate" /\ work' = Idle /\ UNCHANGED <<client, wire>>
      /\ \A q \in DOMAIN work.parts : work.parts[q].done
  BY DEF HydrateDone, viewSyncer
<1>2. Frames' = Frames
  BY <1>1 DEF Frames
<1>3. Mine' = Mine /\ \A q : Stream(q)' = Stream(q)
  BY <1>1, <1>2 DEF Mine, Stream
<1>4. Finals
  <2> SUFFICES ASSUME NEW q \in Query \cup {NoQuery}, Stream(q) # {}
               PROVE  \E j \in Stream(q) : Frames[j].final
    BY DEF Finals
  <2>1. PICK i \in Stream(q) : TRUE
    OBVIOUS
  <2>2. i \in Mine /\ Frames[i].query = q
    BY <2>1 DEF Stream
  <2> QED BY <1>1, <2>2 DEF FrameInv, HydrateFrames
<1>5. FrameContract' /\ Finals'
  BY <1>2, <1>3, <1>4 DEF FrameInv, FrameContract, Finals
<1> QED BY <1>1, <1>5, IdleIs DEF FrameInv, HydrateFrames, AdvanceFrames, AnswerFrames

(* Frames: every step.                                                     *)
LEMMA NextFrame == TypeInv /\ TypeInv' /\ LaneInv /\ FrameInv /\ [Next]_vars => FrameInv'
<1> SUFFICES ASSUME TypeInv, TypeInv', LaneInv, FrameInv, [Next]_vars PROVE FrameInv'
  OBVIOUS
<1>0. ASSUME UNCHANGED <<client.id, client.got, wire, replies, work>> PROVE FrameInv'
  <2>1. Frames' = Frames
    BY <1>0 DEF Frames
  <2> QED BY <1>0, <2>1, FrameSame
<1>1. CASE Work
  <2>1. CASE \E q \in Query : HydrateChunk(q)
    BY <2>1, FrameChunk
  <2>2. CASE AdvanceDone \/ AdvanceDrifts
    <3>1. PICK drift \in BOOLEAN, s \in Seq(RowChangeOf) : Finish(drift, s) /\ work.pc = "advance"
      <4>1. work.pending \in Seq(RowChangeOf) /\ <<>> \in Seq(RowChangeOf)
        BY DEF TypeInv, SidecarInv, WorkState
      <4> QED BY <2>2, <4>1 DEF AdvanceDone, AdvanceDrifts
    <3> QED BY <3>1, FrameFinish
  <2> QED BY <1>1, <2>1, <2>2, FrameHydrateDone, FramePush, FrameHandle DEF Work
<1>2. CASE Kill
  BY <1>2, FrameDies DEF Kill, viewSyncer
<1>3. CASE PushPanics
  <2>1. work.pc = "advance" /\ client' = client
    BY <1>3 DEF PushPanics, viewSyncer
  <2>2. CASE Dies
    BY <2>1, <2>2, FrameDies
  <2>3. CASE ~Dies
    <3>1. ~work.stream /\ work' = Idle /\ wire' = wire
      BY <1>3, <2>3 DEF PushPanics
    <3>2. Mine' = {}
      BY <2>1, <3>1, PlainIs DEF Mine, Frames
    <3> QED BY <3>1, <3>2, FrameNone, IdleIs
  <2> QED BY <2>2, <2>3
<1>4. CASE Read
  BY <1>4, FrameReadEnd, FrameReadOther, FrameReadPartial DEF Read
<1>5. CASE DropAdvance
  <2>1. UNCHANGED <<client.id, client.got>>
    BY <1>5 DEF DropAdvance, TypeInv, ClientInv, ClientState
  <2> QED BY <1>0, <1>5, <2>1 DEF DropAdvance, sidecar
<1>6. CASE ReplicaStep
  BY <1>0, <1>6, ReplicaFrame
<1>7. CASE \E q \in Query : RemoveQuery(q)
  <2>1. UNCHANGED <<client, wire, replies, work>>
    BY <1>7 DEF RemoveQuery
  <2> QED BY <1>0, <2>1
<1>8. CASE UNCHANGED vars
  BY <1>0, <1>8 DEF vars, viewSyncer, sidecar
<1> QED BY <1>1, <1>2, <1>3, <1>4, <1>5, <1>6, <1>7, <1>8, FrameWrite, FrameCall, Steps
        DEF SidecarStep, ClientStep

(* The chunks of every stream of the call, received or still on the        *)
(* connection, count up from 0 without a gap, the last and no other is     *)
(* final, and the reply comes after them, whatever the interleaving of     *)
(* hydration goroutines, reply writers and the reader.                     *)
THEOREM FramesInOrder == Spec => []FrameContract
<1>1. TypeInv /\ LaneInv /\ FrameInv /\ [Next]_vars => TypeInv' /\ LaneInv' /\ FrameInv'
  BY NextTypeInv, NextLane, NextFrame
<1>2. Init => TypeInv /\ LaneInv /\ FrameInv
  BY InitTypeInv, InitLane, InitFrame
<1>3. FrameInv => FrameContract
  BY DEF FrameInv
<1> QED BY <1>1, <1>2, <1>3, PTL DEF Spec
=============================================================================
