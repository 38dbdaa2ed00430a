---------------------- MODULE AdvanceStreamImplements -----------------------
(***************************************************************************)
(* AdvanceStream refines ViewSync, for every table, query, chunk size and  *)
(* bound; drift is never reported without a cause and the row changes of   *)
(* an advance always fit.                                                  *)
(*                                                                         *)
(* The inductive invariant adds to types, lanes and frames what the data   *)
(* must be wherever the call is (DataInv): its request fits the engine it  *)
(* will find, the rows sent and those a goroutine still has to send are    *)
(* all the rows of its query, the changes sent and those held back lead    *)
(* from the client's rows to the engine's table and the changes still to   *)
(* be pushed lead from there to the target version, and an answer that is  *)
(* in a writer's hands or on the connection leads to that version.  None   *)
(* of it is claimed once an advance was dropped.                           *)
(***************************************************************************)
EXTENDS AdvanceStreamProofs

(* A removal still in the queue is of a query the client does not hold,    *)
(* and if it asks for it again, it does so behind the removal.             *)
RemovalInv ==
    \A i \in DOMAIN reqs : reqs[i].method = "removeQuery" =>
        /\ reqs[i].arg \cap held = {}
        /\ reqs[i].arg \cap client.adding # {} =>
             \E j \in DOMAIN reqs : j > i /\ reqs[j].id = client.id

-----------------------------------------------------------------------------
(* The data, unless an advance was dropped.                                *)

Sent == Changes(Frames)
Asked == IF client.pc = "add" THEN client.adding ELSE held
Before(q) == IF client.pc = "advance" THEN view[q] ELSE {}

Answer(s) ==
    client.pc \in {"rehydrate", "add", "advance"} =>
        /\ \A q \in Asked : Apply(q, Before(q), s) = Rows(hist[client.target], q)
        /\ client.pc = "advance" => \A q \in held : Fit(q, view[q], s)

Running == eng.open /\ eng.accumulated = <<>>
Settled ==
    /\ Running /\ eng.source \cup client.left = hist[client.target]
    /\ client.pc \notin {"init", "load"} => held \cup client.adding \subseteq eng.pipelines

RequestOK(r) ==
    \/ client.pc = "init" /\ r.method = "init" /\ client.left = hist[client.target]
    \/ /\ client.pc = "init" /\ r.method = "loadRows"
       /\ Running /\ eng.source \cup r.arg \cup client.left = hist[client.target]
    \/ /\ client.pc = "rehydrate" /\ r.method = "addQueriesStream" /\ held \subseteq r.arg
       /\ Running /\ eng.source = hist[client.target]
    \/ /\ client.pc = "add" /\ r.method \in {"addQueries", "addQueriesStream"}
       /\ r.arg = client.adding /\ held \subseteq eng.pipelines
       /\ Running /\ eng.source = hist[client.target]
    \/ /\ client.pc = "advance" /\ r.method \in {"advance", "advanceStream"}
       /\ r.arg = SubSeq(diffs, client.at, client.target - 1) /\ held \subseteq eng.pipelines
       /\ Running /\ eng.source = hist[client.at]

PartOK(q) ==
    LET left == work.parts[q].left
        rows == Rows(eng.source, q)
    IN  /\ AddsOf(Sent, q, rows) /\ AddsOf(left, q, rows)
        /\ \A i \in DOMAIN left : left[i].query = q
        /\ \A r \in rows : Adds(Sent, q, r) \/ Adds(left, q, r)
        /\ work.parts[q].done => left = <<>>

HydrateOK ==
    /\ client.pc \in {"rehydrate", "add"} /\ Settled /\ Asked \subseteq DOMAIN work.parts
    /\ \A q \in DOMAIN work.parts : PartOK(q)

AdvanceOK ==
    /\ client.pc = "advance" /\ Running /\ held \subseteq eng.pipelines
    /\ Path(work.todo, eng.source, hist[client.target])
    /\ \A q \in held : /\ Apply(q, view[q], Sent \o work.pending) = Rows(eng.source, q)
                       /\ Fit(q, view[q], Sent \o work.pending)

ViewOK == client.pc \in {"idle", "add", "advance"} =>
            \A q \in held : view[q] = Rows(hist[client.at], q)

QueueOK == \A i \in DOMAIN reqs : reqs[i].id = client.id => RequestOK(reqs[i])

WorkOK == (work.pc = "hydrate" => HydrateOK) /\ (work.pc = "advance" => AdvanceOK)

ReplyOK == \A r \in replies : r.id = client.id =>
             r.status # "drift" /\ (r.status = "ok" => Settled /\ Answer(Sent \o r.changes))

WireOK == \A i \in DOMAIN wire : wire[i].id = client.id /\ wire[i].type = "reply" /\ wire[i].status = "ok" =>
            (Connected => Settled) /\ Answer(Sent)

EngineOK == Connected /\ client.pc \in {"load", "idle"} => Settled

TrueData == ViewOK /\ QueueOK /\ WorkOK /\ ReplyOK /\ WireOK /\ NoFalseDrift /\ EngineOK

DataInv == ~client.lossy => TrueData

IInv == TypeInv /\ LaneInv /\ RemovalInv /\ FrameInv /\ DataInv

-----------------------------------------------------------------------------
(* Removals stay behind: no query the client holds or has been given is    *)
(* taken away by a removal it sent before.                                 *)
LEMMA NextRemoval == TypeInv /\ LaneInv /\ RemovalInv /\ [Next]_vars => RemovalInv'
<1> SUFFICES ASSUME TypeInv, LaneInv, RemovalInv, [Next]_vars PROVE RemovalInv'
  OBVIOUS
<1>1. reqs \in Seq(Request) /\ client \in ClientState
  BY DEF TypeInv, SidecarInv, ClientInv
<1>2. ASSUME UNCHANGED <<client.id, client.adding, reqs, held>> PROVE RemovalInv'
  BY <1>2 DEF RemovalInv
<1>3. ASSUME reqs' = <<>> PROVE RemovalInv'
  <2>1. DOMAIN reqs' = {}
    BY <1>3
  <2> QED BY <2>1 DEF RemovalInv
<1>4. CASE Handle
  <2>1. client' = client /\ held' = held
    BY <1>4, SidecarFrame DEF SidecarStep, Work, viewSyncer
  <2>2. /\ \A i \in DOMAIN reqs' : i + 1 \in DOMAIN reqs /\ i \in Nat /\ reqs'[i] = reqs[i + 1]
        /\ \A i \in DOMAIN reqs : i = 1 \/ (i - 1 \in DOMAIN reqs' /\ reqs'[i - 1] = reqs[i])
        /\ \A i \in DOMAIN reqs : i \in Nat
    BY <1>1, <1>4, TakenIs
  <2>3. ASSUME NEW i \in DOMAIN reqs', reqs'[i].method = "removeQuery"
        PROVE  /\ reqs'[i].arg \cap held = {}
               /\ reqs'[i].arg \cap client.adding # {} =>
                    \E j \in DOMAIN reqs' : j > i /\ reqs'[j].id = client.id
    <3>1. /\ i + 1 \in DOMAIN reqs /\ i \in Nat /\ reqs'[i] = reqs[i + 1]
          /\ reqs[i + 1].arg \cap held = {}
          /\ reqs[i + 1].arg \cap client.adding # {} =>
               \E j \in DOMAIN reqs : j > i + 1 /\ reqs[j].id = client.id
      BY <2>2, <2>3 DEF RemovalInv
    <3>2. ASSUME NEW j \in DOMAIN reqs, j > i + 1, reqs[j].id = client.id
          PROVE  \E k \in DOMAIN reqs' : k > i /\ reqs'[k].id = client.id
      <4>1. j \in Nat /\ j # 1 /\ j - 1 > i
        BY <2>2, <3>1, <3>2
      <4> QED BY <2>2, <3>2, <4>1
    <3> QED BY <3>1, <3>2
  <2> QED BY <2>1, <2>3 DEF RemovalInv
<1>5. CASE SidecarStep /\ ~Handle
  <2>1. client' = client /\ held' = held
    BY <1>5, SidecarFrame DEF viewSyncer
  <2>2. reqs' = reqs \/ reqs' = <<>>
    BY <1>5 DEF SidecarStep, Work, HydrateChunk, HydrateFrame, HydrateDone, Push, AdvanceDone, AdvanceDrifts, Finish,
       WriteReply, Kill, PushPanics, Dies
  <2> QED BY <1>2, <1>3, <2>1, <2>2
<1>6. CASE Call
  <2>1. PICK r \in Request : r.id = client'.id /\ Queues(r)
    BY <1>6, CallIs
  <2>2. held' = held /\ r.id # RemoveId
    BY <1>6, <2>1, CallIs DEF RemoveId
  <2>3. CASE Connected
    <3>1. /\ \A i \in DOMAIN reqs : i \in DOMAIN reqs' /\ reqs'[i] = reqs[i] /\ i < Len(reqs')
          /\ \A i \in DOMAIN reqs' : i \in DOMAIN reqs \/ reqs'[i] = r
          /\ Len(reqs') \in DOMAIN reqs' /\ reqs'[Len(reqs')] = r
      BY <1>1, <2>1, <2>3, AppendIs DEF Queues
    <3>2. \A i \in DOMAIN reqs : i \in Nat /\ Len(reqs') \in Nat
      BY <1>1, <2>1, <2>3, AppendIs DEF Queues
    <3>3. ASSUME NEW i \in DOMAIN reqs', reqs'[i].method = "removeQuery"
          PROVE  i \in DOMAIN reqs /\ reqs'[i] = reqs[i] /\ Len(reqs') > i
      <4>1. i \in DOMAIN reqs
        BY <2>2, <3>1, <3>3, RequestIs
      <4>2. i < Len(reqs') /\ i \in Nat /\ Len(reqs') \in Nat
        BY <3>1, <3>2, <4>1
      <4> QED BY <3>1, <4>1, <4>2
    <3> QED BY <2>1, <2>2, <3>1, <3>3 DEF RemovalInv
  <2>4. CASE ~Connected
    <3>1. reqs' = <<>>
      BY <2>1, <2>4 DEF Queues, Connected, LaneInv, ClosedInv
    <3> QED BY <1>3, <3>1
  <2> QED BY <2>3, <2>4
<1>7. CASE \E q \in Query : RemoveQuery(q)
  <2>1. PICK q \in Query : RemoveQuery(q)
    BY <1>7
  <2>2. PICK r \in Request : r.id = RemoveId /\ r.method = "removeQuery" /\ r.arg = {q} /\ Queues(r)
    BY <2>1, RemoveIs
  <2>3. client' = client /\ held' = held \ {q} /\ q \in held
    BY <2>1, RemoveIs
  <2>4. q \notin client.adding
    BY <2>3 DEF TypeInv, ClientInv
  <2>5. CASE Connected
    <3>1. /\ \A i \in DOMAIN reqs : i \in DOMAIN reqs' /\ reqs'[i] = reqs[i]
          /\ \A i \in DOMAIN reqs' : i \in DOMAIN reqs \/ reqs'[i] = r
      BY <1>1, <2>2, <2>5, AppendIs DEF Queues
    <3>2. ASSUME NEW i \in DOMAIN reqs', reqs'[i].method = "removeQuery"
          PROVE  /\ reqs'[i].arg \cap held' = {}
                 /\ reqs'[i].arg \cap client.adding # {} =>
                    \E j \in DOMAIN reqs' : j > i /\ reqs'[j].id = client.id
      <4>1. CASE reqs'[i] = r
        BY <2>2, <2>3, <2>4, <4>1
      <4>2. CASE i \in DOMAIN reqs
        BY <2>3, <3>1, <3>2, <4>2 DEF RemovalInv
      <4> QED BY <3>1, <4>1, <4>2
    <3> QED BY <2>3, <3>2 DEF RemovalInv
  <2>6. CASE ~Connected
    <3>1. reqs' = <<>>
      BY <2>2, <2>6 DEF Queues, Connected, LaneInv, ClosedInv
    <3> QED BY <1>3, <3>1
  <2> QED BY <2>5, <2>6
<1>8. CASE ReadFailure \/ ReadLoaded \/ ReadRehydrated \/ ReadAdded \/ ReadAdvanced
  <2>1. /\ Reading /\ client'.id = client.id
        /\ (wire[1].id = client.id /\ wire[1].type = "reply") \/ wire[1].status = "closed"
    BY <1>8, EndIs
  <2>2. (\A i \in DOMAIN reqs : reqs[i].id # client.id) /\ reqs' = reqs
    BY <2>1, NothingLeft, WireTail
  <2>3. held' \in SUBSET (held \cup client.adding) /\ client'.adding \in SUBSET client.adding
    BY <1>1, <1>8 DEF ReadFailure, ReadLoaded, ReadRehydrated, ReadAdded, ReadAdvanced, ClientState
  <2>4. \A i \in DOMAIN reqs : reqs[i].method = "removeQuery" => /\ reqs[i].arg \cap held = {}
                                                                 /\ reqs[i].arg \cap client.adding = {}
    BY <2>2 DEF RemovalInv
  <2> QED BY <2>2, <2>3, <2>4 DEF RemovalInv
<1>9. CASE ReadOther \/ ReadPartial \/ DropAdvance \/ ReplicaStep \/ UNCHANGED vars
  <2>1. CASE ReadOther
    BY <1>2, <2>1, WireTail DEF ReadOther, viewSyncer
  <2>2. CASE ReadPartial
    BY <1>2, <2>2, PartialRead, WireTail
  <2>3. CASE DropAdvance
    <3>1. client'.id = client.id /\ client'.adding = client.adding
      BY <1>1, <2>3 DEF DropAdvance, ClientState
    <3> QED BY <1>2, <2>3, <3>1 DEF DropAdvance, sidecar
  <2>4. CASE ReplicaStep
    BY <1>2, <2>4, ReplicaFrame
  <2>5. CASE UNCHANGED vars
    BY <1>2, <2>5 DEF vars, viewSyncer, sidecar
  <2> QED BY <1>9, <2>1, <2>2, <2>3, <2>4, <2>5
<1> QED BY <1>4, <1>5, <1>6, <1>7, <1>8, <1>9, Steps DEF ClientStep, Read, SidecarStep, Work

(* No removal is queued in the beginning.                                  *)
LEMMA InitRemoval == Init => RemovalInv
<1> SUFFICES ASSUME Init PROVE RemovalInv
  OBVIOUS
<1>1. DOMAIN reqs = {}
  BY DEF Init
<1> QED BY <1>1 DEF RemovalInv

(* What was sent for the call are row changes.                             *)
LEMMA SentType ==
    ASSUME TypeInv
    PROVE  Sent \in Seq(RowChangeOf) /\ Frames \in Seq(Frame)
  BY FramesType, ChangesType DEF Sent

(* A frame written adds its changes to what was sent.                      *)
LEMMA SentAppend ==
    ASSUME TypeInv, NEW f \in Frame, wire' = Append(wire, f), client' = client
    PROVE  Sent' = Sent \o f.changes
<1>1. Frames' = Append(Frames, f)
  BY FramesAppend
<1>2. Changes(Append(Frames, f)) = Changes(Frames) \o f.changes
  BY SentType, ChangesAppend
<1>3. Sent' = Changes(Frames')
  BY DEF Sent, Changes
<1> QED BY <1>1, <1>2, <1>3 DEF Sent

(* A frame without changes adds none.                                      *)
LEMMA SentEmpty ==
    ASSUME TypeInv, NEW f \in Frame, wire' = Append(wire, f), client' = client, f.changes = <<>>
    PROVE  Sent' = Sent
<1>1. Sent' = Sent \o <<>>
  BY SentAppend
<1> QED BY <1>1, SentType

(* What was sent depends on the frames alone.                              *)
LEMMA SentSame ==
    ASSUME Frames' = Frames
    PROVE  Sent' = Sent
  BY DEF Sent, Changes

(* Frames that are not of the call bear no changes.                        *)
LEMMA SentNone ==
    ASSUME TypeInv, LaneInv, Mine = {}
    PROVE  Sent = <<>>
<1>1. \A i \in DOMAIN Frames : \/ i \in DOMAIN client.got /\ Frames[i] = client.got[i]
                               \/ i - Len(client.got) \in DOMAIN wire /\ Frames[i] = wire[i - Len(client.got)]
  BY FramesType
<1>2. \A i \in DOMAIN client.got : client.got[i].id = client.id
  BY DEF LaneInv, IdInv
<1>3. \A i \in DOMAIN wire : wire[i].id = client.id \/ wire[i].changes = <<>>
  BY DEF LaneInv, IdInv
<1>4. \A i \in DOMAIN Frames : Frames[i].id # client.id
  BY DEF Mine
<1>5. \A i \in DOMAIN Frames : Frames[i].changes = <<>>
  BY <1>1, <1>2, <1>3, <1>4
<1> QED BY <1>5, SentType, ChangesNone DEF Sent

(* The changes of the first frame, then those of the others.               *)
LEMMA HeadTail ==
    ASSUME NEW w \in Seq(Frame), w # <<>>
    PROVE  Changes(w) = w[1].changes \o Changes(Tail(w)) /\ w[1] \in Frame /\ Tail(w) \in Seq(Frame)
<1>1. w[1] \in Frame /\ Tail(w) \in Seq(Frame) /\ <<w[1]>> \in Seq(Frame)
  OBVIOUS
<1>2. PICK e, t : e = <<w[1]>> /\ t = Tail(w)
  OBVIOUS
<1>3. e \o t = w
  BY <1>1, <1>2
<1>4. Changes(e \o t) = Changes(e) \o Changes(t)
  BY <1>1, <1>2, ChangesConcat
<1>5. Changes(e) = w[1].changes
  BY <1>1, <1>2, ChangesOne
<1> QED BY <1>1, <1>2, <1>3, <1>4, <1>5

(* A frame of another call is read.                                        *)
LEMMA SentReadOther ==
    ASSUME TypeInv, LaneInv, ReadOther
    PROVE  Sent' = Sent
<1>1. Reading /\ client' = client /\ wire[1].id # client.id
  BY WireTail DEF ReadOther, viewSyncer
<1>2. wire \in Seq(Frame) /\ wire # <<>> /\ wire' = Tail(wire) /\ 1 \in DOMAIN wire
  BY <1>1, WireTail
<1>3. wire[1].changes = <<>>
  BY <1>1, <1>2 DEF LaneInv, IdInv
<1>4. PICK g \in Seq(Frame) : g = client.got
  BY FramesType
<1>5. Changes(wire) = <<>> \o Changes(Tail(wire)) /\ Tail(wire) \in Seq(Frame)
  BY <1>2, <1>3, HeadTail
<1>6. Changes(wire) = Changes(Tail(wire))
  BY <1>5, ChangesType
<1>7. /\ Changes(g \o wire) = Changes(g) \o Changes(wire)
      /\ Changes(g \o Tail(wire)) = Changes(g) \o Changes(Tail(wire))
  BY <1>2, <1>4, <1>5, ChangesConcat
<1>8. Sent = Changes(g \o wire) /\ Sent' = Changes(g \o Tail(wire))
  BY <1>1, <1>2, <1>4 DEF Sent, Frames, Changes
<1> QED BY <1>6, <1>7, <1>8

(* When the answer is at the head of the connection, nothing of the call   *)
(* is behind it.                                                           *)
LEMMA ReceivedIs ==
    ASSUME TypeInv, LaneInv, wire # <<>>, wire[1].id = client.id, wire[1].type = "reply"
    PROVE  Received = Sent
<1>1. wire \in Seq(Frame) /\ Head(wire) = wire[1] /\ 1 \in DOMAIN wire /\ wire[1] \in Frame
  BY DEF TypeInv, SidecarInv
<1>2. PICK t : t = Tail(wire)
  OBVIOUS
<1>3. t \in Seq(Frame) /\ \A i \in DOMAIN t : i \in Nat /\ i >= 1 /\ i + 1 \in DOMAIN wire /\ t[i] = wire[i + 1]
  BY <1>1, <1>2, TailIs
<1>4. \A i \in DOMAIN t : t[i].changes = <<>>
  <2> TAKE i \in DOMAIN t
  <2>1. i + 1 \in DOMAIN wire /\ i + 1 > 1 /\ t[i] = wire[i + 1]
    BY <1>3
  <2>2. wire[i + 1].id # client.id
    BY <1>1, <2>1 DEF LaneInv, AnsweredInv
  <2> QED BY <2>1, <2>2 DEF LaneInv, IdInv
<1>5. Changes(t) = <<>>
  BY <1>3, <1>4, ChangesNone
<1>6. Changes(wire) = wire[1].changes
  <2>1. Changes(wire) = wire[1].changes \o <<>> /\ wire[1].changes \in Seq(RowChangeOf)
    BY <1>1, <1>2, <1>5, HeadTail DEF Frame
  <2> QED BY <2>1
<1>7. PICK g \in Seq(Frame) : g = client.got
  BY FramesType
<1>8. Changes(Append(g, wire[1])) = Changes(g) \o wire[1].changes
  BY <1>1, <1>7, ChangesAppend
<1>9. Changes(g \o wire) = Changes(g) \o Changes(wire)
  BY <1>1, <1>7, ChangesConcat
<1>10. Received = Changes(Append(g, wire[1]))
  BY <1>1, <1>7 DEF Received
<1>11. Sent = Changes(g \o wire)
  BY <1>7 DEF Sent, Frames
<1> QED BY <1>6, <1>8, <1>9, <1>10, <1>11

(* What the data is judged by stays, but for queries removed.              *)
Context ==
    /\ client'.pc = client.pc /\ client'.at = client.at /\ client'.target = client.target
    /\ client'.left = client.left /\ client'.adding = client.adding
    /\ held' \in SUBSET held /\ \A q \in held' : view'[q] = view[q]
    /\ hist'[client.at] = hist[client.at] /\ hist'[client.target] = hist[client.target]

(* In the same context the views, an answer and a settled engine stay      *)
(* right.                                                                  *)
LEMMA Kept ==
    ASSUME Context
    PROVE  /\ ViewOK => ViewOK'
           /\ \A s : Answer(s) => Answer(s)'
           /\ eng' = eng /\ Settled => Settled'
<1>1. ViewOK => ViewOK'
  BY DEF Context, ViewOK
<1>2. eng' = eng /\ Settled => Settled'
  BY DEF Context, Settled, Running
<1>3. ASSUME NEW s, Answer(s) PROVE Answer(s)'
  <2>1. CASE client.pc = "add"
    BY <1>3, <2>1 DEF Context, Answer, Asked, Before
  <2>2. CASE client.pc # "add"
    BY <1>3, <2>2 DEF Context, Answer, Asked, Before
  <2> QED BY <2>1, <2>2
<1> QED BY <1>1, <1>2, <1>3

(* ... and a request does.                                                 *)
LEMMA KeptRequest ==
    ASSUME Context, NEW r, RequestOK(r), eng' = eng,
           SubSeq(diffs', client.at, client.target - 1) = SubSeq(diffs, client.at, client.target - 1)
    PROVE  RequestOK(r)'
  BY DEF Context, RequestOK, Running

(* ... and the worker's progress does.                                     *)
LEMMA KeptWork ==
    ASSUME Context, WorkOK, Sent' = Sent, eng' = eng, work' = work
    PROVE  WorkOK'
<1>1. HydrateOK => HydrateOK'
  <2>1. \A q : PartOK(q) => PartOK(q)'
    BY DEF PartOK
  <2>2. Asked' \in SUBSET Asked
    BY DEF Asked, Context
  <2> QED BY <2>1, <2>2, Kept DEF HydrateOK, Context
<1>2. AdvanceOK => AdvanceOK'
  BY DEF AdvanceOK, Context, Running
<1> QED BY <1>1, <1>2 DEF WorkOK

(* Nothing that matters to the data changes.                               *)
LEMMA DataKept ==
    ASSUME DataInv, Context, client'.lossy = client.lossy, client'.id = client.id,
           eng' = eng, work' = work, Sent' = Sent, Connected' => Connected,
           SubSeq(diffs', client.at, client.target - 1) = SubSeq(diffs, client.at, client.target - 1),
           \A i \in DOMAIN reqs' : reqs'[i].id = client.id => \E j \in DOMAIN reqs : reqs'[i] = reqs[j],
           \A r \in replies' : r.id = client.id => r \in replies,
           \A i \in DOMAIN wire' : wire'[i].id = client.id => \E j \in DOMAIN wire : wire'[i] = wire[j],
           \A i \in Mine' : \E j \in Mine : Frames'[i] = Frames[j]
    PROVE  DataInv'
<1> SUFFICES ASSUME TrueData, ~client.lossy PROVE TrueData'
  BY DEF DataInv
<1>1. ViewOK' /\ WorkOK'
  BY Kept, KeptWork DEF TrueData
<1>2. QueueOK'
  <2> SUFFICES ASSUME NEW i \in DOMAIN reqs', NEW r, r = reqs'[i], r.id = client'.id PROVE RequestOK(r)'
    BY DEF QueueOK
  <2>1. PICK j \in DOMAIN reqs : r = reqs[j]
    OBVIOUS
  <2>2. RequestOK(r)
    BY <2>1 DEF TrueData, QueueOK
  <2> QED BY <2>2, KeptRequest
<1>3. ReplyOK'
  <2> SUFFICES ASSUME NEW r \in replies', r.id = client'.id, NEW s, s = Sent' \o r.changes
               PROVE  r.status # "drift" /\ (r.status = "ok" => Settled' /\ Answer(s)')
    BY DEF ReplyOK
  <2>1. s = Sent \o r.changes
    OBVIOUS
  <2>2. r.status # "drift" /\ (r.status = "ok" => Settled /\ Answer(s))
    BY <2>1 DEF TrueData, ReplyOK
  <2>3. r.status = "ok" => Settled' /\ Answer(s)'
    BY <2>2, Kept
  <2> QED BY <2>1, <2>2, <2>3
<1>4. WireOK'
  <2> SUFFICES ASSUME NEW i \in DOMAIN wire', wire'[i].id = client'.id /\ wire'[i].type = "reply" /\ wire'[i].status = "ok",
                      NEW s, s = Sent'
               PROVE  (Connected' => Settled') /\ Answer(s)'
    BY DEF WireOK
  <2>1. s = Sent
    OBVIOUS
  <2>2. (Connected => Settled) /\ Answer(s)
    BY <2>1 DEF TrueData, WireOK
  <2>3. (Connected' => Settled') /\ Answer(s)'
    BY <2>2, Kept
  <2> QED BY <2>1, <2>3
<1>5. NoFalseDrift'
  BY DEF TrueData, NoFalseDrift
<1>6. EngineOK'
  BY Kept DEF TrueData, EngineOK, Context
<1> QED BY <1>1, <1>2, <1>3, <1>4, <1>5, <1>6 DEF TrueData

(* A new version of the replica changes none of the versions the client or *)
(* the worker go by.                                                       *)
LEMMA DataReplica ==
    ASSUME TypeInv, DataInv, ReplicaStep
    PROVE  DataInv'
<1>1. UNCHANGED <<client, held, view, wire, replies, reqs, work, eng, faults, removes>>
  BY ReplicaFrame
<1>2. ReplicaInv /\ client.at \in DOMAIN hist /\ client.target \in DOMAIN hist
  BY DEF TypeInv, ClientInv
<1>3. /\ ReplicaInv' /\ \A i \in DOMAIN hist : hist'[i] = hist[i]
      /\ \A i \in DOMAIN diffs : i \in DOMAIN diffs' /\ diffs'[i] = diffs[i]
  BY <1>2, ReplicaNext
<1>4. Context
  BY <1>1, <1>2, <1>3 DEF Context
<1>5. SubSeq(diffs', client.at, client.target - 1) = SubSeq(diffs, client.at, client.target - 1)
  <2>1. /\ diffs \in Seq(Diff) /\ diffs' \in Seq(Diff) /\ hist \in Seq(Table) /\ Len(hist) = Len(diffs) + 1
    BY <1>2, <1>3 DEF ReplicaInv
  <2>2. PICK v, w : v = client.at /\ w = client.target - 1
    OBVIOUS
  <2>3. v \in Nat /\ v >= 1 /\ w \in Int /\ w <= Len(diffs) /\ DOMAIN diffs = 1..Len(diffs) /\ Len(diffs) \in Nat
    BY <1>2, <2>1, <2>2
  <2>4. SubSeq(diffs', v, w) = SubSeq(diffs, v, w)
    <3>1. PICK d, e \in Seq(Diff) : d = diffs /\ e = diffs'
      BY <2>1
    <3>2. \A i \in v..w : i \in DOMAIN e /\ i \in DOMAIN d /\ e[i] = d[i]
      BY <1>3, <2>3, <3>1
    <3> QED BY <2>3, <3>1, <3>2, SubSeqSame
  <2> QED BY <2>2, <2>4
<1>6. Frames' = Frames /\ Mine' = Mine /\ (Connected' <=> Connected)
  BY <1>1 DEF Frames, Mine, Connected
<1>7. Sent' = Sent
  BY <1>6, SentSame
<1> QED BY <1>1, <1>4, <1>5, <1>6, <1>7, DataKept

(* The client removes a query: the others are as right as before.          *)
LEMMA DataRemove ==
    ASSUME TypeInv, LaneInv, DataInv, NEW q \in Query, RemoveQuery(q)
    PROVE  DataInv'
<1>1. UNCHANGED <<hist, diffs, client, wire, replies, work, eng>>
  BY DEF RemoveQuery, replica
<1>2. held' = held \ {q} /\ view' = [view EXCEPT ![q] = {}]
  BY RemoveIs
<1>3. PICK r \in Request : r.id = RemoveId /\ Queues(r)
  BY RemoveIs
<1>4. reqs \in Seq(Request) /\ client.id # RemoveId /\ view \in [Query -> SUBSET Row] /\ held \in SUBSET Query
  BY DEF TypeInv, SidecarInv, ClientInv, ClientState, RemoveId
<1>5. \A i \in DOMAIN reqs' : reqs'[i].id = client.id => \E j \in DOMAIN reqs : reqs'[i] = reqs[j]
  <2>1. CASE Connected
    <3>1. \A i \in DOMAIN reqs' : reqs'[i] = r \/ (i \in DOMAIN reqs /\ reqs'[i] = reqs[i])
      BY <1>3, <1>4, <2>1, AppendIs DEF Queues
    <3> QED BY <1>3, <1>4, <3>1
  <2>2. CASE ~Connected
    BY <1>3, <2>2 DEF Queues
  <2> QED BY <2>1, <2>2
<1>6. Context
  BY <1>1, <1>2, <1>4 DEF Context
<1>7. Frames' = Frames /\ Mine' = Mine /\ (Connected' <=> Connected)
  BY <1>1 DEF Frames, Mine, Connected
<1>8. Sent' = Sent
  BY <1>7, SentSame
<1> QED BY <1>1, <1>5, <1>6, <1>7, <1>8, DataKept

(* The client reads a reply to a removal.                                  *)
LEMMA DataReadOther ==
    ASSUME TypeInv, LaneInv, DataInv, ReadOther
    PROVE  DataInv'
<1>1. Reading /\ UNCHANGED <<client, held, view>> /\ wire[1].status # "closed"
  BY WireTail DEF ReadOther, viewSyncer
<1>2. /\ UNCHANGED <<hist, diffs, replies, reqs, work, eng>> /\ wire \in Seq(Frame) /\ 1 \in DOMAIN wire
      /\ \A i \in DOMAIN wire' : i + 1 \in DOMAIN wire /\ wire'[i] = wire[i + 1]
      /\ wire # <<>> /\ wire' = Tail(wire)
  BY <1>1, WireTail
<1>3. Context
  BY <1>1, <1>2 DEF Context
<1>4. Connected' => Connected
  <2>1. \A i \in DOMAIN wire : i = 1 \/ (i - 1 \in DOMAIN wire' /\ wire'[i - 1] = wire[i])
    BY <1>2, TailIs
  <2> QED BY <1>1, <2>1 DEF Connected
<1>5. Sent' = Sent
  BY SentReadOther
<1>6. \A i \in Mine' : \E j \in Mine : Frames'[i] = Frames[j]
  <2>1. PICK g \in Seq(Frame) : g = client.got
    BY FramesType
  <2>2. PICK t \in Seq(Frame) : t = Tail(wire)
    BY <1>2
  <2>3. Frames = g \o wire /\ Frames' = g \o t
    BY <1>1, <1>2, <2>1, <2>2 DEF Frames
  <2> SUFFICES ASSUME NEW i \in DOMAIN Frames' PROVE \E j \in DOMAIN Frames : Frames'[i] = Frames[j]
    BY <1>1 DEF Mine
  <2>4. i \in DOMAIN g \/ (i > Len(g) /\ i - Len(g) \in DOMAIN t)
    BY <1>2, <2>1, <2>2, <2>3, ConcatIs
  <2>5. CASE i \in DOMAIN g
    <3>1. (g \o wire)[i] = g[i] /\ i \in DOMAIN (g \o wire) /\ (g \o t)[i] = g[i]
      BY <1>2, <2>5, ConcatIs
    <3> QED BY <2>3, <3>1
  <2>6. CASE i > Len(g) /\ i - Len(g) \in DOMAIN t
    <3>1. PICK k \in DOMAIN t : k = i - Len(g)
      BY <2>6
    <3>2. (g \o t)[Len(g) + k] = t[k]
      <4>1. \A x \in DOMAIN t : Len(g) + x \in DOMAIN (g \o t) /\ (g \o t)[Len(g) + x] = t[x]
        BY ConcatIs
      <4>2. k \in DOMAIN t
        BY <3>1
      <4> QED BY <4>1, <4>2, Zenon
    <3>3. Len(g) + k = i
      <4>1. Len(g) \in Nat /\ i \in Int
        BY <1>2, <2>1, <2>2, <2>3, ConcatIs
      <4> QED BY <3>1, <4>1
    <3>4. k + 1 \in DOMAIN wire /\ t[k] = wire[k + 1]
      BY <1>2, <2>2
    <3>5. Len(g) + (k + 1) \in DOMAIN (g \o wire) /\ (g \o wire)[Len(g) + (k + 1)] = wire[k + 1]
      <4>1. \A x \in DOMAIN wire : Len(g) + x \in DOMAIN (g \o wire) /\ (g \o wire)[Len(g) + x] = wire[x]
        BY <1>2, ConcatIs, SMTT(30)
      <4> QED BY <3>4, <4>1, Zenon
    <3> QED BY <2>3, <3>2, <3>3, <3>4, <3>5
  <2> QED BY <2>4, <2>5, <2>6
<1>7. \A i \in DOMAIN wire' : \E j \in DOMAIN wire : wire'[i] = wire[j]
  BY <1>2
<1> QED BY <1>1, <1>2, <1>3, <1>4, <1>5, <1>6, <1>7, DataKept

(* The client reads a frame of its call: what was sent stays what was      *)
(* sent.                                                                   *)
LEMMA DataReadPartial ==
    ASSUME TypeInv, LaneInv, FrameInv, DataInv, ReadPartial
    PROVE  DataInv'
<1>1. /\ Reading /\ UNCHANGED <<held, view>> /\ wire[1].status # "closed"
      /\ client'.pc = client.pc /\ client'.id = client.id /\ client'.at = client.at
      /\ client'.target = client.target /\ client'.left = client.left /\ client'.adding = client.adding
      /\ client'.lossy = client.lossy
  BY PartialRead
<1>2. /\ UNCHANGED <<hist, diffs, replies, reqs, work, eng>> /\ wire \in Seq(Frame) /\ 1 \in DOMAIN wire
      /\ \A i \in DOMAIN wire' : i + 1 \in DOMAIN wire /\ wire'[i] = wire[i + 1]
      /\ wire # <<>> /\ wire' = Tail(wire)
  BY <1>1, WireTail
<1>3. Context
  BY <1>1, <1>2 DEF Context
<1>4. Connected' => Connected
  <2>1. \A i \in DOMAIN wire : i = 1 \/ (i - 1 \in DOMAIN wire' /\ wire'[i - 1] = wire[i])
    BY <1>2, TailIs
  <2> QED BY <1>1, <2>1 DEF Connected
<1>5. Frames' = Frames
  BY FrameReadPartial
<1>6. Sent' = Sent /\ Mine' = Mine
  BY <1>1, <1>5, SentSame DEF Mine
<1>7. \A i \in DOMAIN wire' : \E j \in DOMAIN wire : wire'[i] = wire[j]
  BY <1>2
<1> QED BY <1>1, <1>2, <1>3, <1>4, <1>5, <1>6, <1>7, DataKept

(* The sidecar leaves the context as it is.                                *)
LEMMA SidecarContext ==
    ASSUME SidecarStep
    PROVE  Context /\ UNCHANGED <<hist, diffs, client, held, view>>
<1>1. UNCHANGED <<hist, diffs, client, held, view>>
  BY SidecarFrame DEF replica, viewSyncer
<1> QED BY <1>1 DEF Context

(* One frame more on the connection.                                       *)
LEMMA WireGrows ==
    ASSUME TypeInv, NEW f \in Frame, wire' = Append(wire, f), client' = client
    PROVE  /\ \A i \in DOMAIN wire' : wire'[i] = f \/ (i \in DOMAIN wire /\ wire'[i] = wire[i])
           /\ \A i \in Mine' : (Frames'[i] = f /\ f.id = client.id) \/ (i \in Mine /\ Frames'[i] = Frames[i])
           /\ Connected' => Connected
<1>1. wire \in Seq(Frame)
  BY DEF TypeInv, SidecarInv
<1>2. /\ \A i \in DOMAIN wire' : wire'[i] = f \/ (i \in DOMAIN wire /\ wire'[i] = wire[i])
      /\ \A i \in DOMAIN wire : i \in DOMAIN wire' /\ wire'[i] = wire[i]
  BY <1>1, AppendIs
<1>3. /\ Frames'[Len(Frames) + 1] = f /\ \A i \in DOMAIN Frames : Frames'[i] = Frames[i]
      /\ Mine' = Mine \cup (IF f.id = client.id THEN {Len(Frames) + 1} ELSE {})
  BY FramesAppend
<1>4. Mine \subseteq DOMAIN Frames
  BY DEF Mine
<1>5. \A i \in Mine' : (Frames'[i] = f /\ f.id = client.id) \/ (i \in Mine /\ Frames'[i] = Frames[i])
  BY <1>3, <1>4
<1>6. Connected' => Connected
  BY <1>2 DEF Connected
<1> QED BY <1>2, <1>5, <1>6

(* A writer goroutine writes a reply.                                      *)
LEMMA DataWrite ==
    ASSUME TypeInv, LaneInv, DataInv, WriteReply
    PROVE  DataInv'
<1>1. PICK f \in replies : replies' = replies \ {f} /\ wire' = Append(wire, f)
  BY DEF WriteReply
<1>2. Context /\ UNCHANGED <<hist, diffs, client, held, view, reqs, work, eng>>
  BY SidecarContext DEF SidecarStep, WriteReply
<1>3. f \in Frame /\ f.type = "reply" /\ (f.id = client.id \/ f.changes = <<>>)
  BY DEF TypeInv, SidecarInv, LaneInv, IdInv
<1>4. /\ \A i \in DOMAIN wire' : wire'[i] = f \/ (i \in DOMAIN wire /\ wire'[i] = wire[i])
      /\ \A i \in Mine' : (Frames'[i] = f /\ f.id = client.id) \/ (i \in Mine /\ Frames'[i] = Frames[i])
      /\ Connected' => Connected
  BY <1>1, <1>2, <1>3, WireGrows
<1>5. CASE f.id # client.id
  <2>1. Sent' = Sent
    BY <1>1, <1>2, <1>3, <1>5, SentEmpty
  <2>2. \A i \in Mine' : \E j \in Mine : Frames'[i] = Frames[j]
    BY <1>4, <1>5
  <2>3. \A i \in DOMAIN wire' : wire'[i].id = client.id => \E j \in DOMAIN wire : wire'[i] = wire[j]
    BY <1>4, <1>5
  <2> QED BY <1>1, <1>2, <1>4, <2>1, <2>2, <2>3, DataKept
<1>6. CASE f.id = client.id
  <2> SUFFICES ASSUME TrueData, ~client.lossy PROVE TrueData'
    BY <1>2 DEF DataInv
  <2>1. /\ \A s \in replies : s.id = client.id => s = f
        /\ \A j \in DOMAIN wire : wire[j].id = client.id => wire[j].type = "partial"
    BY <1>6 DEF LaneInv, AnsweredInv
  <2>2. \A i \in DOMAIN reqs : reqs[i].id # client.id
    BY <1>6 DEF LaneInv, QueuedInv
  <2>3. work.pc = "idle"
    BY <1>6 DEF LaneInv, BusyInv
  <2>4. client.pc \notin {"load", "idle"}
    BY <1>6 DEF LaneInv, RestInv, Waiting
  <2>5. f.status # "drift" /\ (f.status = "ok" => Settled /\ Answer(Sent \o f.changes))
    BY <1>6 DEF TrueData, ReplyOK
  <2>6. Sent' = Sent \o f.changes
    BY <1>1, <1>2, <1>3, SentAppend
  <2>7. ViewOK'
    BY <1>2, Kept DEF TrueData
  <2>8. QueueOK' /\ WorkOK' /\ EngineOK' /\ ReplyOK'
    BY <1>1, <1>2, <2>1, <2>2, <2>3, <2>4 DEF QueueOK, WorkOK, EngineOK, ReplyOK
  <2>9. WireOK'
    <3> SUFFICES ASSUME NEW i \in DOMAIN wire', wire'[i].id = client'.id /\ wire'[i].type = "reply" /\ wire'[i].status = "ok",
                        NEW s, s = Sent'
                 PROVE  (Connected' => Settled') /\ Answer(s)'
      BY DEF WireOK
    <3>1. wire'[i] = f
      BY <1>2, <1>4, <2>1
    <3>2. Settled /\ Answer(s)
      BY <2>5, <2>6, <3>1
    <3> QED BY <1>2, <3>2, Kept
  <2>10. NoFalseDrift'
    BY <1>2, <1>4, <2>5 DEF TrueData, NoFalseDrift
  <2> QED BY <2>7, <2>8, <2>9, <2>10 DEF TrueData
<1> QED BY <1>5, <1>6

(* The process dies: answers already written stay right, everything else   *)
(* is gone.                                                                *)
LEMMA DataDies ==
    ASSUME TypeInv, LaneInv, DataInv, Dies, SidecarStep
    PROVE  DataInv'
<1>1. eng' = NoEngine /\ reqs' = <<>> /\ work' = Idle /\ replies' = {} /\ wire' = Append(wire, ConnectionClosed)
  BY DEF Dies
<1>2. Context /\ UNCHANGED <<hist, diffs, client, held, view>>
  BY SidecarContext
<1>3. client.id # RemoveId /\ wire \in Seq(Frame)
  BY DEF TypeInv, SidecarInv, ClientInv, ClientState, RemoveId
<1>4. /\ \A i \in DOMAIN wire' : wire'[i] = ConnectionClosed \/ (i \in DOMAIN wire /\ wire'[i] = wire[i])
      /\ \A i \in Mine' : i \in Mine /\ Frames'[i] = Frames[i]
  BY <1>1, <1>2, <1>3, ClosedIs, WireGrows
<1>5. Sent' = Sent
  BY <1>1, <1>2, ClosedIs, SentEmpty
<1>6. ~Connected'
  BY <1>1, <1>3, ClosedIs, AppendIs DEF Connected
<1> SUFFICES ASSUME TrueData, ~client.lossy PROVE TrueData'
  BY <1>2 DEF DataInv
<1>7. DOMAIN reqs' = {}
  BY <1>1
<1>8. ViewOK' /\ QueueOK' /\ WorkOK' /\ ReplyOK' /\ EngineOK'
  BY <1>1, <1>2, <1>6, <1>7, Kept, IdleIs DEF TrueData, QueueOK, WorkOK, ReplyOK, EngineOK
<1>9. WireOK'
  <2> SUFFICES ASSUME NEW i \in DOMAIN wire', wire'[i].id = client'.id /\ wire'[i].type = "reply" /\ wire'[i].status = "ok",
                      NEW s, s = Sent'
               PROVE  Answer(s)'
    BY <1>6 DEF WireOK
  <2>1. i \in DOMAIN wire /\ wire'[i] = wire[i]
    BY <1>2, <1>3, <1>4, ClosedIs
  <2>2. Answer(s)
    BY <1>2, <1>5, <2>1 DEF TrueData, WireOK
  <2> QED BY <1>2, <2>2, Kept
<1>10. NoFalseDrift'
  BY <1>2, <1>4 DEF TrueData, NoFalseDrift
<1> QED BY <1>8, <1>9, <1>10 DEF TrueData

(* A call begins.                                                          *)
LEMMA DataBegins ==
    ASSUME TypeInv, LaneInv, Call, NEW r, r.id = client'.id, Queues(r),
           ~client'.lossy => ViewOK' /\ (Connected => RequestOK(r)')
    PROVE  DataInv'
<1>1. /\ wire' = wire /\ replies' = replies /\ work' = work
      /\ client'.id \in {0, 1} /\ client'.got = client.got
      /\ client.pc \in {"reset", "load", "idle"} /\ client'.pc \in {"init", "rehydrate", "add", "advance"}
  BY CallIs, ClientFrame DEF ClientStep
<1>2. client'.id # RemoveId
  BY <1>1 DEF RemoveId
<1>3. /\ \A i \in DOMAIN reqs : reqs[i].id = RemoveId
      /\ \A f \in replies : f.id = RemoveId
      /\ \A i \in DOMAIN wire : wire[i].id = RemoveId
      /\ client.got = <<>> /\ work.pc = "idle"
  BY <1>1 DEF LaneInv, IdInv, RestInv, Waiting
<1>4. reqs \in Seq(Request) /\ wire \in Seq(Frame)
  BY DEF TypeInv, SidecarInv
<1>5. \A i \in DOMAIN reqs' : reqs'[i].id = client'.id => reqs'[i] = r /\ Connected
  <2>1. CASE Connected
    <3>1. reqs' = Append(reqs, r)
      BY <2>1 DEF Queues
    <3>2. \A i \in DOMAIN reqs' : (i \in DOMAIN reqs /\ reqs'[i] = reqs[i]) \/ reqs'[i] = r
      BY <1>4, <3>1
    <3> QED BY <1>2, <1>3, <2>1, <3>2
  <2>2. CASE ~Connected
    BY <1>2, <1>3, <2>2 DEF Queues
  <2> QED BY <2>1, <2>2
<1>6. Frames' = wire
  BY <1>1, <1>3, <1>4 DEF Frames
<1>7. Mine' = {}
  BY <1>2, <1>3, <1>6 DEF Mine
<1> SUFFICES ASSUME ~client'.lossy PROVE TrueData'
  BY DEF DataInv
<1>8. QueueOK'
  <2> SUFFICES ASSUME NEW i \in DOMAIN reqs', NEW s, s = reqs'[i], s.id = client'.id PROVE RequestOK(s)'
    BY DEF QueueOK
  <2>1. s = r /\ Connected
    BY <1>5
  <2> QED BY <2>1
<1>9. WorkOK' /\ ReplyOK' /\ WireOK' /\ EngineOK' /\ NoFalseDrift'
  BY <1>1, <1>2, <1>3, <1>7 DEF WorkOK, ReplyOK, WireOK, EngineOK, NoFalseDrift
<1> QED BY <1>8, <1>9 DEF TrueData

(* A call is over.                                                         *)
LEMMA DataEnds ==
    ASSUME TypeInv, TypeInv', LaneInv, ReadFailure \/ ReadLoaded \/ ReadRehydrated \/ ReadAdded \/ ReadAdvanced,
           ~client.lossy => ViewOK' /\ EngineOK'
    PROVE  DataInv'
<1>1. /\ Reading /\ client'.id = client.id /\ client'.got = <<>> /\ client'.lossy = client.lossy
      /\ (wire[1].id = client.id /\ wire[1].type = "reply") \/ wire[1].status = "closed"
  BY EndIs
<1>2. UNCHANGED <<replies, reqs, work>>
  BY <1>1, WireTail
<1>3. /\ \A i \in DOMAIN reqs : reqs[i].id # client.id
      /\ work.pc = "idle"
      /\ \A r \in replies : r.id # client.id
      /\ \A i \in DOMAIN wire' : wire'[i].id # client.id
  BY <1>1, NothingLeft
<1>4. Frames' = wire'
  <2>1. wire' \in Seq(Frame)
    BY DEF TypeInv, SidecarInv
  <2> QED BY <1>1, <2>1 DEF Frames
<1>5. Mine' = {}
  BY <1>1, <1>3, <1>4 DEF Mine
<1>6. QueueOK' /\ WorkOK' /\ ReplyOK' /\ WireOK' /\ NoFalseDrift'
  BY <1>1, <1>2, <1>3, <1>5 DEF QueueOK, WorkOK, ReplyOK, WireOK, NoFalseDrift
<1> QED BY <1>1, <1>6 DEF DataInv, TrueData

(* What a call changes of the client.                                      *)
LEMMA CallFields ==
    ASSUME TypeInv, NEW m, NEW a, NEW n \in ClientState, Calls(m, a, n), n.id = client.id
    PROVE  /\ client'.pc = n.pc /\ client'.at = n.at /\ client'.target = n.target /\ client'.left = n.left
           /\ client'.adding = n.adding /\ client'.lossy = n.lossy
           /\ UNCHANGED <<hist, diffs, held, view, wire, eng>>
           /\ \E r : r.method = m /\ r.arg = a /\ r.id = client'.id /\ Queues(r)
<1>1. client' = [n EXCEPT !.id = 1 - n.id]
  BY DEF Calls
<1>2. /\ client'.pc = n.pc /\ client'.at = n.at /\ client'.target = n.target /\ client'.left = n.left
      /\ client'.adding = n.adding /\ client'.lossy = n.lossy /\ client'.id = 1 - client.id
  BY <1>1 DEF ClientState
<1> DEFINE r == [method |-> m, id |-> 1 - client.id, arg |-> a]
<1>3. r.method = m /\ r.arg = a /\ r.id = client'.id /\ Queues(r)
  BY <1>2 DEF Calls, Send, Queues
<1> HIDE DEF r
<1> QED BY <1>2, <1>3 DEF Calls, replica

(* The client makes a call: its argument fits the engine it will find.     *)
LEMMA DataCall ==
    ASSUME TypeInv, LaneInv, DataInv, Call
    PROVE  DataInv'
<1>1. client \in ClientState /\ hist \in Seq(Table) /\ Len(hist) \in Nat /\ Len(hist) \in DOMAIN hist
      /\ client.at \in DOMAIN hist
  BY DEF TypeInv, ClientInv, ReplicaInv
<1>2. hist[Len(hist)] \in SUBSET Row
  BY <1>1 DEF Table
<1>3. CASE CallInit
  <2> DEFINE n == [client EXCEPT !.pc = "init", !.target = Len(hist), !.left = hist[Len(hist)], !.lossy = FALSE]
  <2>1. Calls("init", {}, n)
    BY <1>3 DEF CallInit
  <2>2. n \in ClientState /\ n.id = client.id /\ n.pc = "init" /\ n.target = Len(hist) /\ n.left = hist[Len(hist)]
    BY <1>1, <1>2 DEF ClientState
  <2> HIDE DEF n
  <2>3. PICK r : r.method = "init" /\ r.id = client'.id /\ Queues(r)
    BY <2>1, <2>2, CallFields
  <2>4. client'.pc = "init" /\ client'.target = Len(hist) /\ client'.left = hist[Len(hist)] /\ hist' = hist
    BY <2>1, <2>2, CallFields
  <2>5. RequestOK(r)' /\ ViewOK'
    BY <2>3, <2>4 DEF RequestOK, ViewOK
  <2> QED BY <2>3, <2>5, DataBegins
<1>4. CASE \E S \in SUBSET Row : CallLoadRows(S)
  <2>0. PICK S \in SUBSET Row : CallLoadRows(S)
    BY <1>4
  <2> DEFINE n == [client EXCEPT !.pc = "init", !.left = client.left \ S]
  <2>1. Calls("loadRows", S, n) /\ client.pc = "load" /\ S \in SUBSET client.left
    BY <2>0 DEF CallLoadRows
  <2>2. /\ n \in ClientState /\ n.id = client.id /\ n.pc = "init" /\ n.target = client.target
        /\ n.left = client.left \ S /\ n.lossy = client.lossy
    BY <1>1 DEF ClientState
  <2> HIDE DEF n
  <2>3. PICK r : r.method = "loadRows" /\ r.arg = S /\ r.id = client'.id /\ Queues(r)
    BY <2>1, <2>2, CallFields
  <2>4. /\ client'.pc = "init" /\ client'.target = client.target /\ client'.left = client.left \ S
        /\ client'.lossy = client.lossy /\ hist' = hist /\ eng' = eng
    BY <2>1, <2>2, CallFields
  <2>5. ASSUME ~client.lossy, Connected PROVE RequestOK(r)'
    <3>1. Settled
      BY <2>1, <2>5 DEF DataInv, TrueData, EngineOK
    <3>2. eng.source \cup S \cup (client.left \ S) = hist[client.target] /\ Running'
      BY <2>1, <2>4, <3>1 DEF Settled, Running
    <3> QED BY <2>3, <2>4, <3>2 DEF RequestOK
  <2>6. ViewOK'
    BY <2>4 DEF ViewOK
  <2> QED BY <2>3, <2>4, <2>5, <2>6, DataBegins
<1>5. CASE CallRehydrate
  <2> DEFINE n == [client EXCEPT !.pc = "rehydrate"]
  <2>1. Calls("addQueriesStream", held, n) /\ client.pc = "load" /\ client.left = {}
    BY <1>5 DEF CallRehydrate
  <2>2. n \in ClientState /\ n.id = client.id /\ n.pc = "rehydrate" /\ n.target = client.target /\ n.lossy = client.lossy
    BY <1>1 DEF ClientState
  <2> HIDE DEF n
  <2>3. PICK r : r.method = "addQueriesStream" /\ r.arg = held /\ r.id = client'.id /\ Queues(r)
    BY <2>1, <2>2, CallFields
  <2>4. /\ client'.pc = "rehydrate" /\ client'.target = client.target
        /\ client'.lossy = client.lossy /\ hist' = hist /\ eng' = eng /\ held' = held
    BY <2>1, <2>2, CallFields
  <2>5. ASSUME ~client.lossy, Connected PROVE RequestOK(r)'
    <3>1. Settled
      BY <2>1, <2>5 DEF DataInv, TrueData, EngineOK
    <3>2. eng.source = hist[client.target] /\ Running'
      BY <2>1, <2>4, <3>1 DEF Settled, Running
    <3> QED BY <2>3, <2>4, <3>2 DEF RequestOK
  <2>6. ViewOK'
    BY <2>4 DEF ViewOK
  <2> QED BY <2>3, <2>4, <2>5, <2>6, DataBegins
<1>6. CASE \E m \in {"addQueries", "addQueriesStream"}, S \in SUBSET Query : CallAddQueries(m, S)
  <2>0. PICK m \in {"addQueries", "addQueriesStream"}, S \in SUBSET Query : CallAddQueries(m, S)
    BY <1>6
  <2> DEFINE n == [client EXCEPT !.pc = "add", !.adding = S]
  <2>1. Calls(m, S, n) /\ client.pc = "idle"
    BY <2>0 DEF CallAddQueries
  <2>2. /\ n \in ClientState /\ n.id = client.id /\ n.pc = "add" /\ n.target = client.target
        /\ n.lossy = client.lossy /\ n.adding = S /\ n.at = client.at
    BY <1>1 DEF ClientState
  <2> HIDE DEF n
  <2>3. PICK r : r.method = m /\ r.arg = S /\ r.id = client'.id /\ Queues(r)
    BY <2>1, <2>2, CallFields
  <2>4. /\ client'.pc = "add" /\ client'.target = client.target /\ client'.adding = S /\ client'.at = client.at
        /\ client'.lossy = client.lossy /\ hist' = hist /\ eng' = eng /\ held' = held /\ view' = view
    BY <2>1, <2>2, CallFields
  <2>5. ASSUME ~client.lossy, Connected PROVE RequestOK(r)'
    <3>1. Settled
      BY <2>1, <2>5 DEF DataInv, TrueData, EngineOK
    <3>2. client.left = {}
      BY <2>1 DEF TypeInv, ClientInv
    <3>3. eng.source = hist[client.target] /\ Running' /\ held \subseteq eng.pipelines
      BY <2>1, <2>4, <3>1, <3>2 DEF Settled, Running
    <3> QED BY <2>3, <2>4, <3>3 DEF RequestOK
  <2>6. ~client.lossy => ViewOK'
    BY <2>1, <2>4 DEF DataInv, TrueData, ViewOK
  <2> QED BY <2>3, <2>4, <2>5, <2>6, DataBegins
<1>7. CASE \E m \in {"advance", "advanceStream"} : CallAdvance(m)
  <2>0. PICK m \in {"advance", "advanceStream"} : CallAdvance(m)
    BY <1>7
  <2> DEFINE n == [client EXCEPT !.pc = "advance", !.target = Len(hist)]
             a == SubSeq(diffs, client.at, Len(hist) - 1)
  <2>1. Calls(m, a, n) /\ client.pc = "idle"
    BY <2>0 DEF CallAdvance
  <2>2. /\ n \in ClientState /\ n.id = client.id /\ n.pc = "advance" /\ n.target = Len(hist)
        /\ n.lossy = client.lossy /\ n.at = client.at
    BY <1>1 DEF ClientState
  <2> HIDE DEF n, a
  <2>3. PICK r : r.method = m /\ r.arg = a /\ r.id = client'.id /\ Queues(r)
    BY <2>1, <2>2, CallFields
  <2>4. /\ client'.pc = "advance" /\ client'.target = Len(hist) /\ client'.at = client.at
        /\ client'.lossy = client.lossy /\ hist' = hist /\ diffs' = diffs
        /\ eng' = eng /\ held' = held /\ view' = view
    BY <2>1, <2>2, CallFields
  <2>5. ASSUME ~client.lossy, Connected PROVE RequestOK(r)'
    <3>1. Settled
      BY <2>1, <2>5 DEF DataInv, TrueData, EngineOK
    <3>2. client.left = {} /\ client.target = client.at
      BY <2>1, <2>5 DEF TypeInv, ClientInv
    <3>3. eng.source = hist[client.at] /\ Running' /\ held \subseteq eng.pipelines
      BY <2>1, <2>4, <3>1, <3>2 DEF Settled, Running
    <3>4. r.arg = SubSeq(diffs', client'.at, client'.target - 1)
      BY <2>3, <2>4 DEF a
    <3> QED BY <2>3, <2>4, <3>3, <3>4 DEF RequestOK
  <2>6. ~client.lossy => ViewOK'
    BY <2>1, <2>4 DEF DataInv, TrueData, ViewOK
  <2> QED BY <2>3, <2>4, <2>5, <2>6, DataBegins
<1> QED BY <1>3, <1>4, <1>5, <1>6, <1>7 DEF Call

(* The answer of a call that went well.                                    *)
LEMMA AnswerIs ==
    ASSUME TypeInv, LaneInv, DataInv, ~client.lossy, wire # <<>>, Awaited("reply"), ~Failed
    PROVE  (Connected => Settled) /\ Answer(Sent) /\ Received = Sent /\ wire[1].status = "ok"
<1>1. Head(wire) = wire[1] /\ 1 \in DOMAIN wire
  BY DEF TypeInv, SidecarInv
<1>2. wire[1].id = client.id /\ wire[1].type = "reply" /\ wire[1].status = "ok"
  BY <1>1 DEF Awaited, Failed
<1> QED BY <1>1, <1>2, ReceivedIs DEF DataInv, TrueData, WireOK

(* The row changes of an answer fit the rows the client holds.             *)
LEMMA DataFits ==
    ASSUME TypeInv, LaneInv, DataInv
    PROVE  ChangesFit
<1> SUFFICES ASSUME wire # <<>> /\ client.pc = "advance" /\ ~client.lossy /\ Awaited("reply") /\ ~Failed,
                    NEW q \in held
             PROVE  Fit(q, view[q], Received)
  BY DEF ChangesFit, Fit
<1>1. Answer(Sent) /\ Received = Sent
  BY AnswerIs
<1> QED BY <1>1 DEF Answer

(* The client reads the answer: after it its rows are those of the version *)
(* it asked for.                                                           *)
LEMMA DataReadEnd ==
    ASSUME TypeInv, TypeInv', LaneInv, DataInv,
           ReadFailure \/ ReadLoaded \/ ReadRehydrated \/ ReadAdded \/ ReadAdvanced
    PROVE  DataInv'
<1> SUFFICES ASSUME ~client.lossy PROVE ViewOK' /\ EngineOK'
  BY DataEnds
<1>1. Reading /\ client \in ClientState
  BY EndIs DEF TypeInv, ClientInv
<1>2. wire # <<>> /\ wire \in Seq(Frame) /\ wire' = Tail(wire) /\ UNCHANGED <<hist, eng>>
  BY <1>1, WireTail
<1>3. ASSUME wire[1].status = "ok" PROVE Connected' => Connected
  <2>1. \A i \in DOMAIN wire : i = 1 \/ (i - 1 \in DOMAIN wire' /\ wire'[i - 1] = wire[i])
    BY <1>2, TailIs
  <2> QED BY <1>3, <2>1 DEF Connected
<1>4. CASE ReadFailure
  <2>1. client'.pc = "reset"
    BY <1>1, <1>4 DEF ReadFailure, ClientState
  <2> QED BY <2>1 DEF ViewOK, EngineOK
<1>5. ASSUME ReadLoaded \/ ReadRehydrated \/ ReadAdded \/ ReadAdvanced
      PROVE  (Connected' => Settled) /\ Answer(Sent) /\ Received = Sent
  <2>1. Awaited("reply") /\ ~Failed
    BY <1>5 DEF ReadLoaded, ReadRehydrated, ReadAdded, ReadAdvanced, ReadOk
  <2> QED BY <1>2, <1>3, <2>1, AnswerIs
<1>6. CASE ReadLoaded
  <2>1. client.pc = "init" /\ client'.pc = "load" /\ client'.left = client.left /\ client'.target = client.target
    BY <1>1, <1>6 DEF ReadLoaded, ReadOk, ClientState
  <2>2. Settled => Settled'
    BY <1>2, <2>1 DEF Settled, Running
  <2> QED BY <1>5, <1>6, <2>1, <2>2 DEF ViewOK, EngineOK
<1>7. CASE ReadRehydrated
  <2>1. /\ client.pc = "rehydrate" /\ client'.pc = "idle" /\ client'.left = client.left
        /\ client'.target = client.target /\ client'.adding = client.adding /\ client'.at = client.target
        /\ held' = held /\ view' = [q \in Query |-> IF q \in held THEN Apply(q, {}, Received) ELSE {}]
    BY <1>1, <1>7 DEF ReadRehydrated, ReadOk, ClientState
  <2>2. Settled => Settled'
    BY <1>2, <2>1 DEF Settled, Running
  <2>3. \A q \in held : Apply(q, {}, Received) = Rows(hist[client.target], q)
    BY <1>5, <1>7, <2>1 DEF Answer, Asked, Before
  <2>4. held \in SUBSET Query
    BY DEF TypeInv, ClientInv
  <2>5. \A q \in held' : view'[q] = Rows(hist'[client'.at], q)
    BY <1>2, <2>1, <2>3, <2>4
  <2> QED BY <1>5, <1>7, <2>2, <2>5 DEF ViewOK, EngineOK
<1>8. CASE ReadAdded
  <2>1. /\ client.pc = "add" /\ client'.pc = "idle" /\ client'.left = client.left
        /\ client'.target = client.target /\ client'.adding = {} /\ client'.at = client.at
        /\ held' = held \cup client.adding
        /\ view' = [q \in Query |-> IF q \in client.adding THEN Apply(q, {}, Received) ELSE view[q]]
    BY <1>1, <1>8 DEF ReadAdded, ReadOk, ClientState
  <2>2. Settled => Settled'
    BY <1>2, <2>1 DEF Settled, Running
  <2>3. \A q \in client.adding : Apply(q, {}, Received) = Rows(hist[client.target], q)
    BY <1>5, <1>8, <2>1 DEF Answer, Asked, Before
  <2>4. held \in SUBSET Query /\ client.adding \in SUBSET Query /\ client.target = client.at
    BY <1>1, <2>1 DEF TypeInv, ClientInv, ClientState
  <2>5. \A q \in held : view[q] = Rows(hist[client.at], q)
    BY <2>1 DEF DataInv, TrueData, ViewOK
  <2>6. \A q \in held' : view'[q] = Rows(hist'[client'.at], q)
    BY <1>2, <2>1, <2>3, <2>4, <2>5
  <2> QED BY <1>5, <1>8, <2>2, <2>6 DEF ViewOK, EngineOK
<1>9. CASE ReadAdvanced
  <2>1. /\ client.pc = "advance" /\ client'.pc = "idle" /\ client'.left = client.left
        /\ client'.target = client.target /\ client'.adding = client.adding /\ client'.at = client.target
        /\ held' = held /\ view' = [q \in Query |-> IF q \in held THEN Apply(q, view[q], Received) ELSE {}]
    BY <1>1, <1>9 DEF ReadAdvanced, ReadOk, ClientState
  <2>2. Settled => Settled'
    BY <1>2, <2>1 DEF Settled, Running
  <2>3. \A q \in held : Apply(q, view[q], Received) = Rows(hist[client.target], q)
    BY <1>5, <1>9, <2>1 DEF Answer, Asked, Before
  <2>4. held \in SUBSET Query
    BY DEF TypeInv, ClientInv
  <2>5. \A q \in held' : view'[q] = Rows(hist'[client'.at], q)
    BY <1>2, <2>1, <2>3, <2>4
  <2> QED BY <1>5, <1>9, <2>2, <2>5 DEF ViewOK, EngineOK
<1> QED BY <1>4, <1>6, <1>7, <1>8, <1>9

(* Keys are unique in a version, and in what a query sees of it.           *)
LEMMA RowsUnique ==
    ASSUME TypeInv, NEW v \in DOMAIN hist, NEW q
    PROVE  UniqueKeys(hist[v]) /\ UniqueKeys(Rows(hist[v], q))
<1>1. hist[v] \in Table
  BY DEF TypeInv, ReplicaInv
<1>2. PICK T \in Table : T = hist[v]
  BY <1>1
<1>3. UniqueKeys(T) /\ UniqueKeys(Rows(T, q))
  BY DEF Table, UniqueKeys, Rows
<1> QED BY <1>2, <1>3

(* The worker takes the removal of a query.                                *)
LEMMA DataRemoval ==
    ASSUME TypeInv, LaneInv, RemovalInv, DataInv, Handle, reqs[1].id # client.id
    PROVE  DataInv'
<1>1. /\ Head(reqs) = reqs[1] /\ 1 \in DOMAIN reqs /\ reqs[1].id = RemoveId /\ reqs[1].method = "removeQuery"
      /\ UNCHANGED <<wire, client>> /\ work.pc = "idle"
      /\ \A i \in DOMAIN reqs' : i + 1 \in DOMAIN reqs /\ i \in Nat /\ reqs'[i] = reqs[i + 1]
  BY TakenIs
<1>2. handleRemoveQuery \/ Refused
  BY <1>1 DEF Handle, handleInit, handleLoadRows, handleAddQueries,
     handleAddQueriesStream, handleAdvance, handleAdvanceStream, Taking
<1>3. PICK st, s : Answers(reqs[1].id, st, s) /\ work' = work
  BY <1>1, <1>2 DEF handleRemoveQuery, Refused
<1>4. \A r \in replies' : r.id = client.id => r \in replies
  BY <1>3, ReplyFields DEF Answers
<1>5. \A i \in DOMAIN reqs' : \E j \in DOMAIN reqs : reqs'[i] = reqs[j]
  BY <1>1
<1>6. Context /\ UNCHANGED <<hist, diffs, client, held, view>>
  BY SidecarContext DEF SidecarStep, Work
<1>7. Frames' = Frames /\ Mine' = Mine /\ (Connected' <=> Connected)
  BY <1>1 DEF Frames, Mine, Connected
<1>8. Sent' = Sent
  BY <1>7, SentSame
<1>9. CASE Refused
  <2>1. eng' = eng
    BY <1>9 DEF Refused
  <2> QED BY <1>1, <1>3, <1>4, <1>5, <1>6, <1>7, <1>8, <2>1, DataKept
<1>10. CASE handleRemoveQuery
  <2> SUFFICES ASSUME TrueData, ~client.lossy PROVE TrueData'
    BY <1>6 DEF DataInv
  <2>1. eng' = [eng EXCEPT !.pipelines = eng.pipelines \ reqs[1].arg]
    BY <1>1, <1>10 DEF handleRemoveQuery, removeQuery
  <2>2. /\ eng'.open = eng.open /\ eng'.source = eng.source /\ eng'.accumulated = eng.accumulated
        /\ eng'.pipelines = eng.pipelines \ reqs[1].arg
    BY <2>1 DEF TypeInv, SidecarInv, EngineState
  <2>3. /\ reqs[1].arg \cap held = {}
        /\ reqs[1].arg \cap client.adding # {} => \E j \in DOMAIN reqs : reqs[j].id = client.id
    BY <1>1 DEF RemovalInv
  <2>4. (\A j \in DOMAIN reqs : reqs[j].id # client.id) /\ Settled => Settled'
    BY <1>6, <2>2, <2>3 DEF Settled, Running
  <2>5. ViewOK' /\ WorkOK'
    BY <1>1, <1>3, <1>6, Kept DEF TrueData, WorkOK
  <2>6. QueueOK'
    <3> SUFFICES ASSUME NEW i \in DOMAIN reqs', NEW r, r = reqs'[i], r.id = client'.id PROVE RequestOK(r)'
      BY DEF QueueOK
    <3>1. PICK j \in DOMAIN reqs : r = reqs[j]
      BY <1>5
    <3>2. RequestOK(r)
      BY <1>6, <3>1 DEF TrueData, QueueOK
    <3>3. held \subseteq eng.pipelines => held' \subseteq eng'.pipelines
      BY <1>6, <2>2, <2>3
    <3> QED BY <1>6, <2>2, <3>2, <3>3 DEF RequestOK, Running
  <2>7. ReplyOK'
    <3> SUFFICES ASSUME NEW r \in replies', r.id = client'.id, NEW t, t = Sent' \o r.changes
                 PROVE  r.status # "drift" /\ (r.status = "ok" => Settled' /\ Answer(t)')
      BY DEF ReplyOK
    <3>1. r \in replies /\ r.id = client.id
      BY <1>4, <1>6
    <3>2. r.status # "drift" /\ (r.status = "ok" => Settled /\ Answer(t))
      BY <1>8, <3>1 DEF TrueData, ReplyOK
    <3>3. \A j \in DOMAIN reqs : reqs[j].id # client.id
      BY <3>1 DEF LaneInv, QueuedInv
    <3> QED BY <1>6, <2>4, <3>2, <3>3, Kept
  <2>8. WireOK'
    <3> SUFFICES ASSUME NEW i \in DOMAIN wire', wire'[i].id = client'.id /\ wire'[i].type = "reply" /\ wire'[i].status = "ok",
                        NEW t, t = Sent'
                 PROVE  (Connected' => Settled') /\ Answer(t)'
      BY DEF WireOK
    <3>1. (Connected => Settled) /\ Answer(t)
      BY <1>1, <1>8 DEF TrueData, WireOK
    <3>2. \A j \in DOMAIN reqs : reqs[j].id # client.id
      BY <1>1 DEF LaneInv, QueuedInv
    <3> QED BY <1>6, <1>7, <2>4, <3>1, <3>2, Kept
  <2>9. NoFalseDrift'
    BY <1>6, <1>7 DEF TrueData, NoFalseDrift
  <2>10. EngineOK'
    <3> SUFFICES ASSUME Connected, client.pc \in {"load", "idle"} PROVE Settled'
      BY <1>6, <1>7 DEF EngineOK
    <3>1. Settled
      BY DEF TrueData, EngineOK
    <3>2. \A j \in DOMAIN reqs : reqs[j].id # client.id
      BY DEF LaneInv, RestInv, Waiting
    <3> QED BY <2>4, <3>1, <3>2
  <2> QED BY <2>5, <2>6, <2>7, <2>8, <2>9, <2>10 DEF TrueData
<1> QED BY <1>2, <1>9, <1>10

(* The worker takes the call.                                              *)
LEMMA DataTaken ==
    ASSUME TypeInv, LaneInv, DataInv, Handle, reqs[1].id = client.id,
           TrueData /\ Sent = <<>> /\ Sent' = <<>> /\ RequestOK(reqs[1]) => WorkOK' /\ ReplyOK'
    PROVE  DataInv'
<1>1. /\ 1 \in DOMAIN reqs /\ UNCHANGED <<wire, client>>
      /\ \A i \in DOMAIN reqs' : reqs'[i].id # client.id
      /\ \A j \in DOMAIN wire : wire[j].id # client.id
      /\ Waiting
  BY TakenIs
<1>2. Mine = {}
  BY TakenIs, MineNone
<1>3. Frames' = Frames /\ Mine' = {}
  BY <1>1, <1>2 DEF Frames, Mine
<1>4. Sent = <<>> /\ Sent' = <<>>
  BY <1>2, <1>3, SentNone, SentSame
<1>5. Context
  BY SidecarContext DEF SidecarStep, Work
<1> SUFFICES ASSUME TrueData PROVE TrueData'
  BY <1>1 DEF DataInv
<1>6. RequestOK(reqs[1])
  BY <1>1 DEF TrueData, QueueOK
<1>7. WorkOK' /\ ReplyOK'
  BY <1>4, <1>6
<1>8. ViewOK'
  BY <1>5, Kept DEF TrueData
<1>9. QueueOK' /\ WireOK' /\ NoFalseDrift' /\ EngineOK'
  BY <1>1, <1>3 DEF QueueOK, WireOK, NoFalseDrift, EngineOK, Waiting
<1> QED BY <1>7, <1>8, <1>9 DEF TrueData

(* ... and answers it.                                                     *)
LEMMA DataAnswered ==
    ASSUME TypeInv, LaneInv, DataInv, Handle, reqs[1].id = client.id, work' = work,
           NEW st \in {"ok", "error"}, NEW s \in Seq(RowChangeOf), Answers(reqs[1].id, st, s),
           RequestOK(reqs[1]) /\ st = "ok" => Settled' /\ Answer(s)
    PROVE  DataInv'
<1>1. /\ work.pc = "idle" /\ UNCHANGED client /\ \A f \in replies : f.id # client.id
  BY TakenIs
<1> DEFINE f == Reply(reqs[1].id, st, s)
<1>2. f.status = st /\ f.changes = s
  BY ReplyFields
<1>3. replies' = replies \cup {f}
  BY DEF Answers
<1> HIDE DEF f
<1>4. Context
  BY SidecarContext DEF SidecarStep, Work
<1>5. ASSUME Sent' = <<>>, RequestOK(reqs[1]) PROVE WorkOK' /\ ReplyOK'
  <2>1. WorkOK'
    BY <1>1 DEF WorkOK
  <2> SUFFICES ASSUME NEW r \in replies', r.id = client'.id, NEW t, t = Sent' \o r.changes
               PROVE  r.status # "drift" /\ (r.status = "ok" => Settled' /\ Answer(t)')
    BY <2>1 DEF ReplyOK
  <2>2. r = f
    BY <1>1, <1>3
  <2>3. t = <<>> \o s
    BY <1>2, <1>5, <2>2
  <2>4. t = s
    BY <2>3
  <2> QED BY <1>2, <1>4, <1>5, <2>2, <2>4, Kept
<1> QED BY <1>5, DataTaken

(* AddQueriesStream: the goroutines begin with all the rows of their       *)
(* queries.                                                                *)
LEMMA DataHydrates ==
    ASSUME TypeInv, LaneInv, DataInv, handleAddQueriesStream, reqs[1].id = client.id
    PROVE  DataInv'
<1>1. /\ Handle /\ Head(reqs) = reqs[1] /\ reqs[1] \in Request /\ UNCHANGED client
      /\ \A f \in replies : f.id # client.id
  BY TakenIs DEF Handle
<1>2. reqs[1].method = "addQueriesStream" /\ replies' = replies
  BY <1>1 DEF handleAddQueriesStream, Taking
<1>3. PICK S \in SUBSET Query : S = reqs[1].arg
  BY <1>1, <1>2, RequestIs
<1>4. /\ work' = [Idle EXCEPT !.pc = "hydrate", !.id = reqs[1].id, !.parts = AddQueriesStream(S)]
      /\ eng' = [eng EXCEPT !.pipelines = eng.pipelines \cup S]
  BY <1>1, <1>3 DEF handleAddQueriesStream, buildAndRegister
<1>5. work'.pc = "hydrate" /\ work'.parts = AddQueriesStream(S)
  BY <1>4 DEF Idle
<1>6. eng.source \in SUBSET Row /\ IsFiniteSet(eng.source)
  BY DEF TypeInv, SidecarInv, EngineState
<1>7. /\ eng'.open = eng.open /\ eng'.source = eng.source /\ eng'.accumulated = eng.accumulated
      /\ eng'.pipelines = eng.pipelines \cup S
  BY <1>4 DEF TypeInv, SidecarInv, EngineState
<1>8. UNCHANGED <<hist, held, view>>
  BY <1>1, SidecarContext DEF SidecarStep, Work
<1>9. ASSUME Sent' = <<>>, RequestOK(reqs[1]) PROVE WorkOK' /\ ReplyOK'
  <2>1. /\ client.pc \in {"rehydrate", "add"} /\ Running /\ eng.source = hist[client.target]
        /\ client.pc = "rehydrate" => held \subseteq S
        /\ client.pc = "add" => S = client.adding /\ held \subseteq eng.pipelines
    BY <1>2, <1>3, <1>9 DEF RequestOK
  <2>2. client.left = {} /\ (client.pc = "rehydrate" => client.adding = {})
    BY <2>1 DEF TypeInv, ClientInv
  <2>3. Settled'
    BY <1>1, <1>7, <1>8, <2>1, <2>2 DEF Settled, Running
  <2>4. Asked' \subseteq S /\ DOMAIN work'.parts = S
    BY <1>1, <1>5, <1>8, <2>1 DEF Asked, AddQueriesStream
  <2>5. ASSUME NEW q \in S PROVE PartOK(q)'
    <3>1. PICK left : left = hydrateEntry(q)
      OBVIOUS
    <3>2. work'.parts[q] = [left |-> left, index |-> 0, done |-> FALSE]
      BY <1>5, <3>1 DEF AddQueriesStream
    <3>3. /\ \A i \in DOMAIN left : left[i].query = q
          /\ AddsOf(left, q, Rows(eng.source, q))
          /\ \A r \in Rows(eng.source, q) : Adds(left, q, r)
      BY <1>6, <3>1, HydrateEntryIs
    <3>4. DOMAIN Sent' = {} /\ work'.parts[q].left = left /\ ~work'.parts[q].done
      BY <1>9, <3>2
    <3>5. AddsOf(Sent', q, Rows(eng.source, q))
      BY <3>4 DEF AddsOf
    <3>6. AddsOf(Sent, q, Rows(eng.source, q))' /\ AddsOf(work.parts[q].left, q, Rows(eng.source, q))'
      BY <1>7, <3>3, <3>4, <3>5 DEF AddsOf, Rows
    <3>7. \A r \in Rows(eng.source, q)' : Adds(work.parts[q].left, q, r)'
      BY <1>7, <3>3, <3>4 DEF Adds, Rows
    <3> QED BY <3>3, <3>4, <3>6, <3>7 DEF PartOK
  <2>6. HydrateOK'
    BY <1>1, <2>1, <2>3, <2>4, <2>5 DEF HydrateOK
  <2>7. ReplyOK'
    BY <1>1, <1>2 DEF ReplyOK
  <2> QED BY <1>5, <2>6, <2>7 DEF WorkOK
<1> QED BY <1>1, <1>9, DataTaken

(* An advance begins: its source changes lead from the engine's table to   *)
(* the target version.                                                     *)
LEMMA DataAdvances ==
    ASSUME TypeInv, LaneInv, DataInv, handleAdvance \/ handleAdvanceStream, reqs[1].id = client.id
    PROVE  DataInv'
<1>1. /\ Handle /\ Head(reqs) = reqs[1] /\ reqs[1] \in Request /\ UNCHANGED client
      /\ \A f \in replies : f.id # client.id
  BY TakenIs DEF Handle
<1>2. PICK b \in BOOLEAN : Advancing(b) /\ reqs[1].method \in {"advance", "advanceStream"}
  BY <1>1 DEF handleAdvance, handleAdvanceStream, Taking
<1>3. work'.pc = "advance" /\ work'.todo = SourceChanges(reqs[1].arg) /\ work'.pending = <<>> /\ UNCHANGED <<replies, eng>>
  BY <1>1, <1>2 DEF Advancing, Idle
<1>4. UNCHANGED <<hist, held, view>>
  BY <1>1, SidecarContext DEF SidecarStep, Work
<1>5. ASSUME TrueData, Sent' = <<>>, RequestOK(reqs[1]) PROVE WorkOK' /\ ReplyOK'
  <2>1. /\ client.pc = "advance" /\ reqs[1].arg = SubSeq(diffs, client.at, client.target - 1)
        /\ held \subseteq eng.pipelines /\ Running /\ eng.source = hist[client.at]
    BY <1>2, <1>5 DEF RequestOK
  <2>2. Path(work'.todo, eng.source, hist[client.target])
    <3>1. /\ hist \in Seq(Table) /\ diffs \in Seq(Diff) /\ Len(hist) = Len(diffs) + 1
          /\ \A i \in DOMAIN diffs : IsChange(hist[i], diffs[i], hist[i + 1])
      BY DEF TypeInv, ReplicaInv
    <3>2. client.at \in DOMAIN hist /\ client.target \in DOMAIN hist /\ client.at <= client.target
      BY <2>1 DEF TypeInv, ClientInv
    <3>3. Path(SourceChanges(SubSeq(diffs, client.at, client.target - 1)), hist[client.at], hist[client.target])
      BY <3>1, <3>2, PathOfChanges
    <3> QED BY <1>3, <2>1, <3>3
  <2>3. Sent' \o work'.pending = <<>>
    BY <1>3, <1>5
  <2>4. \A q \in held : view[q] = Rows(eng.source, q)
    BY <1>5, <2>1 DEF TrueData, ViewOK
  <2>5. ASSUME NEW q \in held
        PROVE  Apply(q, view[q], <<>>) = Rows(eng.source, q) /\ Fit(q, view[q], <<>>)
    <3>1. DOMAIN <<>> = {}
      OBVIOUS
    <3>2. Fit(q, view[q], <<>>)
      BY <3>1 DEF Fit
    <3> QED BY <2>4, <3>2, ApplyNothing
  <2>6. AdvanceOK'
    <3>1. Path(work.todo, eng.source, hist[client.target])'
      BY <1>1, <1>3, <1>4, <2>2 DEF Path
    <3>2. \A q \in held' : /\ Apply(q, view[q], Sent \o work.pending)' = Rows(eng.source, q)'
                           /\ Fit(q, view[q], Sent \o work.pending)'
      BY <1>3, <1>4, <2>3, <2>5 DEF Apply, Fit, Rows
    <3> QED BY <1>1, <1>3, <1>4, <2>1, <3>1, <3>2 DEF AdvanceOK, Running
  <2>7. ReplyOK'
    BY <1>1, <1>3 DEF ReplyOK
  <2> QED BY <1>3, <2>6, <2>7 DEF WorkOK
<1> QED BY <1>1, <1>5, DataTaken

(* The worker takes a request.                                             *)
LEMMA DataHandle ==
    ASSUME TypeInv, LaneInv, RemovalInv, DataInv, Handle
    PROVE  DataInv'
<1>1. /\ Head(reqs) = reqs[1] /\ reqs[1] \in Request /\ UNCHANGED client
      /\ reqs[1].id = client.id \/ reqs[1].id = RemoveId
  BY TakenIs
<1> SUFFICES ASSUME reqs[1].id = client.id PROVE DataInv'
  BY DataRemoval
<1>2. UNCHANGED <<hist, held, view>>
  BY SidecarContext DEF SidecarStep, Work
<1>3. <<>> \in Seq(RowChangeOf) /\ eng \in EngineState /\ eng.source \in SUBSET Row /\ IsFiniteSet(eng.source)
  BY DEF TypeInv, SidecarInv, EngineState
<1>4. CASE handleInit
  <2>1. work' = work /\ Answers(reqs[1].id, "ok", <<>>) /\ eng' = NewEngine /\ reqs[1].method = "init"
    BY <1>1, <1>4 DEF handleInit, Taking
  <2>2. ASSUME RequestOK(reqs[1]) PROVE Settled' /\ Answer(<<>>)
    <3>1. client.pc = "init" /\ client.left = hist[client.target]
      BY <2>1, <2>2 DEF RequestOK
    <3> QED BY <1>1, <1>2, <2>1, <3>1, EnginesAre DEF Settled, Running, Answer
  <2> QED BY <1>3, <2>1, <2>2, DataAnswered
<1>5. CASE Refused
  <2>1. work' = work /\ Answers(reqs[1].id, "error", <<>>)
    BY <1>1, <1>5 DEF Refused
  <2> QED BY <1>3, <2>1, DataAnswered
<1>6. CASE handleLoadRows
  <2>1. /\ work' = work /\ Answers(reqs[1].id, "ok", <<>>) /\ reqs[1].method = "loadRows"
        /\ eng' = [eng EXCEPT !.source = eng.source \cup reqs[1].arg]
    BY <1>1, <1>6 DEF handleLoadRows, Taking, BulkInsert
  <2>2. eng'.open = eng.open /\ eng'.accumulated = eng.accumulated /\ eng'.source = eng.source \cup reqs[1].arg
    BY <1>3, <2>1 DEF EngineState
  <2>3. ASSUME RequestOK(reqs[1]) PROVE Settled' /\ Answer(<<>>)
    <3>1. client.pc = "init" /\ Running /\ eng.source \cup reqs[1].arg \cup client.left = hist[client.target]
      BY <2>1, <2>3 DEF RequestOK
    <3> QED BY <1>1, <1>2, <2>2, <3>1 DEF Settled, Running, Answer
  <2> QED BY <1>3, <2>1, <2>3, DataAnswered
<1>7. CASE handleRemoveQuery
  <2>1. reqs[1].method = "removeQuery"
    BY <1>1, <1>7 DEF handleRemoveQuery, Taking
  <2>2. reqs[1].id = RemoveId /\ client.id # RemoveId
    BY <1>1, <2>1, RequestIs DEF TypeInv, ClientInv, ClientState, RemoveId
  <2> QED BY <2>2
<1>8. CASE handleAddQueries
  <2>1. reqs[1].method = "addQueries"
    BY <1>1, <1>8 DEF handleAddQueries, Taking
  <2>2. PICK S \in SUBSET Query : S = reqs[1].arg
    BY <1>1, <2>1, RequestIs
  <2>3. PICK s : s = AddQueries(S)
    OBVIOUS
  <2>4. /\ work' = work /\ Answers(reqs[1].id, "ok", s)
        /\ eng' = [eng EXCEPT !.pipelines = eng.pipelines \cup S]
    BY <1>1, <1>8, <2>2, <2>3 DEF handleAddQueries, buildAndRegister
  <2>5. /\ eng'.open = eng.open /\ eng'.accumulated = eng.accumulated /\ eng'.source = eng.source
        /\ eng'.pipelines = eng.pipelines \cup S
    BY <1>3, <2>4 DEF EngineState
  <2>6. /\ s \in Seq(RowChangeOf)
        /\ \A q \in S : AddsOf(s, q, Rows(eng.source, q)) /\ \A r \in Rows(eng.source, q) : Adds(s, q, r)
    BY <1>3, <2>3, AddQueriesIs
  <2>7. ASSUME RequestOK(reqs[1]) PROVE Settled' /\ Answer(s)
    <3>1. /\ client.pc = "add" /\ S = client.adding /\ held \subseteq eng.pipelines
          /\ Running /\ eng.source = hist[client.target]
      BY <2>1, <2>2, <2>7 DEF RequestOK
    <3>2. client.left = {} /\ client.target \in DOMAIN hist
      BY <3>1 DEF TypeInv, ClientInv
    <3>3. Settled'
      BY <1>1, <1>2, <2>5, <3>1, <3>2 DEF Settled, Running
    <3>4. \A q \in S : Apply(q, {}, s) = Rows(hist[client.target], q)
      <4> TAKE q \in S
      <4>1. UniqueKeys(Rows(hist[client.target], q))
        BY <3>2, RowsUnique
      <4>2. AddsOf(s, q, Rows(hist[client.target], q)) /\ \A r \in Rows(hist[client.target], q) : Adds(s, q, r)
        BY <2>6, <3>1
      <4> QED BY <2>6, <4>1, <4>2, ApplyAdds
    <3> QED BY <3>1, <3>3, <3>4 DEF Answer, Asked, Before
  <2> QED BY <2>4, <2>6, <2>7, DataAnswered
<1> QED BY <1>4, <1>5, <1>6, <1>7, <1>8, DataHydrates, DataAdvances DEF Handle

(* The worker goes on with the call, and may write a frame.                *)
LEMMA BusyKeeps ==
    ASSUME TypeInv, LaneInv, TrueData, ~client.lossy, SidecarStep, work.pc # "idle", reqs' = reqs,
           wire' = wire \/ \E f : Sends(f) /\ f.status = "ok"
    PROVE  /\ ViewOK' /\ QueueOK' /\ WireOK' /\ NoFalseDrift' /\ EngineOK'
           /\ UNCHANGED <<hist, diffs, client, held, view>> /\ \A r \in replies : r.id # client.id
<1>1. Context /\ UNCHANGED <<hist, diffs, client, held, view>>
  BY SidecarContext
<1>2. /\ Waiting /\ \A i \in DOMAIN reqs : reqs[i].id # client.id
      /\ \A j \in DOMAIN wire : wire[j].id = client.id => wire[j].type = "partial"
      /\ \A r \in replies : r.id # client.id
  BY BusyIs
<1>3. /\ \A i \in DOMAIN wire' : wire'[i].id = client.id => wire'[i].type = "partial"
      /\ \A i \in Mine' : Frames'[i].status = "ok" \/ (i \in Mine /\ Frames'[i] = Frames[i])
  <2>1. CASE wire' = wire
    BY <1>1, <1>2, <2>1 DEF Mine, Frames
  <2>2. ASSUME NEW f, Sends(f), f.status = "ok"
        PROVE  /\ \A i \in DOMAIN wire' : wire'[i].id = client.id => wire'[i].type = "partial"
               /\ \A i \in Mine' : Frames'[i].status = "ok" \/ (i \in Mine /\ Frames'[i] = Frames[i])
    BY <1>1, <1>2, <2>2, WireGrows DEF Sends
  <2> QED BY <2>1, <2>2
<1>4. NoFalseDrift'
  <2> SUFFICES ASSUME NEW i \in Mine' PROVE Frames'[i].status # "drift"
    BY DEF NoFalseDrift
  <2> QED BY <1>3 DEF TrueData, NoFalseDrift
<1>5. ViewOK'
  BY <1>1, Kept DEF TrueData
<1>6. QueueOK' /\ WireOK' /\ EngineOK'
  BY <1>1, <1>2, <1>3 DEF QueueOK, WireOK, EngineOK, Waiting
<1> QED BY <1>1, <1>2, <1>4, <1>5, <1>6

(* The data is right after a step in the middle of a handler if the        *)
(* worker's progress is.                                                   *)
LEMMA DataBusy ==
    ASSUME TypeInv, LaneInv, DataInv, SidecarStep, work.pc # "idle", reqs' = reqs, replies' = replies,
           wire' = wire \/ \E f : Sends(f) /\ f.status = "ok", TrueData => WorkOK'
    PROVE  DataInv'
<1>1. client' = client
  BY SidecarContext
<1> SUFFICES ASSUME TrueData, ~client.lossy PROVE TrueData'
  BY <1>1 DEF DataInv
<1>2. /\ ViewOK' /\ QueueOK' /\ WireOK' /\ NoFalseDrift' /\ EngineOK'
      /\ \A r \in replies : r.id # client.id
  BY BusyKeeps
<1>3. ReplyOK'
  BY <1>1, <1>2 DEF ReplyOK
<1> QED BY <1>2, <1>3 DEF TrueData

(* ... is done with it, and answers.                                       *)
LEMMA DataDone ==
    ASSUME TypeInv, LaneInv, DataInv, SidecarStep, work.pc # "idle", reqs' = reqs, work' = Idle,
           wire' = wire \/ \E f : Sends(f) /\ f.status = "ok",
           NEW st \in {"ok", "error"}, NEW s, Answers(work.id, st, s), NEW t, t = Sent' \o s,
           TrueData /\ st = "ok" => Settled' /\ Answer(t)
    PROVE  DataInv'
<1>1. client' = client /\ Context
  BY SidecarContext
<1> SUFFICES ASSUME TrueData, ~client.lossy PROVE TrueData'
  BY <1>1 DEF DataInv
<1>2. /\ ViewOK' /\ QueueOK' /\ WireOK' /\ NoFalseDrift' /\ EngineOK'
      /\ \A r \in replies : r.id # client.id
  BY BusyKeeps
<1>3. ReplyOK'
  <2> DEFINE f == Reply(work.id, st, s)
  <2>1. f.status = st /\ f.changes = s
    BY ReplyFields
  <2>2. replies' = replies \cup {f}
    BY DEF Answers
  <2> HIDE DEF f
  <2> SUFFICES ASSUME NEW r \in replies', r.id = client'.id
               PROVE  r.status # "drift" /\ (r.status = "ok" => Settled' /\ Answer(Sent \o r.changes)')
    BY DEF ReplyOK
  <2>3. r = f
    BY <1>1, <1>2, <2>2
  <2>4. r.status = st /\ Sent' \o r.changes = t
    BY <2>1, <2>3
  <2>5. ASSUME st = "ok" PROVE Settled' /\ Answer(t)'
    BY <1>1, <2>5, Kept
  <2> QED BY <2>4, <2>5 DEF Answer
<1>4. WorkOK'
  BY IdleIs DEF WorkOK
<1> QED BY <1>2, <1>3, <1>4 DEF TrueData

(* The adds of two sequences in a row.                                     *)
LEMMA AddsConcat ==
    ASSUME NEW s \in Seq(RowChangeOf), NEW t \in Seq(RowChangeOf), NEW q, NEW T
    PROVE  /\ AddsOf(s \o t, q, T) <=> AddsOf(s, q, T) /\ AddsOf(t, q, T)
           /\ \A r : Adds(s \o t, q, r) <=> Adds(s, q, r) \/ Adds(t, q, r)
<1> DEFINE u == s \o t
<1>1. /\ \A i \in DOMAIN s : i \in DOMAIN u /\ u[i] = s[i]
      /\ \A i \in DOMAIN t : Len(s) + i \in DOMAIN u /\ u[Len(s) + i] = t[i]
      /\ \A i \in DOMAIN u : i \in DOMAIN s \/ (i > Len(s) /\ i - Len(s) \in DOMAIN t)
      /\ Len(s) \in Nat /\ DOMAIN u = 1..(Len(s) + Len(t))
  BY ConcatIs
<1> HIDE DEF u
<1>2. \A i \in DOMAIN u : (i \in DOMAIN s /\ u[i] = s[i]) \/ \E k \in DOMAIN t : u[i] = t[k]
  <2> TAKE i \in DOMAIN u
  <2>1. CASE i > Len(s) /\ i - Len(s) \in DOMAIN t
    <3>1. PICK k \in DOMAIN t : k = i - Len(s)
      BY <2>1
    <3>2. Len(s) + k = i
      BY <1>1, <3>1
    <3>3. u[Len(s) + k] = t[k]
      BY <1>1
    <3> QED BY <3>2, <3>3
  <2> QED BY <1>1, <2>1
<1>3. \A k \in DOMAIN t : \E i \in DOMAIN u : u[i] = t[k]
  BY <1>1
<1>4. AddsOf(u, q, T) <=> AddsOf(s, q, T) /\ AddsOf(t, q, T)
  <2>1. AddsOf(u, q, T) => AddsOf(s, q, T)
    BY <1>1 DEF AddsOf
  <2>2. AddsOf(u, q, T) => AddsOf(t, q, T)
    BY <1>3 DEF AddsOf
  <2>3. AddsOf(s, q, T) /\ AddsOf(t, q, T) => AddsOf(u, q, T)
    BY <1>2 DEF AddsOf
  <2> QED BY <2>1, <2>2, <2>3
<1>5. ASSUME NEW r PROVE Adds(u, q, r) <=> Adds(s, q, r) \/ Adds(t, q, r)
  <2>1. Adds(s, q, r) => Adds(u, q, r)
    BY <1>1 DEF Adds
  <2>2. Adds(t, q, r) => Adds(u, q, r)
    BY <1>3 DEF Adds
  <2>3. Adds(u, q, r) => Adds(s, q, r) \/ Adds(t, q, r)
    BY <1>2 DEF Adds
  <2> QED BY <2>1, <2>2, <2>3
<1> QED BY <1>4, <1>5 DEF u

(* A hydration goroutine writes a frame: sent and left together are still  *)
(* all the rows.                                                           *)
LEMMA DataChunk ==
    ASSUME TypeInv, LaneInv, DataInv, NEW q \in Query, HydrateChunk(q)
    PROVE  DataInv'
<1>1. SidecarInv /\ work \in WorkState
  BY DEF TypeInv, SidecarInv
<1>2. PICK a, b \in Seq(RowChangeOf), final \in BOOLEAN : ChunkTaken(q, a, b, final)
  BY <1>1, ChunkIs
<1>3. work.pc = "hydrate" /\ q \in DOMAIN work.parts /\ work.parts[q] \in Part
  BY <1>1, ChunkIs
<1>4. work.parts[q].index \in Nat /\ work.id \in {0, 1} /\ work.id = client.id
  BY <1>1, <1>3, BusyIs DEF Part, WorkState
<1>5. PICK f : f = Partial(work.id, q, a, work.parts[q].index, final, FALSE)
  OBVIOUS
<1>6. f \in Frame
  BY <1>4, <1>5, PartialIs
<1>7. f.type = "partial" /\ f.id = client.id /\ f.status = "ok" /\ f.changes = a
  BY <1>4, <1>5 DEF Partial
<1>8. /\ work.parts[q].left = a \o b /\ (final => b = <<>>) /\ wire' = Append(wire, f)
      /\ work' = [work EXCEPT !.parts = [work.parts EXCEPT
                    ![q] = [left |-> b, index |-> work.parts[q].index + 1, done |-> final]]]
  BY <1>2, <1>5 DEF ChunkTaken
<1>9. UNCHANGED <<hist, diffs, client, held, view, reqs, replies, eng>> /\ Sends(f) /\ SidecarStep
  BY <1>6, <1>7, <1>8 DEF HydrateChunk, HydrateFrame, viewSyncer, replica, Sends, SidecarStep, Work
<1>10. Sent' = Sent \o a /\ Sent \in Seq(RowChangeOf)
  BY <1>6, <1>7, <1>8, <1>9, SentAppend, SentType
<1>11. /\ work'.pc = "hydrate" /\ DOMAIN work'.parts = DOMAIN work.parts
       /\ work'.parts[q].left = b /\ work'.parts[q].done = final
       /\ \A p \in DOMAIN work.parts : p # q => work'.parts[p] = work.parts[p]
  BY <1>1, <1>3, <1>8 DEF WorkState
<1>12. ASSUME HydrateOK PROVE HydrateOK'
  <2>1. PICK s \in Seq(RowChangeOf) : s = Sent
    BY <1>10
  <2>2. PICK u : u = Sent'
    OBVIOUS
  <2>3. u = s \o a
    BY <1>10, <2>1, <2>2
  <2>4. /\ AddsOf(s, q, Rows(eng.source, q)) /\ AddsOf(a \o b, q, Rows(eng.source, q))
        /\ \A i \in DOMAIN (a \o b) : (a \o b)[i].query = q
        /\ \A r \in Rows(eng.source, q) : Adds(s, q, r) \/ Adds(a \o b, q, r)
    BY <1>3, <1>8, <1>12, <2>1 DEF HydrateOK, PartOK
  <2>5. (\A i \in DOMAIN a : a[i].query = q) /\ (\A i \in DOMAIN b : b[i].query = q)
    <3>1. /\ \A i \in DOMAIN a : i \in DOMAIN (a \o b) /\ (a \o b)[i] = a[i]
          /\ \A i \in DOMAIN b : Len(a) + i \in DOMAIN (a \o b) /\ (a \o b)[Len(a) + i] = b[i]
      BY ConcatIs
    <3> QED BY <2>4, <3>1
  <2>6. PartOK(q)'
    <3>1. /\ AddsOf(u, q, Rows(eng.source, q)) /\ AddsOf(b, q, Rows(eng.source, q))
          /\ \A r \in Rows(eng.source, q) : Adds(u, q, r) \/ Adds(b, q, r)
      BY <2>3, <2>4, AddsConcat
    <3>2. Rows(eng.source, q)' = Rows(eng.source, q)
      BY <1>9 DEF Rows
    <3>3. AddsOf(Sent, q, Rows(eng.source, q))' /\ AddsOf(work.parts[q].left, q, Rows(eng.source, q))'
      BY <1>11, <2>2, <3>1, <3>2 DEF AddsOf
    <3>4. \A r \in Rows(eng.source, q)' : Adds(Sent, q, r)' \/ Adds(work.parts[q].left, q, r)'
      BY <1>11, <2>2, <3>1, <3>2 DEF Adds
    <3> QED BY <1>8, <1>11, <2>5, <3>3, <3>4 DEF PartOK
  <2>7. ASSUME NEW p \in DOMAIN work.parts, p # q PROVE PartOK(p)'
    <3>0. PICK left : left = work.parts[p].left
      OBVIOUS
    <3>1. /\ AddsOf(s, p, Rows(eng.source, p)) /\ AddsOf(left, p, Rows(eng.source, p))
          /\ \A i \in DOMAIN left : left[i].query = p
          /\ \A r \in Rows(eng.source, p) : Adds(s, p, r) \/ Adds(left, p, r)
          /\ work.parts[p].done => left = <<>>
      BY <1>12, <2>1, <3>0 DEF HydrateOK, PartOK
    <3>2. AddsOf(a, p, Rows(eng.source, p))
      BY <2>5, <2>7 DEF AddsOf
    <3>3. AddsOf(u, p, Rows(eng.source, p)) /\ \A r \in Rows(eng.source, p) : Adds(u, p, r) \/ Adds(left, p, r)
      BY <2>3, <3>1, <3>2, AddsConcat
    <3>4. Rows(eng.source, p)' = Rows(eng.source, p)
      BY <1>9 DEF Rows
    <3>5. work'.parts[p].left = left /\ work'.parts[p].done = work.parts[p].done
      BY <1>11, <2>7, <3>0
    <3>6. AddsOf(Sent, p, Rows(eng.source, p))' /\ AddsOf(work.parts[p].left, p, Rows(eng.source, p))'
      BY <2>2, <3>1, <3>3, <3>4, <3>5 DEF AddsOf
    <3>7. \A r \in Rows(eng.source, p)' : Adds(Sent, p, r)' \/ Adds(work.parts[p].left, p, r)'
      BY <2>2, <3>3, <3>4, <3>5 DEF Adds
    <3> QED BY <3>1, <3>5, <3>6, <3>7 DEF PartOK
  <2>8. Settled' /\ Asked' = Asked /\ client'.pc = client.pc
    BY <1>9, <1>12 DEF HydrateOK, Settled, Running, Asked
  <2> QED BY <1>11, <1>12, <2>6, <2>7, <2>8 DEF HydrateOK
<1>13. TrueData => WorkOK'
  BY <1>3, <1>11, <1>12 DEF TrueData, WorkOK
<1> QED BY <1>3, <1>7, <1>9, <1>13, DataBusy

(* wg.Wait: every goroutine has sent all its rows.                         *)
LEMMA DataHydrated ==
    ASSUME TypeInv, LaneInv, DataInv, HydrateDone
    PROVE  DataInv'
<1>1. /\ work.pc = "hydrate" /\ \A q \in DOMAIN work.parts : work.parts[q].done
      /\ Answers(work.id, "ok", <<>>) /\ work' = Idle /\ reqs' = reqs /\ wire' = wire
      /\ UNCHANGED <<hist, diffs, client, held, view, eng>> /\ SidecarStep
  BY DEF HydrateDone, viewSyncer, replica, SidecarStep, Work
<1>2. Frames' = Frames
  BY <1>1 DEF Frames
<1>3. Sent' = Sent /\ Sent \in Seq(RowChangeOf)
  BY <1>2, SentSame, SentType
<1>4. PICK t \in Seq(RowChangeOf) : t = Sent
  BY <1>3
<1>5. t = Sent' \o <<>>
  BY <1>3, <1>4
<1>6. ASSUME TrueData PROVE Settled' /\ Answer(t)
  <2>1. HydrateOK
    BY <1>1, <1>6 DEF TrueData, WorkOK
  <2>2. client.pc \in {"rehydrate", "add"} /\ Settled /\ client.left = {} /\ client.target \in DOMAIN hist
    BY <2>1 DEF HydrateOK, TypeInv, ClientInv
  <2>3. eng.source = hist[client.target] /\ Settled'
    BY <1>1, <2>2 DEF Settled, Running
  <2>4. ASSUME NEW q \in Asked PROVE Apply(q, {}, t) = Rows(hist[client.target], q)
    <3>1. q \in DOMAIN work.parts /\ PartOK(q)
      BY <2>1 DEF HydrateOK
    <3>2. work.parts[q].left = <<>>
      BY <1>1, <3>1 DEF PartOK
    <3>3. AddsOf(t, q, Rows(eng.source, q)) /\ \A r \in Rows(eng.source, q) : Adds(t, q, r)
      BY <1>4, <3>1, <3>2 DEF PartOK, Adds
    <3>4. UniqueKeys(Rows(eng.source, q))
      BY <2>2, <2>3, RowsUnique
    <3> QED BY <2>3, <3>3, <3>4, ApplyAdds
  <2> QED BY <2>2, <2>3, <2>4 DEF Answer, Before
<1> QED BY <1>1, <1>5, <1>6, DataDone

(* One source change is pushed: sent, held back and put out together lead  *)
(* to the table after it, whether or not a frame was full.                 *)
LEMMA DataPush ==
    ASSUME TypeInv, LaneInv, DataInv, Push
    PROVE  DataInv'
<1>1. SidecarInv /\ work \in WorkState /\ eng \in EngineState
  BY DEF TypeInv, SidecarInv
<1>2. work.pc = "advance" /\ work.todo # <<>> /\ Head(work.todo) \in SourceChange /\ UNCHANGED <<replies, reqs>>
  BY <1>1, PushIs
<1>3. PICK s \in Seq(RowChangeOf), full \in BOOLEAN :
        s = work.pending \o (eng.accumulated \o Output(eng.pipelines, Head(work.todo))) /\ Pushed(s, full)
  BY <1>1, PushIs
<1>4. UNCHANGED <<hist, diffs, client, held, view>> /\ SidecarStep
  BY DEF Push, viewSyncer, replica, SidecarStep, Work
<1>5. PICK sc \in SourceChange : sc = Head(work.todo)
  BY <1>2
<1>6. PICK S \in SUBSET Query, p \in Seq(RowChangeOf), acc \in Seq(RowChangeOf) :
        S = eng.pipelines /\ p = work.pending /\ acc = eng.accumulated
  BY <1>1 DEF EngineState, WorkState
<1>7. PICK o \in Seq(RowChangeOf) : o = Output(S, sc) /\ s = p \o (acc \o o)
  BY <1>3, <1>5, <1>6, OutputIs
<1>8. work.index \in Nat /\ work.id \in {0, 1} /\ work.id = client.id
  BY <1>1, <1>2, BusyIs DEF WorkState
<1>9. PICK f : f = Partial(work.id, NoQuery, s, work.index, FALSE, FALSE)
  OBVIOUS
<1>10. f \in Frame
  BY <1>8, <1>9, PartialIs
<1>11. f.type = "partial" /\ f.id = client.id /\ f.status = "ok" /\ f.changes = s
  BY <1>8, <1>9 DEF Partial
<1>12. wire' = IF full THEN Append(wire, f) ELSE wire
  BY <1>3, <1>9 DEF Pushed
<1>13. /\ work'.pc = "advance" /\ work'.todo = Tail(work.todo) /\ work'.pending = IF full THEN <<>> ELSE s
       /\ eng'.open = eng.open /\ eng'.source = writeChange(eng.source, sc) /\ eng'.accumulated = <<>>
       /\ eng'.pipelines = S
  BY <1>1, <1>2, <1>3, <1>5, <1>6 DEF Pushed, WorkState, EngineState
<1>14. PICK t \in Seq(RowChangeOf) : t = Sent
  BY SentType
<1>15. Sent' \o work'.pending = t \o s
  <2>1. CASE full
    <3>1. Sent' = t \o s
      BY <1>4, <1>10, <1>11, <1>12, <1>14, <2>1, SentAppend
    <3>2. t \o s \in Seq(RowChangeOf) /\ work'.pending = <<>>
      BY <1>13, <2>1
    <3> QED BY <3>1, <3>2
  <2>2. CASE ~full
    <3>1. Frames' = Frames
      BY <1>4, <1>12, <2>2 DEF Frames
    <3> QED BY <1>13, <1>14, <2>2, <3>1, SentSame
  <2> QED BY <2>1, <2>2
<1>16. ASSUME AdvanceOK PROVE AdvanceOK'
  <2>1. /\ client.pc = "advance" /\ eng.open /\ acc = <<>> /\ held \subseteq S
        /\ Path(work.todo, eng.source, hist[client.target])
        /\ \A q \in held : Apply(q, view[q], t \o p) = Rows(eng.source, q) /\ Fit(q, view[q], t \o p)
    BY <1>6, <1>14, <1>16 DEF AdvanceOK, Running
  <2>2. work.todo \in Seq(SourceChange)
    BY <1>1 DEF WorkState
  <2>3. /\ UniqueKeys(eng.source) /\ Allowed(eng.source, sc)
        /\ Path(Tail(work.todo), writeChange(eng.source, sc), hist[client.target])
    BY <1>2, <1>5, <2>1, <2>2, PathStep
  <2>4. t \o s = (t \o p) \o o /\ t \o p \in Seq(RowChangeOf)
    BY <1>7, <2>1
  <2>5. PICK u \in Seq(RowChangeOf) : u = t \o p
    BY <2>4
  <2>6. ASSUME NEW q \in held
        PROVE  /\ Apply(q, view[q], t \o s) = Rows(writeChange(eng.source, sc), q)
               /\ Fit(q, view[q], t \o s)
    <3>1. q \in S /\ Apply(q, view[q], u) = Rows(eng.source, q) /\ Fit(q, view[q], u) /\ t \o s = u \o Output(S, sc)
      BY <1>6, <1>7, <2>1, <2>4, <2>5
    <3> QED BY <2>3, <3>1, PushApplies, PushFits
  <2>7. Path(work.todo, eng.source, hist[client.target])'
    BY <1>4, <1>13, <2>3 DEF Path
  <2>8. \A q \in held' : /\ Apply(q, view[q], Sent \o work.pending)' = Rows(eng.source, q)'
                         /\ Fit(q, view[q], Sent \o work.pending)'
    <3>1. PICK v, T : v = t \o s /\ T = writeChange(eng.source, sc)
      OBVIOUS
    <3>2. /\ Sent' \o work'.pending = v /\ eng'.source = T /\ held' = held /\ view' = view
          /\ \A q \in held : Apply(q, view[q], v) = Rows(T, q) /\ Fit(q, view[q], v)
      BY <1>4, <1>13, <1>15, <2>6, <3>1
    <3> TAKE q \in held'
    <3>3. Apply(q, view'[q], v) = Rows(T, q) /\ Fit(q, view'[q], v)
      BY <3>2
    <3>4. Rows(eng.source, q)' = Rows(T, q)
      BY <3>2 DEF Rows
    <3>5. Apply(q, view[q], Sent \o work.pending)' = Apply(q, view'[q], v)
      BY <3>2 DEF Apply
    <3>6. Fit(q, view[q], Sent \o work.pending)' <=> Fit(q, view'[q], v)
      BY <3>2 DEF Fit, Apply
    <3> QED BY <3>3, <3>4, <3>5, <3>6
  <2> QED BY <1>4, <1>13, <2>1, <2>7, <2>8 DEF AdvanceOK, Running
<1>17. TrueData => WorkOK'
  BY <1>2, <1>13, <1>16 DEF TrueData, WorkOK
<1>18. wire' = wire \/ (Sends(f) /\ f.status = "ok")
  BY <1>10, <1>11, <1>12 DEF Sends
<1> QED BY <1>2, <1>4, <1>17, <1>18, DataBusy

(* An advance that was told in order does not drift.                       *)
LEMMA NoDrift ==
    ASSUME TypeInv, DataInv, ~client.lossy, work.pc = "advance", work.todo # <<>>
    PROVE  ~Drifted(eng.source, Head(work.todo))
<1>1. work.todo \in Seq(SourceChange) /\ eng.source \in SUBSET Row
  BY DEF TypeInv, SidecarInv, WorkState, EngineState
<1>2. Path(work.todo, eng.source, hist[client.target])
  BY DEF DataInv, TrueData, WorkOK, AdvanceOK
<1>3. Allowed(eng.source, Head(work.todo)) /\ Head(work.todo) \in SourceChange
  BY <1>1, <1>2, PathStep
<1> QED BY <1>1, <1>3, AllowedNoDrift

(* The advance ends at the target version, and all of it was sent.         *)
LEMMA DataAdvanced ==
    ASSUME TypeInv, LaneInv, DataInv, AdvanceDone
    PROVE  DataInv'
<1>1. /\ work.pc = "advance" /\ work.todo = <<>> /\ Finish(FALSE, work.pending)
      /\ UNCHANGED <<hist, diffs, client, held, view, reqs, eng>> /\ work' = Idle /\ SidecarStep
  BY DEF AdvanceDone, Finish, viewSyncer, replica, SidecarStep, Work
<1>2. work.index \in Nat /\ work.id \in {0, 1} /\ work.id = client.id /\ work.pending \in Seq(RowChangeOf)
      /\ eng.source \in SUBSET Row
  BY <1>1, BusyIs DEF TypeInv, SidecarInv, WorkState, EngineState
<1>3. PICK p \in Seq(RowChangeOf) : p = work.pending
  BY <1>2
<1>4. PICK f : f = Partial(work.id, NoQuery, p, work.index, TRUE, FALSE)
  OBVIOUS
<1>5. f \in Frame
  BY <1>2, <1>4, PartialIs
<1>6. f.type = "partial" /\ f.id = client.id /\ f.status = "ok" /\ f.changes = p
  BY <1>2, <1>4 DEF Partial
<1>7. PICK t \in Seq(RowChangeOf) : t = Sent \o p
  <2>1. PICK s \in Seq(RowChangeOf) : s = Sent
    BY SentType
  <2>2. s \o p \in Seq(RowChangeOf)
    OBVIOUS
  <2> QED BY <2>1, <2>2
<1>8. ASSUME TrueData PROVE Settled' /\ Answer(t)
  <2>1. /\ client.pc = "advance" /\ Running /\ held \subseteq eng.pipelines
        /\ Path(work.todo, eng.source, hist[client.target])
        /\ \A q \in held : /\ Apply(q, view[q], t) = Rows(eng.source, q)
                           /\ Fit(q, view[q], t)
    BY <1>1, <1>3, <1>7, <1>8 DEF TrueData, WorkOK, AdvanceOK
  <2>2. eng.source = hist[client.target]
    BY <1>1, <1>2, <2>1, PathEnds
  <2>3. client.left = {} /\ client.adding = {}
    BY <2>1 DEF TypeInv, ClientInv
  <2>4. Settled'
    BY <1>1, <2>1, <2>2, <2>3 DEF Settled, Running
  <2> QED BY <2>1, <2>2, <2>4 DEF Answer, Asked, Before
<1>9. CASE work.stream
  <2>1. wire' = Append(wire, f) /\ Answers(work.id, "ok", <<>>)
    BY <1>1, <1>3, <1>4, <1>9 DEF Finish
  <2>2. Sent' = t
    BY <1>1, <1>5, <1>6, <1>7, <2>1, SentAppend
  <2>3. t = Sent' \o <<>> /\ Sends(f)
    BY <1>5, <1>6, <2>1, <2>2 DEF Sends
  <2> QED BY <1>1, <1>6, <1>8, <2>1, <2>3, DataDone
<1>10. CASE ~work.stream
  <2>1. wire' = wire /\ Answers(work.id, "ok", p)
    BY <1>1, <1>3, <1>10 DEF Finish
  <2>2. Frames' = Frames
    BY <1>1, <2>1 DEF Frames
  <2>3. t = Sent' \o p
    BY <1>7, <2>2, SentSame
  <2> QED BY <1>1, <1>8, <2>1, <2>3, DataDone
<1> QED BY <1>9, <1>10

(* An operator panics: an error answers the call, or the process dies.     *)
LEMMA DataPanics ==
    ASSUME TypeInv, LaneInv, DataInv, PushPanics
    PROVE  DataInv'
<1>1. SidecarStep /\ work.pc = "advance"
  BY DEF SidecarStep, PushPanics
<1>2. CASE Dies
  BY <1>1, <1>2, DataDies
<1>3. CASE ~Dies
  <2>1. Answers(work.id, "error", <<>>) /\ work' = Idle /\ UNCHANGED <<reqs, wire>>
    BY <1>3 DEF PushPanics
  <2>2. PICK t : t = Sent' \o <<>>
    OBVIOUS
  <2> QED BY <1>1, <2>1, <2>2, DataDone
<1> QED BY <1>2, <1>3

(* No call and nothing sent in the beginning.                              *)
LEMMA InitData == Init => DataInv
<1> SUFFICES ASSUME Init PROVE TrueData
  BY DEF DataInv
<1>1. client.pc = "reset" /\ client.got = <<>> /\ wire = <<>> /\ replies = {} /\ reqs = <<>> /\ work.pc = "idle"
  BY IdleIs DEF Init
<1>2. DOMAIN wire = {} /\ DOMAIN reqs = {} /\ Frames = <<>>
  BY <1>1 DEF Frames
<1>3. Mine = {}
  BY <1>2 DEF Mine
<1> QED BY <1>1, <1>2, <1>3 DEF TrueData, ViewOK, QueueOK, WorkOK, ReplyOK, WireOK, NoFalseDrift, EngineOK

(* The data: every step.                                                   *)
LEMMA NextData == TypeInv /\ TypeInv' /\ LaneInv /\ RemovalInv /\ FrameInv /\ DataInv /\ [Next]_vars => DataInv'
<1> SUFFICES ASSUME TypeInv, TypeInv', LaneInv, RemovalInv, FrameInv, DataInv, [Next]_vars PROVE DataInv'
  OBVIOUS
<1>1. CASE SidecarStep
  <2>1. CASE AdvanceDrifts
    <3>1. client' = client
      BY <1>1, SidecarContext
    <3>2. client.lossy
      BY <2>1, NoDrift DEF AdvanceDrifts
    <3> QED BY <3>1, <3>2 DEF DataInv
  <2>2. CASE Kill
    BY <1>1, <2>2, DataDies DEF Kill
  <2> QED BY <1>1, <2>1, <2>2, DataHandle, DataChunk, DataHydrated, DataPush, DataAdvanced, DataPanics, DataWrite
          DEF SidecarStep, Work
<1>2. CASE DropAdvance
  <2>1. client'.lossy
    BY <1>2 DEF DropAdvance, TypeInv, ClientInv, ClientState
  <2> QED BY <2>1 DEF DataInv
<1>3. CASE UNCHANGED vars
  <2>1. UNCHANGED <<hist, diffs, client, held, view, wire, replies, reqs, work, eng>>
    BY <1>3 DEF vars, replica, viewSyncer, sidecar
  <2>2. Frames' = Frames /\ Mine' = Mine /\ (Connected' <=> Connected) /\ Context
    BY <2>1 DEF Frames, Mine, Connected, Context
  <2>3. Sent' = Sent
    BY <2>2, SentSame
  <2> QED BY <2>1, <2>2, <2>3, DataKept
<1>4. CASE Read
  BY <1>4, DataReadOther, DataReadPartial, DataReadEnd DEF Read
<1>5. CASE ClientStep /\ ~Read /\ ~DropAdvance
  BY <1>5, DataCall, DataRemove DEF ClientStep
<1> QED BY <1>1, <1>2, <1>3, <1>4, <1>5, DataReplica, Steps

(* The inductive invariant: types, one call at a time, removals, frames    *)
(* and data.                                                               *)
LEMMA Inductive == Spec => []IInv
<1>1. Init => IInv
  BY InitTypeInv, InitLane, InitRemoval, InitFrame, InitData DEF IInv
<1>2. IInv /\ [Next]_vars => IInv'
  BY NextTypeInv, NextLane, NextRemoval, NextFrame, NextData DEF IInv
<1> QED BY <1>1, <1>2, PTL DEF Spec

(* NoFalseDrift for every table, query and bound: unless an advance was    *)
(* dropped in a reconnect, MemorySource.genPush finds every row it is told *)
(* of, whatever the interleaving of frames, panics, kills and removals     *)
(* (ivm/drift.go, ivm/memory_source.go).                                   *)
THEOREM DriftIsReal == Spec => []NoFalseDrift
<1>1. IInv => NoFalseDrift
  BY DEF IInv, DataInv, TrueData, NoFalseDrift
<1> QED BY <1>1, Inductive, PTL

(* ChangesFit for every table, query and bound: the row changes of a       *)
(* successful advance, plain or in frames, fit the rows the client holds   *)
(* one after the other; nothing of a failed advance is left in the         *)
(* streamer (engine.go Advance and AdvanceStream, streamer.go).            *)
THEOREM AnswersFit == Spec => []ChangesFit
<1>1. IInv => ChangesFit
  BY DataFits DEF IInv
<1> QED BY <1>1, Inductive, PTL

-----------------------------------------------------------------------------
(* The refinement.                                                         *)

LEMMA PromiseSame ==
    ASSUME UNCHANGED <<hist, held, view, client.at, Mode>>
    PROVE  UNCHANGED Promise!vars
  BY DEF Promise!vars

(* The beginning is one of ViewSync.                                       *)
LEMMA PromiseInit == Init => Promise!Init
<1> SUFFICES ASSUME Init PROVE Promise!Init
  OBVIOUS
<1>1. Len(hist) = 1 /\ held = {} /\ client.at = 1 /\ client.pc = "reset"
  BY DEF Init
<1>2. Mode = "reset"
  BY <1>1 DEF Mode
<1>3. [q \in held |-> view[q]] = Promise!Views(1, {})
  BY <1>1 DEF Promise!Views
<1> QED BY <1>1, <1>2, <1>3 DEF Promise!Init

(* A new version of the replica is a Commit.                               *)
LEMMA PromiseCommit ==
    ASSUME TypeInv, ReplicaStep
    PROVE  Promise!Commit
<1>1. UNCHANGED <<client, held, view>>
  BY ReplicaFrame
<1>2. PICK T : hist' = Append(hist, T)
  BY DEF ReplicaStep, Put, Delete, CommitVersion
<1>3. hist \in Seq(Table)
  BY DEF TypeInv, ReplicaInv
<1>4. Len(hist') = Len(hist) + 1 /\ SubSeq(hist', 1, Len(hist)) = hist
  BY <1>2, <1>3
<1>5. Mode' = Mode
  BY <1>1 DEF Mode
<1> QED BY <1>1, <1>4, <1>5 DEF Promise!Commit

(* A call changes nothing ViewSync sees.                                   *)
LEMMA PromiseCall ==
    ASSUME TypeInv, Call
    PROVE  UNCHANGED Promise!vars
<1>1. UNCHANGED <<hist, held, view, client.at>> /\ client \in ClientState
  BY CallIs, ClientFrame DEF ClientStep, replica, TypeInv, ClientInv
<1>2. Mode' = Mode
  BY <1>1 DEF Mode, Call, CallInit, CallLoadRows, CallRehydrate, CallAddQueries, CallAdvance, Calls, ClientState
<1> QED BY <1>1, <1>2, PromiseSame

(* The removal of a query is one of ViewSync.                              *)
LEMMA PromiseRemove ==
    ASSUME NEW q \in Query, RemoveQuery(q)
    PROVE  Promise!RemoveQuery
<1>1. UNCHANGED <<hist, client>> /\ q \in held /\ held' = held \ {q} /\ view' = [view EXCEPT ![q] = {}]
  BY DEF RemoveQuery, replica
<1>2. Mode' = Mode
  BY <1>1 DEF Mode
<1>3. [p \in held' |-> view'[p]] = [p \in held' |-> [x \in held |-> view[x]][p]]
  BY <1>1
<1> QED BY <1>1, <1>2, <1>3 DEF Promise!RemoveQuery

(* A dropped advance is one of ViewSync.                                   *)
LEMMA PromiseDrop ==
    ASSUME TypeInv, DropAdvance
    PROVE  Promise!DropAdvance
<1>1. UNCHANGED <<hist, held, view>> /\ client.pc = "idle" /\ client \in ClientState
      /\ client' = [client EXCEPT !.at = Len(hist), !.lossy = TRUE]
  BY DEF DropAdvance, replica, TypeInv, ClientInv
<1>2. client'.pc = "idle" /\ client'.at = Len(hist) /\ client'.lossy
  BY <1>1 DEF ClientState
<1> QED BY <1>1, <1>2 DEF Promise!DropAdvance, Mode

(* The answer of a call moves the client to a version, or nothing is       *)
(* promised.                                                               *)
LEMMA PromiseEnd ==
    ASSUME TypeInv, TypeInv', LaneInv, DataInv',
           ReadFailure \/ ReadLoaded \/ ReadRehydrated \/ ReadAdded \/ ReadAdvanced
    PROVE  [Promise!Next]_(Promise!vars)
<1>1. client \in ClientState /\ hist' = hist /\ Len(hist) \in Nat /\ hist \in Seq(Table)
  BY EndIs, WireTail DEF TypeInv, ClientInv, ReplicaInv
<1>2. client.at \in Nat /\ client.target \in Nat /\ client.at <= Len(hist) /\ client.target <= Len(hist)
  BY <1>1 DEF TypeInv, ClientInv
<1>3. CASE ReadFailure
  <2>1. client'.pc = "reset" /\ client'.at = client.at /\ UNCHANGED <<held, view>>
    BY <1>1, <1>3 DEF ReadFailure, ClientState
  <2> QED BY <1>1, <2>1 DEF Promise!Fail, Promise!Next, Mode
<1>4. CASE ReadLoaded
  <2>1. client.pc = "init" /\ client'.pc = "load" /\ client'.at = client.at /\ UNCHANGED <<held, view>>
    BY <1>1, <1>4 DEF ReadLoaded, ReadOk, ClientState
  <2>2. Mode' = Mode
    BY <2>1 DEF Mode
  <2> QED BY <1>1, <2>1, <2>2, PromiseSame
<1>5. CASE ReadRehydrated
  <2>1. client.pc = "rehydrate" /\ client'.pc = "idle" /\ client'.at = client.target /\ held' = held
        /\ client'.lossy = client.lossy
    BY <1>1, <1>5 DEF ReadRehydrated, ReadOk, ClientState
  <2>2. ~client.lossy /\ client.at <= client.target
    BY <2>1 DEF TypeInv, ClientInv
  <2>3. Mode = "reset" /\ Mode' = "live"
    BY <2>1, <2>2 DEF Mode
  <2>4. [q \in held |-> view'[q]] = Promise!Views(client.target, held)
    BY <1>1, <2>1, <2>2 DEF DataInv, TrueData, ViewOK, Rows, Promise!Views, Promise!Rows
  <2>5. client.target \in client.at..Len(hist)
    BY <1>2, <2>2
  <2> QED BY <1>1, <2>1, <2>3, <2>4, <2>5 DEF Promise!Resync, Promise!Next
<1>6. CASE ReadAdded
  <2>1. client.pc = "add" /\ client'.pc = "idle" /\ client'.at = client.at /\ held' = held \cup client.adding
        /\ client'.lossy = client.lossy /\ client.adding \in SUBSET Query
    BY <1>1, <1>6 DEF ReadAdded, ReadOk, ClientState
  <2>2. CASE client.lossy
    <3>1. Mode = "lossy" /\ Mode' = "lossy" /\ client.at \in client.at..Len(hist)
      BY <1>1, <1>2, <2>1, <2>2 DEF Mode
    <3> QED BY <1>1, <2>1, <3>1 DEF Promise!Unpromised, Promise!Next
  <2>3. CASE ~client.lossy
    <3>1. Mode = "live" /\ Mode' = "live"
      BY <2>1, <2>3 DEF Mode
    <3>2. [q \in held' |-> view'[q]] = Promise!Views(client.at, held')
      BY <1>1, <2>1, <2>3 DEF DataInv, TrueData, ViewOK, Rows, Promise!Views, Promise!Rows
    <3> QED BY <1>1, <2>1, <3>1, <3>2 DEF Promise!AddQueries, Promise!Next
  <2> QED BY <2>2, <2>3
<1>7. CASE ReadAdvanced
  <2>1. client.pc = "advance" /\ client'.pc = "idle" /\ client'.at = client.target /\ held' = held
        /\ client'.lossy = client.lossy
    BY <1>1, <1>7 DEF ReadAdvanced, ReadOk, ClientState
  <2>2. client.target \in client.at..Len(hist)
    BY <1>2, <2>1 DEF TypeInv, ClientInv
  <2>3. CASE client.lossy
    <3>1. Mode = "lossy" /\ Mode' = "lossy"
      BY <2>1, <2>3 DEF Mode
    <3> QED BY <1>1, <2>1, <2>2, <3>1 DEF Promise!Unpromised, Promise!Next
  <2>4. CASE ~client.lossy
    <3>1. Mode = "live" /\ Mode' = "live"
      BY <2>1, <2>4 DEF Mode
    <3>2. [q \in held |-> view'[q]] = Promise!Views(client.target, held)
      BY <1>1, <2>1, <2>4 DEF DataInv, TrueData, ViewOK, Rows, Promise!Views, Promise!Rows
    <3> QED BY <1>1, <2>1, <2>2, <3>1, <3>2 DEF Promise!Advance, Promise!Next
  <2> QED BY <2>3, <2>4
<1> QED BY <1>3, <1>4, <1>5, <1>6, <1>7

(* Every step is one of ViewSync, or changes nothing it sees.              *)
LEMMA PromiseNext == IInv /\ IInv' /\ [Next]_vars => [Promise!Next]_(Promise!vars)
<1> SUFFICES ASSUME IInv, IInv', [Next]_vars PROVE [Promise!Next]_(Promise!vars)
  OBVIOUS
<1>0. TypeInv /\ TypeInv' /\ LaneInv /\ DataInv'
  BY DEF IInv
<1>1. CASE SidecarStep \/ UNCHANGED vars
  <2>1. UNCHANGED <<hist, held, view, client>>
    BY <1>1, SidecarContext DEF vars, replica, viewSyncer
  <2>2. Mode' = Mode
    BY <2>1 DEF Mode
  <2> QED BY <2>1, <2>2, PromiseSame
<1>2. CASE ReplicaStep
  BY <1>0, <1>2, PromiseCommit DEF Promise!Next
<1>3. CASE ReadOther \/ ReadPartial
  <2>1. UNCHANGED <<hist, held, view, client.at, client.pc, client.lossy>>
    BY <1>0, <1>3, PartialRead, WireTail DEF ReadOther, viewSyncer
  <2>2. Mode' = Mode
    BY <2>1 DEF Mode
  <2> QED BY <2>1, <2>2, PromiseSame
<1>4. CASE ReadFailure \/ ReadLoaded \/ ReadRehydrated \/ ReadAdded \/ ReadAdvanced
  BY <1>0, <1>4, PromiseEnd
<1>5. CASE Call
  BY <1>0, <1>5, PromiseCall
<1>6. CASE \E q \in Query : RemoveQuery(q)
  BY <1>6, PromiseRemove DEF Promise!Next
<1>7. CASE DropAdvance
  BY <1>0, <1>7, PromiseDrop DEF Promise!Next
<1> QED BY <1>1, <1>2, <1>3, <1>4, <1>5, <1>6, <1>7, Steps DEF ClientStep, Read

(* Implements: one client group, with its frames, drift, panics, kills and *)
(* restarts, refines ViewSync.  The rows the client holds are those of one *)
(* version of the replica, and move to a later one in one step; after a    *)
(* failure they stay until a resynchronisation (drift.go, engine.go,       *)
(* cmd/sidecar/main.go).                                                   *)
THEOREM KeepsItsPromise == Spec => Implements
<1>1. Init => Promise!Init
  BY PromiseInit
<1>2. IInv /\ IInv' /\ [Next]_vars => [Promise!Next]_(Promise!vars)
  BY PromiseNext
<1> QED BY <1>1, <1>2, Inductive, PTL DEF Spec, Implements, Promise!Spec
=============================================================================
