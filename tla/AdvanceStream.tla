--------------------------- MODULE AdvanceStream ----------------------------
(***************************************************************************)
(* One client group end to end: the view-syncer (external), its            *)
(* connection, the group's worker with the handlers of cmd/sidecar/main.go *)
(* and the engine (engine/engine.go, engine/streamer.go) over one table.   *)
(*                                                                         *)
(* A version of the replica is a set of rows; the column val is unique, so *)
(* writing a value another row has replaces that row too and the change    *)
(* lists both under prev.  A query is a filter on val.  The connection     *)
(* between the engine and the view-syncer carries partial frames, written  *)
(* by the handlers, and one reply per request, written by a goroutine of   *)
(* its own.  Order between the queries of one push, and between the rows   *)
(* of one hydration, is not modelled: no query's result depends on it.     *)
(*                                                                         *)
(* Faults: the sidecar is killed, an operator panics in the middle of a    *)
(* push, an advance is dropped in a reconnect (see ivm/drift.go).          *)
(*                                                                         *)
(* Init epochs, several groups and the request queue's capacity are in     *)
(* ClientGroup; operators other than filters in Take, SelfJoin and         *)
(* FilterTree.                                                             *)
(*                                                                         *)
(* snapshotToSourceChangesNoEdit, writeChangeOldRow, ResidueKept,          *)
(* HydrateDoneEarly, LastFrameIfRows, FrameIfRows and AdvanceDoneDropsRest *)
(* are faulty variants of the operators they precede: the properties below *)
(* fail with them.                                                         *)
(***************************************************************************)
EXTENDS Naturals, Sequences, FiniteSets, SequencesExt

CONSTANTS Key, Val,           \* primary keys and values of the table
          Start,              \* the tables the replica may begin with
          Query,              \* query ids
          Where,              \* per query: the values its rows may have
          ChunkSize,          \* advanceChunkSize and hydrateChunkSize
          ParallelThreshold,  \* connections from which a push is parallel
          MaxVersions,        \* bound: versions of the replica
          MaxFaults,          \* bound: faults
          MaxRemoves          \* bound: queries removed

Row == [key: Key, val: Val]
NoRow == [key |-> 0, val |-> 0]
Table == {S \in SUBSET Row : \A r, s \in S : r.key = s.key \/ r.val = s.val => r = s}

ASSUME AdvanceStreamAssumption ==
    /\ 0 \notin Key
    /\ Start \subseteq Table /\ \A S \in Start : IsFiniteSet(S)
    /\ IsFiniteSet(Query)
    /\ Where \in [Query -> SUBSET Val]
    /\ ChunkSize \in Nat \ {0}
    /\ ParallelThreshold \in Nat
    /\ MaxVersions \in Nat \ {0} /\ MaxFaults \in Nat /\ MaxRemoves \in Nat

VARIABLES
    hist, diffs,              \* the replica: its versions, the change to each
    client, held, view,       \* the view-syncer: its state, queries and rows
    wire, replies,            \* frames to the client; replies not yet written
    reqs, work,               \* the group's reqC and its worker
    eng,                      \* the group's engine
    faults, removes           \* counters of the bounds

replica == <<hist, diffs>>
viewSyncer == <<client, held, view>>
sidecar == <<replies, reqs, work, eng>>
vars == <<replica, viewSyncer, wire, sidecar, faults, removes>>

(* The worker between requests, and its fields while it runs a handler:    *)
(* the source changes left, the row changes of the open frame, the frames  *)
(* written, and per hydration goroutine the rows left and frames written.  *)
Idle == [pc |-> "idle", id |-> 0, stream |-> FALSE, todo |-> <<>>, pending |-> <<>>,
         index |-> 0, parts |-> <<>>]

NoQuery == "-"
RemoveId == 2
-----------------------------------------------------------------------------
(* Frames.                                                                 *)

Partial(id, q, changes, index, final, drift) ==
    [type |-> "partial", id |-> id, query |-> q, changes |-> changes,
     index |-> index, final |-> final, status |-> IF drift THEN "drift" ELSE "ok"]

Reply(id, status, changes) ==
    [type |-> "reply", id |-> id, query |-> NoQuery, changes |-> changes,
     index |-> 0, final |-> TRUE, status |-> status]

ConnectionClosed == Reply(RemoveId, "closed", <<>>)
Connected == \A i \in DOMAIN wire : wire[i].status # "closed"

Send(method, id, arg) ==
    reqs' = IF Connected THEN Append(reqs, [method |-> method, id |-> id, arg |-> arg])
            ELSE reqs

-----------------------------------------------------------------------------
(* The engine.                                                             *)

primaryKeysMatch(a, b) == a.key = b.key

snapshotToSourceChangesNoEdit(change) ==
    LET others == SetToSeq({p \in change.prev : change.next = NoRow \/ ~primaryKeysMatch(p, change.next)})
    IN  [i \in DOMAIN others |-> [type |-> "remove", row |-> others[i], old |-> NoRow]] \o
        (IF change.next = NoRow THEN <<>> ELSE <<[type |-> "add", row |-> change.next, old |-> NoRow]>>)

(* A snapshot change is an edit of the previous row with the same key, or  *)
(* an add, after the removal of the other previous rows.                   *)
snapshotToSourceChanges(change) ==
    LET next == change.next
        olds == {p \in change.prev : next # NoRow /\ primaryKeysMatch(p, next)}
        others == SetToSeq(change.prev \ olds)
    IN  [i \in DOMAIN others |-> [type |-> "remove", row |-> others[i], old |-> NoRow]] \o
        (IF next = NoRow THEN <<>>
         ELSE IF olds = {} THEN <<[type |-> "add", row |-> next, old |-> NoRow]>>
         ELSE <<[type |-> "edit", row |-> next, old |-> CHOOSE o \in olds : TRUE]>>)

SourceChanges(changes) == FlattenSeq([i \in DOMAIN changes |-> snapshotToSourceChanges(changes[i])])

(* MemorySource.genPush panics with DriftError unless the key is there, or *)
(* for an add unless it is not.                                            *)
has(source, row) == \E r \in source : r.key = row.key
Drifted(source, sc) ==
    CASE sc.type = "add"    -> has(source, sc.row)
      [] sc.type = "remove" -> ~has(source, sc.row)
      [] sc.type = "edit"   -> ~has(source, sc.old)

writeChangeOldRow(source, sc) ==
    CASE sc.type = "add"    -> source \cup {sc.old}
      [] sc.type = "remove" -> {r \in source : r.key # sc.row.key}
      [] sc.type = "edit"   -> {r \in source : r.key # sc.old.key} \cup {sc.row}

writeChange(source, sc) ==
    CASE sc.type = "add"    -> source \cup {sc.row}
      [] sc.type = "remove" -> {r \in source : r.key # sc.row.key}
      [] sc.type = "edit"   -> {r \in source : r.key # sc.old.key} \cup {sc.row}

(* FilterPush and streamChanges: the row change of a source change for a   *)
(* query, if there is one; an edit carries the new row only.               *)
RowChange(type, q, row) == [type |-> type, query |-> q, row |-> row]
RowChanges(q, sc) ==
    LET new == sc.row.val \in Where[q]
        old == sc.old # NoRow /\ sc.old.val \in Where[q]
    IN  CASE sc.type # "edit" /\ new -> {RowChange(sc.type, q, sc.row)}
          [] sc.type = "edit" /\ old /\ new  -> {RowChange("edit", q, sc.row)}
          [] sc.type = "edit" /\ old /\ ~new -> {RowChange("remove", q, sc.old)}
          [] sc.type = "edit" /\ ~old /\ new -> {RowChange("add", q, sc.row)}
          [] OTHER -> {}

(* Accumulate for every query of S; Stream leaves nothing behind.          *)
Output(S, sc) == SetToSeq(UNION {RowChanges(q, sc) : q \in S})

ResidueKept(streamed) == streamed

Residue(streamed) == <<>>

(* hydrateEntry: the rows of a query as adds.                              *)
Hydration(q) == {RowChange("add", q, r) : r \in {r \in eng.source : r.val \in Where[q]}}
hydrateEntry(q) == SetToSeq(Hydration(q))

NewEngine == [open |-> TRUE, source |-> {}, pipelines |-> {}, accumulated |-> <<>>]
NoEngine == [NewEngine EXCEPT !.open = FALSE]

(* BulkInsert, buildAndRegisterLocked (a query with the same id is removed *)
(* first) and removeQueryLocked.                                           *)
BulkInsert(rows) == eng' = [eng EXCEPT !.source = @ \cup rows]
buildAndRegister(S) == eng' = [eng EXCEPT !.pipelines = @ \cup S]
removeQuery(S) == eng' = [eng EXCEPT !.pipelines = @ \ S]

-----------------------------------------------------------------------------
(* The process dies: what was written to the socket can still be read.     *)
Dies ==
    /\ eng' = NoEngine
    /\ reqs' = <<>>
    /\ work' = Idle
    /\ replies' = {}
    /\ wire' = Append(wire, ConnectionClosed)

Kill ==
    /\ faults < MaxFaults /\ faults' = faults + 1
    /\ Connected
    /\ Dies
    /\ UNCHANGED <<replica, viewSyncer, removes>>

-----------------------------------------------------------------------------
(* The worker takes a request and runs its handler.                        *)

Taking(method) ==
    /\ work = Idle
    /\ reqs # <<>>
    /\ Head(reqs).method = method
    /\ reqs' = Tail(reqs)
    /\ UNCHANGED <<replica, viewSyncer, wire, faults, removes>>

Answers(id, status, changes) == replies' = replies \cup {Reply(id, status, changes)}

handleInit ==
    /\ Taking("init")
    /\ eng' = NewEngine
    /\ Answers(Head(reqs).id, "ok", <<>>)
    /\ UNCHANGED work

(* Every other handler answers with an error when there is no engine.      *)
Refused ==
    /\ ~eng.open
    /\ \E m \in {"loadRows", "addQueries", "addQueriesStream", "removeQuery",
                 "advance", "advanceStream"} : Taking(m)
    /\ Answers(Head(reqs).id, "error", <<>>)
    /\ UNCHANGED <<work, eng>>

handleLoadRows ==
    /\ eng.open
    /\ Taking("loadRows")
    /\ BulkInsert(Head(reqs).arg)
    /\ Answers(Head(reqs).id, "ok", <<>>)
    /\ UNCHANGED work

handleRemoveQuery ==
    /\ eng.open
    /\ Taking("removeQuery")
    /\ removeQuery(Head(reqs).arg)
    /\ Answers(Head(reqs).id, "ok", <<>>)
    /\ UNCHANGED work

(* AddQuery and AddQueries: build, hydrate, answer with everything.        *)
AddQueries(S) == SetToSeq(UNION {Hydration(q) : q \in S})

handleAddQueries ==
    /\ eng.open
    /\ Taking("addQueries")
    /\ buildAndRegister(Head(reqs).arg)
    /\ Answers(Head(reqs).id, "ok", AddQueries(Head(reqs).arg))
    /\ UNCHANGED work

(* AddQueriesStream: build, then one goroutine per query.                  *)
AddQueriesStream(S) ==
    [q \in S |-> [left |-> hydrateEntry(q), index |-> 0, done |-> FALSE]]

handleAddQueriesStream ==
    /\ eng.open
    /\ Taking("addQueriesStream")
    /\ buildAndRegister(Head(reqs).arg)
    /\ work' = [Idle EXCEPT !.pc = "hydrate", !.id = Head(reqs).id,
                            !.parts = AddQueriesStream(Head(reqs).arg)]
    /\ UNCHANGED replies

(* A goroutine writes a full frame, or the last one, even an empty one.    *)
LastFrameIfRows(part) == part.left # <<>>

LastFrame(part) == TRUE

FrameIfRows(q, part, n, final) ==
    IF n = 0 THEN wire
    ELSE Append(wire, Partial(work.id, q, SubSeq(part.left, 1, n), part.index, final, FALSE))

HydrateFrame(q, part, n, final) ==
    Append(wire, Partial(work.id, q, SubSeq(part.left, 1, n), part.index, final, FALSE))

HydrateChunk(q) ==
    LET part == work.parts[q]
        full == Len(part.left) >= ChunkSize
        n == IF full THEN ChunkSize ELSE Len(part.left)
    IN  /\ work.pc = "hydrate"
        /\ q \in DOMAIN work.parts /\ ~part.done
        /\ full \/ LastFrame(part)
        /\ wire' = HydrateFrame(q, part, n, ~full)
        /\ work' = [work EXCEPT !.parts[q] = [left |-> SubSeq(part.left, n + 1, Len(part.left)),
                                              index |-> part.index + 1, done |-> ~full]]
        /\ UNCHANGED <<replica, viewSyncer, replies, reqs, eng, faults, removes>>

HydrateDoneEarly ==
    /\ work.pc = "hydrate"
    /\ DOMAIN work.parts # {} => \E q \in DOMAIN work.parts : work.parts[q].done
    /\ Answers(work.id, "ok", <<>>)
    /\ work' = Idle
    /\ UNCHANGED <<replica, viewSyncer, wire, reqs, eng, faults, removes>>

(* wg.Wait, then "done".                                                   *)
HydrateDone ==
    /\ work.pc = "hydrate"
    /\ \A q \in DOMAIN work.parts : work.parts[q].done
    /\ Answers(work.id, "ok", <<>>)
    /\ work' = Idle
    /\ UNCHANGED <<replica, viewSyncer, wire, reqs, eng, faults, removes>>

-----------------------------------------------------------------------------
(* Advance and AdvanceStream.                                              *)

Advancing(stream) ==
    /\ work' = [Idle EXCEPT !.pc = "advance", !.id = Head(reqs).id, !.stream = stream,
                            !.todo = SourceChanges(Head(reqs).arg)]
    /\ UNCHANGED <<replies, eng>>

handleAdvance == eng.open /\ Taking("advance") /\ Advancing(FALSE)

handleAdvanceStream == eng.open /\ Taking("advanceStream") /\ Advancing(TRUE)

(* One source change is pushed, written, and its output drained from the   *)
(* streamer; a frame is flushed once it is full.                           *)
Push ==
    LET sc == Head(work.todo)
        streamed == eng.accumulated \o Output(eng.pipelines, sc)
        pending == work.pending \o streamed
        full == work.stream /\ Len(pending) >= ChunkSize
    IN  /\ work.pc = "advance" /\ work.todo # <<>>
        /\ ~Drifted(eng.source, sc)
        /\ eng' = [eng EXCEPT !.source = writeChange(@, sc), !.accumulated = Residue(streamed)]
        /\ wire' = IF full THEN Append(wire, Partial(work.id, NoQuery, pending, work.index, FALSE, FALSE))
                   ELSE wire
        /\ work' = [work EXCEPT !.todo = Tail(@),
                                !.pending = IF full THEN <<>> ELSE pending,
                                !.index = IF full THEN @ + 1 ELSE @]
        /\ UNCHANGED <<replica, viewSyncer, replies, reqs, faults, removes>>

(* The end of an advance.  A stream ends with a final frame and "done",    *)
(* whether or not it drifted; a plain advance answers with everything, or  *)
(* with rpcCodeDrift.                                                      *)
Finish(drift, changes) ==
    /\ wire' = IF work.stream
               THEN Append(wire, Partial(work.id, NoQuery, changes, work.index, TRUE, drift))
               ELSE wire
    /\ IF work.stream THEN Answers(work.id, "ok", <<>>)
       ELSE Answers(work.id, IF drift THEN "drift" ELSE "ok", changes)
    /\ work' = Idle
    /\ UNCHANGED <<replica, viewSyncer, reqs, faults, removes>>

AdvanceDoneDropsRest ==
    /\ work.pc = "advance" /\ work.todo = <<>>
    /\ Finish(FALSE, IF work.index = 0 THEN work.pending ELSE <<>>)
    /\ UNCHANGED eng

AdvanceDone ==
    /\ work.pc = "advance" /\ work.todo = <<>>
    /\ Finish(FALSE, work.pending)
    /\ UNCHANGED eng

(* DriftError: the changes pushed so far stay in the source, what they put *)
(* out is dropped.                                                         *)
AdvanceDrifts ==
    /\ work.pc = "advance" /\ work.todo # <<>>
    /\ Drifted(eng.source, Head(work.todo))
    /\ Finish(TRUE, <<>>)
    /\ eng' = [eng EXCEPT !.accumulated = Residue(@)]

(* Another panic, after the output of some of the queries.  handleRequest  *)
(* recovers it, but not in a streaming handler nor in a goroutine of a     *)
(* parallel push.                                                          *)
PushPanics ==
    /\ faults < MaxFaults /\ faults' = faults + 1
    /\ work.pc = "advance" /\ work.todo # <<>>
    /\ ~Drifted(eng.source, Head(work.todo))
    /\ IF work.stream \/ Cardinality(eng.pipelines) >= ParallelThreshold
       THEN Dies
       ELSE /\ \E S \in SUBSET eng.pipelines :
                 eng' = [eng EXCEPT !.accumulated = @ \o Output(S, Head(work.todo))]
            /\ Answers(work.id, "error", <<>>)
            /\ work' = Idle
            /\ UNCHANGED <<reqs, wire>>
    /\ UNCHANGED <<replica, viewSyncer, removes>>

(* A writer goroutine has its response and gets writeMu.                   *)
WriteReply ==
    /\ \E r \in replies : replies' = replies \ {r} /\ wire' = Append(wire, r)
    /\ UNCHANGED <<replica, viewSyncer, reqs, work, eng, faults, removes>>

-----------------------------------------------------------------------------
(* The replica (external).                                                 *)

CommitVersion(prev, next) ==
    LET rows == hist[Len(hist)] IN
    /\ Len(hist) < MaxVersions
    /\ hist' = Append(hist, (rows \ prev) \cup ({next} \ {NoRow}))
    /\ diffs' = Append(diffs, [prev |-> prev, next |-> next])
    /\ UNCHANGED <<viewSyncer, wire, sidecar, faults, removes>>

Put(r) ==
    LET rows == hist[Len(hist)] IN
    /\ r \notin rows
    /\ CommitVersion({p \in rows : p.key = r.key \/ p.val = r.val}, r)

Delete(r) ==
    /\ r \in hist[Len(hist)]
    /\ CommitVersion({r}, NoRow)

-----------------------------------------------------------------------------
(* The view-syncer (external).  One call at a time; a query's removal is   *)
(* not awaited.                                                            *)

Calls(method, arg, next) ==
    /\ Send(method, 1 - client.id, arg)
    /\ client' = [next EXCEPT !.id = 1 - @]
    /\ UNCHANGED <<replica, held, view, wire, replies, work, eng, faults, removes>>

CallInit ==
    /\ client.pc = "reset"
    /\ Calls("init", {}, [client EXCEPT !.pc = "init", !.target = Len(hist),
                                        !.left = hist[Len(hist)], !.lossy = FALSE])

CallLoadRows(S) ==
    /\ client.pc = "load"
    /\ S # {} /\ S \subseteq client.left
    /\ Calls("loadRows", S, [client EXCEPT !.pc = "init", !.left = @ \ S])

CallRehydrate ==
    /\ client.pc = "load" /\ client.left = {}
    /\ Calls("addQueriesStream", held, [client EXCEPT !.pc = "rehydrate"])

CallAddQueries(m, S) ==
    /\ client.pc = "idle"
    /\ S # {} /\ S \cap held = {}
    /\ Calls(m, S, [client EXCEPT !.pc = "add", !.adding = S])

CallAdvance(m) ==
    /\ client.pc = "idle" /\ client.at < Len(hist)
    /\ Calls(m, SubSeq(diffs, client.at, Len(hist) - 1),
             [client EXCEPT !.pc = "advance", !.target = Len(hist)])

RemoveQuery(q) ==
    /\ removes < MaxRemoves /\ removes' = removes + 1
    /\ q \in held
    /\ held' = held \ {q}
    /\ view' = [view EXCEPT ![q] = {}]
    /\ Send("removeQuery", RemoveId, {q})
    /\ UNCHANGED <<replica, client, wire, replies, work, eng, faults>>

DropAdvance ==
    /\ faults < MaxFaults /\ faults' = faults + 1
    /\ client.pc = "idle" /\ client.at < Len(hist)
    /\ client' = [client EXCEPT !.at = Len(hist), !.lossy = TRUE]
    /\ UNCHANGED <<replica, held, view, wire, sidecar, removes>>

(* Applying the changes of an answer to the rows of a query: the last      *)
(* change of a key decides.                                                *)
Touches(c, q, row) == c.query = q /\ c.row.key = row.key
Apply(q, rows, changes) ==
    {r \in rows : \A i \in DOMAIN changes : ~Touches(changes[i], q, r)}
    \cup {changes[i].row : i \in {i \in DOMAIN changes :
            /\ changes[i].query = q /\ changes[i].type # "remove"
            /\ \A j \in DOMAIN changes : j > i => ~Touches(changes[j], q, changes[i].row)}}

Changes(frames) == FlattenSeq([i \in DOMAIN frames |-> frames[i].changes])
Received == Changes(Append(client.got, Head(wire)))

Reading ==
    /\ wire # <<>>
    /\ wire' = Tail(wire)
    /\ UNCHANGED <<replica, sidecar, faults, removes>>

Awaited(type) == Head(wire).id = client.id /\ Head(wire).type = type

ReadOther ==
    /\ Reading
    /\ Head(wire).id # client.id /\ Head(wire).status # "closed"
    /\ UNCHANGED viewSyncer

ReadPartial ==
    /\ Reading
    /\ Awaited("partial")
    /\ client' = [client EXCEPT !.got = Append(@, Head(wire))]
    /\ UNCHANGED <<held, view>>

(* An error, a drift or the end of the connection: everything received for *)
(* the call is discarded and the engine is built anew.                     *)
Failed == \/ Head(wire).status # "ok"
          \/ \E i \in DOMAIN client.got : client.got[i].status # "ok"

ReadFailure ==
    /\ Reading
    /\ Awaited("reply") \/ Head(wire).status = "closed"
    /\ Failed
    /\ client' = [client EXCEPT !.pc = "reset", !.got = <<>>, !.adding = {}, !.target = client.at]
    /\ UNCHANGED <<held, view>>

ReadOk(pc) ==
    /\ client.pc = pc
    /\ Reading
    /\ Awaited("reply") /\ ~Failed

ReadLoaded ==
    /\ ReadOk("init")
    /\ client' = [client EXCEPT !.pc = "load"]
    /\ UNCHANGED <<held, view>>

ReadRehydrated ==
    /\ ReadOk("rehydrate")
    /\ client' = [client EXCEPT !.pc = "idle", !.got = <<>>, !.at = client.target]
    /\ view' = [q \in Query |-> IF q \in held THEN Apply(q, {}, Received) ELSE {}]
    /\ UNCHANGED held

ReadAdded ==
    /\ ReadOk("add")
    /\ client' = [client EXCEPT !.pc = "idle", !.got = <<>>, !.adding = {}]
    /\ held' = held \cup client.adding
    /\ view' = [q \in Query |-> IF q \in client.adding THEN Apply(q, {}, Received) ELSE view[q]]

ReadAdvanced ==
    /\ ReadOk("advance")
    /\ client' = [client EXCEPT !.pc = "idle", !.got = <<>>, !.at = client.target]
    /\ view' = [q \in Query |-> IF q \in held THEN Apply(q, view[q], Received) ELSE {}]
    /\ UNCHANGED held

-----------------------------------------------------------------------------
Init ==
    /\ \E S \in Start : hist = <<S>>
    /\ diffs = <<>>
    /\ client = [pc |-> "reset", id |-> 0, at |-> 1, target |-> 1, left |-> {},
                 adding |-> {}, got |-> <<>>, lossy |-> FALSE]
    /\ held = {} /\ view = [q \in Query |-> {}]
    /\ wire = <<>> /\ replies = {} /\ reqs = <<>> /\ work = Idle
    /\ eng = NoEngine
    /\ faults = 0 /\ removes = 0

Handle == \/ handleInit \/ Refused \/ handleLoadRows \/ handleRemoveQuery
          \/ handleAddQueries \/ handleAddQueriesStream
          \/ handleAdvance \/ handleAdvanceStream

Work == \/ Handle
        \/ \E q \in Query : HydrateChunk(q)
        \/ HydrateDone
        \/ Push \/ AdvanceDone \/ AdvanceDrifts

Read == \/ ReadOther \/ ReadPartial \/ ReadFailure
        \/ ReadLoaded \/ ReadRehydrated \/ ReadAdded \/ ReadAdvanced

Call == \/ CallInit
        \/ \E S \in SUBSET Row : CallLoadRows(S)
        \/ CallRehydrate
        \/ \E m \in {"addQueries", "addQueriesStream"}, S \in SUBSET Query : CallAddQueries(m, S)
        \/ \E m \in {"advance", "advanceStream"} : CallAdvance(m)

Next == \/ Work \/ WriteReply \/ Read \/ Call
        \/ \E r \in Row : Put(r) \/ Delete(r)
        \/ \E q \in Query : RemoveQuery(q)
        \/ Kill \/ PushPanics \/ DropAdvance

(* The worker's goroutines, the writers and the read side of the client    *)
(* keep running; the client goes on with a resynchronisation it began.     *)
Resyncs == CallInit \/ (\E S \in SUBSET Row : CallLoadRows(S)) \/ CallRehydrate

Fairness == WF_vars(Work) /\ WF_vars(WriteReply) /\ WF_vars(Read) /\ WF_vars(Resyncs)

Spec == Init /\ [][Next]_vars /\ Fairness

-----------------------------------------------------------------------------
TypeOK ==
    /\ hist \in Seq(Table)
    /\ held \subseteq Query
    /\ view \in [Query -> SUBSET Row]
    /\ client.at \in DOMAIN hist /\ client.target \in DOMAIN hist
    /\ eng.source \subseteq Row /\ eng.pipelines \subseteq Query

Mode == IF client.pc \in {"reset", "init", "load", "rehydrate"} THEN "reset"
        ELSE IF client.lossy THEN "lossy" ELSE "live"

Promise == INSTANCE ViewSync WITH view <- [q \in held |-> view[q]], at <- client.at, mode <- Mode

(* The frames received for the call the client waits for, and those still  *)
(* on the connection; Mine are the places of the call's own.               *)
Frames == client.got \o wire
Mine == {i \in DOMAIN Frames : Frames[i].id = client.id}
Stream(q) == {i \in Mine : Frames[i].type = "partial" /\ Frames[i].query = q}

(* The frame invariants of AdvanceStream and AddQueriesStream: chunkIndex  *)
(* counts up from 0 without a gap, the last frame of a stream and no other *)
(* is final, and the reply comes after all of them.                        *)
FrameContract ==
    /\ \A q \in Query \cup {NoQuery} : \A i \in Stream(q) :
         /\ \A j \in Stream(q) : j < i => Frames[j].index < Frames[i].index /\ ~Frames[j].final
         /\ \A n \in 0..(Frames[i].index - 1) : \E j \in Stream(q) : Frames[j].index = n
    /\ \A i \in Mine : Frames[i].type = "reply" =>
         /\ \A j \in Mine : j <= i
         /\ \A q \in Query \cup {NoQuery} :
              Stream(q) # {} => \E j \in Stream(q) : Frames[j].final

(* No query is forgotten, not one without rows either: the answer to a     *)
(* rehydration has a stream for every query the client still holds, and a  *)
(* streamed answer to new queries has one for each of them (AddQueries     *)
(* answers without streams).                                               *)
NoQueryForgotten ==
    \A i \in Mine : Frames[i].type = "reply" /\ Frames[i].status = "ok" =>
        /\ client.pc = "rehydrate" => \A q \in held : Stream(q) # {}
        /\ client.pc = "add" => \A q, r \in client.adding : Stream(q) # {} => Stream(r) # {}

(* The row changes of a successful advance fit the rows the client holds:  *)
(* no row is added twice, none is removed or edited that is not there.     *)
(* What an advance that failed left in the streamer would not.             *)
ChangesFit ==
    wire # <<>> /\ client.pc = "advance" /\ ~client.lossy /\ Awaited("reply") /\ ~Failed =>
        \A q \in held : \A i \in DOMAIN Received : Received[i].query = q =>
            (has(Apply(q, view[q], SubSeq(Received, 1, i - 1)), Received[i].row)
                <=> Received[i].type # "add")

(* Drift is reported only after an advance was dropped: an advance that is *)
(* told in order never trips MemorySource's checks.                        *)
NoFalseDrift ==
    \A i \in Mine : Frames[i].status = "drift" => client.lossy

(* The client's rows are those of one version, and move to a later one in  *)
(* one step, in spite of frames, drift, panics and restarts.               *)
Implements == Promise!Spec

(* A client that has lost its engine, for whatever reason, gets a new one. *)
Resynchronises == Mode = "reset" ~> Mode # "reset"
=============================================================================
