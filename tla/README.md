# go-ivm: models, checks and proofs

go-ivm is an incremental view maintenance engine. A sidecar process keeps, per
client group, an engine with in-memory copies of the tables of a SQLite replica
and the operator trees of the group's queries. A client (TypeScript) loads rows,
adds queries, and then sends the changes of every new snapshot; the engine
pushes each change through the operator trees and returns the changes of the
query results.

This directory holds TLA+ models of the parts of it that are hard to test, the
TLC runs that check them on small instances, and TLAPS proofs for all instances.

    tlc -config MCTake.cfg MCTake        # model-check one run
    tlapm TakeProofs.tla                 # check the proofs of a module

## 1. The system

| part | state | operations | talks to |
|---|---|---|---|
| Sidecar: client groups (`cmd/sidecar/main.go`) | `Server.groups`; per group `mu`, `reqC`, `closed`, `eng`, `initEpoch`, `lastUsedNs` | `getGroup`, read loop and `trySendReq`, `worker`, the RPC handlers, `reapIdleGroups`, `removeGroup`, `closeAll` | one goroutine per connection and per group, the reaper, the signal handler; shares `groups` and the group's mutex |
| Sidecar: connection writer | `outC`, `writeMu` | one goroutine per request in flight, frames of the streaming RPCs | worker, socket |
| Engine (`engine/engine.go`, `streamer.go`) | sources, pipelines, the streamer's accumulated changes | `AddQueries(Stream)`, `RemoveQuery`, `Advance(Stream)`, `Close` | sources (push, fetch), pipelines (output) |
| MemorySource (`ivm/source.go`) | `data`, `connections`, `overlay`, `pushEpoch`, per connection `LastPushedEpoch` | `Connect`, `Disconnect`, `Push`, `Fetch`, `BulkInsert` | pushes to the operators above, which fetch from it while it pushes |
| Parallel push (`ivm/parallel.go`) | the same, from one goroutine per connection | `GenPushParallel` | the same |
| Join (`ivm/join.go`, `join_utils.go`) | `inprogressChildChange`, `inprogressChildChangePosition` | `Fetch`, `pushParent`, `pushChild` | parent and child input, output |
| Take (`ivm/take.go`) | per partition size and bound, `maxBound`, `rowHiddenFromFetch` | `Fetch`, `Push`, hydration | input, output, operator storage |
| Exists, FanOut/FanIn, Skip, Filter (`ivm/`) | Exists: size cache, `inPush`; FanIn: accumulated pushes | `Fetch`, `Push` | input, output |
| Builder (`builder/`) | none; scalar subqueries resolved at build time | one operator tree per query | sources, operators |
| TypeScript client (`client/`) | requests in flight, process status, restart count | RPCs, spawn, restart, stop | sidecar |

PROJECT.json lists every part, also those that are not modelled, with the reason.

**What is hard here.** (a) Operators fetch from below while a change is being
pushed through them, so every operator must answer with what its output has been
told *so far*; the overlay, the epochs, `inprogressChildChange` and
`rowHiddenFromFetch` exist for that. (b) Take has some fifteen paths through one
push, and its stored size and bound must match its output after every sequence
of them. (c) The sidecar's groups are looked up by name again and again while
three other goroutines may discard them. (d) A push can run in parallel over the
connections of one table. (e) Failures half way: an `init` that closes the old
engine and then fails, drift in the middle of a batch, a panic in a goroutine.

**What makes each part correct.** Take: its output is the first LIMIT rows of
each partition, it never panics, and a fetch agrees with the output at any
moment. Source and Join: the same for a join. Client groups: no mixing of two
instances' data in one engine, no use of a closed engine or channel, FIFO order,
every request is answered, nothing leaks. Engine: a stream of frames adds up to
the plain result, and whatever fails, the client never holds a mixture of two
versions of the replica. Exists, FanOut and FanIn, as the builder puts them
together: the output is the rows that satisfy the WHERE. Skip: the output is the
page behind the cursor, and every fetch agrees with it.

## 2. The modules

### Take, MCTake, TakeProofs: the Take operator

`source` is what `input.Fetch` returns; `hasState`, `size`, `bound` and
`maxBound` are the stored take states; `hidden` is `rowHiddenFromFetch`; `view`
is what the output has been told. A row is opaque, with a partition and a rank
in the order of `CompareRows`. The comparator ends with the primary key, so rows
of equal rank are versions of one row. A stored bound is only ever compared, so
the model keeps its rank; 0 is the nil bound.

There is one action per kind of change (`PushAdd`, `PushRemove`, `PushChild`,
`pushEditChange`), with one operator per path of the code; `FinishPush` is the
second half of a push that emits two changes, with either the row hidden
(`pushWithRowHiddenFromFetch`) or the new bound stored late (a refill), as the
code has it; `initialFetch` hydrates a partition. The step between the two
changes of a push is where downstream operators fetch. An edit that changes the
partition key never reaches Take: the builder has the source split it.

### ClientGroup, ClientGroupProofs: the life of one client group

One client-group id. Objects (`ClientGroup` structs) are created by `getGroup`
and thrown away by destroy, reaper and `closeAll`; each has its own queue, mutex,
epoch and worker. A handler first resolves the id (`ResolveGroup`) and then locks
the object it found; these are two steps, as in the code. SIGTERM is three:
`closeAllTakes` empties the map, `closeAllShutsDown` shuts down the group that was in
it, and `ProcessExits` comes later, for the groups of other ids are shut down and
telemetry is flushed first, while read loops and workers go on. A critical section in
which nothing blocks is one step, so the mutex is only ever seen held by a read
loop that waits for room in `reqC`. The streaming handlers also write frames to
the socket while they hold the mutex. That blocks only while the client does not
read, and the client is assumed to read: such a write is part of the handler's one
step, and a client that stops reading for good stalls its group, which is not
modelled. The seven RPCs that change the engine have
the same control (resolve, lock, refuse without an engine, refuse a stale epoch,
work, answer) and are one action, `handleMutating`. A client sends with each
request the epoch its last `init` returned, as the protocol asks for.

Assumptions. A group turns idle only when nobody has business with it
(`Quiet`): the timeout is thirty minutes. The client learns its epoch when the
`init` is handled; a later delivery only makes it send older epochs. Bounds:
requests read, destroys, reaps (`MaxRequests`, `MaxDestroys`, `MaxReaps`); they
also bound the number of objects.

### SelfJoin, MCSelfJoin, SelfJoinProofs: MemorySource, parallel push and Join

A table under a Join of the table with itself, the smallest tree in which the
order of the pushes, the overlay and the epochs matter all at once. A join of
two tables is the case in which no row passes both filters. A change is a pair
of sets, the rows that go and the rows that come, so that ADD, REMOVE and EDIT
are one form. `pushed` holds the connections with the current `LastPushedEpoch`;
with `parallel` both have it before either is pushed, as in `GenPushParallel`.
Whether a table pushes in parallel depends on how many connections it has, those of
other queries included; it is chosen at the start and kept.
`PushChild`, `PushChildNext` and `PushChildEnd` are the loop of
`pushChildChange` over the fetched parents, one emitted change per step.
`PushParentRaces`/`PushParentRaced` are the unsynchronised accesses to the
Join's fields by two goroutines: the field may be read before and again after the
other goroutine resets it, and the outcome is the child stream with the Join's
overlay, or a panic. `view` (`parents`, `pairs`) is what the output has been
told. A change that fails validation panics with `DriftError` before anything is
touched; it is no step here. `Validated` is that check, which looks at primary keys
only; `InStep` is what the changes of an engine in step with the replica also have: the
row that goes is in the table as it is told. What a table that lags behind makes of its
changes is in AdvanceStream.

### ViewSync, AdvanceStream, MCAdvanceStream, AdvanceStreamProofs and its companions: one group end to end

`ViewSync` is the promise, without a sidecar: the client's rows belong to one
version of the replica, all its queries move to a later version in one step, and
a failure costs a resynchronisation and nothing else. After an advance was
dropped in a reconnect (the case `ivm/drift.go` is for) it promises nothing until
the next one.

`AdvanceStream` is the detailed specification: the replica and the view-syncer
(external, as the comments on the RPCs describe it), the connection, the group's
worker with its handlers, the engine and its streamer. `work` is the request
being handled: `Push` is one iteration of the loop of `Advance`/`AdvanceStream`
(push, write, drain the streamer, flush a full frame), `HydrateChunk(q)` one
flush of the goroutine that hydrates query `q`, `HydrateDone` the `wg.Wait`.
`wire` carries partial frames, written at once by the handlers, and replies,
written by a goroutine each (`replies` are the ones that have not got `writeMu`
yet). `eng.accumulated` is what a push that panicked left in the streamer.
`Kill`, `PushPanics` and `DropAdvance` are the faults; a panic in a streaming
handler or in a goroutine of a parallel push ends the process, as nothing recovers
it there. The refinement mapping (`Promise`) is the client's state alone: its rows,
their version, and whether it is live, lossy or resynchronising (`Mode`).

One table, one group and one connection. A version of the replica is a set of rows
with a second unique column, so that one snapshot change can remove a row and
edit or add another. A query is a filter; the operators have modules of their own.
The order in which the queries of one push put out their changes is left out. The
client awaits one call at a time, except that it does not wait for the removal of a
query; so a request can be in the queue behind another.

### Builder, FilterTree, MCFilterTree: the WHERE clause

`Builder` holds the pure functions of `builder/`: predicates with SQL's NULL, the
resolution of scalar subqueries, aliases, the keys whose edits are split, the part
of the WHERE that the source applies, and the chain of Filter, Exists and
FanOut/FanIn made of the rest. They are recursive operators over the condition.

`FilterTree` runs that pipeline: two tables, one join with a Take per subquery,
the chain, the streamer. `parents` and `children` are the tables; a connection
that the child change has not reached sees `prev`. `PushConnection` is one child
connection with its filter, Take and the parents the join fetches;
`PushChildChange` is the push of one parent through the chain (`PushChain`) to the
output. Between two of them, an operator downstream may fetch (`DownstreamFetch`,
`Fetch`): parents not visited yet must appear as they were (`Overlaid`), and an
Exists may answer from its cache (`FilterExists`). `fetched` says which partitions
of a Take have a state: a short-circuited OR leaves others without one, and Take
then drops what is pushed for them. The Take itself is replaced by what `Take`
shows of it. Everything runs on one goroutine. A subquery's WHERE has no subquery
of its own; the joins of related queries come after this chain and are those of
`SelfJoin`.

### Skip, MCSkip, SkipProofs: cursors

One connection of a source with a Skip on it: `MakeComparator`,
`CompareWithPartialBound`, `addPrimaryKeys`, the source's fetch with its overlay,
start, constraint, filter and direction step by step, and Skip's `getStart`, `Fetch`
and `Push`. A row is a record, a cursor a record with fewer fields; NULL is 0, below
every value. `sort` is the order that `completeOrdering` makes of the query's when the
connection is built. A sorted slice is a function from places to rows: a row's place is
how many rows come before it (`getSortedRows`), and a filter over a slice puts together
one sequence per element (`Kept`), so that the prover has a definition for both. A push
has two steps before the write, so that the connection can be
fetched from before and after it has been told. `Precedes` and `AfterCursor` define
the order and the page without a comparator, for the properties to compare with.
`UsualCursor` says for which cursors fetches are right: exclusive ones, those that name
every column of the order, and those whose other columns ascend and include a column of
the primary key. TLC evaluates it on the cursors of both runs.

The operators with a name that says what is wrong with them
(`FetchShowsHidden`, `VisibleToAll`, ...) are faulty variants: PROJECT.json names
for every property a variant under which TLC finds it violated.

## 3. The runs

| run | result | what it shows |
|---|---|---|
| `take` | passes | all six properties of Take over 2 partitions, 5 positions, 2 versions of each row, LIMIT 2 |
| `reinit` | passes | two instances on two connections, failing inits, a queue of one place: engines are not mixed, no closed engine is used, order is kept, while the group object lives |
| `reaper` | passes | two read loops against the reaper and SIGTERM, the process running on after closeAll: no send on a closed channel, no engine that the reaper leaves behind |
| `drain` | passes | liveness: every request is answered and every discarded worker ends, through a destroy and a reap |
| `join` | passes | pushes under a self-join with filters, nulls, rows that are their own children and reordering edits: sequential ones cause no fault and a fetch at any moment matches the output; with parallel ones everything but a row below itself is right |
| `advance` | passes | one group end to end with frames, drift, panics, a killed sidecar and a dropped advance: implements `ViewSync`, the frames keep their contract and no query goes without them, drift is never reported without cause, the client always recovers |
| `filter_tree` | passes | ten WHERE clauses: what the builder makes of them puts out exactly the rows that satisfy them, no assertion fails, and fetches half way through a push agree with the output |
| `skip` | passes | every change of every table of three rows under eighteen orders and cursors: the page is exact, and so is every fetch while a change is being pushed |
| `full_queue` | violated | a full queue deadlocks the read loop and the worker |
| `sigterm` | violated | a handler that has resolved the group when SIGTERM comes stores an open engine in it after its shutdown |
| `or_fetch` | violated | an Exists under an OR answers from its cache for a parent that has not been told yet |
| `skip_partial` | violated | an inclusive cursor on fewer columns than the order and a descending tie-breaker: the fetches of a Take are wrong |

Each violated run checks what a comment in the source says; "findings" in
PROJECT.json quotes it. What `sigterm` violates is kept apart from `NoOrphanEngine`,
which excuses the object that closeAll has taken.

Six more configurations, not among the runs, each reproduce a finding; TLC reports the
property named violated. All but `ClientGroup_late_arrival.cfg` are the other side of a
passing run: they say what it has to leave out, and why.

| configuration | module | property | what happens |
|---|---|---|---|
| `ClientGroup_epoch_reset.cfg` | ClientGroup | `EngineNotMixed` | after a destroy the epochs start at 1 again and a stale one matches (`reinit` has no destroy) |
| `ClientGroup_overtaking.cfg` | ClientGroup | `HandledInOrder` | a destroy lets a later request of a connection overtake an earlier one (the same) |
| `ClientGroup_two_destroys.cfg` | ClientGroup | `NoOrphanEngine` | two destroys leave an open engine in a dead object (`reaper` has no destroy) |
| `ClientGroup_late_arrival.cfg` | ClientGroup | `ReaperSparesUsedGroup` | the reaper destroys a group to which a request has come |
| `SelfJoin_race.cfg` | MCSelfJoin | `ParallelIsSafe` | a parallel push tells the output twice of a row that is its own child (`join` claims `NoFault` of sequential pushes) |
| `FilterTree_scalar.cfg` | MCFilterTree | `ScalarStaysLive` | a scalar subquery is not evaluated again when its row comes (`filter_tree` compares with the value resolved when the query was built) |

**Bounds.** `take`: with LIMIT 2 and five positions a window can be empty,
short, full, and followed by up to three rows, with a row entering, leaving or
moving past either end; the second version of a row lets an edit keep its
position. LIMIT 1, whose branches
for displacement and for edits of the bound row are its own, and every other limit are
covered by the proofs, not by the run.
`reinit`, `reaper`: two read loops and a queue of one place are enough for one
loop to wait for room while the other sends; three or four requests are an init,
one being handled, one queued and one blocked. `drain` has room for all its
requests in the queue: with less, `full_queue` is a counterexample of its
liveness. `join`: three rows give a first, a middle and a last parent of a
changed child; two versions with opposite ranks make edits reorder them.
`advance`: from one row, a change can add, edit, remove or replace a row by another
key; with three versions an advance can carry two changes, so that drift or a panic
can come in the middle, and with frames of two row changes two queries fill one and
leave a rest. One fault and one removal, at any moment, reach every recovery path;
`ParallelThreshold` is two, so a panic meets both kinds of push.
`filter_tree`: two parents that may share a key, one of them with a NULL key in one
version, and three children with `ExistsLimit` 2 (3 in the code), so that the Take of a
subquery overflows. The WHERE clauses cover AND, OR, both nested in each other, both
kinds of EXISTS with and without a WHERE of their own, correlation by the primary key and
by a shared column, two subqueries on one table, flipped and scalar ones.
`skip`: three ids, three sort values with NULL and ties, one constraint column; the
initial states are all tables, so three steps reach every change of every table.

**Deadlock checking.** Off in the ClientGroup runs, where a finite number of
requests ends or a panic ends the process, in `join`, where a panic of a
parallel push ends the behaviour, and in `advance`, where the client may have nothing left to do.

**Refinement.** `advance` checks `Implements`, that every step of AdvanceStream is a
step of ViewSync or leaves the client's state alone. It would fail if a frame were
applied before the end of its call, if the rest of a stream were lost, if the
changes dropped by a drift were missed, or if a panic's residue came with the next
advance. That nothing is wrong with the rows themselves is part of it: ViewSync gives
them as a function of the version.

**Fairness.** `drain`: weak fairness of every read loop once it has
a request, of every worker and of the reaper. The Go scheduler runs every
runnable goroutine, and a mutex or channel operation that stays possible is
eventually performed. No fairness is assumed of clients, of time or of signals.
`advance` (`Resynchronises`): weak fairness of the worker and its goroutines, of the
writers, of the client's socket reader, and of the calls of a resynchronisation that
the client has begun; none of new queries, advances or commits.

## 4. The proofs

`TakeProofs` proves, for every set of rows and partitions, every order and every
limit (0 too), the six properties that the run `take` checks on an instance:
`TypeCorrectness`, `FaultFreedom`, `WindowCorrectness`, `FetchAgreesWithOutput`,
`LimitRespected`, `UnconstrainedFetchIsComplete`. They rest on `TakeAssumption`
alone (a limit, a rank and a partition for every row, and a nil row that is no
row).

None of the properties is inductive: whether the next push panics depends on how
size and bound relate to rows that the output has never seen. The invariant
`Inv` says that for every hydrated partition the stored size is the number of
input rows at or before the bound, that the bound is the rank of a row, and that
nothing lies after it while there is room (`Window`); that the output is those
rows (`ViewInv`); and how the two relate half way through a push, when a row is
still to be added: it is in the input, and either hidden below the stored bound
or the very next row after it (`PendingInv`, `EventualBound`). Lemmas in two
groups carry the proof: how a window changes when one row is added, displaced,
removed, refilled or replaced (`AddWithRoomWindow`, ...), and what one, or two,
pushed changes do to the parts of the invariant (`PushOneStep`,
`PushHiddenStep`, `PushLateStep`). Each action then has one lemma, by its paths.

`ClientGroupProofs` proves, for any number of connections, clients, requests,
destroys and reaps and any queue capacity:

- `TypeCorrectness` and `ChannelSafety` (`NoSendOnClosedChannel`), without further
  assumptions. The invariant adds that a read loop that waits for room holds the
  mutex of its group, which is not closed (`BlockedHoldsMutex`), and that whoever
  works on a request or a group has one (`ReadersBusy`, `WorkersBusy`, ...). It is
  needed because a close and a send are both single steps and only the mutex
  between them keeps them apart.
- `EpochFence` (`EngineNotMixed`) and `ClosedEngineUnused`
  (`NoUseOfClosedEngine`), assuming `OneGroup`: no destroy, no reap, no signal,
  which is what the run `reinit` has too. The invariant says that every epoch a
  client has, or has put into a request, is at most that of the group, and that one
  equal to it belongs to the client whose engine is in the group and open
  (`Fenced`). Without `OneGroup` the first is false: see the findings.
- `RequestOrder` (`HandledInOrder`), also assuming `OneGroup`; a destroy lets a later
  request overtake an earlier one, see the findings. The invariant follows a request
  from its read loop through the queue to the worker: it is in one of these places or
  answered (`NothingLost`), of two requests of a connection the earlier one is ahead
  (`QueueOrdered`, `WorkerAhead`, `ReadersBehind`), and none is answered before an
  earlier one (`AnsweredInOrder`).
- `NoEngineOrphaned` (`NoOrphanEngine`), assuming that no destroy is sent, as in the
  run `reaper`; two destroys can orphan an engine, see the findings. Reaper and
  SIGTERM may come at any moment, and handlers go on after closeAll has returned; a
  group that one of them then makes is in the map again. Excused is the object that
  closeAll took, in which a handler can leave an engine after the shutdown (the run
  `sigterm`): the theorem says that it is the only one. The invariant says that an
  open engine is in a group that is in the map, with the reaper that is about to shut
  it down, or in that object (`OpenIsLive`), that the same holds of the groups that
  handlers are about to lock (`LockedIsLive`), and that nobody works on an idle group
  (`IdleIsUnused`), the only kind the reaper takes: without the latter a handler that
  has resolved a group could give it an engine after the reaper's shutdown.

`SelfJoinProofs` proves, for every table, order, correlation and pair of filters,
the properties of the run `join`, without further assumptions.
`FaultFreedom` (`NoFault`) and `FetchAgreesWithOutput` (`FetchMatchesOutput`) are
about sequential pushes; parallel ones do not keep them, see the findings. For
sequential pushes (`SequentialInv`) the invariant says what the output has been told of
each parent (`Told`): the children before the change while `pushChildChange` has
still to visit it, those a fetch returns otherwise; and that the pairs told are
these (`ViewInv`). It needs which connections have the change at which point of
a push (`Shape`), that the change in the overlay fits the table and that an EDIT
in it keeps the correlated columns, the other EDITs being split (`OverlayInv`,
`RestInv`), and that the parents still to visit are the matching ones after the
position (`TargetsInv`). `Tells` states the pairs as a relation, so that lemmas
on how a set of parents or the children of one parent change (`TellParents`,
`TellEdit`, `TellChildren`) do not depend on the model's state.

`TypeCorrectness` and `OthersStayCorrect` (`OthersCorrect`) hold for both kinds of
push. With parallel ones the two goroutines move independently, and may read each
other's fields of the Join; the invariant `RacingInv` therefore says nothing of a
row under itself, and of everything else says that the output has the parents of the
table before the change or after it, as the parent's goroutine is not done or is, and
under each parent the children of the one table or the other, as the child's goroutine
has still to visit it or not (`OthersTold`, `ChildTable`). It is inductive because the
rows of a change have one primary key (`OneKey`): the children of a changed parent
other than itself are the same in both tables, with the Join's overlay or without
(`OwnChildren`), so it does not matter what the race made of them. A push that
panicked has ended the process; nothing is said after it.

`AdvanceStreamProofs` and `AdvanceStreamImplements` prove, for every set of keys,
values and queries, every start of the replica, every chunk size above 0, every
`ParallelThreshold` and every bound on commits, faults and removals, all the safety
properties of the run `advance` but `NoQueryForgotten`. They rest on `AdvanceStreamAssumption`: tables and
the set of queries are finite, 0 is no key, and a frame holds at least one row change.

- `TypeCorrect` (`TypeOK`) and `FramesInOrder` (`FrameContract`). `TypeInv` adds to the
  types what is in the records by state. `LaneInv` says that a call of the client is in
  one place only: still to be read, being handled, waiting to be written, or written;
  without it a second reply to the same call could not be excluded. `HydrateFrames` and
  `AdvanceFrames` say what has been written while the handler is still at work: for
  every query, or for the advance, frames 0 to n-1, none of them final unless the
  goroutine is done, where n is the counter of the handler.
- `DriftIsReal` (`NoFalseDrift`), `AnswersFit` (`ChangesFit`) and the refinement,
  `KeepsItsPromise` (`Spec => Implements`). `RemovalInv` accounts for the removals that
  the client does not wait for. `DataInv` says what the data must be wherever the call
  is. In the queue, a request fits the engine it will find (`RequestOK`). While it is
  handled, the rows sent and those a goroutine has still to send are the rows of its
  query (`PartOK`), or the changes sent and held back lead from the client's rows to the
  engine's table, and the source changes still to be pushed lead from there to the target
  version by tables that admit them (`AdvanceOK`, `Path`). An answer, waiting for its
  writer or written, leads to the target version (`Answer`). It is claimed while no
  advance has been dropped: after one, ViewSync promises nothing until the next
  resynchronisation, and the theorem says that this is enough. The refinement then has
  one lemma per action: all but the client's own steps and the faults it sees leave its
  state alone.
- `AdvanceStreamLemmas` holds the lemmas on the operators: `Apply` of a concatenation,
  `Fit` of a concatenation, what the source changes of one snapshot change do to a table
  and to a filter of it. `FlattenProofs` holds those on sequences: `SetToSeq` lists a finite set
  without repetition and `FlattenSeq` concatenates. The latter is recursive; its lemmas
  use induction in the form "a set of numbers that has 0 and with every n also n + 1 is
  `Nat`" (`Induction`), which needs no operator as a parameter.

`SkipProofs` proves, for every set of rows, primary key, order, filter and cursor, the
three properties of the run `skip`, the last for usual cursors only. They rest on `SkipAssumption`: rows have a value or
NULL in every column and no NULL in the primary key, and an order, a filter and a cursor
are over these columns and rows.

- `SkipTypeCorrect` (`TypeOK`) and `PageStaysCorrect` (`PageCorrect`). `PageCorrect` is
  not inductive: that a push makes the page of the new table from that of the old needs
  that the change being pushed is one that the table, before it is written, admits
  (`ChangeInv`, `Legal`). The split of an edit, first at the filter and then at the
  cursor, is one lemma: what passes a set of rows is a legal change of the table's part in
  the set, and brings it up to date (`PushIfIs`). The hydration of the initial states is a
  fetch, and needs the lemmas below.
- `FetchStaysRight`: `Spec => [](UsualCursor(query) => FetchAgrees)`. It follows from the
  invariant. A sequence lists a set in an order if it has every element once and no later
  one before an earlier one (`Lists`); sorting by rank, filtering, cutting, reversing and
  inserting list what they should (`RankLists`, `KeptLists`, `PartLists`, `ReverseLists`,
  `InsertLists`). `MakeComparator` and `CompareWithPartialBound` say what `Precedes` says
  in all columns and in those the cursor names (`ComparatorIs`, `PartialBoundIs`), and the
  completed order tells the rows of a table apart because it has the primary key
  (`SortIs`, `TableOrdered`). So the source returns what passes the start, unless its
  overlay drops a row that does (`SourceLists`, `StartFits`). That is the place of the
  hypothesis: the overlay and `getStart` compare with the whole cursor and take a missing
  column for NULL, while the page is cut by the columns that the cursor names; for a usual
  cursor the two agree (`UsualIs`). The proof gave the hypothesis its last part: with the
  primary key among the named columns and a nullable column after them, a fetch that
  starts after a row just edited from NULL leaves out its new version (TLC confirms it).

Only model-checked: `CloseAllShutsEngine` and the other properties of the violated
runs, which are false; `NoQueryForgotten`; all liveness (`EveryRequestAnswered`, `WorkersEnd`,
`Resynchronises`), which is out of the prover's reach; and `FilterTree`, which walks
conditions by recursive operators, which the prover cannot handle.

## 5. What is not modelled, and the plan

Left out for good: framing, msgpack and numeric conversion (bytes, no control),
telemetry, the legacy SQLite table source, the test harness, and the operators
the builder never builds (FlippedJoin, Union). Pure string matching (LIKE) and IN are
not in `evalOp`. The TypeScript client has no part in the frames and the drift
protocol that the sidecar's comments ascribe to it (see the findings), so the
view-syncer of AdvanceStream is the one the comments describe.

Done: Take, ClientGroup, SelfJoin and Skip with proofs of all their safety properties;
AdvanceStream and the abstract ViewSync with the proof that the one implements the
other; Builder and FilterTree.

Next:

1. FilterTree with recursive functions over the conditions in place of recursive
   operators, and then `ViewCorrect` for a chain without OR.
2. SidecarManager: crash, restart delay, stop, requests in flight.
3. A Join of three levels, in which CHILD changes carry a change that is read late,
   and nested subqueries.
4. The proof of `NoQueryForgotten`: that every query asked for has a goroutine follows
   from `DataInv` only while no advance was dropped, so it needs a part of its own.
