---------------------------- MODULE ClientGroup ----------------------------
(***************************************************************************)
(* The life of one client group in the sidecar (cmd/sidecar/main.go): the  *)
(* connection read loops that queue its requests, its worker goroutines,   *)
(* the init-epoch fence, destroy, the idle reaper and closeAll.            *)
(*                                                                         *)
(* Server.groups maps the group's id to a ClientGroup object.  Objects are *)
(* created lazily and thrown away, so several can exist for one id: the    *)
(* one in the map and older ones whose workers still drain their queues.   *)
(* Every handler looks the id up again, so a worker may act on an object   *)
(* that is not its own.  Different ids share nothing but the map, so one   *)
(* id is modelled.                                                         *)
(*                                                                         *)
(* A critical section in which nothing blocks is one step.  The group's    *)
(* mutex is therefore held between steps only by a read loop that waits    *)
(* for room in a full request queue.  The streaming handlers write to the  *)
(* socket under the mutex; the client is taken to read what it is sent, so *)
(* they are one step as well.                                              *)
(*                                                                         *)
(* getGroupUnchecked, shutdownGroupLeaksWorker, SendUnbounded,             *)
(* SendWaitsUnlocked, WorkerExitsEarly, handleInitBumpsLast,               *)
(* checkInitEpochOlder and ReaperTrustsSnapshot are faulty variants of the *)
(* operators they precede: the properties below fail with them.            *)
(***************************************************************************)
EXTENDS Naturals, Sequences, FiniteSets

CONSTANTS Conn,         \* connections, one read loop each
          Client,       \* view-syncer instances of this client group
          QueueCap,     \* capacity of reqC (64 in the code)
          MaxRequests,  \* bound: requests read
          MaxDestroys,  \* bound: destroy requests read
          MaxReaps,     \* bound: groups reaped
          InitMayFail,  \* engine.NewEngine may return an error
          Sigterm       \* the process may be told to stop

ASSUME ClientGroupAssumption ==
    /\ 0 \notin Conn
    /\ QueueCap \in Nat \ {0}
    /\ MaxRequests \in Nat /\ MaxDestroys \in Nat /\ MaxReaps \in Nat
    /\ InitMayFail \in BOOLEAN /\ Sigterm \in BOOLEAN

VARIABLES
    group,      \* Server.groups[id]
    created,    \* objects created so far
    mu,         \* per object: the read loop that holds its mutex, or Free
    reqC,       \* per object: the queued requests
    closed,     \* per object: reqC is closed
    eng,        \* per object: its engine
    initEpoch,  \* per object: inits so far
    idle,       \* per object: lastUsedNs is older than groupIdleTimeout
    arrived,    \* per object: a request was queued since it became idle
    log,        \* the requests read, in order
    answered,   \* the requests that have their response
    reader,     \* per connection: what its read loop is doing
    worker,     \* per object: what its worker is doing
    reaper,     \* what the idle reaper is doing
    reaps,      \* groups reaped so far
    closer,     \* what the signal handler is doing
    epoch,      \* per client: the epoch its last init returned, 0 if none
    fault       \* "none", "panic" (a send on a closed channel) or
                \* "closed engine" (an operation on one)

objects == <<mu, reqC, closed, eng, initEpoch>>
vars == <<group, created, objects, idle, arrived, log, answered, reader, worker,
          reaper, reaps, closer, epoch, fault>>

(* Each destroy, each reap and closeAll makes room for one more object.    *)
Object == 1..(MaxDestroys + MaxReaps + 2)
NoGroup == 0
Free == 0
Id == 1..MaxRequests
Method == {"init", "mutate", "destroy"}
Request == [conn: Conn, client: Client, method: Method, epoch: Nat]

(* Engines: whose init made it, whose mutations it took, whether closed.   *)
NoEngine == [owner |-> {}, open |-> FALSE, by |-> {}]

Running == fault = "none" /\ closer.pc # "exited"

-----------------------------------------------------------------------------
(* getGroup returns the object in the map, or creates one.                 *)

getGroupUnchecked(g) ==
    \/ group # NoGroup /\ g = group /\ UNCHANGED <<group, created>>
    \/ /\ g = created + 1 /\ g \in Object
       /\ group' = g
       /\ created' = g

getGroup(g) ==
    IF group # NoGroup
    THEN g = group /\ UNCHANGED <<group, created>>
    ELSE /\ g = created + 1 /\ g \in Object
         /\ group' = g
         /\ created' = g

shutdownGroupLeaksWorker(g) ==
    /\ mu[g] = Free
    /\ eng' = [eng EXCEPT ![g] = NoEngine]
    /\ UNCHANGED <<mu, reqC, closed, initEpoch>>

(* shutdownGroup: mark closed, close reqC, close the engine and drop it;   *)
(* nothing if it is closed already.                                        *)
shutdownGroup(g) ==
    /\ mu[g] = Free
    /\ closed' = [closed EXCEPT ![g] = TRUE]
    /\ eng' = [eng EXCEPT ![g] = IF closed[g] THEN @ ELSE NoEngine]
    /\ UNCHANGED <<mu, reqC, initEpoch>>

-----------------------------------------------------------------------------
(* handleConnection: the read loop.                                        *)

Reading(c)  == reader' = [reader EXCEPT ![c] = [pc |-> "read", group |-> NoGroup, req |-> 0]]

(* A frame is read, decoded, and the group of its id resolved.  A client   *)
(* sends the epoch its init returned with every request.                   *)
ReadRequest(c, k, m) ==
    /\ Running
    /\ reader[c].pc = "read"
    /\ Len(log) < MaxRequests
    /\ m = "destroy" => Cardinality({i \in DOMAIN log : log[i].method = "destroy"}) < MaxDestroys
    /\ log' = Append(log, [conn |-> c, client |-> k, method |-> m, epoch |-> epoch[k]])
    /\ \E g \in Object :
         /\ getGroup(g)
         /\ reader' = [reader EXCEPT ![c] = [pc |-> "send", group |-> g, req |-> Len(log) + 1]]
    /\ UNCHANGED <<objects, idle, arrived, answered, worker, reaper, reaps, closer, epoch, fault>>

Enqueue(c) ==
    LET g == reader[c].group IN
    /\ reqC' = [reqC EXCEPT ![g] = Append(@, reader[c].req)]
    /\ arrived' = [arrived EXCEPT ![g] = TRUE]
    /\ Reading(c)
    /\ UNCHANGED <<closed, eng, initEpoch>>

SendUnbounded(c) ==
    LET g == reader[c].group IN
    /\ mu[g] = Free
    /\ ~closed[g]
    /\ Enqueue(c)
    /\ UNCHANGED <<mu, answered, fault>>

(* trySendReq on a group with room, without room, and on a closed one.     *)
SendNow(c) ==
    LET g == reader[c].group IN
    /\ mu[g] = Free
    /\ ~closed[g]
    /\ Len(reqC[g]) < QueueCap
    /\ Enqueue(c)
    /\ UNCHANGED <<mu, answered, fault>>

SendWaitsUnlocked(c) ==
    LET g == reader[c].group IN
    /\ mu[g] = Free
    /\ ~closed[g]
    /\ Len(reqC[g]) >= QueueCap
    /\ reader' = [reader EXCEPT ![c].pc = "blocked"]
    /\ UNCHANGED <<objects, arrived, answered, fault>>

SendWaits(c) ==
    LET g == reader[c].group IN
    /\ mu[g] = Free
    /\ ~closed[g]
    /\ Len(reqC[g]) >= QueueCap
    /\ mu' = [mu EXCEPT ![g] = c]
    /\ reader' = [reader EXCEPT ![c].pc = "blocked"]
    /\ UNCHANGED <<reqC, closed, eng, initEpoch, arrived, answered, fault>>

SendRefused(c) ==
    LET g == reader[c].group IN
    /\ mu[g] = Free
    /\ closed[g]
    /\ answered' = answered \cup {reader[c].req}
    /\ Reading(c)
    /\ UNCHANGED <<objects, arrived, fault>>

trySendReq(c) ==
    /\ Running
    /\ reader[c].pc = "send"
    /\ SendNow(c) \/ SendWaits(c) \/ SendRefused(c)
    /\ UNCHANGED <<group, created, idle, log, worker, reaper, reaps, closer, epoch>>

(* The blocked send goes through; a close while it waits would panic.      *)
trySendReqResumes(c) ==
    /\ Running
    /\ reader[c].pc = "blocked"
    /\ LET g == reader[c].group IN
       /\ closed[g] \/ Len(reqC[g]) < QueueCap
       /\ IF closed[g] THEN fault' = "panic" ELSE UNCHANGED fault
       /\ mu' = [mu EXCEPT ![g] = Free]
    /\ Enqueue(c)
    /\ UNCHANGED <<group, created, idle, log, answered, worker, reaper, reaps, closer, epoch>>

-----------------------------------------------------------------------------
(* The worker of object g.                                                 *)

Goes(g, pc, t) ==
    worker' = [worker EXCEPT ![g] = [pc |-> pc, group |-> t, req |-> @.req]]

Answer(g) ==
    /\ answered' = answered \cup {worker[g].req}
    /\ worker' = [worker EXCEPT ![g] = [pc |-> "wait", group |-> NoGroup, req |-> 0]]

TheRequest(g) == log[worker[g].req]

DequeueRequest(g) ==
    /\ Running
    /\ worker[g].pc = "wait"
    /\ reqC[g] # <<>>
    /\ reqC' = [reqC EXCEPT ![g] = Tail(@)]
    /\ worker' = [worker EXCEPT ![g] = [pc |-> "handle", group |-> NoGroup, req |-> Head(reqC[g])]]
    /\ idle' = [idle EXCEPT ![g] = FALSE]
    /\ UNCHANGED <<group, created, mu, closed, eng, initEpoch, arrived, log, answered, reader,
                   reaper, reaps, closer, epoch, fault>>

WorkerExitsEarly(g) ==
    /\ Running
    /\ worker[g].pc = "wait"
    /\ closed[g]
    /\ Goes(g, "done", NoGroup)
    /\ UNCHANGED <<group, created, objects, idle, arrived, log, answered, reader,
                   reaper, reaps, closer, epoch, fault>>

(* Ranging over a closed channel first drains what is queued.              *)
WorkerExits(g) ==
    /\ Running
    /\ worker[g].pc = "wait"
    /\ closed[g] /\ reqC[g] = <<>>
    /\ Goes(g, "done", NoGroup)
    /\ UNCHANGED <<group, created, objects, idle, arrived, log, answered, reader,
                   reaper, reaps, closer, epoch, fault>>

(* Every handler but destroy starts with getGroup.                         *)
ResolveGroup(g) ==
    /\ Running
    /\ worker[g].pc = "handle" /\ TheRequest(g).method # "destroy"
    /\ \E t \in Object : getGroup(t) /\ Goes(g, "lock", t)
    /\ UNCHANGED <<objects, idle, arrived, log, answered, reader, reaper, reaps, closer, epoch, fault>>

Handling(g, m) ==
    /\ Running
    /\ worker[g].pc = "lock" /\ TheRequest(g).method = m
    /\ mu[worker[g].group] = Free

handleInitBumpsLast(g) ==
    /\ Handling(g, "init")
    /\ LET t == worker[g].group
           k == TheRequest(g).client
       IN \/ /\ initEpoch' = [initEpoch EXCEPT ![t] = @ + 1]
             /\ eng' = [eng EXCEPT ![t] = [owner |-> {k}, open |-> TRUE, by |-> {}]]
             /\ epoch' = [epoch EXCEPT ![k] = initEpoch[t] + 1]
          \/ /\ InitMayFail
             /\ eng' = [eng EXCEPT ![t].open = FALSE]
             /\ UNCHANGED <<epoch, initEpoch>>
    /\ Answer(g)
    /\ UNCHANGED <<group, created, mu, reqC, closed, idle, arrived, log, reader,
                   reaper, reaps, closer, fault>>

(* init closes the old engine, moves the epoch, then makes the new engine; *)
(* if that fails the closed one stays in place.                            *)
handleInit(g) ==
    /\ Handling(g, "init")
    /\ LET t == worker[g].group
           k == TheRequest(g).client
       IN /\ initEpoch' = [initEpoch EXCEPT ![t] = @ + 1]
          /\ \/ /\ eng' = [eng EXCEPT ![t] = [owner |-> {k}, open |-> TRUE, by |-> {}]]
                /\ epoch' = [epoch EXCEPT ![k] = initEpoch[t] + 1]
             \/ /\ InitMayFail
                /\ eng' = [eng EXCEPT ![t].open = FALSE]
                /\ UNCHANGED epoch
    /\ Answer(g)
    /\ UNCHANGED <<group, created, mu, reqC, closed, idle, arrived, log, reader,
                   reaper, reaps, closer, fault>>

checkInitEpochOlder(t, e) == e <= initEpoch[t]

checkInitEpoch(t, e) == e = initEpoch[t]

(* loadRows, addQuery, addQueries, addQueriesStream, removeQuery, advance  *)
(* and advanceStream: refused without an engine or on a stale epoch.       *)
handleMutating(g) ==
    /\ Handling(g, "mutate")
    /\ LET t == worker[g].group
           r == TheRequest(g)
       IN IF eng[t] = NoEngine \/ ~checkInitEpoch(t, r.epoch)
          THEN UNCHANGED <<eng, fault>>
          ELSE /\ eng' = [eng EXCEPT ![t].by = @ \cup {r.client}]
               /\ fault' = IF eng[t].open THEN fault ELSE "closed engine"
    /\ Answer(g)
    /\ UNCHANGED <<group, created, mu, reqC, closed, initEpoch, idle, arrived, log, reader,
                   reaper, reaps, closer, epoch>>

(* destroy takes the object out of the map, then shuts it down.            *)
handleDestroy(g) ==
    /\ Running
    /\ worker[g].pc = "handle" /\ TheRequest(g).method = "destroy"
    /\ group' = NoGroup
    /\ IF group = NoGroup
       THEN Answer(g)
       ELSE Goes(g, "shutdown", group) /\ UNCHANGED answered
    /\ UNCHANGED <<created, objects, idle, arrived, log, reader, reaper, reaps, closer, epoch, fault>>

DestroyShutsDown(g) ==
    /\ Running
    /\ worker[g].pc = "shutdown"
    /\ shutdownGroup(worker[g].group)
    /\ Answer(g)
    /\ UNCHANGED <<group, created, idle, arrived, log, reader, reaper, reaps, closer, epoch, fault>>

-----------------------------------------------------------------------------
(* The idle reaper: a pass picks candidates under the read lock, checks    *)
(* each again under the write lock, takes it out of the map, and shuts it  *)
(* down without the lock.  The cutoff is fixed for a pass, so groups turn  *)
(* idle between passes.                                                    *)

(* Nobody has business with the group: the timeout is half an hour, long   *)
(* for a goroutine that can run.                                           *)
Quiet ==
    /\ \A g \in Object : worker[g].pc \in {"wait", "done"} /\ reqC[g] = <<>>
    /\ \A c \in Conn : reader[c].pc = "read"

BecomesIdle ==
    /\ Running
    /\ reaper.pc = "wait" /\ reaps < MaxReaps
    /\ group # NoGroup /\ Quiet /\ ~idle[group]
    /\ idle' = [idle EXCEPT ![group] = TRUE]
    /\ arrived' = [arrived EXCEPT ![group] = FALSE]
    /\ UNCHANGED <<group, created, objects, log, answered, reader, worker, reaper, reaps,
                   closer, epoch, fault>>

ReaperPicks ==
    /\ Running
    /\ reaper.pc = "wait"
    /\ group # NoGroup /\ idle[group]
    /\ reaper' = [pc |-> "check", group |-> group]
    /\ UNCHANGED <<group, created, objects, idle, arrived, log, answered, reader, worker, reaps,
                   closer, epoch, fault>>

ReaperTrustsSnapshot ==
    /\ Running
    /\ reaper.pc = "check"
    /\ group' = NoGroup /\ reaps' = reaps + 1
    /\ reaper' = [reaper EXCEPT !.pc = "shutdown"]
    /\ UNCHANGED <<created, objects, idle, arrived, log, answered, reader, worker, closer, epoch, fault>>

ReaperChecks ==
    /\ Running
    /\ reaper.pc = "check"
    /\ IF group = reaper.group /\ idle[group]
       THEN /\ group' = NoGroup /\ reaps' = reaps + 1
            /\ reaper' = [reaper EXCEPT !.pc = "shutdown"]
       ELSE /\ reaper' = [pc |-> "wait", group |-> NoGroup]
            /\ UNCHANGED <<group, reaps>>
    /\ UNCHANGED <<created, objects, idle, arrived, log, answered, reader, worker, closer, epoch, fault>>

ReaperShutsDown ==
    /\ Running
    /\ reaper.pc = "shutdown"
    /\ shutdownGroup(reaper.group)
    /\ reaper' = [pc |-> "wait", group |-> NoGroup]
    /\ UNCHANGED <<group, created, idle, arrived, log, answered, reader, worker, reaps, closer,
                   epoch, fault>>

-----------------------------------------------------------------------------
(* SIGTERM: closeAll empties the map, shuts down what was in it one group  *)
(* after the other, and then the process exits, while all the other        *)
(* goroutines go on.  The groups of other ids come before or after this    *)
(* one: closer may stay at "closing" or "closed" for long.                 *)

closeAllTakes ==
    /\ Running
    /\ Sigterm /\ closer.pc = "up"
    /\ closer' = [pc |-> IF group = NoGroup THEN "closed" ELSE "closing", group |-> group]
    /\ group' = NoGroup
    /\ UNCHANGED <<created, objects, idle, arrived, log, answered, reader, worker, reaper, reaps,
                   epoch, fault>>

closeAllShutsDown ==
    /\ Running
    /\ closer.pc = "closing"
    /\ shutdownGroup(closer.group)
    /\ closer' = [closer EXCEPT !.pc = "closed"]
    /\ UNCHANGED <<group, created, idle, arrived, log, answered, reader, worker, reaper, reaps,
                   epoch, fault>>

(* os.Exit, or the end of main once the listener is closed.                *)
ProcessExits ==
    /\ Running
    /\ closer.pc = "closed"
    /\ closer' = [closer EXCEPT !.pc = "exited"]
    /\ UNCHANGED <<group, created, objects, idle, arrived, log, answered, reader, worker, reaper,
                   reaps, epoch, fault>>

-----------------------------------------------------------------------------
Init ==
    /\ group = NoGroup /\ created = 0
    /\ mu = [g \in Object |-> Free]
    /\ reqC = [g \in Object |-> <<>>]
    /\ closed = [g \in Object |-> FALSE]
    /\ eng = [g \in Object |-> NoEngine]
    /\ initEpoch = [g \in Object |-> 0]
    /\ idle = [g \in Object |-> FALSE]
    /\ arrived = [g \in Object |-> FALSE]
    /\ log = <<>> /\ answered = {}
    /\ reader = [c \in Conn |-> [pc |-> "read", group |-> NoGroup, req |-> 0]]
    /\ worker = [g \in Object |-> [pc |-> "wait", group |-> NoGroup, req |-> 0]]
    /\ reaper = [pc |-> "wait", group |-> NoGroup] /\ reaps = 0
    /\ closer = [pc |-> "up", group |-> NoGroup]
    /\ epoch = [k \in Client |-> 0]
    /\ fault = "none"

ReaderStep(c) == trySendReq(c) \/ trySendReqResumes(c)

WorkerStep(g) ==
    \/ DequeueRequest(g)
    \/ WorkerExits(g)
    \/ ResolveGroup(g)
    \/ handleInit(g)
    \/ handleMutating(g)
    \/ handleDestroy(g)
    \/ DestroyShutsDown(g)

ReaperStep == ReaperPicks \/ ReaperChecks \/ ReaperShutsDown

Next ==
    \/ \E c \in Conn, k \in Client, m \in Method : ReadRequest(c, k, m)
    \/ \E c \in Conn : ReaderStep(c)
    \/ \E g \in Object : WorkerStep(g)
    \/ BecomesIdle
    \/ ReaperStep
    \/ closeAllTakes
    \/ closeAllShutsDown
    \/ ProcessExits

Spec == Init /\ [][Next]_vars

(* The Go scheduler runs every runnable goroutine, and every goroutine     *)
(* whose send, receive or lock can go on.                                  *)
Fairness ==
    /\ \A c \in Conn : WF_vars(ReaderStep(c))
    /\ \A g \in Object : WF_vars(WorkerStep(g))
    /\ WF_vars(ReaperStep)

FairSpec == Spec /\ Fairness

-----------------------------------------------------------------------------
Engine == [owner: SUBSET Client, open: BOOLEAN, by: SUBSET Client]
ReaderState == [pc: {"read", "send", "blocked"}, group: Object \cup {NoGroup}, req: Id \cup {0}]
WorkerState == [pc: {"wait", "handle", "lock", "shutdown", "done"},
                group: Object \cup {NoGroup}, req: Id \cup {0}]
ReaperState == [pc: {"wait", "check", "shutdown"}, group: Object \cup {NoGroup}]
CloserState == [pc: {"up", "closing", "closed", "exited"}, group: Object \cup {NoGroup}]

(* Types; no request queue exceeds its capacity.                           *)
TypeOK ==
    /\ group \in Object \cup {NoGroup} /\ created \in Nat
    /\ mu \in [Object -> Conn \cup {Free}]
    /\ reqC \in [Object -> Seq(Id)] /\ \A g \in Object : Len(reqC[g]) <= QueueCap
    /\ closed \in [Object -> BOOLEAN]
    /\ eng \in [Object -> Engine]
    /\ initEpoch \in [Object -> Nat]
    /\ idle \in [Object -> BOOLEAN] /\ arrived \in [Object -> BOOLEAN]
    /\ log \in Seq(Request) /\ answered \in SUBSET Id
    /\ reader \in [Conn -> ReaderState]
    /\ worker \in [Object -> WorkerState]
    /\ reaper \in ReaperState /\ reaps \in Nat
    /\ closer \in CloserState
    /\ epoch \in [Client -> Nat]
    /\ fault \in {"none", "panic", "closed engine"}

(* The init epoch keeps the view-syncer instances apart: an engine only    *)
(* takes mutations from the instance whose init made it (the comment on    *)
(* ClientGroup.initEpoch).                                                 *)
EngineNotMixed == \A g \in Object : eng[g].by \subseteq eng[g].owner

(* No handler works on an engine that a later init closed, also when that  *)
(* init then failed to make a new one: the epoch moves first.              *)
NoUseOfClosedEngine == fault # "closed engine"

(* No read loop sends on a request channel that destroy, the reaper or     *)
(* closeAll has closed, which would crash the process.                     *)
NoSendOnClosedChannel == fault # "panic"

(* The requests of a connection are processed sequentially in the order in *)
(* which they were read (the comment on ClientGroup): while a worker is at *)
(* one of them, every earlier one has been answered.                       *)
HandledInOrder ==
    \A g \in Object : worker[g].pc \in {"handle", "lock", "shutdown"} =>
        \A i \in DOMAIN log :
            i < worker[g].req /\ log[i].conn = log[worker[g].req].conn => i \in answered

(* An open engine belongs to the group in the map, or to one that somebody *)
(* is about to shut down: no destroy and no reap leaves one open where no  *)
(* request reaches it (the comment on removeGroup).  Only the object that  *)
(* closeAll took can have one after its shutdown: see CloseAllShutsEngine. *)
NoOrphanEngine ==
    \A g \in Object : eng[g].open =>
        \/ group = g
        \/ reaper = [pc |-> "shutdown", group |-> g]
        \/ \E w \in Object : worker[w].pc = "shutdown" /\ worker[w].group = g
        \/ closer.group = g

(* closeAll shuts down all engines (the comment on it): once it has        *)
(* returned, the group that was in the map has no open engine.             *)
CloseAllShutsEngine ==
    closer.pc = "closed" /\ closer.group # NoGroup => ~eng[closer.group].open

(* Every request read gets its response, also those left in the queue of a *)
(* group that is destroyed or reaped.                                      *)
EveryRequestAnswered ==
    \A i \in Id : i \in DOMAIN log ~> i \in answered

(* A group thrown out of the map does not leak its worker goroutine        *)
(* (the comment on removeGroup).                                           *)
WorkersEnd ==
    \A g \in Object : (g <= created /\ group # g) ~> (worker[g].pc = "done")

(* Sending under mu does not deadlock: the worker does not need mu to      *)
(* drain the queue (the comment in trySendReq).                            *)
SendDoesNotBlockWorker ==
    \A c \in Conn : reader[c].pc = "blocked" =>
        LET g == reader[c].group
        IN ~(worker[g].pc = "lock" /\ worker[g].group = g)

(* The reaper spares a group to which a request has come since it turned   *)
(* idle (the comment on ClientGroup.lastUsedNs).                           *)
ReaperSparesUsedGroup ==
    [][reaper.pc = "check" /\ reaper'.pc = "shutdown" => ~arrived[reaper.group]]_vars

=============================================================================
