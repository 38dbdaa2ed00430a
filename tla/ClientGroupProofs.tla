------------------------- MODULE ClientGroupProofs -------------------------
(***************************************************************************)
(* Proofs about ClientGroup for any number of connections, clients,        *)
(* requests, destroys and reaps, and any capacity of the request queue.    *)
(***************************************************************************)
EXTENDS ClientGroup, FiniteSetTheorems, TLAPS

-----------------------------------------------------------------------------
(* Whoever works on a request or on a group has one: the requests that are *)
(* queued, about to be queued or handled have been read, and the groups    *)
(* about to be locked or shut down exist.                                  *)

LogBounded == Len(log) <= MaxRequests

QueuedAreRead == \A g \in Object : \A i \in DOMAIN reqC[g] : reqC[g][i] \in DOMAIN log

ReadersBusy ==
    \A c \in Conn : reader[c].pc # "read" =>
        reader[c].req \in DOMAIN log /\ reader[c].group \in Object

WorkersBusy ==
    \A g \in Object :
        /\ worker[g].pc \in {"handle", "lock", "shutdown"} => worker[g].req \in DOMAIN log
        /\ worker[g].pc \in {"lock", "shutdown"} => worker[g].group \in Object

OthersBusy ==
    /\ reaper.pc # "wait" => reaper.group \in Object
    /\ closer.pc = "closing" => closer.group \in Object

TypeInv == TypeOK /\ LogBounded /\ QueuedAreRead /\ ReadersBusy /\ WorkersBusy /\ OthersBusy

(* getGroup keeps the types of the map and the counter of objects.         *)
LEMMA GetGroupType ==
    ASSUME TypeInv, NEW g \in Object, getGroup(g)
    PROVE  group' \in Object \cup {NoGroup} /\ created' \in Nat
<1>1. group \in Object \cup {NoGroup} /\ created \in Nat
  BY DEF TypeInv, TypeOK
<1>2. CASE group # NoGroup
  BY <1>1, <1>2 DEF getGroup
<1>3. CASE group = NoGroup
  BY <1>1, <1>3 DEF getGroup
<1> QED BY <1>2, <1>3

(* A connection reads a request and resolves its group.                    *)
LEMMA ReadRequestType ==
    ASSUME TypeInv, NEW c \in Conn, NEW k \in Client, NEW m \in Method, ReadRequest(c, k, m)
    PROVE  TypeInv'
<1> USE ClientGroupAssumption
<1>1. PICK g \in Object :
        /\ getGroup(g)
        /\ reader' = [reader EXCEPT ![c] = [pc |-> "send", group |-> g, req |-> Len(log) + 1]]
  BY DEF ReadRequest
<1>2. /\ Len(log) < MaxRequests
      /\ log' = Append(log, [conn |-> c, client |-> k, method |-> m, epoch |-> epoch[k]])
      /\ UNCHANGED <<mu, reqC, closed, eng, initEpoch, idle, arrived, answered, worker, reaper,
                     reaps, closer, epoch, fault>>
  BY DEF ReadRequest, objects
<1>3. /\ log' \in Seq(Request) /\ Len(log') = Len(log) + 1 /\ Len(log) \in Nat
      /\ DOMAIN log = 1..Len(log) /\ DOMAIN log' = 1..Len(log')
  <2> DEFINE r == [conn |-> c, client |-> k, method |-> m, epoch |-> epoch[k]]
  <2>1. log \in Seq(Request) /\ epoch[k] \in Nat
    BY DEF TypeInv, TypeOK
  <2>2. r \in Request
    BY <2>1 DEF Request
  <2> HIDE DEF r
  <2> QED BY <1>2, <2>1, <2>2 DEF r
<1>4. DOMAIN log \subseteq DOMAIN log' /\ Len(log) + 1 \in DOMAIN log' /\ Len(log) + 1 \in Id
  BY <1>2, <1>3 DEF Id
<1>5. reader' \in [Conn -> ReaderState]
  BY <1>1, <1>4 DEF TypeInv, TypeOK, ReaderState
<1>6. group' \in Object \cup {NoGroup} /\ created' \in Nat
  BY <1>1, GetGroupType
<1>7. TypeOK'
  BY <1>2, <1>3, <1>5, <1>6 DEF TypeInv, TypeOK
<1>8. LogBounded'
  BY <1>2, <1>3 DEF LogBounded
<1>9. QueuedAreRead'
  BY <1>2, <1>4 DEF TypeInv, QueuedAreRead
<1>10. ReadersBusy'
  BY <1>1, <1>4 DEF TypeInv, TypeOK, ReadersBusy
<1>11. WorkersBusy'
  BY <1>2, <1>4 DEF TypeInv, WorkersBusy
<1>12. OthersBusy'
  BY <1>2 DEF TypeInv, OthersBusy
<1> QED BY <1>7, <1>8, <1>9, <1>10, <1>11, <1>12 DEF TypeInv

(* What a step of a read loop leaves alone.                                *)
LEMMA ReaderFrame ==
    ASSUME NEW c \in Conn, ReaderStep(c)
    PROVE  UNCHANGED <<group, created, closed, eng, initEpoch, idle, log, worker, reaper, reaps,
                       closer, epoch>>
BY DEF ReaderStep, trySendReq, SendNow, SendWaits, SendRefused, trySendReqResumes, Enqueue, objects

(* A queue takes a request.                                                *)
LEMMA EnqueueType ==
    ASSUME TypeInv, NEW c \in Conn, reader[c].pc # "read",
           Len(reqC[reader[c].group]) < QueueCap, log' = log,
           reqC' = [reqC EXCEPT ![reader[c].group] = Append(@, reader[c].req)]
    PROVE  /\ reqC' \in [Object -> Seq(Id)] /\ \A g \in Object : Len(reqC'[g]) <= QueueCap
           /\ QueuedAreRead'
<1> DEFINE g == reader[c].group
           q == reader[c].req
<1>1. g \in Object /\ q \in DOMAIN log
  BY DEF TypeInv, ReadersBusy
<1>2. /\ reqC \in [Object -> Seq(Id)] /\ log \in Seq(Request) /\ Len(log) <= MaxRequests
      /\ \A h \in Object : Len(reqC[h]) <= QueueCap
  BY DEF TypeInv, TypeOK, LogBounded
<1>3. q \in Id
  BY <1>1, <1>2, ClientGroupAssumption DEF Id
<1> HIDE DEF g, q
<1>4. /\ Append(reqC[g], q) \in Seq(Id) /\ Len(Append(reqC[g], q)) = Len(reqC[g]) + 1
      /\ Len(reqC[g]) \in Nat
      /\ \A i \in DOMAIN Append(reqC[g], q) :
           Append(reqC[g], q)[i] = q \/ (i \in DOMAIN reqC[g] /\ Append(reqC[g], q)[i] = reqC[g][i])
  BY <1>1, <1>2, <1>3
<1>5. reqC' = [reqC EXCEPT ![g] = Append(reqC[g], q)] /\ Len(reqC[g]) < QueueCap
  BY DEF g, q
<1>6. reqC' \in [Object -> Seq(Id)]
  BY <1>2, <1>4, <1>5
<1>7. ASSUME NEW h \in Object PROVE Len(reqC'[h]) <= QueueCap
  BY <1>1, <1>2, <1>4, <1>5, ClientGroupAssumption
<1>8. QueuedAreRead'
  <2> SUFFICES ASSUME NEW h \in Object, NEW i \in DOMAIN reqC'[h] PROVE reqC'[h][i] \in DOMAIN log
    BY DEF QueuedAreRead
  <2>1. CASE h = g
    BY <2>1, <1>1, <1>2, <1>4, <1>5 DEF TypeInv, QueuedAreRead
  <2>2. CASE h # g
    BY <2>2, <1>2, <1>5 DEF TypeInv, QueuedAreRead
  <2> QED BY <2>1, <2>2
<1> QED BY <1>6, <1>7, <1>8

-----------------------------------------------------------------------------
(* Why no read loop sends on a closed channel: it holds the mutex of the   *)
(* group while it waits for room, and shutdownGroup needs that mutex.      *)

BlockedHoldsMutex ==
    \A c \in Conn : reader[c].pc = "blocked" =>
        mu[reader[c].group] = c /\ ~closed[reader[c].group]

Inv == TypeInv /\ BlockedHoldsMutex /\ NoSendOnClosedChannel

(* A step that leaves the read loops, mutexes and closed flags alone.      *)
LEMMA ChannelUntouched ==
    ASSUME Inv, UNCHANGED <<mu, closed, reader>>, fault' # "panic"
    PROVE  BlockedHoldsMutex' /\ NoSendOnClosedChannel'
BY DEF Inv, BlockedHoldsMutex, NoSendOnClosedChannel

(* Shutting a group down: no read loop waits in it.                        *)
LEMMA ChannelShutdown ==
    ASSUME Inv, NEW g, shutdownGroup(g), UNCHANGED <<reader, fault>>
    PROVE  BlockedHoldsMutex' /\ NoSendOnClosedChannel'
<1>1. mu[g] = Free /\ mu' = mu /\ closed' = [closed EXCEPT ![g] = TRUE]
  BY DEF shutdownGroup
<1>2. ASSUME NEW c \in Conn, reader'[c].pc = "blocked"
      PROVE  mu'[reader'[c].group] = c /\ ~closed'[reader'[c].group]
  <2>1. mu[reader[c].group] = c /\ ~closed[reader[c].group] /\ reader[c].group \in Object
    BY <1>2 DEF Inv, TypeInv, ReadersBusy, BlockedHoldsMutex
  <2>2. reader[c].group # g
    BY <2>1, <1>1, ClientGroupAssumption DEF Free
  <2> QED BY <2>1, <2>2, <1>1 DEF Inv, TypeInv, TypeOK
<1> QED BY <1>2 DEF Inv, BlockedHoldsMutex, NoSendOnClosedChannel

(* The read loop of c goes back to reading.                                *)
LEMMA ReadingType ==
    ASSUME TypeInv, NEW c \in Conn, Reading(c), log' = log
    PROVE  /\ reader' \in [Conn -> ReaderState] /\ ReadersBusy'
           /\ \A d \in Conn : reader'[d].pc # "read" => d # c /\ reader'[d] = reader[d]
<1>1. reader' = [reader EXCEPT ![c] = [pc |-> "read", group |-> NoGroup, req |-> 0]]
  BY DEF Reading
<1>2. reader \in [Conn -> ReaderState]
  BY DEF TypeInv, TypeOK
<1>3. [pc |-> "read", group |-> NoGroup, req |-> 0] \in ReaderState
  BY DEF ReaderState
<1>4. \A d \in Conn : reader'[d].pc # "read" => d # c /\ reader'[d] = reader[d]
  BY <1>1, <1>2
<1> QED BY <1>1, <1>2, <1>3, <1>4 DEF TypeInv, ReadersBusy

(* Every step of a read loop keeps the invariant.                          *)
LEMMA ReaderStepInv ==
    ASSUME Inv, NEW c \in Conn, ReaderStep(c)
    PROVE  Inv'
<1> DEFINE g == reader[c].group
<1>1. TypeInv /\ UNCHANGED <<group, created, closed, eng, initEpoch, idle, log, worker, reaper,
                             reaps, closer, epoch>>
  BY ReaderFrame DEF Inv
<1>2. WorkersBusy' /\ OthersBusy' /\ LogBounded'
  BY <1>1 DEF TypeInv, WorkersBusy, OthersBusy, LogBounded
<1>3. reader[c].pc # "read" /\ g \in Object /\ reader[c].req \in Id
  <2>1. reader[c].pc # "read"
    BY DEF ReaderStep, trySendReq, trySendReqResumes
  <2>2. g \in Object /\ reader[c].req \in DOMAIN log
    BY <1>1, <2>1 DEF TypeInv, ReadersBusy
  <2>3. log \in Seq(Request) /\ Len(log) <= MaxRequests
    BY <1>1 DEF TypeInv, TypeOK, LogBounded
  <2>4. reader[c].req \in Id
    BY <2>2, <2>3, ClientGroupAssumption DEF Id
  <2> QED BY <2>1, <2>2, <2>4
<1>4. CASE trySendReq(c) /\ SendNow(c)
  <2>1. /\ mu' = mu /\ fault' = fault /\ answered' = answered /\ Reading(c)
        /\ Len(reqC[g]) < QueueCap /\ reqC' = [reqC EXCEPT ![g] = Append(@, reader[c].req)]
        /\ arrived' = [arrived EXCEPT ![g] = TRUE]
    BY <1>4 DEF SendNow, Enqueue
  <2>2. /\ reader' \in [Conn -> ReaderState] /\ ReadersBusy'
        /\ \A d \in Conn : reader'[d].pc # "read" => d # c /\ reader'[d] = reader[d]
    BY <1>1, <2>1, ReadingType
  <2>3. /\ reqC' \in [Object -> Seq(Id)] /\ \A h \in Object : Len(reqC'[h]) <= QueueCap
        /\ QueuedAreRead'
    BY <1>1, <1>3, <2>1, EnqueueType
  <2>4. TypeOK'
    BY <1>1, <2>1, <2>2, <2>3 DEF TypeInv, TypeOK
  <2>5. BlockedHoldsMutex'
    BY <1>1, <2>1, <2>2 DEF Inv, BlockedHoldsMutex
  <2> QED BY <1>2, <2>1, <2>2, <2>3, <2>4, <2>5 DEF Inv, TypeInv, NoSendOnClosedChannel
<1>5. CASE trySendReq(c) /\ SendRefused(c)
  <2>1. /\ UNCHANGED <<mu, reqC, arrived, fault>> /\ Reading(c)
        /\ answered' = answered \cup {reader[c].req}
    BY <1>5 DEF SendRefused, objects
  <2>2. /\ reader' \in [Conn -> ReaderState] /\ ReadersBusy'
        /\ \A d \in Conn : reader'[d].pc # "read" => d # c /\ reader'[d] = reader[d]
    BY <1>1, <2>1, ReadingType
  <2>3. TypeOK'
    BY <1>1, <1>3, <2>1, <2>2 DEF TypeInv, TypeOK
  <2>4. BlockedHoldsMutex' /\ QueuedAreRead'
    BY <1>1, <2>1, <2>2 DEF Inv, TypeInv, BlockedHoldsMutex, QueuedAreRead
  <2> QED BY <1>2, <2>1, <2>2, <2>3, <2>4 DEF Inv, TypeInv, NoSendOnClosedChannel
<1>6. CASE trySendReq(c) /\ SendWaits(c)
  <2>1. /\ mu[g] = Free /\ ~closed[g] /\ mu' = [mu EXCEPT ![g] = c]
        /\ UNCHANGED <<reqC, arrived, answered, fault>>
        /\ reader' = [reader EXCEPT ![c].pc = "blocked"]
    BY <1>6 DEF SendWaits
  <2>2. reader \in [Conn -> ReaderState] /\ mu \in [Object -> Conn \cup {Free}]
    BY <1>1 DEF TypeInv, TypeOK
  <2>3. /\ reader' \in [Conn -> ReaderState]
        /\ reader'[c].group = g /\ reader'[c].req = reader[c].req
        /\ \A d \in Conn : d # c => reader'[d] = reader[d]
    BY <2>1, <2>2 DEF ReaderState
  <2>4. TypeOK'
    BY <1>1, <2>1, <2>2, <2>3 DEF TypeInv, TypeOK
  <2>5. ReadersBusy' /\ QueuedAreRead'
    BY <1>1, <1>3, <2>1, <2>3 DEF TypeInv, ReadersBusy, QueuedAreRead
  <2>6. ASSUME NEW d \in Conn, reader'[d].pc = "blocked"
        PROVE  mu'[reader'[d].group] = d /\ ~closed'[reader'[d].group]
    <3>1. CASE d = c
      BY <3>1, <1>1, <1>3, <2>1, <2>2, <2>3
    <3>2. CASE d # c
      <4>1. mu[reader[d].group] = d /\ ~closed[reader[d].group] /\ reader[d].group \in Object
        BY <3>2, <2>3, <2>6 DEF Inv, TypeInv, ReadersBusy, BlockedHoldsMutex
      <4>2. reader[d].group # g
        BY <4>1, <2>1, ClientGroupAssumption DEF Free
      <4> QED BY <1>1, <3>2, <4>1, <4>2, <2>1, <2>2, <2>3
    <3> QED BY <3>1, <3>2
  <2> QED BY <1>2, <2>1, <2>4, <2>5, <2>6 DEF Inv, TypeInv, BlockedHoldsMutex, NoSendOnClosedChannel
<1>7. CASE trySendReqResumes(c)
  <2>1. /\ closed[g] \/ Len(reqC[g]) < QueueCap
        /\ fault' = IF closed[g] THEN "panic" ELSE fault
        /\ mu' = [mu EXCEPT ![g] = Free] /\ answered' = answered /\ Reading(c)
        /\ reqC' = [reqC EXCEPT ![g] = Append(@, reader[c].req)]
        /\ arrived' = [arrived EXCEPT ![g] = TRUE]
    BY <1>7 DEF trySendReqResumes, Enqueue
  <2>2. reader[c].pc = "blocked"
    BY <1>7 DEF trySendReqResumes
  <2>3. mu[g] = c /\ ~closed[g]
    BY <2>2 DEF Inv, BlockedHoldsMutex
  <2>4. /\ reader' \in [Conn -> ReaderState] /\ ReadersBusy'
        /\ \A d \in Conn : reader'[d].pc # "read" => d # c /\ reader'[d] = reader[d]
    BY <1>1, <2>1, ReadingType
  <2>5. /\ reqC' \in [Object -> Seq(Id)] /\ \A h \in Object : Len(reqC'[h]) <= QueueCap
        /\ QueuedAreRead'
    BY <1>1, <1>3, <2>1, <2>3, EnqueueType
  <2>6. mu \in [Object -> Conn \cup {Free}]
    BY <1>1 DEF TypeInv, TypeOK
  <2>7. TypeOK'
    BY <1>1, <2>1, <2>3, <2>4, <2>5, <2>6 DEF TypeInv, TypeOK
  <2>8. ASSUME NEW d \in Conn, reader'[d].pc = "blocked"
        PROVE  mu'[reader'[d].group] = d /\ ~closed'[reader'[d].group]
    <3>1. d # c /\ reader'[d] = reader[d]
      BY <2>4, <2>8
    <3>2. mu[reader[d].group] = d /\ ~closed[reader[d].group] /\ reader[d].group \in Object
      BY <3>1, <2>8 DEF Inv, TypeInv, ReadersBusy, BlockedHoldsMutex
    <3> QED BY <1>1, <3>1, <3>2, <2>1, <2>3, <2>6
  <2>9. fault' # "panic"
    BY <2>1, <2>3 DEF Inv, NoSendOnClosedChannel
  <2> QED BY <1>2, <2>4, <2>5, <2>7, <2>8, <2>9 DEF Inv, TypeInv, BlockedHoldsMutex, NoSendOnClosedChannel
<1> QED BY <1>4, <1>5, <1>6, <1>7 DEF ReaderStep, trySendReq

-----------------------------------------------------------------------------
(* The worker has handled its request.                                     *)
LEMMA AnswerType ==
    ASSUME TypeInv, NEW g \in Object, worker[g].pc \in {"handle", "lock", "shutdown"},
           Answer(g), log' = log
    PROVE  worker' \in [Object -> WorkerState] /\ WorkersBusy' /\ answered' \in SUBSET Id
<1> DEFINE w == [pc |-> "wait", group |-> NoGroup, req |-> 0]
<1>1. worker' = [worker EXCEPT ![g] = w] /\ answered' = answered \cup {worker[g].req}
  BY DEF Answer
<1>2. /\ worker \in [Object -> WorkerState] /\ answered \in SUBSET Id /\ log \in Seq(Request)
      /\ Len(log) <= MaxRequests /\ worker[g].req \in DOMAIN log
  BY DEF TypeInv, TypeOK, LogBounded, WorkersBusy
<1>3. worker[g].req \in Id
  BY <1>2, ClientGroupAssumption DEF Id
<1>4. w \in WorkerState /\ w.pc = "wait"
  BY DEF WorkerState
<1> HIDE DEF w
<1>5. worker' \in [Object -> WorkerState]
  BY <1>1, <1>2, <1>4
<1>6. WorkersBusy'
  BY <1>1, <1>2, <1>4 DEF TypeInv, WorkersBusy
<1> QED BY <1>1, <1>2, <1>3, <1>5, <1>6

(* The worker goes on to lock or shut down group t, or ends.               *)
LEMMA GoesType ==
    ASSUME TypeInv, NEW g \in Object, NEW pc \in {"lock", "shutdown", "done"},
           NEW t \in Object \cup {NoGroup},
           pc # "done" => t \in Object /\ worker[g].pc = "handle",
           Goes(g, pc, t), log' = log
    PROVE  worker' \in [Object -> WorkerState] /\ WorkersBusy'
<1>1. worker \in [Object -> WorkerState]
  BY DEF TypeInv, TypeOK
<1>3. worker' = [worker EXCEPT ![g] = [pc |-> pc, group |-> t, req |-> worker[g].req]]
  BY DEF Goes
<1>4. [pc |-> pc, group |-> t, req |-> worker[g].req] \in WorkerState
  BY <1>1 DEF WorkerState
<1>5. worker' \in [Object -> WorkerState]
  BY <1>1, <1>3, <1>4
<1>6. WorkersBusy'
  BY <1>1, <1>3 DEF TypeInv, WorkersBusy
<1> QED BY <1>5, <1>6

(* The worker takes a request from its queue.                              *)
LEMMA DequeueRequestInv ==
    ASSUME Inv, NEW g \in Object, DequeueRequest(g)
    PROVE  Inv'
<1> DEFINE q == Head(reqC[g])
<1>1. /\ reqC[g] # <<>>
      /\ reqC' = [reqC EXCEPT ![g] = Tail(reqC[g])]
      /\ worker' = [worker EXCEPT ![g] = [pc |-> "handle", group |-> NoGroup, req |-> q]]
      /\ idle' = [idle EXCEPT ![g] = FALSE]
      /\ UNCHANGED <<group, created, mu, closed, eng, initEpoch, arrived, log, answered, reader,
                     reaper, reaps, closer, epoch, fault>>
  BY DEF DequeueRequest
<1>2. /\ reqC \in [Object -> Seq(Id)] /\ worker \in [Object -> WorkerState]
      /\ \A h \in Object : Len(reqC[h]) <= QueueCap
      /\ \A i \in DOMAIN reqC[g] : reqC[g][i] \in DOMAIN log
  BY DEF Inv, TypeInv, TypeOK, QueuedAreRead
<1>3. /\ Tail(reqC[g]) \in Seq(Id) /\ Len(Tail(reqC[g])) = Len(reqC[g]) - 1 /\ Len(reqC[g]) \in Nat
      /\ \A i \in DOMAIN Tail(reqC[g]) :
           i + 1 \in DOMAIN reqC[g] /\ Tail(reqC[g])[i] = reqC[g][i + 1]
      /\ 1 \in DOMAIN reqC[g] /\ q = reqC[g][1] /\ q \in Id
  BY <1>1, <1>2
<1>4. q \in DOMAIN log
  BY <1>2, <1>3
<1> HIDE DEF q
<1>5. /\ reqC' \in [Object -> Seq(Id)]
      /\ \A h \in Object : Len(reqC'[h]) <= QueueCap
  <2>1. reqC' \in [Object -> Seq(Id)]
    BY <1>1, <1>2, <1>3
  <2>2. ASSUME NEW h \in Object PROVE Len(reqC'[h]) <= QueueCap
    BY <1>1, <1>2, <1>3, ClientGroupAssumption
  <2> QED BY <2>1, <2>2
<1>6. QueuedAreRead'
  <2> SUFFICES ASSUME NEW h \in Object, NEW i \in DOMAIN reqC'[h] PROVE reqC'[h][i] \in DOMAIN log
    BY <1>1 DEF QueuedAreRead
  <2>1. CASE h = g
    BY <2>1, <1>1, <1>2, <1>3
  <2>2. CASE h # g
    BY <2>2, <1>1, <1>2 DEF Inv, TypeInv, QueuedAreRead
  <2> QED BY <2>1, <2>2
<1>7. [pc |-> "handle", group |-> NoGroup, req |-> q] \in WorkerState
  BY <1>3 DEF WorkerState
<1>8. worker' \in [Object -> WorkerState]
  BY <1>1, <1>2, <1>7
<1>9. WorkersBusy'
  BY <1>1, <1>2, <1>4 DEF Inv, TypeInv, WorkersBusy
<1>10. TypeOK'
  BY <1>1, <1>5, <1>8 DEF Inv, TypeInv, TypeOK
<1>11. LogBounded' /\ ReadersBusy' /\ OthersBusy'
  BY <1>1 DEF Inv, TypeInv, LogBounded, ReadersBusy, OthersBusy
<1>12. BlockedHoldsMutex' /\ NoSendOnClosedChannel'
  BY <1>1, ChannelUntouched DEF Inv, NoSendOnClosedChannel
<1> QED BY <1>6, <1>9, <1>10, <1>11, <1>12 DEF Inv, TypeInv

(* The steps in which the worker neither takes a request nor changes a     *)
(* group: its queue is closed and empty, or it resolves the request's      *)
(* group, or a destroy takes the group out of the map.                     *)
LEMMA WorkerMovesInv ==
    ASSUME Inv, NEW g \in Object, WorkerExits(g) \/ ResolveGroup(g) \/ handleDestroy(g)
    PROVE  Inv'
<1>1. UNCHANGED <<mu, reqC, closed, eng, initEpoch, idle, arrived, log, reader, reaper, reaps,
                  closer, epoch, fault>>
  BY DEF WorkerExits, ResolveGroup, handleDestroy, objects
<1>2. LogBounded' /\ QueuedAreRead' /\ ReadersBusy' /\ OthersBusy'
  BY <1>1 DEF Inv, TypeInv, LogBounded, QueuedAreRead, ReadersBusy, OthersBusy
<1>3. BlockedHoldsMutex' /\ NoSendOnClosedChannel'
  BY <1>1, ChannelUntouched DEF Inv, NoSendOnClosedChannel
<1>4. TypeInv /\ answered \in SUBSET Id /\ group \in Object \cup {NoGroup} /\ created \in Nat
  BY DEF Inv, TypeInv, TypeOK
<1>5. /\ worker' \in [Object -> WorkerState] /\ WorkersBusy' /\ answered' \in SUBSET Id
      /\ group' \in Object \cup {NoGroup} /\ created' \in Nat
  <2>1. CASE WorkerExits(g)
    <3>1. Goes(g, "done", NoGroup) /\ UNCHANGED <<group, created, answered>>
      BY <2>1 DEF WorkerExits
    <3> QED BY <1>1, <1>4, <3>1, GoesType
  <2>2. CASE ResolveGroup(g)
    <3>1. PICK t \in Object : getGroup(t) /\ Goes(g, "lock", t)
      BY <2>2 DEF ResolveGroup
    <3>2. worker[g].pc = "handle" /\ answered' = answered
      BY <2>2 DEF ResolveGroup
    <3>3. worker' \in [Object -> WorkerState] /\ WorkersBusy'
      BY <1>1, <1>4, <3>1, <3>2, GoesType
    <3> QED BY <1>4, <3>1, <3>2, <3>3, GetGroupType
  <2>3. CASE handleDestroy(g) /\ group = NoGroup
    <3>1. Answer(g) /\ worker[g].pc = "handle" /\ group' = NoGroup /\ created' = created
      BY <2>3 DEF handleDestroy
    <3> QED BY <1>1, <1>4, <3>1, AnswerType
  <2>4. CASE handleDestroy(g) /\ group # NoGroup
    <3>1. /\ Goes(g, "shutdown", group) /\ worker[g].pc = "handle"
          /\ group' = NoGroup /\ created' = created /\ answered' = answered /\ group \in Object
      BY <1>4, <2>4 DEF handleDestroy
    <3> QED BY <1>1, <1>4, <3>1, GoesType
  <2> QED BY <2>1, <2>2, <2>3, <2>4
<1>6. TypeOK'
  BY <1>1, <1>5 DEF Inv, TypeInv, TypeOK
<1> QED BY <1>2, <1>3, <1>5, <1>6 DEF Inv, TypeInv

(* What a handler makes of an engine is an engine.                         *)
LEMMA EngineClosed ==
    ASSUME NEW e \in Engine
    PROVE  [e EXCEPT !.open = FALSE] \in Engine
BY DEF Engine

(* A client that has used an engine is noted in it.                        *)
LEMMA EngineUsed ==
    ASSUME NEW e \in Engine, NEW k \in Client
    PROVE  [e EXCEPT !.by = @ \cup {k}] \in Engine
BY DEF Engine

(* The handlers and the shutdown at the end of a destroy: they change the  *)
(* group they have resolved and answer.                                    *)
LEMMA HandlerInv ==
    ASSUME Inv, NEW g \in Object,
           handleInit(g) \/ handleMutating(g) \/ DestroyShutsDown(g)
    PROVE  Inv'
<1> DEFINE t == worker[g].group
<1>1. UNCHANGED <<group, created, mu, reqC, idle, arrived, log, reader, reaper, reaps, closer>>
  BY DEF handleInit, handleMutating, DestroyShutsDown, shutdownGroup
<1>2. worker[g].pc \in {"lock", "shutdown"} /\ Answer(g)
  BY DEF handleInit, handleMutating, DestroyShutsDown, Handling
<1>3. TypeInv /\ t \in Object /\ worker[g].req \in DOMAIN log
  BY <1>2 DEF Inv, TypeInv, WorkersBusy
<1>4. worker' \in [Object -> WorkerState] /\ WorkersBusy' /\ answered' \in SUBSET Id
  BY <1>1, <1>2, <1>3, AnswerType
<1>5. LogBounded' /\ QueuedAreRead' /\ ReadersBusy' /\ OthersBusy'
  BY <1>1, <1>3 DEF TypeInv, LogBounded, QueuedAreRead, ReadersBusy, OthersBusy
<1>6. /\ eng \in [Object -> Engine] /\ initEpoch \in [Object -> Nat] /\ epoch \in [Client -> Nat]
      /\ closed \in [Object -> BOOLEAN] /\ fault \in {"none", "panic", "closed engine"}
  BY <1>3 DEF TypeInv, TypeOK
<1>11. TheRequest(g).client \in Client
  <2>1. log \in Seq(Request)
    BY <1>3 DEF TypeInv, TypeOK
  <2>2. TheRequest(g) \in Request
    BY <1>3, <2>1 DEF TheRequest
  <2> QED BY <2>2 DEF Request
<1>7. NoEngine \in Engine
  BY DEF NoEngine, Engine
<1>8. CASE handleInit(g)
  <2> DEFINE k == TheRequest(g).client
             new == [owner |-> {k}, open |-> TRUE, by |-> {}]
  <2>1. /\ initEpoch' = [initEpoch EXCEPT ![t] = @ + 1] /\ closed' = closed /\ fault' = fault
        /\ \/ /\ eng' = [eng EXCEPT ![t] = new]
              /\ epoch' = [epoch EXCEPT ![k] = initEpoch[t] + 1]
           \/ /\ eng' = [eng EXCEPT ![t].open = FALSE]
              /\ epoch' = epoch
    BY <1>8 DEF handleInit
  <2>2. new \in Engine
    BY <1>11 DEF Engine
  <2>3. [eng EXCEPT ![t].open = FALSE] \in [Object -> Engine]
    <3>1. t \in Object
      BY <1>3
    <3> HIDE DEF t, new, k
    <3>2. eng[t] \in Engine
      BY <1>6, <3>1
    <3>3. [eng[t] EXCEPT !.open = FALSE] \in Engine
      BY <3>2, EngineClosed
    <3>4. [eng EXCEPT ![t] = [eng[t] EXCEPT !.open = FALSE]] \in [Object -> Engine]
      BY <1>6, <3>3
    <3> QED BY <3>4
  <2> HIDE DEF new, k
  <2>8. initEpoch[t] + 1 \in Nat
    <3>1. initEpoch \in [Object -> Nat] /\ t \in Object
      BY <1>3, <1>6
    <3> HIDE DEF t
    <3>2. initEpoch[t] \in Nat
      BY <3>1
    <3> QED BY <3>2
  <2>9. initEpoch' = [initEpoch EXCEPT ![t] = initEpoch[t] + 1]
        /\ epoch' \in {epoch, [epoch EXCEPT ![k] = initEpoch[t] + 1]}
    BY <2>1
  <2>4. initEpoch' \in [Object -> Nat] /\ epoch' \in [Client -> Nat]
    BY <1>6, <2>8, <2>9
  <2>5. eng' \in [Object -> Engine]
    BY <1>6, <2>1, <2>2, <2>3
  <2>6. TypeOK'
    BY <1>1, <1>3, <1>4, <2>1, <2>4, <2>5 DEF TypeInv, TypeOK
  <2>7. BlockedHoldsMutex' /\ NoSendOnClosedChannel'
    BY <1>1, <2>1, ChannelUntouched DEF Inv, NoSendOnClosedChannel
  <2> QED BY <1>4, <1>5, <2>6, <2>7 DEF Inv, TypeInv
<1>9. CASE handleMutating(g)
  <2> DEFINE k == TheRequest(g).client
  <2>1. /\ initEpoch' = initEpoch /\ closed' = closed /\ epoch' = epoch
        /\ fault' \in {fault, "closed engine"}
        /\ eng' \in {eng, [eng EXCEPT ![t].by = @ \cup {k}]}
    BY <1>9 DEF handleMutating
  <2>2. [eng EXCEPT ![t].by = @ \cup {k}] \in [Object -> Engine]
    <3>1. t \in Object /\ k \in Client
      BY <1>3, <1>11
    <3> HIDE DEF t, k
    <3>2. eng[t] \in Engine
      BY <1>6, <3>1
    <3>3. [eng[t] EXCEPT !.by = @ \cup {k}] \in Engine
      BY <3>1, <3>2, EngineUsed
    <3>4. [eng EXCEPT ![t] = [eng[t] EXCEPT !.by = @ \cup {k}]] \in [Object -> Engine]
      BY <1>6, <3>3
    <3> QED BY <3>4
  <2> HIDE DEF k
  <2>3. TypeOK'
    BY <1>1, <1>3, <1>4, <1>6, <2>1, <2>2 DEF TypeInv, TypeOK
  <2>4. BlockedHoldsMutex' /\ NoSendOnClosedChannel'
    BY <1>1, <2>1, ChannelUntouched DEF Inv, NoSendOnClosedChannel
  <2> QED BY <1>4, <1>5, <2>3, <2>4 DEF Inv, TypeInv
<1>10. CASE DestroyShutsDown(g)
  <2>1. shutdownGroup(t) /\ initEpoch' = initEpoch /\ epoch' = epoch /\ fault' = fault
    BY <1>10 DEF DestroyShutsDown, shutdownGroup
  <2>2. closed' \in [Object -> BOOLEAN] /\ eng' \in [Object -> Engine]
    BY <1>6, <1>7, <2>1 DEF shutdownGroup
  <2>3. TypeOK'
    BY <1>1, <1>3, <1>4, <2>1, <2>2 DEF TypeInv, TypeOK
  <2>4. BlockedHoldsMutex' /\ NoSendOnClosedChannel'
    BY <1>1, <2>1, ChannelShutdown
  <2> QED BY <1>4, <1>5, <2>3, <2>4 DEF Inv, TypeInv
<1> QED BY <1>8, <1>9, <1>10

(* The reaper, the passing of time and the signal handler.                 *)
LEMMA ReaperCloserInv ==
    ASSUME Inv, BecomesIdle \/ ReaperStep \/ closeAllTakes \/ closeAllShutsDown \/ ProcessExits
    PROVE  Inv'
<1>1. UNCHANGED <<created, mu, reqC, initEpoch, log, answered, reader, worker, epoch, fault>>
  BY DEF BecomesIdle, ReaperStep, ReaperPicks, ReaperChecks, ReaperShutsDown, closeAllTakes,
         closeAllShutsDown, ProcessExits, shutdownGroup, objects
<1>2. LogBounded' /\ QueuedAreRead' /\ ReadersBusy' /\ WorkersBusy'
  BY <1>1 DEF Inv, TypeInv, LogBounded, QueuedAreRead, ReadersBusy, WorkersBusy
<1>3. /\ group \in Object \cup {NoGroup} /\ idle \in [Object -> BOOLEAN]
      /\ arrived \in [Object -> BOOLEAN] /\ reaper \in ReaperState /\ reaps \in Nat
      /\ closer \in CloserState /\ closed \in [Object -> BOOLEAN] /\ eng \in [Object -> Engine]
  BY DEF Inv, TypeInv, TypeOK
<1>4. NoEngine \in Engine
  BY DEF NoEngine, Engine
<1>5. CASE BecomesIdle
  <2>1. /\ UNCHANGED <<group, closed, eng, reaper, reaps, closer>>
        /\ idle' = [idle EXCEPT ![group] = TRUE] /\ arrived' = [arrived EXCEPT ![group] = FALSE]
    BY <1>5 DEF BecomesIdle, objects
  <2>2. idle' \in [Object -> BOOLEAN] /\ arrived' \in [Object -> BOOLEAN]
    BY <1>3, <2>1
  <2>3. TypeOK' /\ OthersBusy'
    BY <1>1, <2>1, <2>2 DEF Inv, TypeInv, TypeOK, OthersBusy
  <2>4. BlockedHoldsMutex' /\ NoSendOnClosedChannel'
    BY <1>1, <2>1, ChannelUntouched DEF Inv, NoSendOnClosedChannel
  <2> QED BY <1>2, <2>3, <2>4 DEF Inv, TypeInv
<1>6. CASE ReaperPicks \/ ReaperChecks
  <2>1. UNCHANGED <<closed, eng, idle, arrived, closer>>
    BY <1>6 DEF ReaperPicks, ReaperChecks, objects
  <2>2. /\ group' \in Object \cup {NoGroup} /\ reaps' \in Nat
        /\ reaper' \in ReaperState
        /\ reaper'.pc # "wait" => reaper'.group \in Object
    <3>1. CASE ReaperPicks
      BY <1>3, <3>1 DEF ReaperPicks, ReaperState
    <3>2. CASE ReaperChecks
      <4>1. reaper.group \in Object
        BY <3>2 DEF Inv, TypeInv, OthersBusy, ReaperChecks
      <4>2. CASE group = reaper.group /\ idle[group]
        BY <1>3, <3>2, <4>1, <4>2 DEF ReaperChecks, ReaperState
      <4>3. CASE ~(group = reaper.group /\ idle[group])
        BY <1>3, <3>2, <4>3 DEF ReaperChecks, ReaperState
      <4> QED BY <4>2, <4>3
    <3> QED BY <1>6, <3>1, <3>2
  <2>3. TypeOK' /\ OthersBusy'
    BY <1>1, <2>1, <2>2 DEF Inv, TypeInv, TypeOK, OthersBusy
  <2>4. BlockedHoldsMutex' /\ NoSendOnClosedChannel'
    BY <1>1, <2>1, ChannelUntouched DEF Inv, NoSendOnClosedChannel
  <2> QED BY <1>2, <2>3, <2>4 DEF Inv, TypeInv
<1>7. CASE ReaperShutsDown
  <2>1. /\ shutdownGroup(reaper.group) /\ UNCHANGED <<group, idle, arrived, reaps, closer>>
        /\ reaper' = [pc |-> "wait", group |-> NoGroup]
    BY <1>7 DEF ReaperShutsDown
  <2>2. /\ closed' \in [Object -> BOOLEAN] /\ eng' \in [Object -> Engine] /\ reaper' \in ReaperState
    BY <1>3, <1>4, <2>1 DEF shutdownGroup, ReaperState
  <2>3. TypeOK' /\ OthersBusy'
    BY <1>1, <2>1, <2>2 DEF Inv, TypeInv, TypeOK, OthersBusy
  <2>4. BlockedHoldsMutex' /\ NoSendOnClosedChannel'
    BY <1>1, <2>1, ChannelShutdown
  <2> QED BY <1>2, <2>3, <2>4 DEF Inv, TypeInv
<1>8. CASE closeAllTakes
  <2>1. /\ UNCHANGED <<closed, eng, idle, arrived, reaper, reaps>> /\ group' = NoGroup
        /\ closer' = [pc |-> IF group = NoGroup THEN "closed" ELSE "closing", group |-> group]
    BY <1>8 DEF closeAllTakes, objects
  <2>2. closer' \in CloserState /\ (closer'.pc = "closing" => closer'.group \in Object)
    BY <1>3, <2>1 DEF CloserState
  <2>3. TypeOK' /\ OthersBusy'
    BY <1>1, <2>1, <2>2 DEF Inv, TypeInv, TypeOK, OthersBusy
  <2>4. BlockedHoldsMutex' /\ NoSendOnClosedChannel'
    BY <1>1, <2>1, ChannelUntouched DEF Inv, NoSendOnClosedChannel
  <2> QED BY <1>2, <2>3, <2>4 DEF Inv, TypeInv
<1>9. CASE closeAllShutsDown
  <2>1. /\ shutdownGroup(closer.group) /\ UNCHANGED <<group, idle, arrived, reaper, reaps>>
        /\ closer' = [closer EXCEPT !.pc = "closed"]
    BY <1>9 DEF closeAllShutsDown
  <2>2. /\ closed' \in [Object -> BOOLEAN] /\ eng' \in [Object -> Engine]
        /\ closer' \in CloserState /\ closer'.pc # "closing"
    BY <1>3, <1>4, <2>1 DEF shutdownGroup, CloserState
  <2>3. TypeOK' /\ OthersBusy'
    BY <1>1, <2>1, <2>2 DEF Inv, TypeInv, TypeOK, OthersBusy
  <2>4. BlockedHoldsMutex' /\ NoSendOnClosedChannel'
    BY <1>1, <2>1, ChannelShutdown
  <2> QED BY <1>2, <2>3, <2>4 DEF Inv, TypeInv
<1>10. CASE ProcessExits
  <2>1. /\ UNCHANGED <<group, closed, eng, idle, arrived, reaper, reaps, mu>>
        /\ closer' = [closer EXCEPT !.pc = "exited"]
    BY <1>10 DEF ProcessExits, objects
  <2>2. closer' \in CloserState /\ closer'.pc # "closing"
    BY <1>3, <2>1 DEF CloserState
  <2>3. TypeOK' /\ OthersBusy'
    BY <1>1, <2>1, <2>2 DEF Inv, TypeInv, TypeOK, OthersBusy
  <2>4. BlockedHoldsMutex' /\ NoSendOnClosedChannel'
    BY <1>1, <2>1, ChannelUntouched DEF Inv, NoSendOnClosedChannel
  <2> QED BY <1>2, <2>3, <2>4 DEF Inv, TypeInv
<1> QED BY <1>5, <1>6, <1>7, <1>8, <1>9, <1>10 DEF ReaperStep

(* The server starts without groups.                                       *)
LEMMA InitInv == Init => Inv
<1> SUFFICES ASSUME Init PROVE Inv
  OBVIOUS
<1> USE ClientGroupAssumption DEF Init, NoGroup, Free
<1>1. NoEngine \in Engine
  BY DEF NoEngine, Engine
<1>2. reader \in [Conn -> ReaderState] /\ worker \in [Object -> WorkerState]
  BY DEF ReaderState, WorkerState
<1>3. reaper \in ReaperState /\ closer \in CloserState
  BY DEF ReaperState, CloserState
<1>4. reqC \in [Object -> Seq(Id)] /\ \A g \in Object : Len(reqC[g]) <= QueueCap
  OBVIOUS
<1>5. TypeOK
  BY <1>1, <1>2, <1>3, <1>4 DEF TypeOK
<1>6. LogBounded /\ QueuedAreRead /\ ReadersBusy /\ WorkersBusy /\ OthersBusy
  BY DEF LogBounded, QueuedAreRead, ReadersBusy, WorkersBusy, OthersBusy
<1>7. BlockedHoldsMutex /\ NoSendOnClosedChannel
  BY DEF BlockedHoldsMutex, NoSendOnClosedChannel
<1> QED BY <1>5, <1>6, <1>7 DEF Inv, TypeInv

(* Every step keeps the invariant.                                         *)
LEMMA NextInv == Inv /\ [Next]_vars => Inv'
<1> SUFFICES ASSUME Inv, [Next]_vars PROVE Inv'
  OBVIOUS
<1>1. ASSUME NEW c \in Conn, NEW k \in Client, NEW m \in Method, ReadRequest(c, k, m) PROVE Inv'
  <2>1. TypeInv'
    BY <1>1, ReadRequestType DEF Inv
  <2>2. PICK g \in Object :
          reader' = [reader EXCEPT ![c] = [pc |-> "send", group |-> g, req |-> Len(log) + 1]]
    BY <1>1 DEF ReadRequest
  <2>3. mu' = mu /\ closed' = closed /\ fault' = fault
    BY <1>1 DEF ReadRequest, objects
  <2>4. BlockedHoldsMutex'
    BY <2>2, <2>3 DEF Inv, TypeInv, TypeOK, BlockedHoldsMutex
  <2> QED BY <2>1, <2>3, <2>4 DEF Inv, NoSendOnClosedChannel
<1>2. ASSUME NEW c \in Conn, ReaderStep(c) PROVE Inv'
  BY <1>2, ReaderStepInv
<1>3. ASSUME NEW g \in Object, WorkerStep(g) PROVE Inv'
  BY <1>3, DequeueRequestInv, WorkerMovesInv, HandlerInv DEF WorkerStep
<1>4. CASE BecomesIdle \/ ReaperStep \/ closeAllTakes \/ closeAllShutsDown \/ ProcessExits
  BY <1>4, ReaperCloserInv
<1>5. CASE UNCHANGED vars
  <2>1. UNCHANGED <<group, created, mu, reqC, closed, eng, initEpoch, idle, arrived, log, answered,
                    reader, worker, reaper, reaps, closer, epoch, fault>>
    BY <1>5 DEF vars, objects
  <2>2. TypeOK' /\ LogBounded' /\ QueuedAreRead' /\ ReadersBusy' /\ WorkersBusy' /\ OthersBusy'
    BY <2>1 DEF Inv, TypeInv, TypeOK, LogBounded, QueuedAreRead, ReadersBusy, WorkersBusy, OthersBusy
  <2> QED BY <2>1, <2>2 DEF Inv, TypeInv, BlockedHoldsMutex, NoSendOnClosedChannel
<1> QED BY <1>1, <1>2, <1>3, <1>4, <1>5 DEF Next

(* The inductive invariant holds.                                          *)
THEOREM Invariance == Spec => []Inv
BY InitInv, NextInv, PTL DEF Spec

(* The state keeps its types and no request queue exceeds the capacity of  *)
(* reqC.                                                                   *)
THEOREM TypeCorrectness == Spec => []TypeOK
<1>1. Inv => TypeOK
  BY DEF Inv, TypeInv
<1> QED BY <1>1, Invariance, PTL

(* No read loop sends on a request channel that destroy, the reaper or     *)
(* closeAll has closed, whatever the order of their steps.                 *)
THEOREM ChannelSafety == Spec => []NoSendOnClosedChannel
<1>1. Inv => NoSendOnClosedChannel
  BY DEF Inv
<1> QED BY <1>1, Invariance, PTL

-----------------------------------------------------------------------------
(* The init epoch, while nothing discards the group: no destroy, no reap   *)
(* and no signal.  There is then one object, and a request whose epoch is  *)
(* the object's comes from the client whose init made the engine in it,    *)
(* which is open.                                                          *)

OneGroup == MaxDestroys = 0 /\ MaxReaps = 0 /\ Sigterm = FALSE

Fenced(k, e) ==
    /\ e <= initEpoch[1]
    /\ e = initEpoch[1] /\ eng[1] # NoEngine => eng[1].open /\ eng[1].owner = {k}

ClientsFenced  == \A k \in Client : Fenced(k, epoch[k])
RequestsFenced == \A i \in DOMAIN log : Fenced(log[i].client, log[i].epoch)

GroupStays ==
    /\ created \in {0, 1} /\ group = created
    /\ reaper.pc = "wait" /\ closer.pc = "up" /\ \A g \in Object : ~idle[g]
    /\ \A g \in Object : worker[g].pc # "shutdown" /\ (worker[g].pc = "lock" => worker[g].group = 1)
    /\ \A i \in DOMAIN log : log[i].method # "destroy"

FenceInv ==
    /\ Inv /\ GroupStays /\ ClientsFenced /\ RequestsFenced
    /\ EngineNotMixed /\ NoUseOfClosedEngine

(* A step that changes no engine, epoch or request keeps the fence.        *)
LEMMA FenceUntouched ==
    ASSUME FenceInv, UNCHANGED <<eng, initEpoch, epoch, log, fault>>
    PROVE  ClientsFenced' /\ RequestsFenced' /\ EngineNotMixed' /\ NoUseOfClosedEngine'
BY DEF FenceInv, ClientsFenced, RequestsFenced, Fenced, EngineNotMixed, NoUseOfClosedEngine

(* With one object, getGroup returns it.                                   *)
LEMMA GetGroupIsOne ==
    ASSUME FenceInv, NEW g \in Object, getGroup(g)
    PROVE  g = 1 /\ created' \in {0, 1} /\ group' = created'
<1>1. created \in {0, 1} /\ group = created
  BY DEF FenceInv, GroupStays
<1>2. CASE group # NoGroup
  BY <1>1, <1>2 DEF getGroup, NoGroup
<1>3. CASE group = NoGroup
  BY <1>1, <1>3 DEF getGroup, NoGroup
<1> QED BY <1>2, <1>3

(* A request carries the epoch its client has.                             *)
LEMMA FenceReadRequest ==
    ASSUME OneGroup, FenceInv, NEW c \in Conn, NEW k \in Client, NEW m \in Method,
           ReadRequest(c, k, m), Inv'
    PROVE  FenceInv'
<1> DEFINE r == [conn |-> c, client |-> k, method |-> m, epoch |-> epoch[k]]
<1>1. PICK g \in Object : getGroup(g)
  BY DEF ReadRequest
<1>2. /\ log' = Append(log, r)
      /\ UNCHANGED <<eng, initEpoch, idle, worker, reaper, closer, epoch, fault>>
  BY DEF ReadRequest, objects
<1>3. log \in Seq(Request)
  BY DEF FenceInv, Inv, TypeInv, TypeOK
<1>4. m # "destroy"
  <2> DEFINE D == {i \in DOMAIN log : log[i].method = "destroy"}
  <2>1. D = {}
    BY DEF FenceInv, GroupStays
  <2>2. m = "destroy" => Cardinality(D) < 0
    BY DEF ReadRequest, OneGroup
  <2> QED BY <2>1, <2>2, FS_EmptySet
<1>5. r.client = k /\ r.epoch = epoch[k] /\ r.method # "destroy"
  BY <1>4
<1>6. r \in Request
  BY DEF Request, FenceInv, Inv, TypeInv, TypeOK
<1> HIDE DEF r
<1>7. \A i \in DOMAIN log' : log'[i] = r \/ (i \in DOMAIN log /\ log'[i] = log[i])
  BY <1>2, <1>3, <1>6
<1>8. \A i \in DOMAIN log' : log'[i].method # "destroy"
  BY <1>5, <1>7 DEF FenceInv, GroupStays
<1>9. GroupStays'
  BY <1>1, <1>2, <1>8, GetGroupIsOne DEF FenceInv, GroupStays
<1>10. ClientsFenced' /\ EngineNotMixed' /\ NoUseOfClosedEngine'
  BY <1>2 DEF FenceInv, ClientsFenced, Fenced, EngineNotMixed, NoUseOfClosedEngine
<1>11. Fenced(k, epoch[k])
  BY DEF FenceInv, ClientsFenced
<1>12. RequestsFenced'
  <2> SUFFICES ASSUME NEW i \in DOMAIN log' PROVE Fenced(log'[i].client, log'[i].epoch)
    BY <1>2 DEF RequestsFenced, Fenced
  <2>1. CASE log'[i] = r
    BY <2>1, <1>5, <1>11
  <2>2. CASE i \in DOMAIN log /\ log'[i] = log[i]
    BY <2>2 DEF FenceInv, RequestsFenced
  <2> QED BY <1>7, <2>1, <2>2
<1> QED BY <1>9, <1>10, <1>12 DEF FenceInv

(* Facts about the request a handler works on.                             *)
LEMMA FenceHandling ==
    ASSUME FenceInv, NEW g \in Object, worker[g].pc = "lock"
    PROVE  /\ worker[g].group = 1 /\ 1 \in Object
           /\ TheRequest(g) \in Request
           /\ Fenced(TheRequest(g).client, TheRequest(g).epoch)
<1>1. worker[g].group = 1 /\ worker[g].group \in Object /\ worker[g].req \in DOMAIN log
  BY DEF FenceInv, GroupStays, Inv, TypeInv, WorkersBusy
<1>2. log \in Seq(Request)
  BY DEF FenceInv, Inv, TypeInv, TypeOK
<1> QED BY <1>1, <1>2 DEF TheRequest, FenceInv, RequestsFenced

(* init moves the epoch past that of every client and request, and gives   *)
(* the new one to the client whose engine it makes, if it makes one.       *)
LEMMA FenceInit ==
    ASSUME FenceInv, NEW g \in Object, handleInit(g)
    PROVE  ClientsFenced' /\ RequestsFenced' /\ EngineNotMixed' /\ NoUseOfClosedEngine'
<1> DEFINE e == initEpoch[1]
<1>1. worker[g].group = 1 /\ 1 \in Object /\ TheRequest(g) \in Request
  BY FenceHandling DEF handleInit, Handling
<1>2. PICK k \in Client : k = TheRequest(g).client
  BY <1>1 DEF Request
<1>3. /\ eng \in [Object -> Engine] /\ initEpoch \in [Object -> Nat] /\ epoch \in [Client -> Nat]
      /\ log \in Seq(Request)
  BY DEF FenceInv, Inv, TypeInv, TypeOK
<1>4. /\ initEpoch' = [initEpoch EXCEPT ![1] = e + 1] /\ log' = log /\ fault' = fault
      /\ \/ /\ eng' = [eng EXCEPT ![1] = [owner |-> {k}, open |-> TRUE, by |-> {}]]
            /\ epoch' = [epoch EXCEPT ![k] = e + 1]
         \/ /\ eng' = [eng EXCEPT ![1] = [eng[1] EXCEPT !.open = FALSE]]
            /\ epoch' = epoch
  BY <1>1, <1>2 DEF handleInit
<1>5. e \in Nat
  BY <1>1, <1>3
<1>6. initEpoch'[1] = e + 1
  BY <1>1, <1>3, <1>4
<1>7. (\A j \in Client : epoch[j] \in Nat /\ epoch[j] <= e)
      /\ (\A i \in DOMAIN log : log[i].epoch \in Nat /\ log[i].epoch <= e)
  <2>1. ASSUME NEW j \in Client PROVE epoch[j] \in Nat /\ epoch[j] <= e
    BY <1>3 DEF FenceInv, ClientsFenced, Fenced
  <2>2. ASSUME NEW i \in DOMAIN log PROVE log[i].epoch \in Nat /\ log[i].epoch <= e
    <3>1. log[i] \in Request
      BY <1>3
    <3>2. log[i].epoch \in Nat
      BY <3>1 DEF Request
    <3> QED BY <3>2 DEF FenceInv, RequestsFenced, Fenced
  <2> QED BY <2>1, <2>2
<1> HIDE DEF e
<1>8. RequestsFenced'
  <2> SUFFICES ASSUME NEW i \in DOMAIN log PROVE Fenced(log[i].client, log[i].epoch)'
    BY <1>4 DEF RequestsFenced
  <2>1. log'[i].epoch <= initEpoch'[1] /\ log'[i].epoch # initEpoch'[1]
    BY <1>4, <1>5, <1>6, <1>7
  <2> QED BY <2>1 DEF Fenced
<1>9. ASSUME NEW j \in Client, epoch'[j] = epoch[j] PROVE Fenced(j, epoch[j])'
  <2>1. epoch'[j] <= initEpoch'[1] /\ epoch'[j] # initEpoch'[1]
    BY <1>5, <1>6, <1>7, <1>9
  <2> QED BY <2>1 DEF Fenced
<1>10. CASE /\ eng' = [eng EXCEPT ![1] = [owner |-> {k}, open |-> TRUE, by |-> {}]]
            /\ epoch' = [epoch EXCEPT ![k] = e + 1]
  <2>1. eng'[1].owner = {k} /\ eng'[1].open /\ eng'[1].by = {}
    BY <1>1, <1>3, <1>10
  <2>2. epoch'[k] = e + 1 /\ \A j \in Client : j # k => epoch'[j] = epoch[j]
    BY <1>2, <1>3, <1>10
  <2>3. Fenced(k, epoch[k])'
    BY <1>5, <1>6, <2>1, <2>2 DEF Fenced
  <2>4. ClientsFenced'
    BY <1>9, <2>2, <2>3 DEF ClientsFenced
  <2>5. ASSUME NEW h \in Object PROVE eng'[h].by \subseteq eng'[h].owner
    BY <1>3, <1>10, <2>1 DEF FenceInv, EngineNotMixed
  <2> QED BY <1>4, <1>8, <2>4, <2>5 DEF FenceInv, EngineNotMixed, NoUseOfClosedEngine
<1>11. CASE eng' = [eng EXCEPT ![1] = [eng[1] EXCEPT !.open = FALSE]] /\ epoch' = epoch
  <2>1. ClientsFenced'
    BY <1>9, <1>11 DEF ClientsFenced
  <2>2. [eng[1] EXCEPT !.open = FALSE].by = eng[1].by
        /\ [eng[1] EXCEPT !.open = FALSE].owner = eng[1].owner
    BY <1>1, <1>3 DEF Engine
  <2>3. ASSUME NEW h \in Object PROVE eng'[h].by \subseteq eng'[h].owner
    <3>1. CASE h = 1
      BY <1>1, <1>3, <1>11, <2>2, <3>1 DEF FenceInv, EngineNotMixed
    <3>2. CASE h # 1
      BY <1>3, <1>11, <3>2 DEF FenceInv, EngineNotMixed
    <3> QED BY <3>1, <3>2
  <2> QED BY <1>4, <1>8, <2>1, <2>3 DEF FenceInv, EngineNotMixed, NoUseOfClosedEngine
<1> QED BY <1>4, <1>10, <1>11

(* A mutation is accepted from the client whose init made the engine only, *)
(* and into an open engine only.                                           *)
LEMMA FenceMutating ==
    ASSUME FenceInv, NEW g \in Object, handleMutating(g)
    PROVE  ClientsFenced' /\ RequestsFenced' /\ EngineNotMixed' /\ NoUseOfClosedEngine'
<1>1. /\ worker[g].group = 1 /\ 1 \in Object /\ TheRequest(g) \in Request
      /\ Fenced(TheRequest(g).client, TheRequest(g).epoch)
  BY FenceHandling DEF handleMutating, Handling
<1>2. PICK k \in Client : k = TheRequest(g).client
  BY <1>1 DEF Request
<1>3. UNCHANGED <<initEpoch, epoch, log>>
  BY DEF handleMutating
<1>4. CASE eng[1] = NoEngine \/ ~checkInitEpoch(1, TheRequest(g).epoch)
  <2>1. UNCHANGED <<eng, fault>>
    BY <1>1, <1>4 DEF handleMutating
  <2> QED BY <1>3, <2>1, FenceUntouched
<1>5. CASE ~(eng[1] = NoEngine \/ ~checkInitEpoch(1, TheRequest(g).epoch))
  <2>1. eng[1] # NoEngine /\ eng[1].open /\ eng[1].owner = {k}
    BY <1>1, <1>2, <1>5 DEF checkInitEpoch, Fenced
  <2>2. /\ eng' = [eng EXCEPT ![1] = [eng[1] EXCEPT !.by = eng[1].by \cup {k}]]
        /\ fault' = IF eng[1].open THEN fault ELSE "closed engine"
    BY <1>1, <1>2, <1>5 DEF handleMutating
  <2>3. eng \in [Object -> Engine] /\ eng[1].by \subseteq eng[1].owner
    BY <1>1 DEF FenceInv, Inv, TypeInv, TypeOK, EngineNotMixed
  <2>4. /\ [eng[1] EXCEPT !.by = eng[1].by \cup {k}].by = eng[1].by \cup {k}
        /\ [eng[1] EXCEPT !.by = eng[1].by \cup {k}].owner = eng[1].owner
        /\ [eng[1] EXCEPT !.by = eng[1].by \cup {k}].open = eng[1].open
    BY <1>1, <2>3 DEF Engine
  <2>5. /\ eng'[1].by = eng[1].by \cup {k} /\ eng'[1].owner = {k} /\ eng'[1].open
        /\ \A h \in Object : h # 1 => eng'[h] = eng[h]
    BY <1>1, <2>1, <2>2, <2>3, <2>4
  <2>6. ASSUME NEW h \in Object PROVE eng'[h].by \subseteq eng'[h].owner
    BY <2>1, <2>3, <2>5 DEF FenceInv, EngineNotMixed
  <2>7. ASSUME NEW j, NEW f, Fenced(j, f)
        PROVE  /\ f <= initEpoch'[1]
               /\ f = initEpoch'[1] /\ eng'[1] # NoEngine => eng'[1].open /\ eng'[1].owner = {j}
    BY <1>3, <2>1, <2>5, <2>7 DEF Fenced
  <2>8. ClientsFenced' /\ RequestsFenced'
    BY <1>3, <2>7 DEF FenceInv, ClientsFenced, RequestsFenced, Fenced
  <2>9. fault' = fault
    BY <2>1, <2>2
  <2> QED BY <2>6, <2>8, <2>9 DEF FenceInv, EngineNotMixed, NoUseOfClosedEngine
<1> QED BY <1>4, <1>5

(* The steps of a worker leave the group where it is.                      *)
LEMMA FenceWorkerStep ==
    ASSUME FenceInv, NEW g \in Object, WorkerStep(g), Inv'
    PROVE  FenceInv'
<1>1. worker \in [Object -> WorkerState] /\ idle \in [Object -> BOOLEAN]
  BY DEF FenceInv, Inv, TypeInv, TypeOK
<1>2. worker[g].pc # "shutdown" /\ (worker[g].pc = "handle" => TheRequest(g).method # "destroy")
  BY DEF FenceInv, GroupStays, Inv, TypeInv, WorkersBusy, TheRequest
<1>3. ~handleDestroy(g) /\ ~DestroyShutsDown(g)
  BY <1>2 DEF handleDestroy, DestroyShutsDown
<1>4. UNCHANGED <<log, reaper, closer>> /\ \A h \in Object : ~idle'[h]
  <2>1. CASE DequeueRequest(g)
    BY <1>1, <2>1 DEF DequeueRequest, FenceInv, GroupStays
  <2>2. CASE ~DequeueRequest(g)
    <3>1. UNCHANGED <<log, reaper, closer, idle>>
      BY <1>3, <2>2 DEF WorkerStep, WorkerExits, ResolveGroup, handleInit, handleMutating
    <3> QED BY <3>1 DEF FenceInv, GroupStays
  <2> QED BY <2>1, <2>2
<1>5. /\ created' \in {0, 1} /\ group' = created'
      /\ \/ worker'[g].pc \notin {"lock", "shutdown"}
         \/ worker'[g].pc = "lock" /\ worker'[g].group = 1
      /\ \A h \in Object : h # g => worker'[h] = worker[h]
  <2>1. CASE ResolveGroup(g)
    <3>1. PICK t \in Object : getGroup(t) /\ Goes(g, "lock", t)
      BY <2>1 DEF ResolveGroup
    <3>2. worker' = [worker EXCEPT ![g] = [pc |-> "lock", group |-> t, req |-> worker[g].req]]
      BY <3>1 DEF Goes
    <3>3. t = 1 /\ created' \in {0, 1} /\ group' = created'
      BY <3>1, GetGroupIsOne
    <3> QED BY <1>1, <3>2, <3>3
  <2>2. CASE ~ResolveGroup(g)
    <3>1. UNCHANGED <<group, created>>
      BY <1>3, <2>2 DEF WorkerStep, DequeueRequest, WorkerExits, handleInit, handleMutating
    <3>2. \E w : w.pc \notin {"lock", "shutdown"} /\ worker' = [worker EXCEPT ![g] = w]
      <4>1. CASE DequeueRequest(g)
        BY <4>1 DEF DequeueRequest
      <4>2. CASE WorkerExits(g)
        BY <4>2 DEF WorkerExits, Goes
      <4>3. CASE handleInit(g) \/ handleMutating(g)
        BY <4>3 DEF handleInit, handleMutating, Answer
      <4> QED BY <1>3, <2>2, <4>1, <4>2, <4>3 DEF WorkerStep
    <3>3. PICK w : w.pc \notin {"lock", "shutdown"} /\ worker' = [worker EXCEPT ![g] = w]
      BY <3>2
    <3> QED BY <1>1, <3>1, <3>3 DEF FenceInv, GroupStays
  <2> QED BY <2>1, <2>2
<1>6. GroupStays'
  BY <1>4, <1>5 DEF FenceInv, GroupStays
<1>7. ClientsFenced' /\ RequestsFenced' /\ EngineNotMixed' /\ NoUseOfClosedEngine'
  <2>1. CASE handleInit(g)
    BY <2>1, FenceInit
  <2>2. CASE handleMutating(g)
    BY <2>2, FenceMutating
  <2>3. CASE DequeueRequest(g) \/ WorkerExits(g) \/ ResolveGroup(g)
    <3>1. UNCHANGED <<eng, initEpoch, epoch, log, fault>>
      BY <2>3 DEF DequeueRequest, WorkerExits, ResolveGroup, objects
    <3> QED BY <3>1, FenceUntouched
  <2> QED BY <1>3, <2>1, <2>2, <2>3 DEF WorkerStep
<1> QED BY <1>6, <1>7 DEF FenceInv

(* Nothing else can happen while nothing discards the group.               *)
LEMMA NothingDiscards ==
    ASSUME OneGroup, FenceInv
    PROVE  ~BecomesIdle /\ ~ReaperStep /\ ~closeAllTakes /\ ~closeAllShutsDown /\ ~ProcessExits
<1>1. ~BecomesIdle
  <2>1. reaps \in Nat
    BY DEF FenceInv, Inv, TypeInv, TypeOK
  <2> QED BY <2>1 DEF BecomesIdle, OneGroup
<1>2. ~ReaperPicks
  <2>1. group \in Object \cup {NoGroup} /\ \A h \in Object : ~idle[h]
    BY DEF FenceInv, Inv, TypeInv, TypeOK, GroupStays
  <2> QED BY <2>1 DEF ReaperPicks
<1>3. ~ReaperChecks /\ ~ReaperShutsDown /\ ~closeAllShutsDown
  BY DEF FenceInv, GroupStays, ReaperChecks, ReaperShutsDown, closeAllShutsDown
<1>4. ~closeAllTakes
  BY DEF closeAllTakes, OneGroup
<1>5. ~ProcessExits
  BY DEF FenceInv, GroupStays, ProcessExits
<1> QED BY <1>1, <1>2, <1>3, <1>4, <1>5 DEF ReaperStep

(* Every step keeps the fence while nothing discards the group.            *)
LEMMA NextFence ==
    ASSUME OneGroup, FenceInv, [Next]_vars
    PROVE  FenceInv'
<1>1. Inv'
  BY NextInv DEF FenceInv
<1>2. ASSUME NEW c \in Conn, NEW k \in Client, NEW m \in Method, ReadRequest(c, k, m)
      PROVE  FenceInv'
  BY <1>1, <1>2, FenceReadRequest
<1>3. ASSUME NEW g \in Object, WorkerStep(g) PROVE FenceInv'
  BY <1>1, <1>3, FenceWorkerStep
<1>4. ~BecomesIdle /\ ~ReaperStep /\ ~closeAllTakes /\ ~closeAllShutsDown /\ ~ProcessExits
  BY NothingDiscards
<1>5. CASE (\E c \in Conn : ReaderStep(c)) \/ UNCHANGED vars
  <2>1. UNCHANGED <<group, created, eng, initEpoch, idle, log, worker, reaper, closer, epoch>>
    BY <1>5, ReaderFrame DEF vars, objects
  <2>2. GroupStays'
    BY <2>1 DEF FenceInv, GroupStays
  <2>3. ClientsFenced' /\ RequestsFenced' /\ EngineNotMixed'
    BY <2>1 DEF FenceInv, ClientsFenced, RequestsFenced, Fenced, EngineNotMixed
  <2>4. fault' \in {fault, "panic"}
    BY <1>5 DEF ReaderStep, trySendReq, SendNow, SendWaits, SendRefused, trySendReqResumes, vars
  <2>5. NoUseOfClosedEngine'
    BY <2>4 DEF FenceInv, NoUseOfClosedEngine
  <2> QED BY <1>1, <2>2, <2>3, <2>5 DEF FenceInv
<1> QED BY <1>2, <1>3, <1>4, <1>5 DEF Next

(* The fence holds before the first request.                               *)
LEMMA InitFence == Init => FenceInv
<1> SUFFICES ASSUME Init PROVE FenceInv
  OBVIOUS
<1>1. Inv
  BY InitInv
<1>2. 1 \in Object
  BY ClientGroupAssumption DEF Object
<1>3. GroupStays
  BY DEF Init, GroupStays, NoGroup
<1>4. ClientsFenced /\ RequestsFenced
  BY <1>2 DEF Init, ClientsFenced, RequestsFenced, Fenced
<1>5. EngineNotMixed /\ NoUseOfClosedEngine
  BY DEF Init, EngineNotMixed, NoUseOfClosedEngine, NoEngine
<1> QED BY <1>1, <1>3, <1>4, <1>5 DEF FenceInv

(* While nothing discards the group, the init epoch does what its comment  *)
(* says: an engine takes mutations from the instance whose init made it    *)
(* and from no other, in any interleaving of any number of instances,      *)
(* connections and requests, with inits that fail.                         *)
THEOREM EpochFence ==
    ASSUME OneGroup
    PROVE  Spec => []EngineNotMixed
<1>1. FenceInv /\ [Next]_vars => FenceInv'
  BY NextFence
<1>2. FenceInv => EngineNotMixed
  BY DEF FenceInv
<1> QED BY <1>1, <1>2, InitFence, PTL DEF Spec

(* Nor does a handler ever work on a closed engine, although an init that  *)
(* fails leaves one in the group.                                          *)
THEOREM ClosedEngineUnused ==
    ASSUME OneGroup
    PROVE  Spec => []NoUseOfClosedEngine
<1>1. FenceInv /\ [Next]_vars => FenceInv'
  BY NextFence
<1>2. FenceInv => NoUseOfClosedEngine
  BY DEF FenceInv
<1> QED BY <1>1, <1>2, InitFence, PTL DEF Spec

-----------------------------------------------------------------------------
(* Order of the requests of a connection, while nothing discards the       *)
(* group.  There is then one queue and one worker.  A request that is not  *)
(* answered is with its read loop, in the queue or with the worker, and of *)
(* two requests of a connection the earlier one is ahead.                  *)

AtWorker(i) == worker[1].pc \in {"handle", "lock"} /\ worker[1].req = i
InQueue(i)  == \E p \in DOMAIN reqC[1] : reqC[1][p] = i
AtReader(i) == \E c \in Conn : reader[c].pc # "read" /\ reader[c].req = i

NothingLost ==
    \A i \in DOMAIN log : i \in answered \/ AtWorker(i) \/ InQueue(i) \/ AtReader(i)

QueueOrdered ==
    \A p, q \in DOMAIN reqC[1] :
        p < q /\ log[reqC[1][p]].conn = log[reqC[1][q]].conn => reqC[1][p] < reqC[1][q]

WorkerAhead ==
    worker[1].pc \in {"handle", "lock"} =>
        \A p \in DOMAIN reqC[1] :
            log[worker[1].req].conn = log[reqC[1][p]].conn => worker[1].req < reqC[1][p]

ReaderBehind(c) ==
    /\ reader[c].group = 1 /\ log[reader[c].req].conn = c
    /\ \A i \in DOMAIN log : log[i].conn = c => i <= reader[c].req
    /\ \A p \in DOMAIN reqC[1] : reqC[1][p] # reader[c].req
    /\ ~AtWorker(reader[c].req)

ReadersBehind == \A c \in Conn : reader[c].pc # "read" => ReaderBehind(c)

OneWorker ==
    /\ \A g \in Object : ~closed[g]
    /\ \A g \in Object : g # 1 => worker[g].pc = "wait" /\ reqC[g] = <<>>

AnsweredInOrder ==
    \A i, j \in DOMAIN log :
        i < j /\ log[i].conn = log[j].conn /\ j \in answered => i \in answered

OrderInv ==
    /\ FenceInv /\ answered \subseteq DOMAIN log
    /\ OneWorker /\ NothingLost /\ QueueOrdered /\ WorkerAhead /\ ReadersBehind
    /\ AnsweredInOrder

(* What the order of the requests needs to know of the state.              *)
LEMMA OrderTypes ==
    ASSUME OrderInv
    PROVE  /\ 1 \in Object
           /\ log \in Seq(Request) /\ DOMAIN log = 1..Len(log) /\ Len(log) \in Nat
           /\ reqC \in [Object -> Seq(Id)] /\ reqC[1] \in Seq(Id)
           /\ DOMAIN reqC[1] = 1..Len(reqC[1]) /\ Len(reqC[1]) \in Nat
           /\ \A p \in DOMAIN reqC[1] : reqC[1][p] \in DOMAIN log
           /\ worker \in [Object -> WorkerState] /\ reader \in [Conn -> ReaderState]
           /\ worker[1].pc \in {"handle", "lock"} => worker[1].req \in DOMAIN log
           /\ \A c \in Conn : reader[c].pc # "read" => reader[c].req \in DOMAIN log
<1>1. 1 \in Object
  BY ClientGroupAssumption DEF Object
<1>2. /\ log \in Seq(Request) /\ reqC \in [Object -> Seq(Id)]
      /\ worker \in [Object -> WorkerState] /\ reader \in [Conn -> ReaderState]
  BY DEF OrderInv, FenceInv, Inv, TypeInv, TypeOK
<1>3. reqC[1] \in Seq(Id)
  BY <1>1, <1>2
<1>4. DOMAIN log = 1..Len(log) /\ Len(log) \in Nat
      /\ DOMAIN reqC[1] = 1..Len(reqC[1]) /\ Len(reqC[1]) \in Nat
  BY <1>2, <1>3
<1>5. \A p \in DOMAIN reqC[1] : reqC[1][p] \in DOMAIN log
  BY <1>1 DEF OrderInv, FenceInv, Inv, TypeInv, QueuedAreRead
<1>6. /\ worker[1].pc \in {"handle", "lock"} => worker[1].req \in DOMAIN log
      /\ \A c \in Conn : reader[c].pc # "read" => reader[c].req \in DOMAIN log
  BY <1>1 DEF OrderInv, FenceInv, Inv, TypeInv, WorkersBusy, ReadersBusy
<1> QED BY <1>1, <1>2, <1>3, <1>4, <1>5, <1>6

(* A new request is the last of its connection.                            *)
LEMMA OrderReadRequest ==
    ASSUME OneGroup, OrderInv, NEW c \in Conn, NEW k \in Client, NEW m \in Method,
           ReadRequest(c, k, m), FenceInv'
    PROVE  OrderInv'
<1> DEFINE r == [conn |-> c, client |-> k, method |-> m, epoch |-> epoch[k]]
           n == Len(log) + 1
<1>1. PICK g \in Object :
        /\ getGroup(g)
        /\ reader' = [reader EXCEPT ![c] = [pc |-> "send", group |-> g, req |-> n]]
  BY DEF ReadRequest
<1>2. /\ log' = Append(log, r) /\ reader[c].pc = "read"
      /\ UNCHANGED <<reqC, closed, worker, answered>>
  BY DEF ReadRequest, objects
<1>3. g = 1
  BY <1>1, GetGroupIsOne DEF OrderInv
<1>4. r.conn = c
  OBVIOUS
<1>5. r \in Request
  BY DEF Request, OrderInv, FenceInv, Inv, TypeInv, TypeOK
<1>6. /\ 1 \in Object
      /\ log \in Seq(Request) /\ DOMAIN log = 1..Len(log) /\ Len(log) \in Nat
      /\ \A p \in DOMAIN reqC[1] : reqC[1][p] \in DOMAIN log
      /\ reader \in [Conn -> ReaderState]
      /\ worker[1].pc \in {"handle", "lock"} => worker[1].req \in DOMAIN log
      /\ \A d \in Conn : reader[d].pc # "read" => reader[d].req \in DOMAIN log
  BY OrderTypes
<1> HIDE DEF r
<1>7. /\ DOMAIN log' = DOMAIN log \cup {n} /\ n \notin DOMAIN log
      /\ \A i \in DOMAIN log : log'[i] = log[i] /\ i < n
      /\ log'[n].conn = c /\ n \in Nat
  BY <1>2, <1>4, <1>5, <1>6
<1>8. /\ reader'[c].pc = "send" /\ reader'[c].group = 1 /\ reader'[c].req = n
      /\ \A d \in Conn : d # c => reader'[d] = reader[d]
  BY <1>1, <1>3, <1>6
<1> HIDE DEF n
<1>9. answered' \subseteq DOMAIN log' /\ OneWorker'
  BY <1>2, <1>7 DEF OrderInv, OneWorker
<1>10. NothingLost'
  <2> SUFFICES ASSUME NEW i \in DOMAIN log', i \notin answered'
               PROVE  AtWorker(i)' \/ InQueue(i)' \/ AtReader(i)'
    BY DEF NothingLost
  <2>1. CASE i = n
    BY <2>1, <1>8 DEF AtReader
  <2>2. CASE i \in DOMAIN log
    <3>1. AtWorker(i) \/ InQueue(i) \/ AtReader(i)
      BY <1>2, <2>2 DEF OrderInv, NothingLost
    <3>2. CASE AtReader(i)
      BY <1>2, <1>8, <3>2 DEF AtReader
    <3>3. CASE AtWorker(i) \/ InQueue(i)
      BY <1>2, <3>3 DEF AtWorker, InQueue
    <3> QED BY <3>1, <3>2, <3>3
  <2> QED BY <1>7, <2>1, <2>2
<1>11. QueueOrdered' /\ WorkerAhead'
  BY <1>2, <1>6, <1>7 DEF OrderInv, QueueOrdered, WorkerAhead
<1>12. ASSUME NEW d \in Conn, reader'[d].pc # "read" PROVE ReaderBehind(d)'
  <2>1. CASE d = c
    <3>1. \A i \in DOMAIN log' : i <= n
      BY <1>6, <1>7
    <3>2. \A p \in DOMAIN reqC[1] : reqC[1][p] # n
      BY <1>6, <1>7
    <3>3. ~AtWorker(n)
      BY <1>6, <1>7 DEF AtWorker
    <3> QED BY <1>2, <1>7, <1>8, <2>1, <3>1, <3>2, <3>3 DEF ReaderBehind, AtWorker
  <2>2. CASE d # c
    <3>1. reader'[d] = reader[d] /\ ReaderBehind(d) /\ reader[d].req \in DOMAIN log
      BY <1>6, <1>8, <1>12, <2>2 DEF OrderInv, ReadersBehind
    <3> QED BY <1>2, <1>7, <2>2, <3>1 DEF ReaderBehind, AtWorker
  <2> QED BY <2>1, <2>2
<1>13. AnsweredInOrder'
  <2> SUFFICES ASSUME NEW i \in DOMAIN log', NEW j \in DOMAIN log', i < j,
                      log'[i].conn = log'[j].conn, j \in answered
               PROVE  i \in answered
    BY <1>2 DEF AnsweredInOrder
  <2>1. j \in DOMAIN log
    BY DEF OrderInv
  <2>2. i \in DOMAIN log
    BY <1>6, <1>7, <2>1
  <2> QED BY <1>7, <2>1, <2>2 DEF OrderInv, AnsweredInOrder
<1> QED BY <1>9, <1>10, <1>11, <1>12, <1>13 DEF OrderInv, ReadersBehind

(* The read loop appends its request, the last of its connection.          *)
LEMMA OrderEnqueue ==
    ASSUME OrderInv, NEW c \in Conn, reader[c].pc # "read", Enqueue(c),
           UNCHANGED <<log, worker, answered>>, FenceInv'
    PROVE  OrderInv'
<1> DEFINE n == reader[c].req
           Q == reqC[1]
<1>1. /\ 1 \in Object
      /\ log \in Seq(Request) /\ DOMAIN log = 1..Len(log) /\ Len(log) \in Nat
      /\ reqC \in [Object -> Seq(Id)] /\ Q \in Seq(Id)
      /\ DOMAIN Q = 1..Len(Q) /\ Len(Q) \in Nat
      /\ \A p \in DOMAIN Q : Q[p] \in DOMAIN log
      /\ reader \in [Conn -> ReaderState]
      /\ worker[1].pc \in {"handle", "lock"} => worker[1].req \in DOMAIN log
      /\ \A d \in Conn : reader[d].pc # "read" => reader[d].req \in DOMAIN log
  BY OrderTypes
<1>2. ReaderBehind(c) /\ n \in DOMAIN log
  BY <1>1 DEF OrderInv, ReadersBehind
<1>3. /\ reqC' = [reqC EXCEPT ![1] = Append(Q, n)] /\ closed' = closed
      /\ reader' = [reader EXCEPT ![c] = [pc |-> "read", group |-> NoGroup, req |-> 0]]
  BY <1>2 DEF Enqueue, Reading, ReaderBehind
<1>4. n \in Id
  <2>1. Len(log) <= MaxRequests
    BY DEF OrderInv, FenceInv, Inv, TypeInv, LogBounded
  <2> QED BY <1>1, <1>2, <2>1, ClientGroupAssumption DEF Id
<1>5. /\ reqC'[1] = Append(Q, n) /\ \A g \in Object : g # 1 => reqC'[g] = reqC[g]
      /\ reader'[c].pc = "read" /\ \A d \in Conn : d # c => reader'[d] = reader[d]
  BY <1>1, <1>3
<1>11. /\ \A i \in DOMAIN log : log[i].conn = c => i <= n
       /\ log[n].conn = c
       /\ \A p \in DOMAIN Q : Q[p] # n
       /\ ~AtWorker(n)
  BY <1>2 DEF ReaderBehind
<1> HIDE DEF n, Q
<1>6. /\ DOMAIN reqC'[1] = DOMAIN Q \cup {Len(Q) + 1} /\ Len(Q) + 1 \notin DOMAIN Q
      /\ reqC'[1][Len(Q) + 1] = n
      /\ \A p \in DOMAIN Q : reqC'[1][p] = Q[p] /\ p < Len(Q) + 1
  BY <1>1, <1>4, <1>5
<1>7. OneWorker'
  BY <1>3, <1>5 DEF OrderInv, OneWorker
<1>8. NothingLost'
  <2> SUFFICES ASSUME NEW i \in DOMAIN log, i \notin answered
               PROVE  AtWorker(i)' \/ InQueue(i)' \/ AtReader(i)'
    BY DEF NothingLost
  <2>1. AtWorker(i) \/ InQueue(i) \/ AtReader(i)
    BY DEF OrderInv, NothingLost
  <2>2. CASE AtWorker(i)
    BY <2>2 DEF AtWorker
  <2>3. CASE InQueue(i)
    BY <1>6, <2>3 DEF InQueue, Q
  <2>4. CASE AtReader(i)
    <3>1. PICK d \in Conn : reader[d].pc # "read" /\ reader[d].req = i
      BY <2>4 DEF AtReader
    <3>2. CASE d = c
      BY <1>6, <3>1, <3>2 DEF InQueue, n
    <3>3. CASE d # c
      BY <1>5, <3>1, <3>3 DEF AtReader
    <3> QED BY <3>2, <3>3
  <2> QED BY <2>1, <2>2, <2>3, <2>4
<1>9. QueueOrdered'
  <2> SUFFICES ASSUME NEW p \in DOMAIN reqC'[1], NEW q \in DOMAIN reqC'[1], p < q,
                      log[reqC'[1][p]].conn = log[reqC'[1][q]].conn
               PROVE  reqC'[1][p] < reqC'[1][q]
    BY DEF QueueOrdered
  <2>1. p \in DOMAIN Q
    BY <1>1, <1>6
  <2>2. CASE q \in DOMAIN Q
    BY <1>6, <2>1, <2>2 DEF OrderInv, QueueOrdered, Q
  <2>3. CASE q = Len(Q) + 1
    <3>1. Q[p] \in DOMAIN log /\ log[Q[p]].conn = c /\ reqC'[1][q] = n /\ reqC'[1][p] = Q[p]
      BY <1>1, <1>6, <1>11, <2>1, <2>3
    <3>2. Q[p] <= n /\ Q[p] # n /\ Q[p] \in Nat /\ n \in Nat
      BY <1>1, <1>2, <1>11, <2>1, <3>1 DEF n
    <3> QED BY <3>1, <3>2
  <2> QED BY <1>6, <2>2, <2>3
<1>10. WorkerAhead'
  <2> SUFFICES ASSUME worker[1].pc \in {"handle", "lock"}, NEW p \in DOMAIN reqC'[1],
                      log[worker[1].req].conn = log[reqC'[1][p]].conn
               PROVE  worker[1].req < reqC'[1][p]
    BY DEF WorkerAhead
  <2>1. CASE p \in DOMAIN Q
    BY <1>6, <2>1 DEF OrderInv, WorkerAhead, Q
  <2>2. CASE p = Len(Q) + 1
    <3>1. worker[1].req \in DOMAIN log /\ log[worker[1].req].conn = c /\ reqC'[1][p] = n
      BY <1>1, <1>6, <1>11, <2>2
    <3>2. worker[1].req <= n /\ worker[1].req # n
      BY <1>11, <3>1 DEF AtWorker
    <3>3. worker[1].req \in Nat /\ n \in Nat
      BY <1>1, <1>2, <3>1 DEF n
    <3> QED BY <3>1, <3>2, <3>3
  <2> QED BY <1>6, <2>1, <2>2
<1>12. ASSUME NEW d \in Conn, reader'[d].pc # "read" PROVE ReaderBehind(d)'
  <2>1. d # c /\ reader'[d] = reader[d] /\ ReaderBehind(d)
    BY <1>5, <1>12 DEF OrderInv, ReadersBehind
  <2>2. reader[d].req # n
    BY <1>11, <2>1 DEF ReaderBehind
  <2>3. \A p \in DOMAIN reqC'[1] : reqC'[1][p] # reader[d].req
    BY <1>6, <2>1, <2>2 DEF ReaderBehind, Q
  <2> QED BY <2>1, <2>3 DEF ReaderBehind, AtWorker
<1>13. AnsweredInOrder' /\ answered' \subseteq DOMAIN log'
  BY DEF OrderInv, AnsweredInOrder
<1> QED BY <1>7, <1>8, <1>9, <1>10, <1>12, <1>13 DEF OrderInv, ReadersBehind

(* The worker takes the first request of the queue.                        *)
LEMMA OrderDequeue ==
    ASSUME OrderInv, DequeueRequest(1), FenceInv'
    PROVE  OrderInv'
<1> DEFINE n == Head(reqC[1])
           Q == reqC[1]
<1>1. /\ 1 \in Object
      /\ log \in Seq(Request) /\ DOMAIN log = 1..Len(log) /\ Len(log) \in Nat
      /\ reqC \in [Object -> Seq(Id)] /\ Q \in Seq(Id)
      /\ DOMAIN Q = 1..Len(Q) /\ Len(Q) \in Nat
      /\ \A p \in DOMAIN Q : Q[p] \in DOMAIN log
      /\ worker \in [Object -> WorkerState]
      /\ \A d \in Conn : reader[d].pc # "read" => reader[d].req \in DOMAIN log
  BY OrderTypes
<1>2. /\ Q # <<>> /\ worker[1].pc = "wait"
      /\ reqC' = [reqC EXCEPT ![1] = Tail(Q)]
      /\ worker' = [worker EXCEPT ![1] = [pc |-> "handle", group |-> NoGroup, req |-> n]]
      /\ UNCHANGED <<closed, log, answered, reader>>
  BY DEF DequeueRequest
<1>3. /\ n = Q[1] /\ 1 \in DOMAIN Q
      /\ DOMAIN Tail(Q) = 1..(Len(Q) - 1)
      /\ \A p \in DOMAIN Tail(Q) : p + 1 \in DOMAIN Q /\ 1 < p + 1 /\ Tail(Q)[p] = Q[p + 1]
  BY <1>1, <1>2
<1>4. /\ reqC'[1] = Tail(Q) /\ \A g \in Object : g # 1 => reqC'[g] = reqC[g]
      /\ worker'[1].pc = "handle" /\ worker'[1].req = n
      /\ \A g \in Object : g # 1 => worker'[g] = worker[g]
  BY <1>1, <1>2
<1> HIDE DEF n
<1>5. OneWorker'
  BY <1>2, <1>4 DEF OrderInv, OneWorker
<1>6. NothingLost'
  <2> SUFFICES ASSUME NEW i \in DOMAIN log, i \notin answered
               PROVE  AtWorker(i)' \/ InQueue(i)' \/ AtReader(i)'
    BY <1>2 DEF NothingLost
  <2>1. AtWorker(i) \/ InQueue(i) \/ AtReader(i)
    BY DEF OrderInv, NothingLost
  <2>2. ~AtWorker(i)
    BY <1>2 DEF AtWorker
  <2>3. CASE InQueue(i)
    <3>1. PICK p \in DOMAIN Q : Q[p] = i
      BY <2>3 DEF InQueue
    <3>2. CASE p = 1
      BY <1>3, <1>4, <3>1, <3>2 DEF AtWorker
    <3>3. CASE p # 1
      <4>1. p - 1 \in DOMAIN Tail(Q) /\ Tail(Q)[p - 1] = Q[p]
        BY <1>1, <1>3, <3>1, <3>3
      <4> QED BY <1>4, <3>1, <4>1 DEF InQueue
    <3> QED BY <3>2, <3>3
  <2>4. CASE AtReader(i)
    BY <1>2, <2>4 DEF AtReader
  <2> QED BY <2>1, <2>2, <2>3, <2>4
<1>7. QueueOrdered'
  <2> SUFFICES ASSUME NEW p \in DOMAIN reqC'[1], NEW q \in DOMAIN reqC'[1], p < q,
                      log[reqC'[1][p]].conn = log[reqC'[1][q]].conn
               PROVE  reqC'[1][p] < reqC'[1][q]
    BY <1>2 DEF QueueOrdered
  <2>1. p + 1 \in DOMAIN Q /\ q + 1 \in DOMAIN Q /\ p + 1 < q + 1
        /\ reqC'[1][p] = Q[p + 1] /\ reqC'[1][q] = Q[q + 1]
    BY <1>1, <1>3, <1>4
  <2> QED BY <1>2, <2>1 DEF OrderInv, QueueOrdered
<1>8. WorkerAhead'
  <2> SUFFICES ASSUME NEW p \in DOMAIN Tail(Q), log[n].conn = log[Tail(Q)[p]].conn
               PROVE  n < Tail(Q)[p]
    BY <1>2, <1>4 DEF WorkerAhead
  <2>1. p + 1 \in DOMAIN Q /\ 1 < p + 1 /\ Tail(Q)[p] = Q[p + 1]
    BY <1>3
  <2> QED BY <1>3, <2>1 DEF OrderInv, QueueOrdered
<1>9. ASSUME NEW d \in Conn, reader'[d].pc # "read" PROVE ReaderBehind(d)'
  <2>1. reader'[d] = reader[d] /\ ReaderBehind(d)
    BY <1>2, <1>9 DEF OrderInv, ReadersBehind
  <2>2. \A p \in DOMAIN Q : Q[p] # reader[d].req
    BY <2>1 DEF ReaderBehind
  <2>3. n # reader[d].req /\ \A p \in DOMAIN Tail(Q) : Tail(Q)[p] # reader[d].req
    BY <1>3, <2>2
  <2> QED BY <1>2, <1>4, <2>1, <2>3 DEF ReaderBehind, AtWorker
<1>10. AnsweredInOrder' /\ answered' \subseteq DOMAIN log'
  BY <1>2 DEF OrderInv, AnsweredInOrder
<1> QED BY <1>5, <1>6, <1>7, <1>8, <1>9, <1>10 DEF OrderInv, ReadersBehind

(* The worker answers its request: those of the connection before it have  *)
(* been answered, for they are nowhere else.                               *)
LEMMA OrderAnswer ==
    ASSUME OrderInv, worker[1].pc \in {"handle", "lock"}, Answer(1),
           UNCHANGED <<closed, log, reqC, reader>>, FenceInv'
    PROVE  OrderInv'
<1> DEFINE n == worker[1].req
<1>1. /\ 1 \in Object
      /\ DOMAIN log = 1..Len(log) /\ Len(log) \in Nat
      /\ \A p \in DOMAIN reqC[1] : reqC[1][p] \in DOMAIN log
      /\ worker \in [Object -> WorkerState]
      /\ n \in DOMAIN log
      /\ \A d \in Conn : reader[d].pc # "read" => reader[d].req \in DOMAIN log
  BY OrderTypes
<1>2. /\ answered' = answered \cup {n}
      /\ worker' = [worker EXCEPT ![1] = [pc |-> "wait", group |-> NoGroup, req |-> 0]]
  BY DEF Answer
<1>3. worker'[1].pc = "wait" /\ \A g \in Object : g # 1 => worker'[g] = worker[g]
  BY <1>1, <1>2
<1>4. OneWorker' /\ answered' \subseteq DOMAIN log'
  BY <1>1, <1>2, <1>3 DEF OrderInv, OneWorker
<1>5. NothingLost'
  <2> SUFFICES ASSUME NEW i \in DOMAIN log, i \notin answered'
               PROVE  InQueue(i)' \/ AtReader(i)'
    BY DEF NothingLost
  <2>1. i \notin answered /\ i # n
    BY <1>2
  <2>2. InQueue(i) \/ AtReader(i)
    BY <2>1 DEF OrderInv, NothingLost, AtWorker
  <2> QED BY <2>2 DEF InQueue, AtReader
<1>6. QueueOrdered' /\ WorkerAhead'
  BY <1>3 DEF OrderInv, QueueOrdered, WorkerAhead
<1>7. ReadersBehind'
  BY <1>3 DEF OrderInv, ReadersBehind, ReaderBehind, AtWorker
<1>8. AnsweredInOrder'
  <2> SUFFICES ASSUME NEW i \in DOMAIN log, NEW j \in DOMAIN log, i < j,
                      log[i].conn = log[j].conn, j \in answered', i \notin answered
               PROVE  i = n
    BY <1>2 DEF AnsweredInOrder
  <2>1. j = n
    BY <1>2 DEF OrderInv, AnsweredInOrder
  <2>2. ~InQueue(i)
    <3> SUFFICES ASSUME NEW p \in DOMAIN reqC[1], reqC[1][p] = i PROVE FALSE
      BY DEF InQueue
    <3>1. n < i
      BY <2>1 DEF OrderInv, WorkerAhead
    <3> QED BY <1>1, <2>1, <3>1
  <2>3. ~AtReader(i)
    <3> SUFFICES ASSUME NEW c \in Conn, reader[c].pc # "read", reader[c].req = i PROVE FALSE
      BY DEF AtReader
    <3>1. ReaderBehind(c)
      BY DEF OrderInv, ReadersBehind
    <3>2. log[i].conn = c /\ j <= i
      BY <3>1 DEF ReaderBehind
    <3> QED BY <1>1, <3>2
  <2> QED BY <2>2, <2>3 DEF OrderInv, NothingLost, AtWorker
<1> QED BY <1>4, <1>5, <1>6, <1>7, <1>8 DEF OrderInv

(* Steps that move a read loop or the worker on with the same request.     *)
LEMMA OrderMoves ==
    ASSUME OrderInv, UNCHANGED <<closed, log, reqC, answered>>, FenceInv',
           \A c \in Conn : /\ reader'[c].pc = "read" <=> reader[c].pc = "read"
                           /\ reader'[c].group = reader[c].group /\ reader'[c].req = reader[c].req,
           \A g \in Object : /\ worker'[g].pc \in {"handle", "lock"} <=> worker[g].pc \in {"handle", "lock"}
                             /\ worker'[g].pc = "wait" <=> worker[g].pc = "wait"
                             /\ worker'[g].req = worker[g].req
    PROVE  OrderInv'
<1>1. 1 \in Object
  BY OrderTypes
<1>2. OneWorker' /\ answered' \subseteq DOMAIN log' /\ AnsweredInOrder' /\ QueueOrdered'
  BY DEF OrderInv, OneWorker, AnsweredInOrder, QueueOrdered
<1>3. \A i : (AtWorker(i)' <=> AtWorker(i)) /\ (InQueue(i)' <=> InQueue(i)) /\ (AtReader(i)' <=> AtReader(i))
  BY <1>1 DEF AtWorker, InQueue, AtReader
<1>4. NothingLost'
  BY <1>3 DEF OrderInv, NothingLost
<1>5. WorkerAhead'
  BY <1>1 DEF OrderInv, WorkerAhead
<1>6. ReadersBehind'
  BY <1>3 DEF OrderInv, ReadersBehind, ReaderBehind
<1> QED BY <1>2, <1>4, <1>5, <1>6 DEF OrderInv

(* A step of a read loop.                                                  *)
LEMMA OrderReader ==
    ASSUME OrderInv, NEW c \in Conn, ReaderStep(c), FenceInv'
    PROVE  OrderInv'
<1>1. UNCHANGED <<closed, log, worker>> /\ reader[c].pc # "read"
  BY ReaderFrame DEF ReaderStep, trySendReq, trySendReqResumes
<1>2. ~closed[reader[c].group]
  <2>1. reader[c].group \in Object
    BY <1>1 DEF OrderInv, FenceInv, Inv, TypeInv, ReadersBusy
  <2> QED BY <2>1 DEF OrderInv, OneWorker
<1>3. CASE SendWaits(c)
  <2>1. /\ UNCHANGED <<reqC, answered>> /\ reader' = [reader EXCEPT ![c].pc = "blocked"]
        /\ reader \in [Conn -> ReaderState]
    BY <1>3, OrderTypes DEF SendWaits
  <2>2. ASSUME NEW d \in Conn
        PROVE /\ reader'[d].pc = "read" <=> reader[d].pc = "read"
              /\ reader'[d].group = reader[d].group /\ reader'[d].req = reader[d].req
    BY <1>1, <2>1 DEF ReaderState
  <2> QED BY <1>1, <2>1, <2>2, OrderMoves
<1>4. CASE ~SendWaits(c)
  <2>1. Enqueue(c) /\ answered' = answered
    BY <1>2, <1>4 DEF ReaderStep, trySendReq, trySendReqResumes, SendNow, SendRefused
  <2> QED BY <1>1, <2>1, OrderEnqueue
<1> QED BY <1>3, <1>4

(* A step of a worker, which is the one worker.                            *)
LEMMA OrderWorker ==
    ASSUME OrderInv, NEW g \in Object, WorkerStep(g), FenceInv'
    PROVE  OrderInv'
<1>1. g = 1
  <2>1. worker[g].pc # "wait" \/ reqC[g] # <<>>
    BY DEF OrderInv, OneWorker, WorkerStep, DequeueRequest, WorkerExits, ResolveGroup, handleInit,
           handleMutating, handleDestroy, DestroyShutsDown, Handling
  <2> QED BY <2>1 DEF OrderInv, OneWorker
<1>2. 1 \in Object /\ worker \in [Object -> WorkerState]
  BY OrderTypes
<1>3. ~WorkerExits(1) /\ ~DestroyShutsDown(1) /\ ~handleDestroy(1)
  <2>1. ~closed[1] /\ worker[1].pc # "shutdown"
    BY <1>2 DEF OrderInv, OneWorker, FenceInv, GroupStays
  <2>2. worker[1].pc = "handle" => TheRequest(1).method # "destroy"
    BY <1>2, OrderTypes DEF OrderInv, FenceInv, GroupStays, TheRequest
  <2> QED BY <2>1, <2>2 DEF WorkerExits, DestroyShutsDown, handleDestroy
<1>4. CASE DequeueRequest(1)
  BY <1>4, OrderDequeue
<1>5. CASE ResolveGroup(1)
  <2>1. PICK t \in Object : Goes(1, "lock", t)
    BY <1>5 DEF ResolveGroup
  <2>2. worker' = [worker EXCEPT ![1] = [pc |-> "lock", group |-> t, req |-> worker[1].req]]
    BY <2>1 DEF Goes
  <2>3. worker[1].pc = "handle" /\ UNCHANGED <<closed, log, reqC, answered, reader>>
    BY <1>5 DEF ResolveGroup, objects
  <2>4. ASSUME NEW h \in Object
        PROVE /\ worker'[h].pc \in {"handle", "lock"} <=> worker[h].pc \in {"handle", "lock"}
              /\ worker'[h].pc = "wait" <=> worker[h].pc = "wait"
              /\ worker'[h].req = worker[h].req
    BY <1>2, <2>2, <2>3
  <2> QED BY <2>3, <2>4, OrderMoves
<1>6. CASE handleInit(1) \/ handleMutating(1)
  <2>1. /\ worker[1].pc \in {"handle", "lock"} /\ Answer(1)
        /\ UNCHANGED <<closed, log, reqC, reader>>
    BY <1>6 DEF handleInit, handleMutating, Handling
  <2> QED BY <2>1, OrderAnswer
<1> QED BY <1>1, <1>3, <1>4, <1>5, <1>6 DEF WorkerStep

(* Every step keeps the order while nothing discards the group.            *)
LEMMA NextOrder ==
    ASSUME OneGroup, OrderInv, [Next]_vars
    PROVE  OrderInv'
<1>1. FenceInv'
  BY NextFence DEF OrderInv
<1>2. ASSUME NEW c \in Conn, NEW k \in Client, NEW m \in Method, ReadRequest(c, k, m)
      PROVE  OrderInv'
  BY <1>1, <1>2, OrderReadRequest
<1>3. ASSUME NEW c \in Conn, ReaderStep(c) PROVE OrderInv'
  BY <1>1, <1>3, OrderReader
<1>4. ASSUME NEW g \in Object, WorkerStep(g) PROVE OrderInv'
  BY <1>1, <1>4, OrderWorker
<1>5. CASE UNCHANGED vars
  BY <1>1, <1>5, OrderMoves DEF vars, objects
<1> QED BY <1>2, <1>3, <1>4, <1>5, NothingDiscards DEF Next, OrderInv

(* Nothing has been handled or queued at the start.                        *)
LEMMA InitOrder == Init => OrderInv
<1> SUFFICES ASSUME Init PROVE OrderInv
  OBVIOUS
<1>1. FenceInv /\ 1 \in Object
  BY InitFence, ClientGroupAssumption DEF Object
<1>2. NothingLost /\ QueueOrdered /\ WorkerAhead /\ ReadersBehind /\ AnsweredInOrder
  BY <1>1 DEF Init, NothingLost, QueueOrdered, WorkerAhead, ReadersBehind, AnsweredInOrder
<1> QED BY <1>1, <1>2 DEF Init, OrderInv, OneWorker

(* While nothing discards the group, the requests of a connection are      *)
(* handled in the order in which its read loop read them, however many     *)
(* connections share the queue and however often it is full.               *)
THEOREM RequestOrder ==
    ASSUME OneGroup
    PROVE  Spec => []HandledInOrder
<1>1. OrderInv /\ [Next]_vars => OrderInv'
  BY NextOrder
<1>2. OrderInv => HandledInOrder
  <2> SUFFICES ASSUME OrderInv, NEW g \in Object, worker[g].pc \in {"handle", "lock", "shutdown"},
                      NEW i \in DOMAIN log, i < worker[g].req,
                      log[i].conn = log[worker[g].req].conn
               PROVE  i \in answered
    BY DEF HandledInOrder
  <2>1. g = 1 /\ worker[1].pc \in {"handle", "lock"} /\ worker[1].req \in DOMAIN log
    BY OrderTypes DEF OrderInv, OneWorker, FenceInv, GroupStays
  <2>2. DOMAIN log \subseteq Nat
    BY OrderTypes
  <2>3. ~AtWorker(i)
    BY <2>1, <2>2 DEF AtWorker
  <2>4. ~InQueue(i)
    BY <2>1, <2>2 DEF InQueue, OrderInv, WorkerAhead
  <2>5. ~AtReader(i)
    BY <2>1, <2>2 DEF AtReader, OrderInv, ReadersBehind, ReaderBehind
  <2> QED BY <2>3, <2>4, <2>5 DEF OrderInv, NothingLost
<1> QED BY <1>1, <1>2, InitOrder, PTL DEF Spec

-----------------------------------------------------------------------------
(* Engines of discarded groups, when the reaper and the signal handler     *)
(* discard them and no client does.  The reaper only takes a group that is *)
(* idle, and nobody works on an idle group, so that no handler still has   *)
(* it when it has left the map.  The signal handler takes any group; a     *)
(* handler that still has it may open an engine in it after the shutdown,  *)
(* but in no other.  Whoever takes a group out of the map finds it open    *)
(* and shuts it down alone.                                                *)

NoDestroys ==
    /\ \A i \in DOMAIN log : log[i].method # "destroy"
    /\ \A g \in Object : worker[g].pc # "shutdown"

Live(g) ==
    \/ group = g
    \/ reaper = [pc |-> "shutdown", group |-> g]
    \/ closer = [pc |-> "closing", group |-> g]

GroupsApart ==
    /\ group <= created
    /\ reaper.pc = "shutdown" => reaper.group <= created /\ reaper.group # group
    /\ closer.pc = "closing" => closer.group <= created /\ closer.group # group
    /\ reaper.pc = "shutdown" /\ closer.pc = "closing" => reaper.group # closer.group
    /\ closer.pc = "up" => closer.group = NoGroup

ClosedAreGone == \A g \in Object : closed[g] => g <= created /\ ~Live(g)

LockedIsLive ==
    \A w \in Object : worker[w].pc = "lock" =>
        worker[w].group = group \/ closer.group = worker[w].group

IdleIsUnused ==
    /\ \A g \in Object : idle[g] => g <= created
    /\ group # NoGroup /\ idle[group] =>
         /\ \A w \in Object : worker[w].pc \in {"wait", "done"} /\ (w # group => reqC[w] = <<>>)
         /\ \A c \in Conn : reader[c].pc # "read" => reader[c].group = group

OpenIsLive == \A g \in Object : eng[g].open => Live(g) \/ closer.group = g

OrphanInv ==
    /\ Inv /\ NoDestroys /\ GroupsApart /\ ClosedAreGone /\ LockedIsLive /\ IdleIsUnused
    /\ OpenIsLive

(* What the argument about discarded groups needs to know of the state.    *)
LEMMA OrphanTypes ==
    ASSUME OrphanInv
    PROVE  /\ group \in Object \cup {NoGroup} /\ created \in Nat
           /\ closed \in [Object -> BOOLEAN] /\ eng \in [Object -> Engine]
           /\ idle \in [Object -> BOOLEAN] /\ worker \in [Object -> WorkerState]
           /\ reader \in [Conn -> ReaderState] /\ reqC \in [Object -> Seq(Id)]
           /\ log \in Seq(Request)
           /\ reaper \in ReaperState /\ closer \in CloserState
           /\ reaper.pc # "wait" => reaper.group \in Object
           /\ closer.pc = "closing" => closer.group \in Object
           /\ Object \subseteq Nat /\ NoGroup \notin Object /\ NoGroup = 0
<1>1. Object \subseteq Nat /\ NoGroup \notin Object
  BY ClientGroupAssumption DEF Object, NoGroup
<1> QED BY <1>1 DEF OrphanInv, Inv, TypeInv, TypeOK, OthersBusy, NoGroup

(* getGroup: the group in the map, or a new one, which is neither idle nor *)
(* closed.                                                                 *)
LEMMA OrphanGetGroup ==
    ASSUME OrphanInv, NEW g \in Object, getGroup(g),
           UNCHANGED <<closed, idle, eng, reaper, closer>>
    PROVE  /\ group' = g /\ g # NoGroup
           /\ \/ group = g /\ created' = created
              \/ group = NoGroup /\ g = created + 1 /\ created' = g /\ ~idle[g]
           /\ GroupsApart' /\ ClosedAreGone' /\ OpenIsLive'
           /\ \A h \in Object : idle'[h] => h <= created'
<1>1. /\ group \in Object \cup {NoGroup} /\ created \in Nat
      /\ closed \in [Object -> BOOLEAN] /\ idle \in [Object -> BOOLEAN]
      /\ reaper.pc # "wait" => reaper.group \in Object
      /\ closer.pc = "closing" => closer.group \in Object
      /\ Object \subseteq Nat /\ NoGroup \notin Object /\ NoGroup = 0
      /\ reaper \in ReaperState /\ closer \in CloserState
  BY OrphanTypes
<1>2. CASE group # NoGroup
  <2>1. g = group /\ group' = group /\ created' = created
    BY <1>2 DEF getGroup
  <2> QED BY <1>1, <1>2, <2>1
          DEF OrphanInv, GroupsApart, ClosedAreGone, OpenIsLive, IdleIsUnused, Live
<1>3. CASE group = NoGroup
  <2>1. g = created + 1 /\ group' = g /\ created' = g
    BY <1>3 DEF getGroup
  <2>2. \A h \in Object : (closed[h] \/ idle[h]) => h <= created
    BY DEF OrphanInv, ClosedAreGone, IdleIsUnused
  <2>3. ~closed[g] /\ ~idle[g] /\ \A h \in Object : (closed[h] \/ idle[h]) => h <= created'
    BY <1>1, <2>1, <2>2
  <2>4. GroupsApart'
    <3>1. reaper.pc = "shutdown" => reaper.group <= created /\ reaper.group \in Nat
      BY <1>1 DEF OrphanInv, GroupsApart
    <3>2. closer.pc = "closing" => closer.group <= created /\ closer.group \in Nat
      BY <1>1 DEF OrphanInv, GroupsApart
    <3>3. reaper.pc = "shutdown" /\ closer.pc = "closing" => reaper.group # closer.group
      BY DEF OrphanInv, GroupsApart
    <3>4. closer.pc = "up" => closer.group = NoGroup
      BY DEF OrphanInv, GroupsApart
    <3> QED BY <1>1, <2>1, <3>1, <3>2, <3>3, <3>4 DEF GroupsApart
  <2>5. ASSUME NEW h \in Object, closed'[h] PROVE h <= created' /\ ~Live(h)'
    <3>1. h # g /\ h <= created' /\ ~Live(h)
      BY <2>3, <2>5 DEF OrphanInv, ClosedAreGone
    <3> QED BY <2>1, <3>1 DEF Live
  <2>6. ASSUME NEW h \in Object, eng'[h].open PROVE Live(h)' \/ closer'.group = h
    <3>1. Live(h) \/ closer.group = h
      BY <2>6 DEF OrphanInv, OpenIsLive
    <3> QED BY <1>1, <1>3, <3>1 DEF Live
  <2> QED BY <1>1, <1>3, <2>1, <2>3, <2>4, <2>5, <2>6 DEF ClosedAreGone, OpenIsLive
<1> QED BY <1>2, <1>3

(* A step of a read loop, or one in which nothing happens.                 *)
LEMMA OrphanReader ==
    ASSUME OrphanInv, NEW c \in Conn, ReaderStep(c), Inv'
    PROVE  OrphanInv'
<1>1. UNCHANGED <<group, created, closed, eng, idle, log, worker, reaper, closer>>
  BY ReaderFrame
<1>2. NoDestroys' /\ GroupsApart' /\ ClosedAreGone' /\ OpenIsLive'
  BY <1>1 DEF OrphanInv, NoDestroys, GroupsApart, ClosedAreGone, OpenIsLive, Live
<1>3. LockedIsLive'
  BY <1>1 DEF OrphanInv, LockedIsLive
<1>4. IdleIsUnused'
  <2>1. \A g \in Object : idle'[g] => g <= created'
    BY <1>1 DEF OrphanInv, IdleIsUnused
  <2> SUFFICES ASSUME group # NoGroup, idle[group]
               PROVE  /\ \A w \in Object : worker[w].pc \in {"wait", "done"} /\ (w # group => reqC'[w] = <<>>)
                      /\ \A d \in Conn : reader'[d].pc # "read" => reader'[d].group = group
    BY <1>1, <2>1 DEF IdleIsUnused
  <2>2. /\ \A w \in Object : worker[w].pc \in {"wait", "done"} /\ (w # group => reqC[w] = <<>>)
        /\ \A d \in Conn : reader[d].pc # "read" => reader[d].group = group
    BY DEF OrphanInv, IdleIsUnused
  <2>3. reader[c].group = group
    BY <2>2 DEF ReaderStep, trySendReq, trySendReqResumes
  <2>4. reader \in [Conn -> ReaderState] /\ reqC \in [Object -> Seq(Id)]
    BY OrphanTypes
  <2>5. CASE SendWaits(c)
    <3>1. reqC' = reqC /\ reader' = [reader EXCEPT ![c].pc = "blocked"]
      BY <2>5 DEF SendWaits
    <3>2. \A d \in Conn : reader'[d].group = reader[d].group /\ (d # c => reader'[d] = reader[d])
      BY <2>4, <3>1 DEF ReaderState
    <3> QED BY <2>2, <2>3, <3>1, <3>2
  <2>6. CASE ~SendWaits(c)
    <3>1. /\ reqC' \in {reqC, [reqC EXCEPT ![reader[c].group] = Append(@, reader[c].req)]}
          /\ Reading(c)
      BY <2>6 DEF ReaderStep, trySendReq, trySendReqResumes, SendNow, SendRefused, Enqueue, objects
    <3>2. \A w \in Object : w # group => reqC'[w] = reqC[w]
      BY <2>3, <2>4, <3>1
    <3>3. \A d \in Conn : reader'[d].pc # "read" => reader'[d] = reader[d]
      BY <2>4, <3>1 DEF Reading
    <3> QED BY <2>2, <3>2, <3>3
  <2> QED BY <2>5, <2>6
<1> QED BY <1>2, <1>3, <1>4 DEF OrphanInv

(* A new request is for the group in the map.                              *)
LEMMA OrphanReadRequest ==
    ASSUME MaxDestroys = 0, OrphanInv, NEW c \in Conn, NEW k \in Client, NEW m \in Method,
           ReadRequest(c, k, m), Inv'
    PROVE  OrphanInv'
<1> DEFINE r == [conn |-> c, client |-> k, method |-> m, epoch |-> epoch[k]]
<1>1. PICK g \in Object :
        /\ getGroup(g)
        /\ reader' = [reader EXCEPT ![c] = [pc |-> "send", group |-> g, req |-> Len(log) + 1]]
  BY DEF ReadRequest
<1>2. log' = Append(log, r)
      /\ UNCHANGED <<reqC, closed, eng, idle, worker, reaper, closer, fault>>
  BY DEF ReadRequest, objects
<1>3. /\ group' = g /\ g # NoGroup
      /\ \/ group = g /\ created' = created
         \/ group = NoGroup /\ g = created + 1 /\ created' = g /\ ~idle[g]
      /\ GroupsApart' /\ ClosedAreGone' /\ OpenIsLive'
      /\ \A h \in Object : idle'[h] => h <= created'
  BY <1>1, <1>2, OrphanGetGroup
<1>4. NoDestroys'
  <2> DEFINE D == {i \in DOMAIN log : log[i].method = "destroy"}
  <2>1. D = {}
    BY DEF OrphanInv, NoDestroys
  <2>2. m = "destroy" => Cardinality(D) < 0
    BY DEF ReadRequest
  <2>7. Cardinality({}) = 0
    BY FS_EmptySet
  <2> HIDE DEF D
  <2>6. m # "destroy"
    BY <2>1, <2>2, <2>7
  <2>3. r.method # "destroy"
    BY <2>6
  <2>4. r \in Request /\ log \in Seq(Request)
    BY DEF Request, OrphanInv, Inv, TypeInv, TypeOK
  <2> HIDE DEF r
  <2>5. \A i \in DOMAIN log' : log'[i] = r \/ (i \in DOMAIN log /\ log'[i] = log[i])
    BY <1>2, <2>4
  <2> QED BY <1>2, <2>3, <2>5 DEF OrphanInv, NoDestroys
<1>5. LockedIsLive'
  <2> SUFFICES ASSUME NEW w \in Object, worker[w].pc = "lock"
               PROVE  worker[w].group = group' \/ closer.group = worker[w].group
    BY <1>2 DEF LockedIsLive
  <2>1. worker[w].group = group \/ closer.group = worker[w].group
    BY <1>2 DEF OrphanInv, LockedIsLive
  <2>2. worker[w].group \in Object
    BY DEF OrphanInv, Inv, TypeInv, WorkersBusy
  <2> QED BY <1>3, <2>1, <2>2, OrphanTypes
<1>6. IdleIsUnused'
  <2> SUFFICES ASSUME idle[g]
               PROVE  /\ \A w \in Object : worker[w].pc \in {"wait", "done"} /\ (w # g => reqC[w] = <<>>)
                      /\ \A d \in Conn : reader'[d].pc # "read" => reader'[d].group = g
    BY <1>2, <1>3 DEF IdleIsUnused
  <2>1. group = g
    BY <1>3
  <2>2. /\ \A w \in Object : worker[w].pc \in {"wait", "done"} /\ (w # g => reqC[w] = <<>>)
        /\ \A d \in Conn : reader[d].pc # "read" => reader[d].group = g
    BY <1>3, <2>1 DEF OrphanInv, IdleIsUnused
  <2>3. reader'[c].group = g /\ \A d \in Conn : d # c => reader'[d] = reader[d]
    BY <1>1, OrphanTypes
  <2> QED BY <2>2, <2>3
<1> QED BY <1>3, <1>4, <1>5, <1>6 DEF OrphanInv

(* A step of a worker.  Its group is in the map, or the signal handler has *)
(* it, and it is not idle.                                                 *)
LEMMA OrphanWorker ==
    ASSUME OrphanInv, NEW g \in Object, WorkerStep(g), Inv'
    PROVE  OrphanInv'
<1>1. /\ worker \in [Object -> WorkerState] /\ idle \in [Object -> BOOLEAN]
      /\ reqC \in [Object -> Seq(Id)] /\ eng \in [Object -> Engine]
      /\ group \in Object \cup {NoGroup} /\ NoGroup \notin Object
  BY OrphanTypes
<1>2. ~handleDestroy(g) /\ ~DestroyShutsDown(g)
  <2>1. worker[g].pc # "shutdown" /\ (worker[g].pc = "handle" => TheRequest(g).method # "destroy")
    BY DEF OrphanInv, NoDestroys, Inv, TypeInv, WorkersBusy, TheRequest
  <2> QED BY <2>1 DEF handleDestroy, DestroyShutsDown
<1>3. UNCHANGED <<closed, log, reader, reaper, closer>>
  BY <1>2 DEF WorkerStep, DequeueRequest, WorkerExits, ResolveGroup, handleInit, handleMutating,
              Handling, objects
<1>4. CASE DequeueRequest(g)
  <2>1. /\ reqC[g] # <<>> /\ reqC' = [reqC EXCEPT ![g] = Tail(@)]
        /\ worker' = [worker EXCEPT ![g] = [pc |-> "handle", group |-> NoGroup, req |-> Head(reqC[g])]]
        /\ idle' = [idle EXCEPT ![g] = FALSE]
        /\ UNCHANGED <<group, created, eng, fault>>
    BY <1>4 DEF DequeueRequest
  <2>2. worker'[g].pc = "handle" /\ \A h \in Object : h # g => worker'[h] = worker[h]
    BY <1>1, <2>1
  <2>3. ~idle'[g] /\ \A h \in Object : h # g => idle'[h] = idle[h] /\ reqC'[h] = reqC[h]
    BY <1>1, <2>1
  <2>4. NoDestroys' /\ LockedIsLive'
    BY <1>3, <2>1, <2>2 DEF OrphanInv, NoDestroys, LockedIsLive
  <2>5. GroupsApart' /\ ClosedAreGone' /\ OpenIsLive'
    BY <1>3, <2>1 DEF OrphanInv, GroupsApart, ClosedAreGone, OpenIsLive, Live
  <2>6. IdleIsUnused'
    <3>1. \A h \in Object : idle'[h] => h <= created'
      BY <2>1, <2>3 DEF OrphanInv, IdleIsUnused
    <3>2. ~(group # NoGroup /\ idle'[group])
      <4> SUFFICES ASSUME group \in Object, idle'[group] PROVE FALSE
        BY <1>1
      <4>1. group # g /\ idle[group]
        BY <2>3
      <4> QED BY <1>1, <2>1, <4>1 DEF OrphanInv, IdleIsUnused
    <3> QED BY <2>1, <3>1, <3>2 DEF IdleIsUnused
  <2> QED BY <2>4, <2>5, <2>6 DEF OrphanInv
<1>5. CASE WorkerExits(g)
  <2>1. /\ worker' = [worker EXCEPT ![g] = [pc |-> "done", group |-> NoGroup, req |-> worker[g].req]]
        /\ UNCHANGED <<group, created, reqC, eng, idle, fault>>
    BY <1>5 DEF WorkerExits, Goes, objects
  <2>2. worker'[g].pc = "done" /\ \A h \in Object : h # g => worker'[h] = worker[h]
    BY <1>1, <2>1
  <2>4. NoDestroys' /\ LockedIsLive'
    BY <1>3, <2>1, <2>2 DEF OrphanInv, NoDestroys, LockedIsLive
  <2>5. GroupsApart' /\ ClosedAreGone' /\ OpenIsLive'
    BY <1>3, <2>1 DEF OrphanInv, GroupsApart, ClosedAreGone, OpenIsLive, Live
  <2>6. IdleIsUnused'
    BY <1>3, <2>1, <2>2 DEF OrphanInv, IdleIsUnused
  <2> QED BY <2>4, <2>5, <2>6 DEF OrphanInv
<1>6. CASE ResolveGroup(g)
  <2>1. PICK t \in Object : getGroup(t) /\ Goes(g, "lock", t)
    BY <1>6 DEF ResolveGroup
  <2>2. UNCHANGED <<reqC, eng, idle, fault>> /\ worker[g].pc = "handle"
    BY <1>6 DEF ResolveGroup, objects
  <2>3. worker' = [worker EXCEPT ![g] = [pc |-> "lock", group |-> t, req |-> worker[g].req]]
    BY <2>1 DEF Goes
  <2>4. /\ worker'[g].pc = "lock" /\ worker'[g].group = t
        /\ \A h \in Object : h # g => worker'[h] = worker[h]
    BY <1>1, <2>3
  <2>5. /\ group' = t /\ t # NoGroup
        /\ \/ group = t /\ created' = created
           \/ group = NoGroup /\ t = created + 1 /\ created' = t /\ ~idle[t]
        /\ GroupsApart' /\ ClosedAreGone' /\ OpenIsLive'
        /\ \A h \in Object : idle'[h] => h <= created'
    BY <1>3, <2>1, <2>2, OrphanGetGroup
  <2>6. NoDestroys'
    BY <1>3, <2>4 DEF OrphanInv, NoDestroys
  <2>7. LockedIsLive'
    <3> SUFFICES ASSUME NEW w \in Object, worker'[w].pc = "lock"
                 PROVE  \/ worker'[w].group = t
                        \/ closer.group = worker'[w].group
      BY <1>3, <2>5 DEF LockedIsLive
    <3>1. CASE w = g
      BY <2>4, <3>1
    <3>2. CASE w # g
      <4>1. worker'[w] = worker[w] /\ worker[w].group \in Object
        BY <2>4, <3>2 DEF OrphanInv, Inv, TypeInv, WorkersBusy
      <4>2. worker[w].group = group \/ closer.group = worker[w].group
        BY <1>3, <4>1 DEF OrphanInv, LockedIsLive
      <4> QED BY <1>1, <2>5, <4>1, <4>2
    <3> QED BY <3>1, <3>2
  <2>8. ~idle'[t]
    BY <2>2, <2>5 DEF OrphanInv, IdleIsUnused
  <2>9. IdleIsUnused'
    BY <2>5, <2>8 DEF IdleIsUnused
  <2> QED BY <2>5, <2>6, <2>7, <2>9 DEF OrphanInv
<1>7. CASE handleInit(g) \/ handleMutating(g)
  <2> DEFINE t == worker[g].group
  <2>1. /\ UNCHANGED <<group, created, reqC, idle>> /\ Answer(g) /\ worker[g].pc = "lock"
    BY <1>7 DEF handleInit, handleMutating, Handling
  <2>2. worker' = [worker EXCEPT ![g] = [pc |-> "wait", group |-> NoGroup, req |-> 0]]
    BY <2>1 DEF Answer
  <2>3. worker'[g].pc = "wait" /\ \A h \in Object : h # g => worker'[h] = worker[h]
    BY <1>1, <2>2
  <2>4. t \in Object /\ (t = group \/ closer.group = t)
    BY <1>3, <2>1 DEF OrphanInv, LockedIsLive, Inv, TypeInv, WorkersBusy
  <2>5. \A h \in Object : h # t => eng'[h] = eng[h]
    BY <1>1, <1>7, <2>4 DEF handleInit, handleMutating
  <2>6. NoDestroys'
    BY <1>3, <2>3 DEF OrphanInv, NoDestroys
  <2>7. LockedIsLive'
    <3> SUFFICES ASSUME NEW w \in Object, worker'[w].pc = "lock"
                 PROVE  \/ worker'[w].group = group
                        \/ closer.group = worker'[w].group
      BY <1>3, <2>1 DEF LockedIsLive
    <3>1. worker'[w] = worker[w]
      BY <2>3
    <3> QED BY <1>3, <3>1 DEF OrphanInv, LockedIsLive
  <2>8. GroupsApart' /\ ClosedAreGone'
    BY <1>3, <2>1 DEF OrphanInv, GroupsApart, ClosedAreGone, Live
  <2>9. OpenIsLive'
    <3> SUFFICES ASSUME NEW h \in Object, eng'[h].open PROVE Live(h)' \/ closer'.group = h
      BY DEF OpenIsLive
    <3>1. CASE h = t
      BY <1>3, <2>1, <2>4, <3>1 DEF Live
    <3>2. CASE h # t
      BY <1>3, <2>1, <2>5, <3>2 DEF OrphanInv, OpenIsLive, Live
    <3> QED BY <3>1, <3>2
  <2>10. IdleIsUnused'
    BY <1>3, <2>1, <2>3 DEF OrphanInv, IdleIsUnused
  <2> QED BY <2>6, <2>7, <2>8, <2>9, <2>10 DEF OrphanInv
<1> QED BY <1>2, <1>4, <1>5, <1>6, <1>7 DEF WorkerStep

(* The reaper, the passing of time and the signal handler.                 *)
LEMMA OrphanReaperCloser ==
    ASSUME OrphanInv, BecomesIdle \/ ReaperStep \/ closeAllTakes \/ closeAllShutsDown \/ ProcessExits, Inv'
    PROVE  OrphanInv'
<1>1. UNCHANGED <<created, reqC, log, reader, worker, fault>>
  BY DEF BecomesIdle, ReaperStep, ReaperPicks, ReaperChecks, ReaperShutsDown, closeAllTakes,
         closeAllShutsDown, ProcessExits, shutdownGroup, objects
<1>2. NoDestroys'
  BY <1>1 DEF OrphanInv, NoDestroys
<1>3. /\ group \in Object \cup {NoGroup} /\ created \in Nat
      /\ idle \in [Object -> BOOLEAN] /\ reaper \in ReaperState /\ closer \in CloserState
      /\ closed \in [Object -> BOOLEAN] /\ eng \in [Object -> Engine]
      /\ reaper.pc # "wait" => reaper.group \in Object
      /\ closer.pc = "closing" => closer.group \in Object
      /\ Object \subseteq Nat /\ NoGroup \notin Object /\ NoGroup = 0
  BY OrphanTypes
<1>4. CASE BecomesIdle
  <2>1. /\ UNCHANGED <<group, closed, eng, reaper, closer>> /\ Quiet /\ group # NoGroup
        /\ idle' = [idle EXCEPT ![group] = TRUE]
    BY <1>4 DEF BecomesIdle, objects
  <2>2. \A h \in Object : idle'[h] => h = group \/ idle[h]
    BY <1>3, <2>1
  <2>3. GroupsApart' /\ ClosedAreGone' /\ OpenIsLive' /\ LockedIsLive'
    BY <1>1, <2>1
       DEF OrphanInv, GroupsApart, ClosedAreGone, OpenIsLive, LockedIsLive, Live
  <2>4. group <= created
    BY DEF OrphanInv, GroupsApart
  <2>5. IdleIsUnused'
    BY <1>1, <2>1, <2>2, <2>4 DEF OrphanInv, IdleIsUnused, Quiet
  <2> QED BY <1>2, <2>3, <2>5 DEF OrphanInv
<1>5. CASE ReaperPicks
  <2>1. /\ UNCHANGED <<group, closed, eng, idle, closer>> /\ reaper.pc = "wait"
        /\ reaper' = [pc |-> "check", group |-> group]
    BY <1>5 DEF ReaperPicks, objects
  <2>2. \A h : Live(h)' <=> Live(h)
    BY <2>1 DEF Live
  <2>3. GroupsApart' /\ LockedIsLive' /\ IdleIsUnused'
    BY <1>1, <2>1 DEF OrphanInv, GroupsApart, LockedIsLive, IdleIsUnused
  <2>4. ClosedAreGone' /\ OpenIsLive'
    BY <1>1, <2>1, <2>2 DEF OrphanInv, ClosedAreGone, OpenIsLive
  <2> QED BY <1>2, <2>3, <2>4 DEF OrphanInv
<1>6. CASE ReaperChecks
  <2>1. UNCHANGED <<closed, eng, idle, closer>> /\ reaper.pc = "check" /\ reaper.group \in Object
    BY <1>3, <1>6 DEF ReaperChecks, objects
  <2>2. CASE group = reaper.group /\ idle[group]
    <3>1. group' = NoGroup /\ reaper' = [reaper EXCEPT !.pc = "shutdown"]
      BY <1>6, <2>2 DEF ReaperChecks
    <3>2. reaper' = [pc |-> "shutdown", group |-> group]
      BY <1>3, <2>2, <3>1 DEF ReaperState
    <3>3. \A h \in Object : Live(h)' <=> Live(h)
      <4>1. NoGroup \notin Object
        BY DEF Object, NoGroup
      <4>2. \A h : reaper' = [pc |-> "shutdown", group |-> h] <=> group = h
        BY <3>2
      <4>3. \A h : reaper # [pc |-> "shutdown", group |-> h]
        BY <2>1
      <4> QED BY <2>1, <3>1, <4>1, <4>2, <4>3 DEF Live
    <3>4. \A w \in Object : worker[w].pc # "lock"
      BY <1>3, <2>1, <2>2 DEF OrphanInv, IdleIsUnused
    <3>5. LockedIsLive' /\ IdleIsUnused'
      BY <1>1, <2>1, <3>1, <3>4 DEF LockedIsLive, OrphanInv, IdleIsUnused
    <3>6. GroupsApart'
      BY <1>1, <1>3, <2>1, <2>2, <3>1, <3>2 DEF OrphanInv, GroupsApart
    <3>7. ClosedAreGone' /\ OpenIsLive'
      BY <1>1, <2>1, <3>3 DEF OrphanInv, ClosedAreGone, OpenIsLive
    <3> QED BY <1>2, <3>5, <3>6, <3>7 DEF OrphanInv
  <2>3. CASE ~(group = reaper.group /\ idle[group])
    <3>1. group' = group /\ reaper' = [pc |-> "wait", group |-> NoGroup]
      BY <1>6, <2>3 DEF ReaperChecks
    <3>2. \A h : Live(h)' <=> Live(h)
      BY <2>1, <3>1 DEF Live
    <3>3. GroupsApart' /\ LockedIsLive' /\ IdleIsUnused'
      BY <1>1, <2>1, <3>1 DEF OrphanInv, GroupsApart, LockedIsLive, IdleIsUnused
    <3>4. ClosedAreGone' /\ OpenIsLive'
      BY <1>1, <2>1, <3>2 DEF OrphanInv, ClosedAreGone, OpenIsLive
    <3> QED BY <1>2, <3>3, <3>4 DEF OrphanInv
  <2> QED BY <2>2, <2>3
<1>7. ASSUME NEW t \in Object, Live(t), group # t, shutdownGroup(t),
             \A h \in Object : Live(h)' <=> Live(h) /\ h # t,
             UNCHANGED <<group, idle>>, closer'.group = closer.group
      PROVE  ClosedAreGone' /\ OpenIsLive' /\ IdleIsUnused'
  <2>1. ~closed[t]
    BY <1>7 DEF OrphanInv, ClosedAreGone
  <2>2. closed' = [closed EXCEPT ![t] = TRUE] /\ eng' = [eng EXCEPT ![t] = NoEngine]
    BY <1>7, <2>1 DEF shutdownGroup
  <2>3. /\ \A h \in Object : closed'[h] => h = t \/ closed[h]
        /\ \A h \in Object : h # t => eng'[h] = eng[h]
        /\ ~eng'[t].open
    BY <1>3, <2>2 DEF NoEngine
  <2>4. t <= created
    <3>1. group <= created /\ (reaper.pc = "shutdown" => reaper.group <= created)
          /\ (closer.pc = "closing" => closer.group <= created)
      BY DEF OrphanInv, GroupsApart
    <3> QED BY <1>7, <3>1 DEF Live
  <2> QED BY <1>1, <1>7, <2>3, <2>4 DEF OrphanInv, ClosedAreGone, OpenIsLive, IdleIsUnused
<1>8. CASE ReaperShutsDown
  <2> DEFINE t == reaper.group
  <2>1. /\ shutdownGroup(t) /\ UNCHANGED <<group, idle, closer>> /\ reaper.pc = "shutdown"
        /\ reaper' = [pc |-> "wait", group |-> NoGroup]
    BY <1>8 DEF ReaperShutsDown
  <2>2. t \in Object /\ reaper = [pc |-> "shutdown", group |-> t]
    BY <1>3, <2>1 DEF ReaperState
  <2>3. group # t /\ closer # [pc |-> "closing", group |-> t]
    BY <2>1 DEF OrphanInv, GroupsApart
  <2>4. Live(t) /\ \A h \in Object : Live(h)' <=> Live(h) /\ h # t
    BY <2>1, <2>2, <2>3 DEF Live
  <2>5. ClosedAreGone' /\ OpenIsLive' /\ IdleIsUnused'
    BY <1>7, <2>1, <2>2, <2>3, <2>4
  <2>6. GroupsApart' /\ LockedIsLive'
    BY <1>1, <2>1 DEF OrphanInv, GroupsApart, LockedIsLive
  <2> QED BY <1>2, <2>5, <2>6 DEF OrphanInv
<1>9. CASE closeAllTakes
  <2>1. /\ UNCHANGED <<closed, eng, idle, reaper>> /\ group' = NoGroup /\ closer.pc = "up"
        /\ closer' = [pc |-> IF group = NoGroup THEN "closed" ELSE "closing", group |-> group]
    BY <1>9 DEF closeAllTakes, objects
  <2>2. \A h \in Object : Live(h)' <=> Live(h)
    BY <1>3, <2>1 DEF Live
  <2>3. closer.group = NoGroup
    BY <2>1 DEF OrphanInv, GroupsApart
  <2>6. ClosedAreGone' /\ OpenIsLive'
    BY <1>1, <1>3, <2>1, <2>2, <2>3 DEF OrphanInv, ClosedAreGone, OpenIsLive
  <2>4. GroupsApart' /\ IdleIsUnused'
    BY <1>1, <1>3, <2>1 DEF OrphanInv, GroupsApart, IdleIsUnused
  <2>5. LockedIsLive'
    <3> SUFFICES ASSUME NEW w \in Object, worker[w].pc = "lock"
                 PROVE  closer'.group = worker[w].group
      BY <1>1 DEF LockedIsLive
    <3>1. worker[w].group \in Object
      BY DEF OrphanInv, Inv, TypeInv, WorkersBusy
    <3>2. worker[w].group = group
      BY <1>3, <2>3, <3>1 DEF OrphanInv, LockedIsLive
    <3> QED BY <2>1, <3>2
  <2> QED BY <1>2, <2>4, <2>5, <2>6 DEF OrphanInv
<1>10. CASE closeAllShutsDown
  <2> DEFINE t == closer.group
  <2>1. /\ shutdownGroup(t) /\ UNCHANGED <<group, idle, reaper>> /\ closer.pc = "closing"
        /\ closer' = [closer EXCEPT !.pc = "closed"]
    BY <1>10 DEF closeAllShutsDown
  <2>2. /\ t \in Object /\ closer = [pc |-> "closing", group |-> t]
        /\ closer'.pc = "closed" /\ closer'.group = t
    BY <1>3, <2>1 DEF CloserState
  <2>3. group # t /\ reaper # [pc |-> "shutdown", group |-> t]
    BY <2>1 DEF OrphanInv, GroupsApart
  <2>4. Live(t) /\ \A h \in Object : Live(h)' <=> Live(h) /\ h # t
    BY <2>1, <2>2, <2>3 DEF Live
  <2>5. ClosedAreGone' /\ OpenIsLive' /\ IdleIsUnused'
    BY <1>7, <2>1, <2>2, <2>3, <2>4
  <2>6. GroupsApart' /\ LockedIsLive'
    BY <1>1, <2>1, <2>2 DEF OrphanInv, GroupsApart, LockedIsLive
  <2> QED BY <1>2, <2>5, <2>6 DEF OrphanInv
<1>11. CASE ProcessExits
  <2>1. /\ UNCHANGED <<group, closed, eng, idle, reaper>> /\ closer.pc = "closed"
        /\ closer' = [closer EXCEPT !.pc = "exited"]
    BY <1>11 DEF ProcessExits, objects
  <2>2. closer'.pc = "exited" /\ closer'.group = closer.group
    BY <1>3, <2>1 DEF CloserState
  <2>3. \A h : Live(h)' <=> Live(h)
    BY <2>1, <2>2 DEF Live
  <2>4. GroupsApart' /\ LockedIsLive' /\ IdleIsUnused'
    BY <1>1, <2>1, <2>2 DEF OrphanInv, GroupsApart, LockedIsLive, IdleIsUnused
  <2>5. ClosedAreGone' /\ OpenIsLive'
    BY <1>1, <2>1, <2>2, <2>3 DEF OrphanInv, ClosedAreGone, OpenIsLive
  <2> QED BY <1>2, <2>4, <2>5 DEF OrphanInv
<1> QED BY <1>4, <1>5, <1>6, <1>8, <1>9, <1>10, <1>11 DEF ReaperStep

(* Every step keeps the invariant.                                         *)
LEMMA NextOrphan ==
    ASSUME MaxDestroys = 0, OrphanInv, [Next]_vars
    PROVE  OrphanInv'
<1>1. Inv'
  BY NextInv DEF OrphanInv
<1>2. ASSUME NEW c \in Conn, NEW k \in Client, NEW m \in Method, ReadRequest(c, k, m)
      PROVE  OrphanInv'
  BY <1>1, <1>2, OrphanReadRequest
<1>3. ASSUME NEW c \in Conn, ReaderStep(c) PROVE OrphanInv'
  BY <1>1, <1>3, OrphanReader
<1>4. ASSUME NEW g \in Object, WorkerStep(g) PROVE OrphanInv'
  BY <1>1, <1>4, OrphanWorker
<1>5. CASE BecomesIdle \/ ReaperStep \/ closeAllTakes \/ closeAllShutsDown \/ ProcessExits
  BY <1>1, <1>5, OrphanReaperCloser
<1>6. CASE UNCHANGED vars
  <2>1. UNCHANGED <<group, created, reqC, closed, eng, idle, log, reader, worker, reaper, closer, fault>>
    BY <1>6 DEF vars, objects
  <2>2. NoDestroys' /\ GroupsApart' /\ ClosedAreGone' /\ LockedIsLive' /\ IdleIsUnused' /\ OpenIsLive'
    BY <2>1 DEF OrphanInv, NoDestroys, GroupsApart, ClosedAreGone, LockedIsLive, IdleIsUnused,
                OpenIsLive, Live
  <2> QED BY <1>1, <2>2 DEF OrphanInv
<1> QED BY <1>2, <1>3, <1>4, <1>5, <1>6 DEF Next

(* There is no engine at the start.                                        *)
LEMMA InitOrphan == Init => OrphanInv
<1> SUFFICES ASSUME Init PROVE OrphanInv
  OBVIOUS
<1>1. Inv
  BY InitInv
<1>2. NoDestroys /\ GroupsApart /\ ClosedAreGone
  BY DEF Init, NoDestroys, GroupsApart, ClosedAreGone, NoGroup
<1>3. LockedIsLive /\ IdleIsUnused /\ OpenIsLive
  BY DEF Init, LockedIsLive, IdleIsUnused, OpenIsLive, NoGroup, NoEngine
<1> QED BY <1>1, <1>2, <1>3 DEF OrphanInv

(* If no client destroys the group, the reaper leaves no engine open where *)
(* no request reaches it, whatever requests and signals arrive while it    *)
(* runs, and closeAll none outside the object it took.  (In that one a     *)
(* late init can, and destroys can leave one: see the findings.)           *)
THEOREM NoEngineOrphaned ==
    ASSUME MaxDestroys = 0
    PROVE  Spec => []NoOrphanEngine
<1>1. OrphanInv /\ [Next]_vars => OrphanInv'
  BY NextOrphan
<1>2. OrphanInv => NoOrphanEngine
  BY DEF OrphanInv, OpenIsLive, Live, NoOrphanEngine
<1> QED BY <1>1, <1>2, InitOrphan, PTL DEF Spec
=============================================================================
