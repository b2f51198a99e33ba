---------------------------- MODULE WritePipeline ----------------------------
(***************************************************************************)
(* How the Firestore client of the iOS and macOS builds sends writes:      *)
(* SyncEngine and LocalStore keep a mutation queue per user and the        *)
(* callbacks of the writes, RemoteStore a pipeline of the writes in flight *)
(* and the write stream.  Every handler runs alone on the worker queue.    *)
(* The stream delivers in order both ways; when it is closed the responses *)
(* not yet read are lost, the requests not yet handled may still be.       *)
(***************************************************************************)
EXTENDS Naturals, Sequences, SequencesExt, FiniteSets

CONSTANTS
    Users,              \* the accounts that sign in on the device
    kMaxPendingWrites,  \* the size of the write pipeline
    MaxWrites,          \* bound: writes in a behaviour
    MaxWaits,           \* bound: calls of waitForPendingWrites()
    MaxFaults           \* bound: breaks, refusals to retry, restarts, changes
                        \* of credential and of network

ASSUME PipelineAssumption ==
    /\ kMaxPendingWrites \in Nat \ {0}
    /\ MaxWrites \in Nat
    /\ MaxWaits \in Nat
    /\ MaxFaults \in Nat

VARIABLES
    user,       \* SyncEngine::current_user_
    queue,      \* on disk: the mutation queue of each user
    nextId,     \* LevelDbMutationQueue::next_batch_id_
    callbacks,  \* SyncEngine::mutation_callbacks_
    waits,      \* SyncEngine::pending_writes_callbacks_
    rs,         \* RemoteStore with its write stream, see NoStream
    stale,      \* requests of the last closed stream the server still holds
    faults,     \* how many faults there were, and
    nwaits,     \* how many calls of waitForPendingWrites()
    issued, owner, stored, refused, told    \* history, as in WriteQueue

history == <<issued, owner, stored, refused, told>>
engine == <<user, queue, nextId, callbacks, waits>>
vars == <<engine, rs, stale, faults, nwaits, history>>

Writes == 1..MaxWrites

(* A batch is its id and, for the history, which write it holds.           *)
Handshake == [id |-> 0, w |-> 0]

(* The write stream before it is ever started, with an empty pipeline.     *)
(* "state" is Stream::State, Open standing for Healthy too; "up" and       *)
(* "down" are the requests and the responses in flight.                    *)
NoStream(enabled) ==
    [enabled |-> enabled, pipeline |-> << >>, state |-> "Initial",
     handshake |-> FALSE, idle |-> FALSE, up |-> << >>, down |-> << >>]

Init ==
    /\ user \in Users
    /\ queue = [u \in Users |-> << >>]
    /\ nextId = 1
    /\ callbacks = [u \in Users |-> {}]
    /\ waits = {}
    /\ rs = NoStream(TRUE)
    /\ stale = << >>
    /\ faults = 0 /\ nwaits = 0
    /\ issued = 0
    /\ owner = [w \in Writes |-> user]
    /\ stored = {} /\ refused = {}
    /\ told = [w \in Writes |-> "waiting"]

-----------------------------------------------------------------------------
(* RemoteStore, as functions of its state s and of the queue q of the user.*)

IsStarted(s) == s.state \in {"Starting", "Backoff", "Open"}

StartWriteStream(s) ==
    [s EXCEPT !.state = IF @ = "Error" THEN "Backoff" ELSE "Starting"]

StartIfNeeded(s) ==
    IF s.enabled /\ ~IsStarted(s) /\ s.pipeline /= << >>
    THEN StartWriteStream(s) ELSE s

(* Where the batches with an id above "after" begin in the queue q, which  *)
(* leveldb keeps sorted by id.                                             *)
NextMutationBatchAfterBatchId(q, after) ==
    CHOOSE i \in 1..(Len(q) + 1) :
        \A j \in DOMAIN q : q[j].id > after <=> j >= i

(* Mutant: one batch too many. *)
NextBatchesOver(q, pipeline) ==
    LET after == IF pipeline = << >> THEN 0 ELSE Last(pipeline).id
        first == NextMutationBatchAfterBatchId(q, after)
        last  == first + kMaxPendingWrites - Len(pipeline)
    IN  SubSeq(q, first, IF last < Len(q) THEN last ELSE Len(q))

(* The batches of q that follow the last one of the pipeline, as many as   *)
(* there is room for.                                                      *)
NextBatches(q, pipeline) ==
    LET after == IF pipeline = << >> THEN 0 ELSE Last(pipeline).id
        first == NextMutationBatchAfterBatchId(q, after)
        last  == first - 1 + kMaxPendingWrites - Len(pipeline)
    IN  SubSeq(q, first, IF last < Len(q) THEN last ELSE Len(q))

(* Mutant: sending a write does not cancel the idle timer. *)
FillKeepsIdle(q, s) ==
    IF ~s.enabled THEN s ELSE
    LET more == NextBatches(q, s.pipeline)
        sent == s.state = "Open" /\ s.handshake
    IN  StartIfNeeded(
          [s EXCEPT !.pipeline = @ \o more,
                    !.up = IF sent THEN @ \o more ELSE @,
                    !.idle = @ \/ (s.state = "Open" /\ s.pipeline \o more = << >>)])

FillWritePipeline(q, s) ==
    IF ~s.enabled THEN s ELSE
    LET more == NextBatches(q, s.pipeline)
        sent == s.state = "Open" /\ s.handshake /\ more /= << >>
        full == [s EXCEPT
                   !.pipeline = @ \o more,
                   !.up = IF sent THEN @ \o more ELSE @,
                   !.idle = /\ ~sent
                            /\ \/ @
                               \/ /\ s.state = "Open"
                                  /\ s.pipeline \o more = << >>]
    IN  StartIfNeeded(full)

(* Stream::Close: the timers are cancelled and the stream is destroyed.    *)
Closed(s, state) ==
    [s EXCEPT !.state = state, !.handshake = FALSE, !.idle = FALSE,
              !.up = << >>, !.down = << >>]

Stop(s) == IF IsStarted(s) THEN Closed(s, "Initial") ELSE s

DisableNetworkInternal(s) == [Stop(s) EXCEPT !.pipeline = << >>]

RestartNetwork(q, s) ==
    FillWritePipeline(q, [DisableNetworkInternal(s) EXCEPT !.state = "Initial"])

(* Mutant: the stream is not started again. *)
RetryNever(s) == Closed(s, "Error")

(* The stream failed, and nothing in the pipeline is to blame: keep it and *)
(* start again, after a backoff.                                           *)
Retry(s) == StartIfNeeded(Closed(s, "Error"))

(* The server answered with an error: it handles nothing more of this      *)
(* stream, also not what the client sends before it reads the error.       *)
Ended(s) == s.down /= << >> /\ Last(s.down) \in {"transient", "permanent"}

(* What the server may still handle of a stream that goes away.            *)
LeftOver(s) ==
    LET batches == IF s.up /= << >> /\ Head(s.up) = Handshake
                   THEN Tail(s.up) ELSE s.up
    IN  IF batches = << >> \/ Ended(s) THEN stale ELSE batches

Fault == faults < MaxFaults /\ faults' = faults + 1

-----------------------------------------------------------------------------
(* SyncEngine.                                                             *)

WriteMutations ==
    /\ issued < MaxWrites
    /\ LET b == [id |-> nextId, w |-> issued + 1] IN
          /\ queue' = [queue EXCEPT ![user] = Append(@, b)]
          /\ callbacks' = [callbacks EXCEPT ![user] =
                IF \E c \in @ : c.id = b.id THEN @ ELSE @ \cup {b}]
    /\ nextId' = nextId + 1
    /\ rs' = FillWritePipeline(queue'[user], rs)
    /\ issued' = issued + 1
    /\ owner' = [owner EXCEPT ![issued + 1] = user]
    /\ UNCHANGED <<user, waits, stale, faults, nwaits, stored, refused, told>>

(* Mutant: waits for the first pending write only. *)
RegisterForFirst ==
    /\ nwaits < MaxWaits
    /\ nwaits' = nwaits + 1
    /\ queue[user] /= << >>
    /\ waits' = waits \cup
          {[at |-> Head(queue[user]).id,
            for |-> {queue[user][i].w : i \in DOMAIN queue[user]}]}
    /\ UNCHANGED <<user, queue, nextId, callbacks, rs, stale, faults, history>>

RegisterPendingWritesCallback ==
    /\ nwaits < MaxWaits
    /\ nwaits' = nwaits + 1
    /\ queue[user] /= << >>
    /\ waits' = waits \cup
          {[at |-> Last(queue[user]).id,
            for |-> {queue[user][i].w : i \in DOMAIN queue[user]}]}
    /\ UNCHANGED <<user, queue, nextId, callbacks, rs, stale, faults, history>>

(* Mutant: the callback stays registered. *)
NotifyUserAgain(id, answer) ==
    /\ callbacks' = callbacks
    /\ told' = [w \in Writes |->
                  IF [id |-> id, w |-> w] \in callbacks[user]
                  THEN answer ELSE told[w]]

NotifyUser(id, answer) ==
    /\ callbacks' = [callbacks EXCEPT ![user] = {c \in @ : c.id /= id}]
    /\ told' = [w \in Writes |->
                  IF [id |-> id, w |-> w] \in callbacks[user]
                  THEN answer ELSE told[w]]

(* The queue q without the batch id.                                       *)
RemoveMutationBatch(q, id) ==
    RemoveAt(q, CHOOSE i \in DOMAIN q : q[i].id = id)

(* Both outcomes of a write: its callback, the callbacks waiting for it,   *)
(* and its removal from the queue.                                         *)
HandleOutcome(id, answer) ==
    /\ NotifyUser(id, answer)
    /\ waits' = {t \in waits : t.at /= id}
    /\ queue' = [queue EXCEPT ![user] = RemoveMutationBatch(@, id)]
    /\ UNCHANGED <<user, nextId>>

(* Mutant: the highest id in use, not the one after it. *)
LoadLastBatchId ==
    LET ids == UNION {{queue[u][i].id : i \in DOMAIN queue[u]} : u \in Users}
    IN  IF ids = {} THEN 0 ELSE CHOOSE n \in ids : \A m \in ids : m <= n

(* next_batch_id_ is loaded from the queues of all the users.              *)
LoadNextBatchId ==
    LET ids == UNION {{queue[u][i].id : i \in DOMAIN queue[u]} : u \in Users}
    IN  IF ids = {} THEN 1 ELSE (CHOOSE n \in ids : \A m \in ids : m <= n) + 1

HandleCredentialChange(u) ==
    /\ Fault
    /\ user' = u
    /\ IF u /= user THEN waits' = {} /\ nextId' = LoadNextBatchId
                    ELSE UNCHANGED <<waits, nextId>>
    /\ IF rs.enabled
       THEN rs' = RestartNetwork(queue[u], rs) /\ stale' = LeftOver(rs)
       ELSE UNCHANGED <<rs, stale>>
    /\ UNCHANGED <<queue, callbacks, nwaits, history>>

-----------------------------------------------------------------------------
(* The network: the app switches it off and on, the connectivity monitor   *)
(* reports a new one, and the streams start.                               *)

DisableNetwork ==
    /\ Fault
    /\ rs.enabled
    /\ rs' = DisableNetworkInternal([rs EXCEPT !.enabled = FALSE])
    /\ stale' = LeftOver(rs)
    /\ UNCHANGED <<engine, nwaits, history>>

EnableNetwork ==
    /\ ~rs.enabled
    /\ rs' = FillWritePipeline(queue[user], [rs EXCEPT !.enabled = TRUE])
    /\ UNCHANGED <<engine, stale, faults, nwaits, history>>

ConnectivityChanged ==
    /\ Fault
    /\ rs.enabled
    /\ rs' = RestartNetwork(queue[user], rs)
    /\ stale' = LeftOver(rs)
    /\ UNCHANGED <<engine, nwaits, history>>

BackoffElapsed ==
    /\ rs.state = "Backoff"
    /\ rs' = [rs EXCEPT !.state = "Starting"]
    /\ UNCHANGED <<engine, stale, faults, nwaits, history>>

(* The credentials are there: the stream opens and sends its handshake ... *)
OnWriteStreamOpen ==
    /\ rs.state = "Starting"
    /\ rs' = [rs EXCEPT !.state = "Open", !.idle = FALSE,
                        !.up = Append(@, Handshake)]
    /\ UNCHANGED <<engine, stale, faults, nwaits, history>>

(* ... or they cannot be had, which is no permanent error of a write.      *)
CredentialsFailed ==
    /\ Fault
    /\ rs.state = "Starting"
    /\ rs' = Retry(rs)
    /\ UNCHANGED <<engine, stale, nwaits, history>>

IdleTimeout ==
    /\ rs.idle
    /\ rs' = Stop(rs)
    /\ stale' = LeftOver(rs)
    /\ UNCHANGED <<engine, faults, nwaits, history>>

-----------------------------------------------------------------------------
(* The responses of the server, in the order it sent them.                 *)

Response(kind) == rs.down /= << >> /\ Head(rs.down) = kind

(* Mutant: the pipeline is sent again last write first. *)
HandshakeReversed ==
    /\ Response("handshake")
    /\ rs' = [rs EXCEPT !.handshake = TRUE, !.down = Tail(@),
                        !.up = @ \o Reverse(rs.pipeline),
                        !.idle = @ /\ rs.pipeline = << >>]
    /\ UNCHANGED <<engine, stale, faults, nwaits, history>>

OnHandshakeComplete ==
    /\ Response("handshake")
    /\ rs' = [rs EXCEPT !.handshake = TRUE, !.down = Tail(@),
                        !.up = @ \o rs.pipeline,
                        !.idle = @ /\ rs.pipeline = << >>]
    /\ UNCHANGED <<engine, stale, faults, nwaits, history>>

OnMutationResult ==
    /\ Response("result")
    /\ HandleOutcome(Head(rs.pipeline).id, "ok")
    /\ rs' = FillWritePipeline(queue'[user],
                [rs EXCEPT !.pipeline = Tail(@), !.down = Tail(@)])
    /\ UNCHANGED <<stale, faults, nwaits, issued, owner, stored, refused>>

(* An error the server sends before the handshake, or one that may go      *)
(* away, closes the stream and the writes are sent again on the next one.  *)
OnStreamError ==
    /\ \/ Response("transient")
       \/ Response("permanent") /\ (~rs.handshake \/ rs.pipeline = << >>)
    /\ rs' = Retry(rs)
    /\ stale' = LeftOver(rs)
    /\ UNCHANGED <<engine, faults, nwaits, history>>

(* Mutant: an error before the handshake is blamed on a write. *)
WriteErrorEarly ==
    /\ Response("permanent") /\ rs.pipeline /= << >>
    /\ HandleOutcome(Head(rs.pipeline).id, "error")
    /\ rs' = FillWritePipeline(queue'[user],
                [Closed(rs, "Initial") EXCEPT !.pipeline = Tail(@)])
    /\ stale' = LeftOver(rs)
    /\ UNCHANGED <<faults, nwaits, issued, owner, stored, refused>>

(* A permanent error after the handshake is taken for the refusal of the   *)
(* first write of the pipeline; the next start needs no backoff.           *)
HandleWriteError ==
    /\ Response("permanent") /\ rs.handshake /\ rs.pipeline /= << >>
    /\ HandleOutcome(Head(rs.pipeline).id, "error")
    /\ rs' = FillWritePipeline(queue'[user],
                [Closed(rs, "Initial") EXCEPT !.pipeline = Tail(@)])
    /\ stale' = LeftOver(rs)
    /\ UNCHANGED <<faults, nwaits, issued, owner, stored, refused>>

(* The connection breaks: what the server had answered is lost.            *)
Break ==
    /\ Fault
    /\ rs.state = "Open"
    /\ rs' = Retry(rs)
    /\ stale' = LeftOver(rs)
    /\ UNCHANGED <<engine, nwaits, history>>

(* The process ends and starts again; the queues are on disk.              *)
Restart ==
    /\ Fault
    /\ nextId' = LoadNextBatchId
    /\ callbacks' = [u \in Users |-> {}]
    /\ waits' = {}
    /\ rs' = FillWritePipeline(queue[user], NoStream(TRUE))
    /\ stale' = LeftOver(rs)
    /\ told' = [w \in Writes |->
                  IF w <= issued /\ told[w] = "waiting" THEN "lost" ELSE told[w]]
    /\ UNCHANGED <<user, queue, nwaits, issued, owner, stored, refused>>

-----------------------------------------------------------------------------
(* The server, an external system: it handles the requests of a stream in  *)
(* order, and an error ends the stream.                                    *)

Request == rs.up /= << >> /\ ~Ended(rs)

ServerHandshake ==
    /\ Request /\ Head(rs.up) = Handshake
    /\ rs' = [rs EXCEPT !.up = Tail(@), !.down = Append(@, "handshake")]
    /\ UNCHANGED <<engine, stale, faults, nwaits, history>>

ServerCommit ==
    /\ Request /\ Head(rs.up) /= Handshake
    /\ stored' = stored \cup {Head(rs.up).w}
    /\ rs' = [rs EXCEPT !.up = Tail(@), !.down = Append(@, "result")]
    /\ UNCHANGED <<engine, stale, faults, nwaits, issued, owner, refused, told>>

ServerRefuse ==
    /\ Fault
    /\ Request
    /\ \/ /\ rs' = [rs EXCEPT !.up = << >>, !.down = Append(@, "transient")]
          /\ UNCHANGED refused
       \/ /\ rs' = [rs EXCEPT !.up = << >>, !.down = Append(@, "permanent")]
          /\ refused' = IF Head(rs.up) = Handshake THEN refused
                        ELSE refused \cup {Head(rs.up).w}
    /\ UNCHANGED <<engine, stale, nwaits, issued, owner, stored, told>>

(* A closed stream's request, handled late; the answer goes nowhere.       *)
ServerLate ==
    /\ stale /= << >>
    /\ \/ stored' = stored \cup {Head(stale).w} /\ stale' = Tail(stale)
       \/ stale' = << >> /\ UNCHANGED stored
    /\ UNCHANGED <<engine, rs, faults, nwaits, issued, owner, refused, told>>

Client ==
    \/ BackoffElapsed \/ OnWriteStreamOpen
    \/ OnHandshakeComplete \/ OnMutationResult \/ OnStreamError
    \/ HandleWriteError

Server == ServerHandshake \/ ServerCommit

Next ==
    \/ Client \/ Server \/ ServerRefuse \/ ServerLate
    \/ WriteMutations \/ RegisterPendingWritesCallback
    \/ \E u \in Users : HandleCredentialChange(u)
    \/ DisableNetwork \/ EnableNetwork \/ ConnectivityChanged
    \/ CredentialsFailed \/ IdleTimeout \/ Break \/ Restart

Spec == Init /\ [][Next]_vars

(* The worker queue runs what is scheduled on it, and the server answers   *)
(* what reaches it; faults come to an end (MaxFaults).                     *)
FairSpec == Spec /\ WF_vars(Client) /\ WF_vars(Server)

-----------------------------------------------------------------------------

Batches == [id : Nat \ {0}, w : Writes]
RemoteStores ==
    [enabled : BOOLEAN, pipeline : Seq(Batches),
     state : {"Initial", "Starting", "Backoff", "Open", "Error"},
     handshake : BOOLEAN, idle : BOOLEAN, up : Seq(Batches \cup {Handshake}),
     down : Seq({"handshake", "result", "transient", "permanent"})]

TypeOK ==
    /\ user \in Users
    /\ queue \in [Users -> Seq(Batches)]
    /\ nextId \in Nat \ {0}
    /\ callbacks \in [Users -> SUBSET Batches]
    /\ \A t \in waits : t.at \in Nat /\ t.for \subseteq Writes
    /\ rs \in RemoteStores
    /\ stale \in Seq(Batches)

(* The pipeline holds the first writes of the queue of the signed-in user, *)
(* never those of the one before, and at most kMaxPendingWrites of them:   *)
(* that is why responses can be matched with writes by their order alone.  *)
PipelineIsPrefix ==
    /\ IsPrefix(rs.pipeline, queue[user])
    /\ Len(rs.pipeline) <= kMaxPendingWrites

(* What the HARD_ASSERTs of RemoteStore ask: a write in the pipeline has a *)
(* stream started for it, the idle timer, which stops the stream without   *)
(* starting it again, runs only while no write is in flight, and a result  *)
(* comes only while a write is.                                            *)
StreamServesPipeline ==
    /\ rs.pipeline /= << >> => rs.enabled /\ IsStarted(rs)
    /\ rs.idle => rs.state = "Open" /\ rs.pipeline = << >>
    /\ Response("result") => rs.pipeline /= << >> /\ rs.handshake

(* Batch ids are given out again when every queue is empty; a callback     *)
(* still belongs to the write it was given with, and to one that is        *)
(* waiting to be sent.                                                     *)
CallbackHasWrite ==
    \A u \in Users : \A c \in callbacks[u] :
        /\ told[c.w] = "waiting"
        /\ \E i \in DOMAIN queue[u] : queue[u][i] = c

(* waitForPendingWrites() returns, to a user who stays signed in in a      *)
(* process that goes on, only when every write made before the call left   *)
(* the queue.                                                              *)
WaitIsOver ==
    [][\A t \in waits :
          t \notin waits' /\ user' = user /\ ~Restart =>
            \A i \in DOMAIN queue'[user] : queue'[user][i].w \notin t.for]_vars

(* Every write of the signed-in user is answered, unless the network is    *)
(* switched off or another user signs in.                                  *)
Resolved ==
    \A w \in Writes :
        (w <= issued) ~> \/ \A i \in DOMAIN queue[owner[w]] :
                               queue[owner[w]][i].w /= w
                         \/ ~rs.enabled
                         \/ user /= owner[w]

(* The queues, as WriteQueue sees them.                                    *)
WritesOf(q) == [i \in DOMAIN q |-> q[i].w]

Pending == [u \in Users |-> WritesOf(queue[u])]

Queue == INSTANCE WriteQueue WITH pending <- Pending

(* The pipeline keeps the promise of WriteQueue.                           *)
Implements == Queue!Spec

(* A caller is told "ok" only of a write the server stored, and "error"    *)
(* only of one it refused.                                                 *)
AnswerIsTrue == Queue!AnswerIsTrue

(* The server acts on a write only after every earlier one of its user.    *)
StoredInOrder == Queue!StoredInOrder
=============================================================================
