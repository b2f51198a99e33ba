---------------------------- MODULE ClientProofs ----------------------------
(***************************************************************************)
(* The write pipeline keeps its promise, for any users, any size of the    *)
(* pipeline and any number of writes and faults: it implements WriteQueue. *)
(* The inductive invariant says where every write is that was sent: its    *)
(* answer is on the way, or it is itself, or it was left over by a stream  *)
(* that is gone.  At the end the theorems of all the parts are stated for  *)
(* MCClient, the specification that TLC runs.                              *)
(***************************************************************************)
EXTENDS MCClient, TLAPS, WellFoundedInduction


Acted == stored \cup refused

Sorted(q) == \A i, j \in DOMAIN q : i < j => q[i].id < q[j].id

(* Batches have ids in order, below the next one, and hold writes of their *)
(* user in order.                                                          *)
QueuesInOrder ==
    \A u \in Users :
        /\ Sorted(queue[u])
        /\ \A i \in DOMAIN queue[u] :
              /\ queue[u][i].id < nextId
              /\ queue[u][i].w <= issued
              /\ owner[queue[u][i].w] = u
              /\ \A j \in DOMAIN queue[u] : i < j => queue[u][i].w < queue[u][j].w

(* Exactly the queued writes whose callers wait have a callback.           *)
CallbacksMatch ==
    /\ \A u \in Users :
          /\ \A c \in callbacks[u] : \E i \in DOMAIN queue[u] : queue[u][i] = c
          /\ \A i \in DOMAIN queue[u] :
                queue[u][i] \in callbacks[u] <=> told[queue[u][i].w] = "waiting"
    /\ \A w \in Writes : w > issued => told[w] = "waiting"

(* Who waits for writes that are still there waits for the last of them.   *)
WaitsCover ==
    \A t \in waits :
        /\ \A w \in t.for : w <= issued
        /\ \A i \in DOMAIN queue[user] :
              queue[user][i].w \in t.for => queue[user][i].id <= t.at

-----------------------------------------------------------------------------
(* The stream s over the queue q, when the server has stored "ok" and      *)
(* refused "bad".                                                          *)

Prefix(s, q) ==
    /\ Len(s.pipeline) <= Len(q) /\ Len(s.pipeline) <= kMaxPendingWrites
    /\ \A i \in DOMAIN s.pipeline : s.pipeline[i] = q[i]

(* The requests u are what is left of the writes p after the first d.      *)
Rest(u, p, d) ==
    /\ Len(p) = d + Len(u)
    /\ \A j \in DOMAIN u : u[j] = p[d + j]

(* After the handshake: the answers are those of the first writes of the   *)
(* pipeline, and the requests are the rest of it, until the server ends    *)
(* the stream.                                                             *)
InFlight(s, ok, bad) ==
    /\ \A i \in DOMAIN s.down :
          /\ s.down[i] /= "handshake"
          /\ i < Len(s.down) => s.down[i] = "result"
          /\ s.down[i] = "result" =>
                i <= Len(s.pipeline) /\ s.pipeline[i].w \in ok
          /\ s.down[i] = "permanent" =>
                i <= Len(s.pipeline) /\ s.pipeline[i].w \in bad
    /\ ~Ended(s) => Rest(s.up, s.pipeline, Len(s.down))

(* Before it the handshake is the only request, and one answer comes.      *)
Shaking(s) ==
    \/ s.up = <<Handshake>> /\ s.down = << >>
    \/ /\ s.up = << >>
       /\ s.down \in {<< >>, <<"handshake">>, <<"transient">>, <<"permanent">>}

Flow(s, ok, bad) ==
    /\ s.state /= "Open" => ~s.handshake /\ s.up = << >> /\ s.down = << >>
    /\ IF s.handshake THEN InFlight(s, ok, bad) ELSE Shaking(s)

Steady(s) ==
    /\ s.pipeline /= << >> => s.enabled
    /\ s.idle => s.state = "Open" /\ s.pipeline = << >>
    /\ s.state \in {"Starting", "Backoff"} => s.pipeline /= << >>
    /\ s.state = "Open" /\ ~s.handshake => s.pipeline /= << >>

(* What FillWritePipeline() needs, and what it makes of it.                *)
Loose(s, q, ok, bad) == Prefix(s, q) /\ Flow(s, ok, bad) /\ Steady(s)

Stream(s, q, ok, bad) ==
    Loose(s, q, ok, bad) /\ (s.pipeline /= << >> => IsStarted(s))

(* When the requests before the i-th that a closed stream has left are     *)
(* handled, every write before it in its queue was acted on.               *)
InTurn(i, late, qs, acted) ==
    \E u \in Users : \E k \in DOMAIN qs[u] :
        /\ qs[u][k].w = late[i].w
        /\ \A m \in 1..(k - 1) :
              \/ qs[u][m].w \in acted
              \/ \E j \in 1..(i - 1) : late[j].w = qs[u][m].w

LeftInOrder(late, qs, acted) ==
    \A i \in DOMAIN late : late[i].w \in acted \/ InTurn(i, late, qs, acted)

HistoryOK ==
    /\ issued \in 0..MaxWrites
    /\ owner \in [Writes -> Users]
    /\ stored \subseteq Writes /\ refused \subseteq Writes
    /\ told \in [Writes -> {"waiting", "ok", "error", "lost"}]

Inv ==
    /\ TypeOK /\ HistoryOK /\ QueuesInOrder /\ CallbacksMatch /\ WaitsCover
    /\ Stream(rs, queue[user], stored, refused)
    /\ LeftInOrder(stale, queue, Acted)

-----------------------------------------------------------------------------
(* Sequences.                                                              *)

(* The rest of a sequence that is not empty.                               *)
LEMMA TailFact ==
  ASSUME NEW S, NEW q \in Seq(S), q /= << >>
  PROVE  /\ Tail(q) \in Seq(S) /\ Len(q) \in Nat \ {0}
         /\ Len(Tail(q)) = Len(q) - 1
         /\ DOMAIN Tail(q) = 1..(Len(q) - 1)
         /\ \A i \in 1..(Len(q) - 1) : Tail(q)[i] = q[i + 1]
         /\ Head(q) = q[1] /\ q[1] \in S
  OBVIOUS

(* A sequence with one more element.                                       *)
LEMMA AppendFact ==
  ASSUME NEW S, NEW q \in Seq(S), NEW e \in S
  PROVE  /\ Append(q, e) \in Seq(S) /\ Len(q) \in Nat
         /\ Len(Append(q, e)) = Len(q) + 1
         /\ DOMAIN Append(q, e) = 1..(Len(q) + 1)
         /\ \A i \in 1..Len(q) : Append(q, e)[i] = q[i]
         /\ Append(q, e)[Len(q) + 1] = e
  OBVIOUS

(* One sequence after another.                                             *)
LEMMA ConcatFact ==
  ASSUME NEW S, NEW p \in Seq(S), NEW q \in Seq(S)
  PROVE  /\ p \o q \in Seq(S) /\ Len(p) \in Nat /\ Len(q) \in Nat
         /\ Len(p \o q) = Len(p) + Len(q)
         /\ DOMAIN (p \o q) = 1..(Len(p) + Len(q))
         /\ \A i \in 1..Len(p) : (p \o q)[i] = p[i]
         /\ \A i \in 1..Len(q) : (p \o q)[Len(p) + i] = q[i]
  OBVIOUS

(* A batch is an id and a write.                                           *)
LEMMA BatchFact == \A b \in Batches : b.id \in Nat \ {0} /\ b.w \in Writes
  BY DEF Batches

(* The empty sequence before q is q.                                       *)
LEMMA EmptyFirst == ASSUME NEW S, NEW q \in Seq(S) PROVE << >> \o q = q
  <1>1. << >> \in Seq(S) /\ Len(<< >>) = 0
    OBVIOUS
  <1>2. /\ << >> \o q \in Seq(S) /\ Len(<< >> \o q) = 0 + Len(q)
        /\ \A i \in 1..Len(q) : (<< >> \o q)[0 + i] = q[i]
    BY <1>1, ConcatFact
  <1>3. Len(q) \in Nat /\ \A i \in 1..Len(q) : 0 + i = i
    OBVIOUS
  <1> DEFINE r == << >> \o q
  <1>4. r \in Seq(S) /\ Len(r) = Len(q) /\ \A i \in 1..Len(q) : r[i] = q[i]
    BY <1>2, <1>3
  <1> HIDE DEF r
  <1>5. r = q
    BY <1>4
  <1> QED
    BY <1>5 DEF r

(* The empty sequence after q is q.                                        *)
LEMMA LastEmpty == ASSUME NEW S, NEW q \in Seq(S) PROVE q \o << >> = q
  <1> DEFINE r == q \o << >>
  <1>1. << >> \in Seq(S) /\ Len(<< >>) = 0
    OBVIOUS
  <1>2. r \in Seq(S) /\ Len(r) = Len(q) + 0 /\ \A i \in 1..Len(q) : r[i] = q[i]
    BY <1>1, ConcatFact
  <1>3. Len(r) = Len(q)
    BY <1>2
  <1> HIDE DEF r
  <1>4. r = q
    BY <1>2, <1>3
  <1> QED
    BY <1>4 DEF r

(* A sequence u that is the rest of p after d places stays it when both    *)
(* grow by the same.                                                       *)
(* Writes added to the pipeline and to the requests keep them in step.     *)
LEMMA FlightGrows ==
  ASSUME NEW S, NEW p \in Seq(S), NEW u \in Seq(S), NEW more \in Seq(S),
         NEW d \in Nat
  PROVE  Rest(u, p, d) => Rest(u \o more, p \o more, d)
  <1> DEFINE a == Len(u)
             m == Len(more)
             n == Len(p)
             reqs == u \o more
             pm == p \o more
  <1>1. /\ Len(reqs) = a + m /\ DOMAIN reqs = 1..(a + m)
        /\ \A i \in 1..a : reqs[i] = u[i]
        /\ \A i \in 1..m : reqs[a + i] = more[i]
    BY ConcatFact
  <1>2. /\ Len(pm) = n + m
        /\ \A i \in 1..n : pm[i] = p[i]
        /\ \A i \in 1..m : pm[n + i] = more[i]
    BY ConcatFact
  <1>3. a \in Nat /\ m \in Nat /\ DOMAIN u = 1..a
    OBVIOUS
  <1> HIDE DEF a, m, n, reqs, pm
  <1>4. SUFFICES ASSUME n = d + a, \A j \in 1..a : u[j] = p[d + j]
                 PROVE  /\ Len(pm) = d + Len(reqs)
                        /\ \A j \in 1..(a + m) : reqs[j] = pm[d + j]
    BY <1>1, <1>3, Zenon DEF a, n, reqs, pm, Rest
  <1>5. Len(pm) = d + Len(reqs)
    BY <1>1, <1>2, <1>3, <1>4
  <1>6. ASSUME NEW j \in 1..(a + m) PROVE reqs[j] = pm[d + j]
    <2>1. CASE j <= a
      <3>1. j \in 1..a /\ d + j \in 1..n
        BY <1>3, <1>4, <2>1
      <3> QED
        BY <1>1, <1>2, <1>4, <3>1
    <2>2. CASE j > a
      <3> DEFINE k == j - a
      <3>1. k \in 1..m /\ a + k = j /\ n + k = d + j
        BY <1>3, <1>4, <2>2
      <3> HIDE DEF k
      <3>2. reqs[a + k] = more[k] /\ pm[n + k] = more[k]
        BY <1>1, <1>2, <3>1
      <3> QED
        BY <3>1, <3>2
    <2> QED
      BY <1>3, <2>1, <2>2
  <1> QED
    BY <1>5, <1>6

(* The first batch of a sorted queue is the one that is removed.           *)
(* Removing the batch with the id of the first one removes the first.      *)
LEMMA FirstIsRemoved ==
  ASSUME NEW q \in Seq(Batches), Sorted(q), q /= << >>
  PROVE  RemoveMutationBatch(q, Head(q).id) = Tail(q)
  <1>1. /\ Len(q) \in Nat \ {0} /\ DOMAIN q = 1..Len(q) /\ Head(q) = q[1]
        /\ \A i \in DOMAIN q : q[i] \in Batches
    BY TailFact
  <1>2. \A i \in DOMAIN q : q[i].id = q[1].id => i = 1
    <2> SUFFICES ASSUME NEW i \in DOMAIN q, q[i].id = q[1].id, i /= 1 PROVE FALSE
      OBVIOUS
    <2>1. 1 \in DOMAIN q /\ 1 < i
      BY <1>1
    <2>2. q[1].id < q[i].id
      BY <2>1 DEF Sorted
    <2> QED
      BY <1>1, <2>1, <2>2, BatchFact
  <1>3. (CHOOSE i \in DOMAIN q : q[i].id = Head(q).id) = 1
    BY <1>1, <1>2
  <1>4. RemoveMutationBatch(q, Head(q).id) = SubSeq(q, 1, 1 - 1) \o SubSeq(q, 1 + 1, Len(q))
    BY <1>3 DEF RemoveMutationBatch, RemoveAt
  <1>5. SubSeq(q, 1, 1 - 1) = << >> /\ SubSeq(q, 1 + 1, Len(q)) = Tail(q)
    BY <1>1
  <1>6. Tail(q) \in Seq(Batches)
    BY TailFact
  <1>7. << >> \o Tail(q) = Tail(q)
    BY <1>6, EmptyFirst
  <1> QED
    BY <1>4, <1>5, <1>7

(* What is taken from the queue goes on where the pipeline ends.           *)
(* The batches read from the queue continue a pipeline that is a prefix of *)
(* it, and there is room for them.                                         *)
LEMMA NextBatchesFact ==
  ASSUME NEW q \in Seq(Batches), Sorted(q),
         NEW p \in Seq(Batches), Len(p) <= Len(q), Len(p) <= kMaxPendingWrites,
         \A i \in DOMAIN p : p[i] = q[i]
  PROVE  LET more == NextBatches(q, p) IN
         /\ more \in Seq(Batches) /\ Len(more) \in Nat
         /\ Len(p) + Len(more) <= Len(q)
         /\ Len(p) + Len(more) <= kMaxPendingWrites
         /\ \A i \in DOMAIN more : more[i] = q[Len(p) + i]
  <1> DEFINE n == Len(p)
             after == IF p = << >> THEN 0 ELSE Last(p).id
             first == NextMutationBatchAfterBatchId(q, after)
             last == first - 1 + kMaxPendingWrites - Len(p)
             end == IF last < Len(q) THEN last ELSE Len(q)
  <1>1. /\ n \in Nat /\ DOMAIN p = 1..n /\ Len(q) \in Nat /\ DOMAIN q = 1..Len(q)
        /\ kMaxPendingWrites \in Nat
        /\ \A i \in DOMAIN q : q[i] \in Batches /\ q[i].id \in Nat /\ q[i].id > 0
    BY PipelineAssumption, BatchFact
  <1>2. \A j \in DOMAIN q : q[j].id > after <=> j >= n + 1
    <2> TAKE j \in DOMAIN q
    <2>1. CASE n = 0
      BY <1>1, <2>1
    <2>2. CASE n /= 0
      <3>1. n \in DOMAIN q /\ after = q[n].id
        BY <1>1, <2>2 DEF Last
      <3>2. j < n => q[j].id < q[n].id
        BY <3>1 DEF Sorted
      <3>3. n < j => q[n].id < q[j].id
        BY <3>1 DEF Sorted
      <3> HIDE DEF n, after
      <3> QED
        BY <1>1, <3>1, <3>2, <3>3
    <2> QED
      BY <2>1, <2>2
  <1>3. first = n + 1
    <2> HIDE DEF n, after
    <2>1. n + 1 \in 1..(Len(q) + 1)
      BY <1>1 DEF n
    <2>2. \A i \in 1..(Len(q) + 1) :
             (\A j \in DOMAIN q : q[j].id > after <=> j >= i) => i = n + 1
      <3> SUFFICES ASSUME NEW i \in 1..(Len(q) + 1), i /= n + 1,
                          \A j \in DOMAIN q : j >= n + 1 <=> j >= i
                   PROVE  FALSE
        BY <1>2
      <3>1. CASE i < n + 1
        <4>1. i \in DOMAIN q
          BY <1>1, <2>1, <3>1
        <4> QED
          BY <1>1, <3>1, <4>1
      <3>2. CASE n + 1 < i
        <4>1. n + 1 \in DOMAIN q
          BY <1>1, <2>1, <3>2
        <4> QED
          BY <1>1, <3>2, <4>1
      <3> QED
        BY <1>1, <3>1, <3>2
    <2> QED
      BY <1>2, <2>1, <2>2 DEF NextMutationBatchAfterBatchId
  <1>4. NextBatches(q, p) = SubSeq(q, first, end)
    BY DEF NextBatches
  <1> HIDE DEF first
  <1>5. end \in Nat /\ end <= Len(q) /\ end >= n /\ end <= kMaxPendingWrites
    BY <1>1, <1>3
  <1> HIDE DEF end, n
  <1>6. NextBatches(q, p) = SubSeq(q, n + 1, end)
    BY <1>3, <1>4
  <1>7. /\ SubSeq(q, n + 1, end) \in Seq(Batches)
        /\ Len(SubSeq(q, n + 1, end)) = end - n
        /\ \A i \in 1..(end - n) : SubSeq(q, n + 1, end)[i] = q[n + i]
    BY <1>1, <1>5
  <1> DEFINE more == SubSeq(q, n + 1, end)
  <1>8. /\ more \in Seq(Batches) /\ Len(more) = end - n
        /\ \A i \in 1..(end - n) : more[i] = q[n + i]
    BY <1>7
  <1> HIDE DEF more
  <1>9. /\ Len(more) \in Nat /\ n + Len(more) = end
        /\ \A i \in DOMAIN more : more[i] = q[n + i]
    BY <1>1, <1>5, <1>8
  <1>10. NextBatches(q, p) = more
    BY <1>6 DEF more
  <1> QED
    BY <1>5, <1>8, <1>9, <1>10 DEF n

-----------------------------------------------------------------------------
(* The operations of RemoteStore.                                          *)

(* A stream that is started if needed is in step.                          *)
LEMMA StartKeeps ==
  ASSUME NEW q \in Seq(Batches), NEW s \in RemoteStores, NEW ok, NEW bad,
         Loose(s, q, ok, bad)
  PROVE  /\ StartIfNeeded(s) \in RemoteStores
         /\ Stream(StartIfNeeded(s), q, ok, bad)
  <1>1. CASE ~(s.enabled /\ ~IsStarted(s) /\ s.pipeline /= << >>)
    BY <1>1 DEF StartIfNeeded, Stream, Loose, Steady
  <1>2. CASE s.enabled /\ ~IsStarted(s) /\ s.pipeline /= << >>
    <2> DEFINE t == StartWriteStream(s)
    <2>1. StartIfNeeded(s) = t
      BY <1>2 DEF StartIfNeeded
    <2>2. /\ t \in RemoteStores /\ t.state \in {"Starting", "Backoff"}
          /\ t.pipeline = s.pipeline /\ t.up = s.up /\ t.down = s.down
          /\ t.handshake = s.handshake /\ t.enabled = s.enabled /\ t.idle = s.idle
      BY DEF StartWriteStream, RemoteStores
    <2>3. s.state /= "Open"
      BY <1>2 DEF IsStarted
    <2> HIDE DEF t
    <2>4. Flow(t, ok, bad)
      BY <2>2, <2>3 DEF Loose, Flow, Shaking
    <2>5. Prefix(t, q)
      BY <2>2 DEF Loose, Prefix
    <2>6. Steady(t)
      BY <1>2, <2>2, <2>3 DEF Loose, Steady
    <2> QED
      BY <2>1, <2>2, <2>4, <2>5, <2>6 DEF Stream, Loose, IsStarted
  <1> QED
    BY <1>1, <1>2

(* Filling the pipeline keeps it a prefix of the queue and starts the      *)
(* stream.                                                                 *)
LEMMA FillKeeps ==
  ASSUME NEW q \in Seq(Batches), Sorted(q),
         NEW s \in RemoteStores, NEW ok, NEW bad, Loose(s, q, ok, bad)
  PROVE  /\ FillWritePipeline(q, s) \in RemoteStores
         /\ Stream(FillWritePipeline(q, s), q, ok, bad)
  <1>1. CASE ~s.enabled
    BY <1>1 DEF FillWritePipeline, Stream, Loose, Steady
  <1>2. CASE s.enabled
    <2> DEFINE p == s.pipeline
               more == NextBatches(q, p)
               sent == s.state = "Open" /\ s.handshake /\ more /= << >>
               full == [s EXCEPT
                          !.pipeline = @ \o more,
                          !.up = IF sent THEN @ \o more ELSE @,
                          !.idle = /\ ~sent
                                   /\ \/ @
                                      \/ /\ s.state = "Open"
                                         /\ s.pipeline \o more = << >>]
    <2>1. FillWritePipeline(q, s) = StartIfNeeded(full)
      BY <1>2 DEF FillWritePipeline
    <2>2. /\ p \in Seq(Batches) /\ Len(p) \in Nat /\ DOMAIN p = 1..Len(p)
          /\ s.up \in Seq(Batches \cup {Handshake}) /\ Len(s.up) \in Nat
          /\ DOMAIN s.up = 1..Len(s.up)
          /\ Len(s.down) \in Nat /\ DOMAIN s.down = 1..Len(s.down)
          /\ Len(q) \in Nat
      BY DEF RemoteStores
    <2>3. /\ more \in Seq(Batches) /\ Len(more) \in Nat /\ DOMAIN more = 1..Len(more)
          /\ Len(p) + Len(more) <= Len(q)
          /\ Len(p) + Len(more) <= kMaxPendingWrites
          /\ \A i \in DOMAIN more : more[i] = q[Len(p) + i]
      <3>1. /\ Len(p) <= Len(q) /\ Len(p) <= kMaxPendingWrites
            /\ \A i \in DOMAIN p : p[i] = q[i]
        BY DEF Loose, Prefix
      <3>2. /\ more \in Seq(Batches) /\ Len(more) \in Nat
            /\ Len(p) + Len(more) <= Len(q)
            /\ Len(p) + Len(more) <= kMaxPendingWrites
            /\ \A i \in DOMAIN more : more[i] = q[Len(p) + i]
        BY <2>2, <3>1, NextBatchesFact
      <3> HIDE DEF more
      <3> QED
        BY <3>2
    <2> HIDE DEF more
    <2>4. /\ p \o more \in Seq(Batches) /\ Len(p \o more) = Len(p) + Len(more)
          /\ DOMAIN (p \o more) = 1..(Len(p) + Len(more))
          /\ \A i \in 1..Len(p) : (p \o more)[i] = p[i]
          /\ \A i \in 1..Len(more) : (p \o more)[Len(p) + i] = more[i]
      BY <2>2, <2>3, ConcatFact
    <2>5. /\ more \in Seq(Batches \cup {Handshake})
          /\ s.up \o more \in Seq(Batches \cup {Handshake})
          /\ Len(s.up \o more) = Len(s.up) + Len(more)
          /\ DOMAIN (s.up \o more) = 1..(Len(s.up) + Len(more))
          /\ \A i \in 1..Len(s.up) : (s.up \o more)[i] = s.up[i]
          /\ \A i \in 1..Len(more) : (s.up \o more)[Len(s.up) + i] = more[i]
      <3>1. more \in Seq(Batches \cup {Handshake})
        BY <2>3
      <3> QED
        BY <2>2, <3>1, ConcatFact
    <2>6. /\ full \in RemoteStores
          /\ full.pipeline = p \o more
          /\ full.up = IF sent THEN s.up \o more ELSE s.up
          /\ full.down = s.down /\ full.state = s.state
          /\ full.handshake = s.handshake /\ full.enabled = s.enabled
          /\ full.idle => ~sent /\ (s.idle \/ (s.state = "Open" /\ p \o more = << >>))
      BY <2>4, <2>5 DEF RemoteStores
    <2>7. Prefix(full, q)
      <3>1. \A i \in 1..(Len(p) + Len(more)) : (p \o more)[i] = q[i]
        <4> TAKE i \in 1..(Len(p) + Len(more))
        <4>1. CASE i <= Len(p)
          BY <2>2, <2>4, <4>1 DEF Loose, Prefix
        <4>2. CASE i > Len(p)
          <5>1. i - Len(p) \in 1..Len(more) /\ Len(p) + (i - Len(p)) = i
            BY <2>2, <2>3, <4>2
          <5> QED
            BY <2>3, <2>4, <5>1
        <4> QED
          BY <2>2, <2>3, <4>1, <4>2
      <3> QED
        BY <2>3, <2>4, <2>6, <3>1 DEF Prefix
    <2>8. Flow(full, ok, bad)
      <3>1. CASE ~s.handshake
        BY <2>6, <3>1 DEF Loose, Flow, Shaking
      <3>2. CASE s.handshake
        <4>1. s.state = "Open" /\ InFlight(s, ok, bad)
          BY <3>2 DEF Loose, Flow
        <4>2. Ended(full) = Ended(s)
          BY <2>6 DEF Ended
        <4>3. \A i \in DOMAIN s.down :
                /\ s.down[i] = "result" =>
                     i <= Len(full.pipeline) /\ full.pipeline[i].w \in ok
                /\ s.down[i] = "permanent" =>
                     i <= Len(full.pipeline) /\ full.pipeline[i].w \in bad
          BY <2>2, <2>3, <2>4, <2>6, <4>1 DEF InFlight
        <4>4. ASSUME ~Ended(s)
              PROVE  Rest(full.up, full.pipeline, Len(s.down))
          <5>1. Rest(s.up, p, Len(s.down))
            BY <4>1, <4>4 DEF InFlight
          <5>2. full.up = s.up \o more
            <6>1. CASE more = << >>
              BY <2>2, <2>6, <6>1, LastEmpty
            <6>2. CASE more /= << >>
              BY <2>6, <3>2, <4>1, <6>2
            <6> QED
              BY <6>1, <6>2
          <5>3. /\ p \in Seq(Batches \cup {Handshake})
                /\ s.up \in Seq(Batches \cup {Handshake})
                /\ more \in Seq(Batches \cup {Handshake}) /\ Len(s.down) \in Nat
            BY <2>2, <2>5
          <5>4. Rest(s.up \o more, p \o more, Len(s.down))
            BY <5>1, <5>3, FlightGrows
          <5>5. full.pipeline = p \o more
            BY <2>6
          <5> QED
            BY <5>2, <5>4, <5>5
        <4>5. InFlight(full, ok, bad)
          BY <2>6, <4>1, <4>2, <4>3, <4>4 DEF InFlight
        <4> QED
          BY <2>6, <3>2, <4>1, <4>5 DEF Flow
      <3> QED
        BY <3>1, <3>2
    <2>9. Steady(full)
      <3>1. p \o more = << >> <=> p = << >> /\ more = << >>
        BY <2>2, <2>3, <2>4
      <3>2. Steady(s) /\ Flow(s, ok, bad)
        BY DEF Loose
      <3>3. s.idle => s.state = "Open" /\ s.handshake /\ p = << >>
        BY <3>2 DEF Steady
      <3> HIDE DEF p, full
      <3> QED
        BY <1>2, <2>6, <3>1, <3>2, <3>3 DEF Steady, p
    <2> HIDE DEF full
    <2> QED
      BY <2>1, <2>6, <2>7, <2>8, <2>9, StartKeeps DEF Loose
  <1> QED
    BY <1>1, <1>2

(* A closed stream has nothing in flight, and the pipeline stays.          *)
LEMMA ClosedFact ==
  ASSUME NEW s \in RemoteStores, NEW st \in {"Initial", "Error"}
  PROVE  LET t == Closed(s, st) IN
         /\ t \in RemoteStores /\ t.state = st
         /\ t.up = << >> /\ t.down = << >> /\ ~t.handshake /\ ~t.idle
         /\ t.pipeline = s.pipeline /\ t.enabled = s.enabled
  <1> DEFINE t == Closed(s, st)
  <1>1. /\ << >> \in Seq(Batches \cup {Handshake})
        /\ << >> \in Seq({"handshake", "result", "transient", "permanent"})
    OBVIOUS
  <1>2. t \in RemoteStores
    BY <1>1 DEF Closed, RemoteStores
  <1>3. /\ t.state = st /\ t.up = << >> /\ t.down = << >> /\ ~t.handshake /\ ~t.idle
        /\ t.pipeline = s.pipeline /\ t.enabled = s.enabled
    BY DEF Closed, RemoteStores
  <1> QED
    BY <1>2, <1>3

(* Closing the stream and starting it again keeps it in step.              *)
LEMMA RetryKeeps ==
  ASSUME NEW q \in Seq(Batches), NEW s \in RemoteStores, NEW ok, NEW bad,
         Stream(s, q, ok, bad)
  PROVE  Retry(s) \in RemoteStores /\ Stream(Retry(s), q, ok, bad)
  <1> DEFINE t == Closed(s, "Error")
  <1>1. /\ t \in RemoteStores /\ t.state = "Error"
        /\ t.up = << >> /\ t.down = << >> /\ ~t.handshake /\ ~t.idle
        /\ t.pipeline = s.pipeline /\ t.enabled = s.enabled
    BY ClosedFact
  <1> HIDE DEF t
  <1>2. Loose(t, q, ok, bad)
    BY <1>1 DEF Stream, Loose, Prefix, Flow, Shaking, Steady
  <1> QED
    BY <1>1, <1>2, StartKeeps DEF Retry, t

(* A stream that is stopped with the pipeline fits any queue.              *)
(* A disabled network leaves an empty pipeline and no stream.              *)
LEMMA DisableFact ==
  ASSUME NEW q \in Seq(Batches), NEW s \in RemoteStores,
         NEW ok, NEW bad, Stream(s, q, ok, bad)
  PROVE  LET t == DisableNetworkInternal(s) IN
         /\ t \in RemoteStores /\ t.enabled = s.enabled
         /\ t.pipeline = << >> /\ t.up = << >> /\ t.down = << >>
         /\ ~t.handshake /\ ~t.idle /\ t.state \in {"Initial", "Error"}
  <1>1. CASE IsStarted(s)
    <2>1. DisableNetworkInternal(s) = [Closed(s, "Initial") EXCEPT !.pipeline = << >>]
      BY <1>1 DEF DisableNetworkInternal, Stop
    <2> DEFINE c == Closed(s, "Initial")
    <2>2. /\ c \in RemoteStores /\ c.state = "Initial"
          /\ c.up = << >> /\ c.down = << >> /\ ~c.handshake /\ ~c.idle
          /\ c.enabled = s.enabled
      BY ClosedFact
    <2>3. << >> \in Seq(Batches)
      OBVIOUS
    <2> HIDE DEF c
    <2>4. LET t == [c EXCEPT !.pipeline = << >>] IN
          /\ t \in RemoteStores /\ t.enabled = s.enabled
          /\ t.pipeline = << >> /\ t.up = << >> /\ t.down = << >>
          /\ ~t.handshake /\ ~t.idle /\ t.state = "Initial"
      BY <2>2, <2>3 DEF RemoteStores
    <2> QED
      BY <2>1, <2>4 DEF c
  <1>2. CASE ~IsStarted(s)
    <2>1. DisableNetworkInternal(s) = [s EXCEPT !.pipeline = << >>]
      BY <1>2 DEF DisableNetworkInternal, Stop
    <2>2. s.state \in {"Initial", "Error"}
      BY <1>2 DEF IsStarted, RemoteStores
    <2> QED
      BY <2>1, <2>2 DEF Stream, Loose, Flow, Shaking, Steady, RemoteStores
  <1> QED
    BY <1>1, <1>2

(* So does one that never was started.                                     *)
(* An empty pipeline without a stream is in step with any queue.           *)
LEMMA EmptyIsLoose ==
  ASSUME NEW q \in Seq(Batches), NEW s \in RemoteStores,
         NEW ok, NEW bad,
         s.pipeline = << >>, s.up = << >>, s.down = << >>,
         ~s.handshake, ~s.idle, s.state \in {"Initial", "Error"}
  PROVE  Loose(s, q, ok, bad) /\ Stream(s, q, ok, bad)
  <1>1. Prefix(s, q)
    BY PipelineAssumption DEF Prefix
  <1> QED
    BY <1>1 DEF Loose, Stream, Flow, Shaking, Steady

(* After a restart of the network the pipeline is in step with the new     *)
(* queue r.                                                                *)
LEMMA RestartNetworkKeeps ==
  ASSUME NEW q \in Seq(Batches), NEW s \in RemoteStores,
         NEW ok, NEW bad, Stream(s, q, ok, bad),
         NEW r \in Seq(Batches), Sorted(r)
  PROVE  /\ RestartNetwork(r, s) \in RemoteStores
         /\ Stream(RestartNetwork(r, s), r, ok, bad)
  <1> DEFINE t == [DisableNetworkInternal(s) EXCEPT !.state = "Initial"]
  <1>1. /\ t \in RemoteStores
        /\ t.pipeline = << >> /\ t.up = << >> /\ t.down = << >>
        /\ ~t.handshake /\ ~t.idle /\ t.state = "Initial"
    BY DisableFact DEF RemoteStores
  <1> HIDE DEF t
  <1>2. Loose(t, r, ok, bad)
    BY <1>1, EmptyIsLoose
  <1> QED
    BY <1>1, <1>2, FillKeeps DEF RestartNetwork, t

-----------------------------------------------------------------------------
(* The queues, as WriteQueue sees them.                                    *)

(* Sequences are equal that have the same length and elements.             *)
LEMMA SameSequence ==
  ASSUME NEW S, NEW p \in Seq(S), NEW q \in Seq(S), Len(p) = Len(q),
         \A i \in 1..Len(q) : p[i] = q[i]
  PROVE  p = q
  OBVIOUS

(* The writes of a queue, one for each batch.                              *)
LEMMA WritesFact ==
  ASSUME NEW q \in Seq(Batches)
  PROVE  /\ WritesOf(q) \in Seq(Writes) /\ Len(q) \in Nat /\ DOMAIN q = 1..Len(q)
         /\ Len(WritesOf(q)) = Len(q) /\ DOMAIN WritesOf(q) = 1..Len(q)
         /\ \A i \in 1..Len(q) : WritesOf(q)[i] = q[i].w
         /\ WritesOf(q) = << >> <=> q = << >>
  <1>1. Len(q) \in Nat /\ DOMAIN q = 1..Len(q) /\ \A i \in 1..Len(q) : q[i] \in Batches
    OBVIOUS
  <1>2. WritesOf(q) = [i \in 1..Len(q) |-> q[i].w]
    BY <1>1 DEF WritesOf
  <1>3. \A i \in 1..Len(q) : q[i].w \in Writes
    BY <1>1, BatchFact
  <1>4. WritesOf(q) \in Seq(Writes)
    BY <1>1, <1>2, <1>3
  <1>5. DOMAIN WritesOf(q) = 1..Len(q) /\ \A i \in 1..Len(q) : WritesOf(q)[i] = q[i].w
    BY <1>2
  <1>6. Len(WritesOf(q)) = Len(q)
    BY <1>1, <1>4, <1>5
  <1> QED
    BY <1>1, <1>4, <1>5, <1>6

(* A batch that is queued adds its write.                                  *)
LEMMA WritesGrow ==
  ASSUME NEW q \in Seq(Batches), NEW b \in Batches
  PROVE  WritesOf(Append(q, b)) = Append(WritesOf(q), b.w)
  <1> DEFINE r == Append(q, b)
             v == Append(WritesOf(q), b.w)
  <1>1. /\ r \in Seq(Batches) /\ Len(r) = Len(q) + 1 /\ Len(q) \in Nat
        /\ \A i \in 1..Len(q) : r[i] = q[i]
        /\ r[Len(q) + 1] = b
    BY AppendFact
  <1>2. /\ WritesOf(q) \in Seq(Writes) /\ Len(WritesOf(q)) = Len(q)
        /\ \A i \in 1..Len(q) : WritesOf(q)[i] = q[i].w
    BY WritesFact
  <1>3. b.w \in Writes
    BY BatchFact
  <1>4. /\ v \in Seq(Writes) /\ Len(v) = Len(q) + 1
        /\ \A i \in 1..Len(q) : v[i] = WritesOf(q)[i]
        /\ v[Len(q) + 1] = b.w
    BY <1>2, <1>3, AppendFact
  <1> HIDE DEF r, v
  <1>5. /\ WritesOf(r) \in Seq(Writes) /\ Len(WritesOf(r)) = Len(r)
        /\ \A i \in 1..Len(r) : WritesOf(r)[i] = r[i].w
    BY <1>1, WritesFact
  <1>6. \A i \in 1..(Len(q) + 1) : i \in 1..Len(q) \/ i = Len(q) + 1
    BY <1>1
  <1>7. \A i \in 1..(Len(q) + 1) : WritesOf(r)[i] = v[i]
    BY <1>1, <1>2, <1>4, <1>5, <1>6
  <1>8. WritesOf(r) = v
    BY <1>1, <1>4, <1>5, <1>7
  <1> QED
    BY <1>8 DEF r, v

(* A batch that leaves the front takes its write away.                     *)
LEMMA WritesShrink ==
  ASSUME NEW q \in Seq(Batches), q /= << >>
  PROVE  /\ WritesOf(Tail(q)) = Tail(WritesOf(q))
         /\ Head(WritesOf(q)) = Head(q).w
  <1> DEFINE r == Tail(q)
             w == WritesOf(q)
             v == Tail(w)
  <1>1. /\ r \in Seq(Batches) /\ Len(q) \in Nat \ {0} /\ Len(r) = Len(q) - 1
        /\ \A i \in 1..(Len(q) - 1) : r[i] = q[i + 1]
        /\ Head(q) = q[1]
    BY TailFact
  <1>2. /\ w \in Seq(Writes) /\ Len(w) = Len(q) /\ w /= << >>
        /\ \A i \in 1..Len(q) : w[i] = q[i].w
    BY WritesFact
  <1> HIDE DEF w
  <1>3. /\ v \in Seq(Writes) /\ Len(v) = Len(w) - 1 /\ Head(w) = w[1]
        /\ \A i \in 1..(Len(w) - 1) : v[i] = w[i + 1]
    BY <1>2, TailFact
  <1> HIDE DEF r, v
  <1>4. /\ WritesOf(r) \in Seq(Writes) /\ Len(WritesOf(r)) = Len(r)
        /\ \A i \in 1..Len(r) : WritesOf(r)[i] = r[i].w
    BY <1>1, WritesFact
  <1>5. \A i \in 1..(Len(q) - 1) : i + 1 \in 1..Len(q)
    BY <1>1
  <1>6. \A i \in 1..(Len(q) - 1) : WritesOf(r)[i] = v[i]
    BY <1>1, <1>2, <1>3, <1>4, <1>5
  <1>7. WritesOf(r) = v
    <2>1. Len(v) = Len(q) - 1 /\ Len(WritesOf(r)) = Len(q) - 1
      BY <1>1, <1>2, <1>3, <1>4
    <2> QED
      BY <1>3, <1>4, <1>6, <2>1, SameSequence
  <1>8. Head(w) = Head(q).w
    BY <1>1, <1>2, <1>3
  <1> QED
    BY <1>7, <1>8 DEF r, v, w


-----------------------------------------------------------------------------
(* What every action may use of the invariant.                             *)

(* The parts of the invariant, with the types they need.                   *)
LEMMA InvFacts ==
  ASSUME Inv
  PROVE  /\ user \in Users /\ queue \in [Users -> Seq(Batches)]
         /\ queue[user] \in Seq(Batches) /\ Sorted(queue[user])
         /\ rs \in RemoteStores
         /\ Stream(rs, queue[user], stored, refused)
         /\ stale \in Seq(Batches)
         /\ LeftInOrder(stale, queue, Acted)
         /\ nextId \in Nat \ {0} /\ issued \in Nat /\ issued <= MaxWrites /\ MaxWrites \in Nat
  BY PipelineAssumption DEF Inv, TypeOK, HistoryOK, QueuesInOrder

(* The parts of a remote store and their lengths.                          *)
LEMMA StoreFacts ==
  ASSUME NEW s \in RemoteStores
  PROVE  /\ s.pipeline \in Seq(Batches) /\ Len(s.pipeline) \in Nat
         /\ DOMAIN s.pipeline = 1..Len(s.pipeline)
         /\ s.up \in Seq(Batches \cup {Handshake}) /\ Len(s.up) \in Nat
         /\ DOMAIN s.up = 1..Len(s.up)
         /\ s.down \in Seq({"handshake", "result", "transient", "permanent"})
         /\ Len(s.down) \in Nat /\ DOMAIN s.down = 1..Len(s.down)
         /\ s.handshake \in BOOLEAN /\ s.idle \in BOOLEAN /\ s.enabled \in BOOLEAN
         /\ s.state \in {"Initial", "Starting", "Backoff", "Open", "Error"}
  BY DEF RemoteStores

(* The handshake is not taken for a batch.                                 *)
LEMMA HandshakeIsNoBatch == Handshake \notin Batches
  BY BatchFact DEF Handshake

(* What the server may still handle of a stream comes in order.            *)
LEMMA LeftOverFact ==
  ASSUME Inv
  PROVE  LeftOver(rs) \in Seq(Batches) /\ LeftInOrder(LeftOver(rs), queue, Acted)
  <1> DEFINE p == rs.pipeline
             d == Len(rs.down)
             q == queue[user]
             msgs == IF rs.up /= << >> /\ Head(rs.up) = Handshake
                        THEN Tail(rs.up) ELSE rs.up
  <1>1. LeftOver(rs) = IF msgs = << >> \/ Ended(rs) THEN stale ELSE msgs
    BY DEF LeftOver
  <1>2. stale \in Seq(Batches) /\ LeftInOrder(stale, queue, Acted) /\ rs \in RemoteStores
    BY InvFacts
  <1>3. Prefix(rs, q) /\ Flow(rs, stored, refused)
    BY InvFacts DEF Stream, Loose
  <1>4. CASE msgs = << >> \/ Ended(rs)
    BY <1>1, <1>2, <1>4
  <1>5. CASE ~rs.handshake
    <2>1. rs.up = << >> \/ rs.up = <<Handshake>>
      BY <1>3, <1>5 DEF Flow, Shaking
    <2>2. \A h : <<h>> /= << >> /\ Head(<<h>>) = h /\ Tail(<<h>>) = << >>
      OBVIOUS
    <2>3. msgs = << >>
      <3>1. CASE rs.up = << >>
        BY <3>1
      <3>2. CASE rs.up = <<Handshake>>
        BY <2>2, <3>2, Zenon
      <3> QED
        BY <2>1, <3>1, <3>2
    <2> QED
      BY <1>4, <2>3
  <1>6. CASE rs.handshake /\ msgs /= << >> /\ ~Ended(rs)
    <2>1. InFlight(rs, stored, refused)
      BY <1>3, <1>6 DEF Flow
    <2>2. Rest(rs.up, p, d)
      BY <1>6, <2>1 DEF InFlight
    <2>3. /\ p \in Seq(Batches) /\ Len(p) \in Nat /\ d \in Nat /\ Len(rs.up) \in Nat
          /\ DOMAIN rs.up = 1..Len(rs.up) /\ DOMAIN p = 1..Len(p)
          /\ DOMAIN rs.down = 1..d /\ rs.up \in Seq(Batches \cup {Handshake})
      BY <1>2, StoreFacts
    <2>3a. rs.pipeline = p /\ Len(rs.down) = d /\ queue[user] = q
      OBVIOUS
    <2> HIDE DEF p, d, q
    <2>4. \A j \in 1..Len(rs.up) : d + j \in 1..Len(p) /\ rs.up[j] = p[d + j]
      BY <2>2, <2>3 DEF Rest
    <2>5. \A j \in 1..Len(rs.up) : rs.up[j] \in Batches
      BY <2>3, <2>4
    <2>6. rs.up \in Seq(Batches)
      BY <2>3, <2>5
    <2>7. msgs = rs.up
      <3>1. rs.up /= << >> => Head(rs.up) \in Batches
        BY <2>6, TailFact
      <3> QED
        BY <3>1, HandshakeIsNoBatch
    <2>8. \A m \in 1..d : p[m].w \in Acted
      <3> SUFFICES ASSUME NEW m \in 1..d PROVE p[m].w \in Acted
        OBVIOUS
      <3>1. rs.down[m] = "result"
        <4>1. CASE m < d
          BY <2>1, <2>3, <2>3a, <4>1 DEF InFlight
        <4>2. CASE m = d
          <5>1. rs.down /= << >> /\ Last(rs.down) = rs.down[m]
            BY <2>3, <2>3a, <4>2 DEF Last
          <5>2. rs.down[m] \in {"handshake", "result", "transient", "permanent"}
            BY <1>2, <2>3, StoreFacts
          <5> QED
            BY <1>6, <2>1, <2>3, <5>1, <5>2 DEF InFlight, Ended
        <4> QED
          BY <2>3, <4>1, <4>2
      <3> QED
        BY <2>1, <2>3, <2>3a, <3>1 DEF InFlight, Acted
    <2>9. LeftInOrder(rs.up, queue, Acted)
      <3> SUFFICES ASSUME NEW i \in 1..Len(rs.up)
                   PROVE  InTurn(i, rs.up, queue, Acted)
        BY <2>3 DEF LeftInOrder
      <3>1. /\ user \in Users /\ Len(p) <= Len(q) /\ \A k \in 1..Len(p) : p[k] = q[k]
            /\ DOMAIN q = 1..Len(q) /\ Len(q) \in Nat
        <4>1. user \in Users /\ queue[user] \in Seq(Batches)
          BY InvFacts
        <4>2. q \in Seq(Batches)
          BY <2>3a, <4>1
        <4>3. DOMAIN q = 1..Len(q) /\ Len(q) \in Nat
          BY <4>2
        <4>4. Len(p) <= Len(q) /\ \A k \in DOMAIN p : p[k] = q[k]
          BY <1>3, <2>3a DEF Prefix
        <4> QED
          BY <2>3, <4>1, <4>3, <4>4
      <3>2. d + i \in 1..Len(p) /\ d + i \in DOMAIN q /\ q[d + i].w = rs.up[i].w
        <4>1. d + i \in 1..Len(p) /\ rs.up[i] = p[d + i]
          BY <2>4
        <4>2. d + i \in 1..Len(q)
          BY <2>3, <3>1, <4>1
        <4> QED
          BY <3>1, <4>1, <4>2
      <3>3. ASSUME NEW m \in 1..((d + i) - 1)
            PROVE  \/ q[m].w \in Acted
                   \/ \E j \in 1..(i - 1) : rs.up[j].w = q[m].w
        <4>1. CASE m <= d
          <5>1. m \in 1..d /\ m \in 1..Len(p)
            BY <2>3, <3>2, <4>1
          <5> QED
            BY <2>8, <3>1, <5>1
        <4>2. CASE m > d
          <5> DEFINE j == m - d
          <5>1. j \in 1..(i - 1) /\ d + j = m /\ j \in 1..Len(rs.up)
            BY <2>3, <4>2
          <5> HIDE DEF j
          <5>2. rs.up[j] = p[m] /\ m \in 1..Len(p)
            BY <2>4, <5>1
          <5> QED
            BY <3>1, <5>1, <5>2
        <4> QED
          BY <2>3, <4>1, <4>2
      <3>4. user \in Users /\ queue[user] = q
        BY <2>3a, <3>1
      <3> QED
        BY <3>2, <3>3, <3>4, Zenon DEF InTurn
    <2> QED
      BY <1>1, <1>6, <2>6, <2>7, <2>9
  <1> QED
    BY <1>4, <1>5, <1>6

-----------------------------------------------------------------------------
(* The steps of the stream alone, which WriteQueue does not see.           *)

(* A step of the stream alone keeps the invariant if it keeps its part of  *)
(* it.                                                                     *)
LEMMA StreamOnly ==
  ASSUME Inv, UNCHANGED <<engine, history>>, rs' \in RemoteStores,
         Stream(rs', queue[user], stored, refused),
         stale' \in {stale, LeftOver(rs)}
  PROVE  Inv' /\ UNCHANGED Queue!vars
  <1>1. UNCHANGED <<user, queue, nextId, callbacks, waits,
                    issued, owner, stored, refused, told>>
    BY DEF engine, history
  <1>2. stale' \in Seq(Batches) /\ LeftInOrder(stale', queue, Acted)
    BY InvFacts, LeftOverFact
  <1>3. TypeOK'
    BY <1>1, <1>2 DEF Inv, TypeOK
  <1>4. HistoryOK' /\ QueuesInOrder' /\ CallbacksMatch' /\ WaitsCover'
    <2>1. HistoryOK'
      BY <1>1 DEF Inv, HistoryOK
    <2>2. QueuesInOrder'
      BY <1>1 DEF Inv, QueuesInOrder
    <2>3. CallbacksMatch'
      BY <1>1 DEF Inv, CallbacksMatch
    <2>4. WaitsCover'
      BY <1>1 DEF Inv, WaitsCover
    <2> QED
      BY <2>1, <2>2, <2>3, <2>4
  <1>5. LeftInOrder(stale, queue, Acted)'
    BY <1>1, <1>2 DEF Acted
  <1>6. Stream(rs, queue[user], stored, refused)'
    BY <1>1
  <1>7. UNCHANGED Queue!vars
    BY <1>1 DEF Queue!vars, Pending
  <1> QED
    BY <1>3, <1>4, <1>5, <1>6, <1>7 DEF Inv

(* The network is switched on or off, or changes.                          *)
LEMMA NetworkKeeps ==
  ASSUME Inv, DisableNetwork \/ EnableNetwork \/ ConnectivityChanged
  PROVE  Inv' /\ UNCHANGED Queue!vars
  <1> DEFINE q == queue[user]
  <1>1. /\ q \in Seq(Batches) /\ Sorted(q) /\ rs \in RemoteStores
        /\ Stream(rs, q, stored, refused)
    BY InvFacts
  <1>2. UNCHANGED <<engine, history>> /\ stale' \in {stale, LeftOver(rs)}
    BY DEF DisableNetwork, EnableNetwork, ConnectivityChanged
  <1> HIDE DEF q
  <1>3. CASE DisableNetwork
    <2> DEFINE s == [rs EXCEPT !.enabled = FALSE]
               t == DisableNetworkInternal(rs)
    <2>1. rs' = DisableNetworkInternal(s)
      BY <1>3 DEF DisableNetwork
    <2>2. /\ t \in RemoteStores /\ t.pipeline = << >> /\ t.up = << >> /\ t.down = << >>
          /\ ~t.handshake /\ ~t.idle /\ t.state \in {"Initial", "Error"}
      BY <1>1, DisableFact
    <2>3. DisableNetworkInternal(s) = [t EXCEPT !.enabled = FALSE]
      <3>1. IsStarted(s) = IsStarted(rs)
        BY <1>1 DEF IsStarted, RemoteStores
      <3> QED
        BY <1>1, <3>1 DEF DisableNetworkInternal, Stop, Closed, RemoteStores
    <2> HIDE DEF s, t
    <2>4. /\ rs' \in RemoteStores /\ rs'.pipeline = << >>
          /\ rs'.up = << >> /\ rs'.down = << >>
          /\ ~rs'.handshake /\ ~rs'.idle /\ rs'.state \in {"Initial", "Error"}
      BY <2>1, <2>2, <2>3 DEF RemoteStores
    <2>5. Stream(rs', q, stored, refused)
      BY <1>1, <2>4, EmptyIsLoose
    <2> QED
      BY <1>2, <2>4, <2>5, StreamOnly DEF q
  <1>4. CASE EnableNetwork
    <2> DEFINE s == [rs EXCEPT !.enabled = TRUE]
    <2>1. rs' = FillWritePipeline(q, s)
      BY <1>4 DEF EnableNetwork, q
    <2>2. /\ s \in RemoteStores /\ s.enabled /\ s.pipeline = rs.pipeline
          /\ s.state = rs.state /\ s.handshake = rs.handshake /\ s.idle = rs.idle
          /\ s.up = rs.up /\ s.down = rs.down
      BY <1>1 DEF RemoteStores
    <2> HIDE DEF s
    <2>3. Loose(s, q, stored, refused)
      BY <1>1, <2>2
         DEF Stream, Loose, Prefix, Flow, InFlight, Ended, Shaking, Steady
    <2>4. rs' \in RemoteStores /\ Stream(rs', q, stored, refused)
      BY <1>1, <2>1, <2>2, <2>3, FillKeeps
    <2> QED
      BY <1>2, <2>4, StreamOnly DEF q
  <1>5. CASE ConnectivityChanged
    <2>1. rs' = RestartNetwork(q, rs)
      BY <1>5 DEF ConnectivityChanged, q
    <2>2. rs' \in RemoteStores /\ Stream(rs', q, stored, refused)
      BY <1>1, <2>1, RestartNetworkKeeps
    <2> QED
      BY <1>2, <2>2, StreamOnly DEF q
  <1> QED
    BY <1>3, <1>4, <1>5

(* The stream fails, and the pipeline is kept.                             *)
LEMMA RetryStepKeeps ==
  ASSUME Inv, CredentialsFailed \/ OnStreamError \/ Break
  PROVE  Inv' /\ UNCHANGED Queue!vars
  <1>1. UNCHANGED <<engine, history>> /\ stale' \in {stale, LeftOver(rs)} /\ rs' = Retry(rs)
    BY DEF CredentialsFailed, OnStreamError, Break
  <1>2. rs' \in RemoteStores /\ Stream(rs', queue[user], stored, refused)
    BY <1>1, InvFacts, RetryKeeps
  <1> QED
    BY <1>1, <1>2, StreamOnly

(* The stream is opened and its handshake is done.                         *)
LEMMA OpeningKeeps ==
  ASSUME Inv, BackoffElapsed \/ OnWriteStreamOpen \/ OnHandshakeComplete
  PROVE  Inv' /\ UNCHANGED Queue!vars
  <1> DEFINE q == queue[user]
             T == Batches \cup {Handshake}
  <1>1. /\ q \in Seq(Batches) /\ rs \in RemoteStores /\ Stream(rs, q, stored, refused)
    BY InvFacts
  <1>2. UNCHANGED <<engine, history>> /\ stale' = stale
    BY DEF BackoffElapsed, OnWriteStreamOpen, OnHandshakeComplete
  <1>3. Prefix(rs, q) /\ Flow(rs, stored, refused) /\ Steady(rs)
        /\ (rs.pipeline /= << >> => IsStarted(rs))
    BY <1>1 DEF Stream, Loose
  <1> HIDE DEF q, T
  <1>4. CASE BackoffElapsed
    <2>1. rs.state = "Backoff" /\ rs' = [rs EXCEPT !.state = "Starting"]
      BY <1>4 DEF BackoffElapsed
    <2>2. /\ rs' \in RemoteStores /\ rs'.state = "Starting"
          /\ rs'.enabled = rs.enabled /\ rs'.pipeline = rs.pipeline
          /\ rs'.handshake = rs.handshake /\ rs'.idle = rs.idle
          /\ rs'.up = rs.up /\ rs'.down = rs.down
      BY <1>1, <2>1 DEF RemoteStores
    <2>3. Stream(rs', q, stored, refused)
      BY <1>3, <2>1, <2>2 DEF Stream, Loose, Prefix, Flow, Shaking, Steady, IsStarted
    <2> QED
      BY <1>2, <2>2, <2>3, StreamOnly DEF q
  <1>5. CASE OnWriteStreamOpen
    <2>1. /\ rs.state = "Starting"
          /\ rs' = [rs EXCEPT !.state = "Open", !.idle = FALSE,
                              !.up = Append(@, Handshake)]
      BY <1>5 DEF OnWriteStreamOpen
    <2>2. ~rs.handshake /\ rs.up = << >> /\ rs.down = << >> /\ rs.pipeline /= << >>
      BY <1>3, <2>1 DEF Flow, Steady
    <2>3. Append(<< >>, Handshake) = <<Handshake>> /\ <<Handshake>> \in Seq(T)
      BY DEF T
    <2>4. /\ rs' \in RemoteStores /\ rs'.state = "Open" /\ ~rs'.idle
          /\ rs'.enabled = rs.enabled /\ rs'.pipeline = rs.pipeline
          /\ ~rs'.handshake /\ rs'.up = <<Handshake>> /\ rs'.down = << >>
      BY <1>1, <2>1, <2>2, <2>3 DEF RemoteStores, T
    <2>5. Stream(rs', q, stored, refused)
      BY <1>3, <2>1, <2>2, <2>4
         DEF Stream, Loose, Prefix, Flow, Shaking, Steady, IsStarted
    <2> QED
      BY <1>2, <2>4, <2>5, StreamOnly DEF q
  <1>6. CASE OnHandshakeComplete
    <2>1. /\ rs.down /= << >> /\ Head(rs.down) = "handshake"
          /\ rs' = [rs EXCEPT !.handshake = TRUE, !.down = Tail(@),
                              !.up = @ \o rs.pipeline,
                              !.idle = @ /\ rs.pipeline = << >>]
      BY <1>6 DEF OnHandshakeComplete, Response
    <2>2. ~rs.handshake
      <3>1. /\ DOMAIN rs.down = 1..Len(rs.down) /\ 1 \in DOMAIN rs.down
            /\ rs.down[1] = "handshake"
        BY <1>1, <2>1, StoreFacts, TailFact
      <3> QED
        BY <1>3, <3>1 DEF Flow, InFlight
    <2>3. rs.state = "Open" /\ rs.up = << >> /\ rs.down = <<"handshake">>
      <3>1. \A a : Head(<<a>>) = a /\ <<a>> /= << >>
        OBVIOUS
      <3>2. rs.state = "Open" /\ Shaking(rs)
        BY <1>3, <2>1, <2>2 DEF Flow
      <3>3. \A a : rs.down = <<a>> => a = "handshake"
        BY <2>1, <3>1
      <3> QED
        BY <2>1, <3>2, <3>3 DEF Shaking
    <2>4. Tail(rs.down) = << >>
      BY <2>3
    <2>5. rs.up \o rs.pipeline = rs.pipeline /\ rs.pipeline \in Seq(Batches)
      BY <1>1, <2>3, EmptyFirst, StoreFacts
    <2>6. rs.pipeline \in Seq(T)
      BY <2>5 DEF T
    <2>7. /\ rs' \in RemoteStores /\ rs'.state = "Open" /\ (rs'.idle => rs.pipeline = << >>)
          /\ rs'.enabled = rs.enabled /\ rs'.pipeline = rs.pipeline
          /\ rs'.handshake /\ rs'.up = rs.pipeline /\ rs'.down = << >>
      <3>1. << >> \in Seq({"handshake", "result", "transient", "permanent"})
        OBVIOUS
      <3> QED
        BY <1>1, <2>1, <2>3, <2>4, <2>5, <2>6, <3>1 DEF RemoteStores, T
    <2>8. InFlight(rs', stored, refused)
      <3>1. Rest(rs.pipeline, rs.pipeline, 0)
        BY <2>5 DEF Rest
      <3>2. Len(<< >>) = 0 /\ DOMAIN << >> = {}
        OBVIOUS
      <3> QED
        BY <2>7, <3>1, <3>2 DEF InFlight
    <2>9. Stream(rs', q, stored, refused)
      BY <1>3, <2>7, <2>8 DEF Stream, Loose, Prefix, Flow, Steady, IsStarted
    <2> QED
      BY <1>2, <2>7, <2>9, StreamOnly DEF q
  <1> QED
    BY <1>4, <1>5, <1>6

(* The idle stream is stopped; nothing is pending then.                    *)
LEMMA IdleKeeps ==
  ASSUME Inv, IdleTimeout
  PROVE  Inv' /\ UNCHANGED Queue!vars
  <1> DEFINE q == queue[user]
  <1>1. /\ q \in Seq(Batches) /\ rs \in RemoteStores /\ Stream(rs, q, stored, refused)
    BY InvFacts
  <1>2. UNCHANGED <<engine, history>> /\ stale' = LeftOver(rs) /\ rs.idle /\ rs' = Stop(rs)
    BY DEF IdleTimeout
  <1>3. rs.state = "Open" /\ rs.pipeline = << >>
    BY <1>1, <1>2 DEF Stream, Loose, Steady
  <1>4. rs' = Closed(rs, "Initial")
    BY <1>2, <1>3 DEF Stop, IsStarted
  <1>5. /\ rs' \in RemoteStores /\ rs'.state = "Initial"
        /\ rs'.up = << >> /\ rs'.down = << >> /\ ~rs'.handshake /\ ~rs'.idle
        /\ rs'.pipeline = << >>
    BY <1>1, <1>3, <1>4, ClosedFact
  <1> HIDE DEF q
  <1>6. Stream(rs', q, stored, refused)
    BY <1>1, <1>5, EmptyIsLoose
  <1> QED
    BY <1>2, <1>5, <1>6, StreamOnly DEF q

-----------------------------------------------------------------------------
(* The server.                                                             *)

(* More writes were acted on.                                              *)
LEMMA MoreActed ==
  ASSUME NEW late, NEW qs, NEW acted, NEW more, acted \subseteq more,
         LeftInOrder(late, qs, acted)
  PROVE  LeftInOrder(late, qs, more)
  <1>1. ASSUME NEW i, InTurn(i, late, qs, acted) PROVE InTurn(i, late, qs, more)
    BY <1>1 DEF InTurn
  <1> QED
    BY <1>1 DEF LeftInOrder

(* A step of the server alone keeps the invariant if the stream and what   *)
(* was left over stay in step.                                             *)
LEMMA ServerOnly ==
  ASSUME Inv, UNCHANGED <<engine, issued, owner, told>>,
         rs' \in RemoteStores, Stream(rs', queue[user], stored', refused'),
         stored' \subseteq Writes, refused' \subseteq Writes,
         stored \subseteq stored', refused \subseteq refused',
         stale' \in Seq(Batches), LeftInOrder(stale', queue, Acted')
  PROVE  Inv'
  <1>1. UNCHANGED <<user, queue, nextId, callbacks, waits, issued, owner, told>>
    BY DEF engine
  <1>2. TypeOK'
    BY <1>1 DEF Inv, TypeOK
  <1>3. HistoryOK'
    BY <1>1 DEF Inv, HistoryOK
  <1>4. QueuesInOrder'
    BY <1>1 DEF Inv, QueuesInOrder
  <1>5. CallbacksMatch'
    BY <1>1 DEF Inv, CallbacksMatch
  <1>6. WaitsCover'
    BY <1>1 DEF Inv, WaitsCover
  <1>7. LeftInOrder(stale, queue, Acted)'
    BY <1>1
  <1>8. Stream(rs, queue[user], stored, refused)'
    BY <1>1
  <1> QED
    BY <1>2, <1>3, <1>4, <1>5, <1>6, <1>7, <1>8 DEF Inv

(* What WriteQueue sees of the queues.                                     *)
LEMMA PendingFact ==
  ASSUME Inv
  PROVE  /\ Pending \in [Users -> Seq(Writes)]
         /\ \A u \in Users :
               /\ DOMAIN Pending[u] = DOMAIN queue[u]
               /\ \A i \in DOMAIN queue[u] : Pending[u][i] = queue[u][i].w
  <1>1. \A u \in Users : queue[u] \in Seq(Batches)
    BY InvFacts
  <1>2. \A u \in Users : Pending[u] = WritesOf(queue[u])
    BY DEF Pending
  <1>3. \A u \in Users :
           /\ Pending[u] \in Seq(Writes)
           /\ DOMAIN Pending[u] = DOMAIN queue[u]
           /\ \A i \in DOMAIN queue[u] : Pending[u][i] = queue[u][i].w
    BY <1>1, <1>2, WritesFact
  <1> QED
    BY <1>3 DEF Pending

(* The first request of the stream is the handshake, or the write of the   *)
(* queue that follows those the server has answered.                       *)
LEMMA FirstRequest ==
  ASSUME Inv, Request
  PROVE  /\ rs.state = "Open"
         /\ Head(rs.up) = Handshake =>
               ~rs.handshake /\ rs.up = <<Handshake>> /\ rs.down = << >>
         /\ Head(rs.up) /= Handshake =>
               /\ rs.handshake /\ InFlight(rs, stored, refused)
               /\ Rest(rs.up, rs.pipeline, Len(rs.down))
               /\ \A i \in DOMAIN rs.down : rs.down[i] = "result"
               /\ Len(rs.down) + 1 \in DOMAIN rs.pipeline
               /\ Head(rs.up) = rs.pipeline[Len(rs.down) + 1]
               /\ Head(rs.up) \in Batches /\ Head(rs.up).w \in Writes
               /\ Queue!Reached(Head(rs.up).w)
  <1> DEFINE p == rs.pipeline
             d == Len(rs.down)
             q == queue[user]
             b == Head(rs.up)
  <1>1. /\ q \in Seq(Batches) /\ rs \in RemoteStores
        /\ Prefix(rs, q) /\ Flow(rs, stored, refused)
    BY InvFacts DEF Stream, Loose
  <1>2. rs.up /= << >> /\ ~Ended(rs)
    BY DEF Request
  <1>3. rs.state = "Open"
    BY <1>1, <1>2 DEF Flow
  <1>4. CASE ~rs.handshake
    <2>1. Shaking(rs)
      BY <1>1, <1>4 DEF Flow
    <2>2. rs.up = <<Handshake>> /\ rs.down = << >>
      BY <1>2, <2>1 DEF Shaking
    <2>3. \A h : Head(<<h>>) = h
      OBVIOUS
    <2>4. Head(rs.up) = Handshake
      BY <2>2, <2>3, Zenon
    <2> QED
      BY <1>3, <1>4, <2>2, <2>4
  <1>5. CASE rs.handshake
    <2>1. InFlight(rs, stored, refused)
      BY <1>1, <1>5 DEF Flow
    <2>2. Rest(rs.up, p, d)
      BY <1>2, <2>1 DEF InFlight
    <2>3. /\ p \in Seq(Batches) /\ Len(p) \in Nat /\ d \in Nat /\ Len(rs.up) \in Nat
          /\ DOMAIN rs.up = 1..Len(rs.up) /\ DOMAIN p = 1..Len(p)
          /\ DOMAIN rs.down = 1..d /\ Len(rs.up) > 0 /\ b = rs.up[1]
      BY <1>1, <1>2, StoreFacts, TailFact
    <2>4. p = rs.pipeline /\ d = Len(rs.down) /\ q = queue[user] /\ b = Head(rs.up)
      OBVIOUS
    <2> HIDE DEF p, d, q, b
    <2>5. d + 1 \in DOMAIN p /\ b = p[d + 1]
      BY <2>2, <2>3 DEF Rest
    <2>6. b \in Batches /\ b.w \in Writes
      <3>1. b \in Batches
        BY <2>3, <2>5
      <3> QED
        BY <3>1, BatchFact
    <2>7. ASSUME NEW i \in DOMAIN rs.down PROVE rs.down[i] = "result"
      <3>1. CASE i < d
        BY <2>1, <2>4, <3>1 DEF InFlight
      <3>2. CASE i = d
        <4>1. rs.down /= << >> /\ Last(rs.down) = rs.down[i]
          BY <2>3, <2>4, <3>2 DEF Last
        <4>2. rs.down[i] \in {"handshake", "result", "transient", "permanent"}
          BY <1>1, <2>3, StoreFacts
        <4> QED
          BY <1>2, <2>1, <2>3, <4>1, <4>2 DEF InFlight, Ended
      <3> QED
        BY <2>3, <3>1, <3>2
    <2>8. \A m \in 1..d : m \in DOMAIN p /\ p[m].w \in stored \cup refused
      <3>1. \A m \in DOMAIN rs.down : m <= Len(p) /\ p[m].w \in stored
        BY <2>1, <2>4, <2>7 DEF InFlight
      <3> QED
        BY <2>3, <3>1
    <2>9. Queue!Reached(b.w)
      <3>1. user \in Users /\ DOMAIN q = 1..Len(q) /\ Len(q) \in Nat
        BY <1>1, InvFacts
      <3>2. Len(p) <= Len(q) /\ \A i \in DOMAIN p : p[i] = q[i]
        BY <1>1, <2>4 DEF Prefix
      <3>3. /\ DOMAIN Pending[user] = DOMAIN q
            /\ \A i \in DOMAIN q : Pending[user][i] = q[i].w
        BY <2>4, <3>1, PendingFact
      <3>4. DOMAIN p \subseteq DOMAIN q
        BY <2>3, <3>1, <3>2
      <3>5. d + 1 \in DOMAIN Pending[user] /\ Pending[user][d + 1] = b.w
        BY <2>5, <3>2, <3>3, <3>4
      <3>6. \A m \in 1..((d + 1) - 1) : Pending[user][m] \in stored \cup refused
        <4>1. (d + 1) - 1 = d
          BY <2>3
        <4> QED
          BY <2>8, <3>2, <3>3, <3>4, <4>1
      <3> QED
        BY <3>1, <3>5, <3>6, Zenon DEF Queue!Reached
    <2>10. b /= Handshake
      BY <2>6, HandshakeIsNoBatch
    <2> QED
      BY <1>3, <1>5, <2>1, <2>2, <2>4, <2>5, <2>6, <2>7, <2>9, <2>10
  <1> QED
    BY <1>1, <1>4, <1>5, StoreFacts

(* The server answers the handshake.                                       *)
LEMMA ServerHandshakeKeeps ==
  ASSUME Inv, ServerHandshake
  PROVE  Inv' /\ UNCHANGED Queue!vars
  <1>1. /\ Request /\ Head(rs.up) = Handshake
        /\ rs' = [rs EXCEPT !.up = Tail(@), !.down = Append(@, "handshake")]
        /\ UNCHANGED <<engine, history>> /\ stale' = stale
    BY DEF ServerHandshake
  <1>2. rs.state = "Open" /\ ~rs.handshake /\ rs.up = <<Handshake>> /\ rs.down = << >>
    BY <1>1, FirstRequest
  <1>3. /\ \A h : Tail(<<h>>) = << >>
        /\ Append(<< >>, "handshake") = <<"handshake">>
        /\ <<"handshake">> \in Seq({"handshake", "result", "transient", "permanent"})
        /\ << >> \in Seq(Batches \cup {Handshake})
    OBVIOUS
  <1>4. Tail(rs.up) = << >> /\ Append(rs.down, "handshake") = <<"handshake">>
    BY <1>2, <1>3, Zenon
  <1>5. rs \in RemoteStores /\ Stream(rs, queue[user], stored, refused)
    BY InvFacts
  <1>6. /\ rs' \in RemoteStores /\ rs'.state = "Open" /\ rs'.idle = rs.idle
        /\ rs'.enabled = rs.enabled /\ rs'.pipeline = rs.pipeline
        /\ ~rs'.handshake /\ rs'.up = << >> /\ rs'.down = <<"handshake">>
    BY <1>1, <1>2, <1>3, <1>4, <1>5 DEF RemoteStores
  <1>7. Stream(rs', queue[user], stored, refused)
    BY <1>2, <1>5, <1>6 DEF Stream, Loose, Prefix, Flow, Shaking, Steady, IsStarted
  <1> QED
    BY <1>1, <1>6, <1>7, StreamOnly

(* The server commits the next write.                                      *)
LEMMA ServerCommitKeeps ==
  ASSUME Inv, ServerCommit
  PROVE  Inv' /\ \E w \in Queue!Writes : Queue!Store(w)
  <1> DEFINE b == Head(rs.up)
             d == Len(rs.down)
             p == rs.pipeline
             resps == Append(rs.down, "result")
             reqs == Tail(rs.up)
  <1>1. /\ Request /\ b /= Handshake
        /\ stored' = stored \cup {b.w}
        /\ rs' = [rs EXCEPT !.up = reqs, !.down = resps]
        /\ UNCHANGED <<engine, stale, issued, owner, refused, told>>
    BY DEF ServerCommit
  <1>2. /\ rs.state = "Open" /\ rs.handshake /\ InFlight(rs, stored, refused)
        /\ Rest(rs.up, p, d)
        /\ \A i \in DOMAIN rs.down : rs.down[i] = "result"
        /\ d + 1 \in DOMAIN p /\ b = p[d + 1]
        /\ b \in Batches /\ b.w \in Writes /\ Queue!Reached(b.w)
    BY <1>1, FirstRequest
  <1>3. rs \in RemoteStores /\ Stream(rs, queue[user], stored, refused)
    BY InvFacts
  <1>4. /\ p \in Seq(Batches) /\ Len(p) \in Nat /\ DOMAIN p = 1..Len(p)
        /\ rs.up \in Seq(Batches \cup {Handshake}) /\ rs.up /= << >>
        /\ DOMAIN rs.up = 1..Len(rs.up)
        /\ rs.down \in Seq({"handshake", "result", "transient", "permanent"})
        /\ d \in Nat /\ DOMAIN rs.down = 1..d
    BY <1>1, <1>3, StoreFacts DEF Request
  <1>5. /\ reqs \in Seq(Batches \cup {Handshake}) /\ Len(rs.up) \in Nat \ {0}
        /\ Len(reqs) = Len(rs.up) - 1
        /\ DOMAIN reqs = 1..(Len(rs.up) - 1)
        /\ \A i \in 1..(Len(rs.up) - 1) : reqs[i] = rs.up[i + 1]
    BY <1>4, TailFact
  <1>6. /\ resps \in Seq({"handshake", "result", "transient", "permanent"})
        /\ Len(resps) = d + 1 /\ DOMAIN resps = 1..(d + 1)
        /\ \A i \in 1..d : resps[i] = rs.down[i]
        /\ resps[d + 1] = "result"
    BY <1>4, AppendFact
  <1>6a. p = rs.pipeline /\ d = Len(rs.down)
    OBVIOUS
  <1> HIDE DEF b, d, p, resps, reqs
  <1>7. /\ rs' \in RemoteStores /\ rs'.state = "Open" /\ rs'.idle = rs.idle
        /\ rs'.enabled = rs.enabled /\ rs'.pipeline = p
        /\ rs'.handshake /\ rs'.up = reqs /\ rs'.down = resps
    BY <1>1, <1>2, <1>3, <1>5, <1>6, <1>6a DEF RemoteStores
  <1>8. \A i \in 1..(d + 1) : resps[i] = "result" /\ i <= Len(p) /\ p[i].w \in stored'
    <2>1. \A i \in 1..d : rs.down[i] = "result" /\ i <= Len(p) /\ p[i].w \in stored
      BY <1>2, <1>4, <1>6a DEF InFlight
    <2>2. \A i \in 1..(d + 1) : i \in 1..d \/ i = d + 1
      BY <1>4
    <2> QED
      BY <1>1, <1>2, <1>4, <1>6, <2>1, <2>2
  <1>9. Rest(reqs, p, d + 1)
    <2>1. \A j \in 1..Len(rs.up) : rs.up[j] = p[d + j]
      BY <1>2, <1>4 DEF Rest
    <2>2. Len(p) = (d + 1) + Len(reqs)
      <3>1. Len(p) = d + Len(rs.up)
        BY <1>2 DEF Rest
      <3>2. \A x \in Nat : d + x = (d + 1) + (x - 1)
        BY <1>4
      <3> QED
        BY <1>5, <3>1, <3>2, Zenon
    <2>3. ASSUME NEW j \in 1..(Len(rs.up) - 1) PROVE reqs[j] = p[(d + 1) + j]
      <3>1. j + 1 \in 1..Len(rs.up) /\ (d + 1) + j = d + (j + 1)
        BY <1>4, <1>5
      <3> QED
        BY <1>5, <2>1, <3>1
    <2> QED
      BY <1>5, <2>2, <2>3 DEF Rest
  <1>10. InFlight(rs', stored', refused')
    BY <1>6, <1>7, <1>8, <1>9 DEF InFlight
  <1>11. Stream(rs', queue[user], stored', refused')
    BY <1>2, <1>3, <1>6a, <1>7, <1>10 DEF Stream, Loose, Prefix, Flow, Steady, IsStarted
  <1>12. /\ stored' \subseteq Writes /\ stored \subseteq stored' /\ refused' = refused
         /\ refused \subseteq Writes /\ Acted \subseteq Acted'
    BY <1>1, <1>2 DEF Inv, HistoryOK, Acted
  <1>13. stale' \in Seq(Batches) /\ LeftInOrder(stale', queue, Acted')
    BY <1>1, <1>12, InvFacts, MoreActed
  <1>14. Inv'
    BY <1>1, <1>7, <1>11, <1>12, <1>13, ServerOnly
  <1>15. Queue!Store(b.w)
    BY <1>1, <1>2 DEF Queue!Store, engine, Pending
  <1> QED
    BY <1>2, <1>14, <1>15 DEF Queue!Writes, Writes

(* The server ends the stream, for now or because of the write.            *)
LEMMA ServerRefuseKeeps ==
  ASSUME Inv, ServerRefuse
  PROVE  Inv' /\ ((\E w \in Queue!Writes : Queue!Refuse(w)) \/ UNCHANGED Queue!vars)
  <1> DEFINE b == Head(rs.up)
             d == Len(rs.down)
             p == rs.pipeline
  <1>1. /\ Request
        /\ \/ /\ rs' = [rs EXCEPT !.up = << >>, !.down = Append(@, "transient")]
              /\ refused' = refused
           \/ /\ rs' = [rs EXCEPT !.up = << >>, !.down = Append(@, "permanent")]
              /\ refused' = IF b = Handshake THEN refused ELSE refused \cup {b.w}
        /\ UNCHANGED <<engine, stale, issued, owner, stored, told>>
    BY DEF ServerRefuse
  <1>2. PICK a \in {"transient", "permanent"} :
           /\ rs' = [rs EXCEPT !.up = << >>, !.down = Append(@, a)]
           /\ refused' = IF a = "permanent" /\ b /= Handshake
                         THEN refused \cup {b.w} ELSE refused
    BY <1>1
  <1> DEFINE resps == Append(rs.down, a)
  <1>3. rs \in RemoteStores /\ Stream(rs, queue[user], stored, refused)
    BY InvFacts
  <1>4. /\ p \in Seq(Batches) /\ Len(p) \in Nat /\ DOMAIN p = 1..Len(p)
        /\ rs.down \in Seq({"handshake", "result", "transient", "permanent"})
        /\ d \in Nat /\ DOMAIN rs.down = 1..d
    BY <1>3, StoreFacts
  <1>5. /\ resps \in Seq({"handshake", "result", "transient", "permanent"})
        /\ Len(resps) = d + 1 /\ DOMAIN resps = 1..(d + 1)
        /\ \A i \in 1..d : resps[i] = rs.down[i]
        /\ resps[d + 1] = a
    BY <1>4, AppendFact
  <1>6. rs' = [rs EXCEPT !.up = << >>, !.down = resps]
    BY <1>2
  <1>6a. p = rs.pipeline /\ d = Len(rs.down) /\ b = Head(rs.up)
    OBVIOUS
  <1>7. rs.state = "Open"
    BY <1>1, FirstRequest
  <1> HIDE DEF b, d, p, resps
  <1>8. /\ rs' \in RemoteStores /\ rs'.state = "Open" /\ rs'.idle = rs.idle
        /\ rs'.enabled = rs.enabled /\ rs'.pipeline = p
        /\ rs'.handshake = rs.handshake /\ rs'.up = << >> /\ rs'.down = resps
    <2>1. << >> \in Seq(Batches \cup {Handshake})
      OBVIOUS
    <2> QED
      BY <1>3, <1>5, <1>6, <1>6a, <1>7, <2>1 DEF RemoteStores
  <1>9. CASE b = Handshake
    <2>1. ~rs.handshake /\ rs.down = << >>
      BY <1>1, <1>6a, <1>9, FirstRequest
    <2>2. resps = <<a>>
      BY <2>1 DEF resps
    <2>3. Stream(rs', queue[user], stored, refused)
      BY <1>3, <1>6a, <1>7, <1>8, <2>1, <2>2
         DEF Stream, Loose, Prefix, Flow, Shaking, Steady, IsStarted
    <2>4. UNCHANGED <<engine, history>> /\ stale' = stale
      BY <1>1, <1>2, <1>9 DEF history
    <2> QED
      BY <1>8, <2>3, <2>4, StreamOnly
  <1>10. CASE b /= Handshake
    <2>1. /\ rs.handshake /\ InFlight(rs, stored, refused)
          /\ \A i \in DOMAIN rs.down : rs.down[i] = "result"
          /\ d + 1 \in DOMAIN p /\ b = p[d + 1]
          /\ b.w \in Writes /\ Queue!Reached(b.w)
      BY <1>1, <1>6a, <1>10, FirstRequest
    <2>2. /\ refused \subseteq Writes /\ stored \subseteq Writes /\ stored' = stored
          /\ refused' \in {refused, refused \cup {b.w}}
          /\ a = "permanent" => b.w \in refused'
      BY <1>1, <1>2, <1>10 DEF Inv, HistoryOK
    <2>3. \A i \in 1..d : resps[i] = "result" /\ i <= Len(p) /\ p[i].w \in stored
      BY <1>4, <1>5, <1>6a, <2>1 DEF InFlight
    <2>4. Last(resps) = a /\ resps /= << >>
      BY <1>4, <1>5 DEF Last
    <2>5. Ended(rs')
      BY <1>8, <2>4 DEF Ended
    <2>6. ASSUME NEW i \in DOMAIN resps
          PROVE  /\ resps[i] /= "handshake"
                 /\ i < Len(resps) => resps[i] = "result"
                 /\ resps[i] = "result" => i <= Len(p) /\ p[i].w \in stored'
                 /\ resps[i] = "permanent" => i <= Len(p) /\ p[i].w \in refused'
      <3>1. CASE i \in 1..d
        BY <2>2, <2>3, <3>1
      <3>2. CASE i = d + 1
        BY <1>4, <1>5, <2>1, <2>2, <3>2
      <3> QED
        BY <1>4, <1>5, <3>1, <3>2
    <2>7. InFlight(rs', stored', refused')
      BY <1>8, <2>5, <2>6 DEF InFlight
    <2>8. Stream(rs', queue[user], stored', refused')
      BY <1>3, <1>6a, <1>7, <1>8, <2>1, <2>7
         DEF Stream, Loose, Prefix, Flow, Steady, IsStarted
    <2>9. refused' \subseteq Writes /\ refused \subseteq refused' /\ Acted \subseteq Acted'
      BY <2>1, <2>2 DEF Acted
    <2>10. stale' \in Seq(Batches) /\ LeftInOrder(stale', queue, Acted')
      BY <1>1, <2>9, InvFacts, MoreActed
    <2>11. Inv'
      BY <1>1, <1>8, <2>2, <2>8, <2>9, <2>10, ServerOnly
    <2>12. CASE refused' = refused
      <3>1. UNCHANGED Queue!vars
        BY <1>1, <2>12 DEF Queue!vars, engine, Pending
      <3> QED
        BY <2>11, <3>1
    <2>13. CASE refused' = refused \cup {b.w}
      <3>1. Queue!Refuse(b.w)
        BY <1>1, <2>1, <2>13 DEF Queue!Refuse, engine, Pending
      <3> QED
        BY <2>1, <2>11, <3>1 DEF Queue!Writes, Writes
    <2> QED
      BY <2>2, <2>12, <2>13
  <1> QED
    BY <1>9, <1>10

(* The first request of those left over was acted on before, or it is the  *)
(* next write of a queue.                                                  *)
LEMMA FirstIsReached ==
  ASSUME Inv, stale /= << >>
  PROVE  Queue!Reached(Head(stale).w)
  <1> DEFINE w == Head(stale).w
  <1>1. 1 \in DOMAIN stale /\ Head(stale) = stale[1] /\ LeftInOrder(stale, queue, Acted)
    BY InvFacts, TailFact
  <1>2. CASE w \in Acted
    BY <1>2 DEF Queue!Reached, Acted
  <1>3. CASE InTurn(1, stale, queue, Acted)
    <2>0. PICK u \in Users : \E k \in DOMAIN queue[u] :
             /\ queue[u][k].w = stale[1].w
             /\ \A m \in 1..(k - 1) :
                   \/ queue[u][m].w \in Acted
                   \/ \E j \in 1..(1 - 1) : stale[j].w = queue[u][m].w
      BY <1>3, Zenon DEF InTurn
    <2>1. PICK k \in DOMAIN queue[u] :
             /\ queue[u][k].w = stale[1].w
             /\ \A m \in 1..(k - 1) :
                   \/ queue[u][m].w \in Acted
                   \/ \E j \in 1..(1 - 1) : stale[j].w = queue[u][m].w
      BY <2>0, Zenon
    <2>2. 1..(1 - 1) = {}
      OBVIOUS
    <2>3. \A m \in 1..(k - 1) : queue[u][m].w \in Acted
      BY <2>1, <2>2, Zenon
    <2>4. /\ DOMAIN Pending[u] = DOMAIN queue[u]
          /\ \A i \in DOMAIN queue[u] : Pending[u][i] = queue[u][i].w
      BY PendingFact
    <2>5. \A m \in 1..(k - 1) : m \in DOMAIN queue[u]
      <3>1. queue[u] \in Seq(Batches)
        BY InvFacts
      <3>2. DOMAIN queue[u] = 1..Len(queue[u]) /\ Len(queue[u]) \in Nat
        BY <3>1
      <3> QED
        BY <3>2
    <2>6. \A m \in 1..(k - 1) : Pending[u][m] \in stored \cup refused
      BY <2>3, <2>4, <2>5 DEF Acted
    <2>7. k \in DOMAIN Pending[u] /\ Pending[u][k] = w
      BY <1>1, <2>1, <2>4
    <2> HIDE DEF w
    <2> QED
      BY <2>6, <2>7, Zenon DEF Queue!Reached, w
  <1> QED
    BY <1>1, <1>2, <1>3 DEF LeftInOrder

(* The stream stays in step when more was stored.                          *)
LEMMA MoreStored ==
  ASSUME NEW s, NEW q, NEW ok, NEW bad, NEW w, Stream(s, q, ok, bad)
  PROVE  Stream(s, q, ok \cup {w}, bad)
  <1>1. InFlight(s, ok, bad) => InFlight(s, ok \cup {w}, bad)
    BY DEF InFlight
  <1> QED
    BY <1>1 DEF Stream, Loose, Flow

(* The server handles a request of a closed stream.                        *)
LEMMA ServerLateKeeps ==
  ASSUME Inv, ServerLate
  PROVE  Inv' /\ ((\E w \in Queue!Writes : Queue!Store(w)) \/ UNCHANGED Queue!vars)
  <1> DEFINE w == Head(stale).w
  <1>1. /\ stale /= << >>
        /\ UNCHANGED <<engine, rs, issued, owner, refused, told>>
        /\ \/ stored' = stored \cup {w} /\ stale' = Tail(stale)
           \/ stale' = << >> /\ stored' = stored
    BY DEF ServerLate
  <1>2. /\ stale \in Seq(Batches) /\ LeftInOrder(stale, queue, Acted)
        /\ rs \in RemoteStores /\ Stream(rs, queue[user], stored, refused)
        /\ stored \subseteq Writes /\ refused \subseteq Writes
    BY InvFacts DEF Inv, HistoryOK
  <1>3. Head(stale) \in Batches /\ w \in Writes
    <2>1. Head(stale) \in Batches
      BY <1>1, <1>2, TailFact
    <2> QED
      BY <2>1, BatchFact
  <1>4. CASE stale' = << >> /\ stored' = stored
    <2>1. << >> \in Seq(Batches) /\ LeftInOrder(<< >>, queue, Acted')
      BY DEF LeftInOrder
    <2>2. Inv'
      BY <1>1, <1>2, <1>4, <2>1, ServerOnly
    <2>3. UNCHANGED Queue!vars
      BY <1>1, <1>4 DEF Queue!vars, engine, Pending
    <2> QED
      BY <2>2, <2>3
  <1>5. CASE stored' = stored \cup {w} /\ stale' = Tail(stale)
    <2>1. /\ Tail(stale) \in Seq(Batches) /\ Len(stale) \in Nat
          /\ DOMAIN stale = 1..Len(stale)
          /\ DOMAIN Tail(stale) = 1..(Len(stale) - 1)
          /\ \A i \in 1..(Len(stale) - 1) : Tail(stale)[i] = stale[i + 1]
          /\ Head(stale) = stale[1]
      BY <1>1, <1>2, TailFact
    <2>2. Acted' = Acted \cup {w} /\ Acted \subseteq Acted'
      BY <1>1, <1>5 DEF Acted
    <2>3. LeftInOrder(Tail(stale), queue, Acted')
      <3> SUFFICES ASSUME NEW i \in DOMAIN Tail(stale), Tail(stale)[i].w \notin Acted'
                   PROVE  InTurn(i, Tail(stale), queue, Acted')
        BY DEF LeftInOrder
      <3>1. i + 1 \in DOMAIN stale /\ Tail(stale)[i] = stale[i + 1] /\ i \in Nat
        BY <2>1
      <3>2. InTurn(i + 1, stale, queue, Acted)
        BY <1>2, <2>2, <3>1 DEF LeftInOrder
      <3>2a. PICK u \in Users : \E k \in DOMAIN queue[u] :
               /\ queue[u][k].w = stale[i + 1].w
               /\ \A m \in 1..(k - 1) :
                     \/ queue[u][m].w \in Acted
                     \/ \E j \in 1..((i + 1) - 1) : stale[j].w = queue[u][m].w
        BY <3>2, Zenon DEF InTurn
      <3>3. PICK k \in DOMAIN queue[u] :
               /\ queue[u][k].w = stale[i + 1].w
               /\ \A m \in 1..(k - 1) :
                     \/ queue[u][m].w \in Acted
                     \/ \E j \in 1..((i + 1) - 1) : stale[j].w = queue[u][m].w
        BY <3>2a, Zenon
      <3>4. ASSUME NEW m \in 1..(k - 1)
            PROVE  \/ queue[u][m].w \in Acted'
                   \/ \E j \in 1..(i - 1) : Tail(stale)[j].w = queue[u][m].w
        <4>1. CASE queue[u][m].w \in Acted
          BY <2>2, <4>1
        <4>2. ASSUME NEW j \in 1..((i + 1) - 1), stale[j].w = queue[u][m].w
              PROVE  \/ queue[u][m].w \in Acted'
                     \/ \E l \in 1..(i - 1) : Tail(stale)[l].w = queue[u][m].w
          <5>1. CASE j = 1
            BY <2>1, <2>2, <4>2, <5>1
          <5>2. CASE j > 1
            <6>1. j - 1 \in 1..(i - 1) /\ j - 1 \in 1..(Len(stale) - 1) /\ (j - 1) + 1 = j
              BY <2>1, <3>1, <5>2
            <6>2. Tail(stale)[j - 1] = stale[j]
              BY <2>1, <6>1
            <6> QED
              BY <4>2, <6>1, <6>2
          <5> QED
            BY <3>1, <5>1, <5>2
        <4> QED
          BY <3>3, <4>1, <4>2, Zenon
      <3>5. queue[u][k].w = Tail(stale)[i].w
        BY <3>1, <3>3
      <3> QED
        BY <3>4, <3>5, Zenon DEF InTurn
    <2>4. Inv'
      BY <1>1, <1>2, <1>3, <1>5, <2>1, <2>2, <2>3, MoreStored, ServerOnly
    <2>5. Queue!Store(w)
      BY <1>1, <1>5, FirstIsReached DEF Queue!Store, engine, Pending
    <2> QED
      BY <1>3, <2>4, <2>5 DEF Queue!Writes, Writes
  <1> QED
    BY <1>1, <1>4, <1>5

-----------------------------------------------------------------------------
(* The engine.                                                             *)

(* waitForPendingWrites() covers the writes that are queued.               *)
LEMMA WaitKeeps ==
  ASSUME Inv, RegisterPendingWritesCallback
  PROVE  Inv' /\ UNCHANGED Queue!vars
  <1> DEFINE q == queue[user]
             t == [at |-> Last(q).id, for |-> {q[i].w : i \in DOMAIN q}]
  <1>1. /\ q /= << >> /\ waits' = waits \cup {t}
        /\ UNCHANGED <<user, queue, nextId, callbacks, rs, stale, faults, history>>
    BY DEF RegisterPendingWritesCallback
  <1>2. q \in Seq(Batches) /\ Sorted(q) /\ user \in Users
    BY InvFacts
  <1>3. /\ Len(q) \in Nat \ {0} /\ DOMAIN q = 1..Len(q) /\ Last(q) = q[Len(q)]
        /\ \A i \in DOMAIN q : q[i] \in Batches
    BY <1>1, <1>2, TailFact DEF Last
  <1>4. \A i \in DOMAIN q : q[i].w \in Writes /\ q[i].w <= issued /\ q[i].id \in Nat
    BY <1>2, <1>3, BatchFact DEF Inv, QueuesInOrder
  <1>5. \A i \in DOMAIN q : q[i].id <= Last(q).id
    <2> TAKE i \in DOMAIN q
    <2>1. Len(q) \in DOMAIN q
      BY <1>3
    <2>2. i < Len(q) => q[i].id < q[Len(q)].id
      BY <1>2, <2>1 DEF Sorted
    <2> QED
      BY <1>3, <1>4, <2>1, <2>2
  <1>6. t.at \in Nat /\ t.for \subseteq Writes /\ \A w \in t.for : w <= issued
    BY <1>3, <1>4
  <1>7. t.at = Last(q).id /\ queue[user] = q
    OBVIOUS
  <1>8. UNCHANGED <<issued, owner, stored, refused, told>>
    BY <1>1 DEF history
  <1> HIDE DEF t, q
  <1>9. TypeOK'
    BY <1>1, <1>6 DEF Inv, TypeOK
  <1>10. WaitsCover'
    BY <1>1, <1>5, <1>6, <1>7, <1>8 DEF Inv, WaitsCover
  <1>11. HistoryOK' /\ QueuesInOrder' /\ CallbacksMatch'
    <2>1. HistoryOK'
      BY <1>1, <1>8 DEF Inv, HistoryOK
    <2>2. QueuesInOrder'
      BY <1>1, <1>8 DEF Inv, QueuesInOrder
    <2>3. CallbacksMatch'
      BY <1>1, <1>8 DEF Inv, CallbacksMatch
    <2> QED
      BY <2>1, <2>2, <2>3
  <1>12. LeftInOrder(stale, queue, Acted)' /\ Stream(rs, queue[user], stored, refused)'
    BY <1>1, <1>8, InvFacts DEF Acted
  <1>13. UNCHANGED Queue!vars
    BY <1>1, <1>8 DEF Queue!vars, Pending
  <1> QED
    BY <1>9, <1>10, <1>11, <1>12, <1>13 DEF Inv

(* A set of numbers below a bound has a greatest one.                      *)
LEMMA GreatestExists ==
  ASSUME NEW n \in Nat, NEW S, S \subseteq 0..n, S /= {}
  PROVE  \E x \in S : \A y \in S : y <= x
  <1> DEFINE T == {n - x : x \in S}
  <1>1. T \subseteq Nat /\ T /= {}
    <2>1. \A x \in S : x \in 0..n /\ n - x \in Nat
      OBVIOUS
    <2>2. PICK x : x \in S
      OBVIOUS
    <2> QED
      BY <2>1, <2>2
  <1>2. \E x \in T : \A y \in T : ~(<<y, x>> \in OpToRel(<, Nat))
    BY <1>1, NatLessThanWellFounded, WFMin
  <1>3. PICK x \in T : \A y \in T : ~(<<y, x>> \in OpToRel(<, Nat))
    BY <1>2
  <1>4. \A y \in T : ~(y < x)
    BY <1>1, <1>3 DEF OpToRel
  <1>5. PICK m \in S : x = n - m
    OBVIOUS
  <1>6. \A y \in S : y <= m
    <2> TAKE y \in S
    <2>1. n - y \in T
      OBVIOUS
    <2>2. ~(n - y < n - m)
      BY <1>4, <1>5, <2>1
    <2> QED
      BY <2>2
  <1> QED
    BY <1>6

(* The id that a restarted engine gives next is above all those in use.    *)
LEMMA LoadFact ==
  ASSUME Inv
  PROVE  /\ LoadNextBatchId \in Nat \ {0}
         /\ \A u \in Users : \A i \in DOMAIN queue[u] : queue[u][i].id < LoadNextBatchId
  <1> DEFINE ids == UNION {{queue[u][i].id : i \in DOMAIN queue[u]} : u \in Users}
             max == CHOOSE n \in ids : \A m \in ids : m <= n
  <1>1. LoadNextBatchId = IF ids = {} THEN 1 ELSE max + 1
    BY DEF LoadNextBatchId
  <1>2. \A u \in Users : \A i \in DOMAIN queue[u] : queue[u][i].id \in ids
    OBVIOUS
  <1>3. ids \subseteq 0..nextId
    <2>1. \A u \in Users : \A i \in DOMAIN queue[u] :
             queue[u][i].id \in Nat /\ queue[u][i].id < nextId
      <3>1. \A u \in Users : \A i \in DOMAIN queue[u] : queue[u][i] \in Batches
        BY InvFacts
      <3> QED
        BY <3>1, BatchFact DEF Inv, QueuesInOrder
    <2>2. nextId \in Nat
      BY InvFacts
    <2> QED
      BY <2>1, <2>2
  <1>4. nextId \in Nat
    BY InvFacts
  <1> HIDE DEF ids
  <1>5. CASE ids = {}
    BY <1>1, <1>2, <1>5
  <1>6. CASE ids /= {}
    <2>1. \E n \in ids : \A m \in ids : m <= n
      BY <1>3, <1>4, <1>6, GreatestExists
    <2>2. max \in ids /\ \A m \in ids : m <= max
      BY <2>1
    <2> HIDE DEF max
    <2>3. max \in Nat /\ \A m \in ids : m \in Nat
      BY <1>3, <1>4, <2>2
    <2>4. max + 1 \in Nat \ {0} /\ \A m \in ids : m < max + 1
      BY <2>2, <2>3
    <2> QED
      BY <1>1, <1>2, <1>6, <2>4
  <1> QED
    BY <1>5, <1>6

(* Another user signs in: the pipeline is that of the new queue.           *)
LEMMA CredentialKeeps ==
  ASSUME Inv, NEW u \in Users, HandleCredentialChange(u)
  PROVE  Inv' /\ Queue!SwitchUser(u)
  <1>1. /\ user' = u
        /\ UNCHANGED <<queue, callbacks, issued, owner, stored, refused, told>>
        /\ \/ waits' = {} /\ nextId' = LoadNextBatchId
           \/ u = user /\ waits' = waits /\ nextId' = nextId
        /\ \/ rs' = RestartNetwork(queue[u], rs) /\ stale' = LeftOver(rs)
           \/ ~rs.enabled /\ rs' = rs /\ stale' = stale
    BY DEF HandleCredentialChange, history
  <1>2. /\ rs \in RemoteStores /\ queue[user] \in Seq(Batches)
        /\ Stream(rs, queue[user], stored, refused)
        /\ queue[u] \in Seq(Batches) /\ Sorted(queue[u])
    BY InvFacts DEF Inv, QueuesInOrder
  <1>3. rs' \in RemoteStores /\ Stream(rs', queue[u], stored, refused)
    <2>1. CASE rs' = RestartNetwork(queue[u], rs)
      BY <1>2, <2>1, RestartNetworkKeeps
    <2>2. CASE ~rs.enabled /\ rs' = rs
      <3>1. rs.pipeline = << >>
        BY <1>2, <2>2 DEF Stream, Loose, Steady
      <3>2. Prefix(rs, queue[u])
        BY <1>2, <3>1, PipelineAssumption DEF Prefix
      <3> QED
        BY <1>2, <2>2, <3>1, <3>2 DEF Stream, Loose
    <2> QED
      BY <1>1, <2>1, <2>2
  <1>4. stale' \in Seq(Batches) /\ LeftInOrder(stale', queue, Acted)
    BY <1>1, InvFacts, LeftOverFact
  <1>5. TypeOK'
    BY <1>1, <1>3, <1>4, LoadFact DEF Inv, TypeOK
  <1>6. HistoryOK'
    BY <1>1 DEF Inv, HistoryOK
  <1>7. QueuesInOrder'
    <2>1. \A v \in Users : \A i \in DOMAIN queue[v] : queue[v][i].id < nextId'
      BY <1>1, LoadFact DEF Inv, QueuesInOrder
    <2> QED
      BY <1>1, <2>1 DEF Inv, QueuesInOrder
  <1>8. CallbacksMatch'
    BY <1>1 DEF Inv, CallbacksMatch
  <1>9. WaitsCover'
    BY <1>1 DEF Inv, WaitsCover
  <1>10. LeftInOrder(stale, queue, Acted)' /\ Stream(rs, queue[user], stored, refused)'
    BY <1>1, <1>3, <1>4 DEF Acted
  <1>11. Queue!SwitchUser(u)
    BY <1>1 DEF Queue!SwitchUser, Pending
  <1> QED
    BY <1>5, <1>6, <1>7, <1>8, <1>9, <1>10, <1>11 DEF Inv

(* After a restart nobody waits, and the pipeline is filled anew.          *)
LEMMA RestartKeeps ==
  ASSUME Inv, Restart
  PROVE  Inv' /\ Queue!Restart
  <1> DEFINE lost == [w \in Writes |->
                        IF w <= issued /\ told[w] = "waiting" THEN "lost" ELSE told[w]]
             s == NoStream(TRUE)
  <1>1. /\ nextId' = LoadNextBatchId /\ callbacks' = [u \in Users |-> {}] /\ waits' = {}
        /\ rs' = FillWritePipeline(queue[user], s)
        /\ stale' = LeftOver(rs) /\ told' = lost
        /\ UNCHANGED <<user, queue, issued, owner, stored, refused>>
    BY DEF Restart
  <1>2. queue[user] \in Seq(Batches) /\ Sorted(queue[user])
    BY InvFacts
  <1>3. /\ s \in RemoteStores /\ s.pipeline = << >> /\ s.up = << >> /\ s.down = << >>
        /\ ~s.handshake /\ ~s.idle /\ s.state = "Initial"
    <2>1. /\ << >> \in Seq(Batches) /\ << >> \in Seq(Batches \cup {Handshake})
          /\ << >> \in Seq({"handshake", "result", "transient", "permanent"})
      OBVIOUS
    <2> QED
      BY <2>1 DEF NoStream, RemoteStores
  <1> HIDE DEF s
  <1>4. rs' \in RemoteStores /\ Stream(rs', queue[user], stored, refused)
    <2>1. Loose(s, queue[user], stored, refused)
      BY <1>2, <1>3, EmptyIsLoose
    <2> QED
      BY <1>1, <1>2, <1>3, <2>1, FillKeeps
  <1>5. stale' \in Seq(Batches) /\ LeftInOrder(stale', queue, Acted)
    BY <1>1, LeftOverFact
  <1>6. told \in [Writes -> {"waiting", "ok", "error", "lost"}]
    BY DEF Inv, HistoryOK
  <1>7. /\ told' \in [Writes -> {"waiting", "ok", "error", "lost"}]
        /\ \A w \in Writes : /\ w <= issued => told'[w] /= "waiting"
                             /\ ~(w <= issued) => told'[w] = told[w]
    BY <1>1, <1>6
  <1> HIDE DEF lost
  <1>8. TypeOK'
    BY <1>1, <1>4, <1>5, LoadFact DEF Inv, TypeOK
  <1>9. HistoryOK'
    BY <1>1, <1>7 DEF Inv, HistoryOK
  <1>10. QueuesInOrder'
    BY <1>1, LoadFact DEF Inv, QueuesInOrder
  <1>11. CallbacksMatch'
    <2>1. \A u \in Users : \A i \in DOMAIN queue[u] :
             queue[u][i].w \in Writes /\ queue[u][i].w <= issued
      <3>1. \A u \in Users : \A i \in DOMAIN queue[u] : queue[u][i] \in Batches
        BY InvFacts
      <3> QED
        BY <3>1, BatchFact DEF Inv, QueuesInOrder
    <2>2. \A w \in Writes : w > issued => told'[w] = "waiting"
      <3>1. \A w \in Writes : w > issued => ~(w <= issued)
        BY InvFacts DEF Writes
      <3> QED
        BY <1>7, <3>1 DEF Inv, CallbacksMatch
    <2> QED
      BY <1>1, <1>7, <2>1, <2>2 DEF CallbacksMatch
  <1>12. WaitsCover'
    BY <1>1 DEF WaitsCover
  <1>13. LeftInOrder(stale, queue, Acted)' /\ Stream(rs, queue[user], stored, refused)'
    BY <1>1, <1>4, <1>5 DEF Acted
  <1>14. Queue!Restart
    BY <1>1 DEF Queue!Restart, Queue!Writes, Writes, Pending, lost
  <1> QED
    BY <1>8, <1>9, <1>10, <1>11, <1>12, <1>13, <1>14 DEF Inv

(* A write is queued and sent if there is room.                            *)
LEMMA WriteKeeps ==
  ASSUME Inv, WriteMutations
  PROVE  Inv' /\ Queue!Write
  <1> DEFINE q == queue[user]
             b == [id |-> nextId, w |-> issued + 1]
             r == Append(q, b)
  <1>1. /\ issued < MaxWrites
        /\ queue' = [queue EXCEPT ![user] = r]
        /\ callbacks' = [callbacks EXCEPT ![user] =
              IF \E c \in @ : c.id = b.id THEN @ ELSE @ \cup {b}]
        /\ nextId' = nextId + 1
        /\ rs' = FillWritePipeline(queue'[user], rs)
        /\ issued' = issued + 1
        /\ owner' = [owner EXCEPT ![issued + 1] = user]
        /\ UNCHANGED <<user, waits, stale, stored, refused, told>>
    BY DEF WriteMutations
  <1>2. /\ user \in Users /\ queue \in [Users -> Seq(Batches)]
        /\ q \in Seq(Batches) /\ Sorted(q)
        /\ nextId \in Nat \ {0} /\ issued \in Nat /\ MaxWrites \in Nat
    BY InvFacts
  <1>3. issued + 1 \in Writes /\ b \in Batches /\ b.id = nextId /\ b.w = issued + 1
    BY <1>1, <1>2 DEF Writes, Batches
  <1>4. /\ r \in Seq(Batches) /\ Len(q) \in Nat /\ Len(r) = Len(q) + 1
        /\ DOMAIN r = 1..(Len(q) + 1) /\ DOMAIN q = 1..Len(q)
        /\ \A i \in DOMAIN q : r[i] = q[i]
        /\ r[Len(q) + 1] = b
    BY <1>2, <1>3, AppendFact
  <1>5. \A u \in Users : \A i \in DOMAIN queue[u] :
           /\ queue[u][i] \in Batches /\ queue[u][i].w \in Writes
           /\ queue[u][i].id \in Nat /\ queue[u][i].id < nextId
           /\ queue[u][i].w <= issued /\ owner[queue[u][i].w] = u
    <2>1. \A u \in Users : \A i \in DOMAIN queue[u] : queue[u][i] \in Batches
      BY <1>2
    <2> QED
      BY <2>1, BatchFact DEF Inv, QueuesInOrder
  <1>6. /\ queue'[user] = r /\ queue[user] = q
        /\ \A u \in Users : u /= user => queue'[u] = queue[u]
    BY <1>1, <1>2
  <1>7. callbacks \in [Users -> SUBSET Batches]
    BY DEF Inv, TypeOK
  <1>8. ~ \E c \in callbacks[user] : c.id = b.id
    <2> SUFFICES ASSUME NEW c \in callbacks[user] PROVE c.id /= nextId
      BY <1>3
    <2>1. PICK i \in DOMAIN q : q[i] = c
      BY <1>2 DEF Inv, CallbacksMatch
    <2> QED
      BY <1>2, <1>5, <2>1
  <1>9. /\ callbacks'[user] = callbacks[user] \cup {b}
        /\ \A u \in Users : u /= user => callbacks'[u] = callbacks[u]
        /\ callbacks' \in [Users -> SUBSET Batches]
    <2>1. callbacks' = [callbacks EXCEPT ![user] = callbacks[user] \cup {b}]
      BY <1>1, <1>8
    <2> HIDE DEF b
    <2> QED
      BY <1>2, <1>3, <1>7, <2>1
  <1>10. owner \in [Writes -> Users] /\ told \in [Writes -> {"waiting", "ok", "error", "lost"}]
    BY DEF Inv, HistoryOK
  <1>11. /\ owner' \in [Writes -> Users] /\ owner'[issued + 1] = user
         /\ \A w \in Writes : w <= issued => owner'[w] = owner[w]
    BY <1>1, <1>2, <1>3, <1>10
  <1> HIDE DEF q, b, r
  <1>12. rs' \in RemoteStores /\ Stream(rs', r, stored, refused) /\ Sorted(r)
    <2>1. Sorted(r)
      <3> SUFFICES ASSUME NEW i \in DOMAIN r, NEW j \in DOMAIN r, i < j
                   PROVE  r[i].id < r[j].id
        BY DEF Sorted
      <3>1. i \in DOMAIN q /\ r[i] = q[i]
        BY <1>4
      <3>2. CASE j \in DOMAIN q
        BY <1>2, <1>4, <3>1, <3>2 DEF Sorted
      <3>3. CASE j = Len(q) + 1
        <4>1. q[i].id < nextId
          BY <1>2, <1>5, <1>6, <3>1
        <4> QED
          BY <1>3, <1>4, <3>1, <3>3, <4>1
      <3> QED
        BY <1>4, <3>2, <3>3
    <2>2. rs \in RemoteStores /\ Stream(rs, q, stored, refused)
      BY <1>6, InvFacts
    <2>3. Prefix(rs, r)
      <3>1. DOMAIN rs.pipeline = 1..Len(rs.pipeline) /\ Len(rs.pipeline) \in Nat
        BY <2>2, StoreFacts
      <3>2. Prefix(rs, q)
        BY <2>2 DEF Stream, Loose
      <3>3. \A i \in DOMAIN rs.pipeline : i \in DOMAIN q /\ rs.pipeline[i] = q[i]
        BY <1>4, <3>1, <3>2 DEF Prefix
      <3>4. Len(rs.pipeline) <= Len(r)
        BY <1>4, <3>1, <3>2 DEF Prefix
      <3> QED
        BY <1>4, <3>2, <3>3, <3>4 DEF Prefix
    <2>4. Loose(rs, r, stored, refused)
      BY <2>2, <2>3 DEF Stream, Loose
    <2> QED
      BY <1>1, <1>4, <1>6, <2>1, <2>2, <2>4, FillKeeps
  <1>13. TypeOK'
    <2>1. queue' \in [Users -> Seq(Batches)]
      BY <1>1, <1>2, <1>4
    <2>2. nextId' \in Nat \ {0}
      BY <1>1, <1>2
    <2> QED
      BY <1>1, <1>9, <1>12, <2>1, <2>2 DEF Inv, TypeOK
  <1>14. HistoryOK'
    BY <1>1, <1>2, <1>11 DEF Inv, HistoryOK
  <1>15. ASSUME NEW u \in Users
         PROVE  /\ Sorted(queue'[u])
                /\ \A i \in DOMAIN queue'[u] :
                      /\ queue'[u][i].id < nextId'
                      /\ queue'[u][i].w <= issued'
                      /\ owner'[queue'[u][i].w] = u
                      /\ \A j \in DOMAIN queue'[u] :
                            i < j => queue'[u][i].w < queue'[u][j].w
    <2>1. CASE u /= user
      <3>1. queue'[u] = queue[u]
        BY <1>6, <2>1
      <3>2. \A i \in DOMAIN queue[u] : queue[u][i].id < nextId + 1 /\ queue[u][i].w <= issued + 1
        BY <1>2, <1>5 DEF Writes
      <3> QED
        BY <1>1, <1>5, <1>11, <3>1, <3>2 DEF Inv, QueuesInOrder
    <2>2. CASE u = user
      <3>1. queue'[u] = r
        BY <1>6, <2>2
      <3>2. \A i \in DOMAIN q :
               /\ q[i].w \in Writes /\ q[i].id \in Nat /\ q[i].w \in Nat
               /\ q[i].id < nextId /\ q[i].w <= issued /\ owner'[q[i].w] = user
        <4>1. \A i \in DOMAIN q :
                 /\ q[i].w \in Writes /\ q[i].id \in Nat
                 /\ q[i].id < nextId /\ q[i].w <= issued /\ owner[q[i].w] = user
          BY <1>2, <1>5, <1>6
        <4>2. \A w \in Writes : w \in Nat
          BY DEF Writes
        <4> QED
          BY <1>11, <4>1, <4>2
      <3>3. \A i, j \in DOMAIN q : i < j => q[i].w < q[j].w
        BY <1>2, <1>6 DEF Inv, QueuesInOrder
      <3>4. \A i \in DOMAIN r : i \in DOMAIN q \/ i = Len(q) + 1
        BY <1>4
      <3>5. ASSUME NEW i \in DOMAIN r
            PROVE  r[i].id < nextId + 1 /\ r[i].w <= issued + 1 /\ owner'[r[i].w] = user
        <4>1. CASE i \in DOMAIN q
          BY <1>2, <1>4, <3>2, <4>1
        <4>2. CASE i = Len(q) + 1
          BY <1>2, <1>3, <1>4, <1>11, <4>2
        <4> QED
          BY <3>4, <4>1, <4>2
      <3>6. ASSUME NEW i \in DOMAIN r, NEW j \in DOMAIN r, i < j
            PROVE  r[i].w < r[j].w
        <4>1. i \in DOMAIN q
          BY <1>4, <3>6
        <4>2. CASE j \in DOMAIN q
          BY <1>4, <3>3, <3>6, <4>1, <4>2
        <4>3. CASE j = Len(q) + 1
          <5>1. q[i].w < issued + 1
            BY <1>2, <3>2, <4>1
          <5> QED
            BY <1>3, <1>4, <4>1, <4>3, <5>1
        <4> QED
          BY <3>4, <4>2, <4>3
      <3> QED
        BY <1>1, <1>12, <2>2, <3>1, <3>5, <3>6
    <2> QED
      BY <2>1, <2>2
  <1>16. QueuesInOrder'
    BY <1>15 DEF QueuesInOrder
  <1>17. CallbacksMatch'
    <2>1. \A w \in Writes : w > issued => told[w] = "waiting"
      BY DEF Inv, CallbacksMatch
    <2>2. told[issued + 1] = "waiting"
      BY <1>2, <1>3, <2>1
    <2>3. \A w \in Writes : w > issued' => told'[w] = "waiting"
      BY <1>1, <1>2, <2>1 DEF Writes
    <2>4. ASSUME NEW u \in Users
          PROVE  /\ \A c \in callbacks'[u] : \E i \in DOMAIN queue'[u] : queue'[u][i] = c
                 /\ \A i \in DOMAIN queue'[u] :
                       queue'[u][i] \in callbacks'[u] <=> told'[queue'[u][i].w] = "waiting"
      <3>1. CASE u /= user
        BY <1>1, <1>6, <1>9, <3>1 DEF Inv, CallbacksMatch
      <3>2. CASE u = user
        <4>1. queue'[u] = r /\ callbacks'[u] = callbacks[user] \cup {b} /\ told' = told
          BY <1>1, <1>6, <1>9, <3>2
        <4>2. /\ \A c \in callbacks[user] : \E i \in DOMAIN q : q[i] = c
              /\ \A i \in DOMAIN q : q[i] \in callbacks[user] <=> told[q[i].w] = "waiting"
          BY <1>2, <1>6 DEF Inv, CallbacksMatch
        <4>3. \A i \in DOMAIN q : q[i] /= b
          BY <1>2, <1>3, <1>5, <1>6
        <4>4. Len(q) + 1 \in DOMAIN r /\ DOMAIN q \subseteq DOMAIN r
          BY <1>4
        <4>5. \A c \in callbacks'[u] : \E i \in DOMAIN r : r[i] = c
          BY <1>4, <4>1, <4>2, <4>4
        <4>6. ASSUME NEW i \in DOMAIN r
              PROVE  r[i] \in callbacks'[u] <=> told[r[i].w] = "waiting"
          <5>1. CASE i \in DOMAIN q
            BY <1>4, <4>1, <4>2, <4>3, <5>1
          <5>2. CASE i = Len(q) + 1
            BY <1>3, <1>4, <2>2, <4>1, <5>2
          <5> QED
            BY <1>4, <5>1, <5>2
        <4> QED
          BY <4>1, <4>5, <4>6
      <3> QED
        BY <3>1, <3>2
    <2> QED
      BY <2>3, <2>4 DEF CallbacksMatch
  <1>18. WaitsCover'
    <2> SUFFICES ASSUME NEW t \in waits
                 PROVE  /\ \A w \in t.for : w <= issued + 1
                        /\ \A i \in DOMAIN r : r[i].w \in t.for => r[i].id <= t.at
      BY <1>1, <1>6 DEF WaitsCover
    <2>1. /\ \A w \in t.for : w <= issued /\ w \in Nat
          /\ \A i \in DOMAIN q : q[i].w \in t.for => q[i].id <= t.at
      BY <1>6 DEF Inv, WaitsCover, TypeOK, Writes
    <2>2. \A w \in t.for : w <= issued + 1 /\ w /= issued + 1
      BY <1>2, <2>1
    <2>3. ASSUME NEW i \in DOMAIN r, r[i].w \in t.for PROVE r[i].id <= t.at
      <3>1. i /= Len(q) + 1
        BY <1>3, <1>4, <2>2, <2>3
      <3>2. i \in DOMAIN q
        BY <1>4, <3>1
      <3> QED
        BY <1>4, <2>1, <2>3, <3>2
    <2> QED
      BY <2>2, <2>3
  <1>19. LeftInOrder(stale, queue', Acted)
    <2> SUFFICES ASSUME NEW i \in DOMAIN stale, InTurn(i, stale, queue, Acted)
                 PROVE  InTurn(i, stale, queue', Acted)
      BY InvFacts DEF LeftInOrder
    <2>1. PICK u \in Users : \E k \in DOMAIN queue[u] :
             /\ queue[u][k].w = stale[i].w
             /\ \A m \in 1..(k - 1) :
                   \/ queue[u][m].w \in Acted
                   \/ \E j \in 1..(i - 1) : stale[j].w = queue[u][m].w
      BY Zenon DEF InTurn
    <2>2. PICK k \in DOMAIN queue[u] :
             /\ queue[u][k].w = stale[i].w
             /\ \A m \in 1..(k - 1) :
                   \/ queue[u][m].w \in Acted
                   \/ \E j \in 1..(i - 1) : stale[j].w = queue[u][m].w
      BY <2>1, Zenon
    <2>3. /\ DOMAIN queue[u] \subseteq DOMAIN queue'[u]
          /\ \A m \in DOMAIN queue[u] : queue'[u][m] = queue[u][m]
      BY <1>4, <1>6
    <2>4. \A m \in 1..(k - 1) : m \in DOMAIN queue[u]
      <3>1. queue[u] \in Seq(Batches)
        BY <1>2
      <3>2. DOMAIN queue[u] = 1..Len(queue[u]) /\ Len(queue[u]) \in Nat
        BY <3>1
      <3> QED
        BY <3>2
    <2>5. \A m \in 1..(k - 1) :
             \/ queue'[u][m].w \in Acted
             \/ \E j \in 1..(i - 1) : stale[j].w = queue'[u][m].w
      BY <2>2, <2>3, <2>4
    <2>6. k \in DOMAIN queue'[u] /\ queue'[u][k].w = stale[i].w
      BY <2>2, <2>3
    <2> QED
      BY <2>5, <2>6, Zenon DEF InTurn
  <1>20. LeftInOrder(stale, queue, Acted)' /\ Stream(rs, queue[user], stored, refused)'
    BY <1>1, <1>6, <1>12, <1>19 DEF Acted
  <1>21. Queue!Write
    <2>1. \A u \in Users : Pending[u] = WritesOf(queue[u]) /\ Pending'[u] = WritesOf(queue'[u])
      BY DEF Pending
    <2>2. WritesOf(r) = Append(WritesOf(q), issued + 1)
      BY <1>2, <1>3, WritesGrow DEF r
    <2>3. /\ Pending'[user] = Append(Pending[user], issued + 1)
          /\ \A u \in Users : u /= user => Pending'[u] = Pending[u]
      BY <1>2, <1>6, <2>1, <2>2
    <2>4. /\ DOMAIN Pending = Users /\ DOMAIN Pending' = Users
          /\ Pending = [u \in Users |-> Pending[u]] /\ Pending' = [u \in Users |-> Pending'[u]]
      BY DEF Pending
    <2>5. Pending' = [Pending EXCEPT ![user] = Append(@, issued + 1)]
      BY <1>2, <2>3, <2>4
    <2> QED
      BY <1>1, <2>5 DEF Queue!Write
  <1> QED
    BY <1>13, <1>14, <1>16, <1>17, <1>18, <1>20, <1>21 DEF Inv

(* The first write of the pipeline is the first of its queue.              *)
LEMMA FirstWrite ==
  ASSUME Inv, rs.pipeline /= << >>
  PROVE  LET q == queue[user]
             h == Head(rs.pipeline)
         IN  /\ q \in Seq(Batches) /\ q /= << >> /\ Sorted(q) /\ h = q[1] /\ Head(q) = h
             /\ h \in Batches /\ h.w \in Writes
             /\ \A u \in Users : \A i \in DOMAIN queue[u] :
                   /\ queue[u][i] \in Batches
                   /\ queue[u][i].w = h.w => u = user /\ i = 1
             /\ \A i \in DOMAIN q : q[i].id = h.id => i = 1
             /\ \A c \in callbacks[user] : c.id = h.id => c = h
  <1> DEFINE q == queue[user]
             h == Head(rs.pipeline)
  <1>1. /\ q \in Seq(Batches) /\ Sorted(q) /\ rs \in RemoteStores /\ user \in Users
        /\ queue \in [Users -> Seq(Batches)] /\ Prefix(rs, q)
    BY InvFacts DEF Stream, Loose
  <1>2. /\ Len(rs.pipeline) \in Nat \ {0} /\ 1 \in DOMAIN rs.pipeline /\ h = rs.pipeline[1]
    BY <1>1, StoreFacts, TailFact
  <1>3. queue[user] = q
    OBVIOUS
  <1> HIDE DEF q, h
  <1>4. /\ Len(q) \in Nat \ {0} /\ DOMAIN q = 1..Len(q) /\ 1 \in DOMAIN q /\ h = q[1]
    BY <1>1, <1>2 DEF Prefix
  <1>5. q /= << >> /\ Head(q) = h
    BY <1>4
  <1>6. /\ \A u \in Users : \A i \in DOMAIN queue[u] :
              queue[u][i] \in Batches /\ queue[u][i].w \in Nat /\ queue[u][i].id \in Nat
    <2>1. \A u \in Users : \A i \in DOMAIN queue[u] : queue[u][i] \in Batches
      BY <1>1
    <2> QED
      BY <2>1, BatchFact DEF Writes
  <1>7. ASSUME NEW u \in Users, NEW i \in DOMAIN queue[u], queue[u][i].w = h.w
        PROVE  u = user /\ i = 1
    <2>1. owner[queue[u][i].w] = u /\ owner[q[1].w] = user
      BY <1>1, <1>3, <1>4 DEF Inv, QueuesInOrder
    <2>2. u = user
      BY <1>4, <1>7, <2>1
    <2>3. i \in DOMAIN q /\ (1 < i => q[1].w < q[i].w)
      BY <1>1, <1>3, <1>4, <2>2 DEF Inv, QueuesInOrder
    <2>4. q[i].w = q[1].w /\ q[1].w \in Nat
      BY <1>1, <1>3, <1>4, <1>6, <1>7, <2>2
    <2> QED
      BY <1>4, <2>2, <2>3, <2>4
  <1>8. ASSUME NEW i \in DOMAIN q, q[i].id = h.id PROVE i = 1
    <2>1. 1 < i => q[1].id < q[i].id
      BY <1>1, <1>4 DEF Sorted
    <2>2. q[1].id \in Nat
      BY <1>1, <1>3, <1>4, <1>6
    <2> QED
      BY <1>4, <1>8, <2>1, <2>2
  <1>9. ASSUME NEW c \in callbacks[user], c.id = h.id PROVE c = h
    <2>1. PICK i \in DOMAIN q : q[i] = c
      BY <1>1, <1>3 DEF Inv, CallbacksMatch
    <2> QED
      BY <1>4, <1>8, <1>9, <2>1
  <1>10. h \in Batches /\ h.w \in Writes
    BY <1>1, <1>3, <1>4, <1>6, BatchFact
  <1> QED
    BY <1>1, <1>4, <1>5, <1>6, <1>7, <1>8, <1>9, <1>10 DEF q, h

(* A write that leaves the queue, and is told its outcome.                 *)
LEMMA OutcomeKeeps ==
  ASSUME Inv, rs.pipeline /= << >>, NEW answer \in {"ok", "error"},
         HandleOutcome(Head(rs.pipeline).id, answer),
         UNCHANGED <<issued, owner, stored, refused>>,
         Head(rs.pipeline).w \in IF answer = "ok" THEN stored ELSE refused
  PROVE  /\ queue'[user] = Tail(queue[user]) /\ user' = user
         /\ queue' \in [Users -> Seq(Batches)] /\ nextId' = nextId
         /\ callbacks' \in [Users -> SUBSET Batches]
         /\ \A t \in waits' : t.at \in Nat /\ t.for \subseteq Writes
         /\ HistoryOK' /\ QueuesInOrder' /\ CallbacksMatch' /\ WaitsCover'
         /\ \A late \in Seq(Batches) :
               LeftInOrder(late, queue, Acted) => LeftInOrder(late, queue', Acted')
         /\ Queue!Acknowledge \/ Queue!Reject
  <1> DEFINE q == queue[user]
             h == Head(rs.pipeline)
             r == Tail(q)
  <1>1. /\ q \in Seq(Batches) /\ q /= << >> /\ Sorted(q) /\ h = q[1] /\ Head(q) = h
        /\ h \in Batches /\ h.w \in Writes
        /\ \A u \in Users : \A i \in DOMAIN queue[u] :
              /\ queue[u][i] \in Batches
              /\ queue[u][i].w = h.w => u = user /\ i = 1
        /\ \A i \in DOMAIN q : q[i].id = h.id => i = 1
        /\ \A c \in callbacks[user] : c.id = h.id => c = h
    BY FirstWrite
  <1>2. /\ user \in Users /\ queue \in [Users -> Seq(Batches)]
        /\ callbacks \in [Users -> SUBSET Batches]
        /\ told \in [Writes -> {"waiting", "ok", "error", "lost"}]
    BY InvFacts DEF Inv, TypeOK, HistoryOK
  <1>3. /\ callbacks' = [callbacks EXCEPT ![user] = {c \in @ : c.id /= h.id}]
        /\ told' = [w \in Writes |->
                      IF [id |-> h.id, w |-> w] \in callbacks[user]
                      THEN answer ELSE told[w]]
        /\ waits' = {t \in waits : t.at /= h.id}
        /\ queue' = [queue EXCEPT ![user] = RemoveMutationBatch(q, h.id)]
        /\ UNCHANGED <<user, nextId, issued, owner, stored, refused>>
    BY DEF HandleOutcome, NotifyUser
  <1>4. RemoveMutationBatch(q, h.id) = r
    BY <1>1, FirstIsRemoved
  <1>5. /\ r \in Seq(Batches) /\ Len(q) \in Nat \ {0} /\ DOMAIN q = 1..Len(q)
        /\ DOMAIN r = 1..(Len(q) - 1) /\ Len(r) = Len(q) - 1
        /\ \A i \in 1..(Len(q) - 1) : r[i] = q[i + 1]
    BY <1>1, TailFact
  <1>6. queue[user] = q /\ Head(rs.pipeline) = h
    OBVIOUS
  <1> HIDE DEF q, h, r
  <1>7. /\ queue'[user] = r /\ \A u \in Users : u /= user => queue'[u] = queue[u]
        /\ queue' \in [Users -> Seq(Batches)]
    BY <1>2, <1>3, <1>4, <1>5
  <1>8. /\ callbacks'[user] = {c \in callbacks[user] : c.id /= h.id}
        /\ \A u \in Users : u /= user => callbacks'[u] = callbacks[u]
        /\ callbacks' \in [Users -> SUBSET Batches]
    BY <1>2, <1>3
  <1>9. \A i \in DOMAIN r : i + 1 \in DOMAIN q /\ r[i] = q[i + 1] /\ i + 1 /= 1 /\ i \in Nat
    BY <1>5
  <1>10. [id |-> h.id, w |-> h.w] = h
    BY <1>1 DEF Batches
  <1>11. ASSUME NEW w \in Writes
         PROVE  [id |-> h.id, w |-> w] \in callbacks[user] <=> w = h.w /\ told[h.w] = "waiting"
    <2>1. [id |-> h.id, w |-> w] \in callbacks[user] => w = h.w
      <3>1. [id |-> h.id, w |-> w].id = h.id /\ [id |-> h.id, w |-> w].w = w
        OBVIOUS
      <3> QED
        BY <1>1, <3>1
    <2>2. h \in callbacks[user] <=> told[h.w] = "waiting"
      <3>1. 1 \in DOMAIN q
        BY <1>5
      <3> QED
        BY <1>1, <1>2, <1>6, <3>1 DEF Inv, CallbacksMatch
    <2> QED
      BY <1>10, <2>1, <2>2
  <1>12. /\ told' = [told EXCEPT ![h.w] = IF @ = "waiting" THEN answer ELSE @]
         /\ \A w \in Writes : w /= h.w => told'[w] = told[w]
         /\ told' \in [Writes -> {"waiting", "ok", "error", "lost"}]
    <2>1. told' = [w \in Writes |->
                     IF w = h.w /\ told[h.w] = "waiting" THEN answer ELSE told[w]]
      BY <1>3, <1>11
    <2> QED
      BY <1>1, <1>2, <2>1
  <1>13. \A t \in waits' : t.at \in Nat /\ t.for \subseteq Writes
    BY <1>3 DEF Inv, TypeOK
  <1>14. HistoryOK'
    BY <1>3, <1>12 DEF Inv, HistoryOK
  <1>15. ASSUME NEW u \in Users
         PROVE  /\ Sorted(queue'[u])
                /\ \A i \in DOMAIN queue'[u] :
                      /\ queue'[u][i].id < nextId'
                      /\ queue'[u][i].w <= issued'
                      /\ owner'[queue'[u][i].w] = u
                      /\ \A j \in DOMAIN queue'[u] :
                            i < j => queue'[u][i].w < queue'[u][j].w
    <2>1. CASE u /= user
      BY <1>3, <1>7, <2>1 DEF Inv, QueuesInOrder
    <2>2. CASE u = user
      <3>1. queue'[u] = r /\ queue[u] = q
        BY <1>6, <1>7, <2>2
      <3>2. /\ \A i, j \in DOMAIN q : i < j => q[i].id < q[j].id /\ q[i].w < q[j].w
            /\ \A i \in DOMAIN q :
                  q[i].id < nextId /\ q[i].w <= issued /\ owner[q[i].w] = u
        BY <1>1, <3>1 DEF Inv, QueuesInOrder, Sorted
      <3>3. \A i, j \in DOMAIN r : i < j => i + 1 < j + 1
        BY <1>9
      <3>4. \A i, j \in DOMAIN r : i < j => r[i].id < r[j].id /\ r[i].w < r[j].w
        BY <1>9, <3>2, <3>3
      <3>5. \A i \in DOMAIN r : r[i].id < nextId /\ r[i].w <= issued /\ owner[r[i].w] = u
        BY <1>9, <3>2
      <3> QED
        BY <1>3, <3>1, <3>4, <3>5 DEF Sorted
    <2> QED
      BY <2>1, <2>2
  <1>16. QueuesInOrder'
    BY <1>15 DEF QueuesInOrder
  <1>17. CallbacksMatch'
    <2>1. \A w \in Writes : w > issued' => told'[w] = "waiting"
      <3>1. h.w <= issued
        <4>1. 1 \in DOMAIN q
          BY <1>5
        <4> QED
          BY <1>1, <1>2, <1>6, <4>1 DEF Inv, QueuesInOrder
      <3>2. \A w \in Writes : w > issued => w /= h.w
        BY <3>1, InvFacts DEF Writes
      <3> QED
        BY <1>3, <1>12, <3>2 DEF Inv, CallbacksMatch
    <2>2. ASSUME NEW u \in Users
          PROVE  /\ \A c \in callbacks'[u] : \E i \in DOMAIN queue'[u] : queue'[u][i] = c
                 /\ \A i \in DOMAIN queue'[u] :
                       queue'[u][i] \in callbacks'[u] <=> told'[queue'[u][i].w] = "waiting"
      <3>1. CASE u /= user
        <4>1. queue'[u] = queue[u] /\ callbacks'[u] = callbacks[u]
          BY <1>7, <1>8, <3>1
        <4>2. \A i \in DOMAIN queue[u] : queue[u][i].w \in Writes /\ queue[u][i].w /= h.w
          BY <1>1, <3>1, BatchFact
        <4> QED
          BY <1>12, <4>1, <4>2 DEF Inv, CallbacksMatch
      <3>2. CASE u = user
        <4>1. queue'[u] = r /\ callbacks'[u] = {c \in callbacks[user] : c.id /= h.id}
          BY <1>7, <1>8, <3>2
        <4>2. /\ \A c \in callbacks[user] : \E i \in DOMAIN q : q[i] = c
              /\ \A i \in DOMAIN q : q[i] \in callbacks[user] <=> told[q[i].w] = "waiting"
          BY <1>2, <1>6 DEF Inv, CallbacksMatch
        <4>3. \A i \in DOMAIN r : r[i].id /= h.id /\ r[i].w /= h.w /\ r[i].w \in Writes
          <5>1. \A i \in DOMAIN q : /\ q[i].id = h.id => i = 1
                                    /\ q[i].w = h.w => i = 1
                                    /\ q[i].w \in Writes
            BY <1>1, <1>2, <1>6, BatchFact
          <5> QED
            BY <1>9, <5>1
        <4>4. ASSUME NEW c \in callbacks'[u] PROVE \E i \in DOMAIN r : r[i] = c
          <5>1. PICK k \in DOMAIN q : q[k] = c
            BY <4>1, <4>2
          <5>2. k /= 1
            BY <1>1, <4>1, <5>1
          <5>3. k - 1 \in DOMAIN r /\ (k - 1) + 1 = k
            BY <1>5, <5>2
          <5>4. r[k - 1] = q[k]
            BY <1>9, <5>3
          <5> QED
            BY <5>1, <5>3, <5>4
        <4>5. \A i \in DOMAIN r :
                 r[i] \in callbacks'[u] <=> told'[r[i].w] = "waiting"
          BY <1>9, <1>12, <4>1, <4>2, <4>3
        <4> QED
          BY <4>1, <4>4, <4>5
      <3> QED
        BY <3>1, <3>2
    <2> QED
      BY <2>1, <2>2 DEF CallbacksMatch
  <1>18. WaitsCover'
    <2>1. ASSUME NEW t \in waits'
          PROVE  /\ \A w \in t.for : w <= issued
                 /\ \A i \in DOMAIN r : r[i].w \in t.for => r[i].id <= t.at
      <3>1. t \in waits
        BY <1>3
      <3>2. \A i \in DOMAIN q : q[i].w \in t.for => q[i].id <= t.at
        BY <1>6, <3>1 DEF Inv, WaitsCover
      <3> QED
        BY <1>9, <3>1, <3>2 DEF Inv, WaitsCover
    <2> QED
      BY <1>3, <1>7, <2>1 DEF WaitsCover
  <1>19. Acted' = Acted /\ h.w \in Acted
    BY <1>3, <1>6 DEF Acted
  <1>20. ASSUME NEW late \in Seq(Batches), LeftInOrder(late, queue, Acted)
         PROVE  LeftInOrder(late, queue', Acted')
    <2> SUFFICES ASSUME NEW i \in DOMAIN late, late[i].w \notin Acted,
                        InTurn(i, late, queue, Acted)
                 PROVE  InTurn(i, late, queue', Acted)
      BY <1>19, <1>20 DEF LeftInOrder
    <2>1. PICK u \in Users : \E k \in DOMAIN queue[u] :
             /\ queue[u][k].w = late[i].w
             /\ \A m \in 1..(k - 1) :
                   \/ queue[u][m].w \in Acted
                   \/ \E j \in 1..(i - 1) : late[j].w = queue[u][m].w
      BY Zenon DEF InTurn
    <2>2. PICK k \in DOMAIN queue[u] :
             /\ queue[u][k].w = late[i].w
             /\ \A m \in 1..(k - 1) :
                   \/ queue[u][m].w \in Acted
                   \/ \E j \in 1..(i - 1) : late[j].w = queue[u][m].w
      BY <2>1, Zenon
    <2>3. CASE u /= user
      <3>1. queue'[u] = queue[u]
        BY <1>7, <2>3
      <3>2. /\ k \in DOMAIN queue'[u] /\ queue'[u][k].w = late[i].w
            /\ \A m \in 1..(k - 1) :
                  \/ queue'[u][m].w \in Acted
                  \/ \E j \in 1..(i - 1) : late[j].w = queue'[u][m].w
        BY <2>2, <3>1
      <3> QED
        BY <3>2, Zenon DEF InTurn
    <2>4. CASE u = user
      <3>1. queue'[user] = r /\ queue[u] = q /\ user \in Users
        BY <1>2, <1>6, <1>7, <2>4
      <3>2. k \in DOMAIN q /\ k /= 1 /\ q[k].w = late[i].w
        BY <1>1, <1>19, <2>2, <3>1
      <3>3. k - 1 \in DOMAIN r /\ r[k - 1] = q[k]
        <4>1. k - 1 \in DOMAIN r /\ (k - 1) + 1 = k
          BY <1>5, <3>2
        <4> QED
          BY <1>9, <4>1
      <3>4. ASSUME NEW m \in 1..((k - 1) - 1)
            PROVE  \/ r[m].w \in Acted
                   \/ \E j \in 1..(i - 1) : late[j].w = r[m].w
        <4>1. m + 1 \in 1..(k - 1) /\ m \in DOMAIN r
          BY <1>5, <3>2
        <4>2. r[m] = queue[u][m + 1]
          BY <1>9, <3>1, <4>1
        <4> QED
          BY <2>2, <4>1, <4>2
      <3>5. r[k - 1].w = late[i].w
        BY <3>2, <3>3
      <3> QED
        BY <3>1, <3>3, <3>4, <3>5, Zenon DEF InTurn
    <2> QED
      BY <2>3, <2>4
  <1>21. Queue!Acknowledge \/ Queue!Reject
    <2>1. \A u \in Users : Pending[u] = WritesOf(queue[u]) /\ Pending'[u] = WritesOf(queue'[u])
      BY DEF Pending
    <2>2. /\ WritesOf(r) = Tail(WritesOf(q)) /\ Head(WritesOf(q)) = h.w
          /\ WritesOf(q) /= << >>
      BY <1>1, WritesFact, WritesShrink DEF r
    <2>3. /\ Pending'[user] = Tail(Pending[user])
          /\ \A u \in Users : u /= user => Pending'[u] = Pending[u]
          /\ Head(Pending[user]) = h.w /\ Pending[user] /= << >>
      BY <1>2, <1>6, <1>7, <2>1, <2>2
    <2>4. /\ DOMAIN Pending = Users /\ DOMAIN Pending' = Users
          /\ Pending = [u \in Users |-> Pending[u]] /\ Pending' = [u \in Users |-> Pending'[u]]
      BY DEF Pending
    <2>5. Pending' = [Pending EXCEPT ![user] = Tail(@)]
      BY <1>2, <2>3, <2>4
    <2>6. CASE answer = "ok"
      <3>1. Queue!Resolve("ok", stored)
        BY <1>3, <1>6, <1>12, <2>3, <2>5, <2>6 DEF Queue!Resolve
      <3> QED
        BY <3>1 DEF Queue!Acknowledge
    <2>7. CASE answer = "error"
      <3>1. Queue!Resolve("error", refused)
        BY <1>3, <1>6, <1>12, <2>3, <2>5, <2>7 DEF Queue!Resolve
      <3> QED
        BY <3>1 DEF Queue!Reject
    <2> QED
      BY <2>6, <2>7
  <1> QED
    BY <1>3, <1>7, <1>8, <1>13, <1>14, <1>16, <1>17, <1>18, <1>20, <1>21 DEF q, r

(* A result is that of the first write, which the server has stored.       *)
LEMMA ResultKeeps ==
  ASSUME Inv, OnMutationResult
  PROVE  Inv' /\ (Queue!Acknowledge \/ Queue!Reject)
  <1> DEFINE p == rs.pipeline
             q == queue[user]
             d == Len(rs.down)
             s == [rs EXCEPT !.pipeline = Tail(p), !.down = Tail(rs.down)]
  <1>1. /\ rs.down /= << >> /\ Head(rs.down) = "result"
        /\ HandleOutcome(Head(p).id, "ok")
        /\ rs' = FillWritePipeline(queue'[user], s)
        /\ UNCHANGED <<stale, faults, nwaits, issued, owner, stored, refused>>
    BY DEF OnMutationResult, Response
  <1>2. /\ rs \in RemoteStores /\ q \in Seq(Batches) /\ Stream(rs, q, stored, refused)
        /\ Prefix(rs, q) /\ Flow(rs, stored, refused) /\ Steady(rs)
    BY InvFacts DEF Stream, Loose
  <1>3. /\ p \in Seq(Batches) /\ Len(p) \in Nat /\ DOMAIN p = 1..Len(p)
        /\ rs.up \in Seq(Batches \cup {Handshake}) /\ Len(rs.up) \in Nat
        /\ DOMAIN rs.up = 1..Len(rs.up)
        /\ rs.down \in Seq({"handshake", "result", "transient", "permanent"})
        /\ d \in Nat /\ DOMAIN rs.down = 1..d
    BY <1>2, StoreFacts
  <1>4. /\ Tail(rs.down) \in Seq({"handshake", "result", "transient", "permanent"})
        /\ d \in Nat \ {0} /\ Len(Tail(rs.down)) = d - 1
        /\ DOMAIN Tail(rs.down) = 1..(d - 1)
        /\ \A i \in 1..(d - 1) : Tail(rs.down)[i] = rs.down[i + 1]
        /\ rs.down[1] = "result"
    BY <1>1, <1>3, TailFact
  <1>5. rs.handshake /\ rs.state = "Open" /\ InFlight(rs, stored, refused)
    <2>1. rs.handshake
      <3>1. \A a : Head(<<a>>) = a
        OBVIOUS
      <3>2. Shaking(rs) => Head(rs.down) /= "result"
        <4>1. Shaking(rs) => rs.down \in {<< >>, <<"handshake">>, <<"transient">>, <<"permanent">>}
          BY DEF Shaking
        <4> QED
          BY <1>1, <3>1, <4>1
      <3> QED
        BY <1>1, <1>2, <3>2 DEF Flow
    <2> QED
      BY <1>2, <2>1 DEF Flow
  <1>6. 1 <= Len(p) /\ p[1].w \in stored
    BY <1>3, <1>4, <1>5 DEF InFlight
  <1>7. /\ p /= << >> /\ Head(p) = p[1] /\ Tail(p) \in Seq(Batches)
        /\ Len(Tail(p)) = Len(p) - 1 /\ DOMAIN Tail(p) = 1..(Len(p) - 1)
        /\ \A i \in 1..(Len(p) - 1) : Tail(p)[i] = p[i + 1]
    <2>1. p /= << >>
      BY <1>3, <1>6
    <2> QED
      BY <1>3, <2>1, TailFact
  <1>8. /\ queue'[user] = Tail(q) /\ user' = user
        /\ queue' \in [Users -> Seq(Batches)] /\ nextId' = nextId
        /\ callbacks' \in [Users -> SUBSET Batches]
        /\ \A t \in waits' : t.at \in Nat /\ t.for \subseteq Writes
        /\ HistoryOK' /\ QueuesInOrder' /\ CallbacksMatch' /\ WaitsCover'
        /\ \A late \in Seq(Batches) :
              LeftInOrder(late, queue, Acted) => LeftInOrder(late, queue', Acted')
        /\ Queue!Acknowledge \/ Queue!Reject
    <2>1. Head(p).w \in IF "ok" = "ok" THEN stored ELSE refused
      BY <1>6, <1>7
    <2>2. UNCHANGED <<issued, owner, stored, refused>>
      BY <1>1
    <2> QED
      BY <1>1, <1>7, <2>1, <2>2, OutcomeKeeps
  <1>9. /\ s \in RemoteStores /\ s.state = "Open" /\ s.handshake /\ s.idle = rs.idle
        /\ s.enabled = rs.enabled /\ s.pipeline = Tail(p)
        /\ s.up = rs.up /\ s.down = Tail(rs.down)
    BY <1>2, <1>4, <1>5, <1>7 DEF RemoteStores
  <1>10. p = rs.pipeline /\ d = Len(rs.down) /\ q = queue[user]
    OBVIOUS
  <1> HIDE DEF p, d, q, s
  <1>11. Sorted(Tail(q)) /\ Tail(q) \in Seq(Batches)
    <2>1. user \in Users
      BY InvFacts
    <2>2. Sorted(queue'[user]) /\ queue'[user] \in Seq(Batches)
      BY <1>8, <2>1 DEF QueuesInOrder
    <2> QED
      BY <1>8, <2>2
  <1>12. Prefix(s, Tail(q))
    <2>1. Len(p) <= Len(q) /\ Len(p) <= kMaxPendingWrites /\ \A i \in DOMAIN p : p[i] = q[i]
      BY <1>2, <1>10 DEF Prefix
    <2>2. /\ Len(q) \in Nat \ {0} /\ Len(Tail(q)) = Len(q) - 1
          /\ \A i \in 1..(Len(q) - 1) : Tail(q)[i] = q[i + 1]
      <3>1. q /= << >>
        BY <1>2, <1>3, <1>6, <2>1
      <3> QED
        BY <1>2, <3>1, TailFact
    <2>3. ASSUME NEW i \in 1..(Len(p) - 1) PROVE Tail(p)[i] = Tail(q)[i]
      <3>1. i + 1 \in DOMAIN p /\ i \in 1..(Len(q) - 1)
        BY <1>3, <2>1, <2>2
      <3> QED
        BY <1>7, <2>1, <2>2, <3>1
    <2>4. Len(p) - 1 <= Len(q) - 1 /\ Len(p) - 1 <= kMaxPendingWrites
      BY <1>3, <2>1, <2>2, PipelineAssumption
    <2> QED
      BY <1>7, <1>9, <2>2, <2>3, <2>4 DEF Prefix
  <1>13. InFlight(s, stored, refused)
    <2>1. ASSUME NEW i \in 1..(d - 1)
          PROVE  /\ s.down[i] /= "handshake"
                 /\ i < d - 1 => s.down[i] = "result"
                 /\ s.down[i] = "result" =>
                       i <= Len(p) - 1 /\ s.pipeline[i].w \in stored
                 /\ s.down[i] = "permanent" =>
                       i <= Len(p) - 1 /\ s.pipeline[i].w \in refused
      <3>1. i + 1 \in DOMAIN rs.down /\ s.down[i] = rs.down[i + 1]
        BY <1>3, <1>4, <1>9
      <3>2. /\ rs.down[i + 1] /= "handshake"
            /\ i + 1 < d => rs.down[i + 1] = "result"
            /\ rs.down[i + 1] = "result" => i + 1 <= Len(p) /\ p[i + 1].w \in stored
            /\ rs.down[i + 1] = "permanent" => i + 1 <= Len(p) /\ p[i + 1].w \in refused
        BY <1>5, <1>10, <3>1 DEF InFlight
      <3>3. i < d - 1 => i + 1 < d
        BY <1>4
      <3>4. i + 1 <= Len(p) => i <= Len(p) - 1 /\ i \in 1..(Len(p) - 1)
        BY <1>3
      <3>5. i \in 1..(Len(p) - 1) => s.pipeline[i] = p[i + 1]
        BY <1>7, <1>9
      <3> QED
        BY <3>1, <3>2, <3>3, <3>4, <3>5
    <2>2. ASSUME ~Ended(s) PROVE Rest(s.up, s.pipeline, d - 1)
      <3>1. ~Ended(rs)
        <4>1. CASE d = 1
          <5>1. Last(rs.down) = "result"
            BY <1>4, <1>10, <4>1 DEF Last
          <5> QED
            BY <5>1 DEF Ended
        <4>2. CASE d /= 1
          <5>1. d - 1 \in 1..(d - 1) /\ (d - 1) + 1 = d
            BY <1>4, <4>2
          <5>2. Last(s.down) = Last(rs.down)
            <6>1. s.down[d - 1] = rs.down[d]
              BY <1>4, <1>9, <5>1
            <6>2. Last(rs.down) = rs.down[d]
              BY <1>10 DEF Last
            <6>3. Last(s.down) = s.down[d - 1]
              BY <1>4, <1>9 DEF Last
            <6> QED
              BY <6>1, <6>2, <6>3
          <5>3. s.down /= << >>
            <6>1. d - 1 \in DOMAIN s.down
              BY <1>4, <1>9, <5>1
            <6>2. DOMAIN << >> = {}
              OBVIOUS
            <6> QED
              BY <6>1, <6>2
          <5> QED
            BY <2>2, <5>2, <5>3 DEF Ended
        <4> QED
          BY <4>1, <4>2
      <3>2. Rest(rs.up, p, d)
        BY <1>5, <1>10, <3>1 DEF InFlight
      <3>3. Len(Tail(p)) = (d - 1) + Len(rs.up)
        <4>1. Len(p) = d + Len(rs.up)
          BY <3>2 DEF Rest
        <4>2. \A x \in Nat : (d + x) - 1 = (d - 1) + x
          BY <1>4
        <4> QED
          BY <1>3, <1>7, <4>1, <4>2, Zenon
      <3>4. ASSUME NEW j \in DOMAIN rs.up PROVE rs.up[j] = Tail(p)[(d - 1) + j]
        <4>1. rs.up[j] = p[d + j] /\ Len(p) = d + Len(rs.up)
          BY <3>2 DEF Rest
        <4>2. (d - 1) + j \in 1..(Len(p) - 1) /\ ((d - 1) + j) + 1 = d + j
          BY <1>3, <1>4, <4>1
        <4> QED
          BY <1>7, <4>1, <4>2
      <3> QED
        BY <1>9, <3>3, <3>4 DEF Rest
    <2>3. Len(s.down) = d - 1 /\ DOMAIN s.down = 1..(d - 1) /\ Len(s.pipeline) = Len(p) - 1
      BY <1>4, <1>7, <1>9
    <2> QED
      BY <2>1, <2>2, <2>3 DEF InFlight
  <1>14. Loose(s, Tail(q), stored, refused)
    <2>1. rs.enabled /\ ~rs.idle
      BY <1>2, <1>7, <1>10 DEF Steady
    <2> QED
      BY <1>9, <1>12, <1>13, <2>1 DEF Loose, Flow, Steady
  <1>15. rs' \in RemoteStores /\ Stream(rs', Tail(q), stored, refused)
    BY <1>1, <1>8, <1>9, <1>10, <1>11, <1>14, FillKeeps
  <1>16. stale' \in Seq(Batches) /\ LeftInOrder(stale', queue', Acted')
    BY <1>1, <1>8, InvFacts
  <1>17. TypeOK'
    BY <1>8, <1>15, <1>16, InvFacts DEF TypeOK
  <1>18. Stream(rs, queue[user], stored, refused)' /\ LeftInOrder(stale, queue, Acted)'
    BY <1>1, <1>8, <1>10, <1>15, <1>16
  <1> QED
    BY <1>8, <1>17, <1>18 DEF Inv

(* An error after the handshake is that of the first write, which the      *)
(* server has refused.                                                     *)
LEMMA WriteErrorKeeps ==
  ASSUME Inv, HandleWriteError
  PROVE  Inv' /\ (Queue!Acknowledge \/ Queue!Reject)
  <1> DEFINE p == rs.pipeline
             q == queue[user]
             c == Closed(rs, "Initial")
             s == [c EXCEPT !.pipeline = Tail(@)]
  <1>1. /\ rs.down /= << >> /\ Head(rs.down) = "permanent" /\ rs.handshake /\ p /= << >>
        /\ HandleOutcome(Head(p).id, "error")
        /\ rs' = FillWritePipeline(queue'[user], s)
        /\ stale' = LeftOver(rs)
        /\ UNCHANGED <<faults, nwaits, issued, owner, stored, refused>>
    BY DEF HandleWriteError, Response
  <1>2. /\ rs \in RemoteStores /\ q \in Seq(Batches) /\ Stream(rs, q, stored, refused)
        /\ Prefix(rs, q) /\ Flow(rs, stored, refused) /\ Steady(rs)
    BY InvFacts DEF Stream, Loose
  <1>3. /\ p \in Seq(Batches) /\ Len(p) \in Nat \ {0} /\ DOMAIN p = 1..Len(p)
        /\ Head(p) = p[1] /\ Tail(p) \in Seq(Batches)
        /\ Len(Tail(p)) = Len(p) - 1 /\ DOMAIN Tail(p) = 1..(Len(p) - 1)
        /\ \A i \in 1..(Len(p) - 1) : Tail(p)[i] = p[i + 1]
    BY <1>1, <1>2, StoreFacts, TailFact
  <1>4. 1 \in DOMAIN rs.down /\ rs.down[1] = "permanent"
    BY <1>1, <1>2, StoreFacts, TailFact
  <1>5. Head(p).w \in refused
    <2>1. InFlight(rs, stored, refused)
      BY <1>1, <1>2 DEF Flow
    <2> QED
      BY <1>3, <1>4, <2>1 DEF InFlight
  <1>6. /\ queue'[user] = Tail(q) /\ user' = user
        /\ queue' \in [Users -> Seq(Batches)] /\ nextId' = nextId
        /\ callbacks' \in [Users -> SUBSET Batches]
        /\ \A t \in waits' : t.at \in Nat /\ t.for \subseteq Writes
        /\ HistoryOK' /\ QueuesInOrder' /\ CallbacksMatch' /\ WaitsCover'
        /\ \A late \in Seq(Batches) :
              LeftInOrder(late, queue, Acted) => LeftInOrder(late, queue', Acted')
        /\ Queue!Acknowledge \/ Queue!Reject
    <2>1. Head(p).w \in IF "error" = "ok" THEN stored ELSE refused
      BY <1>5
    <2>2. UNCHANGED <<issued, owner, stored, refused>>
      BY <1>1
    <2> QED
      BY <1>1, <2>1, <2>2, OutcomeKeeps
  <1>7. /\ c \in RemoteStores /\ c.state = "Initial"
        /\ c.up = << >> /\ c.down = << >> /\ ~c.handshake /\ ~c.idle
        /\ c.pipeline = p /\ c.enabled = rs.enabled
    BY <1>2, ClosedFact
  <1>8. p = rs.pipeline /\ q = queue[user]
    OBVIOUS
  <1> HIDE DEF p, q, c
  <1>9. /\ s \in RemoteStores /\ s.state = "Initial"
        /\ s.up = << >> /\ s.down = << >> /\ ~s.handshake /\ ~s.idle
        /\ s.pipeline = Tail(p) /\ s.enabled = rs.enabled
    BY <1>3, <1>7 DEF RemoteStores
  <1> HIDE DEF s
  <1>10. Sorted(Tail(q)) /\ Tail(q) \in Seq(Batches)
    <2>1. user \in Users
      BY InvFacts
    <2>2. Sorted(queue'[user]) /\ queue'[user] \in Seq(Batches)
      BY <1>6, <2>1 DEF QueuesInOrder
    <2> QED
      BY <1>6, <2>2
  <1>11. Prefix(s, Tail(q))
    <2>1. Len(p) <= Len(q) /\ Len(p) <= kMaxPendingWrites /\ \A i \in DOMAIN p : p[i] = q[i]
      BY <1>2, <1>8 DEF Prefix
    <2>2. /\ Len(q) \in Nat \ {0} /\ Len(Tail(q)) = Len(q) - 1
          /\ \A i \in 1..(Len(q) - 1) : Tail(q)[i] = q[i + 1]
      <3>1. q /= << >>
        BY <1>2, <1>3, <2>1
      <3> QED
        BY <1>2, <3>1, TailFact
    <2>3. ASSUME NEW i \in 1..(Len(p) - 1) PROVE Tail(p)[i] = Tail(q)[i]
      <3>1. i + 1 \in DOMAIN p /\ i \in 1..(Len(q) - 1)
        BY <1>3, <2>1, <2>2
      <3> QED
        BY <1>3, <2>1, <2>2, <3>1
    <2>4. Len(p) - 1 <= Len(q) - 1 /\ Len(p) - 1 <= kMaxPendingWrites
      BY <1>3, <2>1, <2>2, PipelineAssumption
    <2> QED
      BY <1>3, <1>9, <2>2, <2>3, <2>4 DEF Prefix
  <1>12. Loose(s, Tail(q), stored, refused)
    <2>1. rs.enabled
      BY <1>1, <1>2, <1>8 DEF Steady
    <2> QED
      BY <1>9, <1>11, <2>1 DEF Loose, Flow, Shaking, Steady
  <1>13. rs' \in RemoteStores /\ Stream(rs', Tail(q), stored, refused)
    BY <1>1, <1>6, <1>8, <1>9, <1>10, <1>12, FillKeeps
  <1>14. stale' \in Seq(Batches) /\ LeftInOrder(stale', queue', Acted')
    BY <1>1, <1>6, LeftOverFact
  <1>15. TypeOK'
    BY <1>6, <1>13, <1>14, InvFacts DEF TypeOK
  <1>16. Stream(rs, queue[user], stored, refused)' /\ LeftInOrder(stale, queue, Acted)'
    BY <1>1, <1>6, <1>8, <1>13, <1>14
  <1> QED
    BY <1>6, <1>15, <1>16 DEF Inv

-----------------------------------------------------------------------------
(* The theorems.                                                           *)

(* The invariant holds at first.                                           *)
LEMMA InitKeeps ==
  ASSUME Init
  PROVE  Inv /\ Queue!Init
  <1>1. /\ user \in Users /\ queue = [u \in Users |-> << >>] /\ nextId = 1
        /\ callbacks = [u \in Users |-> {}] /\ waits = {} /\ rs = NoStream(TRUE)
        /\ stale = << >> /\ issued = 0 /\ owner = [w \in Writes |-> user]
        /\ stored = {} /\ refused = {} /\ told = [w \in Writes |-> "waiting"]
    BY DEF Init
  <1>2. /\ << >> \in Seq(Batches) /\ << >> \in Seq(Batches \cup {Handshake})
        /\ << >> \in Seq({"handshake", "result", "transient", "permanent"})
        /\ DOMAIN << >> = {}
    OBVIOUS
  <1>3. /\ rs \in RemoteStores /\ rs.pipeline = << >> /\ rs.up = << >> /\ rs.down = << >>
        /\ ~rs.handshake /\ ~rs.idle /\ rs.state = "Initial"
    BY <1>1, <1>2 DEF NoStream, RemoteStores
  <1>4. \A u \in Users : queue[u] = << >>
    BY <1>1
  <1>5. TypeOK
    <2>1. queue \in [Users -> Seq(Batches)] /\ callbacks \in [Users -> SUBSET Batches]
      BY <1>1, <1>2
    <2>2. 1 \in Nat \ {0}
      OBVIOUS
    <2>3. /\ user \in Users /\ nextId = 1 /\ waits = {} /\ stale = << >>
          /\ << >> \in Seq(Batches)
      BY <1>1, <1>2
    <2> QED
      BY <1>3, <2>1, <2>2, <2>3 DEF TypeOK
  <1>6. HistoryOK
    BY <1>1, PipelineAssumption DEF HistoryOK
  <1>7. QueuesInOrder
    BY <1>2, <1>4 DEF QueuesInOrder, Sorted
  <1>8. CallbacksMatch
    BY <1>1, <1>2, <1>4 DEF CallbacksMatch
  <1>9. WaitsCover
    BY <1>1 DEF WaitsCover
  <1>10. Stream(rs, queue[user], stored, refused)
    BY <1>1, <1>2, <1>3, <1>4, EmptyIsLoose
  <1>11. LeftInOrder(stale, queue, Acted)
    BY <1>1, <1>2 DEF LeftInOrder
  <1>12. Queue!Init
    <2>1. WritesOf(<< >>) = << >>
      BY <1>2, WritesFact
    <2>2. Pending = [u \in Users |-> << >>]
      BY <1>4, <2>1 DEF Pending
    <2> QED
      BY <1>1, <2>2 DEF Queue!Init, Queue!Writes, Writes
  <1> QED
    BY <1>5, <1>6, <1>7, <1>8, <1>9, <1>10, <1>11, <1>12 DEF Inv

(* Every step keeps the invariant, and is a step of WriteQueue or none.    *)
LEMMA NextKeeps ==
  ASSUME Inv, [Next]_vars
  PROVE  Inv' /\ [Queue!Next]_(Queue!vars)
  <1>1. CASE BackoffElapsed \/ OnWriteStreamOpen \/ OnHandshakeComplete
    BY <1>1, OpeningKeeps
  <1>2. CASE OnMutationResult
    BY <1>2, ResultKeeps DEF Queue!Next
  <1>3. CASE OnStreamError \/ CredentialsFailed \/ Break
    BY <1>3, RetryStepKeeps
  <1>4. CASE HandleWriteError
    BY <1>4, WriteErrorKeeps DEF Queue!Next
  <1>5. CASE ServerHandshake
    BY <1>5, ServerHandshakeKeeps
  <1>6. CASE ServerCommit
    BY <1>6, ServerCommitKeeps DEF Queue!Next
  <1>7. CASE ServerRefuse
    BY <1>7, ServerRefuseKeeps DEF Queue!Next
  <1>8. CASE ServerLate
    BY <1>8, ServerLateKeeps DEF Queue!Next
  <1>9. CASE WriteMutations
    BY <1>9, WriteKeeps DEF Queue!Next
  <1>10. CASE RegisterPendingWritesCallback
    BY <1>10, WaitKeeps
  <1>11. ASSUME NEW u \in Users, HandleCredentialChange(u)
         PROVE  Inv' /\ [Queue!Next]_(Queue!vars)
    BY <1>11, CredentialKeeps DEF Queue!Next
  <1>12. CASE DisableNetwork \/ EnableNetwork \/ ConnectivityChanged
    BY <1>12, NetworkKeeps
  <1>13. CASE IdleTimeout
    BY <1>13, IdleKeeps
  <1>14. CASE Restart
    BY <1>14, RestartKeeps DEF Queue!Next
  <1>15. CASE UNCHANGED vars
    <2>1. UNCHANGED <<engine, history>> /\ rs' = rs /\ stale' = stale
      BY <1>15 DEF vars
    <2>2. rs' \in RemoteStores /\ Stream(rs', queue[user], stored, refused)
      BY <2>1, InvFacts
    <2> QED
      BY <2>1, <2>2, StreamOnly
  <1> QED
    BY <1>1, <1>2, <1>3, <1>4, <1>5, <1>6, <1>7, <1>8, <1>9, <1>10, <1>11,
       <1>12, <1>13, <1>14, <1>15 DEF Next, Client, Server

(* The invariant holds always.                                             *)
LEMMA Invariance == Spec => []Inv
  <1>1. Init => Inv
    BY InitKeeps
  <1>2. Inv /\ [Next]_vars => Inv'
    BY NextKeeps
  <1> QED
    BY <1>1, <1>2, PTL DEF Spec

(* The variables have their types.                                         *)
THEOREM PipelineTypes == Spec => []TypeOK
  <1>1. Inv => TypeOK
    BY DEF Inv
  <1> QED
    BY <1>1, Invariance, PTL

(* The pipeline holds the first writes of the signed-in user's queue,      *)
(* never more than there is room for: RemoteStore matches a response with  *)
(* the write at the head of the pipeline, by order alone.                  *)
THEOREM PrefixHolds == Spec => []PipelineIsPrefix
  <1>1. Inv => PipelineIsPrefix
    <2> SUFFICES ASSUME Inv PROVE PipelineIsPrefix
      OBVIOUS
    <2> DEFINE p == rs.pipeline
               q == queue[user]
    <2>1. /\ p \in Seq(Batches) /\ q \in Seq(Batches) /\ Len(p) \in Nat /\ Len(q) \in Nat
          /\ Len(p) <= Len(q) /\ Len(p) <= kMaxPendingWrites
          /\ \A i \in 1..Len(p) : p[i] = q[i]
      BY InvFacts, StoreFacts DEF Stream, Loose, Prefix
    <2> HIDE DEF p, q
    <2>2. SubSeq(p, 1, Len(p)) = SubSeq(q, 1, Len(p))
      <3> DEFINE a == SubSeq(p, 1, Len(p))
                 b == SubSeq(q, 1, Len(p))
      <3>1. /\ a \in Seq(Batches) /\ Len(a) = Len(p)
            /\ \A i \in 1..Len(p) : a[i] = p[i]
        BY <2>1
      <3>2. /\ b \in Seq(Batches) /\ Len(b) = Len(p)
            /\ \A i \in 1..Len(p) : b[i] = q[i]
        BY <2>1
      <3> HIDE DEF a, b
      <3>3. a = b
        BY <2>1, <3>1, <3>2, SameSequence
      <3> QED
        BY <3>3 DEF a, b
    <2> QED
      BY <2>1, <2>2 DEF PipelineIsPrefix, IsPrefix, p, q
  <1> QED
    BY <1>1, Invariance, PTL

(* The invariant implies StreamServesPipeline.                             *)
LEMMA InvServes ==
  ASSUME Inv
  PROVE  StreamServesPipeline
  <1>1. /\ rs \in RemoteStores /\ Flow(rs, stored, refused) /\ Steady(rs)
        /\ rs.pipeline /= << >> => IsStarted(rs)
    BY InvFacts DEF Stream, Loose
  <1>2. ASSUME Response("result") PROVE rs.pipeline /= << >> /\ rs.handshake
    <2>1. 1 \in DOMAIN rs.down /\ rs.down[1] = "result" /\ rs.down /= << >>
      BY <1>1, <1>2, StoreFacts, TailFact DEF Response
    <2>2. rs.handshake
      <3>1. \A a : <<a>>[1] = a
        OBVIOUS
      <3>2. ~Shaking(rs)
        BY <2>1, <3>1 DEF Shaking
      <3> QED
        BY <1>1, <3>2 DEF Flow
    <2>3. 1 <= Len(rs.pipeline)
      BY <1>1, <2>1, <2>2 DEF Flow, InFlight
    <2>4. rs.pipeline /= << >>
      BY <1>1, <2>3, StoreFacts
    <2> QED
      BY <2>2, <2>4
  <1> QED
    BY <1>1, <1>2 DEF StreamServesPipeline, Steady

(* The HARD_ASSERTs of RemoteStore never fail: a write in the pipeline has *)
(* a stream started for it, the idle timer runs only while none is in      *)
(* flight, and a result comes only while one is.                           *)
THEOREM StreamServes == Spec => []StreamServesPipeline
  <1>1. Inv => StreamServesPipeline
    BY InvServes
  <1> QED
    BY <1>1, Invariance, PTL

(* A callback belongs to a write that is still in the queue and whose      *)
(* caller waits, also when batch ids are given out again.                  *)
THEOREM CallbacksHold == Spec => []CallbackHasWrite
  <1>1. Inv => CallbackHasWrite
    BY DEF Inv, CallbacksMatch, CallbackHasWrite
  <1> QED
    BY <1>1, Invariance, PTL

(* waitForPendingWrites() returns only when every write made before the    *)
(* call has left the queue.                                                *)
THEOREM WaitsHold == Spec => WaitIsOver
  <1> DEFINE Over == \A t \in waits :
                t \notin waits' /\ user' = user /\ ~Restart =>
                  \A i \in DOMAIN queue'[user] : queue'[user][i].w \notin t.for
  <1>1. Inv /\ [Next]_vars => [Over]_vars
    <2> SUFFICES ASSUME Inv, Next, NEW t \in waits,
                        t \notin waits', user' = user, ~Restart,
                        NEW i \in DOMAIN queue'[user], queue'[user][i].w \in t.for
                 PROVE  FALSE
      OBVIOUS
    <2>1. ASSUME rs.pipeline /= << >>, NEW answer, HandleOutcome(Head(rs.pipeline).id, answer)
          PROVE  FALSE
      <3> DEFINE q == queue[user]
                 h == Head(rs.pipeline)
      <3>1. /\ q \in Seq(Batches) /\ q /= << >> /\ Sorted(q) /\ h = q[1] /\ Head(q) = h
            /\ \A k \in DOMAIN q : q[k] \in Batches
        BY <2>1, FirstWrite, InvFacts
      <3>2. t.at = h.id /\ queue'[user] = Tail(q)
        <4>1. t.at = h.id
          BY <2>1 DEF HandleOutcome
        <4>2. queue' = [queue EXCEPT ![user] = RemoveMutationBatch(q, h.id)]
          BY <2>1 DEF HandleOutcome
        <4>3. RemoveMutationBatch(q, h.id) = Tail(q)
          BY <3>1, FirstIsRemoved
        <4> QED
          BY <4>1, <4>2, <4>3, InvFacts
      <3>3. queue[user] = q
        OBVIOUS
      <3> HIDE DEF q, h
      <3>4. 1 \in DOMAIN q /\ i + 1 \in DOMAIN q /\ 1 < i + 1 /\ queue'[user][i] = q[i + 1]
        BY <3>1, <3>2, TailFact
      <3>5. q[i + 1].id <= t.at
        BY <3>3, <3>4 DEF Inv, WaitsCover
      <3>6. q[1].id < q[i + 1].id
        BY <3>1, <3>4 DEF Sorted
      <3>7. q[1].id \in Nat /\ q[i + 1].id \in Nat
        BY <3>1, <3>4, BatchFact
      <3> QED
        BY <3>1, <3>2, <3>5, <3>6, <3>7
    <2>2. CASE OnMutationResult
      <3>1. rs.pipeline /= << >>
        <4>1. StreamServesPipeline
          BY InvServes
        <4> QED
          BY <2>2, <4>1 DEF StreamServesPipeline, OnMutationResult
      <3> QED
        BY <2>1, <2>2, <3>1 DEF OnMutationResult
    <2>3. CASE HandleWriteError
      BY <2>1, <2>3 DEF HandleWriteError
    <2>4. CASE \E u \in Users : HandleCredentialChange(u)
      BY <2>4 DEF HandleCredentialChange
    <2>5. CASE RegisterPendingWritesCallback
      BY <2>5 DEF RegisterPendingWritesCallback
    <2>6. CASE waits' = waits
      BY <2>6
    <2> QED
      BY <2>2, <2>3, <2>4, <2>5, <2>6
         DEF Next, Client, Server, engine, BackoffElapsed, OnWriteStreamOpen,
             OnHandshakeComplete, OnStreamError, ServerHandshake, ServerCommit,
             ServerRefuse, ServerLate, WriteMutations, DisableNetwork, EnableNetwork,
             ConnectivityChanged, CredentialsFailed, IdleTimeout, Break
  <1> QED
    BY <1>1, Invariance, PTL DEF Spec, WaitIsOver

(* The pipeline keeps the promise of WriteQueue: what breaks, restarts and *)
(* changes of user do to it can be told from the abstract steps alone.     *)
THEOREM PipelineImplements == Spec => Implements
  <1>1. Init => Queue!Init
    BY InitKeeps
  <1>2. Inv /\ [Next]_vars => [Queue!Next]_(Queue!vars)
    BY NextKeeps
  <1> QED
    BY <1>1, <1>2, Invariance, PTL DEF Spec, Implements, Queue!Spec

(* What is proved of WriteQueue is true of the pipeline.                   *)
Promise == INSTANCE WriteQueueProofs WITH pending <- Pending

(* What implements WriteQueue has its properties.                          *)
LEMMA PromiseHolds == Implements => []AnswerIsTrue /\ []StoredInOrder
  <1>1. MaxWrites \in Nat
    BY PipelineAssumption
  <1>2. Promise!Spec => []Promise!AnswerIsTrue
    BY <1>1, Promise!AnswersAreTrue
  <1>3. Promise!Spec => []Promise!StoredInOrder
    BY <1>1, Promise!OrderIsKept
  <1>4. Queue!Init => Promise!Init
    BY DEF Queue!Init, Promise!Init, Queue!Writes, Promise!Writes
  <1>5. [Queue!Next]_(Queue!vars) => [Promise!Next]_(Promise!vars)
    BY DEF Queue!Next, Promise!Next, Queue!Writes, Promise!Writes,
           Queue!vars, Promise!vars, Queue!Write, Promise!Write,
           Queue!Store, Promise!Store, Queue!Refuse, Promise!Refuse,
           Queue!Acknowledge, Promise!Acknowledge, Queue!Reject, Promise!Reject,
           Queue!SwitchUser, Promise!SwitchUser, Queue!Restart, Promise!Restart,
           Queue!Resolve, Promise!Resolve, Queue!Reached, Promise!Reached
  <1>6. /\ Promise!AnswerIsTrue => AnswerIsTrue
        /\ Promise!StoredInOrder => StoredInOrder
    BY DEF Promise!AnswerIsTrue, AnswerIsTrue, Queue!AnswerIsTrue,
           Promise!StoredInOrder, StoredInOrder, Queue!StoredInOrder,
           Promise!Writes, Queue!Writes
  <1> QED
    BY <1>2, <1>3, <1>4, <1>5, <1>6, PTL DEF Implements, Queue!Spec, Promise!Spec

(* A caller is told "ok" only of a write the server stored, and "error"    *)
(* only of one it refused, however often the stream broke in between.      *)
THEOREM PipelineAnswersTrue == Spec => []AnswerIsTrue
  BY PipelineImplements, PromiseHolds, PTL

(* The server acts on a write only after every earlier write of the same   *)
(* user, also when a request of a closed stream arrives late.              *)
THEOREM PipelineStoresInOrder == Spec => []StoredInOrder
  BY PipelineImplements, PromiseHolds, PTL-----------------------------------------------------------------------------
(* The client as TLC runs it, one part at a time.  A step of one part      *)
(* leaves the variables of the others alone, so a behaviour of MCClient is *)
(* one of every part, and what was proved of the part holds for it.        *)

(* The constants of the parts are as their theorems assume.                *)
LEMMA PartsConstants ==
  /\ StateBreaks \in Nat /\ Calls \in Nat
  /\ Watched!WatchAssumption
  /\ Looked!LimboAssumption
  BY ClientAssumption
  DEF Watched!WatchAssumption, Looked!LimboAssumption, IsFiniteSet,
      Watched!IsFiniteSet, Looked!IsFiniteSet

(* A behaviour of the client is one of the write pipeline,                 *)
LEMMA PipelineRuns == MCSpec => Spec
  <1>1. MCInit => Init
    BY DEF MCInit
  <1>2. [MCNext]_allvars => [Next]_vars
    BY DEF MCNext, Writing, Connecting, Reading, Watching, Looking, allvars, vars
  <1> QED
    BY <1>1, <1>2, PTL DEF MCSpec, Spec

(* of the online state,                                                    *)
LEMMA OnlineRuns == MCSpec => Online!Spec
  <1>1. MCInit => Online!Init
    BY DEF MCInit
  <1>2. [MCNext]_allvars => [Online!Next]_(Online!vars)
    BY DEF MCNext, Writing, Connecting, Reading, Watching, Looking, allvars,
           onlineVars, Online!vars
  <1> QED
    BY <1>1, <1>2, PTL DEF MCSpec, Online!Spec

(* of the local view,                                                      *)
LEMMA LocalRuns == MCSpec => Local!Spec
  <1>1. MCInit => Local!Init
    BY DEF MCInit
  <1>2. [MCNext]_allvars => [Local!Next]_(Local!vars)
    BY DEF MCNext, Writing, Connecting, Reading, Watching, Looking, allvars,
           localVars, Local!vars
  <1> QED
    BY <1>1, <1>2, PTL DEF MCSpec, Local!Spec

(* of the watch target,                                                    *)
LEMMA WatchRuns == MCSpec => Watched!Spec
  <1>1. MCInit => Watched!Init
    BY DEF MCInit
  <1>2. [MCNext]_allvars => [Watched!Next]_(Watched!vars)
    BY DEF MCNext, Writing, Connecting, Reading, Watching, Looking, allvars,
           watchVars, Watched!vars, Watched!client, Watched!tokens
  <1> QED
    BY <1>1, <1>2, PTL DEF MCSpec, Watched!Spec

(* and of the documents in limbo.                                          *)
LEMMA LimboRuns == MCSpec => Looked!Spec
  <1>1. MCInit => Looked!Init
    BY DEF MCInit
  <1>2. [MCNext]_allvars => [Looked!Next]_(Looked!vars)
    BY DEF MCNext, Writing, Connecting, Reading, Watching, Looking, allvars,
           limboVars, Looked!vars, Looked!views, Looked!documents, Looked!bookVars
  <1> QED
    BY <1>1, <1>2, PTL DEF MCSpec, Looked!Spec

(* Every part of the client keeps its types, whichever part runs.          *)
THEOREM ClientTypesOK == MCSpec => []TypesOK
  <1>1. MCSpec => []TypeOK
    BY PipelineRuns, PipelineTypes, PTL
  <1>2. MCSpec => [](Online!TypeOK /\ Online!AssertsHold)
    BY OnlineRuns, PartsConstants, Online!AssertionsHold, PTL
  <1>3. MCSpec => []Local!TypeOK
    BY LocalRuns, Local!TypeCorrect, PTL
  <1>4. MCSpec => []Watched!TypeOK
    BY WatchRuns, PartsConstants, Watched!TypeCorrect, PTL
  <1>5. MCSpec => []Looked!TypeOK
    BY LimboRuns, PartsConstants, Looked!TypeCorrect, PTL
  <1>6. TypeOK /\ Online!TypeOK /\ Local!TypeOK /\ Watched!TypeOK /\ Looked!TypeOK => TypesOK
    BY DEF TypesOK
  <1> QED
    BY <1>1, <1>2, <1>3, <1>4, <1>5, <1>6, PTL

(* The client never fails a HARD_ASSERT of its online state.               *)
THEOREM ClientAssertsHold == MCSpec => []AssertsHold
  <1>1. Online!AssertsHold => AssertsHold
    BY DEF AssertsHold
  <1> QED
    BY <1>1, OnlineRuns, PartsConstants, Online!AssertionsHold, PTL

(* The client believes it is online only while its watch stream answers.   *)
THEOREM ClientOnlineIsOpen == MCSpec => []OnlineIsOpen
  <1>1. Online!OnlineIsOpen => OnlineIsOpen
    BY DEF OnlineIsOpen
  <1> QED
    BY <1>1, OnlineRuns, PartsConstants, Online!OnlineHasStream, PTL

(* An offline client has told everyone who listens.                        *)
THEOREM ClientOfflineIsTold == MCSpec => []OfflineIsTold
  <1>1. Online!OfflineIsTold => OfflineIsTold
    BY DEF OfflineIsTold
  <1> QED
    BY <1>1, OnlineRuns, PartsConstants, Online!OfflineEveryoneTold, PTL

(* One break of a working stream does not make the client offline.         *)
THEOREM ClientNoFlap == MCSpec => NoFlap
  <1>1. Online!NoFlap => NoFlap
    BY DEF NoFlap
  <1> QED
    BY <1>1, OnlineRuns, PartsConstants, Online!OneBreakIsUnknown, PTL

(* An overlay of the client's cache belongs to a queued batch.             *)
THEOREM ClientOverlayHasBatch == MCSpec => []OverlayHasBatch
  <1>1. Local!OverlayHasBatch => OverlayHasBatch
    BY DEF OverlayHasBatch
  <1> QED
    BY <1>1, LocalRuns, Local!OverlaysHaveBatches, PTL

(* Without an overlay no queued write changes what the app reads.          *)
THEOREM ClientNothingHidden == MCSpec => []NothingHidden
  <1>1. Local!NothingHidden => NothingHidden
    BY DEF NothingHidden
  <1> QED
    BY <1>1, LocalRuns, Local!NothingIsHidden, PTL

(* The app reads its own last write.                                       *)
THEOREM ClientLastWriteShows == MCSpec => []LastWriteShows
  <1>1. Local!LastWriteShows => LastWriteShows
    BY DEF LastWriteShows
  <1> QED
    BY <1>1, LocalRuns, Local!LastWriteIsShown, PTL

(* With no writes queued and all changes seen the app reads what the       *)
(* server has.                                                             *)
THEOREM ClientSettledIsServer == MCSpec => []SettledIsServer
  <1>1. Local!SettledIsServer => SettledIsServer
    BY DEF SettledIsServer
  <1> QED
    BY <1>1, LocalRuns, Local!SettledShowsServer, PTL

(* The keys the client has of a query are those its resume token stands    *)
(* for.                                                                    *)
THEOREM ClientTokenIsTrue == MCSpec => []TokenIsTrue
  <1>1. Watched!TokenIsTrue => TokenIsTrue
    BY DEF TokenIsTrue
  <1> QED
    BY <1>1, WatchRuns, PartsConstants, Watched!TokensAreTrue, PTL

(* Every document in limbo of a view in step with the server is looked up. *)
THEOREM ClientLimboIsLookedUp == MCSpec => []LimboIsLookedUp
  <1>1. Looked!LimboIsLookedUp => LimboIsLookedUp
    BY DEF LimboIsLookedUp
  <1> QED
    BY <1>1, LimboRuns, PartsConstants, Looked!NoneForgotten, PTL

(* No lookup outlives the views that need it.                              *)
THEOREM ClientNoLookupLeaks == MCSpec => []NoLookupLeaks
  <1>1. Looked!NoLookupLeaks => NoLookupLeaks
    BY DEF NoLookupLeaks
  <1> QED
    BY <1>1, LimboRuns, PartsConstants, Looked!NoneLeaks, PTL
=============================================================================
