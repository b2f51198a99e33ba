-------------------------- MODULE WatchTargetProofs --------------------------
(***************************************************************************)
(* The keys kept of a query belong to the resume token they are kept with, *)
(* for any documents and any number of versions, listens, broken streams   *)
(* and rejections.  A message only counts when every request sent since    *)
(* the stream was opened has been answered; then what is left of the       *)
(* stream leads from what has been collected to what the server has sent.  *)
(***************************************************************************)
EXTENDS WatchTarget, FiniteSetTheorems, SequenceTheorems, WellFoundedInduction, TLAPS

(* The instances the proofs are about: finitely many documents, and at     *)
(* least one.                                                              *)
WatchAssumption == IsFiniteSet(Docs) /\ Docs /= {}

-----------------------------------------------------------------------------
(* Induction, and finite sets as sequences.                                *)

(* A set that has 0 and with i - 1 also i has every number.                *)
LEMMA Upwards ==
  ASSUME NEW n \in Nat, NEW S, 0 \in S,
         \A i \in 1..n : i - 1 \in S => i \in S
  PROVE  \A i \in 0..n : i \in S
  <1> SUFFICES ASSUME NEW i \in 0..n, i \notin S PROVE FALSE
    OBVIOUS
  <1> DEFINE T == {j \in 0..n : j \notin S}
  <1>1. T \subseteq Nat /\ T /= {}
    OBVIOUS
  <1>2. \E x \in T : \A y \in T : ~(<<y, x>> \in OpToRel(<, Nat))
    BY <1>1, NatLessThanWellFounded, WFMin
  <1>3. PICK x \in T : \A y \in T : ~(<<y, x>> \in OpToRel(<, Nat))
    BY <1>2
  <1>4. \A y \in T : ~(y < x)
    BY <1>1, <1>3 DEF OpToRel
  <1>5. x \in 1..n /\ x - 1 \in 0..n /\ x - 1 < x
    OBVIOUS
  <1>6. x - 1 \in S
    BY <1>4, <1>5
  <1> QED
    BY <1>5, <1>6

(* A finite set as a sequence.                                             *)
LEMMA Enumeration ==
  ASSUME NEW S, IsFiniteSet(S)
  PROVE  /\ SetToSeq(S) \in Seq(S) /\ Len(SetToSeq(S)) \in Nat
         /\ ToSet(SetToSeq(S)) = S
  <1> DEFINE n == Cardinality(S)
  <1>1. n \in Nat
    BY FS_CardinalityType
  <1>2. PICK f : f \in Bijection(1..n, S)
    BY FS_CardinalityType DEF ExistsBijection
  <1>3. f \in [1..n -> S] /\ IsInjective(f)
    BY <1>2 DEF Bijection, Injection
  <1>4. SetToSeq(S) \in [1..n -> S] /\ IsInjective(SetToSeq(S))
    BY <1>3 DEF SetToSeq
  <1> HIDE DEF n
  <1> DEFINE g == SetToSeq(S)
  <1>5. g \in Injection(1..n, S)
    BY <1>4 DEF Injection
  <1>6. Cardinality(1..n) = n
    BY <1>1, FS_Interval
  <1>7. g \in Surjection(1..n, S)
    BY <1>5, <1>6, FS_Injection DEF n
  <1>8. \A x \in S : \E i \in 1..n : g[i] = x
    BY <1>7 DEF Surjection
  <1> HIDE DEF g
  <1>9. g \in Seq(S) /\ Len(g) = n
    BY <1>1, <1>4 DEF g
  <1> QED
    BY <1>1, <1>4, <1>8, <1>9 DEF ToSet, g

-----------------------------------------------------------------------------
(* Messages and requests.                                                  *)

(* Types of the messages of the server.                                    *)
MsgTypes == {"Added", "Removed", "Error", "Current", "Doc", "Reset", "Filter", "Snapshot"}
(* The messages; each has a document, a count and a version, whether it    *)
(* needs them or not.                                                      *)
Msgs == [type : MsgTypes, doc : Docs, in : BOOLEAN, count : Nat, version : Nat]
(* The requests of the client.                                             *)
Requests == [type : {"Watch", "Unwatch"}, token : Nat]

(* A message that answers a request.                                       *)
Answers == {"Added", "Removed", "Error"}

(* The server's result at a version.                                       *)
Of(l, v) == IF v = 0 THEN {} ELSE l[v]

(* The message that the document d matches, or no longer does.             *)
DocMsg(d, in) == [Msg("Doc") EXCEPT !.doc = d, !.in = in]

(* Messages have their types.                                              *)
LEMMA MsgFact ==
  ASSUME WatchAssumption, NEW type \in MsgTypes, NEW v \in Nat
  PROVE  /\ Msg(type) \in Msgs /\ Msg(type).type = type /\ Msg(type).version = 0
         /\ SnapshotMsg(v) \in Msgs /\ SnapshotMsg(v).type = "Snapshot"
         /\ SnapshotMsg(v).version = v
         /\ \A n \in Nat : LET m == [Msg("Filter") EXCEPT !.count = n] IN
              /\ m \in Msgs /\ m.type = "Filter" /\ m.count = n /\ m.version = 0
  <1>1. (CHOOSE d \in Docs : TRUE) \in Docs
    BY DEF WatchAssumption
  <1>2. \A t \in MsgTypes : Msg(t) \in Msgs /\ Msg(t).type = t /\ Msg(t).version = 0
    BY <1>1 DEF Msg, Msgs
  <1>3. {"Doc", "Filter", "Snapshot"} \subseteq MsgTypes
    BY DEF MsgTypes
  <1> HIDE DEF MsgTypes
  <1>4. /\ SnapshotMsg(v) \in Msgs /\ SnapshotMsg(v).type = "Snapshot"
        /\ SnapshotMsg(v).version = v
    BY <1>2, <1>3 DEF SnapshotMsg, Msgs
  <1>6. \A n \in Nat : LET m == [Msg("Filter") EXCEPT !.count = n] IN
          /\ m \in Msgs /\ m.type = "Filter" /\ m.count = n /\ m.version = 0
    BY <1>2, <1>3 DEF Msgs
  <1> QED
    BY <1>2, <1>4, <1>6

-----------------------------------------------------------------------------
(* How many of the messages are answers.                                   *)

(* What a message counts.                                                  *)
Weight(m) == IF m.type \in Answers THEN 1 ELSE 0

(* n[i] is how many of the messages from position i on are answers.        *)
Counts(ms, n) ==
    /\ n \in Seq(Nat) /\ Len(n) = Len(ms) + 1 /\ n[Len(ms) + 1] = 0
    /\ \A i \in 1..Len(ms) : n[i] = n[i + 1] + Weight(ms[i])

(* There are k answers among the messages.                                 *)
Load(ms, k) == \E n : Counts(ms, n) /\ n[1] = k

(* No answers, no load.                                                    *)
LEMMA LoadNone ==
  ASSUME NEW ms \in Seq(Msgs), \A i \in 1..Len(ms) : ms[i].type \notin Answers
  PROVE  Load(ms, 0)
  <1> DEFINE n == [i \in 1..(Len(ms) + 1) |-> 0]
  <1>1. n \in Seq(Nat) /\ Len(n) = Len(ms) + 1
    OBVIOUS
  <1>2. \A i \in 1..(Len(ms) + 1) : n[i] = 0
    OBVIOUS
  <1>3. \A i \in 1..Len(ms) : i \in 1..(Len(ms) + 1) /\ i + 1 \in 1..(Len(ms) + 1)
    OBVIOUS
  <1>4. Len(ms) + 1 \in 1..(Len(ms) + 1) /\ 1 \in 1..(Len(ms) + 1)
    OBVIOUS
  <1> HIDE DEF n
  <1>5. \A i \in 1..Len(ms) : n[i] = n[i + 1] + Weight(ms[i])
    BY <1>2, <1>3 DEF Weight
  <1> QED
    BY <1>1, <1>2, <1>4, <1>5 DEF Load, Counts

(* The load of one message.                                                *)
LEMMA LoadOne ==
  ASSUME NEW m \in Msgs
  PROVE  Load(<<m>>, Weight(m))
  <1> DEFINE n == <<Weight(m), 0>>
  <1>1. Len(<<m>>) = 1 /\ <<m>>[1] = m
    OBVIOUS
  <1>2. n \in Seq(Nat) /\ Len(n) = 2 /\ n[1] = Weight(m) /\ n[2] = 0
    BY DEF Weight
  <1>3. Weight(m) \in Nat
    BY DEF Weight
  <1> HIDE DEF n
  <1> QED
    BY <1>1, <1>2, <1>3 DEF Load, Counts

(* A load is a number.                                                     *)
LEMMA LoadNat ==
  ASSUME NEW ms \in Seq(Msgs), NEW k, Load(ms, k)
  PROVE  k \in Nat
  <1>1. PICK n : Counts(ms, n) /\ n[1] = k
    BY DEF Load
  <1>2. n \in Seq(Nat) /\ Len(n) = Len(ms) + 1 /\ Len(ms) \in Nat
    BY <1>1 DEF Counts
  <1>3. 1 \in 1..Len(n)
    BY <1>2
  <1> QED
    BY <1>1, <1>2, <1>3

(* Taking the first message takes its weight from the load.                *)
LEMMA LoadTail ==
  ASSUME NEW ms \in Seq(Msgs), ms /= << >>, NEW k, Load(ms, k)
  PROVE  /\ k \in Nat /\ k >= Weight(Head(ms))
         /\ Load(Tail(ms), k - Weight(Head(ms)))
  <1> DEFINE t == Tail(ms)
  <1>1. PICK n : Counts(ms, n) /\ n[1] = k
    BY DEF Load
  <1> DEFINE c == Tail(n)
  <1>2. /\ Len(ms) \in Nat /\ Len(ms) >= 1 /\ Head(ms) = ms[1]
        /\ t \in Seq(Msgs) /\ Len(t) = Len(ms) - 1
        /\ \A i \in 1..(Len(ms) - 1) : t[i] = ms[i + 1]
    OBVIOUS
  <1>3. /\ n \in Seq(Nat) /\ Len(n) = Len(ms) + 1 /\ n[Len(ms) + 1] = 0
        /\ \A i \in 1..Len(ms) : n[i] = n[i + 1] + Weight(ms[i])
    BY <1>1 DEF Counts
  <1>4. /\ c \in Seq(Nat) /\ Len(c) = Len(ms)
        /\ \A i \in 1..Len(ms) : c[i] = n[i + 1]
    BY <1>2, <1>3
  <1>5. \A i \in 1..(Len(ms) + 1) : n[i] \in Nat
    BY <1>3
  <1> HIDE DEF t, c
  <1>6. Counts(t, c)
    <2>1. \A i \in 1..Len(t) : c[i] = c[i + 1] + Weight(t[i])
      <3> TAKE i \in 1..Len(t)
      <3>1. i + 1 \in 1..Len(ms) /\ i \in 1..Len(ms) /\ i \in 1..(Len(ms) - 1)
        BY <1>2
      <3>2. n[i + 1] = n[(i + 1) + 1] + Weight(ms[i + 1])
        BY <1>3, <3>1
      <3>3. c[i] = n[i + 1] /\ c[i + 1] = n[(i + 1) + 1] /\ t[i] = ms[i + 1]
        BY <1>2, <1>4, <3>1
      <3> QED
        BY <3>2, <3>3
    <2>2. Len(ms) \in 1..Len(ms) /\ Len(t) + 1 = Len(ms)
      BY <1>2
    <2>3. c[Len(t) + 1] = 0 /\ Len(c) = Len(t) + 1
      BY <1>3, <1>4, <2>2
    <2> QED
      BY <1>4, <2>1, <2>3 DEF Counts
  <1>7. 1 \in 1..Len(ms) /\ 1 \in 1..(Len(ms) + 1) /\ 1 + 1 \in 1..(Len(ms) + 1)
    BY <1>2
  <1>8. n[1] = n[1 + 1] + Weight(Head(ms)) /\ c[1] = n[1 + 1] /\ n[1] \in Nat /\ n[1 + 1] \in Nat
    BY <1>2, <1>3, <1>4, <1>5, <1>7
  <1>9. Weight(Head(ms)) \in Nat
    BY DEF Weight
  <1>10. k \in Nat /\ k >= Weight(Head(ms)) /\ c[1] = k - Weight(Head(ms))
    BY <1>1, <1>8, <1>9
  <1> QED
    BY <1>6, <1>10 DEF Load, t

(* The load of messages sent after others is added.                        *)
LEMMA LoadCat ==
  ASSUME NEW ms \in Seq(Msgs), NEW ts \in Seq(Msgs), NEW k, NEW j,
         Load(ms, k), Load(ts, j)
  PROVE  Load(ms \o ts, k + j)
  <1> DEFINE a == Len(ms)
             b == Len(ts)
             r == ms \o ts
  <1>1. PICK n : Counts(ms, n) /\ n[1] = k
    BY DEF Load
  <1>2. PICK o : Counts(ts, o) /\ o[1] = j
    BY DEF Load
  <1>3. /\ a \in Nat /\ b \in Nat /\ r \in Seq(Msgs) /\ Len(r) = a + b
        /\ \A i \in 1..a : r[i] = ms[i]
        /\ \A i \in 1..b : r[a + i] = ts[i]
    OBVIOUS
  <1>4. /\ n \in Seq(Nat) /\ Len(n) = a + 1 /\ n[a + 1] = 0
        /\ \A i \in 1..a : n[i] = n[i + 1] + Weight(ms[i])
    BY <1>1 DEF Counts
  <1>5. /\ o \in Seq(Nat) /\ Len(o) = b + 1 /\ o[b + 1] = 0
        /\ \A i \in 1..b : o[i] = o[i + 1] + Weight(ts[i])
    BY <1>2 DEF Counts
  <1> HIDE DEF a, b, r
  <1>6. \A i \in 1..(a + 1) : n[i] \in Nat
    BY <1>3, <1>4
  <1>7. \A i \in 1..(b + 1) : o[i] \in Nat
    <2>1. \A i \in 1..Len(o) : o[i] \in Nat
      BY <1>5
    <2> QED
      BY <1>5, <2>1
  <1>8. o[1] = j /\ n[1] = k /\ j \in Nat /\ k \in Nat
    BY <1>1, <1>2, <1>3, <1>6, <1>7
  <1> DEFINE c == [i \in 1..(a + b + 1) |-> IF i <= a THEN n[i] + j ELSE o[i - a]]
  <1>9. \A i \in 1..(a + b + 1) : c[i] = IF i <= a THEN n[i] + j ELSE o[i - a]
    OBVIOUS
  <1>10. \A i \in 1..(a + b + 1) : c[i] \in Nat
    <2> TAKE i \in 1..(a + b + 1)
    <2>1. CASE i <= a
      <3>1. i \in 1..(a + 1)
        BY <1>3, <2>1
      <3> QED
        BY <1>6, <1>8, <1>9, <2>1, <3>1
    <2>2. CASE i > a
      <3>1. i - a \in 1..(b + 1)
        BY <1>3, <2>2
      <3> QED
        BY <1>3, <1>7, <1>9, <2>2, <3>1
    <2> QED
      BY <1>3, <2>1, <2>2
  <1>11. c \in [1..(a + b + 1) -> Nat]
    BY <1>10
  <1>12. c \in Seq(Nat) /\ Len(c) = a + b + 1
    BY <1>3, <1>11
  <1> HIDE DEF c
  <1>13. \A i \in 1..(a + b) : c[i] = c[i + 1] + Weight(r[i])
    <2> TAKE i \in 1..(a + b)
    <2>0. /\ i \in 1..(a + b + 1) /\ i + 1 \in 1..(a + b + 1)
      BY <1>3
    <2>1. CASE i < a
      <3>1. i \in 1..a /\ i + 1 <= a /\ i + 1 \in 1..(a + 1) /\ i \in 1..(a + 1)
        BY <1>3, <2>1
      <3>2. n[i] = n[i + 1] + Weight(r[i]) /\ n[i + 1] \in Nat /\ Weight(r[i]) \in Nat
        BY <1>3, <1>4, <1>6, <3>1 DEF Weight
      <3>3. c[i] = n[i] + j /\ c[i + 1] = n[i + 1] + j
        BY <1>9, <2>0, <3>1
      <3> QED
        BY <1>8, <3>2, <3>3
    <2>2. CASE i = a
      <3>1. i \in 1..a /\ ~(i + 1 <= a) /\ (i + 1) - a = 1
        BY <1>3, <2>2
      <3>2. n[i] = n[i + 1] + Weight(r[i]) /\ n[i + 1] = 0 /\ Weight(r[i]) \in Nat
        BY <1>3, <1>4, <2>2, <3>1 DEF Weight
      <3>3. c[i] = n[i] + j /\ c[i + 1] = o[1]
        BY <1>9, <2>0, <2>2, <3>1
      <3> QED
        BY <1>8, <3>2, <3>3
    <2>3. CASE i > a
      <3>1. i - a \in 1..b /\ (i - a) + 1 = (i + 1) - a /\ a + (i - a) = i
        BY <1>3, <2>3
      <3>2. o[i - a] = o[(i - a) + 1] + Weight(r[i])
        BY <1>3, <1>5, <3>1
      <3>3. ~(i <= a) /\ ~(i + 1 <= a)
        BY <1>3, <2>3
      <3>4. c[i] = o[i - a] /\ c[i + 1] = o[(i + 1) - a]
        BY <1>9, <2>0, <3>3
      <3> QED
        BY <3>1, <3>2, <3>4
    <2> QED
      BY <1>3, <2>1, <2>2, <2>3
  <1>14. c[a + b + 1] = 0
    <2>1. a + b + 1 \in 1..(a + b + 1) /\ ~(a + b + 1 <= a) /\ (a + b + 1) - a = b + 1
      BY <1>3
    <2> QED
      BY <1>5, <1>9, <2>1
  <1>15. c[1] = k + j
    <2>1. CASE a = 0
      <3>1. 1 \in 1..(a + b + 1) /\ ~(1 <= a) /\ 1 - a = 1 /\ a + 1 = 1
        BY <1>3, <2>1
      <3>2. c[1] = o[1] /\ n[1] = 0
        BY <1>4, <1>9, <3>1
      <3> QED
        BY <1>8, <3>2
    <2>2. CASE a /= 0
      <3>1. 1 \in 1..(a + b + 1) /\ 1 <= a
        BY <1>3, <2>2
      <3> QED
        BY <1>8, <1>9, <3>1
    <2> QED
      BY <2>1, <2>2
  <1>16. Counts(r, c)
    BY <1>3, <1>12, <1>13, <1>14 DEF Counts
  <1> QED
    BY <1>15, <1>16 DEF Load, r

(* Without a load there are no answers.                                    *)
LEMMA LoadZero ==
  ASSUME NEW ms \in Seq(Msgs), Load(ms, 0)
  PROVE  \A i \in 1..Len(ms) : ms[i].type \notin Answers
  <1> DEFINE a == Len(ms)
  <1>1. PICK n : Counts(ms, n) /\ n[1] = 0
    BY DEF Load
  <1>2. /\ a \in Nat
        /\ n \in Seq(Nat) /\ Len(n) = a + 1
        /\ \A i \in 1..a : n[i] = n[i + 1] + Weight(ms[i])
    BY <1>1 DEF Counts
  <1> HIDE DEF a
  <1>3. \A i \in 1..(a + 1) : n[i] \in Nat
    BY <1>2
  <1>4. \A i \in 1..a : n[i] = 0 => n[i + 1] = 0 /\ Weight(ms[i]) = 0
    <2> TAKE i \in 1..a
    <2>1. n[i + 1] \in Nat /\ Weight(ms[i]) \in Nat
      BY <1>2, <1>3 DEF Weight
    <2> QED
      BY <1>2, <2>1
  <1> DEFINE S == {i \in 0..a : n[i + 1] = 0}
  <1>5. 0 \in S
    BY <1>1, <1>2
  <1>6. \A i \in 1..a : i - 1 \in S => i \in S
    <2> SUFFICES ASSUME NEW i \in 1..a, i - 1 \in S PROVE i \in S
      OBVIOUS
    <2>1. n[(i - 1) + 1] = 0 /\ (i - 1) + 1 = i
      BY <1>2
    <2> QED
      BY <1>2, <1>4, <2>1
  <1> HIDE DEF S
  <1>7. \A i \in 0..a : i \in S
    BY <1>2, <1>5, <1>6, Upwards
  <1>8. \A i \in 1..a : n[i] = 0
    <2> TAKE i \in 1..a
    <2>1. i - 1 \in 0..a /\ (i - 1) + 1 = i
      BY <1>2
    <2> QED
      BY <1>7, <2>1 DEF S
  <1> QED
    BY <1>4, <1>8 DEF Weight, a

-----------------------------------------------------------------------------
(* What the messages do to the documents collected.                        *)

(* The message m takes a to b.  A filter tells a from its subset b.        *)
Step(l, a, m, b) ==
    /\ m.type \notin Answers
    /\ m.type = "Doc" => b = IF m.in THEN a \cup {m.doc} ELSE a \ {m.doc}
    /\ m.type = "Current" => b = a
    /\ m.type = "Reset" => b = {}
    /\ m.type = "Filter" => b \subseteq a /\ m.count = Cardinality(b)
    /\ m.type = "Snapshot" => b = a /\ a = Of(l, m.version)

(* The messages from position p on take sets[p] to the last of sets; the   *)
(* message after a filter is a snapshot.                                   *)
Path(l, ms, p, sets) ==
    /\ sets \in Seq(SUBSET Docs) /\ Len(sets) = Len(ms) + 1
    /\ \A i \in p..Len(ms) :
          /\ Step(l, sets[i], ms[i], sets[i + 1])
          /\ ms[i].type = "Filter" => i < Len(ms) /\ ms[i + 1].type = "Snapshot"

(* From position p on the messages take a to b.                            *)
Follows(l, a, ms, p, b) ==
    \E sets : Path(l, ms, p, sets) /\ sets[p] = a /\ sets[Len(ms) + 1] = b

(* No message, and one that is no filter.                                  *)
LEMMA FollowsEnd ==
  ASSUME NEW l, NEW a \in SUBSET Docs, NEW ms \in Seq(Msgs)
  PROVE  Follows(l, a, ms, Len(ms) + 1, a)
  <1> DEFINE n == Len(ms) + 1
             sets == [i \in 1..n |-> a]
  <1>1. n \in Nat /\ n \in 1..n /\ \A i \in n..Len(ms) : FALSE
    OBVIOUS
  <1> HIDE DEF n
  <1>2. sets \in [1..n -> SUBSET Docs] /\ \A i \in 1..n : sets[i] = a
    OBVIOUS
  <1>3. sets \in Seq(SUBSET Docs) /\ Len(sets) = n
    BY <1>1, <1>2
  <1> HIDE DEF sets
  <1>4. Path(l, ms, n, sets)
    BY <1>1, <1>3 DEF Path, n
  <1>5. sets[n] = a
    BY <1>1, <1>2
  <1> QED
    BY <1>4, <1>5 DEF Follows, n

(* One message takes a to b.                                               *)
LEMMA FollowsOne ==
  ASSUME NEW l, NEW a \in SUBSET Docs, NEW b \in SUBSET Docs, NEW m \in Msgs,
         Step(l, a, m, b), m.type /= "Filter"
  PROVE  Follows(l, a, <<m>>, 1, b)
  <1> DEFINE ms == <<m>>
             sets == <<a, b>>
  <1>1. ms \in Seq(Msgs) /\ Len(ms) = 1 /\ ms[1] = m
    OBVIOUS
  <1>2. sets \in Seq(SUBSET Docs) /\ Len(sets) = 2 /\ sets[1] = a /\ sets[2] = b
    OBVIOUS
  <1> HIDE DEF ms, sets
  <1>3. \A i \in 1..1 : i = 1
    OBVIOUS
  <1>4. 1 + 1 = 2
    OBVIOUS
  <1>5. Path(l, ms, 1, sets)
    BY <1>1, <1>2, <1>3, <1>4 DEF Path
  <1>6. sets[1] = a /\ sets[Len(ms) + 1] = b
    BY <1>1, <1>2, <1>4
  <1>7. Follows(l, a, ms, 1, b)
    BY <1>5, <1>6 DEF Follows
  <1> QED
    BY <1>7 DEF ms

(* The first message is handled.                                           *)
LEMMA FollowsHead ==
  ASSUME NEW l, NEW a, NEW b, NEW ms \in Seq(Msgs), ms /= << >>,
         Follows(l, a, ms, 1, b)
  PROVE  \E c \in SUBSET Docs :
            /\ Step(l, a, Head(ms), c)
            /\ Head(ms).type = "Filter" =>
                 Tail(ms) /= << >> /\ Head(Tail(ms)).type = "Snapshot"
            /\ Follows(l, c, Tail(ms), 1, b)
  <1> DEFINE t == Tail(ms)
  <1>1. PICK sets : Path(l, ms, 1, sets) /\ sets[1] = a /\ sets[Len(ms) + 1] = b
    BY DEF Follows
  <1> DEFINE rest == Tail(sets)
             c == sets[2]
  <1>2. /\ Len(ms) \in Nat /\ Len(ms) >= 1 /\ Head(ms) = ms[1]
        /\ t \in Seq(Msgs) /\ Len(t) = Len(ms) - 1
        /\ \A i \in 1..(Len(ms) - 1) : t[i] = ms[i + 1]
        /\ Len(t) >= 1 => t /= << >> /\ Head(t) = t[1]
    OBVIOUS
  <1>3. /\ sets \in Seq(SUBSET Docs) /\ Len(sets) = Len(ms) + 1
        /\ \A i \in 1..Len(ms) :
              /\ Step(l, sets[i], ms[i], sets[i + 1])
              /\ ms[i].type = "Filter" => i < Len(ms) /\ ms[i + 1].type = "Snapshot"
    BY <1>1 DEF Path
  <1>4. /\ rest \in Seq(SUBSET Docs) /\ Len(rest) = Len(ms)
        /\ \A i \in 1..Len(ms) : rest[i] = sets[i + 1]
    BY <1>2, <1>3
  <1>5. c \in SUBSET Docs
    BY <1>2, <1>3
  <1> HIDE DEF t, rest, c
  <1>6. 1 \in 1..Len(ms) /\ 1 + 1 = 2
    BY <1>2
  <1>7. Step(l, a, Head(ms), c)
    BY <1>1, <1>2, <1>3, <1>6 DEF c
  <1>8. Head(ms).type = "Filter" => t /= << >> /\ Head(t).type = "Snapshot"
    <2> SUFFICES ASSUME Head(ms).type = "Filter"
                 PROVE  t /= << >> /\ Head(t).type = "Snapshot"
      OBVIOUS
    <2>1. 1 < Len(ms) /\ ms[2].type = "Snapshot"
      BY <1>2, <1>3, <1>6
    <2>2. 1 \in 1..(Len(ms) - 1) /\ Len(t) >= 1
      BY <1>2, <2>1
    <2>3. t[1] = ms[2]
      BY <1>2, <1>6, <2>2
    <2> QED
      BY <1>2, <2>1, <2>2, <2>3
  <1>9. Path(l, t, 1, rest)
    <2>1. ASSUME NEW i \in 1..Len(t)
          PROVE  /\ Step(l, rest[i], t[i], rest[i + 1])
                 /\ t[i].type = "Filter" => i < Len(t) /\ t[i + 1].type = "Snapshot"
      <3>1. i + 1 \in 1..Len(ms) /\ i \in 1..Len(ms) /\ i \in 1..(Len(ms) - 1)
        BY <1>2
      <3>2. rest[i] = sets[i + 1] /\ rest[i + 1] = sets[(i + 1) + 1] /\ t[i] = ms[i + 1]
        BY <1>2, <1>4, <3>1
      <3>3. /\ Step(l, sets[i + 1], ms[i + 1], sets[(i + 1) + 1])
            /\ ms[i + 1].type = "Filter" =>
                 i + 1 < Len(ms) /\ ms[(i + 1) + 1].type = "Snapshot"
        BY <1>3, <3>1
      <3>4. ASSUME i + 1 < Len(ms) PROVE i < Len(t) /\ t[i + 1] = ms[(i + 1) + 1]
        <4>1. i + 1 \in 1..(Len(ms) - 1)
          BY <1>2, <3>4
        <4> QED
          BY <1>2, <3>4, <4>1
      <3> QED
        BY <3>2, <3>3, <3>4
    <2>2. Len(rest) = Len(t) + 1
      BY <1>2, <1>4
    <2> QED
      BY <1>4, <2>1, <2>2 DEF Path
  <1>10. rest[1] = c /\ rest[Len(t) + 1] = b
    <2>1. Len(ms) \in 1..Len(ms) /\ Len(t) + 1 = Len(ms)
      BY <1>2
    <2> QED
      BY <1>1, <1>4, <1>6, <2>1 DEF c
  <1>11. Follows(l, c, t, 1, b)
    BY <1>9, <1>10 DEF Follows
  <1> QED
    BY <1>5, <1>7, <1>8, <1>11 DEF t

(* A message before those that count is handled.                           *)
LEMMA FollowsShift ==
  ASSUME NEW l, NEW a, NEW b, NEW ms \in Seq(Msgs), NEW p \in 2..(Len(ms) + 1),
         Follows(l, a, ms, p, b)
  PROVE  Follows(l, a, Tail(ms), p - 1, b)
  <1> DEFINE t == Tail(ms)
             q == p - 1
  <1>1. PICK sets : Path(l, ms, p, sets) /\ sets[p] = a /\ sets[Len(ms) + 1] = b
    BY DEF Follows
  <1> DEFINE rest == Tail(sets)
  <1>2. /\ Len(ms) \in Nat /\ Len(ms) >= 1
        /\ t \in Seq(Msgs) /\ Len(t) = Len(ms) - 1
        /\ \A i \in 1..(Len(ms) - 1) : t[i] = ms[i + 1]
    OBVIOUS
  <1>3. /\ sets \in Seq(SUBSET Docs) /\ Len(sets) = Len(ms) + 1
        /\ \A i \in p..Len(ms) :
              /\ Step(l, sets[i], ms[i], sets[i + 1])
              /\ ms[i].type = "Filter" => i < Len(ms) /\ ms[i + 1].type = "Snapshot"
    BY <1>1 DEF Path
  <1>4. /\ rest \in Seq(SUBSET Docs) /\ Len(rest) = Len(ms)
        /\ \A i \in 1..Len(ms) : rest[i] = sets[i + 1]
    BY <1>2, <1>3
  <1>5. q \in Nat /\ q >= 1 /\ q <= Len(ms) /\ q + 1 = p
    BY <1>2
  <1> HIDE DEF t, rest, q
  <1>9. Path(l, t, q, rest)
    <2>1. ASSUME NEW i \in q..Len(t)
          PROVE  /\ Step(l, rest[i], t[i], rest[i + 1])
                 /\ t[i].type = "Filter" => i < Len(t) /\ t[i + 1].type = "Snapshot"
      <3>1. i + 1 \in p..Len(ms) /\ i \in 1..Len(ms) /\ i \in 1..(Len(ms) - 1)
            /\ i + 1 \in 1..Len(ms)
        BY <1>2, <1>5
      <3>2. rest[i] = sets[i + 1] /\ rest[i + 1] = sets[(i + 1) + 1] /\ t[i] = ms[i + 1]
        BY <1>2, <1>4, <3>1
      <3>3. /\ Step(l, sets[i + 1], ms[i + 1], sets[(i + 1) + 1])
            /\ ms[i + 1].type = "Filter" =>
                 i + 1 < Len(ms) /\ ms[(i + 1) + 1].type = "Snapshot"
        BY <1>3, <3>1
      <3>4. ASSUME i + 1 < Len(ms) PROVE i < Len(t) /\ t[i + 1] = ms[(i + 1) + 1]
        <4>1. i + 1 \in 1..(Len(ms) - 1)
          BY <1>2, <1>5, <3>4
        <4> QED
          BY <1>2, <3>4, <4>1
      <3> QED
        BY <3>2, <3>3, <3>4
    <2>2. Len(rest) = Len(t) + 1
      BY <1>2, <1>4
    <2> QED
      BY <1>4, <2>1, <2>2 DEF Path
  <1>10. rest[q] = a /\ rest[Len(t) + 1] = b
    <2>1. Len(ms) \in 1..Len(ms) /\ Len(t) + 1 = Len(ms) /\ q \in 1..Len(ms)
      BY <1>2, <1>5
    <2> QED
      BY <1>1, <1>4, <1>5, <2>1
  <1>11. Follows(l, a, t, q, b)
    BY <1>9, <1>10 DEF Follows
  <1> QED
    BY <1>11 DEF t, q

(* More messages are sent.                                                 *)
LEMMA FollowsCat ==
  ASSUME NEW l, NEW a, NEW b, NEW c, NEW ms \in Seq(Msgs), NEW ts \in Seq(Msgs),
         NEW p \in 1..(Len(ms) + 1),
         Follows(l, a, ms, p, b), Follows(l, b, ts, 1, c)
  PROVE  Follows(l, a, ms \o ts, p, c)
  <1> DEFINE m == Len(ms)
             n == Len(ts)
             r == ms \o ts
  <1>1. PICK s : Path(l, ms, p, s) /\ s[p] = a /\ s[m + 1] = b
    BY DEF Follows
  <1>2. PICK u : Path(l, ts, 1, u) /\ u[1] = b /\ u[n + 1] = c
    BY DEF Follows
  <1>3. /\ m \in Nat /\ n \in Nat /\ r \in Seq(Msgs) /\ Len(r) = m + n
        /\ \A i \in 1..m : r[i] = ms[i]
        /\ \A i \in 1..n : r[m + i] = ts[i]
    OBVIOUS
  <1>4. /\ s \in Seq(SUBSET Docs) /\ Len(s) = m + 1
        /\ \A i \in p..m :
              /\ Step(l, s[i], ms[i], s[i + 1])
              /\ ms[i].type = "Filter" => i < m /\ ms[i + 1].type = "Snapshot"
    BY <1>1 DEF Path
  <1>5. /\ u \in Seq(SUBSET Docs) /\ Len(u) = n + 1
        /\ \A i \in 1..n :
              /\ Step(l, u[i], ts[i], u[i + 1])
              /\ ts[i].type = "Filter" => i < n /\ ts[i + 1].type = "Snapshot"
    BY <1>2 DEF Path
  <1>p. p \in 1..(m + 1)
    OBVIOUS
  <1> HIDE DEF m, n, r
  <1>6. \A i \in 1..(m + 1) : s[i] \in SUBSET Docs
    <2>1. \A i \in 1..Len(s) : s[i] \in SUBSET Docs
      BY <1>4
    <2> QED
      BY <1>4, <2>1
  <1>7. \A i \in 1..(n + 1) : u[i] \in SUBSET Docs
    <2>1. \A i \in 1..Len(u) : u[i] \in SUBSET Docs
      BY <1>5
    <2> QED
      BY <1>5, <2>1
  <1> DEFINE w == [i \in 1..(m + n + 1) |-> IF i <= m THEN s[i] ELSE u[i - m]]
  <1>9. \A i \in 1..(m + n + 1) : w[i] = IF i <= m THEN s[i] ELSE u[i - m]
    OBVIOUS
  <1>10. \A i \in 1..(m + n + 1) : w[i] \in SUBSET Docs
    <2> TAKE i \in 1..(m + n + 1)
    <2>1. CASE i <= m
      <3>1. i \in 1..(m + 1)
        BY <1>3, <2>1
      <3> QED
        BY <1>6, <1>9, <2>1, <3>1
    <2>2. CASE ~(i <= m)
      <3>1. i - m \in 1..(n + 1)
        BY <1>3, <2>2
      <3> QED
        BY <1>7, <1>9, <2>2, <3>1
    <2> QED
      BY <2>1, <2>2
  <1>11. w \in [1..(m + n + 1) -> SUBSET Docs]
    BY <1>10
  <1>12. w \in Seq(SUBSET Docs) /\ Len(w) = m + n + 1
    <2> DEFINE q == m + n + 1
    <2>1. q \in Nat /\ w \in [1..q -> SUBSET Docs]
      BY <1>3, <1>11
    <2> HIDE DEF q, w
    <2>2. w \in Seq(SUBSET Docs) /\ Len(w) = q
      BY <2>1
    <2> QED
      BY <2>2 DEF q
  <1> HIDE DEF w
  <1>13. \A i \in 1..(m + 1) : w[i] = s[i]
    <2> TAKE i \in 1..(m + 1)
    <2>0. i \in 1..(m + n + 1)
      BY <1>3
    <2>1. CASE i <= m
      BY <1>9, <2>0, <2>1
    <2>2. CASE ~(i <= m)
      <3>1. i = m + 1 /\ i - m = 1
        BY <1>3, <2>2
      <3> QED
        BY <1>1, <1>2, <1>9, <2>0, <2>2, <3>1 DEF m
    <2> QED
      BY <2>1, <2>2
  <1>14. \A i \in 1..(n + 1) : w[m + i] = u[i]
    <2> TAKE i \in 1..(n + 1)
    <2>1. m + i \in 1..(m + n + 1) /\ ~(m + i <= m) /\ (m + i) - m = i
      BY <1>3
    <2> QED
      BY <1>9, <2>1
  <1>15. ASSUME NEW i \in p..(m + n)
         PROVE  /\ Step(l, w[i], r[i], w[i + 1])
                /\ r[i].type = "Filter" => i < m + n /\ r[i + 1].type = "Snapshot"
    <2>1. CASE i <= m
      <3>1. i \in 1..m /\ i \in p..m /\ i \in 1..(m + 1) /\ i + 1 \in 1..(m + 1)
        BY <1>3, <1>p, <2>1
      <3>2. w[i] = s[i] /\ w[i + 1] = s[i + 1] /\ r[i] = ms[i]
        BY <1>3, <1>13, <3>1
      <3>3. i < m => i + 1 \in 1..m /\ i < m + n
        BY <1>3, <3>1
      <3> QED
        BY <1>3, <1>4, <3>1, <3>2, <3>3
    <2>2. CASE ~(i <= m)
      <3> DEFINE j == i - m
      <3>1. /\ j \in 1..n /\ j \in 1..(n + 1) /\ j + 1 \in 1..(n + 1)
            /\ m + j = i /\ m + (j + 1) = i + 1 /\ (j < n => j + 1 \in 1..n /\ i < m + n)
        BY <1>3, <1>p, <2>2
      <3> HIDE DEF j
      <3>2. w[i] = u[j] /\ w[i + 1] = u[j + 1] /\ r[i] = ts[j]
        BY <1>3, <1>14, <3>1
      <3>3. j < n => r[i + 1] = ts[j + 1]
        BY <1>3, <3>1
      <3> QED
        BY <1>5, <3>1, <3>2, <3>3
    <2> QED
      BY <2>1, <2>2
  <1>16. Path(l, r, p, w)
    <2>1. Len(w) = Len(r) + 1
      BY <1>3, <1>12
    <2> QED
      BY <1>3, <1>12, <1>15, <2>1 DEF Path
  <1>17. w[p] = a /\ w[Len(r) + 1] = c
    <2>1. n + 1 \in 1..(n + 1) /\ m + (n + 1) = Len(r) + 1
      BY <1>3
    <2> QED
      BY <1>1, <1>2, <1>13, <1>14, <1>p, <2>1
  <1>18. Follows(l, a, r, p, c)
    BY <1>16, <1>17 DEF Follows
  <1> QED
    BY <1>18 DEF r

(* The server's result changes: its versions stay what they were.          *)
LEMMA FollowsLog ==
  ASSUME NEW l, NEW k, NEW a, NEW b, NEW ms \in Seq(Msgs), NEW p \in 1..(Len(ms) + 1),
         \A i \in 1..Len(ms) : Of(k, ms[i].version) = Of(l, ms[i].version),
         Follows(l, a, ms, p, b)
  PROVE  Follows(k, a, ms, p, b)
  <1>1. PICK s : Path(l, ms, p, s) /\ s[p] = a /\ s[Len(ms) + 1] = b
    BY DEF Follows
  <1>2. \A i \in p..Len(ms) : i \in 1..Len(ms)
    OBVIOUS
  <1>3. \A i \in p..Len(ms) : Step(l, s[i], ms[i], s[i + 1]) => Step(k, s[i], ms[i], s[i + 1])
    BY <1>2 DEF Step
  <1>4. Path(k, ms, p, s)
    BY <1>1, <1>3 DEF Path
  <1> QED
    BY <1>1, <1>4 DEF Follows

(* Messages that are followed are no answers.                              *)
LEMMA FollowsQuiet ==
  ASSUME NEW l, NEW a, NEW b, NEW ms \in Seq(Msgs), Follows(l, a, ms, 1, b)
  PROVE  Load(ms, 0)
  <1>1. \A i \in 1..Len(ms) : ms[i].type \notin Answers
    BY DEF Follows, Path, Step
  <1> QED
    BY <1>1, LoadNone

-----------------------------------------------------------------------------
(* What the server sends.                                                  *)

(* No message is of a version that is yet to come.                         *)
Versioned(l, ms) == \A i \in 1..Len(ms) : ms[i].version <= Len(l)

(* The message after a filter is the snapshot of the last version.         *)
Final(l, ts) ==
    \A i \in 1..Len(ts) : ts[i].type = "Filter" =>
       i < Len(ts) /\ ts[i + 1].type = "Snapshot" /\ ts[i + 1].version = Len(l)

(* The messages ts take a client that has a to b.                          *)
Segment(l, a, ts, b) ==
    ts \in Seq(Msgs) /\ Versioned(l, ts) /\ Final(l, ts) /\ Follows(l, a, ts, 1, b)

(* This holds of messages sent one after another.                          *)
LEMMA VersionedCat ==
  ASSUME NEW l, NEW s \in Seq(Msgs), NEW t \in Seq(Msgs),
         Versioned(l, s), Versioned(l, t)
  PROVE  Versioned(l, s \o t)
  <1> DEFINE m == Len(s)
             n == Len(t)
             r == s \o t
  <1>1. /\ m \in Nat /\ n \in Nat /\ Len(r) = m + n
        /\ \A i \in 1..m : r[i] = s[i]
        /\ \A i \in 1..n : r[m + i] = t[i]
    OBVIOUS
  <1>2. /\ \A i \in 1..m : s[i].version <= Len(l)
        /\ \A i \in 1..n : t[i].version <= Len(l)
    BY DEF Versioned
  <1> HIDE DEF m, n, r
  <1>3. ASSUME NEW i \in 1..(m + n) PROVE r[i].version <= Len(l)
    <2>1. CASE i <= m
      <3>1. i \in 1..m
        BY <1>1, <2>1
      <3> QED
        BY <1>1, <1>2, <3>1
    <2>2. CASE ~(i <= m)
      <3>1. i - m \in 1..n /\ m + (i - m) = i
        BY <1>1, <2>2
      <3> QED
        BY <1>1, <1>2, <3>1
    <2> QED
      BY <2>1, <2>2
  <1>4. Versioned(l, r)
    BY <1>1, <1>3 DEF Versioned
  <1> QED
    BY <1>4 DEF r

LEMMA FinalCat ==
  ASSUME NEW l, NEW s \in Seq(Msgs), NEW t \in Seq(Msgs), Final(l, s), Final(l, t)
  PROVE  Final(l, s \o t)
  <1> DEFINE m == Len(s)
             n == Len(t)
             r == s \o t
  <1>1. /\ m \in Nat /\ n \in Nat /\ Len(r) = m + n
        /\ \A i \in 1..m : r[i] = s[i]
        /\ \A i \in 1..n : r[m + i] = t[i]
    OBVIOUS
  <1>2. /\ \A i \in 1..m : s[i].type = "Filter" =>
             i < m /\ s[i + 1].type = "Snapshot" /\ s[i + 1].version = Len(l)
        /\ \A i \in 1..n : t[i].type = "Filter" =>
             i < n /\ t[i + 1].type = "Snapshot" /\ t[i + 1].version = Len(l)
    BY DEF Final
  <1> HIDE DEF m, n, r
  <1>3. ASSUME NEW i \in 1..(m + n), r[i].type = "Filter"
        PROVE  i < m + n /\ r[i + 1].type = "Snapshot" /\ r[i + 1].version = Len(l)
    <2>1. CASE i <= m
      <3>1. i \in 1..m
        BY <1>1, <2>1
      <3>2. i < m /\ s[i + 1].type = "Snapshot" /\ s[i + 1].version = Len(l)
        BY <1>1, <1>2, <1>3, <3>1
      <3>3. i + 1 \in 1..m /\ i < m + n
        BY <1>1, <3>1, <3>2
      <3> QED
        BY <1>1, <3>2, <3>3
    <2>2. CASE ~(i <= m)
      <3> DEFINE j == i - m
      <3>1. j \in 1..n /\ m + j = i
        BY <1>1, <2>2
      <3> HIDE DEF j
      <3>2. j < n /\ t[j + 1].type = "Snapshot" /\ t[j + 1].version = Len(l)
        BY <1>1, <1>2, <1>3, <3>1
      <3>3. j + 1 \in 1..n /\ m + (j + 1) = i + 1 /\ i < m + n
        BY <1>1, <3>1, <3>2
      <3> QED
        BY <1>1, <3>2, <3>3
    <2> QED
      BY <2>1, <2>2
  <1>4. Final(l, r)
    BY <1>1, <1>3 DEF Final
  <1> QED
    BY <1>4 DEF r

(* Neither no message nor one that is no filter needs a snapshot.          *)
LEMMA FinalQuiet ==
  ASSUME NEW l, NEW ts, \A i \in 1..Len(ts) : ts[i].type /= "Filter"
  PROVE  Final(l, ts)
  BY DEF Final

(* Segments follow each other.                                             *)
LEMMA SegmentCat ==
  ASSUME NEW l, NEW a, NEW b, NEW c, NEW s, NEW t,
         Segment(l, a, s, b), Segment(l, b, t, c)
  PROVE  Segment(l, a, s \o t, c)
  <1>1. /\ s \in Seq(Msgs) /\ t \in Seq(Msgs)
        /\ Versioned(l, s) /\ Versioned(l, t) /\ Final(l, s) /\ Final(l, t)
        /\ Follows(l, a, s, 1, b) /\ Follows(l, b, t, 1, c)
    BY DEF Segment
  <1>2. s \o t \in Seq(Msgs) /\ 1 \in 1..(Len(s) + 1)
    BY <1>1
  <1>3. Versioned(l, s \o t) /\ Final(l, s \o t)
    BY <1>1, VersionedCat, FinalCat
  <1>4. Follows(l, a, s \o t, 1, c)
    BY <1>1, <1>2, FollowsCat
  <1> QED
    BY <1>2, <1>3, <1>4 DEF Segment

(* A segment of one message.                                               *)
LEMMA SegmentOne ==
  ASSUME NEW l \in Seq(SUBSET Docs), NEW a \in SUBSET Docs, NEW b \in SUBSET Docs,
         NEW m \in Msgs, Step(l, a, m, b), m.type /= "Filter", m.version <= Len(l)
  PROVE  Segment(l, a, <<m>>, b)
  <1>1. Follows(l, a, <<m>>, 1, b)
    BY FollowsOne
  <1>2. <<m>> \in Seq(Msgs) /\ Len(<<m>>) = 1 /\ <<m>>[1] = m
    OBVIOUS
  <1>3. \A i \in 1..1 : i = 1
    OBVIOUS
  <1>4. Versioned(l, <<m>>) /\ Final(l, <<m>>)
    BY <1>2, <1>3, FinalQuiet DEF Versioned
  <1> QED
    BY <1>1, <1>2, <1>4 DEF Segment

(* The empty segment.                                                      *)
LEMMA SegmentNone ==
  ASSUME NEW l \in Seq(SUBSET Docs), NEW a \in SUBSET Docs
  PROVE  Segment(l, a, << >>, a)
  <1> DEFINE e == << >>
  <1>1. e \in Seq(Msgs) /\ Len(e) = 0
    OBVIOUS
  <1> HIDE DEF e
  <1>2. Follows(l, a, e, 1, a)
    <2>1. Follows(l, a, e, Len(e) + 1, a)
      BY <1>1, FollowsEnd
    <2>2. Len(e) + 1 = 1
      BY <1>1
    <2> QED
      BY <2>1, <2>2
  <1>3. Versioned(l, e) /\ Final(l, e)
    BY <1>1 DEF Versioned, Final
  <1> QED
    BY <1>1, <1>2, <1>3 DEF Segment, e

(* The messages of documents that match, or no longer do.                  *)
Gathered(a, in, s) ==
    IF in THEN a \cup {s[j].doc : j \in 1..Len(s)}
    ELSE a \ {s[j].doc : j \in 1..Len(s)}

(* Messages of documents take a to a with them, or without them.           *)
LEMMA GatherEach ==
  ASSUME NEW l, NEW a \in SUBSET Docs, NEW s \in Seq(Msgs), NEW in \in BOOLEAN,
         \A j \in 1..Len(s) : s[j].type = "Doc" /\ s[j].in = in
  PROVE  Follows(l, a, s, 1, Gathered(a, in, s))
  <1> DEFINE n == Len(s)
             of(i) == {s[j].doc : j \in 1..(i - 1)}
             sets == [i \in 1..(n + 1) |-> IF in THEN a \cup of(i) ELSE a \ of(i)]
  <1>1. n \in Nat /\ \A j \in 1..n : s[j] \in Msgs
    OBVIOUS
  <1>2. \A j \in 1..n : s[j].doc \in Docs
    BY <1>1 DEF Msgs
  <1>3. \A i \in 1..(n + 1) : of(i) \in SUBSET Docs
    <2> TAKE i \in 1..(n + 1)
    <2>1. \A j \in 1..(i - 1) : j \in 1..n
      BY <1>1
    <2> QED
      BY <1>2, <2>1
  <1>4. \A i \in 1..n : of(i + 1) = of(i) \cup {s[i].doc}
    <2> TAKE i \in 1..n
    <2>1. (i + 1) - 1 = i /\ i \in 1..i /\ \A j \in 1..(i - 1) : j \in 1..i
      BY <1>1
    <2>2. \A j \in 1..i : j = i \/ j \in 1..(i - 1)
      BY <1>1
    <2> QED
      BY <2>1, <2>2
  <1>5. of(1) = {}
    <2>1. 1..(1 - 1) = {}
      OBVIOUS
    <2> QED
      BY <2>1
  <1>6. of(n + 1) = {s[j].doc : j \in 1..n}
    <2>1. (n + 1) - 1 = n
      BY <1>1
    <2> QED
      BY <2>1
  <1> HIDE DEF of, n
  <1>7. sets \in [1..(n + 1) -> SUBSET Docs]
    BY <1>3
  <1>8. \A i \in 1..(n + 1) : sets[i] = IF in THEN a \cup of(i) ELSE a \ of(i)
    OBVIOUS
  <1>9. sets \in Seq(SUBSET Docs) /\ Len(sets) = n + 1
    BY <1>1, <1>7
  <1> HIDE DEF sets
  <1>10. ASSUME NEW i \in 1..n
         PROVE  /\ Step(l, sets[i], s[i], sets[i + 1])
                /\ s[i].type /= "Filter"
    <2>1. i \in 1..(n + 1) /\ i + 1 \in 1..(n + 1)
      BY <1>1
    <2>2. s[i].type = "Doc" /\ s[i].in = in
      BY DEF n
    <2>3. sets[i + 1] = IF in THEN sets[i] \cup {s[i].doc} ELSE sets[i] \ {s[i].doc}
      BY <1>4, <1>8, <2>1
    <2> QED
      BY <2>2, <2>3 DEF Step, Answers
  <1>11. Path(l, s, 1, sets)
    BY <1>9, <1>10 DEF Path, n
  <1>12. sets[1] = a
    <2>1. 1 \in 1..(n + 1)
      BY <1>1
    <2> QED
      BY <1>5, <1>8, <2>1
  <1>13. sets[n + 1] = Gathered(a, in, s)
    <2>1. n + 1 \in 1..(n + 1)
      BY <1>1
    <2> QED
      BY <1>6, <1>8, <2>1 DEF Gathered, n
  <1> QED
    BY <1>11, <1>12, <1>13 DEF Follows, n

(* The same for the messages of a set of documents.                        *)
LEMMA DocMsgsFact ==
  ASSUME WatchAssumption, NEW l \in Seq(SUBSET Docs), NEW a \in SUBSET Docs,
         NEW ds \in SUBSET Docs, NEW in \in BOOLEAN
  PROVE  Segment(l, a, DocMsgs(ds, in), IF in THEN a \cup ds ELSE a \ ds)
  <1> DEFINE S == {DocMsg(d, in) : d \in ds}
             s == SetToSeq(S)
  <1>1. \A d \in Docs :
          /\ DocMsg(d, in) \in Msgs /\ DocMsg(d, in).type = "Doc"
          /\ DocMsg(d, in).doc = d /\ DocMsg(d, in).in = in
          /\ DocMsg(d, in).version = 0
    <2>1. "Doc" \in MsgTypes /\ 0 \in Nat
      BY DEF MsgTypes
    <2>2. Msg("Doc") \in Msgs /\ Msg("Doc").type = "Doc" /\ Msg("Doc").version = 0
      BY <2>1, MsgFact
    <2> QED
      BY <2>2 DEF DocMsg, Msgs
  <1>2. s = DocMsgs(ds, in)
    BY DEF DocMsgs, DocMsg
  <1>3. IsFiniteSet(S)
    <2>1. IsFiniteSet(ds)
      BY FS_Subset DEF WatchAssumption
    <2> DEFINE f == [d \in ds |-> DocMsg(d, in)]
    <2>2. f \in Surjection(ds, S)
      BY DEF Surjection
    <2> HIDE DEF f, S
    <2> QED
      BY <2>1, <2>2, FS_Surjection
  <1>4. S \subseteq Msgs
    BY <1>1
  <1>5. \A m \in S : m.type = "Doc" /\ m.in = in /\ m.version = 0 /\ m.doc \in ds
    BY <1>1
  <1>6. \A d \in ds : DocMsg(d, in) \in S /\ DocMsg(d, in).doc = d
    BY <1>1
  <1> HIDE DEF S
  <1>7. s \in Seq(S) /\ Len(s) \in Nat /\ ToSet(s) = S
    BY <1>3, Enumeration
  <1> HIDE DEF s
  <1>8. s \in Seq(Msgs)
    BY <1>4, <1>7, SeqMonotonic
  <1>9. \A j \in 1..Len(s) : s[j] \in S
    BY <1>7
  <1>10. {s[j].doc : j \in 1..Len(s)} = ds
    <2>1. \A d \in ds : \E j \in 1..Len(s) : s[j] = DocMsg(d, in)
      BY <1>6, <1>7 DEF ToSet
    <2>2. \A d \in ds : \E j \in 1..Len(s) : s[j].doc = d
      BY <1>6, <2>1
    <2>3. \A j \in 1..Len(s) : s[j].doc \in ds
      BY <1>5, <1>9
    <2> QED
      BY <2>2, <2>3
  <1>11. Follows(l, a, s, 1, Gathered(a, in, s))
    BY <1>5, <1>8, <1>9, GatherEach
  <1>12. Gathered(a, in, s) = IF in THEN a \cup ds ELSE a \ ds
    BY <1>10 DEF Gathered
  <1>13. Versioned(l, s)
    <2>1. Len(l) \in Nat
      OBVIOUS
    <2> QED
      BY <1>5, <1>9, <2>1 DEF Versioned
  <1>f. Final(l, s)
    BY <1>5, <1>9, FinalQuiet
  <1>14. Segment(l, a, s, IF in THEN a \cup ds ELSE a \ ds)
    BY <1>8, <1>11, <1>12, <1>13, <1>f DEF Segment
  <1> QED
    BY <1>2, <1>14

(* The server has the result of every version.                             *)
LogOK == log \in Seq(SUBSET Docs) /\ Len(log) >= 1

(* Members() is the result of the log, and {} before the first version.    *)
LEMMA MembersFact ==
  ASSUME LogOK, NEW v \in 0..Len(log)
  PROVE  Members(v) \in SUBSET Docs /\ Members(v) = Of(log, v)
  <1>1. v /= 0 => v \in 1..Len(log)
    BY DEF LogOK
  <1> QED
    BY <1>1 DEF LogOK, Members, Of

(* Diff() takes the result of one version to that of another.              *)
LEMMA DiffFact ==
  ASSUME WatchAssumption, LogOK, NEW r \in 0..Len(log), NEW v \in 0..Len(log),
         NEW again
  PROVE  Segment(log, Members(r), Diff(r, v, again), Members(v))
  <1> DEFINE a == Members(r)
             b == Members(v)
             come == (b \ a) \cup (b \cap again)
             gone == a \ b
  <1>1. a \in SUBSET Docs /\ b \in SUBSET Docs /\ log \in Seq(SUBSET Docs)
    BY MembersFact DEF LogOK
  <1>2. Diff(r, v, again) = DocMsgs(come, TRUE) \o DocMsgs(gone, FALSE)
    BY DEF Diff
  <1> HIDE DEF a, b
  <1>3. come \in SUBSET Docs /\ gone \in SUBSET Docs /\ a \cup come \in SUBSET Docs
        /\ (a \cup come) \ gone = b
    BY <1>1
  <1> HIDE DEF come, gone
  <1>4. Segment(log, a, DocMsgs(come, TRUE), a \cup come)
    BY <1>1, <1>3, DocMsgsFact
  <1>5. Segment(log, a \cup come, DocMsgs(gone, FALSE), b)
    <2>1. Segment(log, a \cup come, DocMsgs(gone, FALSE), (a \cup come) \ gone)
      BY <1>1, <1>3, DocMsgsFact
    <2> QED
      BY <1>3, <2>1
  <1>6. Segment(log, a, Diff(r, v, again), b)
    BY <1>2, <1>4, <1>5, SegmentCat
  <1> QED
    BY <1>6 DEF a, b

(* Snapshots, and what is current.                                         *)
LEMMA SnapshotFact ==
  ASSUME WatchAssumption, LogOK, NEW v \in 0..Len(log)
  PROVE  Segment(log, Members(v), <<SnapshotMsg(v)>>, Members(v))
  <1> DEFINE m == SnapshotMsg(v)
             a == Members(v)
  <1>1. a \in SUBSET Docs /\ a = Of(log, v) /\ log \in Seq(SUBSET Docs) /\ v \in Nat
    BY MembersFact DEF LogOK
  <1>2. m \in Msgs /\ m.type = "Snapshot" /\ m.version = v
    <2>1. "Added" \in MsgTypes
      BY DEF MsgTypes
    <2> QED
      BY <1>1, <2>1, MsgFact
  <1> HIDE DEF m, a
  <1>3. Step(log, a, m, a) /\ m.type /= "Filter" /\ m.version <= Len(log)
    BY <1>1, <1>2 DEF Step, Answers
  <1>4. Segment(log, a, <<m>>, a)
    BY <1>1, <1>2, <1>3, SegmentOne
  <1> QED
    BY <1>4 DEF m, a

(* A message that the target is current takes nothing away.                *)
LEMMA CurrentFact ==
  ASSUME WatchAssumption, LogOK, NEW a \in SUBSET Docs
  PROVE  Segment(log, a, <<Msg("Current")>>, a)
  <1> DEFINE m == Msg("Current")
  <1>1. m \in Msgs /\ m.type = "Current" /\ m.version = 0
    <2>1. "Current" \in MsgTypes /\ 0 \in Nat
      BY DEF MsgTypes
    <2> QED
      BY <2>1, MsgFact
  <1>2. log \in Seq(SUBSET Docs) /\ Len(log) \in Nat
    BY DEF LogOK
  <1> HIDE DEF m
  <1>3. Step(log, a, m, a) /\ m.type /= "Filter" /\ m.version <= Len(log)
    BY <1>1, <1>2 DEF Step, Answers
  <1>4. Segment(log, a, <<m>>, a)
    BY <1>1, <1>2, <1>3, SegmentOne
  <1> QED
    BY <1>4 DEF m

(* A reset takes everything away.                                          *)
LEMMA ResetFact ==
  ASSUME WatchAssumption, LogOK, NEW a \in SUBSET Docs
  PROVE  Segment(log, a, <<Msg("Reset")>>, {})
  <1> DEFINE m == Msg("Reset")
  <1>1. m \in Msgs /\ m.type = "Reset" /\ m.version = 0
    <2>1. "Reset" \in MsgTypes /\ 0 \in Nat
      BY DEF MsgTypes
    <2> QED
      BY <2>1, MsgFact
  <1>2. log \in Seq(SUBSET Docs) /\ Len(log) \in Nat /\ {} \in SUBSET Docs
    BY DEF LogOK
  <1> HIDE DEF m
  <1>3. Step(log, a, m, {}) /\ m.type /= "Filter" /\ m.version <= Len(log)
    BY <1>1, <1>2 DEF Step, Answers
  <1>4. Segment(log, a, <<m>>, {})
    BY <1>1, <1>2, <1>3, SegmentOne
  <1> QED
    BY <1>4 DEF m

(* Without the removals a filter says how many are left.                   *)
LEMMA CountedFact ==
  ASSUME WatchAssumption, LogOK, NEW r \in 0..Len(log),
         NEW v \in 0..Len(log), v = Len(log)
  PROVE  LET all == Members(r) \cup Members(v) IN
         /\ all \in SUBSET Docs
         /\ Segment(log, Members(r), Counted(r, v), all)
         /\ Segment(log, all, <<FilterMsg(v), SnapshotMsg(v)>>, Members(v))
  <1> DEFINE a == Members(r)
             b == Members(v)
             all == a \cup b
             f == FilterMsg(v)
             m == SnapshotMsg(v)
             ms == <<f, m>>
             sets == <<all, b, b>>
  <1>1. /\ a \in SUBSET Docs /\ b \in SUBSET Docs /\ all \in SUBSET Docs
        /\ b = Of(log, v) /\ log \in Seq(SUBSET Docs) /\ v \in Nat /\ Len(log) \in Nat
    BY MembersFact DEF LogOK
  <1>2. Counted(r, v) = DocMsgs(b \ a, TRUE)
    BY DEF Counted
  <1>3. Cardinality(b) \in Nat
    BY <1>1, FS_Subset, FS_CardinalityType DEF WatchAssumption
  <1>4. f \in Msgs /\ f.type = "Filter" /\ f.count = Cardinality(b) /\ f.version = 0
    <2>1. "Filter" \in MsgTypes /\ 0 \in Nat
      BY DEF MsgTypes
    <2> QED
      BY <1>3, <2>1, MsgFact DEF FilterMsg
  <1>5. m \in Msgs /\ m.type = "Snapshot" /\ m.version = v
    <2>1. "Added" \in MsgTypes
      BY DEF MsgTypes
    <2> QED
      BY <1>1, <2>1, MsgFact
  <1> HIDE DEF a, b, f, m
  <1>6. Segment(log, a, Counted(r, v), all)
    <2>1. b \ a \in SUBSET Docs /\ a \cup (b \ a) = all
      BY <1>1
    <2> HIDE DEF all
    <2>2. Segment(log, a, DocMsgs(b \ a, TRUE), a \cup (b \ a))
      BY <1>1, <2>1, DocMsgsFact
    <2> QED
      BY <1>2, <2>1, <2>2
  <1>7. Step(log, all, f, b) /\ Step(log, b, m, b)
    BY <1>1, <1>4, <1>5 DEF Step, Answers
  <1> HIDE DEF all
  <1>8. ms \in Seq(Msgs) /\ Len(ms) = 2 /\ ms[1] = f /\ ms[2] = m
    BY <1>4, <1>5
  <1>9. /\ sets \in Seq(SUBSET Docs) /\ Len(sets) = 3
        /\ sets[1] = all /\ sets[2] = b /\ sets[3] = b
    BY <1>1
  <1> HIDE DEF ms, sets
  <1>10. (\A i \in 1..2 : i = 1 \/ i = 2) /\ 1 + 1 = 2 /\ 2 + 1 = 3 /\ 1 < 2
    OBVIOUS
  <1>11. Path(log, ms, 1, sets)
    BY <1>4, <1>5, <1>7, <1>8, <1>9, <1>10 DEF Path
  <1>12. Follows(log, all, ms, 1, b)
    BY <1>8, <1>9, <1>10, <1>11 DEF Follows
  <1>13. Versioned(log, ms)
    BY <1>1, <1>4, <1>5, <1>8, <1>10 DEF Versioned
  <1>f. Final(log, ms)
    BY <1>4, <1>5, <1>8, <1>10 DEF Final
  <1>14. Segment(log, all, ms, b)
    BY <1>8, <1>12, <1>13, <1>f DEF Segment
  <1> QED
    BY <1>1, <1>6, <1>14 DEF a, b, all, f, m, ms

-----------------------------------------------------------------------------
(* How far the stream and the client are in step.                          *)

(* From position p on no message is an answer.                             *)
Quiet(ms, p) == \A i \in p..Len(ms) : ms[i].type \notin Answers

(* The documents that match once the collected changes are applied.        *)
With(s, kind) == {d \in Docs : s.changes[d] = kind}
(* Keys once the changes of the state have been applied.                   *)
Collected(ks, s) == (ks \cup With(s, "added")) \ With(s, "removed")
(* What was collected as added is not there yet, what was collected as     *)
(* removed is.                                                             *)
Tidy(ks, s) == \A d \in Docs : /\ s.changes[d] = "added" => d \notin ks
                               /\ s.changes[d] = "removed" => d \in ks

(* From position p on the messages take a to what the server has sent.     *)
Sent(l, v, a, ms, p) ==
    v /= 0 /\ p \in 1..(Len(ms) + 1) /\ Follows(l, a, ms, p, Of(l, v))

(* Every response has been handled.                                        *)
InStep(l, v, ks, s, rst, ms) ==
    /\ Tidy(ks, s)
    /\ IF rst THEN Collected(ks, s) = {} ELSE Sent(l, v, Collected(ks, s), ms, 1)

(* The request has not reached the server.                                 *)
Asked(l, ks, us) == LET u == us[Len(us)] IN u.type = "Watch" /\ Of(l, u.token) = ks

(* It has: the response is the last one of the stream, or was handled      *)
(* while more responses were expected than will come.                      *)
Rejected(ms) == \E p \in 1..Len(ms) : ms[p].type = "Error" /\ Quiet(ms, p + 1)
(* The answer is on its way, and after it the messages that take the keys  *)
(* to the result the server serves.                                        *)
Accepted(l, v, ks, ms) ==
    \E p \in 1..Len(ms) : ms[p].type = "Added" /\ Sent(l, v, ks, ms, p + 1)
(* The response was handled early, or is a rejection, or is on its way.    *)
Answered(l, v, ks, ms) == Quiet(ms, 1) \/ Rejected(ms) \/ Accepted(l, v, ks, ms)

(* Messages without the first.                                             *)
LEMMA TailFact ==
  ASSUME NEW ms \in Seq(Msgs), ms /= << >>
  PROVE  /\ Len(ms) \in Nat /\ Len(ms) >= 1 /\ Head(ms) = ms[1] /\ Head(ms) \in Msgs
         /\ Tail(ms) \in Seq(Msgs) /\ Len(Tail(ms)) = Len(ms) - 1
         /\ \A i \in 1..Len(Tail(ms)) : Tail(ms)[i] = ms[i + 1]
  OBVIOUS

(* Positions shift by one when the first message is taken.                 *)
LEMMA QuietTail ==
  ASSUME NEW ms \in Seq(Msgs), ms /= << >>, NEW p \in Nat, p >= 1, Quiet(ms, p + 1)
  PROVE  Quiet(Tail(ms), p)
  <1> DEFINE t == Tail(ms)
  <1>1. /\ Len(ms) \in Nat /\ Len(ms) >= 1 /\ Len(t) = Len(ms) - 1
        /\ \A i \in 1..Len(t) : t[i] = ms[i + 1]
    BY TailFact
  <1> HIDE DEF t
  <1>2. ASSUME NEW i \in p..Len(t) PROVE t[i].type \notin Answers
    <2>1. i \in 1..Len(t) /\ i + 1 \in (p + 1)..Len(ms)
      BY <1>1
    <2> QED
      BY <1>1, <2>1 DEF Quiet
  <1> QED
    BY <1>2 DEF Quiet, t

(* What is sent after an answer is no answer.                              *)
LEMMA FollowsQuietly ==
  ASSUME NEW l, NEW a, NEW b, NEW ms \in Seq(Msgs), NEW p \in Nat,
         Follows(l, a, ms, p, b)
  PROVE  Quiet(ms, p)
  BY DEF Follows, Path, Step, Quiet

(* The same for what was sent.                                             *)
LEMMA SentTail ==
  ASSUME NEW l, NEW v, NEW a, NEW ms \in Seq(Msgs), ms /= << >>, NEW p \in Nat,
         p >= 1, Sent(l, v, a, ms, p + 1)
  PROVE  Sent(l, v, a, Tail(ms), p)
  <1>1. Len(ms) \in Nat /\ Len(ms) >= 1 /\ Len(Tail(ms)) = Len(ms) - 1
    BY TailFact
  <1>2. p + 1 \in 2..(Len(ms) + 1) /\ p \in 1..(Len(Tail(ms)) + 1) /\ (p + 1) - 1 = p
    BY <1>1 DEF Sent
  <1>3. Follows(l, a, ms, p + 1, Of(l, v)) /\ v /= 0
    BY DEF Sent
  <1>4. Follows(l, a, Tail(ms), (p + 1) - 1, Of(l, v))
    BY <1>2, <1>3, FollowsShift
  <1> QED
    BY <1>2, <1>3, <1>4 DEF Sent

(* A message is handled while responses are outstanding.                   *)
LEMMA AnsweredTail ==
  ASSUME NEW l, NEW v, NEW ks, NEW ms \in Seq(Msgs), ms /= << >>,
         Answered(l, v, ks, ms)
  PROVE  Answered(l, v, ks, Tail(ms))
  <1> DEFINE t == Tail(ms)
  <1>1. /\ Len(ms) \in Nat /\ Len(ms) >= 1 /\ Len(t) = Len(ms) - 1
        /\ \A i \in 1..Len(t) : t[i] = ms[i + 1]
    BY TailFact
  <1>q. ASSUME NEW p \in 1..Len(ms), Quiet(ms, p + 1) PROVE Quiet(t, p)
    BY <1>q, QuietTail
  <1>2. ASSUME Quiet(ms, 1) PROVE Quiet(t, 1)
    <2>1. Quiet(ms, 1 + 1)
      BY <1>1, <1>2 DEF Quiet
    <2>2. 1 \in 1..Len(ms)
      BY <1>1
    <2> QED
      BY <1>q, <2>1, <2>2
  <1>3. ASSUME NEW p \in 1..Len(ms), ms[p].type = "Error", Quiet(ms, p + 1)
        PROVE  Answered(l, v, ks, t)
    <2>1. Quiet(t, p)
      BY <1>3, <1>q
    <2>2. CASE p = 1
      BY <2>1, <2>2 DEF Answered
    <2>3. CASE p /= 1
      <3> DEFINE q == p - 1
      <3>1. q \in 1..Len(t) /\ q + 1 = p
        BY <1>1, <2>3
      <3> HIDE DEF q, t
      <3>2. t[q].type = "Error" /\ Quiet(t, q + 1)
        BY <1>1, <1>3, <2>1, <3>1
      <3> QED
        BY <3>1, <3>2 DEF Answered, Rejected
    <2> QED
      BY <2>2, <2>3
  <1>4. ASSUME NEW p \in 1..Len(ms), ms[p].type = "Added", Sent(l, v, ks, ms, p + 1)
        PROVE  Answered(l, v, ks, t)
    <2>1. Sent(l, v, ks, t, p)
      BY <1>4, SentTail
    <2>2. CASE p = 1
      <3>1. Quiet(t, 1)
        <4>1. Follows(l, ks, t, 1, Of(l, v)) /\ t \in Seq(Msgs)
          BY <2>1, <2>2, TailFact DEF Sent
        <4> QED
          BY <4>1, FollowsQuietly
      <3> QED
        BY <3>1 DEF Answered
    <2>3. CASE p /= 1
      <3> DEFINE q == p - 1
      <3>1. q \in 1..Len(t) /\ q + 1 = p
        BY <1>1, <2>3
      <3> HIDE DEF q, t
      <3>2. t[q].type = "Added" /\ Sent(l, v, ks, t, q + 1)
        BY <1>1, <1>4, <2>1, <3>1
      <3> QED
        BY <3>1, <3>2 DEF Answered, Accepted
    <2> QED
      BY <2>2, <2>3
  <1> HIDE DEF t
  <1>5. Answered(l, v, ks, t)
    BY <1>2, <1>3, <1>4 DEF Answered, Rejected, Accepted
  <1> QED
    BY <1>5 DEF t

(* The last response is handled: it is the one of the listen.              *)
LEMMA LastAnswer ==
  ASSUME NEW l, NEW v, NEW ks, NEW ms \in Seq(Msgs), ms /= << >>,
         Head(ms).type \in {"Added", "Removed"}, Load(ms, 1), Answered(l, v, ks, ms)
  PROVE  Head(ms).type = "Added" /\ Sent(l, v, ks, Tail(ms), 1)
  <1> DEFINE t == Tail(ms)
  <1>1. /\ Len(ms) \in Nat /\ Len(ms) >= 1 /\ Len(t) = Len(ms) - 1 /\ t \in Seq(Msgs)
        /\ \A i \in 1..Len(t) : t[i] = ms[i + 1]
        /\ Head(ms) = ms[1]
    BY TailFact
  <1>2. Weight(Head(ms)) = 1 /\ 1 - 1 = 0 /\ Head(ms).type \in Answers
    BY DEF Weight, Answers
  <1>3. Load(t, 0)
    BY <1>2, LoadTail
  <1> HIDE DEF t
  <1>4. \A i \in 1..Len(t) : t[i].type \notin Answers
    BY <1>1, <1>3, LoadZero
  <1>5. ASSUME NEW p \in 1..Len(ms), ms[p].type \in Answers PROVE p = 1
    <2> SUFFICES ASSUME p /= 1 PROVE FALSE
      OBVIOUS
    <2>1. p - 1 \in 1..Len(t) /\ (p - 1) + 1 = p
      BY <1>1
    <2> QED
      BY <1>1, <1>4, <1>5, <2>1
  <1>6. "Error" \in Answers /\ "Added" \in Answers /\ 1 \in 1..Len(ms) /\ Head(ms).type /= "Error"
    BY <1>1 DEF Answers
  <1>7. ~Quiet(ms, 1)
    BY <1>1, <1>2, <1>6 DEF Quiet
  <1>8. ~Rejected(ms)
    BY <1>1, <1>5, <1>6 DEF Rejected
  <1>9. Accepted(l, v, ks, ms)
    BY <1>7, <1>8 DEF Answered
  <1>10. PICK p \in 1..Len(ms) : ms[p].type = "Added" /\ Sent(l, v, ks, ms, p + 1)
    BY <1>9 DEF Accepted
  <1>11. p = 1
    BY <1>5, <1>6, <1>10
  <1>12. Sent(l, v, ks, t, 1)
    BY <1>10, <1>11, SentTail DEF t
  <1> QED
    BY <1>1, <1>10, <1>11, <1>12 DEF t

(* The server sends more.                                                  *)
LEMMA CatFact ==
  ASSUME NEW ms \in Seq(Msgs), NEW ts \in Seq(Msgs)
  PROVE  /\ ms \o ts \in Seq(Msgs) /\ Len(ms) \in Nat /\ Len(ts) \in Nat
         /\ Len(ms \o ts) = Len(ms) + Len(ts)
         /\ \A i \in 1..Len(ms) : (ms \o ts)[i] = ms[i]
         /\ \A i \in 1..Len(ts) : (ms \o ts)[Len(ms) + i] = ts[i]
  OBVIOUS

(* Quiet messages after quiet ones.                                        *)
LEMMA QuietCat ==
  ASSUME NEW ms \in Seq(Msgs), NEW ts \in Seq(Msgs), NEW p \in Nat, p >= 1,
         Quiet(ms, p), Quiet(ts, 1)
  PROVE  Quiet(ms \o ts, p)
  <1> DEFINE r == ms \o ts
             m == Len(ms)
             n == Len(ts)
  <1>1. /\ m \in Nat /\ n \in Nat /\ Len(r) = m + n
        /\ \A i \in 1..m : r[i] = ms[i]
        /\ \A i \in 1..n : r[m + i] = ts[i]
    BY CatFact
  <1>2. /\ \A i \in p..m : ms[i].type \notin Answers
        /\ \A i \in 1..n : ts[i].type \notin Answers
    BY DEF Quiet
  <1> HIDE DEF r, m, n
  <1>3. ASSUME NEW i \in p..(m + n) PROVE r[i].type \notin Answers
    <2>1. CASE i <= m
      <3>1. i \in p..m /\ i \in 1..m
        BY <1>1, <2>1
      <3> QED
        BY <1>1, <1>2, <3>1
    <2>2. CASE ~(i <= m)
      <3>1. i - m \in 1..n /\ m + (i - m) = i
        BY <1>1, <2>2
      <3> QED
        BY <1>1, <1>2, <3>1
    <2> QED
      BY <2>1, <2>2
  <1> QED
    BY <1>1, <1>3 DEF Quiet, r

(* More that takes one result to the next is sent.                         *)
LEMMA SentCat ==
  ASSUME NEW l, NEW v, NEW w, w /= 0, NEW a, NEW ms \in Seq(Msgs), NEW ts, NEW p,
         Sent(l, v, a, ms, p), Segment(l, Of(l, v), ts, Of(l, w))
  PROVE  Sent(l, w, a, ms \o ts, p)
  <1>1. ts \in Seq(Msgs) /\ Follows(l, Of(l, v), ts, 1, Of(l, w))
    BY DEF Segment
  <1>2. p \in 1..(Len(ms) + 1) /\ Follows(l, a, ms, p, Of(l, v))
    BY DEF Sent
  <1>3. Follows(l, a, ms \o ts, p, Of(l, w))
    BY <1>1, <1>2, FollowsCat
  <1>4. p \in 1..(Len(ms \o ts) + 1)
    <2>1. Len(ms \o ts) = Len(ms) + Len(ts) /\ Len(ms) \in Nat /\ Len(ts) \in Nat
      BY <1>1, CatFact
    <2> QED
      BY <1>2, <2>1
  <1> QED
    BY <1>3, <1>4 DEF Sent

(* More is sent after an answer.                                           *)
LEMMA AnsweredCat ==
  ASSUME NEW l, NEW v, NEW w, NEW ks, NEW ms \in Seq(Msgs), NEW ts \in Seq(Msgs),
         Answered(l, v, ks, ms), Quiet(ts, 1),
         \A p : Sent(l, v, ks, ms, p) => Sent(l, w, ks, ms \o ts, p)
  PROVE  Answered(l, w, ks, ms \o ts)
  <1> DEFINE r == ms \o ts
  <1>1. /\ Len(ms) \in Nat /\ Len(ts) \in Nat /\ Len(r) = Len(ms) + Len(ts)
        /\ \A i \in 1..Len(ms) : r[i] = ms[i]
    BY CatFact
  <1>2. \A p \in 1..Len(ms) : p \in 1..Len(r) /\ p + 1 \in Nat /\ p + 1 >= 1
    BY <1>1
  <1>3. \A p \in 1..Len(ms) : Quiet(ms, p + 1) => Quiet(r, p + 1)
    BY <1>2, QuietCat
  <1>4. Quiet(ms, 1) => Quiet(r, 1)
    BY QuietCat
  <1>5. \A p \in 1..Len(ms) : Sent(l, v, ks, ms, p + 1) => Sent(l, w, ks, r, p + 1)
    OBVIOUS
  <1> HIDE DEF r
  <1>6. Rejected(ms) => Rejected(r)
    BY <1>1, <1>2, <1>3 DEF Rejected
  <1>7. Accepted(l, v, ks, ms) => Accepted(l, w, ks, r)
    BY <1>1, <1>2, <1>5 DEF Accepted
  <1>8. Answered(l, w, ks, r)
    BY <1>4, <1>6, <1>7 DEF Answered
  <1> QED
    BY <1>8 DEF r

(* The request of the listen is rejected, or answered.                     *)
LEMMA AnswersWatch ==
  ASSUME NEW l, NEW v, NEW ks \in SUBSET Docs, v /= 0, NEW ms \in Seq(Msgs),
         NEW ts \in Seq(Msgs), NEW m \in Msgs, m.type = "Added",
         Segment(l, ks, ts, Of(l, v))
  PROVE  Answered(l, v, ks, (ms \o <<m>>) \o ts)
  <1> DEFINE h == ms \o <<m>>
             n == Len(h)
             r == h \o ts
  <1>1. h \in Seq(Msgs) /\ n \in Nat /\ n >= 1 /\ h[n] = m
    OBVIOUS
  <1>2. Follows(l, ks, h, n + 1, ks)
    BY <1>1, FollowsEnd
  <1>3. Follows(l, ks, ts, 1, Of(l, v))
    BY DEF Segment
  <1> HIDE DEF h
  <1>4. n + 1 \in 1..(Len(h) + 1) /\ n \in 1..Len(h)
    BY <1>1
  <1>5. Follows(l, ks, r, n + 1, Of(l, v))
    BY <1>1, <1>2, <1>3, <1>4, FollowsCat
  <1>6. Len(r) = n + Len(ts) /\ Len(ts) \in Nat /\ r[n] = h[n]
    BY <1>1, <1>4, CatFact
  <1> HIDE DEF r, n
  <1>7. n \in 1..Len(r) /\ n + 1 \in 1..(Len(r) + 1)
    BY <1>1, <1>6
  <1>8. Sent(l, v, ks, r, n + 1)
    BY <1>5, <1>7 DEF Sent
  <1>9. Answered(l, v, ks, r)
    BY <1>1, <1>6, <1>7, <1>8 DEF Answered, Accepted
  <1> QED
    BY <1>9 DEF r, h

(* A rejection is an answer.                                               *)
LEMMA RejectsWatch ==
  ASSUME NEW l, NEW v, NEW ks, NEW ms \in Seq(Msgs), NEW m \in Msgs, m.type = "Error"
  PROVE  Answered(l, v, ks, Append(ms, m))
  <1> DEFINE r == Append(ms, m)
             n == Len(r)
  <1>1. n \in 1..Len(r) /\ r[n] = m /\ \A i \in (n + 1)..Len(r) : FALSE
    OBVIOUS
  <1> HIDE DEF r, n
  <1> QED
    BY <1>1 DEF Answered, Rejected, Quiet, r

(* The server's result changes.                                            *)
LEMMA SentLog ==
  ASSUME NEW l, NEW k, NEW v, NEW a, NEW ms \in Seq(Msgs), NEW p, Of(k, v) = Of(l, v),
         \A i \in 1..Len(ms) : Of(k, ms[i].version) = Of(l, ms[i].version),
         Sent(l, v, a, ms, p)
  PROVE  Sent(k, v, a, ms, p)
  <1>1. p \in 1..(Len(ms) + 1) /\ Follows(l, a, ms, p, Of(l, v))
    BY DEF Sent
  <1>2. Follows(k, a, ms, p, Of(k, v))
    BY <1>1, FollowsLog
  <1> QED
    BY <1>1, <1>2 DEF Sent

(* The first message is a step, and what is left follows from there.       *)
LEMMA SentHead ==
  ASSUME NEW l, NEW v, NEW a, NEW ms \in Seq(Msgs), ms /= << >>, Sent(l, v, a, ms, 1)
  PROVE  \E c \in SUBSET Docs :
            /\ Step(l, a, Head(ms), c)
            /\ Head(ms).type = "Filter" =>
                 Tail(ms) /= << >> /\ Head(Tail(ms)).type = "Snapshot"
            /\ Sent(l, v, c, Tail(ms), 1)
  <1>1. Follows(l, a, ms, 1, Of(l, v)) /\ v /= 0
    BY DEF Sent
  <1>2. Len(Tail(ms)) \in Nat /\ 1 \in 1..(Len(Tail(ms)) + 1)
    <2>1. Tail(ms) \in Seq(Msgs)
      BY TailFact
    <2>2. Len(Tail(ms)) \in Nat
      BY <2>1
    <2> QED
      BY <2>2
  <1>3. PICK c \in SUBSET Docs :
            /\ Step(l, a, Head(ms), c)
            /\ Head(ms).type = "Filter" =>
                 Tail(ms) /= << >> /\ Head(Tail(ms)).type = "Snapshot"
            /\ Follows(l, c, Tail(ms), 1, Of(l, v))
    BY <1>1, FollowsHead
  <1>4. Sent(l, v, c, Tail(ms), 1)
    BY <1>1, <1>2, <1>3 DEF Sent
  <1> QED
    BY <1>3, <1>4

(* The aggregator's count of the documents is the number of documents.     *)
LEMMA FilterFact ==
  ASSUME WatchAssumption, NEW ks \in SUBSET Docs, NEW s, Tidy(ks, s)
  PROVE  /\ Cardinality(ks) + Cardinality(With(s, "added"))
              - Cardinality(With(s, "removed")) = Cardinality(Collected(ks, s))
         /\ \A c \in SUBSET Collected(ks, s) :
              Cardinality(c) = Cardinality(Collected(ks, s)) => c = Collected(ks, s)
  <1> DEFINE a == With(s, "added")
             r == With(s, "removed")
             all == ks \cup a
  <1>1. a \subseteq Docs /\ r \subseteq Docs /\ ks \cap a = {} /\ all \cap r = r
    BY DEF Tidy, With
  <1>2. Collected(ks, s) = all \ r
    BY DEF Collected
  <1> HIDE DEF a, r
  <1>3. IsFiniteSet(ks) /\ IsFiniteSet(a) /\ IsFiniteSet(r)
    BY <1>1, FS_Subset DEF WatchAssumption
  <1>4. IsFiniteSet(all) /\ Cardinality(all) = Cardinality(ks) + Cardinality(a) - Cardinality({})
    BY <1>1, <1>3, FS_Union
  <1>5. Cardinality({}) = 0
    BY FS_EmptySet
  <1>6. /\ Cardinality(ks) \in Nat /\ Cardinality(a) \in Nat /\ Cardinality(r) \in Nat
    BY <1>3, FS_CardinalityType
  <1>7. IsFiniteSet(all \ r) /\ Cardinality(all \ r) = Cardinality(all) - Cardinality(r)
    BY <1>1, <1>4, FS_Difference
  <1>8. Cardinality(ks) + Cardinality(a) - Cardinality(r) = Cardinality(all \ r)
    BY <1>4, <1>5, <1>6, <1>7
  <1>9. \A c \in SUBSET (all \ r) : Cardinality(c) = Cardinality(all \ r) => c = all \ r
    BY <1>7, FS_Subset
  <1> HIDE DEF all
  <1> QED
    BY <1>2, <1>8, <1>9 DEF a, r

-----------------------------------------------------------------------------
(* The invariant.                                                          *)

(* Types of a change of a document, and of a target's state.               *)
Kinds == {"none", "added", "modified", "removed"}
(* The state of a target; the number of responses it waits for may be      *)
(* negative.                                                               *)
States == [outstanding : Int, current : BOOLEAN, token : Nat, changes : [Docs -> Kinds]]

(* No request has a token of a version that is yet to come.                *)
Bounded(l, us) == \A i \in 1..Len(us) : us[i].token <= Len(l)

(* Types of the flags.                                                     *)
Flags ==
    /\ listening \in BOOLEAN /\ current \in BOOLEAN /\ open \in BOOLEAN
    /\ reset \in BOOLEAN /\ slipped \in BOOLEAN
(* Types of the keys and tokens: none is ahead of the server.              *)
Tokens ==
    /\ LogOK /\ keys \in SUBSET Docs
    /\ saved \in 0..Len(log) /\ resume \in 0..Len(log) /\ held \in 0..Len(log)
    /\ lastRemote \in 0..Len(log) /\ serving \in 0..Len(log)
(* Types of the stream: nothing is on its way when it is closed.           *)
Stream ==
    /\ state \in States /\ state.token <= Len(log)
    /\ up \in Seq(Requests) /\ Bounded(log, up)
    /\ down \in Seq(Msgs) /\ Versioned(log, down)
    /\ ~open => up = << >> /\ down = << >> /\ state = NewState
(* Types of all variables.                                                 *)
Types == Flags /\ Tokens /\ Stream

(* The keys are those of the token; the aggregator waits for at least the  *)
(* responses that are still to come; a reset waits for the next snapshot.  *)
Owed(n, us, ms) == \E k : Load(ms, k) /\ n >= k + Len(us)
(* The next message is a snapshot.                                         *)
Pending(ms) == ms /= << >> /\ Head(ms).type = "Snapshot"
(* Whom to ask where the target stands: the client once everything is      *)
(* answered, the request while it is on its way, and the messages after    *)
(* that.                                                                   *)
Agrees(l, v, ks, s, rst, us, ms) ==
    /\ s.outstanding = 0 => InStep(l, v, ks, s, rst, ms)
    /\ s.outstanding /= 0 /\ us /= << >> => Asked(l, ks, us)
    /\ s.outstanding /= 0 /\ us = << >> => Answered(l, v, ks, ms)

(* The keys are the result at the token in memory and on disk.             *)
Kept(l, ks) == ks = Of(l, resume) /\ ks = Of(l, saved)

(* What holds until an answer is taken for that of another listen.         *)
Claims ==
    ~slipped =>
      /\ Kept(log, keys)
      /\ listening => held = resume
      /\ Owed(state.outstanding, up, down)
      /\ reset => Pending(down)
      /\ listening /\ open => Agrees(log, serving, keys, state, reset, up, down)

(* The inductive invariant, but for what is raised of the snapshots.       *)
Inv == Types /\ Claims

(* Message j is a snapshot that will be raised: none before it, and none   *)
(* raised already, is of a later version.                                  *)
Raisable(last, ms, j) ==
    /\ j \in 1..Len(ms) /\ ms[j].type = "Snapshot" /\ last <= ms[j].version
    /\ \A k \in 1..j : ms[k].version <= ms[j].version
(* What a reset waits for, and the one after every filter, is such a       *)
(* snapshot.                                                               *)
Fresh(last, rst, ms) ==
    /\ rst => Raisable(last, ms, 1)
    /\ \A i \in 1..Len(ms) : ms[i].type = "Filter" => Raisable(last, ms, i + 1)
(* The snapshot that asks again after a mismatch is never skipped.         *)
Ready == Fresh(lastRemote, reset, down)

(* A new state waits for nothing.                                          *)
LEMMA NewStateFact == NewState \in States /\ NewState.outstanding = 0 /\ NewState.token = 0
  BY DEF NewState, States, Kinds

(* A new version leaves the old ones alone.                                *)
LEMMA OfAppend ==
  ASSUME NEW l \in Seq(SUBSET Docs), NEW m, NEW v \in 0..Len(l)
  PROVE  Of(Append(l, m), v) = Of(l, v)
  <1>1. v /= 0 => v \in 1..Len(l)
    OBVIOUS
  <1> QED
    BY <1>1 DEF Of

(* At first nothing is kept, and the token is that of the empty result.    *)
LEMMA InvInit ==
  ASSUME WatchAssumption, Init
  PROVE  Inv
  <1>1. PICK m \in SUBSET Docs : log = <<m>>
    BY DEF Init
  <1>2. log \in Seq(SUBSET Docs) /\ Len(log) = 1
    BY <1>1
  <1>3. << >> \in Seq(Requests) /\ << >> \in Seq(Msgs) /\ Len(<< >>) = 0
    OBVIOUS
  <1>4. Types
    <2>1. Versioned(log, << >>) /\ Bounded(log, << >>)
      BY <1>3 DEF Versioned, Bounded
    <2>2. Len(log) \in Nat /\ 0 \in 0..Len(log) /\ Len(log) >= 1
      BY <1>2
    <2>3. /\ listening = FALSE /\ keys = {} /\ current = FALSE
          /\ saved = 0 /\ resume = 0 /\ held = 0 /\ lastRemote = 0 /\ serving = 0
          /\ open = FALSE /\ state = NewState /\ reset = FALSE /\ slipped = FALSE
          /\ up = << >> /\ down = << >>
      BY DEF Init
    <2>4. NewState \in States /\ NewState.token <= Len(log)
      BY <2>2, NewStateFact
    <2>5. LogOK
      BY <1>2, <2>2 DEF LogOK
    <2> QED
      BY <1>3, <2>1, <2>2, <2>3, <2>4, <2>5 DEF Types, Flags, Tokens, Stream
  <1>5. Load(down, 0)
    <2>1. down \in Seq(Msgs) /\ \A i \in 1..Len(down) : down[i].type \notin Answers
      BY <1>3 DEF Init
    <2> QED
      BY <2>1, LoadNone
  <1>6. Owed(0, << >>, down)
    BY <1>3, <1>5 DEF Owed
  <1>7. Claims
    BY <1>6, NewStateFact DEF Init, Claims, Kept, Of
  <1> QED
    BY <1>4, <1>7 DEF Inv

-----------------------------------------------------------------------------
(* The requests of the client.                                             *)

(* One more request.                                                       *)
LEMMA Requested ==
  ASSUME NEW us \in Seq(Requests), NEW l, Bounded(l, us), NEW r \in Requests,
         r.token <= Len(l)
  PROVE  /\ Append(us, r) \in Seq(Requests) /\ Bounded(l, Append(us, r))
         /\ Len(Append(us, r)) = Len(us) + 1 /\ Len(us) \in Nat
         /\ Append(us, r) /= << >>
         /\ Append(us, r)[Len(Append(us, r))] = r
  <1> DEFINE a == Append(us, r)
             n == Len(us)
  <1>1. /\ a \in Seq(Requests) /\ Len(a) = n + 1 /\ n \in Nat
        /\ a /= << >> /\ a[n + 1] = r /\ \A i \in 1..n : a[i] = us[i]
    OBVIOUS
  <1>2. \A i \in 1..n : us[i].token <= Len(l)
    BY DEF Bounded
  <1> HIDE DEF a, n
  <1>3. \A i \in 1..(n + 1) : i \in 1..n \/ i = n + 1
    BY <1>1
  <1>4. Bounded(l, a)
    BY <1>1, <1>2, <1>3 DEF Bounded
  <1>5. a \in Seq(Requests) /\ Bounded(l, a) /\ Len(a) = n + 1 /\ n \in Nat
        /\ a /= << >> /\ a[Len(a)] = r
    BY <1>1, <1>4
  <1> QED
    BY <1>5 DEF a, n

(* Recorded() only counts.                                                 *)
LEMMA RecordedFact ==
  ASSUME NEW s \in States, NEW n \in Int
  PROVE  /\ Recorded(s, n) \in States /\ Recorded(s, n).outstanding = s.outstanding + n
         /\ Recorded(s, n).token = s.token /\ Recorded(s, n).changes = s.changes
  BY DEF Recorded, States

(* Requests have their types.                                              *)
LEMMA RequestFact ==
  ASSUME NEW v \in Nat
  PROVE  /\ Watch(v) \in Requests /\ Watch(v).type = "Watch" /\ Watch(v).token = v
         /\ Unwatch \in Requests /\ Unwatch.type = "Unwatch" /\ Unwatch.token = 0
  BY DEF Watch, Unwatch, Requests

(* A listen is sent with the token of the keys.                            *)
LEMMA ListenKeeps ==
  ASSUME WatchAssumption, Inv, Listen
  PROVE  Inv'
  <1>1. Types /\ Claims
    BY DEF Inv
  <1>2. /\ Len(log) \in Nat /\ 0 <= Len(log) /\ resume \in Nat /\ resume <= Len(log)
        /\ state \in States /\ state.outstanding \in Int /\ down \in Seq(Msgs)
    <2>1. Len(log) \in Nat
      BY <1>1 DEF Types, Tokens, LogOK
    <2> QED
      BY <1>1, <2>1 DEF Types, Tokens, Stream, States
  <1>3. /\ Watch(resume) \in Requests /\ Watch(resume).type = "Watch"
        /\ Watch(resume).token = resume
    BY <1>2, RequestFact
  <1> DEFINE us == Append(up, Watch(resume))
  <1>4. /\ us \in Seq(Requests) /\ Bounded(log, us)
        /\ Len(us) = Len(up) + 1 /\ Len(up) \in Nat /\ us /= << >>
        /\ us[Len(us)] = Watch(resume)
    <2>1. up \in Seq(Requests) /\ Bounded(log, up)
      BY <1>1 DEF Types, Stream
    <2> QED
      BY <1>2, <1>3, <2>1, Requested
  <1>5. /\ Recorded(state, 1) \in States
        /\ Recorded(state, 1).outstanding = state.outstanding + 1
        /\ Recorded(state, 1).token = state.token
    BY <1>2, RecordedFact
  <1>6. /\ listening' = TRUE /\ held' = resume /\ ~listening
        /\ open => state' = Recorded(state, 1) /\ up' = us
        /\ ~open => UNCHANGED <<state, up>>
        /\ UNCHANGED <<keys, saved, resume, lastRemote, current, open, reset, down, log,
                       serving, slipped>>
    BY DEF Listen
  <1> HIDE DEF us
  <1>7. Types'
    <2>1. Tokens'
      BY <1>1, <1>6 DEF Types, Tokens, LogOK
    <2>2. Flags'
      BY <1>1, <1>6 DEF Types, Flags
    <2>3. Stream'
      BY <1>1, <1>4, <1>5, <1>6 DEF Types, Stream
    <2> QED
      BY <2>1, <2>2, <2>3 DEF Types
  <1>8. Claims'
    <2> SUFFICES ASSUME ~slipped'
                 PROVE  /\ Kept(log, keys)'
                        /\ (listening => held = resume)'
                        /\ Owed(state.outstanding, up, down)'
                        /\ (reset => Pending(down))'
                        /\ (listening /\ open =>
                              Agrees(log, serving, keys, state, reset, up, down))'
      BY DEF Claims
    <2>1. /\ Kept(log, keys) /\ (reset => Pending(down)) /\ open \in BOOLEAN
          /\ Owed(state.outstanding, up, down)
      BY <1>1, <1>6 DEF Claims, Types, Flags
    <2>2. Kept(log, keys)' /\ (reset => Pending(down))' /\ (listening => held = resume)'
      BY <1>6, <2>1 DEF Kept
    <2>3. PICK k : Load(down, k) /\ state.outstanding >= k + Len(up)
      BY <2>1 DEF Owed
    <2>4. k \in Nat
      BY <1>2, <2>3, LoadNat
    <2>5. CASE open
      <3>1. state'.outstanding >= k + Len(up') /\ state'.outstanding > 0
        <4>1. /\ state'.outstanding = state.outstanding + 1
              /\ Len(up') = Len(up) + 1
          BY <1>4, <1>5, <1>6, <2>5
        <4>2. /\ state.outstanding \in Int /\ Len(up) \in Nat
              /\ state.outstanding >= k + Len(up)
          BY <1>2, <1>4, <2>3
        <4> QED
          BY <2>4, <4>1, <4>2
      <3>2. Owed(state.outstanding, up, down)'
        BY <1>6, <2>3, <3>1 DEF Owed
      <3>3. Asked(log, keys, us)
        BY <1>3, <1>4, <2>1 DEF Asked, Kept
      <3>4. Agrees(log, serving, keys, state, reset, up, down)'
        BY <1>4, <1>6, <2>5, <3>1, <3>3 DEF Agrees
      <3> QED
        BY <2>2, <3>2, <3>4
    <2>6. CASE ~open
      BY <1>6, <2>1, <2>2, <2>6
    <2> QED
      BY <2>1, <2>5, <2>6
  <1> QED
    BY <1>7, <1>8 DEF Inv

(* The types, with the lengths of what is on its way.                      *)
LEMMA Basics ==
  ASSUME Types
  PROVE  /\ LogOK /\ log \in Seq(SUBSET Docs) /\ Len(log) \in Nat /\ Len(log) >= 1
         /\ keys \in SUBSET Docs
         /\ resume \in Nat /\ resume <= Len(log) /\ saved \in Nat /\ saved <= Len(log)
         /\ held \in Nat /\ held <= Len(log) /\ serving \in Nat /\ serving <= Len(log)
         /\ lastRemote \in Nat /\ lastRemote <= Len(log)
         /\ state \in States /\ state.outstanding \in Int
         /\ up \in Seq(Requests) /\ Bounded(log, up) /\ Len(up) \in Nat
         /\ down \in Seq(Msgs) /\ Versioned(log, down)
  <1>1. LogOK /\ log \in Seq(SUBSET Docs) /\ Len(log) \in Nat /\ Len(log) >= 1
    BY DEF Types, Tokens, LogOK
  <1>2. /\ keys \in SUBSET Docs
        /\ resume \in Nat /\ resume <= Len(log) /\ saved \in Nat /\ saved <= Len(log)
        /\ held \in Nat /\ held <= Len(log) /\ serving \in Nat /\ serving <= Len(log)
        /\ lastRemote \in Nat /\ lastRemote <= Len(log)
    BY <1>1 DEF Types, Tokens
  <1>3. /\ state \in States /\ up \in Seq(Requests) /\ Bounded(log, up)
        /\ down \in Seq(Msgs) /\ Versioned(log, down)
    BY DEF Types, Stream
  <1>4. state.outstanding \in Int /\ Len(up) \in Nat
    BY <1>3 DEF States
  <1> QED
    BY <1>1, <1>2, <1>3, <1>4

(* After the end of a listen the stream owes one more answer.              *)
LEMMA StopKeeps ==
  ASSUME WatchAssumption, Inv, StopListening
  PROVE  Inv'
  <1>1. Types /\ Claims
    BY DEF Inv
  <1>2. /\ state \in States /\ state.outstanding \in Int /\ down \in Seq(Msgs)
        /\ up \in Seq(Requests) /\ Bounded(log, up) /\ Len(up) \in Nat /\ Len(log) \in Nat
    BY <1>1, Basics
  <1>3. Unwatch \in Requests /\ Unwatch.token <= Len(log)
    BY <1>2, RequestFact
  <1> DEFINE us == Append(up, Unwatch)
  <1>4. /\ us \in Seq(Requests) /\ Bounded(log, us) /\ Len(us) = Len(up) + 1
    BY <1>2, <1>3, Requested
  <1>5. /\ Recorded(state, 1) \in States
        /\ Recorded(state, 1).outstanding = state.outstanding + 1
        /\ Recorded(state, 1).token = state.token
    BY <1>2, RecordedFact
  <1>6. /\ listening' = FALSE /\ current' = FALSE /\ saved' = resume /\ held' = 0
        /\ open => state' = Recorded(state, 1) /\ up' = us
        /\ ~open => UNCHANGED <<state, up>>
        /\ UNCHANGED <<keys, resume, lastRemote, open, reset, down, log, serving,
                       slipped>>
    BY DEF StopListening, Release
  <1> HIDE DEF us
  <1>7. Types'
    <2>1. Tokens'
      BY <1>1, <1>2, <1>6 DEF Types, Tokens, LogOK
    <2>2. Flags'
      BY <1>1, <1>6 DEF Types, Flags
    <2>3. Stream'
      BY <1>1, <1>4, <1>5, <1>6 DEF Types, Stream
    <2> QED
      BY <2>1, <2>2, <2>3 DEF Types
  <1>8. Claims'
    <2> SUFFICES ASSUME ~slipped'
                 PROVE  /\ Kept(log, keys)'
                        /\ Owed(state.outstanding, up, down)'
                        /\ (reset => Pending(down))'
      BY <1>6 DEF Claims
    <2>1. /\ Kept(log, keys) /\ (reset => Pending(down)) /\ open \in BOOLEAN
          /\ Owed(state.outstanding, up, down)
      BY <1>1, <1>6 DEF Claims, Types, Flags
    <2>2. Kept(log, keys)' /\ (reset => Pending(down))'
      BY <1>6, <2>1 DEF Kept
    <2>3. PICK k : Load(down, k) /\ state.outstanding >= k + Len(up)
      BY <2>1 DEF Owed
    <2>4. k \in Nat
      BY <1>2, <2>3, LoadNat
    <2>5. state'.outstanding >= k + Len(up')
      <3>1. CASE open
        <4>1. state' = Recorded(state, 1) /\ up' = us
          BY <1>6, <3>1
        <4> QED
          BY <1>2, <1>4, <1>5, <2>3, <2>4, <4>1
      <3>2. CASE ~open
        BY <1>6, <2>3, <3>2
      <3> QED
        BY <3>1, <3>2
    <2>6. Owed(state.outstanding, up, down)'
      BY <1>6, <2>3, <2>5 DEF Owed
    <2> QED
      BY <2>2, <2>6
  <1> QED
    BY <1>7, <1>8 DEF Inv

(* A stream that opens begins with the listen, and with nothing owed.      *)
LEMMA OpenKeeps ==
  ASSUME WatchAssumption, Inv, OnWatchStreamOpen
  PROVE  Inv'
  <1>1. Types /\ Claims
    BY DEF Inv
  <1>2. /\ held \in Nat /\ held <= Len(log) /\ Len(log) \in Nat
        /\ down \in Seq(Msgs) /\ Versioned(log, down)
    BY <1>1, Basics
  <1>3. /\ Watch(held) \in Requests /\ Watch(held).token = held
        /\ Watch(held).type = "Watch"
    BY <1>2, RequestFact
  <1> DEFINE us == <<Watch(held)>>
  <1>4. /\ us \in Seq(Requests) /\ Len(us) = 1 /\ us[1] = Watch(held) /\ us /= << >>
    BY <1>3
  <1>5. /\ Recorded(NewState, 1) \in States
        /\ Recorded(NewState, 1).outstanding = 1
        /\ Recorded(NewState, 1).token = 0
    <2>1. NewState \in States /\ NewState.outstanding = 0 /\ NewState.token = 0 /\ 1 \in Int
      BY NewStateFact
    <2>2. /\ Recorded(NewState, 1) \in States
          /\ Recorded(NewState, 1).outstanding = NewState.outstanding + 1
          /\ Recorded(NewState, 1).token = NewState.token
      BY <2>1, RecordedFact
    <2> QED
      BY <2>1, <2>2
  <1>6. /\ ~open /\ listening /\ open' = TRUE
        /\ state' = Recorded(NewState, 1) /\ up' = us
        /\ UNCHANGED <<listening, keys, saved, resume, held, lastRemote, current, reset,
                       down, log, serving, slipped>>
    BY DEF OnWatchStreamOpen, tokens
  <1> HIDE DEF us
  <1>7. Types'
    <2>1. Tokens'
      BY <1>1, <1>2, <1>6 DEF Types, Tokens, LogOK
    <2>2. Flags'
      BY <1>1, <1>6 DEF Types, Flags
    <2>3. Bounded(log, us)
      <3>1. \A i \in 1..1 : i = 1
        OBVIOUS
      <3> QED
        BY <1>2, <1>3, <1>4, <3>1 DEF Bounded
    <2>4. Stream'
      BY <1>2, <1>4, <1>5, <1>6, <2>3 DEF Stream
    <2> QED
      BY <2>1, <2>2, <2>4 DEF Types
  <1>8. Claims'
    <2> SUFFICES ASSUME ~slipped'
                 PROVE  /\ Kept(log, keys)'
                        /\ (listening => held = resume)'
                        /\ Owed(state.outstanding, up, down)'
                        /\ (reset => Pending(down))'
                        /\ Agrees(log, serving, keys, state, reset, up, down)'
      BY DEF Claims
    <2>1. /\ Kept(log, keys) /\ (reset => Pending(down)) /\ held = resume
          /\ down = << >>
      BY <1>1, <1>6 DEF Claims, Types, Stream
    <2>2. Kept(log, keys)' /\ (reset => Pending(down))' /\ (listening => held = resume)'
      BY <1>6, <2>1 DEF Kept
    <2>3. Load(down, 0)
      <3>1. \A i \in 1..Len(<< >>) : FALSE
        OBVIOUS
      <3> QED
        BY <1>2, <2>1, <3>1, LoadNone
    <2>4. Owed(state.outstanding, up, down)'
      <3>1. 1 >= 0 + Len(us)
        BY <1>4
      <3>2. Owed(1, us, down)
        BY <2>3, <3>1 DEF Owed
      <3> QED
        BY <1>5, <1>6, <3>2
    <2>5. Asked(log, keys, us)
      BY <1>3, <1>4, <2>1 DEF Asked, Kept
    <2>6. Agrees(log, serving, keys, state, reset, up, down)'
      BY <1>4, <1>5, <1>6, <2>5 DEF Agrees
    <2> QED
      BY <2>2, <2>4, <2>6
  <1> QED
    BY <1>7, <1>8 DEF Inv

(* The stream breaks, or the app is killed.                                *)
LEMMA GoneKeeps ==
  ASSUME WatchAssumption, Inv, StreamGone,
         \/ UNCHANGED <<listening, current, resume, held>>
         \/ listening' = FALSE /\ current' = FALSE /\ resume' = saved /\ held' = 0
  PROVE  Inv'
  <1>1. Types /\ Claims
    BY DEF Inv
  <1>2. /\ Len(log) \in Nat /\ LogOK /\ keys \in SUBSET Docs
        /\ resume \in Nat /\ resume <= Len(log) /\ saved \in Nat /\ saved <= Len(log)
        /\ held \in Nat /\ held <= Len(log) /\ lastRemote \in 0..Len(log)
    <2>1. Len(log) \in Nat
      BY <1>1, Basics
    <2> QED
      BY <1>1, <2>1, Basics
  <1>3. /\ open' = FALSE /\ state' = NewState /\ reset' = FALSE
        /\ up' = << >> /\ down' = << >> /\ serving' = 0
        /\ UNCHANGED <<keys, saved, lastRemote, log, slipped>>
    BY DEF StreamGone
  <1>4. /\ << >> \in Seq(Requests) /\ << >> \in Seq(Msgs) /\ Len(<< >>) = 0
        /\ \A i \in 1..Len(<< >>) : FALSE
    OBVIOUS
  <1>5. Types'
    <2>1. Tokens'
      BY <1>2, <1>3 DEF Tokens, LogOK
    <2>2. Flags'
      BY <1>1, <1>3 DEF Types, Flags
    <2>3. Bounded(log, << >>) /\ Versioned(log, << >>)
      BY <1>4 DEF Bounded, Versioned
    <2>4. Stream'
      BY <1>2, <1>3, <1>4, <2>3, NewStateFact DEF Stream
    <2> QED
      BY <2>1, <2>2, <2>4 DEF Types
  <1>6. Claims'
    <2> SUFFICES ASSUME ~slipped'
                 PROVE  /\ Kept(log, keys)'
                        /\ (listening => held = resume)'
                        /\ Owed(state.outstanding, up, down)'
      BY <1>3 DEF Claims
    <2>1. Kept(log, keys) /\ (listening => held = resume)
      BY <1>1, <1>3 DEF Claims
    <2>2. Kept(log, keys)' /\ (listening => held = resume)'
      <3>1. CASE UNCHANGED <<listening, current, resume, held>>
        BY <1>3, <2>1, <3>1 DEF Kept
      <3>2. CASE listening' = FALSE /\ resume' = saved
        BY <1>3, <2>1, <3>2 DEF Kept
      <3> QED
        BY <3>1, <3>2
    <2>3. Load(<< >>, 0)
      BY <1>4, LoadNone
    <2>4. Owed(0, << >>, << >>)
      <3>1. 0 >= 0 + Len(<< >>)
        BY <1>4
      <3> QED
        BY <2>3, <3>1 DEF Owed
    <2> QED
      BY <1>3, <2>2, <2>4, NewStateFact
  <1> QED
    BY <1>5, <1>6 DEF Inv

-----------------------------------------------------------------------------
(* The responses.                                                          *)

(* The first message and what is left.                                     *)
LEMMA Taken ==
  ASSUME Types, down /= << >>
  PROVE  /\ open /\ Tail(down) \in Seq(Msgs) /\ Versioned(log, Tail(down))
         /\ Head(down) \in Msgs /\ Head(down).version \in Nat
         /\ Head(down).version <= Len(log)
  <1>1. down \in Seq(Msgs) /\ Versioned(log, down)
    BY Basics
  <1>2. open
    BY DEF Types, Stream, Flags
  <1> DEFINE t == Tail(down)
             n == Len(down)
  <1>3. /\ n \in Nat /\ n >= 1 /\ Head(down) = down[1] /\ Head(down) \in Msgs
        /\ t \in Seq(Msgs) /\ Len(t) = n - 1
        /\ \A i \in 1..Len(t) : t[i] = down[i + 1]
    BY <1>1, TailFact
  <1>4. \A i \in 1..n : down[i].version <= Len(log)
    BY <1>1 DEF Versioned
  <1> HIDE DEF t, n
  <1>5. \A i \in 1..Len(t) : i + 1 \in 1..n
    BY <1>3
  <1>6. Versioned(log, t)
    BY <1>3, <1>4, <1>5 DEF Versioned
  <1>7. Head(down).version <= Len(log)
    BY <1>3, <1>4
  <1>8. Head(down).version \in Nat
    BY <1>3 DEF Msgs
  <1> QED
    BY <1>2, <1>3, <1>6, <1>7, <1>8 DEF t

(* The types after a message was handled.                                  *)
LEMMA ReceivedTypes ==
  ASSUME Types, down /= << >>, down' = Tail(down), UNCHANGED <<open, log, serving>>,
         Flags', state' \in States, state'.token <= Len(log),
         up' \in Seq(Requests), Bounded(log, up'), keys' \in SUBSET Docs,
         saved' \in 0..Len(log), resume' \in 0..Len(log), held' \in 0..Len(log),
         lastRemote' \in 0..Len(log)
  PROVE  Types'
  <1>1. open /\ Tail(down) \in Seq(Msgs) /\ Versioned(log, Tail(down))
    BY Taken
  <1>2. Tokens'
    BY DEF Types, Tokens, LogOK
  <1>3. Stream'
    BY <1>1 DEF Stream
  <1> QED
    BY <1>2, <1>3 DEF Types

(* What is owed without the first message.                                 *)
LEMMA OwedTail ==
  ASSUME NEW n \in Int, NEW us, Len(us) \in Nat, NEW ms \in Seq(Msgs), ms /= << >>,
         Owed(n, us, ms)
  PROVE  /\ Weight(Head(ms)) \in Nat
         /\ Owed(n, us, Tail(ms)) /\ Owed(n - Weight(Head(ms)), us, Tail(ms))
         /\ n >= Weight(Head(ms)) + Len(us)
  <1>1. PICK k : Load(ms, k) /\ n >= k + Len(us)
    BY DEF Owed
  <1> DEFINE w == Weight(Head(ms))
  <1>2. k \in Nat /\ k >= w /\ Load(Tail(ms), k - w)
    BY <1>1, LoadTail
  <1>3. w \in Nat
    BY DEF Weight
  <1> HIDE DEF w
  <1>4. n - w >= (k - w) + Len(us) /\ n >= (k - w) + Len(us) /\ n >= w + Len(us)
    BY <1>1, <1>2, <1>3
  <1> QED
    BY <1>2, <1>3, <1>4 DEF Owed, w

(* A message that neither answers nor ends a snapshot is handled.          *)
LEMMA HandledQuietly ==
  ASSUME Types, Claims, down /= << >>,
         Head(down).type \notin Answers, Head(down).type /= "Snapshot",
         down' = Tail(down),
         UNCHANGED <<open, log, serving, listening, keys, saved, resume, held, slipped, up>>,
         state'.outstanding = state.outstanding,
         ~IsActiveTarget => UNCHANGED <<state, reset>>,
         \A c \in SUBSET Docs :
           /\ IsActiveTarget /\ ~reset /\ Tidy(keys, state)
           /\ Step(log, Collected(keys, state), Head(down), c)
           => /\ Tidy(keys, state')
              /\ reset' => Head(down).type = "Filter" /\ Collected(keys, state') = {}
              /\ ~reset' => Collected(keys, state') = c
  PROVE  Claims'
  <1> SUFFICES ASSUME ~slipped'
               PROVE  /\ Kept(log, keys)'
                      /\ (listening => held = resume)'
                      /\ Owed(state.outstanding, up, down)'
                      /\ (reset => Pending(down))'
                      /\ (listening /\ open =>
                            Agrees(log, serving, keys, state, reset, up, down))'
    BY DEF Claims
  <1>1. /\ Kept(log, keys) /\ (listening => held = resume)
        /\ Owed(state.outstanding, up, down) /\ (reset => Pending(down))
        /\ (listening /\ open => Agrees(log, serving, keys, state, reset, up, down))
    BY DEF Claims
  <1>2. /\ down \in Seq(Msgs) /\ Len(up) \in Nat /\ state.outstanding \in Int
    BY Basics
  <1>3. open /\ ~reset
    BY <1>1, Taken DEF Pending
  <1>4. Kept(log, keys)' /\ (listening => held = resume)'
    BY <1>1 DEF Kept
  <1>5. Owed(state.outstanding, up, down)'
    <2>1. Owed(state.outstanding, up, Tail(down))
      BY <1>1, <1>2, OwedTail
    <2> QED
      BY <2>1
  <1>6. CASE IsActiveTarget
    <2>1. listening /\ state.outstanding = 0
      BY <1>6 DEF IsActiveTarget
    <2>2. InStep(log, serving, keys, state, reset, down)
      BY <1>1, <1>3, <2>1 DEF Agrees
    <2>3. Tidy(keys, state) /\ Sent(log, serving, Collected(keys, state), down, 1)
      BY <1>3, <2>2 DEF InStep
    <2>4. PICK c \in SUBSET Docs :
            /\ Step(log, Collected(keys, state), Head(down), c)
            /\ Head(down).type = "Filter" =>
                 Tail(down) /= << >> /\ Head(Tail(down)).type = "Snapshot"
            /\ Sent(log, serving, c, Tail(down), 1)
      BY <1>2, <2>3, SentHead
    <2>5. /\ Tidy(keys, state')
          /\ reset' => Head(down).type = "Filter" /\ Collected(keys, state') = {}
          /\ ~reset' => Collected(keys, state') = c
      BY <1>3, <1>6, <2>3, <2>4
    <2>6. reset' => Pending(Tail(down))
      BY <2>4, <2>5 DEF Pending
    <2>7. InStep(log, serving, keys, state', reset', Tail(down))
      BY <2>4, <2>5 DEF InStep
    <2>8. Agrees(log, serving, keys, state', reset', up, Tail(down))
      BY <2>1, <2>7 DEF Agrees
    <2> QED
      BY <1>4, <1>5, <2>6, <2>8
  <1>7. CASE ~IsActiveTarget
    <2>1. state' = state /\ reset' = reset
      BY <1>7
    <2>2. listening => state.outstanding /= 0
      BY <1>7 DEF IsActiveTarget
    <2>3. listening => Agrees(log, serving, keys, state, reset, up, Tail(down))
      BY <1>1, <1>2, <1>3, <2>2, AnsweredTail DEF Agrees
    <2> QED
      BY <1>3, <1>4, <1>5, <2>1, <2>3
  <1> QED
    BY <1>6, <1>7

(* The server says that the target is current.                             *)
LEMMA HandleCurrentKeeps ==
  ASSUME WatchAssumption, Inv, HandleCurrent
  PROVE  Inv'
  <1>1. Types /\ Claims
    BY DEF Inv
  <1>2. /\ down /= << >> /\ Head(down).type = "Current" /\ down' = Tail(down)
        /\ UNCHANGED <<open, log, serving, listening, keys, saved, resume, held, lastRemote,
                       current, reset, slipped, up>>
    BY DEF HandleCurrent, Receive, tokens
  <1> DEFINE s == [state EXCEPT !.current = TRUE]
  <1>3. state' = IF IsActiveTarget THEN s ELSE state
    BY DEF HandleCurrent
  <1>4. /\ state \in States /\ up \in Seq(Requests) /\ Bounded(log, up)
        /\ keys \in SUBSET Docs /\ state.token <= Len(log) /\ Flags'
        /\ saved \in 0..Len(log) /\ resume \in 0..Len(log) /\ held \in 0..Len(log)
        /\ lastRemote \in 0..Len(log)
    BY <1>1, <1>2 DEF Types, Flags, Tokens, Stream
  <1>5. /\ s \in States /\ s.token = state.token /\ s.outstanding = state.outstanding
        /\ s.changes = state.changes
    BY <1>4 DEF States
  <1> HIDE DEF s
  <1>6. Types'
    BY <1>1, <1>2, <1>3, <1>4, <1>5, ReceivedTypes
  <1>7. Claims'
    <2>1. Tidy(keys, state) => Tidy(keys, state')
      BY <1>3, <1>5 DEF Tidy
    <2>2. Collected(keys, state') = Collected(keys, state)
      BY <1>3, <1>5 DEF Collected, With
    <2>3. \A a, c : Step(log, a, Head(down), c) => c = a
      BY <1>2 DEF Step
    <2>4. Head(down).type \notin Answers /\ Head(down).type /= "Snapshot"
      BY <1>2 DEF Answers
    <2>5. state'.outstanding = state.outstanding
      BY <1>3, <1>5
    <2> QED
      BY <1>1, <1>2, <1>3, <2>1, <2>2, <2>3, <2>4, <2>5, HandledQuietly
  <1> QED
    BY <1>6, <1>7 DEF Inv

(* A document is collected if it is no news.                               *)
LEMMA WithDocumentFact ==
  ASSUME state \in States, NEW d \in Docs, NEW in \in BOOLEAN, Tidy(keys, state)
  PROVE  LET s == WithDocument(state, d, in) IN
         /\ Tidy(keys, s)
         /\ Collected(keys, s) = IF in THEN Collected(keys, state) \cup {d}
                                 ELSE Collected(keys, state) \ {d}
  <1> DEFINE s == WithDocument(state, d, in)
             k == IF in THEN IF d \in keys THEN "modified" ELSE "added"
                  ELSE IF d \in keys THEN "removed" ELSE "none"
  <1>1. state.changes \in [Docs -> Kinds]
    BY DEF States
  <1>2. s.changes = [state.changes EXCEPT ![d] = k]
    BY <1>1 DEF WithDocument, States
  <1>3. s.changes[d] = k /\ \A e \in Docs : e /= d => s.changes[e] = state.changes[e]
    BY <1>1, <1>2
  <1> HIDE DEF s
  <1>4. Tidy(keys, s)
    BY <1>3 DEF Tidy
  <1>5. ASSUME NEW e
        PROVE  e \in Collected(keys, s) <=>
                 IF e = d THEN in ELSE e \in Collected(keys, state)
    <2>1. CASE e = d
      BY <1>3, <2>1 DEF Collected, With
    <2>2. CASE e /= d
      BY <1>3, <2>2 DEF Collected, With
    <2> QED
      BY <2>1, <2>2
  <1>6. Collected(keys, s) = IF in THEN Collected(keys, state) \cup {d}
                             ELSE Collected(keys, state) \ {d}
    BY <1>5
  <1> QED
    BY <1>4, <1>6 DEF s

(* Collecting it counts no answer.                                         *)
LEMMA WithDocumentType ==
  ASSUME state \in States, NEW d \in Docs, NEW in \in BOOLEAN
  PROVE  LET s == WithDocument(state, d, in) IN
         s \in States /\ s.outstanding = state.outstanding /\ s.token = state.token
  <1> DEFINE k == IF in THEN IF d \in keys THEN "modified" ELSE "added"
                  ELSE IF d \in keys THEN "removed" ELSE "none"
  <1>1. k \in Kinds
    BY DEF Kinds
  <1> HIDE DEF k
  <1>2. LET s == [state EXCEPT !.changes[d] = k] IN
        s \in States /\ s.outstanding = state.outstanding /\ s.token = state.token
    BY <1>1 DEF States
  <1> QED
    BY <1>2 DEF WithDocument, k

(* The server says that a document matches or no longer does.              *)
LEMMA HandleDocumentChangeKeeps ==
  ASSUME WatchAssumption, Inv, HandleDocumentChange
  PROVE  Inv'
  <1>1. Types /\ Claims
    BY DEF Inv
  <1>2. /\ down /= << >> /\ Head(down).type = "Doc" /\ down' = Tail(down)
        /\ UNCHANGED <<open, log, serving, listening, keys, saved, resume, held, lastRemote,
                       current, reset, slipped, up>>
    BY DEF HandleDocumentChange, Receive, tokens
  <1> DEFINE m == Head(down)
             s == WithDocument(state, m.doc, m.in)
  <1>3. state' = IF IsActiveTarget THEN s ELSE state
    BY DEF HandleDocumentChange
  <1>4. /\ state \in States /\ up \in Seq(Requests) /\ Bounded(log, up)
        /\ keys \in SUBSET Docs /\ state.token <= Len(log) /\ Flags'
        /\ saved \in 0..Len(log) /\ resume \in 0..Len(log) /\ held \in 0..Len(log)
        /\ lastRemote \in 0..Len(log)
    BY <1>1, <1>2 DEF Types, Flags, Tokens, Stream
  <1>5. m.doc \in Docs /\ m.in \in BOOLEAN
    BY <1>1, <1>2, Taken DEF Msgs
  <1>6. s \in States /\ s.outstanding = state.outstanding /\ s.token = state.token
    BY <1>4, <1>5, WithDocumentType
  <1>7. Tidy(keys, state) =>
          /\ Tidy(keys, s)
          /\ Collected(keys, s) = IF m.in THEN Collected(keys, state) \cup {m.doc}
                                  ELSE Collected(keys, state) \ {m.doc}
    BY <1>4, <1>5, WithDocumentFact
  <1>8. \A a, c : Step(log, a, m, c) => c = IF m.in THEN a \cup {m.doc} ELSE a \ {m.doc}
    BY <1>2 DEF Step
  <1>9. Head(down).type \notin Answers /\ Head(down).type /= "Snapshot"
    BY <1>2 DEF Answers
  <1> HIDE DEF s, m
  <1>10. Types'
    BY <1>1, <1>2, <1>3, <1>4, <1>6, ReceivedTypes
  <1>11. Claims'
    <2>1. ASSUME NEW c \in SUBSET Docs, IsActiveTarget, ~reset, Tidy(keys, state),
                 Step(log, Collected(keys, state), Head(down), c)
          PROVE  Tidy(keys, state') /\ Collected(keys, state') = c /\ ~reset'
      <3>1. c = IF m.in THEN Collected(keys, state) \cup {m.doc}
                ELSE Collected(keys, state) \ {m.doc}
        BY <1>8, <2>1 DEF m
      <3> QED
        BY <1>2, <1>3, <1>7, <2>1, <3>1
    <2>2. state'.outstanding = state.outstanding
      BY <1>3, <1>6
    <2> QED
      BY <1>1, <1>2, <1>3, <1>9, <2>1, <2>2, HandledQuietly
  <1> QED
    BY <1>10, <1>11 DEF Inv

(* A reset collects the removal of every key.                              *)
LEMMA ResetTargetFact ==
  ASSUME keys \in SUBSET Docs
  PROVE  /\ ResetTarget \in States /\ ResetTarget.outstanding = 0 /\ ResetTarget.token = 0
         /\ Tidy(keys, ResetTarget) /\ Collected(keys, ResetTarget) = {}
  <1> DEFINE f == [d \in Docs |-> IF d \in keys THEN "removed" ELSE "none"]
  <1>1. f \in [Docs -> Kinds] /\ \A d \in Docs : f[d] = IF d \in keys THEN "removed" ELSE "none"
    BY DEF Kinds
  <1> HIDE DEF f
  <1>2. ResetTarget = [NewState EXCEPT !.changes = f]
    BY DEF ResetTarget, f
  <1>3. /\ ResetTarget \in States /\ ResetTarget.outstanding = 0
        /\ ResetTarget.token = 0 /\ ResetTarget.changes = f
    BY <1>1, <1>2, NewStateFact DEF States
  <1>4. Tidy(keys, ResetTarget)
    BY <1>1, <1>3 DEF Tidy
  <1>5. Collected(keys, ResetTarget) = {}
    BY <1>1, <1>3 DEF Collected, With
  <1> QED
    BY <1>3, <1>4, <1>5

(* The server resets the target.                                           *)
LEMMA HandleResetKeeps ==
  ASSUME WatchAssumption, Inv, HandleReset
  PROVE  Inv'
  <1>1. Types /\ Claims
    BY DEF Inv
  <1>2. /\ down /= << >> /\ Head(down).type = "Reset" /\ down' = Tail(down)
        /\ UNCHANGED <<open, log, serving, listening, keys, saved, resume, held, lastRemote,
                       current, reset, slipped, up>>
        /\ state' = IF IsActiveTarget THEN ResetTarget ELSE state
    BY DEF HandleReset, Receive, tokens
  <1>4. /\ state \in States /\ up \in Seq(Requests) /\ Bounded(log, up)
        /\ keys \in SUBSET Docs /\ state.token <= Len(log) /\ Flags'
        /\ saved \in 0..Len(log) /\ resume \in 0..Len(log) /\ held \in 0..Len(log)
        /\ lastRemote \in 0..Len(log)
    BY <1>1, <1>2 DEF Types, Flags, Tokens, Stream
  <1>5. /\ ResetTarget \in States /\ ResetTarget.outstanding = 0 /\ ResetTarget.token <= Len(log)
        /\ Tidy(keys, ResetTarget) /\ Collected(keys, ResetTarget) = {}
    <2>1. 0 <= Len(log)
      BY <1>1, Basics
    <2> QED
      BY <1>4, <2>1, ResetTargetFact
  <1>6. Types'
    BY <1>1, <1>2, <1>4, <1>5, ReceivedTypes
  <1>7. Claims'
    <2>1. \A a, c : Step(log, a, Head(down), c) => c = {}
      BY <1>2 DEF Step
    <2>2. Head(down).type \notin Answers /\ Head(down).type /= "Snapshot"
      BY <1>2 DEF Answers
    <2>3. state'.outstanding = state.outstanding
      BY <1>2, <1>5 DEF IsActiveTarget
    <2> QED
      BY <1>1, <1>2, <1>5, <2>1, <2>2, <2>3, HandledQuietly
  <1> QED
    BY <1>6, <1>7 DEF Inv

(* The server says how many documents match: if the client has another     *)
(* number it resets the target at the next snapshot.                       *)
LEMMA HandleFilterKeeps ==
  ASSUME WatchAssumption, Inv, HandleExistenceFilter
  PROVE  Inv'
  <1> DEFINE size == Cardinality(keys) + Cardinality(Changed(state, "added"))
                       - Cardinality(Changed(state, "removed"))
             over == IsActiveTarget /\ size /= Head(down).count
  <1>1. Types /\ Claims
    BY DEF Inv
  <1>2. /\ down /= << >> /\ Head(down).type = "Filter" /\ down' = Tail(down)
        /\ UNCHANGED <<open, log, serving, listening, keys, saved, resume, held, lastRemote,
                       current, slipped, up>>
        /\ over => state' = ResetTarget /\ reset' = TRUE
        /\ ~over => UNCHANGED <<state, reset>>
    BY DEF HandleExistenceFilter, Receive, tokens
  <1>3. size = Cardinality(keys) + Cardinality(With(state, "added"))
                 - Cardinality(With(state, "removed"))
    BY DEF Changed, With
  <1>4. /\ state \in States /\ up \in Seq(Requests) /\ Bounded(log, up)
        /\ keys \in SUBSET Docs /\ state.token <= Len(log) /\ Flags'
        /\ saved \in 0..Len(log) /\ resume \in 0..Len(log) /\ held \in 0..Len(log)
        /\ lastRemote \in 0..Len(log)
    BY <1>1, <1>2 DEF Types, Flags, Tokens, Stream
  <1>5. /\ ResetTarget \in States /\ ResetTarget.outstanding = 0 /\ ResetTarget.token <= Len(log)
        /\ Tidy(keys, ResetTarget) /\ Collected(keys, ResetTarget) = {}
    <2>1. 0 <= Len(log)
      BY <1>1, Basics
    <2> QED
      BY <1>4, <2>1, ResetTargetFact
  <1> HIDE DEF size
  <1>6. Types'
    BY <1>1, <1>2, <1>4, <1>5, ReceivedTypes
  <1>7. Claims'
    <2>1. ASSUME NEW c \in SUBSET Docs, IsActiveTarget, ~reset, Tidy(keys, state),
                 Step(log, Collected(keys, state), Head(down), c)
          PROVE  /\ Tidy(keys, state')
                 /\ reset' => Head(down).type = "Filter" /\ Collected(keys, state') = {}
                 /\ ~reset' => Collected(keys, state') = c
      <3>1. CASE over
        BY <1>2, <1>5, <3>1
      <3>2. CASE ~over
        <4>1. size = Cardinality(Collected(keys, state))
              /\ \A x \in SUBSET Collected(keys, state) :
                   Cardinality(x) = Cardinality(Collected(keys, state)) => x = Collected(keys, state)
          BY <1>3, <1>4, <2>1, FilterFact
        <4>2. c \subseteq Collected(keys, state) /\ Head(down).count = Cardinality(c)
          BY <1>2, <2>1 DEF Step
        <4>3. c = Collected(keys, state)
          BY <2>1, <3>2, <4>1, <4>2
        <4> QED
          BY <1>2, <2>1, <3>2, <4>3
      <3> QED
        BY <3>1, <3>2
    <2>2. Head(down).type \notin Answers /\ Head(down).type /= "Snapshot"
      BY <1>2 DEF Answers
    <2>3. state'.outstanding = state.outstanding
      BY <1>2, <1>5 DEF IsActiveTarget
    <2>4. ~IsActiveTarget => UNCHANGED <<state, reset>>
      BY <1>2
    <2> QED
      BY <1>1, <1>2, <2>1, <2>2, <2>3, <2>4, HandledQuietly
  <1> QED
    BY <1>6, <1>7 DEF Inv

(* Responded() counts one answer.                                          *)
LEMMA RespondedFact ==
  ASSUME NEW s \in States
  PROVE  /\ Responded(s) \in States /\ Responded(s).outstanding = s.outstanding - 1
         /\ Responded(s).token = s.token
  BY DEF Responded, States

(* Cleared() collects nothing any more.                                    *)
LEMMA ClearedFact ==
  ASSUME NEW s \in States, NEW ks
  PROVE  /\ Cleared(s) \in States /\ Cleared(s).outstanding = s.outstanding
         /\ Cleared(s).token = s.token
         /\ Tidy(ks, Cleared(s)) /\ Collected(ks, Cleared(s)) = ks
  <1> DEFINE f == [d \in Docs |-> "none"]
  <1>1. f \in [Docs -> Kinds] /\ \A d \in Docs : f[d] = "none"
    BY DEF Kinds
  <1> HIDE DEF f
  <1>2. Cleared(s) = [s EXCEPT !.changes = f]
    BY DEF Cleared, f
  <1>3. /\ Cleared(s) \in States /\ Cleared(s).outstanding = s.outstanding
        /\ Cleared(s).token = s.token /\ Cleared(s).changes = f
    BY <1>1, <1>2 DEF States
  <1>4. With(Cleared(s), "added") = {} /\ With(Cleared(s), "removed") = {}
    BY <1>1, <1>3 DEF With
  <1> QED
    BY <1>1, <1>3, <1>4 DEF Tidy, Collected

(* A response to a listen or to its end is handled.                        *)
LEMMA Responds ==
  ASSUME Types, Claims, down /= << >>, Head(down).type \in {"Added", "Removed"},
         down' = Tail(down),
         UNCHANGED <<open, log, serving, listening, keys, saved, resume, held, reset,
                     slipped, up>>,
         state'.outstanding = state.outstanding - 1,
         Head(down).type = "Added" /\ state.outstanding = 1 => state' = Cleared(Responded(state))
  PROVE  Claims'
  <1> SUFFICES ASSUME ~slipped'
               PROVE  /\ Kept(log, keys)'
                      /\ (listening => held = resume)'
                      /\ Owed(state.outstanding, up, down)'
                      /\ (reset => Pending(down))'
                      /\ (listening /\ open =>
                            Agrees(log, serving, keys, state, reset, up, down))'
    BY DEF Claims
  <1>1. /\ Kept(log, keys) /\ (listening => held = resume)
        /\ Owed(state.outstanding, up, down) /\ (reset => Pending(down))
        /\ (listening /\ open => Agrees(log, serving, keys, state, reset, up, down))
    BY DEF Claims
  <1>2. /\ down \in Seq(Msgs) /\ Len(up) \in Nat /\ state.outstanding \in Int
        /\ state \in States /\ up \in Seq(Requests)
    BY Basics
  <1>3. open /\ ~reset /\ Weight(Head(down)) = 1 /\ Head(down).type \in Answers
    BY <1>1, Taken DEF Pending, Weight, Answers
  <1>4. Kept(log, keys)' /\ (listening => held = resume)'
    BY <1>1 DEF Kept
  <1>5. /\ Owed(state.outstanding - 1, up, Tail(down))
        /\ state.outstanding >= 1 + Len(up)
    BY <1>1, <1>2, <1>3, OwedTail
  <1>6. CASE state.outstanding = 1 /\ listening
    <2>1. Len(up) = 0
      BY <1>2, <1>5, <1>6
    <2>2. up = << >>
      BY <1>2, <2>1
    <2>3. Answered(log, serving, keys, down)
      BY <1>1, <1>3, <1>6, <2>2 DEF Agrees
    <2>4. Load(down, 1)
      <3>1. PICK k : Load(down, k) /\ 1 >= k + Len(up)
        BY <1>1, <1>6 DEF Owed
      <3>2. k \in Nat /\ k >= 1
        BY <1>2, <1>3, <3>1, LoadTail
      <3>3. k = 1
        BY <2>1, <3>1, <3>2
      <3> QED
        BY <3>1, <3>3
    <2>5. Head(down).type = "Added" /\ Sent(log, serving, keys, Tail(down), 1)
      BY <1>2, <2>3, <2>4, LastAnswer
    <2>6. /\ state' = Cleared(Responded(state)) /\ Responded(state) \in States
      BY <1>2, <1>6, <2>5, RespondedFact
    <2>7. Tidy(keys, state') /\ Collected(keys, state') = keys
      BY <2>6, ClearedFact
    <2>8. InStep(log, serving, keys, state', reset, Tail(down))
      BY <1>3, <2>5, <2>7 DEF InStep
    <2>9. state'.outstanding = 0
      BY <1>6
    <2>10. Agrees(log, serving, keys, state', reset, up, Tail(down))
      BY <2>8, <2>9 DEF Agrees
    <2> QED
      BY <1>3, <1>4, <1>5, <2>10
  <1>7. CASE ~(state.outstanding = 1 /\ listening)
    <2>1. listening => state'.outstanding /= 0 /\ state.outstanding /= 0
      BY <1>2, <1>5, <1>7
    <2>2. listening => (up /= << >> => Asked(log, keys, up))
      BY <1>1, <1>3, <2>1 DEF Agrees
    <2>3. listening => (up = << >> => Answered(log, serving, keys, Tail(down)))
      BY <1>1, <1>2, <1>3, <2>1, AnsweredTail DEF Agrees
    <2>4. listening => Agrees(log, serving, keys, state', reset, up, Tail(down))
      BY <2>1, <2>2, <2>3 DEF Agrees
    <2> QED
      BY <1>3, <1>4, <1>5, <2>4
  <1> QED
    BY <1>6, <1>7

(* The server has accepted a listen.                                       *)
LEMMA HandleAddedKeeps ==
  ASSUME WatchAssumption, Inv, HandleAdded
  PROVE  Inv'
  <1> DEFINE s == Responded(state)
  <1>1. Types /\ Claims
    BY DEF Inv
  <1>2. /\ down /= << >> /\ Head(down).type = "Added" /\ down' = Tail(down)
        /\ UNCHANGED <<open, log, serving, listening, keys, saved, resume, held, lastRemote,
                       current, reset, slipped, up>>
        /\ state' = IF s.outstanding = 0 THEN Cleared(s) ELSE s
    BY DEF HandleAdded, Receive, tokens
  <1>3. /\ state \in States /\ up \in Seq(Requests) /\ Bounded(log, up)
        /\ keys \in SUBSET Docs /\ state.token <= Len(log) /\ Flags'
        /\ saved \in 0..Len(log) /\ resume \in 0..Len(log) /\ held \in 0..Len(log)
        /\ lastRemote \in 0..Len(log)
    BY <1>1, <1>2 DEF Types, Flags, Tokens, Stream
  <1>4. s \in States /\ s.outstanding = state.outstanding - 1 /\ s.token = state.token
    BY <1>3, RespondedFact
  <1>5. /\ Cleared(s) \in States /\ Cleared(s).outstanding = s.outstanding
        /\ Cleared(s).token = s.token
    BY <1>4, ClearedFact
  <1> HIDE DEF s
  <1>6. Types'
    BY <1>1, <1>2, <1>3, <1>4, <1>5, ReceivedTypes
  <1>7. Claims'
    <2>1. state'.outstanding = state.outstanding - 1
      BY <1>2, <1>4, <1>5
    <2>2. state.outstanding = 1 => state' = Cleared(Responded(state))
      BY <1>2, <1>4 DEF s
    <2> QED
      BY <1>1, <1>2, <2>1, <2>2, Responds
  <1> QED
    BY <1>6, <1>7 DEF Inv

(* The server has accepted the end of a listen.                            *)
LEMMA HandleRemovedKeeps ==
  ASSUME WatchAssumption, Inv, HandleRemoved
  PROVE  Inv'
  <1> DEFINE s == Responded(state)
  <1>1. Types /\ Claims
    BY DEF Inv
  <1>2. /\ down /= << >> /\ Head(down).type = "Removed" /\ down' = Tail(down)
        /\ UNCHANGED <<open, log, serving, listening, keys, saved, resume, held, lastRemote,
                       current, reset, slipped, up>>
        /\ state' = IF s.outstanding = 0 THEN NewState ELSE s
    BY DEF HandleRemoved, Receive, tokens
  <1>3. /\ state \in States /\ up \in Seq(Requests) /\ Bounded(log, up)
        /\ keys \in SUBSET Docs /\ state.token <= Len(log) /\ Flags'
        /\ saved \in 0..Len(log) /\ resume \in 0..Len(log) /\ held \in 0..Len(log)
        /\ lastRemote \in 0..Len(log)
    BY <1>1, <1>2 DEF Types, Flags, Tokens, Stream
  <1>4. s \in States /\ s.outstanding = state.outstanding - 1 /\ s.token = state.token
    BY <1>3, RespondedFact
  <1>5. NewState \in States /\ NewState.outstanding = 0 /\ NewState.token <= Len(log)
    <2>1. 0 <= Len(log)
      BY <1>1, Basics
    <2> QED
      BY <2>1, NewStateFact
  <1> HIDE DEF s
  <1>6. Types'
    BY <1>1, <1>2, <1>3, <1>4, <1>5, ReceivedTypes
  <1>7. Claims'
    <2>1. state'.outstanding = state.outstanding - 1
      BY <1>2, <1>4, <1>5
    <2>2. Head(down).type /= "Added"
      BY <1>2
    <2> QED
      BY <1>1, <1>2, <2>1, <2>2, Responds
  <1> QED
    BY <1>6, <1>7 DEF Inv

(* The server has rejected a listen: the target is gone, and the error is  *)
(* taken for another listen's unless it was the only answer owed.          *)
LEMMA ErrorKeeps ==
  ASSUME WatchAssumption, Inv, ProcessTargetError
  PROVE  Inv'
  <1>1. Types /\ Claims
    BY DEF Inv
  <1>2. /\ down /= << >> /\ Head(down).type = "Error" /\ down' = Tail(down)
        /\ UNCHANGED <<open, log, serving, keys, lastRemote, reset, up>>
        /\ listening => /\ listening' = FALSE /\ current' = FALSE /\ saved' = resume
                        /\ held' = 0 /\ resume' = resume /\ state' = NewState
        /\ ~listening => UNCHANGED <<listening, current, saved, resume, held, state>>
    BY DEF ProcessTargetError, Receive, Release, tokens
  <1>s. /\ slipped' \in BOOLEAN
        /\ ~slipped' => ~slipped /\ (listening => state.outstanding = 1)
    BY Zenon DEF ProcessTargetError
  <1>3. /\ state \in States /\ up \in Seq(Requests) /\ Bounded(log, up)
        /\ keys \in SUBSET Docs /\ state.token <= Len(log)
        /\ saved \in 0..Len(log) /\ resume \in 0..Len(log) /\ held \in 0..Len(log)
        /\ lastRemote \in 0..Len(log)
        /\ 0 \in 0..Len(log) /\ 0 <= Len(log) /\ Len(up) \in Nat
        /\ state.outstanding \in Int /\ down \in Seq(Msgs)
    <2>1. /\ Len(log) \in Nat /\ Len(up) \in Nat /\ state.outstanding \in Int
          /\ down \in Seq(Msgs)
      BY <1>1, Basics
    <2> QED
      BY <1>1, <2>1 DEF Types, Flags, Tokens, Stream
  <1>4. NewState \in States /\ NewState.outstanding = 0 /\ NewState.token <= Len(log)
    BY <1>3, NewStateFact
  <1>5. Types'
    <2>1. Flags'
      BY <1>1, <1>2, <1>s DEF Types, Flags
    <2>2. /\ state' \in States /\ state'.token <= Len(log) /\ saved' \in 0..Len(log)
          /\ resume' \in 0..Len(log) /\ held' \in 0..Len(log)
      BY <1>2, <1>3, <1>4
    <2> QED
      BY <1>1, <1>2, <1>3, <2>1, <2>2, ReceivedTypes
  <1>6. Claims'
    <2> SUFFICES ASSUME ~slipped'
                 PROVE  /\ Kept(log, keys)'
                        /\ (listening => held = resume)'
                        /\ Owed(state.outstanding, up, down)'
                        /\ (reset => Pending(down))'
                        /\ ~listening'
      BY DEF Claims
    <2>1. /\ Kept(log, keys) /\ Owed(state.outstanding, up, down)
          /\ (reset => Pending(down)) /\ ~listening'
      BY <1>1, <1>2, <1>s DEF Claims, Types, Flags
    <2>2. ~reset'
      BY <1>2, <2>1 DEF Pending
    <2>3. Kept(log, keys)'
      BY <1>2, <2>1 DEF Kept
    <2>4. Weight(Head(down)) = 1
      BY <1>2 DEF Weight, Answers
    <2>5. /\ Owed(state.outstanding, up, Tail(down))
          /\ Owed(state.outstanding - 1, up, Tail(down))
      BY <1>2, <1>3, <2>1, <2>4, OwedTail
    <2>6. Owed(state'.outstanding, up, Tail(down))
      <3>1. CASE listening
        <4>1. state.outstanding - 1 = 0
          BY <1>s, <3>1
        <4> QED
          BY <1>2, <1>4, <2>5, <3>1, <4>1
      <3>2. CASE ~listening
        BY <1>2, <2>5, <3>2
      <3> QED
        BY <3>1, <3>2
    <2> QED
      BY <1>2, <2>1, <2>2, <2>3, <2>6
  <1> QED
    BY <1>5, <1>6 DEF Inv

(* The requests after a reset: the end of the listen and a listen without  *)
(* a token.                                                                *)
LEMMA AskedAgain ==
  ASSUME Types
  PROVE  LET us == up \o <<Unwatch, Watch(0)>> IN
         /\ us \in Seq(Requests) /\ Bounded(log, us) /\ Len(us) = Len(up) + 2
         /\ us /= << >> /\ us[Len(us)] = Watch(0)
  <1> DEFINE vs == Append(up, Unwatch)
             us == Append(vs, Watch(0))
  <1>1. /\ up \in Seq(Requests) /\ Bounded(log, up) /\ Len(up) \in Nat /\ 0 <= Len(log)
    BY Basics
  <1>2. /\ Unwatch \in Requests /\ Unwatch.token = 0
        /\ Watch(0) \in Requests /\ Watch(0).token = 0
    <2>1. 0 \in Nat
      OBVIOUS
    <2> QED
      BY <2>1, RequestFact
  <1>3. vs \in Seq(Requests) /\ Bounded(log, vs) /\ Len(vs) = Len(up) + 1
    BY <1>1, <1>2, Requested
  <1>4. up \o <<Unwatch, Watch(0)>> = us
    BY <1>1, <1>2
  <1> HIDE DEF vs
  <1>5. /\ us \in Seq(Requests) /\ Bounded(log, us) /\ Len(us) = Len(vs) + 1
        /\ us /= << >> /\ us[Len(us)] = Watch(0)
    BY <1>1, <1>2, <1>3, Requested
  <1> HIDE DEF us
  <1>6. Len(us) = Len(up) + 2
    BY <1>1, <1>3, <1>5
  <1> QED
    BY <1>4, <1>5, <1>6

(* What was collected is applied.                                          *)
LEMMA AppliedFact ==
  ASSUME state \in States, keys \in SUBSET Docs, NEW v \in Nat, NEW t,
         ApplyRemoteEvent([state EXCEPT !.token = v], t)
  PROVE  /\ keys' = Collected(keys, state) /\ keys' \in SUBSET Docs
         /\ current' = state.current /\ resume' = t
         /\ (saved' = t \/ (saved' = saved /\ Collected(keys, state) = keys))
  <1> DEFINE s == [state EXCEPT !.token = v]
             added == Changed(s, "added")
             removed == Changed(s, "removed")
             changes == added \cup removed \cup Changed(s, "modified")
  <1>1. s.changes = state.changes /\ s.current = state.current
    BY DEF States
  <1>2. /\ keys' = (keys \cup added) \ removed /\ current' = s.current /\ resume' = t
        /\ saved' \in IF resume = 0 \/ changes /= {} THEN {t} ELSE {saved, t}
    BY DEF ApplyRemoteEvent
  <1> HIDE DEF s
  <1>3. added = With(state, "added") /\ removed = With(state, "removed")
    BY <1>1 DEF Changed, With
  <1>4. saved' = t \/ (saved' = saved /\ added = {} /\ removed = {})
    BY <1>2
  <1>5. (keys \cup added) \ removed = Collected(keys, state)
    BY <1>3 DEF Collected
  <1>6. added \subseteq Docs
    BY DEF Changed
  <1> HIDE DEF added, removed
  <1> QED
    BY <1>1, <1>2, <1>4, <1>5, <1>6

(* A snapshot applies what was collected and saves the token; a reset asks *)
(* again.                                                                  *)
LEMMA SnapshotKeeps ==
  ASSUME WatchAssumption, Inv, RaiseWatchSnapshot
  PROVE  Inv'
  <1> DEFINE v == Head(down).version
             again == reset /\ listening
             s == [state EXCEPT !.token = v]
             applied == IF IsActiveTarget THEN Cleared(s) ELSE state
             us == up \o <<Unwatch, Watch(0)>>
             token == IF reset THEN 0 ELSE v
  <1>1. Types /\ Claims
    BY DEF Inv
  <1>2. /\ state \in States /\ up \in Seq(Requests) /\ Bounded(log, up)
        /\ keys \in SUBSET Docs /\ state.token <= Len(log)
        /\ saved \in 0..Len(log) /\ resume \in 0..Len(log) /\ held \in 0..Len(log)
        /\ lastRemote \in 0..Len(log)
        /\ 0 \in 0..Len(log) /\ 0 <= Len(log) /\ Len(up) \in Nat /\ Len(log) \in Nat
        /\ state.outstanding \in Int /\ down \in Seq(Msgs)
    <2>1. /\ Len(log) \in Nat /\ Len(up) \in Nat /\ state.outstanding \in Int
          /\ down \in Seq(Msgs)
      BY <1>1, Basics
    <2> QED
      BY <1>1, <2>1 DEF Types, Tokens, Stream
  <1>3. /\ down /= << >> /\ Head(down).type = "Snapshot" /\ down' = Tail(down)
        /\ UNCHANGED <<open, log, serving, listening>> /\ reset' = FALSE
        /\ lastRemote' = v
    BY DEF RaiseWatchSnapshot, Receive
  <1>4. v \in Nat /\ v <= Len(log) /\ v \in 0..Len(log) /\ open
    <2>1. v \in Nat /\ v <= Len(log) /\ open
      BY <1>1, <1>3, Taken
    <2> QED
      BY <1>2, <2>1
  <1>s. /\ s \in States /\ s.outstanding = state.outstanding /\ s.token = v
    BY <1>2, <1>4 DEF States
  <1>c. /\ Cleared(s) \in States /\ Cleared(s).outstanding = state.outstanding
        /\ Cleared(s).token = v
        /\ \A ks : Tidy(ks, Cleared(s)) /\ Collected(ks, Cleared(s)) = ks
    BY <1>s, ClearedFact
  <1>5. IsActiveTarget => ApplyRemoteEvent(s, token)
    BY <1>s DEF RaiseWatchSnapshot
  <1>6. ~IsActiveTarget => UNCHANGED <<keys, current, resume, saved>>
    BY DEF RaiseWatchSnapshot
  <1>7. /\ held' = IF again THEN 0 ELSE IF IsActiveTarget THEN s.token ELSE held
        /\ state' = IF again THEN Recorded(applied, 2) ELSE applied
        /\ up' = IF again THEN us ELSE up
    BY DEF RaiseWatchSnapshot
  <1>8. /\ slipped' \in BOOLEAN
        /\ ~slipped' => ~slipped /\ ~(again /\ ~IsActiveTarget)
    BY Zenon DEF RaiseWatchSnapshot
  <1>9. /\ us \in Seq(Requests) /\ Bounded(log, us) /\ Len(us) = Len(up) + 2
        /\ us /= << >> /\ us[Len(us)] = Watch(0)
    BY <1>1, AskedAgain
  <1>10. /\ applied \in States /\ applied.outstanding = state.outstanding
         /\ applied.token <= Len(log)
    BY <1>2, <1>4, <1>c
  <1>11. /\ Recorded(applied, 2) \in States
         /\ Recorded(applied, 2).outstanding = state.outstanding + 2
         /\ Recorded(applied, 2).token <= Len(log)
    <2>1. 2 \in Int
      OBVIOUS
    <2> QED
      BY <1>10, <2>1, RecordedFact
  <1>12. IsActiveTarget =>
           /\ keys' = Collected(keys, state) /\ keys' \in SUBSET Docs
           /\ current' = state.current /\ resume' = token
           /\ (saved' = token \/ (saved' = saved /\ Collected(keys, state) = keys))
    BY <1>2, <1>4, <1>5, AppliedFact
  <1> HIDE DEF s, us
  <1>13. Types'
    <2>1. Flags'
      <3>1. state.current \in BOOLEAN
        BY <1>2 DEF States
      <3> QED
        BY <1>1, <1>3, <1>6, <1>8, <1>12, <3>1 DEF Types, Flags
    <2>2. state' \in States /\ state'.token <= Len(log)
      BY <1>7, <1>10, <1>11
    <2>3. up' \in Seq(Requests) /\ Bounded(log, up')
      BY <1>2, <1>7, <1>9
    <2>4. keys' \in SUBSET Docs
      BY <1>2, <1>6, <1>12
    <2>5. saved' \in 0..Len(log) /\ resume' \in 0..Len(log)
      BY <1>2, <1>4, <1>6, <1>12
    <2>6. held' \in 0..Len(log)
      BY <1>2, <1>4, <1>7, <1>s
    <2> QED
      BY <1>1, <1>3, <1>4, <2>1, <2>2, <2>3, <2>4, <2>5, <2>6, ReceivedTypes
  <1>14. Claims'
    <2> SUFFICES ASSUME ~slipped'
                 PROVE  /\ Kept(log, keys)'
                        /\ (listening => held = resume)'
                        /\ Owed(state.outstanding, up, down)'
                        /\ (listening => Agrees(log, serving, keys, state, reset, up, down))'
      BY <1>3 DEF Claims
    <2>1. /\ Kept(log, keys) /\ (listening => held = resume)
          /\ Owed(state.outstanding, up, down)
          /\ (listening => Agrees(log, serving, keys, state, reset, up, down))
          /\ again => IsActiveTarget
      BY <1>1, <1>4, <1>8 DEF Claims
    <2>2. Weight(Head(down)) \in Nat /\ Owed(state.outstanding, up, Tail(down))
          /\ state.outstanding >= Weight(Head(down)) + Len(up)
      BY <1>2, <1>3, <2>1, OwedTail
    <2>3. CASE IsActiveTarget
      <3>1. listening /\ state.outstanding = 0
        BY <2>3 DEF IsActiveTarget
      <3>2. Len(up) = 0 /\ up = << >>
        BY <1>2, <2>2, <3>1
      <3>3. InStep(log, serving, keys, state, reset, down)
        BY <2>1, <3>1 DEF Agrees
      <3>4. CASE reset
        <4>1. Collected(keys, state) = {}
          BY <3>3, <3>4 DEF InStep
        <4>2. /\ keys' = {} /\ resume' = 0 /\ held' = 0 /\ up' = us
              /\ state'.outstanding = 2 /\ (saved' = 0 \/ (saved' = saved /\ keys = {}))
          BY <1>7, <1>11, <1>12, <2>3, <3>1, <3>4, <4>1
        <4>3. Kept(log, keys)'
          BY <1>3, <2>1, <4>2 DEF Kept, Of
        <4>4. Owed(2, us, Tail(down))
          <5>1. PICK k : Load(Tail(down), k) /\ 0 >= k + Len(up)
            BY <2>2, <3>1 DEF Owed
          <5>2. k \in Nat
            BY <1>1, <1>3, <5>1, LoadNat, Taken
          <5>3. 2 >= k + Len(us)
            BY <1>9, <3>2, <5>1, <5>2
          <5> QED
            BY <5>1, <5>3 DEF Owed
        <4>5. Asked(log, {}, us)
          <5>1. Watch(0).type = "Watch" /\ Watch(0).token = 0
            BY DEF Watch
          <5> QED
            BY <1>9, <5>1 DEF Asked, Of
        <4>6. Agrees(log, serving, keys', state', reset', us, Tail(down))
          BY <1>9, <4>2, <4>5 DEF Agrees
        <4> QED
          BY <1>3, <4>2, <4>3, <4>4, <4>6
      <3>5. CASE ~reset
        <4>1. /\ keys' = Collected(keys, state) /\ resume' = v /\ held' = v
              /\ up' = up /\ state' = Cleared(s)
              /\ (saved' = v \/ (saved' = saved /\ keys' = keys))
          BY <1>7, <1>12, <1>s, <2>3, <3>5
        <4>2. PICK c \in SUBSET Docs :
                /\ Step(log, Collected(keys, state), Head(down), c)
                /\ Sent(log, serving, c, Tail(down), 1)
          <5>1. Sent(log, serving, Collected(keys, state), down, 1)
            BY <3>3, <3>5 DEF InStep
          <5> QED
            BY <1>2, <1>3, <5>1, SentHead
        <4>3. c = Collected(keys, state) /\ c = Of(log, v)
          BY <1>3, <4>2 DEF Step
        <4>4. Kept(log, keys)'
          BY <1>3, <2>1, <4>1, <4>3 DEF Kept
        <4>5. state'.outstanding = 0
          BY <1>c, <3>1, <4>1
        <4>6. Owed(state'.outstanding, up, Tail(down))
          BY <2>2, <3>1, <4>5
        <4>7. InStep(log, serving, keys', state', FALSE, Tail(down))
          BY <1>c, <4>1, <4>2, <4>3 DEF InStep
        <4>8. Agrees(log, serving, keys', state', FALSE, up, Tail(down))
          BY <4>5, <4>7 DEF Agrees
        <4> QED
          BY <1>3, <4>1, <4>4, <4>6, <4>8
      <3> QED
        BY <3>4, <3>5
    <2>4. CASE ~IsActiveTarget
      <3>1. /\ UNCHANGED <<keys, resume, saved, held, state, up>>
        BY <1>6, <1>7, <2>1, <2>4
      <3>2. listening => state.outstanding /= 0
        BY <2>4 DEF IsActiveTarget
      <3>3. Kept(log, keys)' /\ (listening => held = resume)'
        BY <1>3, <2>1, <3>1 DEF Kept
      <3>4. listening => Agrees(log, serving, keys, state, FALSE, up, Tail(down))
        BY <1>2, <1>3, <2>1, <3>2, AnsweredTail DEF Agrees
      <3> QED
        BY <1>3, <2>2, <3>1, <3>3, <3>4
    <2> QED
      BY <2>3, <2>4
  <1> QED
    BY <1>13, <1>14 DEF Inv

-----------------------------------------------------------------------------
(* The snapshots that are raised and those that are not.                   *)

(* The first message is taken: if a reset waits now it was a filter, and   *)
(* the last snapshot raised is the same or that message.                   *)
LEMMA FreshTail ==
  ASSUME NEW ms \in Seq(Msgs), ms /= << >>, NEW last \in Nat, NEW rst, NEW then \in Nat,
         NEW now, Fresh(last, rst, ms), now => Head(ms).type = "Filter",
         then = last \/ then = Head(ms).version
  PROVE  Fresh(then, now, Tail(ms))
  <1> DEFINE t == Tail(ms)
             n == Len(ms)
  <1>1. /\ n \in Nat /\ n >= 1 /\ Head(ms) = ms[1] /\ Len(t) = n - 1
        /\ \A i \in 1..Len(t) : t[i] = ms[i + 1]
        /\ \A i \in 1..n : ms[i].version \in Nat
    <2>1. \A i \in 1..n : ms[i] \in Msgs
      OBVIOUS
    <2> QED
      BY <2>1, TailFact DEF Msgs
  <1> HIDE DEF t, n
  <1>2. \A i \in 1..n : ms[i].type = "Filter" => Raisable(last, ms, i + 1)
    BY DEF Fresh, n
  <1>3. ASSUME NEW i \in 1..n, ms[i].type = "Filter" PROVE Raisable(then, t, i)
    <2>1. /\ i + 1 \in 1..n /\ ms[i + 1].type = "Snapshot"
          /\ last <= ms[i + 1].version
          /\ \A k \in 1..(i + 1) : ms[k].version <= ms[i + 1].version
      BY <1>2, <1>3 DEF Raisable, n
    <2>2. i \in 1..Len(t) /\ t[i] = ms[i + 1] /\ 1 \in 1..(i + 1)
      BY <1>1, <2>1
    <2>3. then <= t[i].version
      BY <1>1, <2>1, <2>2
    <2>4. ASSUME NEW k \in 1..i PROVE t[k].version <= t[i].version
      <3>1. k \in 1..Len(t) /\ k + 1 \in 1..(i + 1)
        BY <2>2
      <3> QED
        BY <1>1, <2>1, <2>2, <3>1
    <2> QED
      BY <2>1, <2>2, <2>3, <2>4 DEF Raisable
  <1>4. now => Raisable(then, t, 1)
    <2>1. 1 \in 1..n
      BY <1>1
    <2> QED
      BY <1>1, <1>3, <2>1
  <1>5. ASSUME NEW i \in 1..Len(t), t[i].type = "Filter" PROVE Raisable(then, t, i + 1)
    <2>1. i + 1 \in 1..n /\ ms[i + 1].type = "Filter"
      BY <1>1, <1>5
    <2> QED
      BY <1>3, <2>1
  <1>6. Fresh(then, now, t)
    BY <1>4, <1>5 DEF Fresh
  <1> QED
    BY <1>6 DEF t

(* While a reset waits the next message is the snapshot it waits for.      *)
LEMMA ReadyHead ==
  ASSUME Types, Ready, reset
  PROVE  /\ down /= << >> /\ Head(down).type = "Snapshot"
         /\ Head(down).version >= lastRemote
  <1>1. /\ 1 \in 1..Len(down) /\ down[1].type = "Snapshot"
        /\ lastRemote <= down[1].version
    BY DEF Ready, Fresh, Raisable
  <1>2. down \in Seq(Msgs) /\ lastRemote \in Nat
    BY Basics
  <1>3. down /= << >> /\ Head(down) = down[1]
    BY <1>1, <1>2
  <1>4. down[1].version \in Nat
    <2>1. down[1] \in Msgs
      BY <1>1, <1>2
    <2> QED
      BY <2>1 DEF Msgs
  <1> QED
    BY <1>1, <1>2, <1>3, <1>4

(* Every message that is handled leaves the rest ready.                    *)
LEMMA ReceivedReady ==
  ASSUME Types, Ready, Client
  PROVE  Ready'
  <1>1. down /= << >> /\ down' = Tail(down)
    BY DEF Client, HandleAdded, HandleRemoved, HandleCurrent, HandleDocumentChange,
       HandleReset, HandleExistenceFilter, RaiseWatchSnapshot, SkipWatchSnapshot,
       ProcessTargetError, Receive
  <1>2. /\ down \in Seq(Msgs) /\ lastRemote \in Nat /\ Head(down).version \in Nat
        /\ reset \in BOOLEAN
    BY <1>1, Basics, Taken DEF Types, Flags
  <1>3. ASSUME Head(down).type /= "Snapshot" \/ Head(down).version < lastRemote
        PROVE  ~reset
    BY <1>2, <1>3, ReadyHead
  <1>4. /\ reset' => Head(down).type = "Filter"
        /\ lastRemote' = lastRemote \/ lastRemote' = Head(down).version
    <2>1. CASE HandleExistenceFilter
      BY <2>1 DEF HandleExistenceFilter, Receive
    <2>2. CASE RaiseWatchSnapshot
      BY <2>2 DEF RaiseWatchSnapshot
    <2>3. CASE SkipWatchSnapshot
      BY <1>3, <2>3 DEF SkipWatchSnapshot, client
    <2>4. CASE \/ HandleAdded \/ HandleRemoved \/ HandleCurrent
               \/ HandleDocumentChange \/ HandleReset \/ ProcessTargetError
      <3>1. UNCHANGED <<lastRemote, reset>> /\ Head(down).type /= "Snapshot"
        BY <2>4 DEF HandleAdded, HandleRemoved, HandleCurrent, HandleDocumentChange,
           HandleReset, ProcessTargetError, Receive
      <3> QED
        BY <1>3, <3>1
    <2> QED
      BY <2>1, <2>2, <2>3, <2>4 DEF Client
  <1>5. lastRemote' \in Nat
    BY <1>2, <1>4
  <1>6. Fresh(lastRemote', reset', Tail(down))
    BY <1>1, <1>2, <1>4, <1>5, FreshTail DEF Ready
  <1> QED
    BY <1>1, <1>6 DEF Ready

(* A snapshot that is skipped takes nothing with it: what was collected is *)
(* the result at its version, and stays collected.                         *)
LEMMA SkipKeeps ==
  ASSUME WatchAssumption, Inv, Ready, SkipWatchSnapshot
  PROVE  Inv'
  <1>1. Types /\ Claims
    BY DEF Inv
  <1>2. /\ down /= << >> /\ Head(down).type = "Snapshot" /\ down' = Tail(down)
        /\ UNCHANGED <<open, log, serving, listening, keys, saved, resume, held, lastRemote,
                       current, state, reset, slipped, up>>
        /\ Head(down).version < lastRemote
    BY DEF SkipWatchSnapshot, Receive, client, tokens
  <1>3. /\ state \in States /\ up \in Seq(Requests) /\ Bounded(log, up)
        /\ keys \in SUBSET Docs /\ state.token <= Len(log) /\ Flags'
        /\ saved \in 0..Len(log) /\ resume \in 0..Len(log) /\ held \in 0..Len(log)
        /\ lastRemote \in 0..Len(log)
    BY <1>1, <1>2 DEF Types, Flags, Tokens, Stream
  <1>4. /\ down \in Seq(Msgs) /\ Len(up) \in Nat /\ state.outstanding \in Int /\ open
        /\ reset \in BOOLEAN /\ Head(down).version \in Nat /\ lastRemote \in Nat
    BY <1>1, <1>2, Basics, Taken DEF Types, Flags
  <1>5. ~reset
    BY <1>1, <1>2, <1>4, ReadyHead
  <1>6. Types'
    BY <1>1, <1>2, <1>3, ReceivedTypes
  <1>7. Claims'
    <2> SUFFICES ASSUME ~slipped
                 PROVE  /\ Kept(log, keys) /\ (listening => held = resume)
                        /\ Owed(state.outstanding, up, Tail(down))
                        /\ (listening =>
                              Agrees(log, serving, keys, state, reset, up, Tail(down)))
      BY <1>2, <1>5 DEF Claims, Kept
    <2>1. /\ Kept(log, keys) /\ (listening => held = resume)
          /\ Owed(state.outstanding, up, down)
          /\ (listening => Agrees(log, serving, keys, state, reset, up, down))
      BY <1>1, <1>4 DEF Claims
    <2>2. Owed(state.outstanding, up, Tail(down))
      BY <1>2, <1>4, <2>1, OwedTail
    <2>3. InStep(log, serving, keys, state, reset, down)
            => InStep(log, serving, keys, state, reset, Tail(down))
      <3> SUFFICES ASSUME InStep(log, serving, keys, state, reset, down)
                   PROVE  InStep(log, serving, keys, state, reset, Tail(down))
        OBVIOUS
      <3>1. Tidy(keys, state) /\ Sent(log, serving, Collected(keys, state), down, 1)
        BY <1>5 DEF InStep
      <3>2. PICK c \in SUBSET Docs :
              /\ Step(log, Collected(keys, state), Head(down), c)
              /\ Sent(log, serving, c, Tail(down), 1)
        BY <1>2, <1>4, <3>1, SentHead
      <3>3. c = Collected(keys, state)
        BY <1>2, <3>2 DEF Step
      <3> QED
        BY <1>5, <3>1, <3>2, <3>3 DEF InStep
    <2>4. Answered(log, serving, keys, down) => Answered(log, serving, keys, Tail(down))
      BY <1>2, <1>4, AnsweredTail
    <2>5. listening => Agrees(log, serving, keys, state, reset, up, Tail(down))
      BY <2>1, <2>3, <2>4 DEF Agrees
    <2> QED
      BY <2>1, <2>2, <2>5
  <1> QED
    BY <1>6, <1>7 DEF Inv

-----------------------------------------------------------------------------
(* The server.                                                             *)

(* What is sent after ms: every filter of it has the newest snapshot after *)
(* it.                                                                     *)
LEMMA FreshCat ==
  ASSUME NEW l, Len(l) \in Nat, NEW last \in Nat, last <= Len(l), NEW rst,
         NEW ms \in Seq(Msgs), NEW ts \in Seq(Msgs), Fresh(last, rst, ms),
         Versioned(l, ms), Versioned(l, ts), Final(l, ts)
  PROVE  Fresh(last, rst, ms \o ts)
  <1> DEFINE r == ms \o ts
             m == Len(ms)
             n == Len(ts)
  <1>1. /\ m \in Nat /\ n \in Nat /\ Len(r) = m + n
        /\ \A i \in 1..m : r[i] = ms[i]
        /\ \A i \in 1..n : r[m + i] = ts[i]
    BY CatFact
  <1>2. r \in Seq(Msgs) /\ Versioned(l, r)
    BY CatFact, VersionedCat
  <1> HIDE DEF r, m, n
  <1>3. \A i \in 1..(m + n) : r[i].version <= Len(l)
    BY <1>1, <1>2 DEF Versioned
  <1>4. ASSUME NEW j, Raisable(last, ms, j) PROVE Raisable(last, r, j)
    <2>1. /\ j \in 1..m /\ ms[j].type = "Snapshot" /\ last <= ms[j].version
          /\ \A k \in 1..j : ms[k].version <= ms[j].version
      BY <1>4 DEF Raisable, m
    <2>2. j \in 1..(m + n) /\ \A k \in 1..j : k \in 1..m
      BY <1>1, <2>1
    <2> QED
      BY <1>1, <2>1, <2>2 DEF Raisable
  <1>5. ASSUME NEW i \in 1..(m + n), r[i].type = "Filter" PROVE Raisable(last, r, i + 1)
    <2>1. CASE i <= m
      <3>1. i \in 1..m
        BY <1>1, <2>1
      <3>2. Raisable(last, ms, i + 1)
        BY <1>1, <1>5, <3>1 DEF Fresh, m
      <3> QED
        BY <1>4, <3>2
    <2>2. CASE ~(i <= m)
      <3> DEFINE j == i - m
      <3>1. j \in 1..n /\ m + j = i
        BY <1>1, <2>2
      <3> HIDE DEF j
      <3>2. j < n /\ ts[j + 1].type = "Snapshot" /\ ts[j + 1].version = Len(l)
        BY <1>1, <1>5, <3>1 DEF Final, n
      <3>3. j + 1 \in 1..n /\ m + (j + 1) = i + 1 /\ i + 1 \in 1..(m + n)
        BY <1>1, <3>1, <3>2
      <3>4. r[i + 1].type = "Snapshot" /\ r[i + 1].version = Len(l)
        BY <1>1, <3>2, <3>3
      <3>5. \A k \in 1..(i + 1) : k \in 1..(m + n)
        BY <1>1, <3>3
      <3> QED
        BY <1>1, <1>3, <3>3, <3>4, <3>5 DEF Raisable
    <2> QED
      BY <2>1, <2>2
  <1>6. Fresh(last, rst, r)
    BY <1>1, <1>4, <1>5 DEF Fresh
  <1> QED
    BY <1>6 DEF r

(* The same of the client's stream.                                        *)
LEMMA ReadyCat ==
  ASSUME Types, Ready, NEW ts \in Seq(Msgs), Versioned(log, ts), Final(log, ts),
         down' = down \o ts, UNCHANGED <<lastRemote, reset>>
  PROVE  Ready'
  <1>1. /\ Len(log) \in Nat /\ lastRemote \in Nat /\ lastRemote <= Len(log)
        /\ down \in Seq(Msgs) /\ Versioned(log, down)
    BY Basics
  <1>2. Fresh(lastRemote, reset, down \o ts)
    BY <1>1, FreshCat DEF Ready
  <1> QED
    BY <1>2 DEF Ready

(* After h the messages x take a client that has a to b.                   *)
Sending(h, a, x, b) == \E ts : Segment(log, a, ts, b) /\ x = h \o ts

(* More is sent.                                                           *)
LEMMA SendingMore ==
  ASSUME NEW h \in Seq(Msgs), NEW a, NEW x, NEW b, NEW ts, NEW c,
         Sending(h, a, x, b), Segment(log, b, ts, c)
  PROVE  Sending(h, a, x \o ts, c)
  <1>1. PICK ss : Segment(log, a, ss, b) /\ x = h \o ss
    BY DEF Sending
  <1>2. Segment(log, a, ss \o ts, c)
    BY <1>1, SegmentCat
  <1>3. ss \in Seq(Msgs) /\ ts \in Seq(Msgs)
    BY <1>1 DEF Segment
  <1>4. (h \o ss) \o ts = h \o (ss \o ts)
    BY <1>3, ConcatAssociative
  <1> QED
    BY <1>1, <1>2, <1>4 DEF Sending

(* The answer to a listen with a token: what changed since, in one         *)
(* snapshot or in two.                                                     *)
LEMMA ServedFrom ==
  ASSUME WatchAssumption, LogOK, NEW h \in Seq(Msgs),
         NEW r \in 0..Len(log), NEW w \in 0..Len(log), NEW again, NEW v, v = Len(log)
  PROVE  Sending(h, Members(r),
                 h \o Diff(r, w, again)
                   \o (IF w < v THEN <<SnapshotMsg(w)>> \o Diff(w, v, {}) ELSE << >>)
                   \o <<Msg("Current")>> \o <<SnapshotMsg(v)>>, Members(v))
  <1> DEFINE x == h \o Diff(r, w, again)
             between == IF w < v THEN <<SnapshotMsg(w)>> \o Diff(w, v, {}) ELSE << >>
             y == x \o between
             z == y \o <<Msg("Current")>>
  <1>1. v \in 0..Len(log) /\ Members(v) \in SUBSET Docs /\ Members(w) \in SUBSET Docs
        /\ log \in Seq(SUBSET Docs) /\ w <= v
    BY MembersFact DEF LogOK
  <1>2. Sending(h, Members(r), x, Members(w))
    BY DiffFact DEF Sending
  <1>3. Segment(log, Members(w), between, Members(v))
    <2>1. CASE w < v
      <3>1. Segment(log, Members(w), <<SnapshotMsg(w)>>, Members(w))
        BY SnapshotFact
      <3>2. Segment(log, Members(w), Diff(w, v, {}), Members(v))
        BY <1>1, DiffFact
      <3> QED
        BY <2>1, <3>1, <3>2, SegmentCat
    <2>2. CASE ~(w < v)
      <3>1. w = v
        BY <1>1, <2>2
      <3>2. Segment(log, Members(w), << >>, Members(w))
        BY <1>1, SegmentNone
      <3> QED
        BY <2>2, <3>1, <3>2
    <2> QED
      BY <2>1, <2>2
  <1>4. Segment(log, Members(v), <<Msg("Current")>>, Members(v))
    BY <1>1, CurrentFact
  <1>5. Segment(log, Members(v), <<SnapshotMsg(v)>>, Members(v))
    BY <1>1, SnapshotFact
  <1> HIDE DEF x, between, y, z
  <1>6. Sending(h, Members(r), x \o between, Members(v))
    BY <1>2, <1>3, SendingMore
  <1>7. Sending(h, Members(r), y \o <<Msg("Current")>>, Members(v))
    BY <1>4, <1>6, SendingMore DEF y
  <1>8. Sending(h, Members(r), z \o <<SnapshotMsg(v)>>, Members(v))
    BY <1>5, <1>7, SendingMore DEF z
  <1> QED
    BY <1>8 DEF x, between, y, z

(* The answer when nothing changed since.                                  *)
LEMMA ServedSame ==
  ASSUME WatchAssumption, LogOK, NEW h \in Seq(Msgs), NEW v, v = Len(log)
  PROVE  Sending(h, Members(v), h \o <<Msg("Current")>> \o <<SnapshotMsg(v)>>, Members(v))
  <1>1. v \in 0..Len(log) /\ Members(v) \in SUBSET Docs
    BY MembersFact DEF LogOK
  <1>2. Segment(log, Members(v), <<Msg("Current")>>, Members(v))
    BY <1>1, CurrentFact
  <1>3. Segment(log, Members(v), <<SnapshotMsg(v)>>, Members(v))
    BY <1>1, SnapshotFact
  <1>4. Sending(h, Members(v), h \o <<Msg("Current")>>, Members(v))
    BY <1>2 DEF Sending
  <1> QED
    BY <1>3, <1>4, SendingMore

(* The answer that counts the documents instead of removing them.          *)
LEMMA ServedCounted ==
  ASSUME WatchAssumption, LogOK, NEW h \in Seq(Msgs), NEW r \in 0..Len(log),
         NEW v, v = Len(log)
  PROVE  /\ Sending(h, Members(r), h \o Counted(r, v) \o <<FilterMsg(v), SnapshotMsg(v)>>,
                    Members(v))
         /\ Sending(h, Members(r), h \o Counted(r, v) \o <<Msg("Current")>>
                                     \o <<FilterMsg(v), SnapshotMsg(v)>>, Members(v))
  <1> DEFINE all == Members(r) \cup Members(v)
             x == h \o Counted(r, v)
  <1>1. v \in 0..Len(log)
    BY DEF LogOK
  <1>2. /\ all \in SUBSET Docs
        /\ Segment(log, Members(r), Counted(r, v), all)
        /\ Segment(log, all, <<FilterMsg(v), SnapshotMsg(v)>>, Members(v))
    BY <1>1, CountedFact
  <1> HIDE DEF all
  <1>3. Segment(log, all, <<Msg("Current")>>, all)
    BY <1>2, CurrentFact
  <1>4. Sending(h, Members(r), x, all)
    BY <1>2 DEF Sending
  <1> HIDE DEF x
  <1>5. Sending(h, Members(r), x \o <<Msg("Current")>>, all)
    BY <1>3, <1>4, SendingMore
  <1>6. Sending(h, Members(r), x \o <<FilterMsg(v), SnapshotMsg(v)>>, Members(v))
    BY <1>2, <1>4, SendingMore
  <1>7. Sending(h, Members(r), (x \o <<Msg("Current")>>) \o <<FilterMsg(v), SnapshotMsg(v)>>,
                Members(v))
    BY <1>2, <1>5, SendingMore
  <1> QED
    BY <1>6, <1>7 DEF x

(* Two messages as a sequence.                                             *)
LEMMA TwoMsgs ==
  ASSUME NEW a \in Msgs, NEW b \in Msgs
  PROVE  <<a>> \o <<b>> = <<a, b>>
  <1> DEFINE s == <<a>> \o <<b>>
             t == <<a, b>>
  <1>1. <<a>> \in Seq(Msgs) /\ <<b>> \in Seq(Msgs)
    OBVIOUS
  <1>2. s \in Seq(Msgs) /\ Len(s) = 2 /\ s[1] = a /\ s[2] = b
    BY <1>1
  <1>3. t \in Seq(Msgs) /\ Len(t) = 2 /\ t[1] = a /\ t[2] = b
    OBVIOUS
  <1> HIDE DEF s, t
  <1>4. \A i \in 1..2 : i = 1 \/ i = 2
    OBVIOUS
  <1>5. s = t
    BY <1>2, <1>3, <1>4, SeqEqual
  <1> QED
    BY <1>5 DEF s, t

(* The answer that begins with a reset.                                    *)
LEMMA ServedAnew ==
  ASSUME WatchAssumption, LogOK, NEW h \in Seq(Msgs), NEW a \in SUBSET Docs,
         NEW v, v = Len(log)
  PROVE  Sending(h, a, h \o <<Msg("Reset")>> \o DocMsgs(Members(v), TRUE)
                         \o <<Msg("Current"), SnapshotMsg(v)>>, Members(v))
  <1> DEFINE b == Members(v)
             cs == <<Msg("Current")>> \o <<SnapshotMsg(v)>>
             x == h \o <<Msg("Reset")>>
             y == x \o DocMsgs(b, TRUE)
  <1>1. v \in 0..Len(log) /\ b \in SUBSET Docs /\ {} \in SUBSET Docs
        /\ log \in Seq(SUBSET Docs)
    BY MembersFact DEF LogOK
  <1>2. Segment(log, a, <<Msg("Reset")>>, {})
    BY ResetFact
  <1>3. Segment(log, {}, DocMsgs(b, TRUE), b)
    <2>1. Segment(log, {}, DocMsgs(b, TRUE), {} \cup b)
      BY <1>1, DocMsgsFact
    <2>2. {} \cup b = b
      OBVIOUS
    <2> QED
      BY <2>1, <2>2
  <1>4. Segment(log, b, cs, b)
    <2>1. Segment(log, b, <<Msg("Current")>>, b)
      BY <1>1, CurrentFact
    <2>2. Segment(log, b, <<SnapshotMsg(v)>>, b)
      BY <1>1, SnapshotFact
    <2> QED
      BY <2>1, <2>2, SegmentCat
  <1>5. cs = <<Msg("Current"), SnapshotMsg(v)>>
    <2>1. v \in Nat /\ "Current" \in MsgTypes
      BY <1>1 DEF LogOK, MsgTypes
    <2>2. Msg("Current") \in Msgs /\ SnapshotMsg(v) \in Msgs
      BY <2>1, MsgFact
    <2> QED
      BY <2>2, TwoMsgs
  <1> HIDE DEF b, cs
  <1>6. Sending(h, a, x, {})
    BY <1>2 DEF Sending
  <1> HIDE DEF x
  <1>7. Sending(h, a, y, b)
    BY <1>3, <1>6, SendingMore
  <1> HIDE DEF y
  <1>8. Sending(h, a, y \o cs, b)
    BY <1>4, <1>7, SendingMore
  <1> QED
    BY <1>5, <1>8 DEF x, y, b

(* A change is sent with its snapshot.                                     *)
LEMMA ServedChange ==
  ASSUME WatchAssumption, LogOK, NEW h \in Seq(Msgs), NEW r \in 0..Len(log),
         NEW v, v = Len(log)
  PROVE  Sending(h, Members(r), h \o Diff(r, v, {}) \o <<SnapshotMsg(v)>>, Members(v))
  <1>1. v \in 0..Len(log)
    BY DEF LogOK
  <1>2. Sending(h, Members(r), h \o Diff(r, v, {}), Members(v))
    BY <1>1, DiffFact DEF Sending
  <1>3. Segment(log, Members(v), <<SnapshotMsg(v)>>, Members(v))
    BY <1>1, SnapshotFact
  <1> QED
    BY <1>2, <1>3, SendingMore

(* The types after the server has sent something.                          *)
LEMMA SentTypes ==
  ASSUME Types, open, down' \in Seq(Msgs), Versioned(log, down'),
         UNCHANGED <<client, open, log>>, serving' \in 0..Len(log),
         up' \in Seq(Requests), Bounded(log, up')
  PROVE  Types'
  <1>1. UNCHANGED <<listening, keys, saved, resume, held, lastRemote, current, state, reset,
                    slipped>>
    BY DEF client, tokens
  <1>2. Flags'
    BY <1>1 DEF Types, Flags
  <1>3. Tokens'
    BY <1>1 DEF Types, Tokens, LogOK
  <1>4. Stream'
    BY <1>1 DEF Types, Stream
  <1> QED
    BY <1>2, <1>3, <1>4 DEF Types

(* The requests without the first.                                         *)
LEMMA RequestTail ==
  ASSUME NEW us \in Seq(Requests), us /= << >>, NEW l, Bounded(l, us)
  PROVE  /\ Tail(us) \in Seq(Requests) /\ Bounded(l, Tail(us))
         /\ Len(us) \in Nat /\ Len(Tail(us)) = Len(us) - 1
         /\ Head(us) \in Requests /\ Head(us).token <= Len(l)
         /\ Tail(us) = << >> => Head(us) = us[Len(us)]
         /\ Tail(us) /= << >> => Tail(us)[Len(Tail(us))] = us[Len(us)]
  <1> DEFINE t == Tail(us)
             n == Len(us)
  <1>1. /\ n \in Nat /\ n >= 1 /\ Head(us) = us[1] /\ us[1] \in Requests
        /\ t \in Seq(Requests) /\ Len(t) = n - 1
        /\ \A i \in 1..(n - 1) : t[i] = us[i + 1]
    OBVIOUS
  <1>2. \A i \in 1..n : us[i].token <= Len(l)
    BY DEF Bounded
  <1> HIDE DEF t, n
  <1>e. t = << >> => n = 1
    <2>1. t = << >> => Len(t) = 0
      OBVIOUS
    <2> QED
      BY <1>1, <2>1
  <1>3. \A i \in 1..(n - 1) : i + 1 \in 1..n
    BY <1>1
  <1>4. Bounded(l, t)
    BY <1>1, <1>2, <1>3 DEF Bounded
  <1>5. t /= << >> => n - 1 \in 1..(n - 1) /\ (n - 1) + 1 = n
    <2>1. t /= << >> => Len(t) /= 0
      BY <1>1, EmptySeq
    <2> QED
      BY <1>1, <2>1
  <1>6. t /= << >> => t[Len(t)] = us[n]
    BY <1>1, <1>5
  <1>7. t = << >> => Head(us) = us[n]
    BY <1>1, <1>e
  <1>8. Head(us).token <= Len(l)
    <2>1. 1 \in 1..n
      BY <1>1
    <2> QED
      BY <1>1, <1>2, <2>1
  <1> QED
    BY <1>1, <1>4, <1>6, <1>7, <1>8 DEF t, n

(* What is sent comes after the next message.                              *)
LEMMA PendingCat ==
  ASSUME NEW ms \in Seq(Msgs), NEW ts \in Seq(Msgs), Pending(ms)
  PROVE  Pending(ms \o ts)
  <1>1. ms /= << >> => ms \o ts /= << >> /\ Head(ms \o ts) = Head(ms)
    OBVIOUS
  <1> QED
    BY <1>1 DEF Pending

(* The server answers a request with the message m and then ts.            *)
LEMMA AnswerOwed ==
  ASSUME NEW n \in Int, NEW us \in Seq(Requests), us /= << >>, NEW ms \in Seq(Msgs),
         NEW ts \in Seq(Msgs), NEW m \in Msgs, m.type \in Answers, Load(ts, 0),
         Owed(n, us, ms)
  PROVE  Owed(n, Tail(us), (ms \o <<m>>) \o ts) /\ n > 0
  <1>1. PICK k : Load(ms, k) /\ n >= k + Len(us)
    BY DEF Owed
  <1>2. k \in Nat
    BY <1>1, LoadNat
  <1>3. Len(us) \in Nat /\ Len(us) >= 1 /\ Len(Tail(us)) = Len(us) - 1
    OBVIOUS
  <1>4. Weight(m) = 1 /\ Load(<<m>>, Weight(m)) /\ <<m>> \in Seq(Msgs)
    BY LoadOne DEF Weight
  <1>5. Load(ms \o <<m>>, k + 1)
    BY <1>1, <1>4, LoadCat
  <1>6. ms \o <<m>> \in Seq(Msgs)
    BY <1>4, CatFact
  <1>7. Load((ms \o <<m>>) \o ts, (k + 1) + 0)
    BY <1>5, <1>6, LoadCat
  <1>8. n >= ((k + 1) + 0) + Len(Tail(us)) /\ n > 0
    BY <1>1, <1>2, <1>3
  <1> QED
    BY <1>7, <1>8 DEF Owed

(* An answered request is owed as a message.                               *)
LEMMA AnswerAlone ==
  ASSUME NEW n \in Int, NEW us \in Seq(Requests), us /= << >>, NEW ms \in Seq(Msgs),
         NEW m \in Msgs, m.type \in Answers, Owed(n, us, ms)
  PROVE  Owed(n, Tail(us), ms \o <<m>>) /\ n > 0
  <1>1. << >> \in Seq(Msgs) /\ ms \o <<m>> \in Seq(Msgs) /\ \A i \in 1..Len(<< >>) : FALSE
    OBVIOUS
  <1>2. Load(<< >>, 0)
    BY <1>1, LoadNone
  <1>3. Owed(n, Tail(us), (ms \o <<m>>) \o << >>) /\ n > 0
    BY <1>1, <1>2, AnswerOwed
  <1>4. (ms \o <<m>>) \o << >> = ms \o <<m>>
    BY <1>1, ConcatEmptySeq
  <1> QED
    BY <1>3, <1>4

(* What is no answer changes nothing about what is owed.                   *)
LEMMA OwedCat ==
  ASSUME NEW n \in Int, NEW us \in Seq(Requests), NEW ms \in Seq(Msgs),
         NEW ts \in Seq(Msgs), Load(ts, 0), Owed(n, us, ms)
  PROVE  Owed(n, us, ms \o ts)
  <1>1. PICK k : Load(ms, k) /\ n >= k + Len(us)
    BY DEF Owed
  <1>2. k \in Nat /\ Load(ms \o ts, k + 0) /\ Len(us) \in Nat
    BY <1>1, LoadNat, LoadCat
  <1>3. n >= (k + 0) + Len(us)
    BY <1>1, <1>2
  <1> QED
    BY <1>2, <1>3 DEF Owed

(* A message without contents.                                             *)
LEMMA MsgIs ==
  ASSUME WatchAssumption, NEW type \in MsgTypes
  PROVE  Msg(type) \in Msgs /\ Msg(type).type = type /\ Msg(type).version = 0
  <1>1. 0 \in Nat
    OBVIOUS
  <1> QED
    BY <1>1, MsgFact

(* One message of a version the server has.                                *)
LEMMA VersionedOne ==
  ASSUME NEW m \in Msgs, NEW l, m.version <= Len(l)
  PROVE  Versioned(l, <<m>>)
  <1>1. Len(<<m>>) = 1 /\ <<m>>[1] = m /\ \A i \in 1..1 : i = 1
    OBVIOUS
  <1> QED
    BY <1>1 DEF Versioned

(* One message that is no filter.                                          *)
LEMMA FinalOne ==
  ASSUME NEW m \in Msgs, NEW l, m.type /= "Filter"
  PROVE  Final(l, <<m>>)
  <1>1. Len(<<m>>) = 1 /\ <<m>>[1] = m /\ \A i \in 1..1 : i = 1
    OBVIOUS
  <1> QED
    BY <1>1, FinalQuiet

(* The server accepts a listen.                                            *)
LEMMA ServerWatchKeeps ==
  ASSUME WatchAssumption, Inv, Ready, ServerWatch
  PROVE  Inv' /\ Ready'
  <1> DEFINE m == Msg("Added")
             h == down \o <<m>>
             r == Head(up).token
             v == Len(log)
  <1>1. Types /\ Claims
    BY DEF Inv
  <1>2. /\ LogOK /\ state.outstanding \in Int /\ keys \in SUBSET Docs
        /\ up \in Seq(Requests) /\ Bounded(log, up)
        /\ down \in Seq(Msgs) /\ Versioned(log, down)
        /\ v \in Nat /\ v >= 1 /\ v \in 0..Len(log)
    <2>1. Len(log) \in Nat /\ Len(log) >= 1
      BY <1>1, Basics
    <2> QED
      BY <1>1, <2>1, Basics
  <1>3. /\ up /= << >> /\ Head(up).type = "Watch" /\ serving' = v /\ up' = Tail(up)
        /\ UNCHANGED <<client, open, log>>
    BY DEF ServerWatch
  <1>4. /\ up' \in Seq(Requests) /\ Bounded(log, up')
        /\ Head(up) \in Requests /\ r <= v
        /\ up' = << >> => Head(up) = up[Len(up)]
        /\ up' /= << >> => up'[Len(up')] = up[Len(up)]
    BY <1>2, <1>3, RequestTail
  <1>5. r \in 0..Len(log) /\ r \in Nat
    BY <1>2, <1>4 DEF Requests
  <1>6. m \in Msgs /\ m.type = "Added" /\ m.version = 0 /\ m.type \in Answers
    <2>1. "Added" \in MsgTypes
      BY DEF MsgTypes
    <2> QED
      BY <2>1, MsgIs DEF Answers
  <1>7. h \in Seq(Msgs) /\ <<m>> \in Seq(Msgs) /\ Versioned(log, h)
    <2>1. <<m>> \in Seq(Msgs) /\ h \in Seq(Msgs)
      BY <1>2, <1>6
    <2>2. Versioned(log, <<m>>)
      BY <1>2, <1>6, VersionedOne
    <2> HIDE DEF m
    <2>3. Versioned(log, down \o <<m>>)
      BY <1>2, <2>1, <2>2, VersionedCat
    <2> QED
      BY <2>1, <2>3
  <1>8. Sending(h, Members(r), down', Members(v))
    <2>1. CASE \E w \in (r + 1)..v, again \in {{}, Docs} :
                 down' = h \o Diff(r, w, again)
                          \o (IF w < v THEN <<SnapshotMsg(w)>> \o Diff(w, v, {})
                              ELSE << >>)
                          \o <<Msg("Current")>> \o <<SnapshotMsg(v)>>
      <3>1. PICK w \in (r + 1)..v, again \in {{}, Docs} :
                 down' = h \o Diff(r, w, again)
                          \o (IF w < v THEN <<SnapshotMsg(w)>> \o Diff(w, v, {})
                              ELSE << >>)
                          \o <<Msg("Current")>> \o <<SnapshotMsg(v)>>
        BY <2>1
      <3>2. w \in 0..Len(log)
        BY <1>2, <1>5
      <3> HIDE DEF h, r, v
      <3>3. v = Len(log)
        BY DEF v
      <3> QED
        BY <1>2, <1>5, <1>7, <3>1, <3>2, <3>3, ServedFrom
    <2>2. CASE r = v /\ down' = h \o <<Msg("Current")>> \o <<SnapshotMsg(v)>>
      <3> HIDE DEF h, r
      <3> QED
        BY <1>2, <1>7, <2>2, ServedSame
    <2>3. CASE down' = h \o Counted(r, v) \o <<Msg("Current")>>
                         \o <<FilterMsg(v), SnapshotMsg(v)>>
      <3> HIDE DEF h, r
      <3> QED
        BY <1>2, <1>5, <1>7, <2>3, ServedCounted
    <2> QED
      BY <2>1, <2>2, <2>3 DEF ServerWatch
  <1>9. PICK ts : Segment(log, Members(r), ts, Members(v)) /\ down' = h \o ts
    BY <1>8 DEF Sending
  <1>10. Members(r) = Of(log, r) /\ Members(v) = Of(log, v)
    BY <1>2, <1>5, MembersFact
  <1>11. /\ ts \in Seq(Msgs) /\ Versioned(log, ts)
         /\ Follows(log, Of(log, r), ts, 1, Of(log, v))
         /\ Segment(log, Of(log, r), ts, Of(log, v))
    BY <1>9, <1>10 DEF Segment
  <1>12. down' \in Seq(Msgs) /\ Versioned(log, down')
    <2>1. h \o ts \in Seq(Msgs)
      BY <1>7, <1>11, CatFact
    <2> QED
      BY <1>7, <1>9, <1>11, <2>1, VersionedCat
  <1>13. open
    BY <1>1, <1>3 DEF Types, Flags, Stream
  <1>14. Types'
    BY <1>1, <1>2, <1>3, <1>4, <1>12, <1>13, SentTypes
  <1>f. Ready'
    <2> DEFINE us == <<m>> \o ts
    <2>1. down' = down \o us /\ us \in Seq(Msgs)
      BY <1>2, <1>7, <1>9, <1>11, CatFact, ConcatAssociative
    <2>2. Versioned(log, us) /\ Final(log, us)
      <3>1. Versioned(log, <<m>>) /\ Final(log, <<m>>)
        BY <1>2, <1>6, VersionedOne, FinalOne
      <3>2. Final(log, ts)
        BY <1>11 DEF Segment
      <3> QED
        BY <1>7, <1>11, <3>1, <3>2, VersionedCat, FinalCat
    <2>3. UNCHANGED <<lastRemote, reset>>
      BY <1>3 DEF client
    <2> HIDE DEF us
    <2> QED
      BY <1>1, <2>1, <2>2, <2>3, ReadyCat
  <1>15. Claims'
    <2>0. UNCHANGED <<listening, keys, saved, resume, held, lastRemote, current, state, reset,
                    slipped>>
      BY <1>3 DEF client, tokens
    <2> HIDE DEF r, v, m
    <2> SUFFICES ASSUME ~slipped'
                 PROVE  /\ Kept(log, keys)'
                        /\ (listening => held = resume)'
                        /\ Owed(state.outstanding, up, down)'
                        /\ (reset => Pending(down))'
                        /\ (listening /\ open =>
                              Agrees(log, serving, keys, state, reset, up, down))'
      BY DEF Claims
    <2>1. /\ Kept(log, keys) /\ (listening => held = resume)
          /\ Owed(state.outstanding, up, down) /\ (reset => Pending(down))
          /\ (listening => Agrees(log, serving, keys, state, reset, up, down))
      BY <1>1, <1>13, <2>0 DEF Claims
    <2>2. Kept(log, keys)' /\ (listening => held = resume)'
      BY <1>3, <2>0, <2>1 DEF Kept
    <2>3. Owed(state.outstanding, up', down') /\ state.outstanding > 0
      <3>1. Load(ts, 0)
        BY <1>11, FollowsQuiet
      <3> QED
        BY <1>2, <1>3, <1>6, <1>9, <1>11, <2>1, <3>1, AnswerOwed
    <2>4. reset => Pending(down')
      BY <1>2, <1>7, <1>9, <1>11, <2>1, PendingCat
    <2>5. listening => Asked(log, keys, up)
      BY <1>2, <1>3, <2>1, <2>3 DEF Agrees
    <2>6. listening /\ up' /= << >> => Asked(log, keys, up')
      BY <1>4, <2>5 DEF Asked
    <2>7. listening /\ up' = << >> => Answered(log, v, keys, down')
      <3> SUFFICES ASSUME listening, up' = << >> PROVE Answered(log, v, keys, down')
        OBVIOUS
      <3>1. Of(log, r) = keys
        BY <1>4, <2>5 DEF Asked, r
      <3>2. v /= 0
        BY <1>2 DEF v
      <3> QED
        BY <1>2, <1>6, <1>9, <1>11, <3>1, <3>2, AnswersWatch
    <2>8. listening => Agrees(log, v, keys, state, reset, up', down')
      BY <2>3, <2>6, <2>7 DEF Agrees
    <2> QED
      BY <1>3, <2>0, <2>2, <2>3, <2>4, <2>8 DEF v
  <1> QED
    BY <1>14, <1>15, <1>f DEF Inv

(* The server accepts the end of a listen.                                 *)
LEMMA ServerUnwatchKeeps ==
  ASSUME WatchAssumption, Inv, Ready, ServerUnwatch
  PROVE  Inv' /\ Ready'
  <1> DEFINE m == Msg("Removed")
             h == down \o <<m>>
  <1>1. Types /\ Claims
    BY DEF Inv
  <1>2. /\ state.outstanding \in Int /\ up \in Seq(Requests) /\ Bounded(log, up)
        /\ down \in Seq(Msgs) /\ Versioned(log, down) /\ Len(log) \in Nat
    BY <1>1, Basics
  <1>3. /\ up /= << >> /\ Head(up).type = "Unwatch" /\ serving' = 0 /\ up' = Tail(up)
        /\ UNCHANGED <<client, open, log>> /\ down' = Append(down, m)
    BY DEF ServerUnwatch
  <1>4. /\ up' \in Seq(Requests) /\ Bounded(log, up')
        /\ up' = << >> => Head(up) = up[Len(up)]
        /\ up' /= << >> => up'[Len(up')] = up[Len(up)]
    BY <1>2, <1>3, RequestTail
  <1>6. m \in Msgs /\ m.version = 0 /\ m.type \in Answers /\ m.type /= "Filter"
    <2>1. "Removed" \in MsgTypes
      BY DEF MsgTypes
    <2> QED
      BY <2>1, MsgIs DEF Answers
  <1> HIDE DEF m
  <1>7. h \in Seq(Msgs) /\ <<m>> \in Seq(Msgs) /\ Versioned(log, h) /\ down' = h
    <2>1. <<m>> \in Seq(Msgs) /\ h \in Seq(Msgs)
      BY <1>2, <1>6
    <2>2. Versioned(log, <<m>>)
      BY <1>2, <1>6, VersionedOne
    <2>3. Append(down, m) = h
      BY <1>2, <1>6, AppendIsConcat
    <2> QED
      BY <1>2, <1>3, <2>1, <2>2, <2>3, VersionedCat
  <1> HIDE DEF h
  <1>13. open /\ 0 \in 0..Len(log)
    BY <1>1, <1>2, <1>3 DEF Types, Flags, Stream
  <1>14. Types'
    BY <1>1, <1>3, <1>4, <1>7, <1>13, SentTypes
  <1>f. Ready'
    <2>1. Versioned(log, <<m>>) /\ Final(log, <<m>>)
      BY <1>2, <1>6, VersionedOne, FinalOne
    <2>2. UNCHANGED <<lastRemote, reset>> /\ down' = down \o <<m>>
      BY <1>3, <1>7 DEF client, h
    <2> QED
      BY <1>1, <1>7, <2>1, <2>2, ReadyCat
  <1>15. Claims'
    <2>0. UNCHANGED <<listening, keys, saved, resume, held, lastRemote, current, state, reset,
                    slipped>>
      BY <1>3 DEF client, tokens
    <2> SUFFICES ASSUME ~slipped'
                 PROVE  /\ Kept(log, keys)'
                        /\ (listening => held = resume)'
                        /\ Owed(state.outstanding, up, down)'
                        /\ (reset => Pending(down))'
                        /\ (listening /\ open =>
                              Agrees(log, serving, keys, state, reset, up, down))'
      BY DEF Claims
    <2>1. /\ Kept(log, keys) /\ (listening => held = resume)
          /\ Owed(state.outstanding, up, down) /\ (reset => Pending(down))
          /\ (listening => Agrees(log, serving, keys, state, reset, up, down))
      BY <1>1, <1>13, <2>0 DEF Claims
    <2>2. Kept(log, keys)' /\ (listening => held = resume)'
      BY <1>3, <2>0, <2>1 DEF Kept
    <2>3. Owed(state.outstanding, up', down') /\ state.outstanding > 0
      BY <1>2, <1>3, <1>6, <1>7, <2>1, AnswerAlone DEF h
    <2>4. reset => Pending(down')
      BY <1>2, <1>7, <2>1, PendingCat DEF h
    <2>5. listening => Asked(log, keys, up)
      BY <1>2, <1>3, <2>1, <2>3 DEF Agrees
    <2>6. listening => up' /= << >>
      BY <1>3, <1>4, <2>5 DEF Asked
    <2>7. listening => Asked(log, keys, up')
      BY <1>4, <2>5, <2>6 DEF Asked
    <2>8. listening => Agrees(log, serving', keys, state, reset, up', down')
      BY <2>3, <2>6, <2>7 DEF Agrees
    <2> QED
      BY <1>3, <2>0, <2>2, <2>3, <2>4, <2>8
  <1> QED
    BY <1>14, <1>15, <1>f DEF Inv

(* The server rejects a listen.                                            *)
LEMMA ServerRejectKeeps ==
  ASSUME WatchAssumption, Inv, Ready, ServerReject
  PROVE  Inv' /\ Ready'
  <1> DEFINE m == Msg("Error")
             h == down \o <<m>>
  <1>1. Types /\ Claims
    BY DEF Inv
  <1>2. /\ state.outstanding \in Int /\ up \in Seq(Requests) /\ Bounded(log, up)
        /\ down \in Seq(Msgs) /\ Versioned(log, down) /\ Len(log) \in Nat
        /\ serving \in 0..Len(log)
    <2>1. Len(log) \in Nat
      BY <1>1, Basics
    <2> QED
      BY <1>1, <2>1, Basics
  <1>3. /\ up /= << >> /\ up' = Tail(up)
        /\ UNCHANGED <<client, open, log, serving>> /\ down' = Append(down, m)
    BY DEF ServerReject
  <1>4. /\ up' \in Seq(Requests) /\ Bounded(log, up')
        /\ up' /= << >> => up'[Len(up')] = up[Len(up)]
    BY <1>2, <1>3, RequestTail
  <1>6. m \in Msgs /\ m.version = 0 /\ m.type \in Answers /\ m.type = "Error"
    <2>1. "Error" \in MsgTypes
      BY DEF MsgTypes
    <2> QED
      BY <2>1, MsgIs DEF Answers
  <1> HIDE DEF m
  <1>7. h \in Seq(Msgs) /\ <<m>> \in Seq(Msgs) /\ Versioned(log, h) /\ down' = h
    <2>1. <<m>> \in Seq(Msgs) /\ h \in Seq(Msgs)
      BY <1>2, <1>6
    <2>2. Versioned(log, <<m>>)
      BY <1>2, <1>6, VersionedOne
    <2>3. Append(down, m) = h
      BY <1>2, <1>6, AppendIsConcat
    <2> QED
      BY <1>2, <1>3, <2>1, <2>2, <2>3, VersionedCat
  <1> HIDE DEF h
  <1>13. open
    BY <1>1, <1>3 DEF Types, Flags, Stream
  <1>14. Types'
    BY <1>1, <1>2, <1>3, <1>4, <1>7, <1>13, SentTypes
  <1>f. Ready'
    <2>1. Versioned(log, <<m>>) /\ Final(log, <<m>>)
      BY <1>2, <1>6, VersionedOne, FinalOne
    <2>2. UNCHANGED <<lastRemote, reset>> /\ down' = down \o <<m>>
      BY <1>3, <1>7 DEF client, h
    <2> QED
      BY <1>1, <1>7, <2>1, <2>2, ReadyCat
  <1>15. Claims'
    <2>0. UNCHANGED <<listening, keys, saved, resume, held, lastRemote, current, state, reset,
                    slipped>>
      BY <1>3 DEF client, tokens
    <2> SUFFICES ASSUME ~slipped'
                 PROVE  /\ Kept(log, keys)'
                        /\ (listening => held = resume)'
                        /\ Owed(state.outstanding, up, down)'
                        /\ (reset => Pending(down))'
                        /\ (listening /\ open =>
                              Agrees(log, serving, keys, state, reset, up, down))'
      BY DEF Claims
    <2>1. /\ Kept(log, keys) /\ (listening => held = resume)
          /\ Owed(state.outstanding, up, down) /\ (reset => Pending(down))
          /\ (listening => Agrees(log, serving, keys, state, reset, up, down))
      BY <1>1, <1>13, <2>0 DEF Claims
    <2>2. Kept(log, keys)' /\ (listening => held = resume)'
      BY <1>3, <2>0, <2>1 DEF Kept
    <2>3. Owed(state.outstanding, up', down') /\ state.outstanding > 0
      BY <1>2, <1>3, <1>6, <1>7, <2>1, AnswerAlone DEF h
    <2>4. reset => Pending(down')
      BY <1>2, <1>7, <2>1, PendingCat DEF h
    <2>5. listening => Asked(log, keys, up)
      BY <1>2, <1>3, <2>1, <2>3 DEF Agrees
    <2>6. listening /\ up' /= << >> => Asked(log, keys, up')
      BY <1>4, <2>5 DEF Asked
    <2>7. Answered(log, serving, keys, down')
      BY <1>2, <1>3, <1>6, RejectsWatch
    <2>8. listening => Agrees(log, serving, keys, state, reset, up', down')
      BY <2>3, <2>6, <2>7 DEF Agrees
    <2> QED
      BY <1>3, <2>0, <2>2, <2>3, <2>4, <2>8
  <1> QED
    BY <1>14, <1>15, <1>f DEF Inv

(* The server sends what has changed.                                      *)
LEMMA SendKeeps ==
  ASSUME WatchAssumption, Inv, Ready, open, UNCHANGED <<client, open, up, log>>,
         NEW ts, Segment(log, Members(serving), ts, Members(serving')), down' = down \o ts,
         serving' \in 0..Len(log), serving /= 0, serving' /= 0
  PROVE  Inv' /\ Ready'
  <1>1. Types /\ Claims
    BY DEF Inv
  <1>2. /\ state.outstanding \in Int /\ up \in Seq(Requests) /\ Bounded(log, up)
        /\ down \in Seq(Msgs) /\ Versioned(log, down) /\ LogOK /\ serving \in 0..Len(log)
    <2>1. Len(log) \in Nat
      BY <1>1, Basics
    <2> QED
      BY <1>1, <2>1, Basics
  <1>3. Members(serving) = Of(log, serving) /\ Members(serving') = Of(log, serving')
    BY <1>2, MembersFact
  <1>4. /\ ts \in Seq(Msgs) /\ Versioned(log, ts)
        /\ Follows(log, Of(log, serving), ts, 1, Of(log, serving'))
        /\ Segment(log, Of(log, serving), ts, Of(log, serving'))
    BY <1>3 DEF Segment
  <1>5. down' \in Seq(Msgs) /\ Versioned(log, down')
    <2>1. down \o ts \in Seq(Msgs)
      BY <1>2, <1>4, CatFact
    <2> QED
      BY <1>2, <1>4, <2>1, VersionedCat
  <1>6. Types'
    BY <1>1, <1>2, <1>5, SentTypes
  <1>f. Ready'
    <2>1. UNCHANGED <<lastRemote, reset>> /\ Final(log, ts)
      BY <1>4 DEF client, Segment
    <2> QED
      BY <1>1, <1>4, <2>1, ReadyCat
  <1>7. Claims'
    <2>0. UNCHANGED <<listening, keys, saved, resume, held, lastRemote, current, state, reset,
                    slipped>>
      BY DEF client, tokens
    <2> SUFFICES ASSUME ~slipped'
                 PROVE  /\ Kept(log, keys)'
                        /\ (listening => held = resume)'
                        /\ Owed(state.outstanding, up, down)'
                        /\ (reset => Pending(down))'
                        /\ (listening /\ open =>
                              Agrees(log, serving, keys, state, reset, up, down))'
      BY DEF Claims
    <2>1. /\ Kept(log, keys) /\ (listening => held = resume)
          /\ Owed(state.outstanding, up, down) /\ (reset => Pending(down))
          /\ (listening => Agrees(log, serving, keys, state, reset, up, down))
      BY <1>1, <2>0 DEF Claims
    <2>2. Kept(log, keys)' /\ (listening => held = resume)'
      BY <2>0, <2>1 DEF Kept
    <2>3. Load(ts, 0)
      BY <1>4, FollowsQuiet
    <2>4. Owed(state.outstanding, up, down \o ts)
      BY <1>2, <1>4, <2>1, <2>3, OwedCat
    <2>5. reset => Pending(down \o ts)
      BY <1>2, <1>4, <2>1, PendingCat
    <2>6. \A a, p : Sent(log, serving, a, down, p) => Sent(log, serving', a, down \o ts, p)
      BY <1>2, <1>4, SentCat
    <2>7. Quiet(ts, 1)
      BY <1>4, FollowsQuietly
    <2>8. Answered(log, serving, keys, down) => Answered(log, serving', keys, down \o ts)
      BY <1>2, <1>4, <2>6, <2>7, AnsweredCat
    <2>9. InStep(log, serving, keys, state, reset, down)
            => InStep(log, serving', keys, state, reset, down \o ts)
      BY <2>6 DEF InStep
    <2>10. listening => Agrees(log, serving', keys, state, reset, up, down \o ts)
      BY <2>1, <2>8, <2>9 DEF Agrees
    <2> QED
      BY <2>0, <2>2, <2>4, <2>5, <2>10
  <1> QED
    BY <1>6, <1>7, <1>f DEF Inv

(* A snapshot of a stream that serves no target.                           *)
LEMMA IdleKeeps ==
  ASSUME WatchAssumption, Inv, Ready, open, UNCHANGED <<client, open, up, log, serving>>,
         serving = 0, down = << >>, down' = <<SnapshotMsg(Len(log))>>
  PROVE  Inv' /\ Ready'
  <1> DEFINE m == SnapshotMsg(Len(log))
             ts == <<m>>
  <1>1. Types /\ Claims
    BY DEF Inv
  <1>2. /\ state.outstanding \in Int /\ up \in Seq(Requests) /\ Bounded(log, up)
        /\ down \in Seq(Msgs) /\ serving \in 0..Len(log) /\ Len(log) \in Nat
    <2>1. Len(log) \in Nat
      BY <1>1, Basics
    <2> QED
      BY <1>1, <2>1, Basics
  <1>3. m \in Msgs /\ m.type = "Snapshot" /\ m.version = Len(log)
    <2>1. "Added" \in MsgTypes
      BY DEF MsgTypes
    <2> QED
      BY <1>2, <2>1, MsgFact
  <1> HIDE DEF m
  <1>4. ts \in Seq(Msgs) /\ Len(ts) = 1 /\ ts[1] = m /\ Versioned(log, ts)
    <2>1. ts \in Seq(Msgs) /\ Len(ts) = 1 /\ ts[1] = m
      BY <1>3
    <2>2. Versioned(log, ts)
      BY <1>2, <1>3, VersionedOne
    <2> QED
      BY <2>1, <2>2
  <1>5. down' = ts
    BY DEF m
  <1> HIDE DEF ts
  <1>6. Types'
    BY <1>1, <1>2, <1>4, <1>5, SentTypes
  <1>f. Ready'
    <2>1. reset' = reset /\ \A i \in 1..1 : i = 1
      BY DEF client
    <2>2. ~reset
      BY <1>1, ReadyHead
    <2>3. \A i \in 1..Len(ts) : ts[i].type /= "Filter"
      BY <1>3, <1>4, <2>1
    <2> QED
      BY <1>5, <2>1, <2>2, <2>3 DEF Ready, Fresh
  <1>7. Claims'
    <2>0. UNCHANGED <<listening, keys, saved, resume, held, lastRemote, current, state, reset,
                    slipped>>
      BY DEF client, tokens
    <2> SUFFICES ASSUME ~slipped'
                 PROVE  /\ Kept(log, keys)'
                        /\ (listening => held = resume)'
                        /\ Owed(state.outstanding, up, down)'
                        /\ (reset => Pending(down))'
                        /\ (listening /\ open =>
                              Agrees(log, serving, keys, state, reset, up, down))'
      BY DEF Claims
    <2>1. /\ Kept(log, keys) /\ (listening => held = resume)
          /\ Owed(state.outstanding, up, down) /\ ~reset
          /\ (listening => Agrees(log, serving, keys, state, reset, up, down))
      BY <1>1, <2>0 DEF Claims, Pending
    <2>2. Kept(log, keys)' /\ (listening => held = resume)'
      BY <2>0, <2>1 DEF Kept
    <2>3. (\A i \in 1..1 : i = 1) /\ m.type \notin Answers
      BY <1>3 DEF Answers
    <2>4. Load(ts, 0) /\ Quiet(ts, 1)
      BY <1>4, <2>3, LoadNone DEF Quiet
    <2>5. Owed(state.outstanding, up, ts)
      <3>1. PICK k : Load(down, k) /\ state.outstanding >= k + Len(up)
        BY <2>1 DEF Owed
      <3>2. k \in Nat /\ Len(up) \in Nat
        <4>1. k \in Nat
          BY <1>2, <3>1, LoadNat
        <4>2. Len(up) \in Nat
          BY <1>1, Basics
        <4> QED
          BY <4>1, <4>2
      <3>3. state.outstanding >= 0 + Len(up)
        BY <1>2, <3>1, <3>2
      <3> QED
        BY <2>4, <3>3 DEF Owed
    <2>6. listening => state.outstanding /= 0
      BY <2>1 DEF Agrees, InStep, Sent
    <2>7. listening => Agrees(log, serving, keys, state, reset, up, ts)
      BY <2>1, <2>4, <2>6 DEF Agrees, Answered
    <2> QED
      BY <1>5, <2>0, <2>1, <2>2, <2>5, <2>7
  <1> QED
    BY <1>6, <1>7, <1>f DEF Inv

(* The server sends what has changed, or a snapshot.                       *)
LEMMA ServerSendKeeps ==
  ASSUME WatchAssumption, Inv, Ready, ServerSend
  PROVE  Inv' /\ Ready'
  <1> DEFINE v == Len(log)
             r == serving
  <1>1. Types /\ LogOK /\ down \in Seq(Msgs) /\ v \in Nat /\ v >= 1 /\ r \in Nat
    BY Basics DEF Inv
  <1>2. r \in 0..Len(log) /\ v \in 0..Len(log) /\ v /= 0
    <2>1. serving \in 0..Len(log)
      BY <1>1 DEF Types, Tokens
    <2> QED
      BY <1>1, <2>1
  <1>3. open /\ UNCHANGED <<client, open, up, log>>
    BY DEF ServerSend
  <1>4. ASSUME serving > 0, Sending(down, Members(r), down', Members(v))
        PROVE  Inv' /\ Ready'
    <2>1. PICK ts : Segment(log, Members(r), ts, Members(v)) /\ down' = down \o ts
      BY <1>4 DEF Sending
    <2>2. serving' = v /\ serving /= 0
      BY <1>1, <1>4 DEF ServerSend
    <2> HIDE DEF v
    <2> QED
      BY <1>2, <1>3, <2>1, <2>2, SendKeeps
  <1>5. CASE serving > 0 /\ down' = down \o Diff(r, v, {}) \o <<SnapshotMsg(v)>>
    <2>1. Sending(down, Members(r), down \o Diff(r, v, {}) \o <<SnapshotMsg(v)>>, Members(v))
      BY <1>1, <1>2, ServedChange
    <2> QED
      BY <1>4, <1>5, <2>1
  <1>6. CASE /\ serving > 0
             /\ down' = down \o Counted(r, v) \o <<FilterMsg(v), SnapshotMsg(v)>>
    <2>1. Sending(down, Members(r), down \o Counted(r, v) \o <<FilterMsg(v), SnapshotMsg(v)>>,
                  Members(v))
      BY <1>1, <1>2, ServedCounted
    <2> QED
      BY <1>4, <1>6, <2>1
  <1>7. CASE /\ serving > 0
             /\ down' = down \o <<Msg("Reset")>> \o DocMsgs(Members(v), TRUE)
                          \o <<Msg("Current"), SnapshotMsg(v)>>
    <2>1. Members(r) \in SUBSET Docs
      BY <1>1, <1>2, MembersFact
    <2>2. Sending(down, Members(r), down \o <<Msg("Reset")>> \o DocMsgs(Members(v), TRUE)
                          \o <<Msg("Current"), SnapshotMsg(v)>>, Members(v))
      BY <1>1, <2>1, ServedAnew
    <2> QED
      BY <1>4, <1>7, <2>2
  <1>8. CASE serving = 0 /\ down = << >> /\ down' = <<SnapshotMsg(v)>>
    <2>1. serving' = serving
      BY <1>8 DEF ServerSend
    <2> QED
      BY <1>3, <1>8, <2>1, IdleKeeps
  <1> QED
    BY <1>5, <1>6, <1>7, <1>8 DEF ServerSend

(* Somebody changes which documents match.                                 *)
LEMMA ServerChangeKeeps ==
  ASSUME WatchAssumption, Inv, NEW m \in SUBSET Docs, ServerChange(m)
  PROVE  Inv'
  <1> DEFINE l == Append(log, m)
             n == Len(log)
  <1>1. Types /\ Claims
    BY DEF Inv
  <1>2. /\ log \in Seq(SUBSET Docs) /\ n \in Nat /\ n >= 1
        /\ down \in Seq(Msgs) /\ Versioned(log, down)
        /\ up \in Seq(Requests) /\ Bounded(log, up)
    BY <1>1, Basics
  <1>3. /\ log' = l /\ UNCHANGED <<listening, keys, saved, resume, held, lastRemote, current,
                                   state, reset, slipped, open, up, down, serving>>
    BY DEF ServerChange, client, tokens
  <1>4. l \in Seq(SUBSET Docs) /\ Len(l) = n + 1
    BY <1>2
  <1>5. \A v \in 0..n : Of(l, v) = Of(log, v)
    BY <1>2, OfAppend
  <1> HIDE DEF l
  <1>t. /\ saved \in 0..n /\ resume \in 0..n /\ held \in 0..n /\ lastRemote \in 0..n
        /\ serving \in 0..n
    BY <1>1 DEF Types, Tokens
  <1> HIDE DEF n
  <1>6. \A i \in 1..Len(down) : down[i].version \in 0..n
    <2> TAKE i \in 1..Len(down)
    <2>1. down[i] \in Msgs
      BY <1>2
    <2>2. down[i].version \in Nat /\ down[i].version <= n
      BY <1>2, <2>1 DEF Versioned, Msgs, n
    <2> QED
      BY <1>2, <2>2
  <1>7. \A i \in 1..Len(up) : up[i].token \in 0..n
    <2> TAKE i \in 1..Len(up)
    <2>1. up[i] \in Requests
      BY <1>2
    <2>2. up[i].token \in Nat /\ up[i].token <= n
      BY <1>2, <2>1 DEF Bounded, Requests, n
    <2> QED
      BY <1>2, <2>2
  <1>8. Types'
    <2>1. Flags'
      BY <1>1, <1>3 DEF Types, Flags
    <2>2. Tokens'
      <3>1. keys \in SUBSET Docs
        BY <1>1, Basics
      <3>2. \A x : x \in 0..n => x \in 0..Len(l)
        BY <1>2, <1>4
      <3> QED
        BY <1>2, <1>3, <1>4, <1>t, <3>1, <3>2 DEF Tokens, LogOK
    <2>3. Versioned(l, down)
      BY <1>2, <1>4, <1>6 DEF Versioned
    <2>4. Bounded(l, up)
      BY <1>2, <1>4, <1>7 DEF Bounded
    <2>5. state \in States /\ state.token <= Len(l)
      <3>1. state \in States /\ state.token <= n /\ state.token \in Nat
        BY <1>1 DEF Types, Stream, States, n
      <3> QED
        BY <1>2, <1>4, <3>1
    <2>6. Stream'
      BY <1>1, <1>2, <1>3, <2>3, <2>4, <2>5 DEF Types, Stream
    <2> QED
      BY <2>1, <2>2, <2>6 DEF Types
  <1>9. Claims'
    <2> SUFFICES ASSUME ~slipped'
                 PROVE  /\ Kept(log, keys)'
                        /\ (listening => held = resume)'
                        /\ Owed(state.outstanding, up, down)'
                        /\ (reset => Pending(down))'
                        /\ (listening /\ open =>
                              Agrees(log, serving, keys, state, reset, up, down))'
      BY DEF Claims
    <2>1. /\ Kept(log, keys) /\ (listening => held = resume)
          /\ Owed(state.outstanding, up, down) /\ (reset => Pending(down))
          /\ (listening /\ open => Agrees(log, serving, keys, state, reset, up, down))
      BY <1>1, <1>3 DEF Claims
    <2>2. Kept(l, keys)
      BY <1>5, <1>t, <2>1 DEF Kept
    <2>3. Kept(log, keys)'
      BY <1>3, <2>2 DEF Kept
    <2>4. \A a, p : Sent(log, serving, a, down, p) => Sent(l, serving, a, down, p)
      <3>1. Of(l, serving) = Of(log, serving)
        BY <1>5, <1>t
      <3>2. \A i \in 1..Len(down) : Of(l, down[i].version) = Of(log, down[i].version)
        BY <1>5, <1>6
      <3> QED
        BY <1>2, <3>1, <3>2, SentLog
    <2>5. up /= << >> /\ Asked(log, keys, up) => Asked(l, keys, up)
      <3>1. up /= << >> => Len(up) \in 1..Len(up)
        BY <1>2
      <3> QED
        BY <1>5, <1>7, <3>1 DEF Asked
    <2>6. Answered(log, serving, keys, down) => Answered(l, serving, keys, down)
      BY <2>4 DEF Answered, Accepted
    <2>7. InStep(log, serving, keys, state, reset, down) => InStep(l, serving, keys, state, reset, down)
      BY <2>4 DEF InStep
    <2>8. listening /\ open => Agrees(l, serving, keys, state, reset, up, down)
      BY <2>1, <2>5, <2>6, <2>7 DEF Agrees
    <2> QED
      BY <1>3, <2>1, <2>3, <2>8
  <1> QED
    BY <1>8, <1>9 DEF Inv

-----------------------------------------------------------------------------
(* The theorems.                                                           *)

(* Nothing happens.                                                        *)
LEMMA StutterKeeps ==
  ASSUME Inv, UNCHANGED vars
  PROVE  Inv'
  <1>1. /\ UNCHANGED <<listening, keys, saved, resume, held, lastRemote, current, state,
                       reset, slipped, open, up, down, log, serving>>
    BY DEF vars, client, tokens
  <1>2. Types /\ Claims
    BY DEF Inv
  <1>3. Types'
    BY <1>1, <1>2 DEF Types, Flags, Tokens, Stream, LogOK
  <1>4. Claims'
    BY <1>1, <1>2 DEF Claims, Kept
  <1> QED
    BY <1>3, <1>4 DEF Inv

(* A step that leaves the messages alone, or drops them with the reset.    *)
LEMMA ReadySame ==
  ASSUME Ready, \/ UNCHANGED <<lastRemote, reset, down>>
                \/ ~reset' /\ down' = << >>
  PROVE  Ready'
  <1>1. CASE UNCHANGED <<lastRemote, reset, down>>
    BY <1>1 DEF Ready
  <1>2. CASE ~reset' /\ down' = << >>
    <2>1. \A i \in 1..Len(<< >>) : FALSE
      OBVIOUS
    <2> QED
      BY <1>2, <2>1 DEF Ready, Fresh
  <1> QED
    BY <1>1, <1>2

(* Every step keeps the invariant.                                         *)
LEMMA NextKeeps ==
  ASSUME WatchAssumption, Inv, Ready, Next
  PROVE  Inv' /\ Ready'
  <1>1. CASE Listen
    BY <1>1, ListenKeeps, ReadySame DEF Listen
  <1>2. CASE StopListening
    BY <1>2, StopKeeps, ReadySame DEF StopListening
  <1>3. CASE OnWatchStreamOpen
    BY <1>3, OpenKeeps, ReadySame DEF OnWatchStreamOpen
  <1>4. CASE OnWatchStreamClose
    BY <1>4, GoneKeeps, ReadySame DEF OnWatchStreamClose, StreamGone
  <1>5. CASE Kill
    BY <1>5, GoneKeeps, ReadySame DEF Kill, StreamGone
  <1>6. CASE Client
    <2>1. Inv'
      BY <1>6, HandleAddedKeeps, HandleRemovedKeeps, HandleCurrentKeeps,
         HandleDocumentChangeKeeps, HandleResetKeeps, HandleFilterKeeps, SnapshotKeeps,
         SkipKeeps, ErrorKeeps DEF Client
    <2>2. Ready'
      BY <1>6, ReceivedReady DEF Inv
    <2> QED
      BY <2>1, <2>2
  <1>7. CASE ServerWatch
    BY <1>7, ServerWatchKeeps
  <1>8. CASE ServerUnwatch
    BY <1>8, ServerUnwatchKeeps
  <1>9. CASE ServerReject
    BY <1>9, ServerRejectKeeps
  <1>10. CASE ServerSend
    BY <1>10, ServerSendKeeps
  <1>11. CASE \E m \in SUBSET Docs : ServerChange(m)
    BY <1>11, ServerChangeKeeps, ReadySame DEF ServerChange, client
  <1> QED
    BY <1>1, <1>2, <1>3, <1>4, <1>5, <1>6, <1>7, <1>8, <1>9, <1>10, <1>11 DEF Next

(* The same for a step or none.                                            *)
LEMMA InvStep ==
  ASSUME WatchAssumption
  PROVE  Inv /\ Ready /\ [Next]_vars => Inv' /\ Ready'
  <1>1. ASSUME UNCHANGED vars PROVE UNCHANGED <<lastRemote, reset, down>>
    BY <1>1 DEF vars, client
  <1> QED
    BY <1>1, NextKeeps, StutterKeeps, ReadySame

(* The invariant holds in every behaviour.                                 *)
THEOREM Invariance ==
  ASSUME WatchAssumption
  PROVE  Spec => [](Inv /\ Ready)
  <1>1. Init => Inv /\ Ready
    <2>1. ASSUME Init PROVE Ready
      <3>1. ~reset /\ down = << >> /\ \A i \in 1..Len(<< >>) : FALSE
        BY <2>1 DEF Init
      <3> QED
        BY <3>1 DEF Ready, Fresh
    <2> QED
      BY <2>1, InvInit
  <1>2. Inv /\ Ready /\ [Next]_vars => Inv' /\ Ready'
    BY InvStep
  <1> QED
    BY <1>1, <1>2, PTL DEF Spec

(* The variables have their types: in particular no token or version is    *)
(* ahead of the server, and a closed stream has nothing on its way.        *)
THEOREM TypeCorrect ==
  ASSUME WatchAssumption
  PROVE  Spec => []TypeOK
  <1>1. Inv => TypeOK
    <2> SUFFICES ASSUME Inv PROVE TypeOK
      OBVIOUS
    <2>1. Types
      BY DEF Inv
    <2>2. Len(log) \in Nat /\ log \in Seq(SUBSET Docs)
      BY <2>1, Basics
    <2>3. state \in [outstanding : Int, current : BOOLEAN, token : 0..Len(log),
                     changes : [Docs -> {"none", "added", "modified", "removed"}]]
      BY <2>1, <2>2 DEF Types, Stream, States, Kinds
    <2> QED
      BY <2>1, <2>2, <2>3 DEF Types, Flags, Tokens, Stream, TypeOK
  <1> QED
    BY <1>1, Invariance, PTL

(* While no answer was taken for that of another listen, the keys are the  *)
(* query's result at the version of the token in memory and on disk.       *)
THEOREM TokensAreTrue ==
  ASSUME WatchAssumption
  PROVE  Spec => []TokenIsTrue
  <1>1. Inv => TokenIsTrue
    <2> SUFFICES ASSUME Inv, ~slipped PROVE keys = Members(resume) /\ keys = Members(saved)
      BY DEF TokenIsTrue
    <2>1. Types /\ Kept(log, keys)
      BY DEF Inv, Claims
    <2> QED
      BY <2>1 DEF Members, Kept, Of
  <1> QED
    BY <1>1, Invariance, PTL

=============================================================================
