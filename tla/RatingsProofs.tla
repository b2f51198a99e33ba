--------------------------- MODULE RatingsProofs ---------------------------
(***************************************************************************)
(* Theorems about Ratings, for any accounts, devices, tasks, acceptances   *)
(* and ratings, and any number of killed apps; then: a task is rated at    *)
(* most once, for any accounts with one device each, as long as no app is  *)
(* killed; and of one provider the mean is then one rating behind.         *)
(***************************************************************************)
EXTENDS Ratings, TLAPS, FiniteSetTheorems

\* Values of data and of a dialog's data.
Capture == (SUBSET Ratings) \cup {NoData}

\* What a rating queues are writes.
LEMMA WritesTyped ==
  ASSUME NEW r \in Ratings, NEW u \in Users, NEW m \in SUBSET Ratings
  PROVE  RateWrites(r, u, m) \in Seq(Write)
BY DEF RateWrites, Write

\* The assignment of an answered isAccepted() keeps the type of provider, and
\* an accepted task assigns a provider.
LEMMA ProviderAssigned ==
  ASSUME TypeOK, NEW d \in Devices, NEW t \in Tasks, AssignProvider(d, t)
  PROVE  /\ provider' \in [Devices -> Users \cup {NoUser}]
         /\ provider[d] \in Users => provider'[d] \in Users
         /\ IsAccepted(t) => provider'[d] \in Users
         /\ \A e \in Devices \ {d} : provider'[e] = provider[e]
<1>1. CASE AcceptedOn[t] = {} /\ UNCHANGED provider
  <2>1. ~IsAccepted(t)
    BY <1>1, FS_EmptySet DEF IsAccepted
  <2>2. QED
    BY <1>1, <2>1 DEF TypeOK
<1>2. ASSUME NEW p \in AcceptedOn[t], provider' = [provider EXCEPT ![d] = p]
      PROVE  /\ provider' \in [Devices -> Users \cup {NoUser}]
             /\ provider'[d] \in Users
             /\ \A e \in Devices \ {d} : provider'[e] = provider[e]
  <2>1. p \in Users
    BY RatingsAssumption
  <2>2. QED
    BY <1>2, <2>1 DEF TypeOK
<1>3. QED
  BY <1>1, <1>2 DEF AssignProvider

\* A build keeps the types of what it changes.
LEMMA BuildTyped ==
  ASSUME TypeOK, Assigned, NEW d \in Devices, NEW t \in Tasks, Build(d, t)
  PROVE  /\ strays' \in [Devices -> [Tasks -> Nat]]
         /\ stage' \in [Devices -> {"none", "other", "waiting", "offers", "accepted",
                                    "details", "bar", "rated"}]
         /\ stage'[d] \in {"other", "waiting"}
         /\ \A e \in Devices \ {d} : stage'[e] = stage[e]
<1> DEFINE left == IF stage[d] = "waiting" THEN [strays[d] EXCEPT ![page[d]] = @ + 1]
                                           ELSE strays[d]
<1>1. left \in [Tasks -> Nat]
  <2>1. strays[d] \in [Tasks -> Nat]
    BY DEF TypeOK
  <2>2. stage[d] = "waiting" => page[d] \in Tasks
    BY DEF Assigned
  <2>3. CASE stage[d] = "waiting"
    BY <2>1, <2>2, <2>3
  <2>4. CASE stage[d] # "waiting"
    BY <2>1, <2>4
  <2>5. QED
    BY <2>3, <2>4
<1>2. [left EXCEPT ![t] = @ + 2] \in [Tasks -> Nat]
  BY <1>1
<1>3. strays' = [strays EXCEPT ![d] = [left EXCEPT ![t] = @ + 2]]
  BY DEF Build
<1>4. strays' \in [Devices -> [Tasks -> Nat]]
  BY <1>2, <1>3 DEF TypeOK
<1>5. QED
  BY <1>4 DEF Build, TypeOK

\* Clearing the lower part keeps the types of what it held.
LEMMA ClearTyped ==
  ASSUME TypeOK, NEW d \in Devices, ClearPart(d)
  PROVE  /\ shown' \in [Devices -> Users \cup {NoUser}]
         /\ queried' \in [Devices -> Users \cup {NoUser}]
         /\ data' \in [Devices -> Capture]
BY DEF ClearPart, TypeOK, Capture

\* The ratings a query returns are ratings.
LEMMA ViewTyped ==
  ASSUME TypeOK, NEW d \in Devices, NEW u
  PROVE  ViewOf(d, u) \in SUBSET Ratings /\ ViewOf(d, u) \subseteq ViewRates(d)
BY DEF TypeOK, ViewOf, ViewRates

\* A confirmed rating is one, and its mean averages ratings.
LEMMA DialogTyped ==
  ASSUME TypeOK, Assigned, NEW d \in Devices, dialog[d] # NoDialog
  PROVE  /\ dialog[d].rating \in Ratings
         /\ dialog[d].data \in Capture
         /\ RateMean(d) \in SUBSET Ratings
         /\ RateUser(d) \in Users
         /\ page[d] \in Tasks
<1>1. dialog[d] \in [rating: Ratings, data: Capture]
  BY DEF TypeOK, Capture
<1>2. dialog[d].rating \in Ratings /\ dialog[d].data \in Capture
  BY <1>1
<1>3. RateMean(d) \in SUBSET Ratings
  BY <1>2 DEF RateMean, Capture
<1>4. QED
  BY <1>2, <1>3 DEF Assigned, RateUser

\* Every step keeps the types.
LEMMA TypeStep == TypeOK /\ Assigned /\ [Next]_vars => TypeOK'
<1> SUFFICES ASSUME TypeOK, Assigned, [Next]_vars PROVE TypeOK'
  OBVIOUS
<1> USE DEF server, screen
<1>1. ASSUME NEW d \in Devices, NEW t \in Tasks, OpenDetail(d, t) PROVE TypeOK'
  <2>1. Build(d, t) /\ page' = [page EXCEPT ![d] = t]
    BY <1>1 DEF OpenDetail
  <2>2. QED
    BY <1>1, <2>1, BuildTyped DEF OpenDetail, TypeOK
<1>2. ASSUME NEW d \in Devices, NEW t \in Tasks, StrayDone(d, t) PROVE TypeOK'
  <2>1. strays' \in [Devices -> [Tasks -> Nat]]
    BY <1>2 DEF StrayDone, TypeOK
  <2>2. QED
    BY <1>2, <2>1, ProviderAssigned DEF StrayDone, TypeOK
<1>3. ASSUME NEW d \in Devices, Back(d) PROVE TypeOK'
  <2>1. strays' \in [Devices -> [Tasks -> Nat]]
    <3>1. CASE stage[d] = "waiting"
      <4>1. page[d] \in Tasks
        BY <3>1 DEF Assigned
      <4>2. strays' = [strays EXCEPT ![d][page[d]] = @ + 1]
        BY <1>3, <3>1 DEF Back
      <4>3. QED
        BY <4>1, <4>2 DEF TypeOK
    <3>2. CASE stage[d] # "waiting"
      BY <1>3, <3>2 DEF Back, TypeOK
    <3>3. QED
      BY <3>1, <3>2
  <2>2. QED
    BY <1>3, <2>1, ClearTyped DEF Back, TypeOK, Capture
<1>4. ASSUME NEW d \in Devices, Rebuild(d) PROVE TypeOK'
  <2>1. Build(d, page[d]) /\ page[d] \in Tasks
    BY <1>4 DEF Rebuild, TypeOK
  <2>2. QED
    BY <1>4, <2>1, BuildTyped, ClearTyped DEF Rebuild, TypeOK, Capture
<1>5. ASSUME NEW d \in Devices, LookupDone(d) PROVE TypeOK'
  <2>1. page[d] \in Tasks
    BY <1>5 DEF LookupDone, Assigned
  <2>2. QED
    BY <1>5, <2>1, ProviderAssigned DEF LookupDone, TypeOK
<1>6. ASSUME NEW d \in Devices, FetchDetails(d) PROVE TypeOK'
  BY <1>6 DEF FetchDetails, TypeOK
<1>7. ASSUME NEW d \in Devices, IsRatedDone(d) PROVE TypeOK'
  BY <1>7 DEF IsRatedDone, TypeOK
<1>8. ASSUME NEW d \in Devices, StreamData(d) PROVE TypeOK'
  BY <1>8, ViewTyped DEF StreamData, TypeOK
<1>9. ASSUME NEW d \in Devices, NEW r \in Ratings, TouchBar(d, r) PROVE TypeOK'
  BY <1>9 DEF TouchBar, TypeOK
<1>10. ASSUME NEW d \in Devices, CancelRate(d) PROVE TypeOK'
  BY <1>10 DEF CancelRate, TypeOK
<1>11. ASSUME NEW d \in Devices, RateOk(d) PROVE TypeOK'
  <2> DEFINE r == dialog[d].rating
             ws == RateWrites(r, RateUser(d), RateMean(d))
  <2>1. /\ r \in Ratings /\ RateMean(d) \in SUBSET Ratings
        /\ RateUser(d) \in Users /\ page[d] \in Tasks
    BY <1>11, DialogTyped DEF RateOk
  <2>2. ws \in Seq(Write)
    BY <2>1, WritesTyped
  <2>3. outbox[d] \o ws \in Seq(Write)
    BY <2>2 DEF TypeOK
  <2>4. outbox' \in [Devices -> Seq(Write)]
    BY <1>11, <2>3 DEF RateOk, TypeOK
  <2>5. about' \in [Ratings -> [task: Tasks, user: Users] \cup {NoRating}]
    BY <1>11, <2>1 DEF RateOk, TypeOK
  <2>6. Build(d, page[d])
    BY <1>11 DEF RateOk
  <2>7. QED
    BY <1>11, <2>1, <2>4, <2>5, <2>6, BuildTyped, ClearTyped DEF RateOk, TypeOK, Capture
<1>12. ASSUME NEW d \in Devices, Flush(d) PROVE TypeOK'
  <2> DEFINE w == Head(outbox[d])
  <2>1. w \in Write /\ Tail(outbox[d]) \in Seq(Write)
    BY <1>12 DEF Flush, TypeOK
  <2>2. /\ w.op = "add" => w.rating \in Ratings
        /\ w.op = "set" => w.user \in Users /\ w.mean \in SUBSET Ratings
    BY <2>1 DEF Write, AddRate, SetRate
  <2>3. rates' \in SUBSET Ratings
    BY <1>12, <2>2 DEF Flush, TypeOK
  <2>4. userRate' \in [Users -> (SUBSET Ratings) \cup {Unrated}]
    BY <1>12, <2>2 DEF Flush, TypeOK
  <2>5. QED
    BY <1>12, <2>1, <2>3, <2>4 DEF Flush, TypeOK
<1>13. ASSUME NEW d \in Devices, Crash(d) PROVE TypeOK'
  <2>1. PICK k \in 0..Len(outbox[d]) : outbox' = [outbox EXCEPT ![d] = SubSeq(@, 1, k)]
    BY <1>13 DEF Crash
  <2>2. SubSeq(outbox[d], 1, k) \in Seq(Write)
    BY DEF TypeOK
  <2>3. outbox' \in [Devices -> Seq(Write)]
    BY <2>1, <2>2 DEF TypeOK
  <2>4. crashes' \in 0..MaxCrashes
    BY <1>13, RatingsAssumption DEF Crash, TypeOK
  <2>5. QED
    BY <1>13, <2>3, <2>4, ClearTyped DEF Crash, TypeOK, Capture
<1>14. CASE UNCHANGED vars
  BY <1>14 DEF vars, TypeOK
<1>15. QED
  BY <1>1, <1>2, <1>3, <1>4, <1>5, <1>6, <1>7, <1>8, <1>9, <1>10, <1>11, <1>12, <1>13,
     <1>14 DEF Next
\* Every step keeps Assigned.
LEMMA AssignedStep == TypeOK /\ Assigned /\ [Next]_vars => Assigned'
<1> SUFFICES ASSUME TypeOK, Assigned, [Next]_vars PROVE Assigned'
  OBVIOUS
<1> USE DEF server, screen
<1> DEFINE OK(d) ==
      /\ stage[d] \in {"accepted", "details", "bar", "rated"} => provider[d] \in Users
      /\ stage[d] \notin {"none", "other"} => page[d] \in Tasks
      /\ dialog[d] # NoDialog => provider[d] \in Users /\ page[d] \in Tasks
<1>o. ASSUME NEW d \in Devices,
             OK(d)',
             \A e \in Devices \ {d} :
               /\ stage'[e] = stage[e] /\ provider'[e] = provider[e]
               /\ page'[e] = page[e] /\ dialog'[e] = dialog[e]
      PROVE  Assigned'
  BY <1>o DEF Assigned
<1>1. ASSUME NEW d \in Devices, NEW t \in Tasks, OpenDetail(d, t) PROVE Assigned'
  <2>1. Build(d, t) /\ page' = [page EXCEPT ![d] = t] /\ UNCHANGED <<provider, dialog>>
    BY <1>1 DEF OpenDetail
  <2>2. OK(d)'
    BY <2>1, BuildTyped DEF TypeOK, Assigned
  <2>3. QED
    BY <2>1, <2>2, <1>o, BuildTyped DEF TypeOK
<1>2. ASSUME NEW d \in Devices, NEW t \in Tasks, StrayDone(d, t) PROVE Assigned'
  <2>1. AssignProvider(d, t) /\ UNCHANGED <<stage, page, dialog>>
    BY <1>2 DEF StrayDone
  <2>2. OK(d)'
    BY <2>1, ProviderAssigned DEF Assigned
  <2>3. QED
    BY <2>1, <2>2, <1>o, ProviderAssigned
<1>3. ASSUME NEW d \in Devices, Back(d) PROVE Assigned'
  BY <1>3, <1>o DEF Back, TypeOK
<1>4. ASSUME NEW d \in Devices, Rebuild(d) PROVE Assigned'
  <2>1. Build(d, page[d]) /\ page[d] \in Tasks /\ UNCHANGED <<page, provider, dialog>>
    BY <1>4 DEF Rebuild, TypeOK
  <2>2. OK(d)'
    BY <2>1, BuildTyped DEF Assigned
  <2>3. QED
    BY <2>1, <2>2, <1>o, BuildTyped
<1>5. ASSUME NEW d \in Devices, LookupDone(d) PROVE Assigned'
  <2>1. /\ AssignProvider(d, page[d]) /\ page[d] \in Tasks
        /\ UNCHANGED <<page, dialog>>
        /\ stage' = [stage EXCEPT ![d] = IF IsAccepted(page[d]) THEN "accepted"
                                                               ELSE "offers"]
    BY <1>5 DEF LookupDone, Assigned
  <2>2. OK(d)'
    BY <2>1, ProviderAssigned DEF Assigned, TypeOK
  <2>3. QED
    BY <2>1, <2>2, <1>o, ProviderAssigned DEF TypeOK
<1>6. ASSUME NEW d \in Devices, FetchDetails(d) \/ IsRatedDone(d) \/ StreamData(d)
      PROVE  Assigned'
  BY <1>6, <1>o DEF FetchDetails, IsRatedDone, StreamData, TypeOK, Assigned
<1>7. ASSUME NEW d \in Devices, NEW r \in Ratings, TouchBar(d, r) PROVE Assigned'
  BY <1>7, <1>o DEF TouchBar, TypeOK, Assigned
<1>8. ASSUME NEW d \in Devices, CancelRate(d) PROVE Assigned'
  BY <1>8, <1>o DEF CancelRate, TypeOK, Assigned
<1>9. ASSUME NEW d \in Devices, RateOk(d) PROVE Assigned'
  <2>1. /\ Build(d, page[d]) /\ UNCHANGED <<page, provider>>
        /\ dialog' = [dialog EXCEPT ![d] = NoDialog] /\ dialog[d] # NoDialog
    BY <1>9 DEF RateOk
  <2>2. page[d] \in Tasks
    BY <2>1, DialogTyped
  <2>3. OK(d)'
    BY <2>1, <2>2, BuildTyped DEF TypeOK
  <2>4. QED
    BY <2>1, <2>2, <2>3, <1>o, BuildTyped DEF TypeOK
<1>10. ASSUME NEW d \in Devices, Flush(d) PROVE Assigned'
  BY <1>10 DEF Flush, Assigned
<1>11. ASSUME NEW d \in Devices, Crash(d) PROVE Assigned'
  BY <1>11, <1>o DEF Crash, TypeOK
<1>12. CASE UNCHANGED vars
  BY <1>12 DEF vars, Assigned
<1>13. QED
  BY <1>1, <1>2, <1>3, <1>4, <1>5, <1>6, <1>7, <1>8, <1>9, <1>10, <1>11, <1>12 DEF Next

\* Types hold in every reachable state, and no rating is ever filed under a
\* provider that was not looked up.
THEOREM TypeCorrect == Spec => [](TypeOK /\ Assigned)
<1>1. Init => TypeOK /\ Assigned
  BY RatingsAssumption DEF Init, TypeOK, Assigned
<1>2. TypeOK /\ Assigned /\ [Next]_vars => TypeOK' /\ Assigned'
  BY TypeStep, AssignedStep
<1>3. QED
  BY <1>1, <1>2, PTL DEF Spec
\* The parts of the invariant that concern the server and one device.
ServerOK == \A u \in Users : userRate[u] # Unrated => userRate[u] \subseteq rates

CaptureOK(d) ==
  /\ data[d] # NoData => data[d] \subseteq ViewRates(d)
  /\ dialog[d].data # NoData => dialog[d].data \subseteq ViewRates(d)

QueueOK(d) ==
  \A i \in 1..Len(outbox[d]) : outbox[d][i].op = "set" =>
    \A r \in outbox[d][i].mean : r \in rates \/ AddRate(r) \in Before(d, i)

LEMMA CountParts ==
  CountsStored /\ RateIsStored <=> ServerOK /\ \A d \in Devices : CaptureOK(d) /\ QueueOK(d)
BY DEF CountsStored, RateIsStored, ServerOK, CaptureOK, QueueOK

\* A device that queues and delivers nothing keeps its view and its queue.
LEMMA ViewKept ==
  ASSUME NEW d \in Devices, outbox'[d] = outbox[d], rates \subseteq rates'
  PROVE  /\ ViewRates(d) \subseteq ViewRates(d)'
         /\ QueueOK(d) => QueueOK(d)'
BY DEF ViewRates, Pending, QueueOK, Before

\* A step that writes and delivers nothing, and captures on d at most.
LEMMA CaptureStep ==
  ASSUME NEW d \in Devices, ServerOK, \A e \in Devices : CaptureOK(e) /\ QueueOK(e),
         UNCHANGED <<rates, userRate, outbox>>,
         CaptureOK(d)',
         \A e \in Devices \ {d} : data'[e] = data[e] /\ dialog'[e] = dialog[e]
  PROVE  (ServerOK /\ \A e \in Devices : CaptureOK(e) /\ QueueOK(e))'
<1>1. \A e \in Devices : ViewRates(e)' = ViewRates(e)
  BY DEF ViewRates, Pending
<1>2. \A e \in Devices : QueueOK(e)'
  BY ViewKept
<1>3. \A e \in Devices \ {d} : CaptureOK(e)'
  BY <1>1 DEF CaptureOK
<1>4. ServerOK'
  BY DEF ServerOK
<1>5. QED
  BY <1>2, <1>3, <1>4

\* Every step keeps the invariant.
LEMMA CountStep ==
  TypeOK /\ Assigned /\ (CountsStored /\ RateIsStored) /\ [Next]_vars
    => (CountsStored /\ RateIsStored)'
<1> SUFFICES ASSUME TypeOK, Assigned, ServerOK,
                    \A d \in Devices : CaptureOK(d) /\ QueueOK(d), [Next]_vars
             PROVE  (ServerOK /\ \A d \in Devices : CaptureOK(d) /\ QueueOK(d))'
  BY CountParts, PTL
<1> USE DEF server, screen
<1> DEFINE Goal == (ServerOK /\ \A d \in Devices : CaptureOK(d) /\ QueueOK(d))'
<1>1. ASSUME NEW d \in Devices, UNCHANGED <<rates, userRate, outbox, data, dialog>>
      PROVE  Goal
  <2>1. ViewRates(d)' = ViewRates(d)
    BY <1>1 DEF ViewRates, Pending
  <2>2. CaptureOK(d)'
    BY <1>1, <2>1 DEF CaptureOK
  <2>3. QED
    BY <1>1, <2>2, CaptureStep
<1>2. ASSUME NEW d \in Devices, UNCHANGED <<rates, userRate, outbox, dialog>>,
             data' = [data EXCEPT ![d] = NoData]
      PROVE  Goal
  <2>1. ViewRates(d)' = ViewRates(d)
    BY <1>2 DEF ViewRates, Pending
  <2>2. CaptureOK(d)'
    BY <1>2, <2>1 DEF CaptureOK, TypeOK
  <2>3. QED
    BY <1>2, <2>2, CaptureStep DEF TypeOK
<1>3. ASSUME NEW d \in Devices, StreamData(d) PROVE Goal
  <2>1. ViewRates(d)' = ViewRates(d)
    BY <1>3 DEF StreamData, ViewRates, Pending
  <2>2. data'[d] \subseteq ViewRates(d)
    BY <1>3, ViewTyped DEF StreamData, TypeOK
  <2>3. CaptureOK(d)'
    BY <1>3, <2>1, <2>2 DEF StreamData, CaptureOK
  <2>4. QED
    BY <1>3, <2>3, CaptureStep DEF StreamData, TypeOK
<1>4. ASSUME NEW d \in Devices, NEW r \in Ratings, TouchBar(d, r) PROVE Goal
  <2>1. ViewRates(d)' = ViewRates(d)
    BY <1>4 DEF TouchBar, ViewRates, Pending
  <2>2. dialog'[d].data = data[d] /\ UNCHANGED data
    BY <1>4 DEF TouchBar, TypeOK
  <2>3. CaptureOK(d)'
    BY <2>1, <2>2 DEF CaptureOK
  <2>4. QED
    BY <1>4, <2>3, CaptureStep DEF TouchBar, TypeOK
<1>5. ASSUME NEW d \in Devices, CancelRate(d) PROVE Goal
  <2>1. ViewRates(d)' = ViewRates(d)
    BY <1>5 DEF CancelRate, ViewRates, Pending
  <2>2. dialog'[d].data = NoData /\ UNCHANGED data
    BY <1>5 DEF CancelRate, TypeOK, NoDialog
  <2>3. CaptureOK(d)'
    BY <2>1, <2>2 DEF CaptureOK
  <2>4. QED
    BY <1>5, <2>3, CaptureStep DEF CancelRate, TypeOK
<1>6. ASSUME NEW d \in Devices, RateOk(d) PROVE Goal
  <2> DEFINE r == dialog[d].rating
             q == outbox[d]
             add == AddRate(r)
             set == SetRate(RateUser(d), RateMean(d))
  <2>1. /\ r \in Ratings /\ RateMean(d) \in SUBSET Ratings /\ RateUser(d) \in Users
        /\ dialog[d].data \in Capture
    BY <1>6, DialogTyped DEF RateOk
  <2>2. q \in Seq(Write) /\ <<add, set>> \in Seq(Write)
    BY <2>1, WritesTyped DEF TypeOK, RateWrites
  <2>3. outbox' = [outbox EXCEPT ![d] = q \o <<add, set>>]
    BY <1>6 DEF RateOk, RateWrites
  <2>4. outbox'[d] = q \o <<add, set>> /\ \A e \in Devices \ {d} : outbox'[e] = outbox[e]
    BY <2>3 DEF TypeOK
  <2>5. /\ Len(outbox'[d]) = Len(q) + 2
        /\ \A i \in 1..Len(q) : outbox'[d][i] = q[i]
        /\ outbox'[d][Len(q) + 1] = add
        /\ outbox'[d][Len(q) + 2] = set
    BY <2>2, <2>4
  <2>6. Len(q) \in Nat
    BY <2>2
  <2>7. \A x \in RateMean(d) : x \in rates \/ x = r \/ AddRate(x) \in Pending(d)
    BY <2>1 DEF RateMean, CaptureOK, ViewRates, Capture
  <2>8. UNCHANGED <<rates, userRate>>
    BY <1>6 DEF RateOk
  <2>9. QueueOK(d)'
    <3>1. SUFFICES ASSUME NEW i \in 1..(Len(q) + 2), outbox'[d][i].op = "set",
                          NEW x \in outbox'[d][i].mean
                   PROVE  x \in rates \/ AddRate(x) \in Before(d, i)'
      BY <2>5, <2>8 DEF QueueOK
    <3>2. CASE i \in 1..Len(q)
      <4>1. outbox'[d][i] = q[i]
        BY <2>5, <3>2
      <4>2. x \in rates \/ AddRate(x) \in Before(d, i)
        BY <3>1, <3>2, <4>1 DEF QueueOK
      <4>3. Before(d, i)' = Before(d, i)
        <5>1. \A j \in 1..(i - 1) : j \in 1..Len(q)
          BY <2>6, <3>2
        <5>2. \A j \in 1..(i - 1) : outbox'[d][j] = outbox[d][j]
          BY <2>5, <5>1
        <5>3. QED
          BY <5>2 DEF Before
      <4>4. QED
        BY <4>2, <4>3
    <3>3. CASE i = Len(q) + 1
      BY <2>5, <3>1, <3>3 DEF AddRate
    <3>4. CASE i = Len(q) + 2
      <4>1. x \in RateMean(d)
        BY <2>5, <3>1, <3>4 DEF SetRate
      <4>2. Pending(d) \cup {add} \subseteq Before(d, i)'
        <5>1. \A j \in 1..(Len(q) + 1) : outbox'[d][j] \in Before(d, i)'
          BY <2>6, <3>4 DEF Before
        <5>2. \A j \in 1..Len(q) : j \in 1..(Len(q) + 1) /\ outbox'[d][j] = q[j]
          BY <2>5, <2>6
        <5>3. add \in Before(d, i)'
          BY <2>5, <2>6, <5>1
        <5>4. QED
          BY <5>1, <5>2, <5>3 DEF Pending
      <4>3. QED
        BY <2>7, <4>1, <4>2
    <3>5. QED
      BY <2>6, <3>2, <3>3, <3>4
  <2>10. CaptureOK(d)'
    <3>1. data'[d] = NoData /\ dialog'[d] = NoDialog
      BY <1>6 DEF RateOk, ClearPart, TypeOK
    <3>2. QED
      BY <3>1 DEF CaptureOK, NoDialog
  <2>11. \A e \in Devices \ {d} : CaptureOK(e)' /\ QueueOK(e)'
    <3>1. \A e \in Devices \ {d} : data'[e] = data[e] /\ dialog'[e] = dialog[e]
      BY <1>6 DEF RateOk, ClearPart, TypeOK
    <3>2. QED
      BY <2>4, <2>8, <3>1, ViewKept DEF CaptureOK
  <2>12. ServerOK'
    BY <2>8 DEF ServerOK
  <2>13. QED
    BY <2>9, <2>10, <2>11, <2>12
<1>7. ASSUME NEW d \in Devices, Flush(d) PROVE Goal
  <2> DEFINE q == outbox[d]
             w == Head(q)
  <2>1. q \in Seq(Write) /\ q # <<>>
    BY <1>7 DEF Flush, TypeOK
  <2>2. /\ Len(q) \in Nat \ {0}
        /\ w = q[1]
        /\ Len(Tail(q)) = Len(q) - 1
        /\ \A i \in 1..(Len(q) - 1) : Tail(q)[i] = q[i + 1]
    BY <2>1
  <2>3. outbox'[d] = Tail(q) /\ \A e \in Devices \ {d} : outbox'[e] = outbox[e]
    BY <1>7 DEF Flush, TypeOK
  <2>4. rates \subseteq rates' /\ UNCHANGED <<data, dialog>>
    BY <1>7 DEF Flush
  <2>5. \A r \in Ratings : w = AddRate(r) => r \in rates'
    BY <1>7 DEF Flush, AddRate
  <2>6. ServerOK'
    <3>1. CASE w.op = "set"
      <4>1. Before(d, 1) = {}
        BY DEF Before
      <4>2. w.mean \subseteq rates
        BY <2>2, <3>1, <4>1 DEF QueueOK
      <4>3. userRate' = [userRate EXCEPT ![w.user] = w.mean]
        BY <1>7, <3>1 DEF Flush
      <4>4. QED
        BY <2>4, <4>2, <4>3 DEF ServerOK, TypeOK
    <3>2. CASE w.op # "set"
      BY <1>7, <2>4, <3>2 DEF Flush, ServerOK
    <3>3. QED
      BY <3>1, <3>2
  <2>7. QueueOK(d)'
    <3>1. SUFFICES ASSUME NEW i \in 1..(Len(q) - 1), outbox'[d][i].op = "set",
                          NEW r \in outbox'[d][i].mean
                   PROVE  r \in rates' \/ AddRate(r) \in Before(d, i)'
      BY <2>2, <2>3 DEF QueueOK
    <3>2. i + 1 \in 1..Len(q) /\ outbox'[d][i] = q[i + 1]
      BY <2>2, <2>3
    <3>3. r \in rates \/ AddRate(r) \in Before(d, i + 1)
      BY <3>1, <3>2 DEF QueueOK
    <3>4. r \in Ratings
      <4>1. q[i + 1] \in Write
        BY <2>1, <3>2
      <4>2. \A x \in Write : x.op = "set" => x.mean \in SUBSET Ratings
        BY DEF Write, AddRate, SetRate
      <4>3. q[i + 1].op = "set" /\ r \in q[i + 1].mean
        BY <3>1, <3>2
      <4>4. QED
        BY <4>1, <4>2, <4>3
    <3>5. ASSUME NEW j \in 1..i, q[j] = AddRate(r)
          PROVE  r \in rates' \/ AddRate(r) \in Before(d, i)'
      <4>1. CASE j = 1
        BY <2>2, <2>5, <3>4, <3>5, <4>1
      <4>2. CASE j # 1
        <5>1. j - 1 \in 1..(i - 1) /\ outbox'[d][j - 1] = q[j]
          BY <2>2, <2>3, <4>2
        <5>2. QED
          BY <3>5, <5>1 DEF Before
      <4>3. QED
        BY <4>1, <4>2
    <3>6. QED
      BY <2>4, <3>3, <3>5 DEF Before
  <2>8. ViewRates(d) \subseteq ViewRates(d)'
    <3>1. ASSUME NEW r \in Ratings, NEW j \in 1..Len(q), q[j] = AddRate(r)
          PROVE  r \in rates' \/ AddRate(r) \in Pending(d)'
      <4>1. CASE j = 1
        BY <2>2, <2>5, <3>1, <4>1
      <4>2. CASE j # 1
        <5>1. j - 1 \in 1..Len(Tail(q)) /\ outbox'[d][j - 1] = q[j]
          BY <2>2, <2>3, <4>2
        <5>2. QED
          BY <2>3, <3>1, <5>1 DEF Pending
      <4>3. QED
        BY <4>1, <4>2
    <3>2. QED
      BY <2>4, <3>1 DEF ViewRates, Pending
  <2>9. CaptureOK(d)'
    BY <2>4, <2>8 DEF CaptureOK
  <2>10. \A e \in Devices \ {d} : CaptureOK(e)' /\ QueueOK(e)'
    BY <2>3, <2>4, ViewKept DEF CaptureOK
  <2>11. QED
    BY <2>6, <2>7, <2>9, <2>10
<1>8. ASSUME NEW d \in Devices, Crash(d) PROVE Goal
  <2> DEFINE q == outbox[d]
  <2>1. PICK k \in 0..Len(q) : outbox' = [outbox EXCEPT ![d] = SubSeq(@, 1, k)]
    BY <1>8 DEF Crash
  <2>2. q \in Seq(Write)
    BY DEF TypeOK
  <2>3. outbox'[d] = SubSeq(q, 1, k) /\ \A e \in Devices \ {d} : outbox'[e] = outbox[e]
    BY <2>1 DEF TypeOK
  <2>4. Len(outbox'[d]) = k /\ \A i \in 1..k : outbox'[d][i] = q[i]
    BY <2>2, <2>3
  <2>5. UNCHANGED <<rates, userRate>>
    BY <1>8 DEF Crash
  <2>6. QueueOK(d)'
    <3>1. \A i \in 1..k : Before(d, i)' = Before(d, i)
      BY <2>4 DEF Before
    <3>2. \A i \in 1..k : i \in 1..Len(q)
      BY <2>2
    <3>3. QED
      BY <2>4, <2>5, <3>1, <3>2 DEF QueueOK
  <2>7. CaptureOK(d)'
    <3>1. data'[d] = NoData /\ dialog'[d] = NoDialog
      BY <1>8 DEF Crash, ClearPart, TypeOK
    <3>2. QED
      BY <3>1 DEF CaptureOK, NoDialog
  <2>8. \A e \in Devices \ {d} : CaptureOK(e)' /\ QueueOK(e)'
    <3>1. \A e \in Devices \ {d} : data'[e] = data[e] /\ dialog'[e] = dialog[e]
      BY <1>8 DEF Crash, ClearPart, TypeOK
    <3>2. QED
      BY <2>3, <2>5, <3>1, ViewKept DEF CaptureOK
  <2>9. ServerOK'
    BY <2>5 DEF ServerOK
  <2>10. QED
    BY <2>6, <2>7, <2>8, <2>9
<1>9. ASSUME NEW d \in Devices, Back(d) \/ Rebuild(d) PROVE Goal
  BY <1>9, <1>2 DEF Back, Rebuild, ClearPart
<1>10. ASSUME NEW d \in Devices, NEW t \in Tasks, OpenDetail(d, t) \/ StrayDone(d, t)
       PROVE  Goal
  BY <1>10, <1>1 DEF OpenDetail, StrayDone
<1>11. ASSUME NEW d \in Devices, LookupDone(d) \/ FetchDetails(d) \/ IsRatedDone(d)
       PROVE  Goal
  BY <1>11, <1>1 DEF LookupDone, FetchDetails, IsRatedDone
<1>12. CASE UNCHANGED vars
  BY <1>12 DEF vars, ServerOK, CaptureOK, QueueOK, ViewRates, Pending, Before
<1>13. QED
  BY <1>3, <1>4, <1>5, <1>6, <1>7, <1>8, <1>9, <1>10, <1>11, <1>12 DEF Next

\* The mean the server holds of a provider never counts a rating the server
\* does not hold, whatever is delivered late, lost with an app or done twice.
THEOREM MeansCountStoredRatings == Spec => []RateIsStored
<1>1. Init => CountsStored /\ RateIsStored
  BY DEF Init, CountsStored, RateIsStored, NoDialog
<1>2. TypeOK /\ Assigned /\ (CountsStored /\ RateIsStored) /\ [Next]_vars
        => (CountsStored /\ RateIsStored)'
  BY CountStep
<1>3. QED
  BY <1>1, <1>2, TypeCorrect, PTL DEF Spec

-----------------------------------------------------------------------------
(* A task is rated at most once.                                           *)

\* Every account is signed in on one device at most.
OneDeviceEach == \A d, e \in Devices : UserOf[d] = UserOf[e] => d = e

\* The author's device sees every rating of the task.
Seen ==
  \A r \in Made : \A d \in Devices :
    UserOf[d] = AuthorOf[about[r].task] => r \in ViewRates(d)

\* Only the author gets as far as the rating bar.
Own(d) ==
  stage[d] \notin {"none", "other"} \/ dialog[d] # NoDialog
    => AuthorOf[page[d]] = UserOf[d]

\* A bar or a dialog is open for an unrated task only.
Fresh(d) ==
  stage[d] = "bar" \/ dialog[d] # NoDialog
    => \A r \in Made : about[r].task # page[d]

Once == \A r1, r2 \in Made : about[r1].task = about[r2].task => r1 = r2

OnceInv == Seen /\ Once /\ \A d \in Devices : Own(d) /\ Fresh(d)

\* A step that makes no rating and loses none from a view.
LEMMA NothingRated ==
  ASSUME OnceInv, NEW d \in Devices, about' = about,
         \A e \in Devices : ViewRates(e) \subseteq ViewRates(e)',
         Own(d)', Fresh(d)',
         \A e \in Devices \ {d} :
           stage'[e] = stage[e] /\ page'[e] = page[e] /\ dialog'[e] = dialog[e]
  PROVE  OnceInv'
<1>1. Made' = Made
  BY DEF Made
<1>2. Seen' /\ Once'
  BY <1>1 DEF OnceInv, Seen, Once
<1>3. \A e \in Devices \ {d} : Own(e)' /\ Fresh(e)'
  BY <1>1 DEF OnceInv, Own, Fresh
<1>4. QED
  BY <1>2, <1>3 DEF OnceInv

\* A step of a screen that rates nothing.
LEMMA ScreenStep ==
  ASSUME TypeOK, Assigned, OnceInv, NEW d \in Devices,
         \/ \E t \in Tasks : OpenDetail(d, t) \/ StrayDone(d, t)
         \/ Back(d) \/ Rebuild(d) \/ LookupDone(d) \/ FetchDetails(d)
         \/ IsRatedDone(d) \/ StreamData(d) \/ CancelRate(d)
         \/ \E r \in Ratings : TouchBar(d, r)
  PROVE  OnceInv'
<1> USE DEF server, screen
<1>1. UNCHANGED <<rates, outbox, about>>
  BY DEF OpenDetail, StrayDone, Back, Rebuild, LookupDone, FetchDetails, IsRatedDone,
         StreamData, CancelRate, TouchBar
<1>2. Made' = Made /\ \A e \in Devices : ViewRates(e)' = ViewRates(e)
  BY <1>1 DEF Made, ViewRates, Pending
<1>3. Own(d) /\ Fresh(d)
  BY DEF OnceInv
<1>d. ASSUME Own(d)', Fresh(d)',
             \A e \in Devices \ {d} :
               stage'[e] = stage[e] /\ page'[e] = page[e] /\ dialog'[e] = dialog[e]
      PROVE  OnceInv'
  BY <1>1, <1>2, <1>d, NothingRated
<1>4. ASSUME NEW t \in Tasks, OpenDetail(d, t) PROVE OnceInv'
  <2>1. dialog[d] = NoDialog
    BY <1>4, RatingsAssumption DEF OpenDetail, Assigned
  <2>2. /\ page' = [page EXCEPT ![d] = t] /\ dialog' = dialog
        /\ stage' = [stage EXCEPT ![d] =
                       IF AuthorOf[t] = UserOf[d] THEN "waiting" ELSE "other"]
    BY <1>4 DEF OpenDetail, Build
  <2>3. QED
    BY <1>d, <2>1, <2>2 DEF TypeOK, Own, Fresh
<1>5. ASSUME NEW t \in Tasks, StrayDone(d, t) PROVE OnceInv'
  BY <1>2, <1>3, <1>5, <1>1, <1>d DEF StrayDone, Own, Fresh
<1>6. CASE Back(d)
  BY <1>6, <1>d DEF Back, TypeOK, Own, Fresh
<1>7. CASE Rebuild(d)
  <2>1. /\ UNCHANGED <<page, dialog>>
        /\ stage' = [stage EXCEPT ![d] =
                       IF AuthorOf[page[d]] = UserOf[d] THEN "waiting" ELSE "other"]
    BY <1>7 DEF Rebuild, Build
  <2>2. Own(d)' /\ Fresh(d)'
    BY <1>1, <1>2, <1>3, <2>1 DEF TypeOK, Own, Fresh
  <2>3. QED
    BY <1>d, <2>1, <2>2 DEF TypeOK
<1>8. CASE LookupDone(d) \/ FetchDetails(d)
  <2>1. /\ UNCHANGED <<page, dialog>> /\ stage[d] \in {"waiting", "accepted"}
        /\ stage'[d] \in {"accepted", "offers", "details"}
        /\ \A e \in Devices \ {d} : stage'[e] = stage[e]
    BY <1>8 DEF LookupDone, FetchDetails, TypeOK
  <2>2. Own(d)' /\ Fresh(d)'
    BY <1>1, <1>2, <1>3, <2>1 DEF Own, Fresh
  <2>3. QED
    BY <1>d, <2>1, <2>2
<1>9. CASE IsRatedDone(d)
  <2>1. /\ UNCHANGED <<page, dialog>> /\ stage[d] = "details"
        /\ stage'[d] \in {"rated", "bar"}
        /\ stage'[d] = "bar" => ~IsRated(d, page[d])
        /\ \A e \in Devices \ {d} : stage'[e] = stage[e]
    BY <1>9 DEF IsRatedDone, TypeOK
  <2>2. AuthorOf[page[d]] = UserOf[d]
    BY <1>3, <2>1 DEF Own
  <2>3. ASSUME ~IsRated(d, page[d]) PROVE \A r \in Made : about[r].task # page[d]
    BY <2>2, <2>3 DEF IsRated, OnceInv, Seen
  <2>4. Own(d)' /\ Fresh(d)'
    BY <1>1, <1>2, <1>3, <2>1, <2>2, <2>3 DEF Own, Fresh
  <2>5. QED
    BY <1>d, <2>1, <2>4
<1>10. CASE StreamData(d)
  BY <1>1, <1>2, <1>3, <1>10, <1>d DEF StreamData, Own, Fresh
<1>11. ASSUME NEW r \in Ratings, TouchBar(d, r) PROVE OnceInv'
  BY <1>1, <1>2, <1>3, <1>11, <1>d DEF TouchBar, TypeOK, Own, Fresh
<1>12. CASE CancelRate(d)
  BY <1>1, <1>2, <1>3, <1>12, <1>d DEF CancelRate, TypeOK, Own, Fresh
<1>13. QED
  BY <1>4, <1>5, <1>6, <1>7, <1>8, <1>9, <1>10, <1>11, <1>12

\* The rating is the first of its task, and stands in the author's queue.
LEMMA RateStep ==
  ASSUME OneDeviceEach, TypeOK, Assigned, OnceInv, NEW d \in Devices, RateOk(d)
  PROVE  OnceInv'
<1> USE DEF server, screen
<1> DEFINE r == dialog[d].rating
           t == page[d]
<1>1. /\ r \in Ratings /\ r \notin Made /\ t \in Tasks
      /\ RateUser(d) \in Users /\ RateMean(d) \in SUBSET Ratings
  BY DialogTyped DEF RateOk
<1>2. AuthorOf[t] = UserOf[d] /\ \A x \in Made : about[x].task # t
  BY DEF RateOk, OnceInv, Own, Fresh
<1>3. /\ about'[r].task = t /\ about'[r] # NoRating
      /\ \A x \in Ratings \ {r} : about'[x] = about[x]
  BY <1>1, RatingsAssumption DEF RateOk, TypeOK, NoRating
<1>4. Made' = Made \cup {r} /\ Made \subseteq Ratings
  BY <1>1, <1>3 DEF Made
<1>5. \A x \in Made : about'[x] = about[x]
  BY <1>1, <1>3, <1>4
<1>6. /\ outbox'[d] = outbox[d] \o RateWrites(r, RateUser(d), RateMean(d))
      /\ \A e \in Devices \ {d} : outbox'[e] = outbox[e]
      /\ rates' = rates
  BY DEF RateOk, TypeOK
<1>7. /\ Len(outbox[d]) \in Nat /\ Len(outbox'[d]) = Len(outbox[d]) + 2
      /\ \A i \in 1..Len(outbox[d]) : outbox'[d][i] = outbox[d][i]
      /\ outbox'[d][Len(outbox[d]) + 1] = AddRate(r)
  <2> DEFINE q == outbox[d]
             add == AddRate(r)
             set == SetRate(RateUser(d), RateMean(d))
  <2>1. q \in Seq(Write) /\ <<add, set>> \in Seq(Write)
    BY <1>1, WritesTyped DEF TypeOK, RateWrites
  <2>2. outbox'[d] = q \o <<add, set>>
    BY <1>6 DEF RateWrites
  <2> HIDE DEF q, add, set
  <2>3. /\ Len(q) \in Nat /\ Len(outbox'[d]) = Len(q) + 2
        /\ \A i \in 1..Len(q) : outbox'[d][i] = q[i]
        /\ outbox'[d][Len(q) + 1] = add
    BY <2>1, <2>2
  <2>4. QED
    BY <2>3 DEF q, add
<1>8. /\ r \in ViewRates(d)'
      /\ \A e \in Devices : ViewRates(e) \subseteq ViewRates(e)'
  <2>1. AddRate(r) \in Pending(d)'
    <3>1. Len(outbox[d]) + 1 \in 1..Len(outbox'[d])
      BY <1>7
    <3>2. QED
      BY <1>7, <3>1 DEF Pending
  <2>2. Pending(d) \subseteq Pending(d)'
    <3>1. \A i \in 1..Len(outbox[d]) : i \in 1..Len(outbox'[d])
      BY <1>7
    <3>2. QED
      BY <1>7, <3>1 DEF Pending
  <2>3. ASSUME NEW e \in Devices \ {d} PROVE ViewRates(e)' = ViewRates(e)
    BY <1>6 DEF ViewRates, Pending
  <2>4. r \in ViewRates(d)' /\ ViewRates(d) \subseteq ViewRates(d)'
    BY <1>1, <1>6, <2>1, <2>2 DEF ViewRates
  <2>5. QED
    BY <2>3, <2>4
<1>9. Seen'
  <2>1. ASSUME NEW e \in Devices, UserOf[e] = AuthorOf[t] PROVE e = d
    BY <1>2, <2>1 DEF OneDeviceEach
  <2>2. QED
    BY <1>3, <1>4, <1>5, <1>8, <2>1 DEF OnceInv, Seen
<1>10. Once'
  BY <1>2, <1>3, <1>4, <1>5 DEF OnceInv, Once
<1>11. /\ page' = page /\ dialog' = [dialog EXCEPT ![d] = NoDialog]
       /\ stage' = [stage EXCEPT ![d] = "waiting"]
  BY <1>2 DEF RateOk, Build
<1> HIDE DEF r, t
<1>12. Own(d)' /\ Fresh(d)'
  BY <1>2, <1>11 DEF Own, Fresh, TypeOK, t
<1>13. ASSUME NEW e \in Devices \ {d} PROVE Own(e)' /\ Fresh(e)'
  <2>1. stage'[e] = stage[e] /\ page'[e] = page[e] /\ dialog'[e] = dialog[e]
    BY <1>11 DEF TypeOK
  <2>2. Own(e) /\ Fresh(e)
    BY DEF OnceInv
  <2>3. ASSUME stage[e] = "bar" \/ dialog[e] # NoDialog PROVE page[e] # t
    BY <1>2, <2>2, <2>3 DEF Own, OneDeviceEach
  <2>4. QED
    BY <1>3, <1>4, <1>5, <2>1, <2>2, <2>3 DEF Own, Fresh
<1>14. QED
  BY <1>9, <1>10, <1>12, <1>13 DEF OnceInv

\* A rating that leaves a queue is on the server.
LEMMA FlushStep ==
  ASSUME TypeOK, OnceInv, NEW d \in Devices, Flush(d)
  PROVE  OnceInv'
<1> USE DEF server, screen
<1> DEFINE q == outbox[d]
<1>1. q \in Seq(Write) /\ q # <<>>
  BY DEF Flush, TypeOK
<1>2. /\ Len(q) \in Nat \ {0}
      /\ Head(q) = q[1]
      /\ Len(Tail(q)) = Len(q) - 1
      /\ \A i \in 1..(Len(q) - 1) : Tail(q)[i] = q[i + 1]
  BY <1>1
<1>3. outbox'[d] = Tail(q) /\ \A e \in Devices \ {d} : outbox'[e] = outbox[e]
  BY DEF Flush, TypeOK
<1>4. /\ rates \subseteq rates' /\ UNCHANGED <<about, page, stage, dialog>>
      /\ \A r \in Ratings : q[1] = AddRate(r) => r \in rates'
  BY <1>2 DEF Flush, AddRate
<1>5. ASSUME NEW r \in Ratings, NEW j \in 1..Len(q), q[j] = AddRate(r)
      PROVE  r \in rates' \/ AddRate(r) \in Pending(d)'
  <2>1. CASE j = 1
    BY <1>4, <1>5, <2>1
  <2>2. CASE j # 1
    <3>1. j - 1 \in 1..Len(Tail(q)) /\ Tail(q)[j - 1] = q[j]
      BY <1>2, <2>2
    <3>2. QED
      BY <1>3, <1>5, <3>1 DEF Pending
  <2>3. QED
    BY <2>1, <2>2
<1>6. \A e \in Devices : ViewRates(e) \subseteq ViewRates(e)'
  <2>1. ViewRates(d) \subseteq ViewRates(d)'
    BY <1>4, <1>5 DEF ViewRates, Pending
  <2>2. ASSUME NEW e \in Devices \ {d} PROVE ViewRates(e) \subseteq ViewRates(e)'
    BY <1>3, <1>4 DEF ViewRates, Pending
  <2>3. QED
    BY <2>1, <2>2
<1>7. Own(d)' /\ Fresh(d)'
  BY <1>4 DEF OnceInv, Own, Fresh, Made
<1>8. QED
  BY <1>4, <1>6, <1>7, NothingRated

\* Every step keeps the invariant, up to the first kill.
LEMMA OnceStep ==
  ASSUME OneDeviceEach, TypeOK, Assigned, crashes = 0 => OnceInv, [Next]_vars
  PROVE  crashes' = 0 => OnceInv'
<1> USE DEF server, screen
<1>1. ASSUME NEW d \in Devices, Crash(d) PROVE crashes' # 0
  BY <1>1 DEF Crash, TypeOK
<1>2. ASSUME crashes = 0, UNCHANGED vars PROVE OnceInv'
  BY <1>2 DEF vars, OnceInv, Seen, Once, Own, Fresh, Made, ViewRates, Pending
<1>3. ASSUME NEW d \in Devices, ~Crash(d),
             \/ \E t \in Tasks : OpenDetail(d, t) \/ StrayDone(d, t)
             \/ Back(d) \/ Rebuild(d) \/ LookupDone(d) \/ FetchDetails(d)
             \/ IsRatedDone(d) \/ StreamData(d) \/ CancelRate(d)
             \/ \E r \in Ratings : TouchBar(d, r)
             \/ RateOk(d) \/ Flush(d)
      PROVE  crashes' = crashes
  BY <1>3 DEF OpenDetail, StrayDone, Back, Rebuild, LookupDone, FetchDetails,
     IsRatedDone, StreamData, CancelRate, TouchBar, RateOk, Flush
<1>4. QED
  BY <1>1, <1>2, <1>3, ScreenStep, RateStep, FlushStep DEF Next, vars

\* israted() and the bar it hides hold together: with one device per account
\* no task is rated twice while no app is killed.
THEOREM NobodyRatesTwice == ASSUME OneDeviceEach PROVE Spec => []RatedOnce
<1> DEFINE I == crashes = 0 => OnceInv
<1>1. Init => I
  BY DEF Init, OnceInv, Seen, Once, Own, Fresh, Made
<1>2. TypeOK /\ Assigned /\ I /\ [Next]_vars => I'
  BY OnceStep
<1>3. I => RatedOnce
  BY DEF OnceInv, Once, RatedOnce
<1>4. QED
  BY <1>1, <1>2, <1>3, TypeCorrect, PTL DEF Spec

-----------------------------------------------------------------------------
(* The mean is one rating behind.                                          *)

\* All tasks that were accepted were accepted of one provider.
OneProvider ==
  \A s, t \in Tasks : \A p \in AcceptedOn[s], q \in AcceptedOn[t] : p = q

\* The accepted providers; no others are assigned to the variable.
Accepted == UNION {AcceptedOn[t] : t \in Tasks}

\* The account of d is the only one that rated u.
Alone(d, u) == \A r \in RatingsOf(u) : AuthorOf[about[r].task] = UserOf[d]

\* The means that are one rating behind.
Behind(u) ==
  {RatingsOf(u) \ {r} : r \in RatingsOf(u)} \cup {{r} : r \in RatingsOf(u)}

\* The stream is that of the provider the variable names, and what it
\* delivered is gone with the bar.
Steady(d) ==
  /\ provider[d] \in Accepted \cup {NoUser}
  /\ stage[d] = "bar" => queried[d] = provider[d]
  /\ data[d] # NoData => stage[d] = "bar"

\* What d captured are all ratings, as long as no other account rates.
Complete(d) ==
  \A c \in {data[d], dialog[d].data} :
    c # NoData /\ Alone(d, provider[d]) => c = RatingsOf(provider[d])

\* The i-th write of d overwrites the rate of u.
Sets(d, i, u) == outbox[d][i].op = "set" /\ outbox[d][i].user = u

\* The last mean of u that d has queued, or sent if none is queued, is one
\* rating behind.
LastIsBehind(d, u) ==
  \/ /\ \A i \in 1..Len(outbox[d]) : ~Sets(d, i, u)
     /\ userRate[u] \in Behind(u)
  \/ \E i \in 1..Len(outbox[d]) :
       /\ Sets(d, i, u) /\ outbox[d][i].mean \in Behind(u)
       /\ \A j \in (i + 1)..Len(outbox[d]) : ~Sets(d, j, u)

\* Only who rated u overwrites the rate of u.
SetsByRaters(d) ==
  \A i \in 1..Len(outbox[d]), u \in Users :
    Sets(d, i, u) => \E r \in RatingsOf(u) : AuthorOf[about[r].task] = UserOf[d]

\* Every rating was made on a device of its author.
MadeOnDevice ==
  \A r \in Made : \E d \in Devices : AuthorOf[about[r].task] = UserOf[d]

BehindInv ==
  /\ IsFiniteSet(Made) /\ MadeOnDevice
  /\ \A d \in Devices :
       /\ Steady(d) /\ Complete(d) /\ SetsByRaters(d)
       /\ \A u \in Users :
            RatingsOf(u) # {} /\ Alone(d, u) => LastIsBehind(d, u)

\* While no other account rates u, what a query of d returns are all ratings.
LEMMA ViewComplete ==
  ASSUME TypeOK, OnceInv, NEW d \in Devices, NEW u \in Users, Alone(d, u)
  PROVE  ViewOf(d, u) = RatingsOf(u)
<1>1. ASSUME NEW r \in ViewOf(d, u) PROVE r \in RatingsOf(u)
  <2>1. r \in Ratings /\ about[r].user = u
    BY <1>1, ViewTyped DEF ViewOf
  <2>2. about[r] # NoRating
    BY <2>1, RatingsAssumption DEF NoRating
  <2>3. QED
    BY <2>1, <2>2 DEF RatingsOf, Made
<1>2. ASSUME NEW r \in RatingsOf(u) PROVE r \in ViewOf(d, u)
  <2>1. r \in Made /\ about[r].user = u /\ UserOf[d] = AuthorOf[about[r].task]
    BY <1>2 DEF RatingsOf, Alone
  <2>2. r \in ViewRates(d)
    BY <2>1 DEF OnceInv, Seen
  <2>3. QED
    BY <2>1, <2>2 DEF ViewOf
<1>3. QED
  BY <1>1, <1>2

\* With one provider an answered isAccepted() leaves a variable that was
\* assigned as it is.
LEMMA ProviderSteady ==
  ASSUME OneProvider, TypeOK, NEW d \in Devices, NEW t \in Tasks, AssignProvider(d, t),
         provider[d] \in Accepted \cup {NoUser}
  PROVE  /\ provider'[d] \in Accepted \cup {NoUser}
         /\ provider[d] # NoUser => provider'[d] = provider[d]
         /\ \A e \in Devices \ {d} : provider'[e] = provider[e]
<1>1. CASE UNCHANGED provider
  BY <1>1
<1>2. ASSUME NEW p \in AcceptedOn[t], provider' = [provider EXCEPT ![d] = p]
      PROVE  /\ provider'[d] \in Accepted
             /\ provider[d] \in Accepted => provider'[d] = provider[d]
             /\ \A e \in Devices \ {d} : provider'[e] = provider[e]
  BY <1>2 DEF TypeOK, Accepted, OneProvider
<1>3. QED
  BY <1>1, <1>2 DEF AssignProvider

\* A step that rates nothing, queues nothing and sends nothing.
LEMMA NothingSent ==
  ASSUME BehindInv, NEW d \in Devices, UNCHANGED <<about, outbox, userRate>>,
         Steady(d)', Complete(d)',
         \A e \in Devices \ {d} :
           /\ provider'[e] = provider[e] /\ stage'[e] = stage[e]
           /\ queried'[e] = queried[e] /\ data'[e] = data[e] /\ dialog'[e] = dialog[e]
  PROVE  BehindInv'
<1>1. /\ Made' = Made
      /\ \A u : RatingsOf(u)' = RatingsOf(u)
  BY DEF Made, RatingsOf
<1>2. \A e, u : Alone(e, u)' <=> Alone(e, u)
  BY <1>1 DEF Alone
<1>3. ASSUME NEW e \in Devices PROVE SetsByRaters(e)'
  BY <1>1 DEF BehindInv, SetsByRaters, Sets
<1>4. ASSUME NEW e \in Devices, NEW u \in Users, LastIsBehind(e, u)
      PROVE  LastIsBehind(e, u)'
  BY <1>1, <1>4 DEF LastIsBehind, Sets, Behind
<1>5. ASSUME NEW e \in Devices \ {d} PROVE Steady(e)' /\ Complete(e)'
  BY <1>1, <1>2 DEF BehindInv, Steady, Complete
<1>6. MadeOnDevice'
  BY <1>1 DEF BehindInv, MadeOnDevice
<1>7. QED
  BY <1>1, <1>2, <1>3, <1>4, <1>5, <1>6 DEF BehindInv

\* Steps of a screen that rate nothing.
LEMMA BehindScreenStep ==
  ASSUME OneProvider, TypeOK, Assigned, OnceInv, BehindInv, NEW d \in Devices,
         \/ \E t \in Tasks : OpenDetail(d, t) \/ StrayDone(d, t)
         \/ Back(d) \/ Rebuild(d) \/ LookupDone(d) \/ FetchDetails(d)
         \/ IsRatedDone(d) \/ StreamData(d) \/ CancelRate(d)
         \/ \E r \in Ratings : TouchBar(d, r)
  PROVE  BehindInv'
<1> USE DEF server, screen
<1>1. UNCHANGED <<about, outbox, userRate>>
  BY DEF OpenDetail, StrayDone, Back, Rebuild, LookupDone, FetchDetails, IsRatedDone,
         StreamData, CancelRate, TouchBar
<1>2. /\ \A u : RatingsOf(u)' = RatingsOf(u)
      /\ \A u : Alone(d, u)' <=> Alone(d, u)
  BY <1>1 DEF Made, RatingsOf, Alone
<1>3. Steady(d) /\ Complete(d)
  BY DEF BehindInv
<1>4. provider[d] = NoUser => stage[d] # "bar" /\ data[d] = NoData /\ dialog[d].data = NoData
  BY <1>3, RatingsAssumption DEF Assigned, Steady, NoDialog
<1>d. ASSUME Steady(d)', Complete(d)',
             \A e \in Devices \ {d} :
               /\ provider'[e] = provider[e] /\ stage'[e] = stage[e]
               /\ queried'[e] = queried[e] /\ data'[e] = data[e]
               /\ dialog'[e] = dialog[e]
      PROVE  BehindInv'
  BY <1>1, <1>d, NothingSent
<1>c. ASSUME {data'[d], dialog'[d].data} \subseteq {data[d], dialog[d].data, NoData},
             provider'[d] = provider[d]
      PROVE  Complete(d)'
  BY <1>2, <1>3, <1>c DEF Complete
<1>5. ASSUME NEW t \in Tasks, OpenDetail(d, t) PROVE BehindInv'
  <2>1. stage[d] # "bar" /\ data[d] = NoData
    BY <1>3, <1>5, RatingsAssumption DEF OpenDetail, Assigned, Steady
  <2>2. /\ UNCHANGED <<provider, queried, data, dialog>>
        /\ stage'[d] # "bar" /\ \A e \in Devices \ {d} : stage'[e] = stage[e]
    BY <1>5 DEF OpenDetail, Build, TypeOK
  <2>3. QED
    BY <1>3, <1>c, <1>d, <2>1, <2>2 DEF Steady
<1>6. ASSUME NEW t \in Tasks, AssignProvider(d, t),
             UNCHANGED <<queried, data, dialog>>,
             stage'[d] = "bar" => stage[d] = "bar",
             data[d] # NoData => stage'[d] = "bar",
             \A e \in Devices \ {d} : stage'[e] = stage[e]
      PROVE  BehindInv'
  <2>1. /\ provider'[d] \in Accepted \cup {NoUser}
        /\ provider[d] # NoUser => provider'[d] = provider[d]
        /\ \A e \in Devices \ {d} : provider'[e] = provider[e]
    BY <1>3, <1>6, ProviderSteady DEF Steady
  <2>2. Steady(d)'
    BY <1>3, <1>4, <1>6, <2>1 DEF Steady
  <2>3. Complete(d)'
    <3>1. CASE provider[d] # NoUser
      BY <1>6, <1>c, <2>1, <3>1
    <3>2. CASE provider[d] = NoUser
      BY <1>4, <1>6, <3>2 DEF Complete
    <3>3. QED
      BY <3>1, <3>2
  <2>4. QED
    BY <1>6, <1>d, <2>1, <2>2, <2>3
<1>7. ASSUME NEW t \in Tasks, StrayDone(d, t) PROVE BehindInv'
  BY <1>3, <1>6, <1>7 DEF StrayDone, Steady
<1>8. CASE LookupDone(d)
  <2>1. page[d] \in Tasks /\ data[d] = NoData
    BY <1>3, <1>8 DEF LookupDone, Assigned, Steady
  <2>2. stage'[d] # "bar" /\ \A e \in Devices \ {d} : stage'[e] = stage[e]
    BY <1>8 DEF LookupDone, TypeOK
  <2>3. QED
    BY <1>6, <1>8, <2>1, <2>2 DEF LookupDone
<1>9. CASE Back(d) \/ Rebuild(d)
  <2>1. /\ UNCHANGED <<provider, dialog>> /\ data'[d] = NoData /\ stage'[d] # "bar"
        /\ \A e \in Devices \ {d} :
             stage'[e] = stage[e] /\ queried'[e] = queried[e] /\ data'[e] = data[e]
    BY <1>9 DEF Back, Rebuild, Build, ClearPart, TypeOK
  <2>2. QED
    BY <1>3, <1>c, <1>d, <2>1 DEF Steady
<1>10. CASE FetchDetails(d)
  <2>1. /\ UNCHANGED <<provider, queried, data, dialog>>
        /\ stage[d] = "accepted" /\ stage'[d] # "bar"
        /\ \A e \in Devices \ {d} : stage'[e] = stage[e]
    BY <1>10 DEF FetchDetails, TypeOK
  <2>2. QED
    BY <1>3, <1>c, <1>d, <2>1 DEF Steady
<1>11. CASE IsRatedDone(d)
  <2>1. /\ UNCHANGED <<provider, data, dialog>>
        /\ stage[d] = "details" /\ (stage'[d] = "bar" => queried'[d] = provider[d])
        /\ \A e \in Devices \ {d} : stage'[e] = stage[e] /\ queried'[e] = queried[e]
    BY <1>11 DEF IsRatedDone, TypeOK
  <2>2. QED
    BY <1>3, <1>c, <1>d, <2>1 DEF Steady
<1>12. CASE StreamData(d)
  <2>1. /\ UNCHANGED <<provider, stage, queried, dialog>> /\ stage[d] = "bar"
        /\ data'[d] = ViewOf(d, queried[d])
        /\ \A e \in Devices \ {d} : data'[e] = data[e]
    BY <1>12 DEF StreamData, TypeOK
  <2>2. queried[d] = provider[d] /\ provider[d] \in Users
    BY <1>3, <2>1 DEF Assigned, Steady
  <2>3. Complete(d)'
    BY <1>2, <1>3, <2>1, <2>2, ViewComplete DEF Complete
  <2>4. QED
    BY <1>3, <1>d, <2>1, <2>3 DEF Steady
<1>13. ASSUME NEW r \in Ratings, TouchBar(d, r) PROVE BehindInv'
  <2>1. /\ UNCHANGED <<provider, stage, queried, data>> /\ dialog'[d].data = data[d]
        /\ \A e \in Devices \ {d} : dialog'[e] = dialog[e]
    BY <1>13 DEF TouchBar, TypeOK
  <2>2. QED
    BY <1>3, <1>c, <1>d, <2>1 DEF Steady
<1>14. CASE CancelRate(d)
  <2>1. /\ UNCHANGED <<provider, stage, queried, data>> /\ dialog'[d].data = NoData
        /\ \A e \in Devices \ {d} : dialog'[e] = dialog[e]
    BY <1>14 DEF CancelRate, TypeOK, NoDialog
  <2>2. QED
    BY <1>3, <1>c, <1>d, <2>1 DEF Steady
<1>15. QED
  BY <1>5, <1>7, <1>8, <1>9, <1>10, <1>11, <1>12, <1>13, <1>14

\* The rating is the last of its provider; its mean counts all before it, or
\* it alone.
LEMMA BehindRateStep ==
  ASSUME OneDeviceEach, TypeOK, Assigned, OnceInv, BehindInv,
         NEW d \in Devices, RateOk(d)
  PROVE  BehindInv'
<1> USE DEF server, screen
<1> DEFINE q == outbox[d]
<1>0. PICK r, t, p, mean, n :
        /\ r = dialog[d].rating /\ t = page[d] /\ p = provider[d]
        /\ mean = RateMean(d) /\ n = Len(q)
  OBVIOUS
<1>1. /\ r \in Ratings /\ r \notin Made /\ t \in Tasks /\ p \in Users
      /\ mean \in SUBSET Ratings /\ AuthorOf[t] = UserOf[d]
  BY <1>0, DialogTyped DEF RateOk, RateUser, OnceInv, Own
<1>2. /\ about'[r] = [task |-> t, user |-> p] /\ about'[r] # NoRating
      /\ \A x \in Ratings \ {r} : about'[x] = about[x]
  BY <1>0, <1>1, RatingsAssumption DEF RateOk, RateUser, TypeOK, NoRating
<1>3. Made' = Made \cup {r} /\ \A x \in Made : about'[x] = about[x]
  BY <1>1, <1>2 DEF Made
<1>4. /\ RatingsOf(p)' = RatingsOf(p) \cup {r}
      /\ r \notin RatingsOf(p)
      /\ \A u : RatingsOf(u) \subseteq RatingsOf(u)'
      /\ \A u : u # p => RatingsOf(u)' = RatingsOf(u)
  BY <1>1, <1>2, <1>3 DEF RatingsOf
<1>5. \A e \in Devices, u \in Users : Alone(e, u)' => Alone(e, u)
  BY <1>3, <1>4 DEF Alone, RatingsOf
<1>6. \A e \in Devices \ {d} : ~Alone(e, p)'
  BY <1>1, <1>2, <1>4 DEF Alone, OneDeviceEach
<1>7. Alone(d, p)' => mean \in Behind(p)'
  <2>1. ASSUME Alone(d, p)' PROVE mean \in {RatingsOf(p), {r}}
    BY <1>0, <1>1, <1>5, <2>1 DEF RateMean, BehindInv, Complete, RateOk
  <2>2. RatingsOf(p) = RatingsOf(p)' \ {r} /\ r \in RatingsOf(p)'
    BY <1>4
  <2>3. QED
    BY <2>1, <2>2 DEF Behind
<1>8. /\ outbox'[d] = q \o <<AddRate(r), SetRate(p, mean)>>
      /\ \A e \in Devices \ {d} : outbox'[e] = outbox[e]
      /\ UNCHANGED <<userRate, provider>>
  BY <1>0 DEF RateOk, RateWrites, RateUser, TypeOK
<1>9. /\ stage'[d] # "bar" /\ data'[d] = NoData /\ dialog'[d] = NoDialog
      /\ \A e \in Devices \ {d} :
           /\ stage'[e] = stage[e] /\ queried'[e] = queried[e]
           /\ data'[e] = data[e] /\ dialog'[e] = dialog[e]
  BY DEF RateOk, Build, ClearPart, TypeOK
<1>10. /\ n \in Nat /\ Len(outbox'[d]) = n + 2
       /\ \A i \in 1..n : outbox'[d][i] = q[i]
       /\ outbox'[d][n + 1] = AddRate(r)
       /\ outbox'[d][n + 2] = SetRate(p, mean)
  <2> DEFINE add == AddRate(r)
             set == SetRate(p, mean)
  <2>1. q \in Seq(Write) /\ <<add, set>> \in Seq(Write)
    BY <1>1, WritesTyped DEF TypeOK, RateWrites
  <2>2. outbox'[d] = q \o <<add, set>>
    BY <1>8
  <2> HIDE DEF q, add, set
  <2>3. /\ n \in Nat /\ Len(outbox'[d]) = n + 2
        /\ \A i \in 1..n : outbox'[d][i] = q[i]
        /\ outbox'[d][n + 1] = add
        /\ outbox'[d][n + 2] = set
    BY <1>0, <2>1, <2>2
  <2>4. QED
    BY <2>3 DEF add, set
<1> HIDE DEF q
<1>11. /\ \A u : \A i \in 1..n : Sets(d, i, u)' <=> Sets(d, i, u)
       /\ \A u : ~Sets(d, n + 1, u)'
       /\ \A u : Sets(d, n + 2, u)' <=> u = p
       /\ \A e \in Devices \ {d} : \A u, i : Sets(e, i, u)' <=> Sets(e, i, u)
  <2>1. \A u : \A i \in 1..n : Sets(d, i, u)' <=> Sets(d, i, u)
    BY <1>10 DEF Sets, q
  <2>2. \A u : ~Sets(d, n + 1, u)'
    BY <1>10 DEF Sets, AddRate
  <2>3. \A u : Sets(d, n + 2, u)' <=> u = p
    BY <1>10 DEF Sets, SetRate
  <2>4. \A e \in Devices \ {d} : \A u, i : Sets(e, i, u)' <=> Sets(e, i, u)
    BY <1>8 DEF Sets
  <2>5. QED
    BY <2>1, <2>2, <2>3, <2>4
<1>12. \A i \in 1..Len(outbox'[d]) : i \in 1..n \/ i = n + 1 \/ i = n + 2
  BY <1>10
<1>13. \A e \in Devices : Steady(e)' /\ Complete(e)'
  <2>1. Steady(d)' /\ Complete(d)'
    BY <1>8, <1>9 DEF BehindInv, Steady, Complete, NoDialog
  <2>2. ASSUME NEW e \in Devices \ {d} PROVE Steady(e)'
    BY <1>8, <1>9 DEF BehindInv, Steady
  <2>3. ASSUME NEW e \in Devices \ {d}, NEW c \in {data[e], dialog[e].data}, NEW u,
               c # NoData, u = provider[e], Alone(e, u)'
        PROVE  c = RatingsOf(u)'
    <3>1. u # p
      BY <1>6, <2>3
    <3>2. u \in Users
      BY <2>3 DEF BehindInv, Steady, Assigned, NoDialog
    <3>3. c = RatingsOf(u)
      BY <1>5, <2>3, <3>2 DEF BehindInv, Complete
    <3>4. QED
      BY <1>4, <3>1, <3>3
  <2>4. ASSUME NEW e \in Devices \ {d} PROVE Complete(e)'
    BY <1>8, <1>9, <2>3 DEF Complete
  <2>5. QED
    BY <2>1, <2>2, <2>4
<1>14. \A e \in Devices : SetsByRaters(e)'
  <2>1. ASSUME NEW e \in Devices \ {d} PROVE SetsByRaters(e)'
    <3>1. SetsByRaters(e) /\ outbox'[e] = outbox[e]
      BY <1>8 DEF BehindInv
    <3>2. ASSUME NEW u \in Users, NEW x \in RatingsOf(u)
          PROVE  x \in RatingsOf(u)' /\ about'[x] = about[x]
      BY <1>3, <1>4 DEF RatingsOf
    <3>3. ASSUME NEW i \in 1..Len(outbox'[e]), NEW u \in Users, Sets(e, i, u)'
          PROVE  \E x \in RatingsOf(u)' : AuthorOf[about'[x].task] = UserOf[e]
      <4>1. PICK x \in RatingsOf(u) : AuthorOf[about[x].task] = UserOf[e]
        BY <1>11, <3>1, <3>3 DEF SetsByRaters
      <4>2. QED
        BY <3>2, <4>1
    <3>4. QED
      BY <3>3 DEF SetsByRaters
  <2>2. ASSUME NEW i \in 1..Len(outbox'[d]), NEW u \in Users, Sets(d, i, u)'
        PROVE  \E x \in RatingsOf(u)' : AuthorOf[about'[x].task] = UserOf[d]
    <3>1. CASE i \in 1..n
      <4>1. PICK x \in RatingsOf(u) : AuthorOf[about[x].task] = UserOf[d]
        BY <1>0, <1>11, <2>2, <3>1 DEF BehindInv, SetsByRaters, q
      <4>2. QED
        BY <1>3, <1>4, <4>1 DEF RatingsOf
    <3>2. CASE i = n + 2
      <4>1. u = p /\ r \in RatingsOf(p)'
        BY <1>4, <1>11, <2>2, <3>2
      <4>2. QED
        BY <1>1, <1>2, <4>1
    <3>3. QED
      BY <1>11, <1>12, <2>2, <3>1, <3>2
  <2>3. SetsByRaters(d)'
    BY <2>2 DEF SetsByRaters
  <2>4. QED
    BY <2>1, <2>3
<1>15. ASSUME NEW e \in Devices, NEW u \in Users, RatingsOf(u)' # {}, Alone(e, u)'
       PROVE  LastIsBehind(e, u)'
  <2>1. CASE u = p
    <3>1. e = d /\ mean \in Behind(p)'
      BY <1>6, <1>7, <1>15, <2>1
    <3>2. /\ n + 2 \in 1..Len(outbox'[d]) /\ Sets(d, n + 2, p)'
          /\ outbox'[d][n + 2].mean = mean
          /\ \A j \in (n + 3)..Len(outbox'[d]) : ~Sets(d, j, p)'
      BY <1>10, <1>11 DEF SetRate
    <3>3. n + 2 + 1 = n + 3
      BY <1>10
    <3>4. QED
      BY <2>1, <3>1, <3>2, <3>3 DEF LastIsBehind
  <2>2. CASE u # p
    <3>1. RatingsOf(u)' = RatingsOf(u) /\ Behind(u)' = Behind(u)
      BY <1>4, <2>2 DEF Behind
    <3>2. LastIsBehind(e, u)
      BY <1>5, <1>15, <3>1 DEF BehindInv
    <3>3. CASE e # d
      BY <1>8, <1>11, <3>1, <3>2, <3>3 DEF LastIsBehind
    <3>4. CASE e = d /\ \A i \in 1..n : ~Sets(d, i, u)
      <4>1. userRate[u] \in Behind(u)
        BY <1>0, <3>2, <3>4 DEF LastIsBehind, q
      <4>2. \A i \in 1..Len(outbox'[d]) : ~Sets(d, i, u)'
        BY <1>11, <1>12, <2>2, <3>4
      <4>3. QED
        BY <1>8, <3>1, <3>4, <4>1, <4>2 DEF LastIsBehind
    <3>5. ASSUME e = d, NEW i \in 1..n, Sets(d, i, u), q[i].mean \in Behind(u),
                 \A j \in (i + 1)..n : ~Sets(d, j, u)
          PROVE  LastIsBehind(e, u)'
      <4>1. i \in 1..Len(outbox'[d]) /\ Sets(d, i, u)' /\ outbox'[d][i].mean \in Behind(u)'
        BY <1>10, <1>11, <3>1, <3>5
      <4>2. ASSUME NEW j \in (i + 1)..Len(outbox'[d]) PROVE ~Sets(d, j, u)'
        <5>1. j \in (i + 1)..n \/ j = n + 1 \/ j = n + 2
          BY <1>10
        <5>2. \A k \in (i + 1)..n : k \in 1..n
          BY <1>10
        <5>3. QED
          BY <1>11, <2>2, <3>5, <5>1, <5>2
      <4>3. QED
        BY <3>5, <4>1, <4>2 DEF LastIsBehind
    <3>6. QED
      BY <1>0, <3>2, <3>3, <3>4, <3>5 DEF LastIsBehind, q
  <2>3. QED
    BY <2>1, <2>2
<1>16. IsFiniteSet(Made')
  BY <1>3, FS_AddElement DEF BehindInv
<1>17. MadeOnDevice'
  BY <1>1, <1>2, <1>3 DEF BehindInv, MadeOnDevice
<1>18. QED
  BY <1>13, <1>14, <1>15, <1>16, <1>17 DEF BehindInv

\* What is sent is the oldest write: the last mean stays the last, queued or
\* sent.
LEMMA BehindFlushStep ==
  ASSUME OneDeviceEach, TypeOK, BehindInv, NEW d \in Devices, Flush(d)
  PROVE  BehindInv'
<1> USE DEF server, screen
<1> DEFINE q == outbox[d]
<1>1. PICK n : n = Len(q)
  OBVIOUS
<1>2. /\ n \in Nat \ {0} /\ q[1] \in Write /\ Head(q) = q[1]
      /\ Len(outbox'[d]) = n - 1
      /\ \A i \in 1..(n - 1) : outbox'[d][i] = q[i + 1]
  <2>1. q \in Seq(Write) /\ q # <<>> /\ outbox'[d] = Tail(q)
    BY DEF Flush, TypeOK
  <2> HIDE DEF q
  <2>2. QED
    BY <1>1, <2>1
<1>3. /\ UNCHANGED <<about, provider, stage, queried, data, dialog>>
      /\ \A e \in Devices \ {d} : outbox'[e] = outbox[e]
  BY DEF Flush, TypeOK
<1>4. \A u \in Users :
        userRate'[u] = IF Sets(d, 1, u) THEN q[1].mean ELSE userRate[u]
  BY <1>2 DEF Flush, Sets, TypeOK
<1> HIDE DEF q
<1>5. Made' = Made /\ \A u : RatingsOf(u)' = RatingsOf(u) /\ Behind(u)' = Behind(u)
  BY <1>3 DEF Made, RatingsOf, Behind
<1>6. \A e, u : Alone(e, u)' <=> Alone(e, u)
  BY <1>3, <1>5 DEF Alone
<1>7. /\ \A u : \A i \in 1..(n - 1) : Sets(d, i, u)' <=> Sets(d, i + 1, u)
      /\ \A e \in Devices \ {d} : \A i, u : Sets(e, i, u)' <=> Sets(e, i, u)
  BY <1>2, <1>3 DEF Sets, q
<1>8. \A i \in 1..(n - 1) : i + 1 \in 1..n
  BY <1>2
<1>9. \A e \in Devices : Steady(e)' /\ Complete(e)'
  BY <1>3, <1>5, <1>6 DEF BehindInv, Steady, Complete
<1>10. ASSUME NEW e \in Devices PROVE SetsByRaters(e)'
  <2>1. SetsByRaters(e)
    BY DEF BehindInv
  <2>2. CASE e = d
    BY <1>1, <1>2, <1>3, <1>5, <1>7, <1>8, <2>1, <2>2 DEF SetsByRaters, q
  <2>3. CASE e # d
    BY <1>3, <1>5, <1>7, <2>1, <2>3 DEF SetsByRaters
  <2>4. QED
    BY <2>2, <2>3
<1>11. ASSUME NEW e \in Devices, NEW u \in Users, RatingsOf(u) # {}, Alone(e, u)
       PROVE  LastIsBehind(e, u)'
  <2>1. LastIsBehind(e, u)
    BY <1>11 DEF BehindInv
  <2>2. CASE e # d
    <3>1. ~Sets(d, 1, u)
      <4>1. ASSUME Sets(d, 1, u)
            PROVE  \E r \in RatingsOf(u) : AuthorOf[about[r].task] = UserOf[d]
        BY <1>1, <1>2, <4>1 DEF BehindInv, SetsByRaters, q
      <4>2. UserOf[e] # UserOf[d]
        BY <2>2 DEF OneDeviceEach
      <4>3. QED
        BY <1>11, <4>1, <4>2 DEF Alone
    <3>2. userRate'[u] = userRate[u] /\ outbox'[e] = outbox[e]
      BY <1>3, <1>4, <2>2, <3>1
    <3>3. QED
      BY <1>5, <1>7, <2>1, <2>2, <3>2 DEF LastIsBehind
  <2>3. CASE e = d
    <3>1. CASE \A i \in 1..n : ~Sets(d, i, u)
      <4>1. userRate[u] \in Behind(u) /\ userRate'[u] = userRate[u]
        BY <1>1, <1>2, <1>4, <2>1, <2>3, <3>1 DEF LastIsBehind, q
      <4>2. \A i \in 1..Len(outbox'[d]) : ~Sets(d, i, u)'
        BY <1>2, <1>7, <1>8, <3>1
      <4>3. QED
        BY <1>5, <2>3, <4>1, <4>2 DEF LastIsBehind
    <3>2. ASSUME NEW i \in 1..n, Sets(d, i, u), q[i].mean \in Behind(u),
                 \A j \in (i + 1)..n : ~Sets(d, j, u)
          PROVE  LastIsBehind(d, u)'
      <4>1. CASE i = 1
        <5>1. userRate'[u] \in Behind(u)'
          BY <1>4, <1>5, <3>2, <4>1
        <5>2. \A k \in 1..(n - 1) : k + 1 \in (i + 1)..n
          BY <1>2, <4>1
        <5>3. \A k \in 1..Len(outbox'[d]) : ~Sets(d, k, u)'
          BY <1>2, <1>7, <3>2, <5>2
        <5>4. QED
          BY <5>1, <5>3 DEF LastIsBehind
      <4>2. CASE i # 1
        <5>1. /\ i - 1 \in 1..(n - 1) /\ (i - 1) + 1 = i
              /\ \A k \in i..(n - 1) : k \in 1..(n - 1) /\ k + 1 \in (i + 1)..n
          BY <1>2, <3>2, <4>2
        <5>2. Sets(d, i - 1, u)' /\ outbox'[d][i - 1].mean \in Behind(u)'
          BY <1>2, <1>5, <1>7, <3>2, <5>1
        <5>3. \A k \in i..(n - 1) : ~Sets(d, k, u)'
          BY <1>7, <3>2, <5>1
        <5>4. QED
          BY <1>2, <5>1, <5>2, <5>3 DEF LastIsBehind
      <4>3. QED
        BY <4>1, <4>2
    <3>3. QED
      BY <1>1, <2>1, <2>3, <3>1, <3>2 DEF LastIsBehind, q
  <2>4. QED
    BY <2>2, <2>3
<1>12. MadeOnDevice'
  BY <1>3, <1>5 DEF BehindInv, MadeOnDevice
<1>13. QED
  BY <1>5, <1>6, <1>9, <1>10, <1>11, <1>12 DEF BehindInv

\* Every step keeps the invariant, up to the first kill.
LEMMA BehindStep ==
  ASSUME OneDeviceEach, OneProvider, TypeOK, Assigned,
         crashes = 0 => OnceInv /\ BehindInv, [Next]_vars
  PROVE  crashes' = 0 => BehindInv'
<1> USE DEF server, screen
<1>1. ASSUME NEW d \in Devices, Crash(d) PROVE crashes' # 0
  BY <1>1 DEF Crash, TypeOK
<1>2. ASSUME crashes = 0, UNCHANGED vars PROVE BehindInv'
  <2>1. UNCHANGED <<userRate, outbox, about, provider, stage, queried, data, dialog>>
    BY <1>2 DEF vars
  <2>2. /\ Made' = Made
        /\ \A u : RatingsOf(u)' = RatingsOf(u) /\ Behind(u)' = Behind(u)
    BY <2>1 DEF Made, RatingsOf, Behind
  <2>3. /\ \A d, u : Alone(d, u)' <=> Alone(d, u)
        /\ \A d, i, u : Sets(d, i, u)' <=> Sets(d, i, u)
    BY <2>1, <2>2 DEF Alone, Sets
  <2>4. \A d \in Devices : Steady(d)' /\ Complete(d)' /\ SetsByRaters(d)'
    BY <1>2, <2>1, <2>2, <2>3 DEF BehindInv, Steady, Complete, SetsByRaters
  <2>5. ASSUME NEW d \in Devices, NEW u \in Users, LastIsBehind(d, u)
        PROVE  LastIsBehind(d, u)'
    BY <2>1, <2>2, <2>3, <2>5 DEF LastIsBehind
  <2>6. MadeOnDevice'
    BY <1>2, <2>1, <2>2 DEF BehindInv, MadeOnDevice
  <2>7. QED
    BY <1>2, <2>2, <2>3, <2>4, <2>5, <2>6 DEF BehindInv
<1>3. ASSUME NEW d \in Devices, ~Crash(d),
             \/ \E t \in Tasks : OpenDetail(d, t) \/ StrayDone(d, t)
             \/ Back(d) \/ Rebuild(d) \/ LookupDone(d) \/ FetchDetails(d)
             \/ IsRatedDone(d) \/ StreamData(d) \/ CancelRate(d)
             \/ \E r \in Ratings : TouchBar(d, r)
             \/ RateOk(d) \/ Flush(d)
      PROVE  crashes' = crashes
  BY <1>3 DEF OpenDetail, StrayDone, Back, Rebuild, LookupDone, FetchDetails,
     IsRatedDone, StreamData, CancelRate, TouchBar, RateOk, Flush
<1>4. QED
  BY <1>1, <1>2, <1>3, BehindScreenStep, BehindRateStep, BehindFlushStep DEF Next, vars

\* With nothing left to send the invariant is what the property says.
LEMMA BehindWhenQuiet ==
  ASSUME BehindInv, Quiet PROVE RateIsOneBehind
<1> SUFFICES ASSUME NEW u \in Users, Cardinality(RatersOf(u)) = 1
             PROVE  \E r \in RatingsOf(u) : userRate[u] \in {RatingsOf(u) \ {r}, {r}}
  BY DEF RateIsOneBehind
<1>1. IsFiniteSet(RatersOf(u))
  <2>1. IsFiniteSet(RatingsOf(u))
    <3>1. RatingsOf(u) \subseteq Made /\ IsFiniteSet(Made)
      BY DEF RatingsOf, BehindInv
    <3>2. QED
      BY <3>1, FS_Subset
  <2> DEFINE rater == [r \in RatingsOf(u) |-> AuthorOf[about[r].task]]
  <2>2. rater \in Surjection(RatingsOf(u), RatersOf(u))
    BY DEF RatersOf, Surjection
  <2> HIDE DEF rater
  <2>3. QED
    BY <2>1, <2>2, FS_Surjection
<1>2. PICK x : RatersOf(u) = {x}
  BY <1>1, FS_Singleton
<1>3. PICK r \in RatingsOf(u) : AuthorOf[about[r].task] = x
  BY <1>2 DEF RatersOf
<1>4. PICK d \in Devices : UserOf[d] = x
  BY <1>3 DEF BehindInv, MadeOnDevice, RatingsOf
<1>5. Alone(d, u)
  BY <1>2, <1>4 DEF Alone, RatersOf
<1>6. LastIsBehind(d, u)
  BY <1>3, <1>5 DEF BehindInv
<1>7. userRate[u] \in Behind(u)
  BY <1>6 DEF LastIsBehind, Quiet
<1>8. QED
  BY <1>7 DEF Behind

\* As long as no app is killed, every account has one device and all tasks
\* were accepted of one provider, the rate a provider with one rater is left
\* with is one rating behind: the screen averages what it had received when
\* the bar was touched.
THEOREM MeansAreOneBehind ==
  ASSUME OneDeviceEach, OneProvider PROVE Spec => []RateIsOneBehind
<1> DEFINE I == crashes = 0 => OnceInv /\ BehindInv
<1>1. Init => I
  <2>1. ASSUME Init PROVE Made = {} /\ \A u : RatingsOf(u) = {}
    BY <2>1 DEF Init, Made, RatingsOf
  <2>2. ASSUME Init PROVE OnceInv
    BY <2>1, <2>2 DEF Init, OnceInv, Seen, Once, Own, Fresh
  <2>3. ASSUME Init PROVE BehindInv
    <3>1. IsFiniteSet(Made) /\ MadeOnDevice
      BY <2>1, <2>3, FS_EmptySet DEF MadeOnDevice
    <3>2. ASSUME NEW d \in Devices PROVE Steady(d) /\ Complete(d)
      BY <2>3 DEF Init, Steady, Complete, NoDialog
    <3>3. ASSUME NEW d \in Devices PROVE SetsByRaters(d)
      BY <2>3 DEF Init, SetsByRaters
    <3>4. QED
      BY <2>1, <2>3, <3>1, <3>2, <3>3 DEF BehindInv
  <2>4. QED
    BY <2>2, <2>3
<1>2. TypeOK /\ Assigned /\ I /\ [Next]_vars => I'
  BY OnceStep, BehindStep
<1>3. I => RateIsOneBehind
  BY BehindWhenQuiet DEF RateIsOneBehind
<1>4. QED
  BY <1>1, <1>2, <1>3, TypeCorrect, PTL DEF Spec
=============================================================================
