------------------------- MODULE MarketplaceProofs -------------------------
(***************************************************************************)
(* Theorems about Marketplace, for any accounts, devices, tasks and        *)
(* offers, any number of overlapping answers and of killed apps; then what *)
(* the queues of the devices do to the offers: none comes back, none       *)
(* disappears unheard, none is made twice from one device.                 *)
(***************************************************************************)
EXTENDS Marketplace, TLAPS, FiniteSetTheorems

\* What the actions queue are writes.
LEMMA WritesTyped ==
  /\ \A t \in Tasks : PostTask(t) \in Write
  /\ \A o \in Offers : PutOffer(o) \in Write
  /\ \A o \in Offers, by \in Slots \cup {NoSlot} : DeleteOffer(o, by) \in Write
  /\ \A st \in {"added", "accepted", "rejected"}, o \in Offers :
       Notify(st, o) \in Write
BY DEF Write

\* A queue grows by writes only.
LEMMA QueueTyped ==
  ASSUME TypeOK, NEW d \in Devices, NEW ws \in Seq(Write), Queue(d, ws)
  PROVE  outbox' \in [Devices -> Seq(Write)]
<1>1. outbox[d] \o ws \in Seq(Write)
  BY DEF TypeOK
<1>2. QED
  BY <1>1 DEF TypeOK, Queue

Stages == {"idle", "getting", "fetched", "looping", "told", "deleting", "acked"}

\* The updates the actions make to a handler and to a dialog keep their types.
LEMMA UpdatesTyped ==
  /\ \A h \in Handler : [h EXCEPT !.mounted = FALSE] \in Handler
  /\ \A h \in Handler, st \in Stages : [h EXCEPT !.stage = st] \in Handler
  /\ \A h \in Handler, ds \in SUBSET Offers : [h EXCEPT !.docs = ds] \in Handler
  /\ \A x \in Dialog : [x EXCEPT !.mounted = FALSE] \in Dialog
BY DEF Handler, Dialog, Stages

\* Unmounting the rows of d keeps its handlers handlers.
LEMMA UnmountedTyped ==
  ASSUME TypeOK, NEW d \in Devices
  PROVE  Unmounted(d) \in [Slots -> Handler]
BY UpdatesTyped DEF TypeOK, Unmounted

\* Replacing one handler by a handler keeps the type of all of them.
LEMMA HandlerTyped ==
  ASSUME TypeOK, NEW d \in Devices, NEW s \in Slots, NEW h \in Handler,
         handler' = [handler EXCEPT ![d][s] = h]
  PROVE  handler' \in [Devices -> [Slots -> Handler]]
BY DEF TypeOK

\* The empty screen and handler have their types.
LEMMA IdleTyped == NoDialog \in Dialog /\ IdleHandler \in Handler
BY DEF NoDialog, Dialog, IdleHandler, Handler

\* A rebuilt screen shows one of the known results.
LEMMA RebuiltTyped ==
  ASSUME TypeOK, NEW d \in Devices, Rebuilt(d)
  PROVE  verdict' \in [Devices -> {"waiting", "open", "accepted", "priced", "unpriced"}]
BY DEF TypeOK, Rebuilt

\* Every step keeps the types.
LEMMA TypeStep == TypeOK /\ Captured /\ [Next]_vars => TypeOK'
<1> SUFFICES ASSUME TypeOK, Captured, [Next]_vars PROVE TypeOK'
  OBVIOUS
<1> USE DEF server, screen, history
<1>1. ASSUME NEW d \in Devices, NEW t \in Tasks, SendNewTask(d, t)
      PROVE  TypeOK'
  <2>1. <<PostTask(t)>> \in Seq(Write)
    BY WritesTyped
  <2>2. outbox' \in [Devices -> Seq(Write)]
    BY <1>1, <2>1, QueueTyped DEF SendNewTask
  <2>3. QED
    BY <1>1, <2>2 DEF SendNewTask, TypeOK
<1>2. ASSUME NEW d \in Devices, NEW t \in Tasks, OpenDetail(d, t)
      PROVE  TypeOK'
  BY <1>2 DEF OpenDetail, TypeOK
<1>3. ASSUME NEW d \in Devices, Back(d) PROVE TypeOK'
  BY <1>3, UnmountedTyped DEF Back, TypeOK
<1>4. ASSUME NEW d \in Devices, Rebuild(d) PROVE TypeOK'
  <2>1. dialog' \in [Devices -> Dialog]
    BY <1>4, UpdatesTyped DEF Rebuild, TypeOK
  <2>2. QED
    BY <1>4, <2>1, UnmountedTyped, RebuiltTyped DEF Rebuild, TypeOK
<1>5. ASSUME NEW d \in Devices, LookupDone(d) PROVE TypeOK'
  BY <1>5 DEF LookupDone, TypeOK
<1>6. ASSUME NEW d \in Devices, FetchDetails(d) PROVE TypeOK'
  BY <1>6 DEF FetchDetails, TypeOK
<1>7. ASSUME NEW d \in Devices, PressOffer(d) PROVE TypeOK'
  BY <1>7 DEF PressOffer, TypeOK
<1>8. ASSUME NEW d \in Devices, HasOfferedDone(d) PROVE TypeOK'
  <2>1. [NoDialog EXCEPT !.kind = "price"] \in Dialog
    BY DEF NoDialog, Dialog
  <2>2. QED
    BY <1>8, <2>1 DEF HasOfferedDone, TypeOK
<1>9. ASSUME NEW d \in Devices, NEW o \in Offers, AddOffer(d, o) PROVE TypeOK'
  <2>1. OfferWrites(o) \in Seq(Write)
    BY WritesTyped DEF OfferWrites
  <2>2. outbox' \in [Devices -> Seq(Write)]
    BY <1>9, <2>1, QueueTyped DEF AddOffer
  <2>3. QED
    BY <1>9, <2>2, IdleTyped DEF AddOffer, TypeOK
<1>10. ASSUME NEW d \in Devices, CloseDialog(d) PROVE TypeOK'
  BY <1>10, IdleTyped DEF CloseDialog, TypeOK
<1>11. ASSUME NEW d \in Devices, NEW o \in Offers, NEW kind \in {"accept", "reject"},
              PressAnswer(d, o, kind)
       PROVE  TypeOK'
  <2>1. [kind |-> kind, offer |-> o, mounted |-> kind = "accept"] \in Dialog
    BY DEF Dialog
  <2>2. QED
    BY <1>11, <2>1 DEF PressAnswer, TypeOK
<1>12. ASSUME NEW d \in Devices, CancelReject(d) PROVE TypeOK'
  BY <1>12, IdleTyped, UnmountedTyped, RebuiltTyped DEF CancelReject, TypeOK
<1>13. ASSUME NEW d \in Devices, NEW s \in Slots, NEW kind \in {"accept", "reject"},
              NEW stage \in {"getting", "deleting"}, Confirm(d, s, kind, stage),
              outbox' \in [Devices -> Seq(Write)]
       PROVE  TypeOK'
  <2>1. [stage |-> stage, offer |-> dialog[d].offer,
         docs |-> {}, mounted |-> dialog[d].mounted] \in Handler
    BY DEF TypeOK, Dialog, Handler
  <2>2. answers' \in 0..MaxAnswers
    BY <1>13, ConstantsAssumption DEF Confirm, TypeOK
  <2>3. handler' \in [Devices -> [Slots -> Handler]]
    BY <1>13, <2>1 DEF Confirm, TypeOK
  <2>4. QED
    BY <1>13, <2>2, <2>3, IdleTyped DEF Confirm, TypeOK
<1>14. ASSUME NEW d \in Devices, NEW s \in Slots, AcceptYes(d, s) PROVE TypeOK'
  BY <1>13, <1>14 DEF AcceptYes, TypeOK
<1>15. ASSUME NEW d \in Devices, NEW s \in Slots, AcceptGet(d, s) PROVE TypeOK'
  <2>1. ViewOffers(d, TaskOf[handler[d][s].offer]) \in SUBSET Offers
    BY DEF ViewOffers
  <2> DEFINE h == [[handler[d][s] EXCEPT !.stage = "fetched"]
                     EXCEPT !.docs = ViewOffers(d, TaskOf[handler[d][s].offer])]
  <2>2. h \in Handler
    <3>1. handler[d][s] \in Handler
      BY DEF TypeOK
    <3>2. [handler[d][s] EXCEPT !.stage = "fetched"] \in Handler
      BY <3>1, UpdatesTyped DEF Stages
    <3>3. QED
      BY <2>1, <3>2, UpdatesTyped
  <2>3. handler' = [handler EXCEPT ![d][s] = h]
    BY <1>15 DEF AcceptGet, TypeOK, Handler
  <2>4. handler' \in [Devices -> [Slots -> Handler]]
    BY <2>2, <2>3, HandlerTyped
  <2>5. QED
    BY <1>15, <2>4 DEF AcceptGet, TypeOK
<1>16. ASSUME NEW d \in Devices, NEW s \in Slots, AcceptResume(d, s) PROVE TypeOK'
  <2>1. handler' \in [Devices -> [Slots -> Handler]]
    <3>1. [handler[d][s] EXCEPT !.stage = "looping"] \in Handler
      <4>1. handler[d][s] \in Handler
        BY DEF TypeOK
      <4>2. QED
        BY <4>1, UpdatesTyped DEF Stages
    <3>2. QED
      BY <1>16, <3>1 DEF AcceptResume, TypeOK
  <2>2. QED
    BY <1>16, <2>1 DEF AcceptResume, TypeOK
<1>17. ASSUME NEW d \in Devices, NEW s \in Slots, NEW o \in Offers, LoopStep(d, s, o)
       PROVE  TypeOK'
  <2>1. LoopWrites(handler[d][s].offer, o) \in Seq(Write)
    <3>1. /\ DeleteOffer(o, NoSlot) \in Write
          /\ Notify("rejected", o) \in Write
          /\ Notify("accepted", o) \in Write
      BY WritesTyped
    <3>2. QED
      BY <3>1 DEF LoopWrites
  <2>2. outbox' \in [Devices -> Seq(Write)]
    BY <1>17, <2>1, QueueTyped DEF LoopStep
  <2>3. handler' \in [Devices -> [Slots -> Handler]]
    <3>1. \A h \in Handler : [h EXCEPT !.docs = h.docs \ {o}] \in Handler
      BY DEF Handler
    <3>2. [handler[d][s] EXCEPT !.docs = handler[d][s].docs \ {o}] \in Handler
      <4>1. handler[d][s] \in Handler
        BY DEF TypeOK
      <4>2. QED
        BY <3>1, <4>1
    <3>3. QED
      BY <1>17, <3>2 DEF LoopStep, TypeOK
  <2>4. QED
    BY <1>17, <2>2, <2>3 DEF LoopStep, TypeOK
<1>18. ASSUME NEW d \in Devices, NEW s \in Slots, LoopEnd(d, s) PROVE TypeOK'
  <2>1. handler' \in [Devices -> [Slots -> Handler]]
    <3>1. [handler[d][s] EXCEPT !.stage = "told"] \in Handler
      <4>1. handler[d][s] \in Handler
        BY DEF TypeOK
      <4>2. QED
        BY <4>1, UpdatesTyped DEF Stages
    <3>2. CASE handler' = [handler EXCEPT ![d][s].stage = "told"]
      BY <3>1, <3>2 DEF TypeOK
    <3>3. CASE handler' = [handler EXCEPT ![d][s] = IdleHandler]
      BY <3>3, IdleTyped DEF TypeOK
    <3>4. QED
      BY <1>18, <3>2, <3>3 DEF LoopEnd
  <2>2. QED
    BY <1>18, <2>1 DEF LoopEnd, TypeOK
<1>19. ASSUME NEW d \in Devices, NEW s \in Slots, TellOk(d, s) PROVE TypeOK'
  <2>1. dialog' \in [Devices -> Dialog]
    BY <1>19, UpdatesTyped DEF TellOk, TypeOK
  <2>2. [Unmounted(d) EXCEPT ![s] = IdleHandler] \in [Slots -> Handler]
    BY IdleTyped, UnmountedTyped
  <2>3. QED
    BY <1>19, <2>1, <2>2, RebuiltTyped DEF TellOk, TypeOK
<1>20. ASSUME NEW d \in Devices, NEW s \in Slots, RejectYes(d, s) PROVE TypeOK'
  <2>1. dialog[d].offer \in Offers
    BY <1>20 DEF RejectYes, Confirm, Captured
  <2>2. <<DeleteOffer(dialog[d].offer, s)>> \in Seq(Write)
    BY <2>1, WritesTyped
  <2>3. outbox' \in [Devices -> Seq(Write)]
    BY <1>20, <2>2, QueueTyped DEF RejectYes
  <2>4. QED
    BY <1>13, <1>20, <2>3 DEF RejectYes
<1>21. ASSUME NEW d \in Devices, NEW s \in Slots, RejectNotify(d, s) PROVE TypeOK'
  <2>1. handler[d][s].offer \in Offers
    BY <1>21 DEF RejectNotify, Captured
  <2>2. RejectWrites(handler[d][s].offer) \in Seq(Write)
    BY <2>1, WritesTyped DEF RejectWrites
  <2>3. outbox' \in [Devices -> Seq(Write)]
    BY <1>21, <2>2, QueueTyped DEF RejectNotify
  <2>4. QED
    BY <1>21, <2>3, IdleTyped DEF RejectNotify, TypeOK
<1>22. ASSUME NEW d \in Devices, Flush(d) PROVE TypeOK'
  <2> DEFINE w == Head(outbox[d])
  <2>1. w \in Write /\ Tail(outbox[d]) \in Seq(Write)
    BY <1>22 DEF Flush, TypeOK
  <2>2. outbox' \in [Devices -> Seq(Write)]
    BY <1>22, <2>1 DEF Flush, Dequeue, TypeOK
  <2>3. /\ w.op = "post" => w.task \in Tasks
        /\ w.op \in {"offer", "delete"} => w.offer \in Offers
        /\ w.op = "notify" => w.note \in Notif
    BY <2>1 DEF Write, PostTask, PutOffer, DeleteOffer, Notify, Notif
  <2>4. /\ tasks' \in SUBSET Tasks
        /\ offers' \in SUBSET Offers
        /\ served' \in SUBSET Offers
    BY <1>22, <2>3 DEF Flush, TypeOK
  <2>5. notifs' \in [Notif -> Nat]
    BY <1>22, <2>3 DEF Flush, TypeOK
  <2>6. handler' \in [Devices -> [Slots -> Handler]]
    <3>1. \A s \in Slots : handler[d][s] \in Handler
      BY DEF TypeOK
    <3>2. \A s \in Slots : [handler[d][s] EXCEPT !.stage = "acked"] \in Handler
      BY <3>1, UpdatesTyped DEF Stages
    <3>3. [s \in Slots |->
             IF w.op = "delete" /\ w.by = s /\ handler[d][s].stage = "deleting"
               THEN [handler[d][s] EXCEPT !.stage = "acked"] ELSE handler[d][s]]
            \in [Slots -> Handler]
      BY <3>1, <3>2
    <3>4. QED
      BY <1>22, <3>3 DEF Flush, TypeOK
  <2>7. QED
    BY <1>22, <2>2, <2>4, <2>5, <2>6 DEF Flush, TypeOK
<1>23. ASSUME NEW d \in Devices, Crash(d) PROVE TypeOK'
  <2>1. ASSUME NEW k \in 0..Len(outbox[d]) PROVE SubSeq(outbox[d], 1, k) \in Seq(Write)
    BY DEF TypeOK
  <2>2. outbox' \in [Devices -> Seq(Write)]
    BY <1>23, <2>1 DEF Crash, TypeOK
  <2>3. crashes' \in 0..MaxCrashes
    BY <1>23, ConstantsAssumption DEF Crash, TypeOK
  <2>4. QED
    BY <1>23, <2>2, <2>3, IdleTyped DEF Crash, RestartScreen, TypeOK
<1>24. CASE UNCHANGED vars
  BY <1>24 DEF vars, TypeOK
<1>25. QED
  BY <1>1, <1>2, <1>3, <1>4, <1>5, <1>6, <1>7, <1>8, <1>9, <1>10, <1>11, <1>12,
     <1>14, <1>15, <1>16, <1>17, <1>18, <1>19, <1>20, <1>21, <1>22, <1>23, <1>24
     DEF Next

\* Every step keeps dialogs and handlers on offers.
LEMMA CapturedStep == TypeOK /\ Captured /\ [Next]_vars => Captured'
<1> SUFFICES ASSUME TypeOK, Captured, [Next]_vars PROVE Captured'
  OBVIOUS
<1> USE DEF server, screen, history
<1>1. ASSUME UNCHANGED <<dialog, handler>> PROVE Captured'
  BY <1>1 DEF Captured
<1>2. ASSUME NEW d \in Devices, NEW s \in Slots, NEW h, UNCHANGED dialog,
             handler' = [handler EXCEPT ![d][s] = h],
             h.stage # "idle" => h.offer \in Offers
      PROVE  Captured'
  BY <1>2 DEF Captured, TypeOK
<1>3. ASSUME NEW d \in Devices, handler' = [handler EXCEPT ![d] = Unmounted(d)],
             \/ UNCHANGED dialog
             \/ dialog' = [dialog EXCEPT ![d] = NoDialog]
             \/ dialog' = [dialog EXCEPT ![d].mounted = FALSE]
      PROVE  Captured'
  BY <1>3 DEF Captured, TypeOK, Unmounted, NoDialog, Dialog, Handler
<1>4. ASSUME NEW d \in Devices, NEW t \in Tasks, SendNewTask(d, t) \/ OpenDetail(d, t)
      PROVE  Captured'
  BY <1>1, <1>4 DEF SendNewTask, OpenDetail
<1>5. ASSUME NEW d \in Devices,
             Back(d) \/ Rebuild(d) \/ CancelReject(d)
      PROVE  Captured'
  BY <1>3, <1>5 DEF Back, Rebuild, CancelReject
<1>6. ASSUME NEW d \in Devices, LookupDone(d) \/ FetchDetails(d) \/ PressOffer(d)
      PROVE  Captured'
  BY <1>1, <1>6 DEF LookupDone, FetchDetails, PressOffer
<1>7. ASSUME NEW d \in Devices, HasOfferedDone(d) PROVE Captured'
  BY <1>7 DEF HasOfferedDone, Captured, TypeOK, NoDialog
<1>8. ASSUME NEW d \in Devices, NEW o \in Offers, AddOffer(d, o) PROVE Captured'
  BY <1>8 DEF AddOffer, Captured, TypeOK, NoDialog
<1>9. ASSUME NEW d \in Devices, CloseDialog(d) PROVE Captured'
  BY <1>9 DEF CloseDialog, Captured, TypeOK, NoDialog
<1>10. ASSUME NEW d \in Devices, NEW o \in Offers, NEW kind \in {"accept", "reject"},
              PressAnswer(d, o, kind)
       PROVE  Captured'
  BY <1>10 DEF PressAnswer, Captured, TypeOK
<1>11. ASSUME NEW d \in Devices, NEW s \in Slots, NEW kind \in {"accept", "reject"},
              NEW stage \in {"getting", "deleting"}, Confirm(d, s, kind, stage)
       PROVE  Captured'
  BY <1>11 DEF Confirm, Captured, TypeOK, NoDialog
<1>12. ASSUME NEW d \in Devices, NEW s \in Slots, AcceptYes(d, s) \/ RejectYes(d, s)
       PROVE  Captured'
  BY <1>11, <1>12 DEF AcceptYes, RejectYes
<1>13. ASSUME NEW d \in Devices, NEW s \in Slots,
              AcceptGet(d, s) \/ AcceptResume(d, s)
                \/ (\E o \in Offers : LoopStep(d, s, o)) \/ LoopEnd(d, s)
       PROVE  Captured'
  <2>1. handler[d][s].offer \in Offers
    BY <1>13 DEF AcceptGet, AcceptResume, LoopStep, LoopEnd, Captured
  <2>2. UNCHANGED dialog
    BY <1>13 DEF AcceptGet, AcceptResume, LoopStep, LoopEnd
  <2>3. /\ \A e \in Devices \ {d} : handler'[e] = handler[e]
        /\ \A r \in Slots \ {s} : handler'[d][r] = handler[d][r]
    BY <1>13 DEF AcceptGet, AcceptResume, LoopStep, LoopEnd, TypeOK
  <2>4. handler'[d][s].offer = handler[d][s].offer \/ handler'[d][s] = IdleHandler
    <3>1. handler[d][s] \in Handler
      BY DEF TypeOK
    <3>2. CASE AcceptGet(d, s)
      BY <3>1, <3>2 DEF AcceptGet, TypeOK, Handler
    <3>3. CASE AcceptResume(d, s)
      BY <3>1, <3>3 DEF AcceptResume, TypeOK, Handler
    <3>4. CASE \E o \in Offers : LoopStep(d, s, o)
      BY <3>1, <3>4 DEF LoopStep, TypeOK, Handler
    <3>5. CASE LoopEnd(d, s)
      BY <3>1, <3>5 DEF LoopEnd, TypeOK, Handler
    <3>6. QED
      BY <1>13, <3>2, <3>3, <3>4, <3>5
  <2>5. QED
    BY <2>1, <2>2, <2>3, <2>4 DEF Captured, IdleHandler
<1>14. ASSUME NEW d \in Devices, NEW s \in Slots, TellOk(d, s) PROVE Captured'
  <2>1. \A e \in Devices :
          dialog'[e].kind \in {"accept", "reject"} => dialog'[e].offer \in Offers
    BY <1>14 DEF TellOk, Captured, TypeOK, Dialog
  <2>2. \A r \in Slots :
          Unmounted(d)[r].stage # "idle" => Unmounted(d)[r].offer \in Offers
    <3>1. \A h \in Handler : /\ [h EXCEPT !.mounted = FALSE].stage = h.stage
                             /\ [h EXCEPT !.mounted = FALSE].offer = h.offer
      BY DEF Handler
    <3>2. \A r \in Slots : handler[d][r] \in Handler
      BY DEF TypeOK
    <3>3. QED
      BY <3>1, <3>2 DEF Unmounted, Captured
  <2>3. \A e \in Devices, r \in Slots :
          handler'[e][r].stage # "idle" => handler'[e][r].offer \in Offers
    <3>1. \A r \in Slots : handler'[d][r] = IF r = s THEN IdleHandler ELSE Unmounted(d)[r]
      BY <1>14 DEF TellOk, TypeOK, Unmounted
    <3>2. \A e \in Devices \ {d} : handler'[e] = handler[e]
      BY <1>14 DEF TellOk, TypeOK
    <3>3. QED
      BY <2>2, <3>1, <3>2 DEF Captured, IdleHandler
  <2>4. QED
    BY <2>1, <2>3 DEF Captured
<1>15. ASSUME NEW d \in Devices, NEW s \in Slots, RejectNotify(d, s) PROVE Captured'
  BY <1>2, <1>15 DEF RejectNotify, IdleHandler
<1>16. ASSUME NEW d \in Devices, Flush(d) PROVE Captured'
  BY <1>16 DEF Flush, Captured, TypeOK, Handler
<1>17. ASSUME NEW d \in Devices, Crash(d) PROVE Captured'
  BY <1>17 DEF Crash, RestartScreen, Captured, TypeOK, NoDialog, IdleHandler
<1>18. CASE UNCHANGED vars
  BY <1>1, <1>18 DEF vars
<1>19. QED
  BY <1>4, <1>5, <1>6, <1>7, <1>8, <1>9, <1>10, <1>12, <1>13, <1>14, <1>15, <1>16,
     <1>17, <1>18 DEF Next

\* The documents, queues, screens and handlers always have their types, and
\* an open answer dialog or a running handler always has the id of an offer.
THEOREM TypeCorrect == Spec => [](TypeOK /\ Captured)
<1>1. Init => TypeOK /\ Captured
  <2> SUFFICES ASSUME Init PROVE TypeOK /\ Captured
    OBVIOUS
  <2>1. TypeOK
    BY ConstantsAssumption, IdleTyped DEF Init, TypeOK
  <2>2. Captured
    BY DEF Init, Captured, NoDialog, IdleHandler
  <2>3. QED
    BY <2>1, <2>2
<1>2. (TypeOK /\ Captured) /\ [Next]_vars => (TypeOK /\ Captured)'
  BY TypeStep, CapturedStep
<1>3. QED
  BY <1>1, <1>2, PTL DEF Spec

-----------------------------------------------------------------------------
(* The queues.                                                             *)

\* Queueing appends: nothing that was pending is lost or moved.
LEMMA QueuePending ==
  ASSUME TypeOK, NEW d \in Devices, NEW ws \in Seq(Write), Queue(d, ws)
  PROVE  /\ Pending(d)' = Pending(d) \cup {ws[i] : i \in 1..Len(ws)}
         /\ \A e \in Devices \ {d} : Pending(e)' = Pending(e)
<1>1. outbox'[d] = outbox[d] \o ws /\ \A e \in Devices \ {d} : outbox'[e] = outbox[e]
  BY DEF Queue, TypeOK
<1>2. outbox[d] \in Seq(Write)
  BY DEF TypeOK
<1>3. \A i \in 1..Len(outbox[d]) : (outbox[d] \o ws)[i] = outbox[d][i]
  BY <1>2
<1>4. \A i \in 1..Len(ws) : /\ Len(outbox[d]) + i \in 1..Len(outbox[d] \o ws)
                            /\ (outbox[d] \o ws)[Len(outbox[d]) + i] = ws[i]
  BY <1>2
<1>5. \A k \in 1..Len(outbox[d] \o ws) :
        \/ k \in 1..Len(outbox[d])
        \/ k - Len(outbox[d]) \in 1..Len(ws) /\ k = Len(outbox[d]) + (k - Len(outbox[d]))
  BY <1>2
<1>6. 1..Len(outbox[d]) \subseteq 1..Len(outbox[d] \o ws)
  BY <1>2
<1>7. Pending(d)' = Pending(d) \cup {ws[i] : i \in 1..Len(ws)}
  <2>1. ASSUME NEW w \in Pending(d)' PROVE w \in Pending(d) \cup {ws[i] : i \in 1..Len(ws)}
    <3>1. PICK k \in 1..Len(outbox[d] \o ws) : w = (outbox[d] \o ws)[k]
      BY <1>1 DEF Pending
    <3>2. CASE k \in 1..Len(outbox[d])
      BY <1>3, <3>1, <3>2 DEF Pending
    <3>3. CASE k - Len(outbox[d]) \in 1..Len(ws) /\ k = Len(outbox[d]) + (k - Len(outbox[d]))
      BY <1>4, <3>1, <3>3
    <3>4. QED
      BY <1>5, <3>2, <3>3
  <2>2. ASSUME NEW w \in Pending(d) PROVE w \in Pending(d)'
    BY <1>1, <1>3, <1>6 DEF Pending
  <2>3. ASSUME NEW i \in 1..Len(ws) PROVE ws[i] \in Pending(d)'
    BY <1>1, <1>4 DEF Pending
  <2>4. QED
    BY <2>1, <2>2, <2>3
<1>8. \A e \in Devices \ {d} : Pending(e)' = Pending(e)
  BY <1>1 DEF Pending
<1>9. QED
  BY <1>7, <1>8

\* Delivering takes the oldest write away.
LEMMA DequeuePending ==
  ASSUME TypeOK, NEW d \in Devices, outbox[d] # <<>>, Dequeue(d)
  PROVE  /\ Head(outbox[d]) \in Pending(d)
         /\ Pending(d) = Pending(d)' \cup {Head(outbox[d])}
         /\ \A e \in Devices \ {d} : Pending(e)' = Pending(e)
<1>1. outbox'[d] = Tail(outbox[d]) /\ \A e \in Devices \ {d} : outbox'[e] = outbox[e]
  BY DEF Dequeue, TypeOK
<1>2. outbox[d] \in Seq(Write) /\ Len(outbox[d]) > 0
  BY DEF TypeOK
<1>3. /\ Len(Tail(outbox[d])) = Len(outbox[d]) - 1
      /\ \A i \in 1..Len(outbox[d]) - 1 : Tail(outbox[d])[i] = outbox[d][i + 1]
      /\ Head(outbox[d]) = outbox[d][1]
  BY <1>2
<1>4. ASSUME NEW w \in Pending(d) PROVE w \in Pending(d)' \cup {Head(outbox[d])}
  <2>1. PICK i \in 1..Len(outbox[d]) : w = outbox[d][i]
    BY DEF Pending
  <2>2. CASE i = 1
    BY <1>3, <2>1, <2>2
  <2>3. CASE i # 1
    <3>1. i - 1 \in 1..Len(Tail(outbox[d])) /\ Tail(outbox[d])[i - 1] = w
      BY <1>2, <1>3, <2>1, <2>3
    <3>2. QED
      BY <1>1, <3>1 DEF Pending
  <2>4. QED
    BY <2>2, <2>3
<1>5. ASSUME NEW w \in Pending(d)' PROVE w \in Pending(d)
  <2>1. PICK i \in 1..Len(Tail(outbox[d])) : w = Tail(outbox[d])[i]
    BY <1>1 DEF Pending
  <2>2. i + 1 \in 1..Len(outbox[d]) /\ outbox[d][i + 1] = w
    BY <1>2, <1>3, <2>1
  <2>3. QED
    BY <2>2 DEF Pending
<1>6. Head(outbox[d]) \in Pending(d)
  BY <1>2, <1>3 DEF Pending
<1>7. QED
  BY <1>1, <1>4, <1>5, <1>6 DEF Pending

\* A kill cuts the end of one queue off.
LEMMA CrashPending ==
  ASSUME TypeOK, NEW d \in Devices, Crash(d)
  PROVE  \A e \in Devices : Pending(e)' \subseteq Pending(e)
<1>1. PICK k \in 0..Len(outbox[d]) : outbox' = [outbox EXCEPT ![d] = SubSeq(@, 1, k)]
  BY DEF Crash
<1>2. outbox[d] \in Seq(Write)
  BY DEF TypeOK
<1>3. /\ Len(SubSeq(outbox[d], 1, k)) = k
      /\ \A i \in 1..k : SubSeq(outbox[d], 1, k)[i] = outbox[d][i]
  BY <1>2
<1>4. /\ outbox'[d] = SubSeq(outbox[d], 1, k)
      /\ \A e \in Devices \ {d} : outbox'[e] = outbox[e]
  BY <1>1 DEF TypeOK
<1>5. Pending(d)' \subseteq Pending(d)
  BY <1>2, <1>3, <1>4 DEF Pending
<1>6. QED
  BY <1>4, <1>5 DEF Pending

-----------------------------------------------------------------------------
(* Every answer is about an offer the server has received.                 *)

StoreOK ==
  /\ offers \subseteq served
  /\ \A st \in {"accepted", "rejected"}, o \in Offers : Told(st, o) => o \in served

QueueOK(d) ==
  /\ \A o \in Offers : PutOffer(o) \in Pending(d) => AuthorOf[TaskOf[o]] # UserOf[d]
  /\ \A st \in {"accepted", "rejected"}, o \in Offers :
       Notify(st, o) \in Pending(d) => o \in served

ScreenOK(d) ==
  /\ asking[d] \/ dialog[d].kind = "price" => page[d] \in Tasks /\ ~IsAuthor(d)
  /\ dialog[d].kind \in {"accept", "reject"} =>
       AuthorOf[TaskOf[dialog[d].offer]] = UserOf[d]
  /\ dialog[d].offer \in served \cup {NoOffer}

HandlerOK(d, s) ==
  /\ handler[d][s].stage # "idle" => AuthorOf[TaskOf[handler[d][s].offer]] = UserOf[d]
  /\ handler[d][s].offer \in served \cup {NoOffer}
  /\ handler[d][s].docs \subseteq served

DeviceOK(d) == QueueOK(d) /\ ScreenOK(d) /\ \A s \in Slots : HandlerOK(d, s)

\* The invariant, device by device.
LEMMA CausalParts ==
  Causal /\ AnswerHasOffer <=> StoreOK /\ \A d \in Devices : DeviceOK(d)
BY DEF Causal, AnswerHasOffer, StoreOK, DeviceOK, QueueOK, ScreenOK, HandlerOK, InFlight

\* A device none of whose state changes stays as it is.
LEMMA DeviceFrame ==
  ASSUME NEW e \in Devices, DeviceOK(e), served \subseteq served',
         page'[e] = page[e], asking'[e] = asking[e], dialog'[e] = dialog[e],
         handler'[e] = handler[e], Pending(e)' \subseteq Pending(e)
  PROVE  DeviceOK(e)'
BY DEF DeviceOK, QueueOK, ScreenOK, HandlerOK, IsAuthor

\* An offer the author sees on one of his tasks is stored: only its provider
\* sees it earlier.
LEMMA AuthorSeesStored ==
  ASSUME StoreOK, NEW d \in Devices, QueueOK(d), NEW t, AuthorOf[t] = UserOf[d],
         NEW o \in ViewOffers(d, t)
  PROVE  o \in served
BY DEF ViewOffers, StoreOK, QueueOK

\* Writes that are neither offers nor answers, and answers about stored
\* offers, may be queued by anybody.
LEMMA QueueAnswers ==
  ASSUME TypeOK, NEW d \in Devices, QueueOK(d), NEW ws \in Seq(Write), Queue(d, ws),
         UNCHANGED served,
         \A i \in 1..Len(ws) :
           /\ ws[i].op # "offer"
           /\ \A st \in {"accepted", "rejected"}, o \in Offers :
                ws[i] = Notify(st, o) => o \in served
  PROVE  QueueOK(d)'
<1>1. Pending(d)' = Pending(d) \cup {ws[i] : i \in 1..Len(ws)}
  BY QueuePending
<1>2. QED
  BY <1>1 DEF QueueOK, PutOffer

\* It is enough to look at the device that takes the step.
LEMMA DeviceStep ==
  ASSUME NEW d \in Devices, \A e \in Devices : DeviceOK(e), served \subseteq served',
         \A e \in Devices \ {d} :
           /\ page'[e] = page[e] /\ asking'[e] = asking[e] /\ dialog'[e] = dialog[e]
           /\ handler'[e] = handler[e] /\ Pending(e)' \subseteq Pending(e),
         StoreOK', QueueOK(d)', ScreenOK(d)', \A s \in Slots : HandlerOK(d, s)'
  PROVE  (StoreOK /\ \A e \in Devices : DeviceOK(e))'
<1>1. \A e \in Devices \ {d} : DeviceOK(e)'
  BY DeviceFrame
<1>2. DeviceOK(d)'
  BY DEF DeviceOK
<1>3. QED
  BY <1>1, <1>2

\* A step that writes and delivers nothing.
LEMMA QuietStep ==
  ASSUME NEW d \in Devices, StoreOK, \A e \in Devices : DeviceOK(e),
         UNCHANGED <<offers, notifs, served, outbox>>,
         \A e \in Devices \ {d} :
           /\ page'[e] = page[e] /\ asking'[e] = asking[e] /\ dialog'[e] = dialog[e]
           /\ handler'[e] = handler[e],
         ScreenOK(d)', \A s \in Slots : HandlerOK(d, s)'
  PROVE  (StoreOK /\ \A e \in Devices : DeviceOK(e))'
<1>1. \A e \in Devices : Pending(e)' = Pending(e)
  BY DEF Pending
<1>2. StoreOK'
  BY DEF StoreOK, Told
<1>3. QueueOK(d)'
  BY <1>1 DEF DeviceOK, QueueOK
<1>4. QED
  BY <1>1, <1>2, <1>3, DeviceStep

\* Unmounting rows changes no handler's offer, documents or stage.
LEMMA UnmountedFields ==
  ASSUME TypeOK, NEW d \in Devices, NEW s \in Slots
  PROVE  /\ Unmounted(d)[s].stage = handler[d][s].stage
         /\ Unmounted(d)[s].offer = handler[d][s].offer
         /\ Unmounted(d)[s].docs = handler[d][s].docs
<1>1. \A h \in Handler : /\ [h EXCEPT !.mounted = FALSE].stage = h.stage
                         /\ [h EXCEPT !.mounted = FALSE].offer = h.offer
                         /\ [h EXCEPT !.mounted = FALSE].docs = h.docs
  BY DEF Handler
<1>2. handler[d][s] \in Handler
  BY DEF TypeOK
<1>3. QED
  BY <1>1, <1>2 DEF Unmounted

\* A rebuilt or left screen keeps its handlers right.
LEMMA UnmountedOK ==
  ASSUME TypeOK, NEW d \in Devices, \A s \in Slots : HandlerOK(d, s), UNCHANGED served,
         handler' = [handler EXCEPT ![d] = Unmounted(d)]
  PROVE  \A s \in Slots : HandlerOK(d, s)'
<1>1. handler'[d] = Unmounted(d)
  BY DEF TypeOK
<1>2. QED
  BY <1>1, UnmountedFields DEF HandlerOK

\* Every step keeps the invariant.
LEMMA CausalStep ==
  TypeOK /\ Captured /\ (Causal /\ AnswerHasOffer) /\ [Next]_vars
    => (Causal /\ AnswerHasOffer)'
<1> SUFFICES ASSUME TypeOK, Captured, StoreOK, \A d \in Devices : DeviceOK(d), [Next]_vars
             PROVE  (StoreOK /\ \A d \in Devices : DeviceOK(d))'
  BY CausalParts, PTL
<1> USE DEF server, screen, history
<1> DEFINE Goal == (StoreOK /\ \A d \in Devices : DeviceOK(d))'
<1>h. ASSUME NEW d \in Devices, handler'[d] = handler[d], UNCHANGED served
      PROVE  \A s \in Slots : HandlerOK(d, s)'
  BY <1>h DEF DeviceOK, HandlerOK
<1>s. ASSUME NEW d \in Devices, page'[d] = page[d], asking'[d] = asking[d],
             dialog'[d] = dialog[d], UNCHANGED served
      PROVE  ScreenOK(d)'
  BY <1>s DEF DeviceOK, ScreenOK, IsAuthor
<1>w. ASSUME NEW d \in Devices, NEW ws \in Seq(Write), Queue(d, ws),
             UNCHANGED <<offers, notifs, served>>,
             \A i \in 1..Len(ws) :
               /\ ws[i].op # "offer"
               /\ \A st \in {"accepted", "rejected"}, o \in Offers :
                    ws[i] = Notify(st, o) => o \in served,
             \A e \in Devices \ {d} :
               /\ page'[e] = page[e] /\ asking'[e] = asking[e] /\ dialog'[e] = dialog[e]
               /\ handler'[e] = handler[e],
             ScreenOK(d)', \A s \in Slots : HandlerOK(d, s)'
      PROVE  Goal
  <2>1. QueueOK(d)'
    BY <1>w, QueueAnswers DEF DeviceOK
  <2>2. \A e \in Devices \ {d} : Pending(e)' = Pending(e)
    BY <1>w, QueuePending
  <2>3. StoreOK'
    BY <1>w DEF StoreOK, Told
  <2>4. QED
    BY <1>w, <2>1, <2>2, <2>3, DeviceStep
<1>1. ASSUME NEW d \in Devices, NEW t \in Tasks, SendNewTask(d, t) PROVE Goal
  <2> DEFINE ws == <<PostTask(t)>>
  <2>1. ws \in Seq(Write) /\ Queue(d, ws)
    BY <1>1, WritesTyped DEF SendNewTask
  <2>2. \A i \in 1..Len(ws) : ws[i] = PostTask(t)
    OBVIOUS
  <2>3. \A i \in 1..Len(ws) : ws[i].op # "offer" /\ \A st, o : ws[i] # Notify(st, o)
    BY <2>2 DEF PostTask, Notify
  <2>4. UNCHANGED <<offers, notifs, served, page, asking, dialog, handler>>
    BY <1>1 DEF SendNewTask
  <2>5. QED
    BY <2>1, <2>3, <2>4, <1>h, <1>s, <1>w
<1>2. ASSUME NEW d \in Devices, NEW t \in Tasks, OpenDetail(d, t) PROVE Goal
  <2>1. dialog[d].kind = "none" /\ page[d] = NoTask
    BY <1>2 DEF OpenDetail, CanTouch
  <2>2. ~asking[d]
    BY <2>1, ConstantsAssumption DEF DeviceOK, ScreenOK
  <2>3. ScreenOK(d)'
    BY <1>2, <2>1, <2>2 DEF OpenDetail, ScreenOK, DeviceOK
  <2>4. QED
    BY <1>2, <2>3, <1>h, QuietStep DEF OpenDetail, TypeOK
<1>3. ASSUME NEW d \in Devices, Back(d) PROVE Goal
  <2>1. ScreenOK(d)'
    BY <1>3 DEF Back, CanTouch, ScreenOK, DeviceOK, TypeOK
  <2>2. \A s \in Slots : HandlerOK(d, s)'
    BY <1>3, UnmountedOK DEF Back, DeviceOK
  <2>3. QED
    BY <1>3, <2>1, <2>2, QuietStep DEF Back, TypeOK
<1>4. ASSUME NEW d \in Devices, Rebuild(d) PROVE Goal
  <2>1. dialog'[d].kind = dialog[d].kind /\ dialog'[d].offer = dialog[d].offer
    BY <1>4 DEF Rebuild, TypeOK, Dialog
  <2>2. ScreenOK(d)'
    BY <1>4, <2>1 DEF Rebuild, ScreenOK, DeviceOK, IsAuthor
  <2>3. \A s \in Slots : HandlerOK(d, s)'
    BY <1>4, UnmountedOK DEF Rebuild, DeviceOK
  <2>4. QED
    BY <1>4, <2>2, <2>3, QuietStep DEF Rebuild, TypeOK
<1>5. ASSUME NEW d \in Devices, LookupDone(d) \/ FetchDetails(d) PROVE Goal
  BY <1>5, <1>h, <1>s, QuietStep DEF LookupDone, FetchDetails
<1>6. ASSUME NEW d \in Devices, PressOffer(d) PROVE Goal
  <2>1. page[d] \in Tasks /\ ~IsAuthor(d) /\ UNCHANGED <<page, dialog>>
    BY <1>6 DEF PressOffer, TypeOK
  <2>2. ScreenOK(d)'
    BY <1>6, <2>1 DEF PressOffer, ScreenOK, DeviceOK, IsAuthor
  <2>3. QED
    BY <1>6, <2>2, <1>h, QuietStep DEF PressOffer, TypeOK
<1>7. ASSUME NEW d \in Devices, HasOfferedDone(d) PROVE Goal
  <2>1. page[d] \in Tasks /\ ~IsAuthor(d) /\ UNCHANGED page
    BY <1>7 DEF HasOfferedDone, ScreenOK, DeviceOK
  <2>2. dialog'[d] = dialog[d] \/ dialog'[d] = [NoDialog EXCEPT !.kind = "price"]
    BY <1>7 DEF HasOfferedDone, TypeOK
  <2>3. ScreenOK(d)'
    BY <2>1, <2>2, <1>7 DEF HasOfferedDone, ScreenOK, DeviceOK, IsAuthor, NoDialog
  <2>4. QED
    BY <1>7, <2>3, <1>h, QuietStep DEF HasOfferedDone, TypeOK
<1>8. ASSUME NEW d \in Devices, NEW o \in Offers, AddOffer(d, o) PROVE Goal
  <2> DEFINE ws == OfferWrites(o)
  <2>1. ws \in Seq(Write) /\ Queue(d, ws)
    BY <1>8, WritesTyped DEF AddOffer, OfferWrites
  <2>2. \A i \in 1..Len(ws) : ws[i] \in {PutOffer(o), Notify("added", o)}
    BY DEF OfferWrites
  <2>3. AuthorOf[TaskOf[o]] # UserOf[d]
    BY <1>8 DEF AddOffer, DeviceOK, ScreenOK, IsAuthor
  <2>4. QueueOK(d)'
    <3>1. Pending(d)' \subseteq Pending(d) \cup {PutOffer(o), Notify("added", o)}
      BY <2>1, <2>2, QueuePending
    <3>2. UNCHANGED served
      BY <1>8 DEF AddOffer
    <3>3. QED
      BY <2>3, <3>1, <3>2 DEF DeviceOK, QueueOK, PutOffer, Notify
  <2>5. ScreenOK(d)'
    BY <1>8 DEF AddOffer, ScreenOK, DeviceOK, NoDialog, TypeOK, IsAuthor
  <2>6. StoreOK' /\ UNCHANGED served
    BY <1>8 DEF AddOffer, StoreOK, Told
  <2>7. \A e \in Devices \ {d} : Pending(e)' = Pending(e)
    BY <2>1, QueuePending
  <2>8. UNCHANGED <<page, asking, handler>> /\ dialog' = [dialog EXCEPT ![d] = NoDialog]
    BY <1>8 DEF AddOffer
  <2>9. QED
    BY <2>4, <2>5, <2>6, <2>7, <2>8, <1>h, DeviceStep DEF TypeOK
<1>9. ASSUME NEW d \in Devices, CloseDialog(d) PROVE Goal
  <2>1. ScreenOK(d)'
    BY <1>9 DEF CloseDialog, ScreenOK, DeviceOK, NoDialog, TypeOK, IsAuthor
  <2>2. QED
    BY <1>9, <2>1, <1>h, QuietStep DEF CloseDialog, TypeOK
<1>10. ASSUME NEW d \in Devices, NEW o \in Offers, NEW kind \in {"accept", "reject"},
              PressAnswer(d, o, kind)
       PROVE  Goal
  <2>1. AuthorOf[page[d]] = UserOf[d] /\ o \in ViewOffers(d, page[d])
    BY <1>10 DEF PressAnswer, IsAuthor
  <2>2. o \in served /\ TaskOf[o] = page[d]
    BY <2>1, AuthorSeesStored DEF DeviceOK, ViewOffers
  <2>3. dialog'[d] = [kind |-> kind, offer |-> o, mounted |-> kind = "accept"]
    BY <1>10 DEF PressAnswer, TypeOK
  <2>4. ScreenOK(d)'
    BY <1>10, <2>1, <2>2, <2>3 DEF PressAnswer, ScreenOK, DeviceOK, IsAuthor
  <2>5. QED
    BY <1>10, <2>4, <1>h, QuietStep DEF PressAnswer, TypeOK
<1>11. ASSUME NEW d \in Devices, CancelReject(d) PROVE Goal
  <2>1. ScreenOK(d)'
    BY <1>11 DEF CancelReject, ScreenOK, DeviceOK, NoDialog, TypeOK, IsAuthor
  <2>2. \A s \in Slots : HandlerOK(d, s)'
    BY <1>11, UnmountedOK DEF CancelReject, DeviceOK
  <2>3. QED
    BY <1>11, <2>1, <2>2, QuietStep DEF CancelReject, TypeOK
<1>12. ASSUME NEW d \in Devices, NEW s \in Slots, NEW kind \in {"accept", "reject"},
              NEW stage, Confirm(d, s, kind, stage)
       PROVE  /\ ScreenOK(d)' /\ (\A r \in Slots : HandlerOK(d, r)')
              /\ UNCHANGED <<offers, notifs, served>>
              /\ \A e \in Devices \ {d} :
                   /\ page'[e] = page[e] /\ asking'[e] = asking[e]
                   /\ dialog'[e] = dialog[e] /\ handler'[e] = handler[e]
  <2>1. /\ dialog[d].offer \in Offers \cap served
        /\ AuthorOf[TaskOf[dialog[d].offer]] = UserOf[d]
    BY <1>12, ConstantsAssumption DEF Confirm, Captured, DeviceOK, ScreenOK
  <2>2. ScreenOK(d)'
    BY <1>12 DEF Confirm, ScreenOK, DeviceOK, NoDialog, TypeOK, IsAuthor
  <2>3. /\ handler'[d][s].offer = dialog[d].offer
        /\ handler'[d][s].docs = {}
        /\ \A r \in Slots \ {s} : handler'[d][r] = handler[d][r]
    BY <1>12 DEF Confirm, TypeOK
  <2>4. UNCHANGED served
    BY <1>12 DEF Confirm
  <2>5. HandlerOK(d, s)'
    BY <2>1, <2>3, <2>4 DEF HandlerOK
  <2>6. \A r \in Slots \ {s} : HandlerOK(d, r)'
    BY <2>3, <2>4 DEF DeviceOK, HandlerOK
  <2>7. QED
    BY <1>12, <2>2, <2>5, <2>6 DEF Confirm, TypeOK
<1>13. ASSUME NEW d \in Devices, NEW s \in Slots, AcceptYes(d, s) PROVE Goal
  <2>1. Confirm(d, s, "accept", "getting") /\ UNCHANGED outbox
    BY <1>13 DEF AcceptYes
  <2>2. QED
    BY <2>1, <1>12, QuietStep
<1>14. ASSUME NEW d \in Devices, NEW s \in Slots,
              UNCHANGED <<page, asking, dialog, served>>,
              \A e \in Devices \ {d} : handler'[e] = handler[e],
              \A r \in Slots \ {s} : handler'[d][r] = handler[d][r],
              handler'[d][s].docs \subseteq served,
              \/ handler'[d][s].offer = NoOffer /\ handler'[d][s].stage = "idle"
              \/ handler[d][s].stage # "idle" /\ handler'[d][s].offer = handler[d][s].offer
       PROVE  ScreenOK(d)' /\ \A r \in Slots : HandlerOK(d, r)'
  <2>1. HandlerOK(d, s)'
    BY <1>14 DEF DeviceOK, HandlerOK
  <2>2. \A r \in Slots \ {s} : HandlerOK(d, r)'
    BY <1>14 DEF DeviceOK, HandlerOK
  <2>3. QED
    BY <1>14, <2>1, <2>2, <1>s
<1>15. \A d \in Devices, s \in Slots : handler[d][s] \in Handler
  BY DEF TypeOK
<1>16. ASSUME NEW d \in Devices, NEW s \in Slots, AcceptGet(d, s) PROVE Goal
  <2> DEFINE t == TaskOf[handler[d][s].offer]
  <2>1. ViewOffers(d, t) \subseteq served
    <3>1. AuthorOf[t] = UserOf[d]
      BY <1>16 DEF AcceptGet, DeviceOK, HandlerOK
    <3>2. QED
      BY <3>1, AuthorSeesStored DEF DeviceOK
  <2>2. handler'[d][s].docs = ViewOffers(d, t) /\ handler'[d][s].offer = handler[d][s].offer
    BY <1>15, <1>16 DEF AcceptGet, TypeOK, Handler
  <2>3. ScreenOK(d)' /\ \A r \in Slots : HandlerOK(d, r)'
    BY <1>14, <1>16, <2>1, <2>2 DEF AcceptGet, TypeOK
  <2>4. QED
    BY <1>16, <2>3, QuietStep DEF AcceptGet, TypeOK
<1>17. ASSUME NEW d \in Devices, NEW s \in Slots, AcceptResume(d, s) PROVE Goal
  <2>1. /\ handler'[d][s].docs = handler[d][s].docs
        /\ handler'[d][s].offer = handler[d][s].offer
    BY <1>15, <1>17 DEF AcceptResume, TypeOK, Handler
  <2>2. /\ handler[d][s].stage # "idle"
        /\ handler'[d][s].docs \subseteq served
    BY <1>17, <2>1 DEF AcceptResume, DeviceOK, HandlerOK
  <2>3. /\ \A e \in Devices \ {d} : handler'[e] = handler[e]
        /\ \A r \in Slots \ {s} : handler'[d][r] = handler[d][r]
    BY <1>17 DEF AcceptResume, TypeOK
  <2>4. UNCHANGED <<offers, notifs, served, outbox, page, asking, dialog>>
    BY <1>17 DEF AcceptResume
  <2>5. ScreenOK(d)' /\ \A r \in Slots : HandlerOK(d, r)'
    BY <1>14, <2>1, <2>2, <2>3, <2>4
  <2>6. QED
    BY <2>3, <2>4, <2>5, QuietStep
<1>18. ASSUME NEW d \in Devices, NEW s \in Slots, NEW o \in Offers, LoopStep(d, s, o)
       PROVE  Goal
  <2> DEFINE ws == LoopWrites(handler[d][s].offer, o)
  <2>1. o \in served
    BY <1>18 DEF LoopStep, DeviceOK, HandlerOK
  <2>2. ws \in Seq(Write) /\ Queue(d, ws)
    BY <1>18, WritesTyped DEF LoopStep, LoopWrites
  <2>3. \A i \in 1..Len(ws) :
          ws[i] \in {DeleteOffer(o, NoSlot), Notify("rejected", o), Notify("accepted", o)}
    BY DEF LoopWrites
  <2>4. \A i \in 1..Len(ws) :
          /\ ws[i].op # "offer"
          /\ \A st \in {"accepted", "rejected"}, x \in Offers :
               ws[i] = Notify(st, x) => x \in served
    BY <2>1, <2>3 DEF DeleteOffer, Notify
  <2>5. /\ handler'[d][s].docs \subseteq handler[d][s].docs
        /\ handler'[d][s].offer = handler[d][s].offer
    BY <1>15, <1>18 DEF LoopStep, TypeOK, Handler
  <2>6. /\ handler[d][s].stage # "idle"
        /\ handler'[d][s].docs \subseteq served
    BY <1>18, <2>5 DEF LoopStep, DeviceOK, HandlerOK
  <2>7. UNCHANGED <<offers, notifs, served, page, asking, dialog>>
    BY <1>18 DEF LoopStep
  <2>8. /\ \A e \in Devices \ {d} : handler'[e] = handler[e]
        /\ \A r \in Slots \ {s} : handler'[d][r] = handler[d][r]
    BY <1>18 DEF LoopStep, TypeOK
  <2>9. ScreenOK(d)' /\ \A r \in Slots : HandlerOK(d, r)'
    BY <1>14, <2>5, <2>6, <2>7, <2>8
  <2>10. QED
    BY <2>2, <2>4, <2>7, <2>8, <2>9, <1>w
<1>19. ASSUME NEW d \in Devices, NEW s \in Slots, LoopEnd(d, s) PROVE Goal
  <2>1. CASE handler' = [handler EXCEPT ![d][s].stage = "told"]
    <3>1. /\ handler'[d][s].docs = handler[d][s].docs
          /\ handler'[d][s].offer = handler[d][s].offer
      BY <1>15, <2>1 DEF TypeOK, Handler
    <3>2. /\ handler[d][s].stage # "idle"
          /\ handler'[d][s].docs \subseteq served
      BY <1>19, <3>1 DEF LoopEnd, DeviceOK, HandlerOK
    <3>3. /\ \A e \in Devices \ {d} : handler'[e] = handler[e]
          /\ \A r \in Slots \ {s} : handler'[d][r] = handler[d][r]
      BY <2>1 DEF TypeOK
    <3>4. UNCHANGED <<offers, notifs, served, outbox, page, asking, dialog>>
      BY <1>19 DEF LoopEnd
    <3>5. ScreenOK(d)' /\ \A r \in Slots : HandlerOK(d, r)'
      BY <1>14, <3>1, <3>2, <3>3, <3>4
    <3>6. QED
      BY <3>3, <3>4, <3>5, QuietStep
  <2>2. CASE handler' = [handler EXCEPT ![d][s] = IdleHandler]
    <3>1. handler'[d][s] = IdleHandler
      BY <2>2 DEF TypeOK
    <3>2. ScreenOK(d)' /\ \A r \in Slots : HandlerOK(d, r)'
      BY <1>14, <1>19, <2>2, <3>1 DEF LoopEnd, TypeOK, IdleHandler
    <3>3. QED
      BY <1>19, <2>2, <3>2, QuietStep DEF LoopEnd, TypeOK
  <2>3. QED
    BY <1>19, <2>1, <2>2 DEF LoopEnd
<1>20. ASSUME NEW d \in Devices, NEW s \in Slots, TellOk(d, s) PROVE Goal
  <2>1. dialog'[d].kind = dialog[d].kind /\ dialog'[d].offer = dialog[d].offer
    BY <1>20 DEF TellOk, TypeOK, Dialog
  <2>2. ScreenOK(d)'
    BY <1>20, <2>1 DEF TellOk, ScreenOK, DeviceOK, IsAuthor
  <2>3. \A r \in Slots : handler'[d][r] = IF r = s THEN IdleHandler ELSE Unmounted(d)[r]
    BY <1>20 DEF TellOk, TypeOK, Unmounted
  <2>4. UNCHANGED served
    BY <1>20 DEF TellOk
  <2>5. \A r \in Slots : HandlerOK(d, r)'
    BY <2>3, <2>4, UnmountedFields DEF DeviceOK, HandlerOK, IdleHandler
  <2>6. QED
    BY <1>20, <2>2, <2>5, QuietStep DEF TellOk, TypeOK
<1>21. ASSUME NEW d \in Devices, NEW s \in Slots, RejectYes(d, s) PROVE Goal
  <2> DEFINE ws == <<DeleteOffer(dialog[d].offer, s)>>
  <2>1. Confirm(d, s, "reject", "deleting") /\ Queue(d, ws)
    BY <1>21 DEF RejectYes
  <2>2. dialog[d].offer \in Offers
    BY <2>1 DEF Confirm, Captured
  <2>3. ws \in Seq(Write)
    BY <2>2, WritesTyped
  <2>4. \A i \in 1..Len(ws) :
          /\ ws[i].op # "offer"
          /\ \A st \in {"accepted", "rejected"}, x \in Offers :
               ws[i] = Notify(st, x) => x \in served
    <3>1. \A i \in 1..Len(ws) : ws[i] = DeleteOffer(dialog[d].offer, s)
      OBVIOUS
    <3>2. QED
      BY <3>1 DEF DeleteOffer, Notify
  <2>5. /\ ScreenOK(d)' /\ \A r \in Slots : HandlerOK(d, r)'
        /\ UNCHANGED <<offers, notifs, served>>
        /\ \A e \in Devices \ {d} :
             /\ page'[e] = page[e] /\ asking'[e] = asking[e] /\ dialog'[e] = dialog[e]
             /\ handler'[e] = handler[e]
    BY <2>1, <1>12
  <2>6. QED
    BY <2>1, <2>3, <2>4, <2>5, <1>w
<1>22. ASSUME NEW d \in Devices, NEW s \in Slots, RejectNotify(d, s) PROVE Goal
  <2> DEFINE o == handler[d][s].offer
             ws == RejectWrites(o)
  <2>1. o \in Offers \cap served
    BY <1>22, ConstantsAssumption DEF RejectNotify, Captured, DeviceOK, HandlerOK
  <2>2. ws \in Seq(Write) /\ Queue(d, ws)
    BY <1>22, <2>1, WritesTyped DEF RejectNotify, RejectWrites
  <2>3. \A i \in 1..Len(ws) : ws[i] = Notify("rejected", o)
    BY DEF RejectWrites
  <2>4. \A i \in 1..Len(ws) :
          /\ ws[i].op # "offer"
          /\ \A st \in {"accepted", "rejected"}, x \in Offers :
               ws[i] = Notify(st, x) => x \in served
    BY <2>1, <2>3 DEF Notify
  <2>5. UNCHANGED <<offers, notifs, served, page, asking, dialog>>
    BY <1>22 DEF RejectNotify
  <2>6. /\ handler'[d][s] = IdleHandler
        /\ \A r \in Slots \ {s} : handler'[d][r] = handler[d][r]
        /\ \A e \in Devices \ {d} : handler'[e] = handler[e]
    BY <1>22 DEF RejectNotify, TypeOK
  <2>7. ScreenOK(d)' /\ \A r \in Slots : HandlerOK(d, r)'
    BY <1>14, <2>5, <2>6 DEF IdleHandler
  <2>8. QED
    BY <2>2, <2>4, <2>5, <2>6, <2>7, <1>w
<1>23. ASSUME NEW d \in Devices, Flush(d) PROVE Goal
  <2> DEFINE w == Head(outbox[d])
  <2>1. /\ w \in Pending(d)
        /\ Pending(d) = Pending(d)' \cup {w}
        /\ \A e \in Devices \ {d} : Pending(e)' = Pending(e)
    BY <1>23, DequeuePending DEF Flush
  <2>2. served \subseteq served'
    BY <1>23 DEF Flush
  <2>3. w \in Write
    BY <2>1 DEF TypeOK, Pending
  <2>4. StoreOK'
    <3>1. offers' \subseteq served'
      BY <1>23, <2>3 DEF Flush, StoreOK
    <3>2. ASSUME NEW st \in {"accepted", "rejected"}, NEW o \in Offers, Told(st, o)'
          PROVE  o \in served'
      <4> DEFINE n == [status |-> st, about |-> o]
      <4>1. CASE Told(st, o)
        BY <2>2, <4>1 DEF StoreOK
      <4>2. CASE ~Told(st, o)
        <5>1. n \in Notif
          BY DEF Notif
        <5>2. w.op = "notify" /\ w.note = n
          BY <1>23, <3>2, <4>2, <5>1 DEF Flush, Told, TypeOK
        <5>3. w = Notify(st, o)
          BY <2>3, <5>2 DEF Write, PostTask, PutOffer, DeleteOffer, Notify
        <5>4. QED
          BY <2>1, <2>2, <5>3 DEF DeviceOK, QueueOK
      <4>3. QED
        BY <4>1, <4>2
    <3>3. QED
      BY <3>1, <3>2 DEF StoreOK
  <2>5. QueueOK(d)'
    BY <2>1, <2>2 DEF DeviceOK, QueueOK
  <2>6. UNCHANGED <<page, asking, dialog>>
    BY <1>23 DEF Flush
  <2>7. ScreenOK(d)'
    BY <2>2, <2>6 DEF DeviceOK, ScreenOK, IsAuthor
  <2>8. \A s \in Slots : /\ handler'[d][s].offer = handler[d][s].offer
                         /\ handler'[d][s].docs = handler[d][s].docs
                         /\ handler'[d][s].stage # "idle" => handler[d][s].stage # "idle"
    BY <1>15, <1>23 DEF Flush, TypeOK, Handler
  <2>9. \A s \in Slots : HandlerOK(d, s)'
    BY <2>2, <2>8 DEF DeviceOK, HandlerOK
  <2>10. \A e \in Devices \ {d} : handler'[e] = handler[e]
    BY <1>23 DEF Flush, TypeOK
  <2>11. QED
    BY <2>1, <2>2, <2>4, <2>5, <2>6, <2>7, <2>9, <2>10, DeviceStep
<1>24. ASSUME NEW d \in Devices, Crash(d) PROVE Goal
  <2>1. \A e \in Devices : Pending(e)' \subseteq Pending(e)
    BY <1>24, CrashPending
  <2>2. UNCHANGED <<offers, notifs, served>>
    BY <1>24 DEF Crash
  <2>3. StoreOK'
    BY <2>2 DEF StoreOK, Told
  <2>4. QueueOK(d)'
    BY <2>1, <2>2 DEF DeviceOK, QueueOK
  <2>5. ~asking'[d] /\ dialog'[d] = NoDialog /\ \A s \in Slots : handler'[d][s] = IdleHandler
    BY <1>24 DEF Crash, RestartScreen, TypeOK
  <2>6. ScreenOK(d)' /\ \A s \in Slots : HandlerOK(d, s)'
    BY <2>5 DEF ScreenOK, HandlerOK, NoDialog, IdleHandler
  <2>7. \A e \in Devices \ {d} :
          /\ page'[e] = page[e] /\ asking'[e] = asking[e] /\ dialog'[e] = dialog[e]
          /\ handler'[e] = handler[e]
    BY <1>24 DEF Crash, RestartScreen, TypeOK
  <2>8. QED
    BY <2>1, <2>2, <2>3, <2>4, <2>6, <2>7, DeviceStep
<1>25. CASE UNCHANGED vars
  BY <1>25 DEF vars, StoreOK, Told, DeviceOK, QueueOK, ScreenOK, HandlerOK, IsAuthor, Pending
<1>26. QED
  BY <1>1, <1>2, <1>3, <1>4, <1>5, <1>6, <1>7, <1>8, <1>9, <1>10, <1>11, <1>13, <1>16,
     <1>17, <1>18, <1>19, <1>20, <1>21, <1>22, <1>23, <1>24, <1>25 DEF Next

\* Who queues what about which offer, with its consequence: the induction.
LEMMA CausalHolds == Spec => [](Causal /\ AnswerHasOffer)
<1>1. Init => Causal /\ AnswerHasOffer
  <2> SUFFICES ASSUME Init PROVE Causal /\ AnswerHasOffer
    OBVIOUS
  <2>1. \A d \in Devices : Pending(d) = {}
    BY DEF Init, Pending
  <2>2. \A st \in {"accepted", "rejected"}, o \in Offers : ~Told(st, o)
    BY DEF Init, Told, Notif
  <2>3. QED
    BY <2>1, <2>2 DEF Init, Causal, AnswerHasOffer, InFlight, NoDialog, IdleHandler
<1>2. TypeOK /\ Captured /\ (Causal /\ AnswerHasOffer) /\ [Next]_vars
        => (Causal /\ AnswerHasOffer)'
  BY CausalStep
<1>3. QED
  BY <1>1, <1>2, TypeCorrect, PTL DEF Spec

\* No answer is told, queued or being worked on before the server has stored
\* the offer it is about, whatever is delivered late, killed or done twice.
THEOREM AnswersAreCausal == Spec => []AnswerHasOffer
BY CausalHolds, PTL

-----------------------------------------------------------------------------
(* Positions in the queues.                                                *)

\* Where a write stands in the queue of d after the queue has grown.
LEMMA QueueAt ==
  ASSUME TypeOK, NEW d \in Devices, NEW ws \in Seq(Write), Queue(d, ws)
  PROVE  /\ \A e \in Devices \ {d} : outbox'[e] = outbox[e]
         /\ \A i \in 1..Len(outbox[d]) :
              i \in 1..Len(outbox'[d]) /\ outbox'[d][i] = outbox[d][i]
         /\ \A i \in 1..Len(ws) :
              /\ Len(outbox[d]) + i \in 1..Len(outbox'[d])
              /\ outbox'[d][Len(outbox[d]) + i] = ws[i]
         /\ \A k \in 1..Len(outbox'[d]) :
              \/ k \in 1..Len(outbox[d])
              \/ /\ k - Len(outbox[d]) \in 1..Len(ws)
                 /\ outbox'[d][k] = ws[k - Len(outbox[d])]
<1>1. outbox'[d] = outbox[d] \o ws /\ \A e \in Devices \ {d} : outbox'[e] = outbox[e]
  BY DEF Queue, TypeOK
<1>2. outbox[d] \in Seq(Write)
  BY DEF TypeOK
<1>3. QED
  BY <1>1, <1>2

\* Where a write stands after the head was delivered.
LEMMA DequeueAt ==
  ASSUME TypeOK, NEW d \in Devices, outbox[d] # <<>>, Dequeue(d)
  PROVE  /\ \A e \in Devices \ {d} : outbox'[e] = outbox[e]
         /\ 1 \in 1..Len(outbox[d]) /\ Head(outbox[d]) = outbox[d][1]
         /\ \A i \in 1..Len(outbox'[d]) :
              i + 1 \in 1..Len(outbox[d]) /\ outbox'[d][i] = outbox[d][i + 1]
         /\ \A i \in 1..Len(outbox[d]) \ {1} :
              i - 1 \in 1..Len(outbox'[d]) /\ outbox'[d][i - 1] = outbox[d][i]
<1>1. outbox'[d] = Tail(outbox[d]) /\ \A e \in Devices \ {d} : outbox'[e] = outbox[e]
  BY DEF Dequeue, TypeOK
<1>2. outbox[d] \in Seq(Write) /\ Len(outbox[d]) \in Nat /\ Len(outbox[d]) > 0
  BY DEF TypeOK
<1>3. /\ Len(Tail(outbox[d])) = Len(outbox[d]) - 1
      /\ \A i \in 1..Len(outbox[d]) - 1 : Tail(outbox[d])[i] = outbox[d][i + 1]
      /\ Head(outbox[d]) = outbox[d][1]
  BY <1>2
<1>4. QED
  BY <1>1, <1>2, <1>3

\* What is delivered was queued.
LEMMA HeadPending ==
  ASSUME TypeOK, NEW d \in Devices, Flush(d)
  PROVE  Head(outbox[d]) \in Pending(d) /\ Head(outbox[d]) \in Write
<1>1. outbox[d] # <<>> /\ Dequeue(d)
  BY DEF Flush
<1>2. 1 \in 1..Len(outbox[d]) /\ Head(outbox[d]) = outbox[d][1]
  BY <1>1, DequeueAt
<1>3. outbox[d] \in Seq(Write)
  BY DEF TypeOK
<1>4. QED
  BY <1>2, <1>3 DEF Pending

\* What a kill leaves of a queue stands where it stood.
LEMMA CrashAt ==
  ASSUME TypeOK, NEW d \in Devices, Crash(d)
  PROVE  \A e \in Devices : \A i \in 1..Len(outbox'[e]) :
           i \in 1..Len(outbox[e]) /\ outbox'[e][i] = outbox[e][i]
<1>1. PICK k \in 0..Len(outbox[d]) : outbox' = [outbox EXCEPT ![d] = SubSeq(@, 1, k)]
  BY DEF Crash
<1>2. outbox[d] \in Seq(Write)
  BY DEF TypeOK
<1>3. /\ Len(SubSeq(outbox[d], 1, k)) = k
      /\ \A i \in 1..k : SubSeq(outbox[d], 1, k)[i] = outbox[d][i]
  BY <1>2
<1>4. /\ outbox'[d] = SubSeq(outbox[d], 1, k)
      /\ \A e \in Devices \ {d} : outbox'[e] = outbox[e]
  BY <1>1 DEF TypeOK
<1>5. QED
  BY <1>2, <1>3, <1>4

\* The steps that touch a queue or the server.
LEMMA StepKinds ==
  ASSUME [Next]_vars
  PROVE  \/ UNCHANGED <<offers, notifs, made, served, outbox, crashes>>
         \/ \E d \in Devices :
              \/ \E t \in Tasks : SendNewTask(d, t)
              \/ \E o \in Offers : AddOffer(d, o)
              \/ \E s \in Slots : \/ \E o \in Offers : LoopStep(d, s, o)
                                  \/ RejectYes(d, s)
                                  \/ RejectNotify(d, s)
              \/ Flush(d)
              \/ Crash(d)
<1> DEFINE Quiet == UNCHANGED <<offers, notifs, made, served, outbox, crashes>>
<1> USE DEF server, screen, history
<1>1. ASSUME NEW d \in Devices,
             \/ \E t \in Tasks : OpenDetail(d, t)
             \/ Back(d) \/ Rebuild(d) \/ LookupDone(d) \/ FetchDetails(d)
             \/ PressOffer(d) \/ HasOfferedDone(d) \/ CloseDialog(d)
             \/ \E o \in Offers, kind \in {"accept", "reject"} : PressAnswer(d, o, kind)
             \/ CancelReject(d)
      PROVE  Quiet
  BY <1>1 DEF OpenDetail, Back, Rebuild, LookupDone, FetchDetails, PressOffer,
              HasOfferedDone, CloseDialog, PressAnswer, CancelReject
<1>2. ASSUME NEW d \in Devices, NEW s \in Slots,
             \/ AcceptYes(d, s) \/ AcceptGet(d, s) \/ AcceptResume(d, s)
             \/ LoopEnd(d, s) \/ TellOk(d, s)
      PROVE  Quiet
  BY <1>2 DEF AcceptYes, Confirm, AcceptGet, AcceptResume, LoopEnd, TellOk
<1>3. CASE UNCHANGED vars
  BY <1>3 DEF vars
<1>4. QED
  BY <1>1, <1>2, <1>3 DEF Next

\* What the handlers queue are writes.
LEMMA HandlerWrites ==
  ASSUME TypeOK, Captured, NEW d \in Devices
  PROVE  /\ \A t \in Tasks : <<PostTask(t)>> \in Seq(Write)
         /\ \A o \in Offers : OfferWrites(o) \in Seq(Write)
         /\ \A s \in Slots, o \in Offers :
              LoopStep(d, s, o) => LoopWrites(handler[d][s].offer, o) \in Seq(Write)
         /\ \A s \in Slots : RejectYes(d, s) =>
              /\ dialog[d].offer \in Offers
              /\ <<DeleteOffer(dialog[d].offer, s)>> \in Seq(Write)
         /\ \A s \in Slots : RejectNotify(d, s) =>
              /\ handler[d][s].offer \in Offers
              /\ RejectWrites(handler[d][s].offer) \in Seq(Write)
<1>1. \A o \in Offers : OfferWrites(o) \in Seq(Write)
  BY WritesTyped DEF OfferWrites
<1>2. ASSUME NEW s \in Slots, NEW o \in Offers
      PROVE  LoopWrites(handler[d][s].offer, o) \in Seq(Write)
  BY WritesTyped DEF LoopWrites
<1>3. ASSUME NEW s \in Slots, RejectYes(d, s)
      PROVE  /\ dialog[d].offer \in Offers
             /\ <<DeleteOffer(dialog[d].offer, s)>> \in Seq(Write)
  <2>1. dialog[d].offer \in Offers
    BY <1>3 DEF RejectYes, Confirm, Captured
  <2>2. QED
    BY <2>1, WritesTyped
<1>4. ASSUME NEW s \in Slots, RejectNotify(d, s)
      PROVE  /\ handler[d][s].offer \in Offers
             /\ RejectWrites(handler[d][s].offer) \in Seq(Write)
  <2>1. handler[d][s].offer \in Offers
    BY <1>4 DEF RejectNotify, Captured
  <2>2. QED
    BY <2>1, WritesTyped DEF RejectWrites
<1>5. QED
  BY <1>1, <1>2, <1>3, <1>4, WritesTyped

\* Only AddOffer queues an offer.
LEMMA StepEffects ==
  ASSUME TypeOK, Captured, [Next]_vars
  PROVE  \/ UNCHANGED <<offers, notifs, made, served, outbox>>
         \/ \E d \in Devices, ws \in Seq(Write) :
              /\ Queue(d, ws)
              /\ \A i \in 1..Len(ws) : ws[i].op # "offer"
              /\ UNCHANGED <<offers, notifs, made, served>>
         \/ \E d \in Devices, o \in Offers : AddOffer(d, o)
         \/ \E d \in Devices : Flush(d)
         \/ \E d \in Devices : Crash(d)
<1> DEFINE Writes(d, ws) == /\ Queue(d, ws)
                            /\ \A i \in 1..Len(ws) : ws[i].op # "offer"
                            /\ UNCHANGED <<offers, notifs, made, served>>
<1> USE DEF server, history
<1>1. ASSUME NEW d \in Devices, NEW t \in Tasks, SendNewTask(d, t)
      PROVE  \E ws \in Seq(Write) : Writes(d, ws)
  <2>1. Writes(d, <<PostTask(t)>>)
    BY <1>1 DEF SendNewTask, PostTask
  <2>2. QED
    BY <2>1, HandlerWrites
<1>2. ASSUME NEW d \in Devices, NEW s \in Slots, NEW o \in Offers, LoopStep(d, s, o)
      PROVE  \E ws \in Seq(Write) : Writes(d, ws)
  <2>1. Writes(d, LoopWrites(handler[d][s].offer, o))
    BY <1>2 DEF LoopStep, LoopWrites, DeleteOffer, Notify
  <2>2. QED
    BY <1>2, <2>1, HandlerWrites
<1>3. ASSUME NEW d \in Devices, NEW s \in Slots, RejectYes(d, s)
      PROVE  \E ws \in Seq(Write) : Writes(d, ws)
  <2>1. Writes(d, <<DeleteOffer(dialog[d].offer, s)>>)
    BY <1>3 DEF RejectYes, Confirm, DeleteOffer
  <2>2. QED
    BY <1>3, <2>1, HandlerWrites
<1>4. ASSUME NEW d \in Devices, NEW s \in Slots, RejectNotify(d, s)
      PROVE  \E ws \in Seq(Write) : Writes(d, ws)
  <2>1. Writes(d, RejectWrites(handler[d][s].offer))
    BY <1>4 DEF RejectNotify, RejectWrites, Notify
  <2>2. QED
    BY <1>4, <2>1, HandlerWrites
<1>5. QED
  BY <1>1, <1>2, <1>3, <1>4, StepKinds

-----------------------------------------------------------------------------
(* A deleted offer stays deleted.                                          *)

\* Queued adds that stay where they are stay unique.
LEMMA AddedOnceFrame ==
  ASSUME AddedOnce, UNCHANGED <<made, served>>,
         \A e \in Devices, o \in Offers : \A i \in 1..Len(outbox'[e]) :
           outbox'[e][i] = PutOffer(o) =>
             i \in 1..Len(outbox[e]) /\ outbox[e][i] = PutOffer(o)
  PROVE  AddedOnce'
<1>1. \A e \in Devices, o \in Offers :
        PutOffer(o) \in Pending(e)' => PutOffer(o) \in Pending(e)
  BY DEF Pending
<1>2. QED
  BY <1>1 DEF AddedOnce

\* The add of an offer is queued once by the device that makes it, and never
\* after it was stored.
LEMMA AddedOnceStep == TypeOK /\ Captured /\ AddedOnce /\ [Next]_vars => AddedOnce'
<1> SUFFICES ASSUME TypeOK, Captured, AddedOnce, [Next]_vars PROVE AddedOnce'
  OBVIOUS
<1>1. CASE UNCHANGED <<offers, notifs, made, served, outbox>>
  BY <1>1, AddedOnceFrame
<1>2. ASSUME NEW d \in Devices, NEW ws \in Seq(Write), Queue(d, ws),
             \A i \in 1..Len(ws) : ws[i].op # "offer", UNCHANGED <<made, served>>
      PROVE  AddedOnce'
  <2>1. ASSUME NEW e \in Devices, NEW o \in Offers, NEW i \in 1..Len(outbox'[e]),
               outbox'[e][i] = PutOffer(o)
        PROVE  i \in 1..Len(outbox[e]) /\ outbox[e][i] = PutOffer(o)
    <3>1. CASE e # d
      BY <1>2, <2>1, <3>1, QueueAt
    <3>2. CASE e = d /\ i \in 1..Len(outbox[d])
      BY <1>2, <2>1, <3>2, QueueAt
    <3>3. CASE /\ e = d /\ i - Len(outbox[d]) \in 1..Len(ws)
               /\ outbox'[d][i] = ws[i - Len(outbox[d])]
      BY <1>2, <2>1, <3>3 DEF PutOffer
    <3>4. QED
      BY <1>2, <3>1, <3>2, <3>3, QueueAt
  <2>2. QED
    BY <1>2, <2>1, AddedOnceFrame
<1>3. ASSUME NEW d \in Devices, NEW o \in Offers, AddOffer(d, o) PROVE AddedOnce'
  <2> DEFINE n == Len(outbox[d])
  <2>1. n \in Nat /\ OfferWrites(o) \in Seq(Write) /\ Queue(d, OfferWrites(o))
    BY <1>3, WritesTyped DEF AddOffer, OfferWrites, TypeOK
  <2>2. /\ Len(OfferWrites(o)) = 2
        /\ OfferWrites(o)[1] = PutOffer(o) /\ OfferWrites(o)[2] = Notify("added", o)
    BY DEF OfferWrites
  <2>3. ASSUME NEW e \in Devices, NEW x \in Offers, NEW i \in 1..Len(outbox'[e]),
               outbox'[e][i] = PutOffer(x)
        PROVE  \/ i \in 1..Len(outbox[e]) /\ outbox[e][i] = PutOffer(x)
               \/ e = d /\ x = o /\ i = n + 1
    <3>1. CASE e # d
      BY <2>1, <2>3, <3>1, QueueAt
    <3>2. CASE e = d /\ i \in 1..n
      BY <2>1, <2>3, <3>2, QueueAt
    <3>3. CASE e = d /\ i - n \in 1..2
      <4>1. i = n + 1 \/ i = n + 2
        BY <2>1, <3>3
      <4>2. \A k \in 1..Len(OfferWrites(o)) : outbox'[d][n + k] = OfferWrites(o)[k]
        BY <2>1, QueueAt
      <4>3. QED
        BY <2>2, <2>3, <3>3, <4>1, <4>2 DEF PutOffer, Notify
    <3>4. QED
      BY <2>1, <2>2, <3>1, <3>2, <3>3, QueueAt
  <2>4. o \notin made /\ made' = made \cup {o} /\ served' = served
    BY <1>3 DEF AddOffer
  <2>5. \A e \in Devices : \A i \in 1..Len(outbox[e]) : outbox[e][i] # PutOffer(o)
    BY <2>4 DEF AddedOnce, Pending
  <2>6. \A e \in Devices, x \in Offers :
          PutOffer(x) \in Pending(e)' => PutOffer(x) \in Pending(e) \/ x = o
    BY <2>3 DEF Pending
  <2>7. o \notin served
    BY <2>4 DEF AddedOnce
  <2>8. ASSUME NEW e \in Devices, NEW f \in Devices, NEW x \in Offers,
               NEW i \in 1..Len(outbox'[e]), NEW j \in 1..Len(outbox'[f]),
               outbox'[e][i] = PutOffer(x), outbox'[f][j] = PutOffer(x)
        PROVE  e = f /\ i = j
    <3>1. CASE x = o
      BY <2>3, <2>5, <2>8, <3>1
    <3>2. CASE x # o
      BY <2>3, <2>8, <3>2 DEF AddedOnce
    <3>3. QED
      BY <3>1, <3>2
  <2>9. QED
    BY <2>4, <2>6, <2>7, <2>8 DEF AddedOnce
<1>4. ASSUME NEW d \in Devices, Flush(d) PROVE AddedOnce'
  <2> DEFINE w == Head(outbox[d])
             shift(e) == IF e = d THEN 1 ELSE 0
  <2>1. outbox[d] # <<>> /\ Dequeue(d) /\ UNCHANGED made
    BY <1>4 DEF Flush
  <2>2. \A e \in Devices : \A i \in 1..Len(outbox'[e]) :
          i + shift(e) \in 1..Len(outbox[e]) /\ outbox'[e][i] = outbox[e][i + shift(e)]
    BY <2>1, DequeueAt
  <2>3. ASSUME NEW e \in Devices, NEW f \in Devices, NEW x \in Offers,
               NEW i \in 1..Len(outbox'[e]), NEW j \in 1..Len(outbox'[f]),
               outbox'[e][i] = PutOffer(x), outbox'[f][j] = PutOffer(x)
        PROVE  e = f /\ i = j
    <3>1. /\ i + shift(e) \in 1..Len(outbox[e]) /\ outbox[e][i + shift(e)] = PutOffer(x)
          /\ j + shift(f) \in 1..Len(outbox[f]) /\ outbox[f][j + shift(f)] = PutOffer(x)
      BY <2>2, <2>3
    <3>2. e = f /\ i + shift(e) = j + shift(f)
      <4> HIDE DEF shift
      <4> QED
        BY <3>1 DEF AddedOnce
    <3>3. QED
      BY <3>2
  <2>4. ASSUME NEW e \in Devices, NEW x \in Offers, PutOffer(x) \in Pending(e)'
        PROVE  PutOffer(x) \in Pending(e) /\ w # PutOffer(x)
    <3>1. PICK i \in 1..Len(outbox'[e]) : outbox'[e][i] = PutOffer(x)
      BY <2>4 DEF Pending
    <3>2. i + shift(e) \in 1..Len(outbox[e]) /\ outbox[e][i + shift(e)] = PutOffer(x)
      BY <2>2, <3>1
    <3>3. e = d => i + shift(e) # 1
      OBVIOUS
    <3>4. 1 \in 1..Len(outbox[d]) /\ w = outbox[d][1]
      BY <2>1, DequeueAt
    <3>5. w # PutOffer(x)
      BY <3>2, <3>3, <3>4 DEF AddedOnce
    <3>6. QED
      BY <3>2, <3>5 DEF Pending
  <2>5. w \in Pending(d) /\ w \in Write
    BY <1>4, HeadPending
  <2>6. \/ served' = served
        \/ \E x \in Offers : w = PutOffer(x) /\ served' = served \cup {x}
    BY <1>4, <2>5 DEF Flush, Write, PostTask, PutOffer, DeleteOffer, Notify
  <2>7. \A x, y \in Offers : x # y => PutOffer(x) # PutOffer(y)
    BY DEF PutOffer
  <2>8. QED
    BY <2>1, <2>3, <2>4, <2>5, <2>6, <2>7 DEF AddedOnce
<1>5. ASSUME NEW d \in Devices, Crash(d) PROVE AddedOnce'
  <2>1. UNCHANGED <<made, served>>
    BY <1>5 DEF Crash
  <2>2. QED
    BY <1>5, <2>1, CrashAt, AddedOnceFrame
<1>6. QED
  BY <1>1, <1>2, <1>3, <1>4, <1>5, StepEffects

\* What the server no longer holds it never holds again: the add that could
\* bring it back has been delivered.
LEMMA NoRevivalStep ==
  ASSUME TypeOK, Captured, AddedOnce, [Next]_vars
  PROVE  \A o \in served \ offers : o \notin offers'
<1>1. ASSUME NEW d \in Devices, Flush(d), NEW o \in served \ offers, o \in offers'
      PROVE  FALSE
  <2> DEFINE w == Head(outbox[d])
  <2>1. w \in Pending(d) /\ w \in Write
    BY <1>1, HeadPending
  <2>2. w.op = "offer" /\ w.offer = o
    BY <1>1, <2>1 DEF Flush, Write, PostTask, PutOffer, DeleteOffer, Notify
  <2>3. w = PutOffer(o) /\ o \in Offers
    BY <1>1, <2>1, <2>2 DEF Write, PostTask, PutOffer, DeleteOffer, Notify, TypeOK
  <2>4. QED
    BY <1>1, <2>1, <2>3 DEF AddedOnce
<1>2. (\E d \in Devices : Flush(d)) \/ offers' = offers
  BY StepEffects DEF AddOffer, Crash, server
<1>3. QED
  BY <1>1, <1>2

\* No offer that was deleted comes back, in any interleaving of deliveries,
\* answers and kills.
THEOREM DeletedStaysDeleted == Spec => NoRevival
<1>1. Init => AddedOnce
  <2> SUFFICES ASSUME Init PROVE AddedOnce
    OBVIOUS
  <2>1. \A d \in Devices : outbox[d] = <<>> /\ Pending(d) = {}
    BY DEF Init, Pending
  <2>2. QED
    BY <2>1 DEF Init, AddedOnce
<1>2. TypeOK /\ Captured /\ AddedOnce /\ [Next]_vars
        => [\A o \in served \ offers : o \notin offers']_vars
  BY NoRevivalStep
<1>3. QED
  BY <1>1, <1>2, AddedOnceStep, TypeCorrect, PTL DEF Spec, NoRevival

-----------------------------------------------------------------------------
(* No offer disappears unheard.                                            *)

\* Behind a delete of the accept loop in q its notice is in q too.
Noticed(q) ==
  \A o \in Offers : \A i \in 1..Len(q) :
    q[i] = DeleteOffer(o, NoSlot) =>
      \E j \in 1..Len(q) : i < j /\ q[j] = Notify("rejected", o)

\* A queued delete of the reject handler s on d is the only one, and it waits.
Awaited(d, s) ==
  \A o \in Offers : \A i \in 1..Len(outbox[d]) :
    outbox[d][i] = DeleteOffer(o, s) =>
      /\ handler[d][s].stage = "deleting"
      /\ handler[d][s].offer = o
      /\ \A j \in 1..Len(outbox[d]), x \in Offers :
           outbox[d][j] = DeleteOffer(x, s) => j = i

\* NoticeFollows, part by part.
LEMMA NoticeParts ==
  NoticeFollows <=>
    (crashes = 0 =>
       \A d \in Devices : Noticed(outbox[d]) /\ \A s \in Slots : Awaited(d, s))
BY DEF NoticeFollows, Noticed, Awaited

\* Notices stay behind their deletes when queues are joined.
LEMMA NoticedConcat ==
  ASSUME NEW q \in Seq(Write), NEW ws \in Seq(Write), Noticed(q), Noticed(ws)
  PROVE  Noticed(q \o ws)
<1>1. SUFFICES ASSUME NEW o \in Offers, NEW i \in 1..Len(q \o ws),
                      (q \o ws)[i] = DeleteOffer(o, NoSlot)
               PROVE  \E j \in 1..Len(q \o ws) :
                        i < j /\ (q \o ws)[j] = Notify("rejected", o)
  BY DEF Noticed
<1>2. CASE i \in 1..Len(q)
  <2>1. q[i] = DeleteOffer(o, NoSlot)
    BY <1>1, <1>2
  <2>2. PICK j \in 1..Len(q) : i < j /\ q[j] = Notify("rejected", o)
    BY <1>2, <2>1 DEF Noticed
  <2>3. j \in 1..Len(q \o ws) /\ (q \o ws)[j] = q[j]
    OBVIOUS
  <2>4. QED
    BY <2>2, <2>3
<1>3. CASE i \notin 1..Len(q)
  <2> DEFINE k == i - Len(q)
  <2>1. k \in 1..Len(ws) /\ ws[k] = DeleteOffer(o, NoSlot)
    BY <1>1, <1>3
  <2>2. PICK j \in 1..Len(ws) : k < j /\ ws[j] = Notify("rejected", o)
    BY <2>1 DEF Noticed
  <2>3. /\ Len(q) + j \in 1..Len(q \o ws) /\ (q \o ws)[Len(q) + j] = ws[j]
        /\ i < Len(q) + j
    BY <2>2
  <2>4. QED
    BY <2>2, <2>3
<1>4. QED
  BY <1>2, <1>3

\* Notices stay behind their deletes when the oldest write is delivered.
LEMMA NoticedTail ==
  ASSUME NEW q \in Seq(Write), q # <<>>, Noticed(q)
  PROVE  Noticed(Tail(q))
<1>1. /\ Len(q) \in Nat /\ Len(Tail(q)) = Len(q) - 1
      /\ \A i \in 1..Len(q) - 1 : Tail(q)[i] = q[i + 1]
  OBVIOUS
<1>2. SUFFICES ASSUME NEW o \in Offers, NEW i \in 1..Len(Tail(q)),
                      Tail(q)[i] = DeleteOffer(o, NoSlot)
               PROVE  \E j \in 1..Len(Tail(q)) :
                        i < j /\ Tail(q)[j] = Notify("rejected", o)
  BY DEF Noticed
<1>3. i + 1 \in 1..Len(q) /\ q[i + 1] = DeleteOffer(o, NoSlot)
  BY <1>1, <1>2
<1>4. PICK j \in 1..Len(q) : i + 1 < j /\ q[j] = Notify("rejected", o)
  BY <1>3 DEF Noticed
<1>5. j - 1 \in 1..Len(Tail(q)) /\ i < j - 1 /\ Tail(q)[j - 1] = q[j]
  BY <1>1, <1>4
<1>6. QED
  BY <1>4, <1>5

\* What becomes of a reject handler that has sent its delete.
LEMMA WaitingKept ==
  ASSUME TypeOK, [Next]_vars, NEW d \in Devices, NEW s \in Slots,
         handler[d][s].stage \in {"deleting", "acked"}
  PROVE  \/ /\ handler'[d][s].stage = handler[d][s].stage
            /\ handler'[d][s].offer = handler[d][s].offer
         \/ /\ Flush(d)
            /\ Head(outbox[d]).op = "delete" /\ Head(outbox[d]).by = s
            /\ handler[d][s].stage = "deleting" /\ handler'[d][s].stage = "acked"
            /\ handler'[d][s].offer = handler[d][s].offer
         \/ handler[d][s].stage = "acked" /\ RejectNotify(d, s)
         \/ Crash(d)
<1> DEFINE Kept == /\ handler'[d][s].stage = handler[d][s].stage
                   /\ handler'[d][s].offer = handler[d][s].offer
<1> USE DEF server, screen, history
<1>1. handler[d][s] \in Handler /\ DOMAIN handler = Devices /\ DOMAIN handler[d] = Slots
  BY DEF TypeOK
<1>2. ASSUME handler'[d] = handler[d] PROVE Kept
  BY <1>2
<1>3. ASSUME NEW e \in Devices,
             \/ \E t \in Tasks : SendNewTask(e, t) \/ OpenDetail(e, t)
             \/ LookupDone(e) \/ FetchDetails(e) \/ PressOffer(e) \/ HasOfferedDone(e)
             \/ \E o \in Offers : AddOffer(e, o)
             \/ CloseDialog(e)
             \/ \E o \in Offers, kind \in {"accept", "reject"} : PressAnswer(e, o, kind)
      PROVE  Kept
  BY <1>3 DEF SendNewTask, OpenDetail, LookupDone, FetchDetails, PressOffer,
              HasOfferedDone, AddOffer, CloseDialog, PressAnswer
<1>4. ASSUME NEW e \in Devices, handler' = [handler EXCEPT ![e] = Unmounted(e)]
      PROVE  Kept
  <2>1. handler'[d] = handler[d] \/ handler'[d] = Unmounted(d)
    BY <1>1, <1>4
  <2>2. QED
    BY <2>1, UnmountedFields
<1>5. ASSUME NEW e \in Devices, Back(e) \/ Rebuild(e) \/ CancelReject(e) PROVE Kept
  BY <1>4, <1>5 DEF Back, Rebuild, CancelReject
<1>6. ASSUME NEW e \in Devices, NEW r \in Slots,
             handler[e][r].stage \notin {"deleting", "acked"},
             NEW h, handler' = [handler EXCEPT ![e][r] = h]
      PROVE  Kept
  <2>1. e # d \/ r # s
    BY <1>6
  <2>2. handler'[d][s] = handler[d][s]
    BY <1>1, <1>6, <2>1 DEF TypeOK
  <2>3. QED
    BY <2>2
<1>7. ASSUME NEW e \in Devices, NEW r \in Slots, AcceptYes(e, r) \/ RejectYes(e, r)
      PROVE  Kept
  <2>1. handler[e][r].stage = "idle" /\ \E h : handler' = [handler EXCEPT ![e][r] = h]
    BY <1>7 DEF AcceptYes, RejectYes, Confirm, FreeSlot
  <2>2. QED
    BY <1>6, <2>1
<1>8. ASSUME NEW e \in Devices, NEW r \in Slots,
             AcceptGet(e, r) \/ AcceptResume(e, r) \/ LoopEnd(e, r)
               \/ \E o \in Offers : LoopStep(e, r, o)
      PROVE  Kept
  <2>1. /\ handler[e][r].stage \in {"getting", "fetched", "looping"}
        /\ \E h : handler' = [handler EXCEPT ![e][r] = h]
    <3>1. DOMAIN handler = Devices /\ r \in DOMAIN handler[e]
      BY DEF TypeOK
    <3>2. QED
      BY <1>8, <3>1 DEF AcceptGet, AcceptResume, LoopEnd, LoopStep
  <2>2. QED
    BY <1>6, <2>1
<1>9. ASSUME NEW e \in Devices, NEW r \in Slots, TellOk(e, r) PROVE Kept
  <2>1. handler[e][r].stage = "told"
        /\ handler' = [handler EXCEPT ![e] = [Unmounted(e) EXCEPT ![r] = IdleHandler]]
    BY <1>9 DEF TellOk
  <2>2. CASE e # d
    BY <1>1, <2>1, <2>2
  <2>3. CASE e = d
    <3>1. r # s
      BY <2>1, <2>3
    <3>2. handler'[d][s] = Unmounted(d)[s]
      BY <1>1, <2>1, <2>3, <3>1 DEF Unmounted
    <3>3. QED
      BY <3>2, UnmountedFields
  <2>4. QED
    BY <2>2, <2>3
<1>10. ASSUME NEW e \in Devices, NEW r \in Slots, RejectNotify(e, r)
       PROVE  Kept \/ (handler[d][s].stage = "acked" /\ RejectNotify(d, s))
  <2>1. handler[e][r].stage = "acked" /\ handler' = [handler EXCEPT ![e][r] = IdleHandler]
    BY <1>10 DEF RejectNotify
  <2>2. CASE e = d /\ r = s
    BY <1>10, <2>1, <2>2
  <2>3. CASE ~(e = d /\ r = s)
    <3>1. handler'[d][s] = handler[d][s]
      BY <1>1, <2>1, <2>3 DEF TypeOK
    <3>2. QED
      BY <3>1
  <2>4. QED
    BY <2>2, <2>3
<1>11. ASSUME NEW e \in Devices, Flush(e)
       PROVE  \/ Kept
              \/ /\ Flush(d)
                 /\ Head(outbox[d]).op = "delete" /\ Head(outbox[d]).by = s
                 /\ handler[d][s].stage = "deleting" /\ handler'[d][s].stage = "acked"
                 /\ handler'[d][s].offer = handler[d][s].offer
  <2>1. CASE e # d
    BY <1>1, <1>11, <2>1 DEF Flush
  <2>2. CASE e = d
    <3> DEFINE w == Head(outbox[d])
               mine == w.op = "delete" /\ w.by = s /\ handler[d][s].stage = "deleting"
    <3>1. handler'[d][s] = IF mine THEN [handler[d][s] EXCEPT !.stage = "acked"]
                                   ELSE handler[d][s]
      BY <1>1, <1>11, <2>2 DEF Flush
    <3>2. CASE mine
      BY <1>1, <1>11, <2>2, <3>1, <3>2 DEF Handler
    <3>3. CASE ~mine
      BY <3>1, <3>3
    <3>4. QED
      BY <3>2, <3>3
  <2>3. QED
    BY <2>1, <2>2
<1>12. ASSUME NEW e \in Devices, Crash(e) PROVE Kept \/ Crash(d)
  BY <1>1, <1>12 DEF Crash
<1>13. CASE UNCHANGED vars
  BY <1>13 DEF vars
<1>14. QED
  BY <1>3, <1>5, <1>7, <1>8, <1>9, <1>10, <1>11, <1>12, <1>13 DEF Next

\* A queued write of the reject handler s on d stays behind what it waits for.
LEMMA AwaitedFrame ==
  ASSUME NEW d \in Devices, NEW s \in Slots, Awaited(d, s), NEW shift \in Nat,
         \A i \in 1..Len(outbox'[d]), o \in Offers : outbox'[d][i] = DeleteOffer(o, s) =>
           i + shift \in 1..Len(outbox[d]) /\ outbox[d][i + shift] = DeleteOffer(o, s),
         (\E i \in 1..Len(outbox'[d]), o \in Offers : outbox'[d][i] = DeleteOffer(o, s))
           /\ handler[d][s].stage = "deleting"
             => /\ handler'[d][s].stage = "deleting"
                /\ handler'[d][s].offer = handler[d][s].offer
  PROVE  Awaited(d, s)'
<1>1. SUFFICES ASSUME NEW o \in Offers, NEW i \in 1..Len(outbox'[d]),
                      outbox'[d][i] = DeleteOffer(o, s)
               PROVE  /\ handler'[d][s].stage = "deleting"
                      /\ handler'[d][s].offer = o
                      /\ \A j \in 1..Len(outbox'[d]), x \in Offers :
                           outbox'[d][j] = DeleteOffer(x, s) => j = i
  BY DEF Awaited
<1>2. i + shift \in 1..Len(outbox[d]) /\ outbox[d][i + shift] = DeleteOffer(o, s)
  BY <1>1
<1>3. handler[d][s].stage = "deleting" /\ handler[d][s].offer = o
  BY <1>2 DEF Awaited
<1>4. ASSUME NEW j \in 1..Len(outbox'[d]), NEW x \in Offers,
             outbox'[d][j] = DeleteOffer(x, s)
      PROVE  j = i
  <2>1. j + shift \in 1..Len(outbox[d]) /\ outbox[d][j + shift] = DeleteOffer(x, s)
    BY <1>4
  <2>2. j + shift = i + shift
    BY <1>2, <2>1 DEF Awaited
  <2>3. QED
    BY <2>2
<1>5. QED
  BY <1>1, <1>3, <1>4

\* A step that queues ws, in which notices follow deletes.  A reject handler
\* none of whose deletes is in ws goes on waiting.
LEMMA NoticeQueue ==
  ASSUME TypeOK, [Next]_vars, NEW d \in Devices, NEW ws \in Seq(Write), Queue(d, ws),
         \A e \in Devices : ~Crash(e) /\ ~Flush(e),
         \A e \in Devices : Noticed(outbox[e]) /\ \A s \in Slots : Awaited(e, s),
         Noticed(ws)
  PROVE  /\ \A e \in Devices : Noticed(outbox[e])'
         /\ \A e \in Devices, s \in Slots :
              e # d \/ (\A i \in 1..Len(ws), o \in Offers : ws[i] # DeleteOffer(o, s))
                => Awaited(e, s)'
<1>1. /\ outbox'[d] = outbox[d] \o ws
      /\ \A e \in Devices \ {d} : outbox'[e] = outbox[e]
  BY DEF Queue, TypeOK
<1>2. \A e \in Devices : Noticed(outbox[e])'
  <2>1. \A e \in Devices : outbox[e] \in Seq(Write)
    BY DEF TypeOK
  <2>2. Noticed(outbox'[d])
    BY <1>1, <2>1, NoticedConcat
  <2>3. \A e \in Devices : Noticed(outbox'[e])
    BY <1>1, <2>2
  <2>4. QED
    BY <2>3 DEF Noticed
<1>3. ASSUME NEW e \in Devices, NEW s \in Slots,
             e # d \/ \A i \in 1..Len(ws), o \in Offers : ws[i] # DeleteOffer(o, s)
      PROVE  Awaited(e, s)'
  <2>1. ASSUME NEW i \in 1..Len(outbox'[e]), NEW o \in Offers,
               outbox'[e][i] = DeleteOffer(o, s)
        PROVE  i \in 1..Len(outbox[e]) /\ outbox[e][i] = DeleteOffer(o, s)
    <3>1. CASE e # d
      BY <1>1, <2>1, <3>1
    <3>2. CASE e = d
      <4>1. \/ i \in 1..Len(outbox[d])
            \/ /\ i - Len(outbox[d]) \in 1..Len(ws)
               /\ outbox'[d][i] = ws[i - Len(outbox[d])]
        BY <3>2, QueueAt
      <4>2. \A k \in 1..Len(outbox[d]) : outbox'[d][k] = outbox[d][k]
        BY QueueAt
      <4>3. QED
        BY <1>3, <2>1, <3>2, <4>1, <4>2
    <3>3. QED
      BY <3>1, <3>2
  <2>2. handler[e][s].stage = "deleting" =>
          /\ handler'[e][s].stage = "deleting"
          /\ handler'[e][s].offer = handler[e][s].offer
    BY WaitingKept
  <2>3. \A i \in 1..Len(outbox'[e]) : i + 0 = i
    OBVIOUS
  <2>4. QED
    BY <1>3, <2>1, <2>2, <2>3, AwaitedFrame
<1>4. QED
  BY <1>2, <1>3

\* Kills are counted.
LEMMA NoKill ==
  ASSUME TypeOK, [Next]_vars, crashes' = 0
  PROVE  crashes = 0 /\ \A d \in Devices : ~Crash(d)
<1>1. ASSUME NEW d \in Devices, Crash(d) PROVE FALSE
  BY <1>1 DEF Crash, TypeOK
<1>2. crashes' = crashes
  <2> USE DEF server, screen, history
  <2>1. ASSUME NEW d \in Devices,
               (\E t \in Tasks : SendNewTask(d, t)) \/ (\E o \in Offers : AddOffer(d, o))
                 \/ Flush(d)
        PROVE  crashes' = crashes
    BY <2>1 DEF SendNewTask, AddOffer, Flush
  <2>2. ASSUME NEW d \in Devices, NEW s \in Slots,
               (\E o \in Offers : LoopStep(d, s, o)) \/ RejectYes(d, s) \/ RejectNotify(d, s)
        PROVE  crashes' = crashes
    BY <2>2 DEF LoopStep, RejectYes, Confirm, RejectNotify
  <2>3. QED
    BY <1>1, <2>1, <2>2, StepKinds
<1>3. QED
  BY <1>1, <1>2

\* Every step keeps notices behind deletes, and handlers behind their deletes.
LEMMA NoticeStep == TypeOK /\ Captured /\ NoticeFollows /\ [Next]_vars => NoticeFollows'
<1> DEFINE AllFollow == \A e \in Devices : Noticed(outbox[e]) /\ \A s \in Slots : Awaited(e, s)
<1>1. SUFFICES ASSUME TypeOK, Captured, crashes = 0 => AllFollow, [Next]_vars, crashes' = 0
               PROVE  AllFollow'
  <2>1. NoticeFollows <=> (crashes = 0 => AllFollow)
    BY NoticeParts
  <2>2. NoticeFollows' <=> (crashes' = 0 => AllFollow')
    BY DEF NoticeFollows, Noticed, Awaited
  <2>3. QED
    BY <2>1, <2>2
<1>2. crashes = 0 /\ \A d \in Devices : ~Crash(d)
  BY <1>1, NoKill
<1>3. AllFollow
  BY <1>1, <1>2
<1>4. ASSUME NEW d \in Devices, Flush(d) PROVE AllFollow'
  <2>1. outbox[d] # <<>> /\ Dequeue(d) /\ outbox[d] \in Seq(Write)
    BY <1>1, <1>4 DEF Flush, TypeOK
  <2>2. \A e \in Devices : outbox'[e] = IF e = d THEN Tail(outbox[e]) ELSE outbox[e]
    BY <1>1, <2>1 DEF Dequeue, TypeOK
  <2>3. \A e \in Devices : Noticed(outbox[e])'
    <3>1. Noticed(Tail(outbox[d]))
      BY <1>3, <2>1, NoticedTail
    <3>2. \A e \in Devices : Noticed(outbox'[e])
      BY <1>3, <2>2, <3>1
    <3>3. QED
      BY <3>2 DEF Noticed
  <2>4. ASSUME NEW e \in Devices, NEW s \in Slots PROVE Awaited(e, s)'
    <3> DEFINE shift == IF e = d THEN 1 ELSE 0
    <3>1. \A i \in 1..Len(outbox'[e]) :
            i + shift \in 1..Len(outbox[e]) /\ outbox'[e][i] = outbox[e][i + shift]
      BY <1>1, <2>1, DequeueAt
    <3>2. ASSUME NEW i \in 1..Len(outbox'[e]), NEW o \in Offers,
                 outbox'[e][i] = DeleteOffer(o, s), Flush(e),
                 Head(outbox[e]).op = "delete", Head(outbox[e]).by = s
          PROVE  FALSE
      <4>1. /\ 1 \in 1..Len(outbox[e]) /\ Head(outbox[e]) = outbox[e][1]
            /\ i + 1 \in 1..Len(outbox[e]) /\ outbox[e][i + 1] = DeleteOffer(o, s)
        BY <1>1, <3>2, DequeueAt DEF Flush
      <4>2. outbox[e][1] \in Write
        BY <1>1, <4>1 DEF TypeOK
      <4>3. PICK x \in Offers : outbox[e][1] = DeleteOffer(x, s)
        BY <3>2, <4>1, <4>2 DEF Write, PostTask, PutOffer, DeleteOffer, Notify
      <4>4. 1 = i + 1
        BY <1>3, <4>1, <4>3 DEF Awaited
      <4>5. QED
        BY <4>4
    <3>3. (\E i \in 1..Len(outbox'[e]), o \in Offers : outbox'[e][i] = DeleteOffer(o, s))
             /\ handler[e][s].stage = "deleting"
            => /\ handler'[e][s].stage = "deleting"
               /\ handler'[e][s].offer = handler[e][s].offer
      BY <1>1, <1>2, <3>2, WaitingKept
    <3>4. shift \in Nat
      OBVIOUS
    <3>5. Awaited(e, s)
      BY <1>3
    <3>6. QED
      <4> HIDE DEF shift
      <4> QED
        BY <3>1, <3>3, <3>4, <3>5, AwaitedFrame
  <2>5. QED
    BY <2>3, <2>4
<1>5. ASSUME \A d \in Devices : ~Flush(d) PROVE AllFollow'
  <2>1. ASSUME NEW d \in Devices, NEW ws \in Seq(Write), Queue(d, ws), Noticed(ws),
               \A i \in 1..Len(ws), o \in Offers, s \in Slots : ws[i] # DeleteOffer(o, s)
        PROVE  AllFollow'
    BY <1>1, <1>2, <1>3, <1>5, <2>1, NoticeQueue
  <2>2. ASSUME NEW d \in Devices, NEW t \in Tasks, SendNewTask(d, t) PROVE AllFollow'
    <3> DEFINE ws == <<PostTask(t)>>
    <3>1. Queue(d, ws) /\ ws \in Seq(Write)
      BY <1>1, <2>2, HandlerWrites DEF SendNewTask
    <3>2. Noticed(ws) /\ \A i \in 1..Len(ws), o \in Offers, s \in Slots : ws[i] # DeleteOffer(o, s)
      BY DEF Noticed, PostTask, DeleteOffer
    <3>3. QED
      BY <2>1, <3>1, <3>2
  <2>3. ASSUME NEW d \in Devices, NEW x \in Offers, AddOffer(d, x) PROVE AllFollow'
    <3> DEFINE ws == OfferWrites(x)
    <3>1. Queue(d, ws) /\ ws \in Seq(Write)
      BY <1>1, <2>3, HandlerWrites DEF AddOffer
    <3>2. Noticed(ws) /\ \A i \in 1..Len(ws), o \in Offers, s \in Slots : ws[i] # DeleteOffer(o, s)
      BY DEF Noticed, OfferWrites, PutOffer, Notify, DeleteOffer
    <3>3. QED
      BY <2>1, <3>1, <3>2
  <2>4. ASSUME NEW d \in Devices, NEW s \in Slots, NEW x \in Offers, LoopStep(d, s, x)
        PROVE  AllFollow'
    <3> DEFINE ws == LoopWrites(handler[d][s].offer, x)
    <3>1. Queue(d, ws) /\ ws \in Seq(Write)
      BY <1>1, <2>4, HandlerWrites DEF LoopStep
    <3>2. CASE x # handler[d][s].offer
      <4>1. ws = <<DeleteOffer(x, NoSlot), Notify("rejected", x)>>
        BY <3>2 DEF LoopWrites
      <4>2. \A i \in 1..Len(ws) : i = 1 \/ i = 2
        BY <4>1
      <4>3. Noticed(ws)
        BY <4>1, <4>2 DEF Noticed, DeleteOffer, Notify
      <4>4. \A i \in 1..Len(ws), o \in Offers, r \in Slots : ws[i] # DeleteOffer(o, r)
        BY <4>1, <4>2, ConstantsAssumption DEF DeleteOffer, Notify
      <4>5. QED
        BY <2>1, <3>1, <4>3, <4>4
    <3>3. CASE x = handler[d][s].offer
      <4>1. ws = <<Notify("accepted", x)>>
        BY <3>3 DEF LoopWrites
      <4>2. Noticed(ws) /\ \A i \in 1..Len(ws), o \in Offers, r \in Slots : ws[i] # DeleteOffer(o, r)
        BY <4>1 DEF Noticed, DeleteOffer, Notify
      <4>3. QED
        BY <2>1, <3>1, <4>2
    <3>4. QED
      BY <3>2, <3>3
  <2>5. ASSUME NEW d \in Devices, NEW s \in Slots, RejectNotify(d, s) PROVE AllFollow'
    <3> DEFINE ws == RejectWrites(handler[d][s].offer)
    <3>1. Queue(d, ws) /\ ws \in Seq(Write)
      BY <1>1, <2>5, HandlerWrites DEF RejectNotify
    <3>2. Noticed(ws) /\ \A i \in 1..Len(ws), o \in Offers, r \in Slots : ws[i] # DeleteOffer(o, r)
      BY DEF Noticed, RejectWrites, Notify, DeleteOffer
    <3>3. QED
      BY <2>1, <3>1, <3>2
  <2>6. ASSUME NEW d \in Devices, NEW s \in Slots, RejectYes(d, s) PROVE AllFollow'
    <3> DEFINE o == dialog[d].offer
               ws == <<DeleteOffer(o, s)>>
               n == Len(outbox[d])
    <3>1. Queue(d, ws) /\ ws \in Seq(Write) /\ o \in Offers
      BY <1>1, <2>6, HandlerWrites DEF RejectYes
    <3>2. Noticed(ws)
      BY ConstantsAssumption DEF Noticed, DeleteOffer
    <3>3. \A r \in Slots \ {s}, i \in 1..Len(ws), x \in Offers : ws[i] # DeleteOffer(x, r)
      BY DEF DeleteOffer
    <3>4. /\ \A e \in Devices : Noticed(outbox[e])'
          /\ \A e \in Devices, r \in Slots :
               e # d \/ (\A i \in 1..Len(ws), x \in Offers : ws[i] # DeleteOffer(x, r))
                 => Awaited(e, r)'
      <4> HIDE DEF ws, o, n
      <4> QED
        BY <1>1, <1>2, <1>3, <1>5, <3>1, <3>2, NoticeQueue
    <3>5. /\ \A i \in 1..n : outbox'[d][i] = outbox[d][i]
          /\ \A k \in 1..Len(outbox'[d]) :
               k \in 1..n \/ (k - n \in 1..Len(ws) /\ outbox'[d][k] = ws[k - n])
      <4> HIDE DEF ws, o
      <4> QED
        BY <1>1, <3>1, QueueAt
    <3>6. ASSUME NEW e \in Devices, NEW r \in Slots, e # d \/ r # s PROVE Awaited(e, r)'
      <4>1. e # d \/ \A i \in 1..Len(ws), x \in Offers : ws[i] # DeleteOffer(x, r)
        BY <3>3, <3>6
      <4>2. QED
        <5> HIDE DEF ws, o, n
        <5> QED
          BY <4>1, <3>4
    <3>7. Awaited(d, s)'
      <4>1. /\ handler'[d][s].stage = "deleting" /\ handler'[d][s].offer = o
            /\ \A x \in Offers : DeleteOffer(x, s) \notin Pending(d)
        BY <1>1, <2>6 DEF RejectYes, Confirm, FreeSlot, TypeOK
      <4>2. ASSUME NEW i \in 1..Len(outbox'[d]), NEW x \in Offers,
                   outbox'[d][i] = DeleteOffer(x, s)
            PROVE  i = n + 1 /\ x = o
        <5>1. \/ i \in 1..n
              \/ i - n \in 1..Len(ws) /\ outbox'[d][i] = ws[i - n]
          <6> HIDE DEF ws, o, n
          <6> QED
            BY <3>5
        <5>2. i \notin 1..n
          <6>1. ASSUME i \in 1..n PROVE outbox[d][i] = DeleteOffer(x, s)
            <7> HIDE DEF ws, o, n
            <7> QED
              BY <3>5, <4>2, <6>1
          <6>2. QED
            BY <4>1, <6>1 DEF Pending
        <5>3. i - n = 1 /\ outbox'[d][i] = DeleteOffer(o, s)
          BY <5>1, <5>2
        <5>4. n \in Nat
          BY <1>1 DEF TypeOK
        <5>5. QED
          BY <4>2, <5>3, <5>4 DEF DeleteOffer
      <4>3. QED
        BY <4>1, <4>2 DEF Awaited
    <3>8. QED
      BY <3>4, <3>6, <3>7
  <2>7. ASSUME UNCHANGED outbox PROVE AllFollow'
    <3>1. \A e \in Devices : Noticed(outbox[e])'
      BY <1>3, <2>7 DEF Noticed
    <3>2. ASSUME NEW e \in Devices, NEW s \in Slots PROVE Awaited(e, s)'
      <4>1. handler[e][s].stage = "deleting" =>
              /\ handler'[e][s].stage = "deleting"
              /\ handler'[e][s].offer = handler[e][s].offer
        BY <1>1, <1>2, <1>5, WaitingKept
      <4>2. QED
        BY <1>3, <2>7, <4>1 DEF Awaited
    <3>3. QED
      BY <3>1, <3>2
  <2>8. QED
    BY <1>1, <1>2, <1>5, <2>2, <2>3, <2>4, <2>5, <2>6, <2>7, StepKinds
<1>6. QED
  BY <1>4, <1>5

\* What was queued on d stays queued unless it is delivered or d is killed.
LEMMA PendingKept ==
  ASSUME TypeOK, Captured, [Next]_vars, NEW d \in Devices, NEW w \in Pending(d), ~Crash(d)
  PROVE  w \in Pending(d)' \/ (Flush(d) /\ w = Head(outbox[d]))
<1>1. ASSUME NEW e \in Devices, NEW ws \in Seq(Write), Queue(e, ws)
      PROVE  w \in Pending(d)'
  BY <1>1, QueuePending
<1>2. ASSUME NEW e \in Devices, NEW o \in Offers, AddOffer(e, o) PROVE w \in Pending(d)'
  BY <1>1, <1>2, HandlerWrites DEF AddOffer
<1>3. ASSUME NEW e \in Devices, Flush(e)
      PROVE  w \in Pending(d)' \/ (Flush(d) /\ w = Head(outbox[d]))
  BY <1>3, DequeuePending DEF Flush
<1>4. ASSUME UNCHANGED outbox PROVE w \in Pending(d)'
  BY <1>4 DEF Pending
<1>5. ASSUME NEW e \in Devices, Crash(e) PROVE w \in Pending(d)'
  <2>1. outbox'[d] = outbox[d]
    BY <1>5 DEF Crash, TypeOK
  <2>2. QED
    BY <2>1 DEF Pending
<1>6. QED
  BY <1>1, <1>2, <1>3, <1>4, <1>5, StepEffects

\* Notifications are never withdrawn, and a delivered one is told.
LEMMA NotifsGrow ==
  ASSUME TypeOK, Captured, [Next]_vars, NEW n \in Notif
  PROVE  /\ notifs'[n] \in Nat /\ notifs'[n] >= notifs[n]
         /\ \A d \in Devices : Flush(d) /\ Head(outbox[d]) = [op |-> "notify", note |-> n]
              => notifs'[n] > 0
<1>1. ASSUME NEW d \in Devices, Flush(d)
      PROVE  /\ notifs'[n] \in Nat /\ notifs'[n] >= notifs[n]
             /\ Head(outbox[d]) = [op |-> "notify", note |-> n] => notifs'[n] > 0
  BY <1>1 DEF Flush, TypeOK
<1>2. ASSUME \A d \in Devices : ~Flush(d) PROVE notifs' = notifs
  BY <1>2, StepEffects DEF AddOffer, Crash, server
<1>3. QED
  BY <1>1, <1>2 DEF TypeOK

\* An offer the server gives up was asked to be deleted by the head of a queue.
LEMMA OfferLost ==
  ASSUME TypeOK, Captured, [Next]_vars, NEW o \in Offers, o \in served' \ offers',
         ~(o \in served \ offers)
  PROVE  \E d \in Devices, by \in Slots \cup {NoSlot} :
           /\ Flush(d) /\ outbox[d] # <<>>
           /\ Head(outbox[d]) = DeleteOffer(o, by)
<1>1. PICK d \in Devices : Flush(d)
  BY StepEffects DEF AddOffer, Crash, server
<1> DEFINE w == Head(outbox[d])
<1>2. w \in Write /\ outbox[d] # <<>>
  BY <1>1, HeadPending DEF Flush
<1>3. w.op # "offer"
  BY <1>1 DEF Flush
<1>4. w.op = "delete" /\ w.offer = o
  BY <1>1, <1>3 DEF Flush
<1>5. QED
  BY <1>1, <1>2, <1>4 DEF Write, PostTask, PutOffer, DeleteOffer, Notify

\* While no app is killed, what the server gives up is told or about to be.
LEMMA NoSilentLossStep ==
  ASSUME TypeOK, Captured, NoticeFollows, NoSilentLoss, [Next]_vars
  PROVE  NoSilentLoss'
<1> DEFINE Safe(o) == Told("rejected", o) \/ InFlight("rejected", o) \/ Owed(o)
<1>1. SUFFICES ASSUME crashes' = 0, NEW o \in Offers, o \in served' \ offers'
               PROVE  Safe(o)'
  <2>1. TypeOK'
    BY TypeStep
  <2>2. \A o \in served' : o \in Offers
    BY <2>1 DEF TypeOK
  <2>3. QED
    BY <2>2 DEF NoSilentLoss
<1>2. crashes = 0 /\ \A d \in Devices : ~Crash(d)
  BY <1>1, NoKill
<1> DEFINE n == [status |-> "rejected", about |-> o]
<1>3. n \in Notif /\ Notify("rejected", o) = [op |-> "notify", note |-> n]
  BY DEF Notif, Notify
<1>4. CASE o \in served \ offers
  <2>1. CASE Told("rejected", o)
    BY <1>3, <2>1, NotifsGrow DEF Told, TypeOK
  <2>2. CASE InFlight("rejected", o)
    <3>1. PICK d \in Devices : Notify("rejected", o) \in Pending(d)
      BY <2>2 DEF InFlight
    <3>2. CASE Notify("rejected", o) \in Pending(d)'
      BY <3>2 DEF InFlight
    <3>3. CASE Flush(d) /\ Notify("rejected", o) = Head(outbox[d])
      BY <1>3, <3>3, NotifsGrow DEF Told
    <3>4. QED
      BY <1>2, <3>1, <3>2, <3>3, PendingKept
  <2>3. CASE Owed(o)
    <3>1. PICK d \in Devices, s \in Slots :
            handler[d][s].offer = o /\ handler[d][s].stage \in {"deleting", "acked"}
      BY <2>3 DEF Owed
    <3>2. CASE handler'[d][s].offer = o /\ handler'[d][s].stage \in {"deleting", "acked"}
      BY <3>2 DEF Owed
    <3>3. CASE RejectNotify(d, s)
      <4>1. Queue(d, RejectWrites(o)) /\ RejectWrites(o) \in Seq(Write)
        BY <3>1, <3>3, HandlerWrites DEF RejectNotify
      <4>2. RejectWrites(o)[1] = Notify("rejected", o) /\ Len(RejectWrites(o)) = 1
        BY DEF RejectWrites
      <4>3. Notify("rejected", o) \in Pending(d)'
        BY <4>1, <4>2, QueuePending
      <4>4. QED
        BY <4>3 DEF InFlight
    <3>4. QED
      BY <1>2, <3>1, <3>2, <3>3, WaitingKept
  <2>4. QED
    BY <1>2, <1>4, <2>1, <2>2, <2>3 DEF NoSilentLoss
<1>5. CASE ~(o \in served \ offers)
  <2>1. PICK d \in Devices, by \in Slots \cup {NoSlot} :
          /\ Flush(d) /\ outbox[d] # <<>> /\ Head(outbox[d]) = DeleteOffer(o, by)
    BY <1>1, <1>5, OfferLost
  <2>2. 1 \in 1..Len(outbox[d]) /\ outbox[d][1] = DeleteOffer(o, by)
    BY <2>1, DequeueAt DEF Flush
  <2>3. CASE by = NoSlot
    <3>1. PICK j \in 1..Len(outbox[d]) : 1 < j /\ outbox[d][j] = Notify("rejected", o)
      BY <1>2, <2>2, <2>3 DEF NoticeFollows
    <3>2. Notify("rejected", o) \in Pending(d)'
      <4>1. j - 1 \in 1..Len(outbox'[d]) /\ outbox'[d][j - 1] = outbox[d][j]
        BY <2>1, <3>1, DequeueAt DEF Flush
      <4>2. QED
        BY <3>1, <4>1 DEF Pending
    <3>3. QED
      BY <3>2 DEF InFlight
  <2>4. CASE by \in Slots
    <3>1. handler[d][by].stage = "deleting" /\ handler[d][by].offer = o
      BY <1>2, <2>2, <2>4 DEF NoticeFollows
    <3>2. handler'[d][by].offer = o /\ handler'[d][by].stage \in {"deleting", "acked"}
      BY <1>2, <2>4, <3>1, WaitingKept
    <3>3. QED
      BY <2>4, <3>2 DEF Owed
  <2>5. QED
    BY <2>3, <2>4
<1>6. QED
  BY <1>4, <1>5

\* As long as no app is killed, no offer disappears from the server without
\* a "rejected" told, queued, or owed by a handler that waits for its delete.
THEOREM LossesAreTold == Spec => []NoSilentLoss
<1>1. Init => NoticeFollows /\ NoSilentLoss
  <2> SUFFICES ASSUME Init PROVE NoticeFollows /\ NoSilentLoss
    OBVIOUS
  <2>1. \A d \in Devices : outbox[d] = <<>>
    BY DEF Init
  <2>2. QED
    BY <2>1 DEF Init, NoticeFollows, NoSilentLoss
<1>2. TypeOK /\ Captured /\ (NoticeFollows /\ NoSilentLoss) /\ [Next]_vars
        => (NoticeFollows /\ NoSilentLoss)'
  BY NoticeStep, NoSilentLossStep
<1>3. QED
  BY <1>1, <1>2, TypeCorrect, PTL DEF Spec

-----------------------------------------------------------------------------
(* "Accepted" on a screen is true.                                         *)

Shown == {"accepted", "priced", "unpriced"}

Backed(d, t) ==
  \E o \in OffersOn(t) : Told("accepted", o) \/ Notify("accepted", o) \in Pending(d)

\* A lookup says "accepted" only if it has seen an "accepted" document.
LEMMA AcceptedIsBacked ==
  ASSUME TypeOK, NEW d \in Devices, NEW t, IsAccepted(d, t)
  PROVE  Backed(d, t)
<1>1. PICK o \in OffersOn(t) : Copies(d, "accepted", o) = 1
  BY DEF IsAccepted
<1> DEFINE n == [status |-> "accepted", about |-> o]
           seen == {i \in 1..Len(outbox[d]) : outbox[d][i] = Notify("accepted", o)}
<1>2. n \in Notif /\ notifs[n] \in Nat
  BY DEF Notif, OffersOn, TypeOK
<1>3. CASE seen = {}
  <2>1. Cardinality(seen) = 0
    BY <1>3, FS_EmptySet
  <2>2. notifs[n] + Cardinality(seen) = 1
    BY <1>1 DEF Copies
  <2>3. notifs[n] > 0
    <3> HIDE DEF n, seen
    <3> QED
      BY <1>2, <2>1, <2>2
  <2>4. QED
    BY <2>3 DEF Backed, Told
<1>4. CASE seen # {}
  BY <1>4 DEF Backed, Pending
<1>5. QED
  BY <1>3, <1>4

\* Where a screen that says "accepted" comes from.
LEMMA VerdictKept ==
  ASSUME TypeOK, [Next]_vars, NEW d \in Devices, verdict'[d] \in Shown
  PROVE  /\ page'[d] = page[d] /\ ~Crash(d)
         /\ \/ verdict[d] \in Shown
            \/ IsAccepted(d, page[d]) /\ UNCHANGED <<notifs, outbox>>
<1> DEFINE Goal == /\ page'[d] = page[d] /\ ~Crash(d)
                   /\ \/ verdict[d] \in Shown
                      \/ IsAccepted(d, page[d]) /\ UNCHANGED <<notifs, outbox>>
<1> USE DEF server, screen, history
<1>1. ~Crash(d)
  BY DEF Crash, RestartScreen, Shown, TypeOK
<1>2. ASSUME UNCHANGED <<page, verdict>> PROVE Goal
  BY <1>1, <1>2
<1>3. ASSUME NEW e \in Devices,
             \/ \E t \in Tasks : SendNewTask(e, t)
             \/ PressOffer(e) \/ HasOfferedDone(e)
             \/ \E o \in Offers : AddOffer(e, o)
             \/ CloseDialog(e)
             \/ \E o \in Offers, kind \in {"accept", "reject"} : PressAnswer(e, o, kind)
             \/ Flush(e)
      PROVE  UNCHANGED <<page, verdict>>
  BY <1>3 DEF SendNewTask, PressOffer, HasOfferedDone, AddOffer, CloseDialog, PressAnswer, Flush
<1>4. ASSUME NEW e \in Devices, NEW s \in Slots,
             \/ AcceptYes(e, s) \/ AcceptGet(e, s) \/ AcceptResume(e, s)
             \/ \E o \in Offers : LoopStep(e, s, o)
             \/ LoopEnd(e, s) \/ RejectYes(e, s) \/ RejectNotify(e, s)
      PROVE  UNCHANGED <<page, verdict>>
  BY <1>4 DEF AcceptYes, Confirm, AcceptGet, AcceptResume, LoopStep, LoopEnd, RejectYes,
              RejectNotify
<1>5. ASSUME NEW e \in Devices, (\E t \in Tasks : OpenDetail(e, t)) \/ Back(e)
      PROVE  Goal
  BY <1>1, <1>5 DEF OpenDetail, Back, Shown, TypeOK
<1>6. ASSUME NEW e \in Devices, Rebuilt(e), UNCHANGED page PROVE Goal
  BY <1>1, <1>6 DEF Rebuilt, Shown, TypeOK
<1>7. ASSUME NEW e \in Devices, Rebuild(e) \/ CancelReject(e) \/ \E s \in Slots : TellOk(e, s)
      PROVE  Goal
  BY <1>6, <1>7 DEF Rebuild, CancelReject, TellOk
<1>8. ASSUME NEW e \in Devices, LookupDone(e) PROVE Goal
  <2>1. /\ UNCHANGED <<page, notifs, outbox>>
        /\ verdict' = [verdict EXCEPT ![e] =
                         IF IsAccepted(e, page[e]) THEN "accepted" ELSE "open"]
    BY <1>8 DEF LookupDone
  <2>2. CASE e = d
    BY <1>1, <2>1, <2>2 DEF Shown, TypeOK
  <2>3. CASE e # d
    BY <1>1, <2>1, <2>3 DEF TypeOK
  <2>4. QED
    BY <2>2, <2>3
<1>9. ASSUME NEW e \in Devices, FetchDetails(e) PROVE Goal
  BY <1>1, <1>9 DEF FetchDetails, Shown, TypeOK
<1>10. ASSUME NEW e \in Devices, Crash(e) PROVE Goal
  BY <1>1, <1>10 DEF Crash, RestartScreen, TypeOK
<1>11. CASE UNCHANGED vars
  BY <1>2, <1>11 DEF vars
<1>12. QED
  BY <1>2, <1>3, <1>4, <1>5, <1>7, <1>8, <1>9, <1>10, <1>11 DEF Next

\* A screen that said "accepted" for a reason goes on having it.
LEMMA VerdictStep ==
  ASSUME TypeOK, Captured, VerdictBacked, [Next]_vars
  PROVE  VerdictBacked'
<1>1. SUFFICES ASSUME NEW d \in Devices, verdict'[d] \in Shown
               PROVE  \E o \in OffersOn(page'[d]) :
                        Told("accepted", o)' \/ Notify("accepted", o) \in Pending(d)'
  BY DEF VerdictBacked, Shown, OffersOn
<1>2. /\ page'[d] = page[d] /\ ~Crash(d)
      /\ \/ verdict[d] \in Shown
         \/ IsAccepted(d, page[d]) /\ UNCHANGED <<notifs, outbox>>
  BY <1>1, VerdictKept
<1>3. Backed(d, page[d])
  BY <1>2, AcceptedIsBacked DEF VerdictBacked, Shown, Backed
<1>4. PICK o \in OffersOn(page[d]) :
        Told("accepted", o) \/ Notify("accepted", o) \in Pending(d)
  BY <1>3 DEF Backed
<1> DEFINE n == [status |-> "accepted", about |-> o]
<1>5. n \in Notif /\ Notify("accepted", o) = [op |-> "notify", note |-> n]
  BY DEF Notif, Notify, OffersOn
<1>6. CASE Told("accepted", o)
  <2>1. notifs[n] \in Nat /\ notifs[n] > 0
    BY <1>5, <1>6 DEF Told, TypeOK
  <2>2. notifs'[n] \in Nat /\ notifs'[n] >= notifs[n]
    BY <1>5, NotifsGrow
  <2>3. notifs'[n] > 0
    <3> HIDE DEF n
    <3> QED
      BY <2>1, <2>2
  <2>4. QED
    BY <1>2, <2>3 DEF Told
<1>7. CASE Notify("accepted", o) \in Pending(d)
  <2>1. CASE Notify("accepted", o) \in Pending(d)'
    BY <1>2, <2>1
  <2>2. CASE Flush(d) /\ Notify("accepted", o) = Head(outbox[d])
    BY <1>2, <1>5, <2>2, NotifsGrow DEF Told
  <2>3. QED
    BY <1>2, <1>7, <2>1, <2>2, PendingKept
<1>8. QED
  BY <1>4, <1>6, <1>7

\* Whenever a screen says that its task is accepted, an "accepted" document of
\* the task is stored or queued on that device.
THEOREM VerdictsAreTrue == Spec => []VerdictBacked
<1>1. Init => VerdictBacked
  BY DEF Init, VerdictBacked
<1>2. TypeOK /\ Captured /\ VerdictBacked /\ [Next]_vars => VerdictBacked'
  BY VerdictStep
<1>3. QED
  BY <1>1, <1>2, TypeCorrect, PTL DEF Spec

-----------------------------------------------------------------------------
(* One offer per provider, if no account is on two devices.                *)

\* Where a queued write comes from.
LEMMA PendingFrom ==
  ASSUME TypeOK, Captured, [Next]_vars, NEW d \in Devices, NEW w \in Pending(d)'
  PROVE  \/ w \in Pending(d)
         \/ w.op \in {"post", "notify"}
         \/ \E o \in Offers : AddOffer(d, o) /\ w = PutOffer(o)
         \/ \E s \in Slots, o \in Offers :
              /\ LoopStep(d, s, o) /\ o # handler[d][s].offer
              /\ w = DeleteOffer(o, NoSlot)
         \/ \E s \in Slots : RejectYes(d, s) /\ w = DeleteOffer(dialog[d].offer, s)
<1>1. ASSUME NEW e \in Devices, NEW ws \in Seq(Write), Queue(e, ws)
      PROVE  w \in Pending(d) \/ (e = d /\ \E i \in 1..Len(ws) : w = ws[i])
  BY <1>1, QueuePending
<1>2. ASSUME NEW e \in Devices, NEW t \in Tasks, SendNewTask(e, t)
      PROVE  w \in Pending(d) \/ w.op = "post"
  <2>1. Queue(e, <<PostTask(t)>>) /\ <<PostTask(t)>> \in Seq(Write)
    BY <1>2, HandlerWrites DEF SendNewTask
  <2>2. \A i \in 1..Len(<<PostTask(t)>>) : <<PostTask(t)>>[i].op = "post"
    BY DEF PostTask
  <2>3. QED
    BY <1>1, <2>1, <2>2
<1>3. ASSUME NEW e \in Devices, NEW o \in Offers, AddOffer(e, o)
      PROVE  w \in Pending(d) \/ w.op = "notify" \/ (AddOffer(d, o) /\ w = PutOffer(o))
  <2>1. Queue(e, OfferWrites(o)) /\ OfferWrites(o) \in Seq(Write)
    BY <1>3, HandlerWrites DEF AddOffer
  <2>2. \A i \in 1..Len(OfferWrites(o)) :
          OfferWrites(o)[i] = PutOffer(o) \/ OfferWrites(o)[i].op = "notify"
    BY DEF OfferWrites, Notify
  <2>3. QED
    BY <1>1, <1>3, <2>1, <2>2
<1>4. ASSUME NEW e \in Devices, NEW s \in Slots, NEW o \in Offers, LoopStep(e, s, o)
      PROVE  \/ w \in Pending(d) \/ w.op = "notify"
             \/ /\ LoopStep(d, s, o) /\ o # handler[d][s].offer
                /\ w = DeleteOffer(o, NoSlot)
  <2> DEFINE ws == LoopWrites(handler[e][s].offer, o)
  <2>1. Queue(e, ws) /\ ws \in Seq(Write)
    BY <1>4, HandlerWrites DEF LoopStep
  <2>2. \A i \in 1..Len(ws) :
          \/ o # handler[e][s].offer /\ ws[i] = DeleteOffer(o, NoSlot)
          \/ ws[i].op = "notify"
    BY DEF LoopWrites, Notify
  <2>3. QED
    BY <1>1, <1>4, <2>1, <2>2
<1>5. ASSUME NEW e \in Devices, NEW s \in Slots, RejectYes(e, s)
      PROVE  w \in Pending(d) \/ (RejectYes(d, s) /\ w = DeleteOffer(dialog[d].offer, s))
  <2> DEFINE ws == <<DeleteOffer(dialog[e].offer, s)>>
  <2>1. Queue(e, ws) /\ ws \in Seq(Write)
    BY <1>5, HandlerWrites DEF RejectYes
  <2>2. \A i \in 1..Len(ws) : ws[i] = DeleteOffer(dialog[e].offer, s)
    OBVIOUS
  <2>3. QED
    BY <1>1, <1>5, <2>1, <2>2
<1>6. ASSUME NEW e \in Devices, NEW s \in Slots, RejectNotify(e, s)
      PROVE  w \in Pending(d) \/ w.op = "notify"
  <2> DEFINE ws == RejectWrites(handler[e][s].offer)
  <2>1. Queue(e, ws) /\ ws \in Seq(Write)
    BY <1>6, HandlerWrites DEF RejectNotify
  <2>2. \A i \in 1..Len(ws) : ws[i].op = "notify"
    BY DEF RejectWrites, Notify
  <2>3. QED
    BY <1>1, <2>1, <2>2
<1>7. ASSUME NEW e \in Devices, Flush(e) PROVE w \in Pending(d)
  BY <1>7, DequeuePending DEF Flush
<1>8. ASSUME NEW e \in Devices, Crash(e) PROVE w \in Pending(d)
  BY <1>8, CrashPending
<1>9. ASSUME UNCHANGED outbox PROVE w \in Pending(d)
  BY <1>9 DEF Pending
<1>10. QED
  BY <1>2, <1>3, <1>4, <1>5, <1>6, <1>7, <1>8, <1>9, StepKinds

\* Where the offers an accept handler works through come from.
LEMMA DocsFrom ==
  ASSUME TypeOK, [Next]_vars, NEW d \in Devices, NEW s \in Slots
  PROVE  \/ handler'[d][s].docs \subseteq handler[d][s].docs
         \/ /\ handler[d][s].stage = "getting"
            /\ handler'[d][s].docs = ViewOffers(d, TaskOf[handler[d][s].offer])
<1> DEFINE Fewer == handler'[d][s].docs \subseteq handler[d][s].docs
<1> USE DEF server, screen, history
<1>1. \A e \in Devices, r \in Slots : handler[e][r] \in Handler
  BY DEF TypeOK
<1>2. ASSUME NEW e \in Devices,
             \/ \E t \in Tasks : SendNewTask(e, t) \/ OpenDetail(e, t)
             \/ LookupDone(e) \/ FetchDetails(e) \/ PressOffer(e) \/ HasOfferedDone(e)
             \/ \E o \in Offers : AddOffer(e, o)
             \/ CloseDialog(e)
             \/ \E o \in Offers, kind \in {"accept", "reject"} : PressAnswer(e, o, kind)
      PROVE  Fewer
  BY <1>2 DEF SendNewTask, OpenDetail, LookupDone, FetchDetails, PressOffer,
              HasOfferedDone, AddOffer, CloseDialog, PressAnswer
<1>3. ASSUME NEW e \in Devices, NEW hs, handler' = [handler EXCEPT ![e] = hs],
             \A r \in Slots : hs[r].docs \subseteq handler[e][r].docs
      PROVE  Fewer
  BY <1>3 DEF TypeOK
<1>4. ASSUME NEW e \in Devices, Back(e) \/ Rebuild(e) \/ CancelReject(e) PROVE Fewer
  BY <1>3, <1>4, UnmountedFields DEF Back, Rebuild, CancelReject
<1>5. ASSUME NEW e \in Devices, NEW r \in Slots, TellOk(e, r) PROVE Fewer
  <2> DEFINE hs == [Unmounted(e) EXCEPT ![r] = IdleHandler]
  <2>1. \A q \in Slots : hs[q] = IF q = r THEN IdleHandler ELSE Unmounted(e)[q]
    BY DEF Unmounted
  <2>2. \A q \in Slots : hs[q].docs \subseteq handler[e][q].docs
    BY <2>1, UnmountedFields DEF IdleHandler
  <2>3. QED
    BY <1>3, <1>5, <2>2 DEF TellOk
<1>6. ASSUME NEW e \in Devices, NEW r \in Slots, NEW h,
             handler' = [handler EXCEPT ![e][r] = h], h.docs \subseteq handler[e][r].docs
      PROVE  Fewer
  <2>1. handler'[d][s] = IF e = d /\ r = s THEN h ELSE handler[d][s]
    BY <1>6 DEF TypeOK
  <2>2. QED
    BY <1>6, <2>1
<1>7. ASSUME NEW e \in Devices, NEW r \in Slots,
             AcceptYes(e, r) \/ RejectYes(e, r) \/ RejectNotify(e, r)
      PROVE  Fewer
  <2> DEFINE new(stage) == [stage |-> stage, offer |-> dialog[e].offer,
                            docs |-> {}, mounted |-> dialog[e].mounted]
  <2>1. \/ handler' = [handler EXCEPT ![e][r] = new("getting")]
        \/ handler' = [handler EXCEPT ![e][r] = new("deleting")]
        \/ handler' = [handler EXCEPT ![e][r] = IdleHandler]
    BY <1>7 DEF AcceptYes, RejectYes, Confirm, RejectNotify
  <2>2. /\ new("getting").docs = {} /\ new("deleting").docs = {}
        /\ IdleHandler.docs = {}
    BY DEF IdleHandler
  <2>3. QED
    <3> HIDE DEF new
    <3> QED
      BY <1>6, <2>1, <2>2
<1>8. ASSUME NEW e \in Devices, NEW r \in Slots,
             AcceptResume(e, r) \/ LoopEnd(e, r) \/ \E o \in Offers : LoopStep(e, r, o)
      PROVE  Fewer
  <2>1. /\ DOMAIN handler = Devices /\ DOMAIN handler[e] = Slots
        /\ \A st : [handler[e][r] EXCEPT !.stage = st].docs = handler[e][r].docs
        /\ \A ds : [handler[e][r] EXCEPT !.docs = ds].docs = ds
    BY <1>1 DEF TypeOK, Handler
  <2>2. CASE AcceptResume(e, r)
    BY <1>6, <2>1, <2>2 DEF AcceptResume
  <2>3. CASE LoopEnd(e, r)
    <3>1. \/ handler' = [handler EXCEPT ![e][r] = [handler[e][r] EXCEPT !.stage = "told"]]
          \/ handler' = [handler EXCEPT ![e][r] = IdleHandler]
      BY <2>1, <2>3 DEF LoopEnd
    <3>2. /\ [handler[e][r] EXCEPT !.stage = "told"].docs = handler[e][r].docs
          /\ IdleHandler.docs = {}
      BY <2>1 DEF IdleHandler
    <3>3. CASE handler' = [handler EXCEPT ![e][r] = IdleHandler]
      BY <1>6, <3>2, <3>3
    <3>4. CASE handler' = [handler EXCEPT ![e][r] = [handler[e][r] EXCEPT !.stage = "told"]]
      BY <1>6, <3>2, <3>4
    <3>5. QED
      BY <3>1, <3>3, <3>4
  <2>4. ASSUME NEW o \in Offers, LoopStep(e, r, o) PROVE Fewer
    <3>1. handler' = [handler EXCEPT ![e][r] =
                        [handler[e][r] EXCEPT !.docs = handler[e][r].docs \ {o}]]
      BY <2>1, <2>4 DEF LoopStep
    <3>2. QED
      BY <1>6, <2>1, <3>1
  <2>5. QED
    BY <1>8, <2>2, <2>3, <2>4
<1>9. ASSUME NEW e \in Devices, NEW r \in Slots, AcceptGet(e, r)
      PROVE  \/ Fewer
             \/ /\ handler[d][s].stage = "getting"
                /\ handler'[d][s].docs = ViewOffers(d, TaskOf[handler[d][s].offer])
  <2> DEFINE h == [[handler[e][r] EXCEPT !.stage = "fetched"]
                     EXCEPT !.docs = ViewOffers(e, TaskOf[handler[e][r].offer])]
  <2>1. handler' = [handler EXCEPT ![e][r] = h] /\ handler[e][r].stage = "getting"
    BY <1>1, <1>9 DEF AcceptGet, TypeOK, Handler
  <2>2. h.docs = ViewOffers(e, TaskOf[handler[e][r].offer])
    BY <1>1 DEF Handler
  <2>3. handler'[d][s] = IF e = d /\ r = s THEN h ELSE handler[d][s]
    <3> HIDE DEF h
    <3> QED
      BY <2>1 DEF TypeOK
  <2>4. QED
    <3> HIDE DEF h
    <3> QED
      BY <2>1, <2>2, <2>3
<1>10. ASSUME NEW e \in Devices, Flush(e) PROVE Fewer
  BY <1>1, <1>10 DEF Flush, TypeOK, Handler
<1>11. ASSUME NEW e \in Devices, Crash(e) PROVE Fewer
  BY <1>11 DEF Crash, IdleHandler, TypeOK
<1>12. CASE UNCHANGED vars
  BY <1>12 DEF vars
<1>13. QED
  BY <1>2, <1>4, <1>5, <1>7, <1>8, <1>9, <1>10, <1>11, <1>12 DEF Next

\* Devices queue offers of their users and deletes on tasks of their users.
LEMMA OwnWritesStep ==
  ASSUME TypeOK, Captured, Causal, OwnWrites, [Next]_vars
  PROVE  OwnWrites'
<1>1. ASSUME NEW d \in Devices, NEW o \in Offers, PutOffer(o) \in Pending(d)'
      PROVE  ProviderOf[o] = UserOf[d]
  <2>1. ASSUME NEW x \in Offers, AddOffer(d, x), PutOffer(o) = PutOffer(x)
        PROVE  ProviderOf[o] = UserOf[d]
    BY <2>1 DEF AddOffer, PutOffer
  <2>2. PutOffer(o) \in Pending(d) => ProviderOf[o] = UserOf[d]
    BY DEF OwnWrites
  <2>3. /\ PutOffer(o).op \notin {"post", "notify"}
        /\ \A x, by : PutOffer(o) # DeleteOffer(x, by)
    BY DEF PutOffer, DeleteOffer
  <2>4. QED
    BY <1>1, <2>1, <2>2, <2>3, PendingFrom
<1>2. ASSUME NEW d \in Devices, NEW o \in Offers, NEW by \in Slots \cup {NoSlot},
             DeleteOffer(o, by) \in Pending(d)'
      PROVE  AuthorOf[TaskOf[o]] = UserOf[d]
  <2>1. ASSUME NEW s \in Slots, NEW x \in Offers, LoopStep(d, s, x),
               DeleteOffer(o, by) = DeleteOffer(x, NoSlot)
        PROVE  AuthorOf[TaskOf[o]] = UserOf[d]
    BY <2>1 DEF LoopStep, DeleteOffer, OwnWrites
  <2>2. ASSUME NEW s \in Slots, RejectYes(d, s),
               DeleteOffer(o, by) = DeleteOffer(dialog[d].offer, s)
        PROVE  AuthorOf[TaskOf[o]] = UserOf[d]
    BY <2>2 DEF RejectYes, Confirm, DeleteOffer, Causal
  <2>3. DeleteOffer(o, by) \in Pending(d) => AuthorOf[TaskOf[o]] = UserOf[d]
    BY DEF OwnWrites
  <2>4. /\ DeleteOffer(o, by).op \notin {"post", "notify"}
        /\ \A x : DeleteOffer(o, by) # PutOffer(x)
    BY DEF PutOffer, DeleteOffer
  <2>5. QED
    BY <1>2, <2>1, <2>2, <2>3, <2>4, PendingFrom
<1>3. ASSUME NEW d \in Devices, NEW s \in Slots, NEW o \in handler'[d][s].docs
      PROVE  AuthorOf[TaskOf[o]] = UserOf[d]
  <2>1. CASE handler'[d][s].docs \subseteq handler[d][s].docs
    BY <2>1 DEF OwnWrites
  <2>2. CASE /\ handler[d][s].stage = "getting"
             /\ handler'[d][s].docs = ViewOffers(d, TaskOf[handler[d][s].offer])
    BY <2>2 DEF Causal, ViewOffers
  <2>3. QED
    BY <2>1, <2>2, DocsFrom
<1>4. QED
  BY <1>1, <1>2, <1>3 DEF OwnWrites

\* Where an open price form comes from.
LEMMA FormFrom ==
  ASSUME TypeOK, [Next]_vars, NEW d \in Devices, dialog'[d].kind = "price"
  PROVE  /\ page'[d] = page[d]
         /\ \/ dialog[d].kind = "price" /\ \A o \in Offers : ~AddOffer(d, o)
            \/ HasOfferedDone(d) /\ HasOffered(d, page[d])
<1> DEFINE Goal == /\ page'[d] = page[d]
                   /\ \/ dialog[d].kind = "price" /\ \A o \in Offers : ~AddOffer(d, o)
                      \/ HasOfferedDone(d) /\ HasOffered(d, page[d])
<1> USE DEF server, screen, history
<1>1. \A o \in Offers : ~AddOffer(d, o)
  BY DEF AddOffer, NoDialog, TypeOK
<1>2. ASSUME page'[d] = page[d], dialog'[d].kind = dialog[d].kind PROVE Goal
  BY <1>1, <1>2
<1>3. ASSUME NEW e \in Devices,
             \/ \E t \in Tasks : SendNewTask(e, t)
             \/ LookupDone(e) \/ FetchDetails(e) \/ PressOffer(e) \/ Flush(e)
      PROVE  UNCHANGED <<page, dialog>>
  BY <1>3 DEF SendNewTask, LookupDone, FetchDetails, PressOffer, Flush
<1>4. ASSUME NEW e \in Devices, NEW s \in Slots,
             \/ AcceptGet(e, s) \/ AcceptResume(e, s)
             \/ \E o \in Offers : LoopStep(e, s, o)
             \/ LoopEnd(e, s) \/ RejectNotify(e, s)
      PROVE  UNCHANGED <<page, dialog>>
  BY <1>4 DEF AcceptGet, AcceptResume, LoopStep, LoopEnd, RejectNotify
<1>5. ASSUME NEW e \in Devices, UNCHANGED page, NEW x, x.kind # "price",
             dialog' = [dialog EXCEPT ![e] = x]
      PROVE  Goal
  BY <1>1, <1>5 DEF TypeOK
<1>6. NoDialog.kind # "price"
  BY DEF NoDialog
<1>7. ASSUME NEW e \in Devices,
             \/ \E o \in Offers : AddOffer(e, o)
             \/ CloseDialog(e) \/ CancelReject(e)
             \/ \E s \in Slots : AcceptYes(e, s) \/ RejectYes(e, s)
      PROVE  Goal
  BY <1>5, <1>6, <1>7 DEF AddOffer, CloseDialog, CancelReject, AcceptYes, RejectYes, Confirm
<1>8. ASSUME NEW e \in Devices, NEW o \in Offers, NEW kind \in {"accept", "reject"},
             PressAnswer(e, o, kind)
      PROVE  Goal
  <2>1. [kind |-> kind, offer |-> o, mounted |-> kind = "accept"].kind # "price"
    OBVIOUS
  <2>2. QED
    BY <1>5, <1>8, <2>1 DEF PressAnswer
<1>9. ASSUME NEW e \in Devices, (\E t \in Tasks : OpenDetail(e, t)) \/ Back(e)
      PROVE  Goal
  BY <1>1, <1>9 DEF OpenDetail, Back, CanTouch, TypeOK
<1>10. ASSUME NEW e \in Devices, Rebuild(e) \/ \E s \in Slots : TellOk(e, s) PROVE Goal
  <2>1. UNCHANGED page /\ dialog' = [dialog EXCEPT ![e].mounted = FALSE]
    BY <1>10 DEF Rebuild, TellOk
  <2>2. dialog'[d].kind = dialog[d].kind
    BY <2>1 DEF TypeOK, Dialog
  <2>3. QED
    BY <1>2, <2>1, <2>2
<1>11. ASSUME NEW e \in Devices, HasOfferedDone(e) PROVE Goal
  <2>1. CASE e = d
    BY <1>1, <1>11, <2>1 DEF HasOfferedDone, TypeOK
  <2>2. CASE e # d
    BY <1>2, <1>11, <2>2 DEF HasOfferedDone, TypeOK
  <2>3. QED
    BY <2>1, <2>2
<1>12. ASSUME NEW e \in Devices, Crash(e) PROVE Goal
  BY <1>1, <1>6, <1>12 DEF Crash, RestartScreen, TypeOK
<1>13. CASE UNCHANGED vars
  BY <1>2, <1>13 DEF vars
<1>14. QED
  BY <1>2, <1>3, <1>4, <1>7, <1>8, <1>9, <1>10, <1>11, <1>12, <1>13 DEF Next

\* Only an add makes an offer held.
LEMMA HeldFrom ==
  ASSUME TypeOK, Captured, [Next]_vars, NEW o \in Offers, Held(o)'
  PROVE  Held(o) \/ \E d \in Devices : AddOffer(d, o)
<1>1. CASE o \in offers' /\ o \notin offers
  <2>1. PICK d \in Devices : Flush(d)
    BY <1>1, StepEffects DEF AddOffer, Crash, server
  <2>2. Head(outbox[d]) \in Pending(d) /\ Head(outbox[d]) \in Write
    BY <2>1, HeadPending
  <2>3. Head(outbox[d]).op = "offer" /\ Head(outbox[d]).offer = o
    BY <1>1, <2>1 DEF Flush
  <2>4. Head(outbox[d]) = PutOffer(o)
    BY <2>2, <2>3 DEF Write, PostTask, PutOffer, DeleteOffer, Notify
  <2>5. QED
    BY <2>2, <2>4 DEF Held
<1>2. ASSUME NEW d \in Devices, PutOffer(o) \in Pending(d)'
      PROVE  Held(o) \/ AddOffer(d, o)
  <2>1. /\ PutOffer(o).op \notin {"post", "notify"}
        /\ \A x, by : PutOffer(o) # DeleteOffer(x, by)
        /\ \A x : PutOffer(o) = PutOffer(x) => o = x
    BY DEF PutOffer, DeleteOffer
  <2>2. PutOffer(o) \in Pending(d) \/ AddOffer(d, o)
    BY <1>2, <2>1, PendingFrom
  <2>3. QED
    BY <2>2 DEF Held
<1>3. QED
  BY <1>1, <1>2 DEF Held

\* The check before the price form is as good as the add after it.
LEMMA OneOfferStep ==
  ASSUME OneDevicePerAccount, TypeOK, Captured, Causal, OwnWrites,
         FormIsFresh, OneOfferPerProvider, [Next]_vars
  PROVE  FormIsFresh' /\ OneOfferPerProvider'
<1>1. ASSUME NEW d \in Devices, NEW o \in Offers, AddOffer(d, o)
      PROVE  /\ ProviderOf[o] = UserOf[d] /\ TaskOf[o] = page[d]
             /\ dialog[d].kind = "price" /\ UNCHANGED page
             /\ \A x \in Offers \ {o} : Held(x)' => Held(x)
  <2>1. /\ ProviderOf[o] = UserOf[d] /\ TaskOf[o] = page[d]
        /\ dialog[d].kind = "price" /\ UNCHANGED page /\ made' = made \cup {o} /\ o \notin made
    BY <1>1 DEF AddOffer
  <2>2. ASSUME NEW x \in Offers \ {o}, NEW e \in Devices, AddOffer(e, x) PROVE FALSE
    BY <2>1, <2>2 DEF AddOffer
  <2>3. QED
    BY <2>1, <2>2, HeldFrom
<1>2. ASSUME NEW d \in Devices, dialog'[d].kind = "price",
             NEW o \in Offers, TaskOf[o] = page'[d], ProviderOf[o] = UserOf[d], Held(o)'
      PROVE  FALSE
  <2>1. page'[d] = page[d]
    BY <1>2, FormFrom
  <2>2. Held(o)
    <3>1. ASSUME NEW e \in Devices, AddOffer(e, o) PROVE FALSE
      <4>1. e = d
        BY <1>1, <1>2, <3>1 DEF OneDevicePerAccount
      <4>2. dialog'[d].kind = "none"
        BY <3>1, <4>1 DEF AddOffer, NoDialog, TypeOK
      <4>3. QED
        BY <1>2, <4>2
    <3>2. QED
      BY <1>2, <3>1, HeldFrom
  <2>3. CASE dialog[d].kind = "price"
    BY <1>2, <2>1, <2>2, <2>3 DEF FormIsFresh, OffersOn
  <2>4. CASE HasOfferedDone(d) /\ HasOffered(d, page[d])
    <3>1. o \in offers \/ PutOffer(o) \in Pending(d)
      BY <1>2, <2>2 DEF Held, OwnWrites, OneDevicePerAccount
    <3>2. AuthorOf[page[d]] # UserOf[d]
      BY <2>4 DEF HasOfferedDone, Causal, IsAuthor
    <3>3. \A by \in Slots \cup {NoSlot} : DeleteOffer(o, by) \notin Pending(d)
      BY <1>2, <2>1, <3>2 DEF OwnWrites
    <3>4. o \in ViewOffers(d, page[d])
      BY <1>2, <2>1, <3>1, <3>3 DEF ViewOffers
    <3>5. QED
      BY <1>2, <2>4, <3>4 DEF HasOffered
  <2>5. QED
    BY <1>2, <2>3, <2>4, FormFrom
<1>3. ASSUME NEW x \in Offers, NEW y \in Offers, x # y, TaskOf[x] = TaskOf[y],
             ProviderOf[x] = ProviderOf[y], Held(x)', Held(y)'
      PROVE  FALSE
  <2>1. ASSUME NEW d \in Devices, NEW o \in Offers, NEW z \in Offers, o # z,
               AddOffer(d, o), Held(z)', TaskOf[o] = TaskOf[z], ProviderOf[o] = ProviderOf[z]
        PROVE  FALSE
    <3>1. Held(z)
      BY <1>1, <2>1
    <3>2. QED
      BY <1>1, <2>1, <3>1 DEF FormIsFresh, OffersOn
  <2>2. Held(x) /\ Held(y)
    BY <1>3, <2>1, HeldFrom
  <2>3. QED
    BY <1>3, <2>2 DEF OneOfferPerProvider
<1>4. FormIsFresh'
  BY <1>2 DEF FormIsFresh, OffersOn
<1>5. OneOfferPerProvider'
  BY <1>3 DEF OneOfferPerProvider
<1>6. QED
  BY <1>4, <1>5

\* If every account is signed in on at most one device, a provider never holds
\* two offers on one task, stored or queued, however slow the network is.
THEOREM OneOfferEach == OneDevicePerAccount /\ Spec => []OneOfferPerProvider
<1> DEFINE Inv == OwnWrites /\ FormIsFresh /\ OneOfferPerProvider
<1>1. Init => Inv
  <2> SUFFICES ASSUME Init PROVE Inv
    OBVIOUS
  <2>1. \A d \in Devices : Pending(d) = {}
    BY DEF Init, Pending
  <2>2. \A o \in Offers : ~Held(o)
    BY <2>1 DEF Init, Held
  <2>3. QED
    BY <2>1, <2>2 DEF Init, OwnWrites, FormIsFresh, OneOfferPerProvider, NoDialog, IdleHandler
<1>2. OneDevicePerAccount /\ TypeOK /\ Captured /\ Causal /\ Inv /\ [Next]_vars => Inv'
  BY OwnWritesStep, OneOfferStep
<1>3. Spec => []Causal
  BY CausalHolds, PTL
<1>4. OneDevicePerAccount => []OneDevicePerAccount
  OBVIOUS
<1>5. QED
  BY <1>1, <1>2, <1>3, <1>4, TypeCorrect, PTL DEF Spec

-----------------------------------------------------------------------------
(* A lone accept stands.                                                   *)

Rejecting == {"deleting", "acked"}

\* Only a confirmed dialog starts a handler.
LEMMA HandlerFrom ==
  ASSUME TypeOK, [Next]_vars, NEW d \in Devices, NEW s \in Slots,
         handler'[d][s].stage # "idle"
  PROVE  \/ AcceptYes(d, s) \/ RejectYes(d, s)
         \/ /\ handler[d][s].stage # "idle"
            /\ handler'[d][s].offer = handler[d][s].offer
            /\ handler'[d][s].stage \in Rejecting <=> handler[d][s].stage \in Rejecting
<1> DEFINE Goes(h) == /\ handler[d][s].stage # "idle"
                      /\ h.offer = handler[d][s].offer
                      /\ h.stage \in Rejecting <=> handler[d][s].stage \in Rejecting
           Goal == AcceptYes(d, s) \/ RejectYes(d, s) \/ Goes(handler'[d][s])
<1> USE DEF server, screen, history
<1>1. \A e \in Devices, r \in Slots : handler[e][r] \in Handler
  BY DEF TypeOK
<1>2. ASSUME handler'[d][s] = handler[d][s] PROVE Goal
  BY <1>2
<1>3. ASSUME NEW e \in Devices,
             \/ \E t \in Tasks : SendNewTask(e, t) \/ OpenDetail(e, t)
             \/ LookupDone(e) \/ FetchDetails(e) \/ PressOffer(e) \/ HasOfferedDone(e)
             \/ \E o \in Offers : AddOffer(e, o)
             \/ CloseDialog(e)
             \/ \E o \in Offers, kind \in {"accept", "reject"} : PressAnswer(e, o, kind)
      PROVE  UNCHANGED handler
  BY <1>3 DEF SendNewTask, OpenDetail, LookupDone, FetchDetails, PressOffer,
              HasOfferedDone, AddOffer, CloseDialog, PressAnswer
<1>4. ASSUME NEW e \in Devices, NEW hs, handler' = [handler EXCEPT ![e] = hs],
             \A r \in Slots : \/ hs[r].stage = "idle"
                              \/ /\ hs[r].stage = handler[e][r].stage
                                 /\ hs[r].offer = handler[e][r].offer
      PROVE  Goal
  <2>1. handler'[d] = IF e = d THEN hs ELSE handler[d]
    BY <1>4 DEF TypeOK
  <2>2. QED
    BY <1>2, <1>4, <2>1
<1>5. ASSUME NEW e \in Devices, Back(e) \/ Rebuild(e) \/ CancelReject(e) PROVE Goal
  BY <1>4, <1>5, UnmountedFields DEF Back, Rebuild, CancelReject
<1>6. ASSUME NEW e \in Devices, NEW r \in Slots, TellOk(e, r) PROVE Goal
  <2> DEFINE hs == [Unmounted(e) EXCEPT ![r] = IdleHandler]
  <2>1. \A q \in Slots : hs[q] = IF q = r THEN IdleHandler ELSE Unmounted(e)[q]
    BY DEF Unmounted
  <2>2. \A q \in Slots : \/ hs[q].stage = "idle"
                         \/ /\ hs[q].stage = handler[e][q].stage
                            /\ hs[q].offer = handler[e][q].offer
    BY <2>1, UnmountedFields DEF IdleHandler
  <2>3. QED
    BY <1>4, <1>6, <2>2 DEF TellOk
<1>7. ASSUME NEW e \in Devices, NEW r \in Slots, NEW h,
             handler' = [handler EXCEPT ![e][r] = h],
             e = d /\ r = s => h.stage = "idle" \/ Goes(h)
      PROVE  Goal
  <2>1. handler'[d][s] = IF e = d /\ r = s THEN h ELSE handler[d][s]
    BY <1>7 DEF TypeOK
  <2>2. QED
    BY <1>2, <1>7, <2>1
<1>8. ASSUME NEW e \in Devices, NEW r \in Slots, AcceptYes(e, r) \/ RejectYes(e, r)
      PROVE  Goal
  <2>1. CASE e = d /\ r = s
    BY <1>8, <2>1
  <2>2. CASE ~(e = d /\ r = s)
    <3>1. handler'[d][s] = handler[d][s]
      BY <1>8, <2>2 DEF AcceptYes, RejectYes, Confirm, TypeOK
    <3>2. QED
      BY <1>2, <3>1
  <2>3. QED
    BY <2>1, <2>2
<1>9. ASSUME NEW e \in Devices, NEW r \in Slots, AcceptGet(e, r) PROVE Goal
  <2> DEFINE h == [[handler[e][r] EXCEPT !.stage = "fetched"]
                     EXCEPT !.docs = ViewOffers(e, TaskOf[handler[e][r].offer])]
  <2>1. handler' = [handler EXCEPT ![e][r] = h] /\ handler[e][r].stage = "getting"
    BY <1>1, <1>9 DEF AcceptGet, TypeOK, Handler
  <2>2. h.stage = "fetched" /\ h.offer = handler[e][r].offer
    BY <1>1 DEF Handler
  <2>3. e = d /\ r = s => Goes(h)
    BY <2>1, <2>2 DEF Rejecting
  <2>4. QED
    <3> HIDE DEF h
    <3> QED
      BY <1>7, <2>1, <2>3
<1>10. ASSUME NEW e \in Devices, NEW r \in Slots,
              AcceptResume(e, r) \/ LoopEnd(e, r) \/ RejectNotify(e, r)
       PROVE  Goal
  <2> DEFINE to(stage) == [handler[e][r] EXCEPT !.stage = stage]
  <2>1. /\ DOMAIN handler = Devices /\ DOMAIN handler[e] = Slots
        /\ to("looping").stage = "looping" /\ to("told").stage = "told"
        /\ to("looping").offer = handler[e][r].offer
        /\ to("told").offer = handler[e][r].offer
    BY <1>1 DEF TypeOK, Handler
  <2>2. CASE AcceptResume(e, r)
    <3>1. handler' = [handler EXCEPT ![e][r] = to("looping")]
          /\ handler[e][r].stage = "fetched"
      BY <2>1, <2>2 DEF AcceptResume
    <3>2. e = d /\ r = s => Goes(to("looping"))
      BY <2>1, <3>1 DEF Rejecting
    <3>3. QED
      BY <1>7, <3>1, <3>2
  <2>3. CASE LoopEnd(e, r) /\ handler' = [handler EXCEPT ![e][r] = to("told")]
    <3>1. e = d /\ r = s => Goes(to("told"))
      BY <2>1, <2>3 DEF LoopEnd, Rejecting
    <3>2. QED
      BY <1>7, <2>3, <3>1
  <2>4. CASE handler' = [handler EXCEPT ![e][r] = IdleHandler]
    BY <1>7, <2>4 DEF IdleHandler
  <2>5. QED
    BY <1>10, <2>1, <2>2, <2>3, <2>4 DEF LoopEnd, RejectNotify
<1>11. ASSUME NEW e \in Devices, NEW r \in Slots, NEW o \in Offers, LoopStep(e, r, o)
       PROVE  Goal
  <2> DEFINE h == [handler[e][r] EXCEPT !.docs = handler[e][r].docs \ {o}]
  <2>1. handler' = [handler EXCEPT ![e][r] = h] /\ handler[e][r].stage = "looping"
    BY <1>1, <1>11 DEF LoopStep, TypeOK, Handler
  <2>2. h.stage = handler[e][r].stage /\ h.offer = handler[e][r].offer
    BY <1>1 DEF Handler
  <2>3. e = d /\ r = s => Goes(h)
    BY <2>1, <2>2
  <2>4. QED
    <3> HIDE DEF h
    <3> QED
      BY <1>7, <2>1, <2>3
<1>12. ASSUME NEW e \in Devices, Flush(e) PROVE Goal
  <2>1. \/ handler'[d][s] = handler[d][s]
        \/ /\ handler[d][s].stage = "deleting"
           /\ handler'[d][s] = [handler[d][s] EXCEPT !.stage = "acked"]
    BY <1>12 DEF Flush, TypeOK
  <2>2. [handler[d][s] EXCEPT !.stage = "acked"].stage = "acked"
        /\ [handler[d][s] EXCEPT !.stage = "acked"].offer = handler[d][s].offer
    BY <1>1 DEF Handler
  <2>3. QED
    BY <1>2, <2>1, <2>2 DEF Rejecting
<1>13. ASSUME NEW e \in Devices, Crash(e) PROVE Goal
  BY <1>2, <1>13 DEF Crash, IdleHandler, TypeOK
<1>14. CASE UNCHANGED vars
  BY <1>2, <1>14 DEF vars
<1>15. QED
  BY <1>2, <1>3, <1>5, <1>6, <1>8, <1>9, <1>10, <1>11, <1>12, <1>13, <1>14 DEF Next

\* Where a queued answer comes from.
LEMMA AnswerFrom ==
  ASSUME TypeOK, Captured, [Next]_vars, NEW d \in Devices, NEW o \in Offers,
         NEW st \in {"accepted", "rejected"}, Notify(st, o) \in Pending(d)'
  PROVE  \/ Notify(st, o) \in Pending(d)
         \/ \E s \in Slots :
              /\ LoopStep(d, s, o)
              /\ st = IF o # handler[d][s].offer THEN "rejected" ELSE "accepted"
         \/ \E s \in Slots :
              RejectNotify(d, s) /\ st = "rejected" /\ handler[d][s].offer = o
<1> DEFINE w == Notify(st, o)
<1>1. ASSUME NEW e \in Devices, NEW ws \in Seq(Write), Queue(e, ws)
      PROVE  w \in Pending(d) \/ (e = d /\ \E i \in 1..Len(ws) : w = ws[i])
  BY <1>1, QueuePending
<1>2. ASSUME NEW e \in Devices, NEW t \in Tasks, SendNewTask(e, t) PROVE w \in Pending(d)
  <2>1. Queue(e, <<PostTask(t)>>) /\ <<PostTask(t)>> \in Seq(Write)
    BY <1>2, HandlerWrites DEF SendNewTask
  <2>2. \A i \in 1..Len(<<PostTask(t)>>) : <<PostTask(t)>>[i] # w
    BY DEF PostTask, Notify
  <2>3. QED
    BY <1>1, <2>1, <2>2
<1>3. ASSUME NEW e \in Devices, NEW x \in Offers, AddOffer(e, x) PROVE w \in Pending(d)
  <2>1. Queue(e, OfferWrites(x)) /\ OfferWrites(x) \in Seq(Write)
    BY <1>3, HandlerWrites DEF AddOffer
  <2>2. \A i \in 1..Len(OfferWrites(x)) : OfferWrites(x)[i] # w
    BY DEF OfferWrites, PutOffer, Notify
  <2>3. QED
    BY <1>1, <2>1, <2>2
<1>4. ASSUME NEW e \in Devices, NEW s \in Slots, NEW x \in Offers, LoopStep(e, s, x)
      PROVE  \/ w \in Pending(d)
             \/ /\ e = d /\ x = o
                /\ st = IF o # handler[d][s].offer THEN "rejected" ELSE "accepted"
  <2> DEFINE ws == LoopWrites(handler[e][s].offer, x)
  <2>1. Queue(e, ws) /\ ws \in Seq(Write)
    BY <1>4, HandlerWrites DEF LoopStep
  <2>2. \A i \in 1..Len(ws) : ws[i] = w =>
          x = o /\ st = IF o # handler[e][s].offer THEN "rejected" ELSE "accepted"
    BY DEF LoopWrites, DeleteOffer, Notify
  <2>3. QED
    BY <1>1, <2>1, <2>2
<1>5. ASSUME NEW e \in Devices, NEW s \in Slots, RejectYes(e, s) PROVE w \in Pending(d)
  <2> DEFINE ws == <<DeleteOffer(dialog[e].offer, s)>>
  <2>1. Queue(e, ws) /\ ws \in Seq(Write)
    BY <1>5, HandlerWrites DEF RejectYes
  <2>2. \A i \in 1..Len(ws) : ws[i] # w
    BY DEF DeleteOffer, Notify
  <2>3. QED
    BY <1>1, <2>1, <2>2
<1>6. ASSUME NEW e \in Devices, NEW s \in Slots, RejectNotify(e, s)
      PROVE  w \in Pending(d) \/ (e = d /\ st = "rejected" /\ handler[d][s].offer = o)
  <2> DEFINE ws == RejectWrites(handler[e][s].offer)
  <2>1. Queue(e, ws) /\ ws \in Seq(Write)
    BY <1>6, HandlerWrites DEF RejectNotify
  <2>2. \A i \in 1..Len(ws) : ws[i] = w => st = "rejected" /\ handler[e][s].offer = o
    BY DEF RejectWrites, Notify
  <2>3. QED
    BY <1>1, <2>1, <2>2
<1>7. ASSUME NEW e \in Devices, Flush(e) PROVE w \in Pending(d)
  BY <1>7, DequeuePending DEF Flush
<1>8. ASSUME NEW e \in Devices, Crash(e) PROVE w \in Pending(d)
  BY <1>8, CrashPending
<1>9. ASSUME UNCHANGED outbox PROVE w \in Pending(d)
  BY <1>9 DEF Pending
<1>10. QED
  BY <1>2, <1>3, <1>4, <1>5, <1>6, <1>7, <1>8, <1>9, StepKinds

\* Where a told answer comes from.
LEMMA ToldFrom ==
  ASSUME TypeOK, Captured, [Next]_vars, NEW o \in Offers,
         NEW st \in {"accepted", "rejected"}, Told(st, o)'
  PROVE  Told(st, o) \/ InFlight(st, o)
<1> DEFINE n == [status |-> st, about |-> o]
<1>1. SUFFICES ASSUME ~Told(st, o) PROVE InFlight(st, o)
  OBVIOUS
<1>2. n \in Notif /\ notifs'[n] # notifs[n]
  BY <1>1 DEF Told, Notif
<1>3. PICK d \in Devices : Flush(d)
  BY <1>2, StepEffects DEF AddOffer, Crash, server
<1>4. Head(outbox[d]).op = "notify" /\ Head(outbox[d]).note = n
  BY <1>2, <1>3 DEF Flush, TypeOK
<1>5. Head(outbox[d]) \in Pending(d) /\ Head(outbox[d]) \in Write
  BY <1>3, HeadPending
<1>6. Head(outbox[d]) = Notify(st, o)
  BY <1>4, <1>5 DEF Write, PostTask, PutOffer, DeleteOffer, Notify
<1>7. QED
  BY <1>5, <1>6 DEF InFlight

\* Confirmed answers are counted.
LEMMA AnswersCounted ==
  ASSUME TypeOK, [Next]_vars
  PROVE  /\ answers \in Nat
         /\ \/ /\ answers' = answers
               /\ \A d \in Devices, s \in Slots : ~AcceptYes(d, s) /\ ~RejectYes(d, s)
            \/ /\ answers' = answers + 1
               /\ \E d \in Devices, s \in Slots : AcceptYes(d, s) \/ RejectYes(d, s)
<1> USE DEF server, screen, history
<1>1. answers \in Nat
  BY ConstantsAssumption DEF TypeOK
<1>2. ASSUME NEW d \in Devices, NEW s \in Slots, AcceptYes(d, s) \/ RejectYes(d, s)
      PROVE  answers' = answers + 1
  BY <1>2 DEF AcceptYes, RejectYes, Confirm
<1>3. ASSUME NEW d \in Devices,
             \/ \E t \in Tasks : SendNewTask(d, t) \/ OpenDetail(d, t)
             \/ Back(d) \/ Rebuild(d) \/ LookupDone(d) \/ FetchDetails(d)
             \/ PressOffer(d) \/ HasOfferedDone(d)
             \/ \E o \in Offers : AddOffer(d, o)
             \/ CloseDialog(d)
             \/ \E o \in Offers, kind \in {"accept", "reject"} : PressAnswer(d, o, kind)
             \/ CancelReject(d) \/ Flush(d) \/ Crash(d)
      PROVE  answers' = answers
  BY <1>3 DEF SendNewTask, OpenDetail, Back, Rebuild, LookupDone, FetchDetails, PressOffer,
              HasOfferedDone, AddOffer, CloseDialog, PressAnswer, CancelReject, Flush, Crash
<1>4. ASSUME NEW d \in Devices, NEW s \in Slots,
             \/ AcceptGet(d, s) \/ AcceptResume(d, s)
             \/ \E o \in Offers : LoopStep(d, s, o)
             \/ LoopEnd(d, s) \/ TellOk(d, s) \/ RejectNotify(d, s)
      PROVE  answers' = answers
  BY <1>4 DEF AcceptGet, AcceptResume, LoopStep, LoopEnd, TellOk, RejectNotify
<1>5. ASSUME UNCHANGED vars PROVE answers' = answers
  BY <1>5 DEF vars
<1>6. \/ answers' = answers
      \/ \E d \in Devices, s \in Slots : AcceptYes(d, s) \/ RejectYes(d, s)
  BY <1>3, <1>4, <1>5 DEF Next
<1>7. CASE \E d \in Devices, s \in Slots : AcceptYes(d, s) \/ RejectYes(d, s)
  BY <1>1, <1>2, <1>7
<1>8. CASE ~\E d \in Devices, s \in Slots : AcceptYes(d, s) \/ RejectYes(d, s)
  BY <1>1, <1>6, <1>8
<1>9. QED
  BY <1>7, <1>8

\* The offers are stored as before unless a queued delete is delivered.
LEMMA OfferStays ==
  ASSUME TypeOK, Captured, [Next]_vars, NEW o \in offers,
         \A d \in Devices, by \in Slots \cup {NoSlot} : DeleteOffer(o, by) \notin Pending(d)
  PROVE  o \in offers'
<1>1. SUFFICES ASSUME o \notin offers' PROVE FALSE
  OBVIOUS
<1>2. o \in Offers
  BY DEF TypeOK
<1>3. PICK d \in Devices : Flush(d)
  BY <1>1, StepEffects DEF AddOffer, Crash, server
<1>4. Head(outbox[d]) \in Pending(d) /\ Head(outbox[d]) \in Write
  BY <1>3, HeadPending
<1>5. Head(outbox[d]).op = "delete" /\ Head(outbox[d]).offer = o
  BY <1>1, <1>3 DEF Flush
<1>6. QED
  BY <1>4, <1>5 DEF Write, PostTask, PutOffer, DeleteOffer, Notify

\* Where a queued delete comes from.
LEMMA DeleteFrom ==
  ASSUME TypeOK, Captured, [Next]_vars, NEW d \in Devices, NEW o \in Offers,
         NEW by \in Slots \cup {NoSlot}, DeleteOffer(o, by) \in Pending(d)'
  PROVE  \/ DeleteOffer(o, by) \in Pending(d)
         \/ \E s \in Slots : handler[d][s].stage = "looping" /\ handler[d][s].offer # o
         \/ \E s \in Slots : RejectYes(d, s)
<1>1. /\ DeleteOffer(o, by).op \notin {"post", "notify"}
      /\ \A x : DeleteOffer(o, by) # PutOffer(x)
      /\ \A x, sl : DeleteOffer(o, by) = DeleteOffer(x, sl) => o = x
  BY DEF DeleteOffer, PutOffer
<1>2. \A s \in Slots, x \in Offers : LoopStep(d, s, x) => handler[d][s].stage = "looping"
  BY DEF LoopStep
<1>3. QED
  BY <1>1, <1>2, PendingFrom

\* Until the first answer nothing is answered; then only it has effects.
LEMMA LoneAnswerStep ==
  ASSUME TypeOK, Captured, AnswerHasOffer, LoneAnswer, [Next]_vars
  PROVE  LoneAnswer'
<1> DEFINE Quiet == \A d \in Devices, s \in Slots : ~AcceptYes(d, s) /\ ~RejectYes(d, s)
<1>1. ASSUME Unanswered, Quiet PROVE Unanswered'
  <2>1. ASSUME NEW d \in Devices, NEW s \in Slots PROVE handler'[d][s].stage = "idle"
    BY <1>1, HandlerFrom DEF Unanswered
  <2>2. ASSUME NEW d \in Devices, NEW o \in Offers, NEW by \in Slots \cup {NoSlot}
        PROVE  DeleteOffer(o, by) \notin Pending(d)'
    BY <1>1, DeleteFrom DEF Unanswered
  <2>3. ASSUME NEW st \in {"accepted", "rejected"}, NEW o \in Offers
        PROVE  ~Told(st, o)' /\ ~InFlight(st, o)'
    <3>1. \A d \in Devices : Notify(st, o) \notin Pending(d)'
      BY <1>1, AnswerFrom DEF Unanswered, InFlight, LoopStep, RejectNotify
    <3>2. ~Told(st, o)'
      BY <1>1, ToldFrom DEF Unanswered
    <3>3. QED
      BY <3>1, <3>2 DEF InFlight
  <2>4. served' \subseteq offers'
    <3>1. \A o \in offers : o \in offers'
      BY <1>1, OfferStays DEF Unanswered, TypeOK
    <3>2. CASE \E d \in Devices : Flush(d)
      BY <1>1, <3>1, <3>2 DEF Unanswered, Flush
    <3>3. CASE ~\E d \in Devices : Flush(d)
      BY <1>1, <3>1, <3>3, StepEffects DEF Unanswered, AddOffer, Crash
    <3>4. QED
      BY <3>2, <3>3
  <2>5. QED
    BY <2>1, <2>2, <2>3, <2>4 DEF Unanswered
<1>2. ASSUME NEW o \in Offers, Chosen(o)', Quiet PROVE Chosen(o)
  <2>1. CASE Told("accepted", o)'
    BY <2>1, ToldFrom DEF Chosen
  <2>2. ASSUME NEW d \in Devices, Notify("accepted", o) \in Pending(d)' PROVE Chosen(o)
    BY <2>2, AnswerFrom DEF Chosen, InFlight, LoopStep
  <2>3. ASSUME NEW d \in Devices, NEW s \in Slots, handler'[d][s].offer = o,
               handler'[d][s].stage \notin {"idle", "deleting", "acked"}
        PROVE  Chosen(o)
    BY <1>2, <2>3, HandlerFrom DEF Chosen, Rejecting
  <2>4. QED
    BY <1>2, <2>1, <2>2, <2>3 DEF Chosen, InFlight
<1>3. ASSUME NEW o \in Offers, Stands(o), Quiet PROVE Stands(o)'
  <2>1. o \in offers'
    BY <1>3, OfferStays DEF Stands
  <2>2. ~Told("rejected", o)'
    BY <1>3, ToldFrom DEF Stands
  <2>3. \A d \in Devices : Notify("rejected", o) \notin Pending(d)'
    BY <1>3, AnswerFrom DEF Stands, InFlight, LoopStep, RejectNotify
  <2>4. ASSUME NEW d \in Devices, NEW by \in Slots \cup {NoSlot}
        PROVE  DeleteOffer(o, by) \notin Pending(d)'
    BY <1>3, DeleteFrom DEF Stands
  <2>5. ASSUME NEW d \in Devices, NEW s \in Slots, handler'[d][s].stage # "idle"
        PROVE  handler'[d][s].offer = o /\ handler'[d][s].stage \notin {"deleting", "acked"}
    BY <1>3, <2>5, HandlerFrom DEF Stands, Rejecting
  <2>6. QED
    BY <2>1, <2>2, <2>3, <2>4, <2>5 DEF Stands, InFlight
<1>4. ASSUME NEW d \in Devices, NEW s \in Slots, AcceptYes(d, s) \/ RejectYes(d, s),
             Unanswered, NEW o \in Offers, Chosen(o)'
      PROVE  Stands(o)'
  <2>1. /\ handler'[d][s].offer = dialog[d].offer
        /\ handler'[d][s].stage \in {"getting", "deleting"}
        /\ handler'[d][s].stage = "deleting" \/ (AcceptYes(d, s) /\ UNCHANGED outbox)
        /\ \A e \in Devices, r \in Slots : e # d \/ r # s => handler'[e][r] = handler[e][r]
        /\ UNCHANGED <<offers, notifs>>
    BY <1>4 DEF AcceptYes, RejectYes, Confirm, TypeOK, server
  <2>2. \A e \in Devices, r \in Slots : handler'[e][r].stage # "idle" => e = d /\ r = s
    BY <1>4, <2>1 DEF Unanswered
  <2>3. \A st \in {"accepted", "rejected"} : ~Told(st, o)' /\ ~InFlight(st, o)'
    <3>1. \A st \in {"accepted", "rejected"} : ~Told(st, o)'
      BY <1>4, ToldFrom DEF Unanswered
    <3>2. \A st \in {"accepted", "rejected"}, e \in Devices : Notify(st, o) \notin Pending(e)'
      BY <1>4, AnswerFrom DEF Unanswered, InFlight, LoopStep, RejectNotify
    <3>3. QED
      BY <3>1, <3>2 DEF InFlight
  <2>4. handler'[d][s].offer = o /\ handler'[d][s].stage = "getting"
    BY <1>4, <2>1, <2>2, <2>3 DEF Chosen
  <2>5. AcceptYes(d, s) /\ UNCHANGED outbox /\ dialog[d].offer = o
    BY <2>1, <2>4
  <2>6. o \in offers'
    <3>1. o \in served
      BY <2>5, ConstantsAssumption DEF AnswerHasOffer
    <3>2. QED
      BY <1>4, <2>1, <3>1 DEF Unanswered
  <2>7. \A e \in Devices, by \in Slots \cup {NoSlot} : DeleteOffer(o, by) \notin Pending(e)'
    BY <1>4, <2>5 DEF Unanswered, Pending
  <2>8. QED
    BY <2>2, <2>3, <2>4, <2>6, <2>7 DEF Stands
<1>5. CASE answers' = answers /\ Quiet
  BY <1>1, <1>2, <1>3, <1>5 DEF LoneAnswer
<1>6. CASE answers' = answers + 1 /\ ~Quiet
  <2>1. answers' # 0 /\ (answers' = 1 => answers = 0)
    BY <1>6, AnswersCounted
  <2>2. QED
    BY <1>4, <1>6, <2>1 DEF LoneAnswer
<1>7. QED
  BY <1>5, <1>6, AnswersCounted

\* An accept no other answer interferes with stands: what it chose is stored
\* and never told "rejected", whatever is delivered late or killed.
THEOREM LoneAcceptHolds == Spec => []LoneAcceptStands
<1>1. Init => LoneAnswer
  <2> SUFFICES ASSUME Init PROVE LoneAnswer
    OBVIOUS
  <2>1. \A d \in Devices : Pending(d) = {}
    BY DEF Init, Pending
  <2>2. \A st \in {"accepted", "rejected"}, o \in Offers : ~Told(st, o)
    BY DEF Init, Told, Notif
  <2>3. QED
    BY <2>1, <2>2 DEF Init, LoneAnswer, Unanswered, InFlight, IdleHandler
<1>2. TypeOK /\ Captured /\ AnswerHasOffer /\ LoneAnswer /\ [Next]_vars => LoneAnswer'
  BY LoneAnswerStep
<1>3. LoneAnswer => LoneAcceptStands
  BY DEF LoneAnswer, LoneAcceptStands, Chosen, Stands
<1>4. QED
  BY <1>1, <1>2, <1>3, TypeCorrect, AnswersAreCausal, PTL DEF Spec
=============================================================================
