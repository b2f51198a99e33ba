---------------------------- MODULE Marketplace ----------------------------
(***************************************************************************)
(* The offer protocol of OUN: an author posts a task, providers make       *)
(* offers on it, the author accepts one or rejects some, and every answer  *)
(* is told to its provider by a document of the `notifs' collection.       *)
(*                                                                         *)
(* Every device runs the same app on a Firestore client.  The client keeps *)
(* the writes the server has not acknowledged in a FIFO queue (outbox) and *)
(* answers queries from the server's documents overlaid with that queue.   *)
(* Documents are never edited, only added and deleted, so a document is    *)
(* identified with its auto-generated id, and the constants AuthorOf,      *)
(* TaskOf and ProviderOf are the fields it is added with.                  *)
(***************************************************************************)
EXTENDS Naturals, Sequences, FiniteSets

CONSTANTS
  Users,        \* accounts
  Devices,      \* installations of the app, each signed in to one account
  UserOf,       \* the account of a device
  Tasks,        \* ids of the documents of `tasks'
  AuthorOf,     \* field 'author' of a task
  Offers,       \* ids of the documents of `offers'
  TaskOf,       \* field 'task' of an offer
  ProviderOf,   \* field 'Provider' of an offer
  Slots,        \* names for the answer handlers running on one device
  NoTask, NoOffer, NoSlot,
  MaxAnswers,   \* bound: Accept and Reject dialogs confirmed in a behaviour
  MaxCrashes    \* bound: times an app is killed in a behaviour

ASSUME ConstantsAssumption ==
  /\ UserOf \in [Devices -> Users]
  /\ AuthorOf \in [Tasks -> Users]
  /\ TaskOf \in [Offers -> Tasks]
  /\ ProviderOf \in [Offers -> Users]
  /\ NoTask \notin Tasks
  /\ NoOffer \notin Offers
  /\ NoSlot \notin Slots
  /\ MaxAnswers \in Nat
  /\ MaxCrashes \in Nat

VARIABLES
  tasks,      \* server: documents of `tasks'
  offers,     \* server: documents of `offers'
  notifs,     \* server: how many documents of `notifs' have this content
  outbox,     \* outbox[d]: writes of d the server has not acknowledged
  page,       \* page[d]: the task whose detail screen is open, or NoTask
  verdict,    \* verdict[d]: the result of isAccepted() that screen shows
  asking,     \* asking[d]: a HasOffered() is under way
  dialog,     \* dialog[d]: the dialog that covers the screen
  handler,    \* handler[d][s]: an answer confirmed on d and not finished
  drafted,    \* history: tasks ever sent by some device
  made,       \* history: offers ever sent by some device
  served,     \* history: offers ever stored by the server
  answers,    \* history: answers confirmed, for the bound MaxAnswers
  crashes     \* history: apps killed, for the bound MaxCrashes

server == <<tasks, offers, notifs>>
screen == <<page, verdict, asking, dialog>>
history == <<drafted, made, served, answers, crashes>>
vars == <<server, outbox, screen, handler, history>>

-----------------------------------------------------------------------------
(* Documents and writes.                                                   *)

\* A document of `notifs'.  Its 'user' and 'task' follow from the offer it
\* is about: "added" goes to the author of the task, an answer to the
\* provider.  'new' is written TRUE and never changed.
Notif == [status: {"added", "accepted", "rejected"}, about: Offers]

PostTask(t) == [op |-> "post", task |-> t]
PutOffer(o) == [op |-> "offer", offer |-> o]
\* by is the handler that awaits the acknowledgement, or NoSlot.
DeleteOffer(o, by) == [op |-> "delete", offer |-> o, by |-> by]
Notify(status, o) ==
  [op |-> "notify", note |-> [status |-> status, about |-> o]]

Write ==
  {PostTask(t) : t \in Tasks}
    \cup {PutOffer(o) : o \in Offers}
    \cup {DeleteOffer(o, by) : o \in Offers, by \in Slots \cup {NoSlot}}
    \cup {Notify(st, o) : st \in {"added", "accepted", "rejected"}, o \in Offers}

\* The writes of d the server has not acknowledged.
Pending(d) == {outbox[d][i] : i \in 1..Len(outbox[d])}

Queue(d, writes) == outbox' = [outbox EXCEPT ![d] = @ \o writes]

(* What a query on d returns: the server's documents with d's queue on top. *)

ViewTasks(d) == tasks \cup {t \in Tasks : PostTask(t) \in Pending(d)}

ViewOffers(d, t) ==
  {o \in Offers :
     /\ TaskOf[o] = t
     /\ o \in offers \/ PutOffer(o) \in Pending(d)
     /\ \A by \in Slots \cup {NoSlot} : DeleteOffer(o, by) \notin Pending(d)}

\* How many documents with content [status, about] the query returns.
Copies(d, status, o) ==
  notifs[[status |-> status, about |-> o]]
    + Cardinality({i \in 1..Len(outbox[d]) : outbox[d][i] = Notify(status, o)})

OffersOn(t) == {o \in Offers : TaskOf[o] = t}

\* Mutant: isAccepted() with <= for ==.
IsAcceptedLoose(d, t) ==
  \E o \in OffersOn(t) :
    /\ Copies(d, "accepted", o) <= 1
    /\ \A x \in OffersOn(t) \ {o} : Copies(d, "accepted", x) = 0

\* isAccepted(): exactly one "accepted" document names the task.
IsAccepted(d, t) ==
  \E o \in OffersOn(t) :
    /\ Copies(d, "accepted", o) = 1
    /\ \A x \in OffersOn(t) \ {o} : Copies(d, "accepted", x) = 0

\* Mutant: HasOffered() without the device's own queue.
HasOfferedOnServer(d, t) ==
  \A o \in offers \cap OffersOn(t) : ProviderOf[o] # UserOf[d]

\* HasOffered(), which answers whether the user has NOT offered yet.
HasOffered(d, t) ==
  \A o \in ViewOffers(d, t) : ProviderOf[o] # UserOf[d]

-----------------------------------------------------------------------------
(* The screen and the handlers of one device.                              *)

IsAuthor(d) == page[d] \in Tasks /\ AuthorOf[page[d]] = UserOf[d]

NoDialog == [kind |-> "none", offer |-> NoOffer, mounted |-> FALSE]

Dialog ==
  [kind: {"none", "price", "accept", "reject"},
   offer: Offers \cup {NoOffer},
   mounted: BOOLEAN]   \* an accept dialog: the row that opened it still exists

IdleHandler ==
  [stage |-> "idle", offer |-> NoOffer, docs |-> {}, mounted |-> FALSE]

\* An accept goes getting, fetched, looping, told; a reject deleting, acked.
Handler ==
  [stage: {"idle", "getting", "fetched", "looping", "told", "deleting", "acked"},
   offer: Offers \cup {NoOffer},
   docs: SUBSET Offers,
   mounted: BOOLEAN]

\* The accept loop runs in one turn of the Dart event loop: until it ends no
\* other code of the app runs on d.
Looping(d) == \E s \in Slots : handler[d][s].stage = "looping"

\* Neither the loop nor the "Offer Accepted!" dialog keeps the user off.
Responsive(d) == \A s \in Slots : handler[d][s].stage \notin {"looping", "told"}

CanTouch(d) == Responsive(d) /\ dialog[d].kind = "none"

\* A slot names one handler for as long as its delete may be acknowledged.
FreeSlot(d, s) ==
  /\ handler[d][s].stage = "idle"
  /\ \A o \in Offers : DeleteOffer(o, s) \notin Pending(d)

\* setState, or a MediaQuery change: build() starts new lookups.  The author's
\* list gives way to a progress bar, and its rows are unmounted with it.  The
\* provider's OFFER button keeps the old result until the new one is there.
Rebuilt(d) == verdict' = [verdict EXCEPT ![d] = IF IsAuthor(d) THEN "waiting" ELSE @]

Unmounted(d) == [s \in Slots |-> [handler[d][s] EXCEPT !.mounted = FALSE]]

-----------------------------------------------------------------------------
Init ==
  /\ tasks = {}
  /\ offers = {}
  /\ notifs = [n \in Notif |-> 0]
  /\ outbox = [d \in Devices |-> <<>>]
  /\ page = [d \in Devices |-> NoTask]
  /\ verdict = [d \in Devices |-> "waiting"]
  /\ asking = [d \in Devices |-> FALSE]
  /\ dialog = [d \in Devices |-> NoDialog]
  /\ handler = [d \in Devices |-> [s \in Slots |-> IdleHandler]]
  /\ drafted = {}
  /\ made = {}
  /\ served = {}
  /\ answers = 0
  /\ crashes = 0

\* AddTask page: ADD TASK.
SendNewTask(d, t) ==
  /\ CanTouch(d)
  /\ page[d] = NoTask
  /\ AuthorOf[t] = UserOf[d]
  /\ t \notin drafted
  /\ Queue(d, <<PostTask(t)>>)
  /\ drafted' = drafted \cup {t}
  /\ UNCHANGED <<server, screen, handler, made, served, answers, crashes>>

\* A tap on a task of a list opens its detail screen.
OpenDetail(d, t) ==
  /\ CanTouch(d)
  /\ page[d] = NoTask
  /\ t \in ViewTasks(d)
  /\ page' = [page EXCEPT ![d] = t]
  /\ verdict' = [verdict EXCEPT ![d] = "waiting"]
  /\ UNCHANGED <<server, outbox, asking, dialog, handler, history>>

\* The back arrow.  A HasOffered() under way is dropped with the screen; the
\* answers under way go on, without a screen to report to.
Back(d) ==
  /\ CanTouch(d)
  /\ page[d] # NoTask
  /\ page' = [page EXCEPT ![d] = NoTask]
  /\ verdict' = [verdict EXCEPT ![d] = "waiting"]
  /\ asking' = [asking EXCEPT ![d] = FALSE]
  /\ handler' = [handler EXCEPT ![d] = Unmounted(d)]
  /\ UNCHANGED <<server, outbox, dialog, history>>

\* The author's screen is built again, after a rotation for instance.
Rebuild(d) ==
  /\ IsAuthor(d)
  /\ ~Looping(d)
  /\ Rebuilt(d)
  /\ dialog' = [dialog EXCEPT ![d].mounted = FALSE]
  /\ handler' = [handler EXCEPT ![d] = Unmounted(d)]
  /\ UNCHANGED <<server, outbox, page, asking, history>>

\* An isAccepted() of the screen completes.  On a provider's screen that is
\* possible at any time: a rebuild that shows nothing may have started it.
LookupDone(d) ==
  /\ page[d] # NoTask
  /\ IsAuthor(d) => verdict[d] = "waiting"
  /\ ~Looping(d)
  /\ verdict' = [verdict EXCEPT ![d] =
                   IF IsAccepted(d, page[d]) THEN "accepted" ELSE "open"]
  /\ UNCHANGED <<server, outbox, page, asking, dialog, handler, history>>

\* _FetchPrice(): an offer of the accepted provider is found, else "NO DATA".
PriceFound(d) ==
  \E o \in ViewOffers(d, page[d]), x \in OffersOn(page[d]) :
    Copies(d, "accepted", x) > 0 /\ ProviderOf[x] = ProviderOf[o]

\* The author's screen has fetched what it shows of the accepted offer.
FetchDetails(d) ==
  /\ IsAuthor(d)
  /\ verdict[d] = "accepted"
  /\ ~Looping(d)
  /\ verdict' = [verdict EXCEPT ![d] = IF PriceFound(d) THEN "priced" ELSE "unpriced"]
  /\ UNCHANGED <<server, outbox, page, asking, dialog, handler, history>>

-----------------------------------------------------------------------------
(* A provider makes an offer.                                              *)

\* OFFER is on the screen only while the last lookup said "not accepted".
PressOffer(d) ==
  /\ CanTouch(d)
  /\ page[d] # NoTask
  /\ ~IsAuthor(d)
  /\ verdict[d] = "open"
  /\ ~asking[d]
  /\ asking' = [asking EXCEPT ![d] = TRUE]
  /\ UNCHANGED <<server, outbox, page, verdict, dialog, handler, history>>

\* HasOffered() completes: the price form, or "You have Already Offered!".
HasOfferedDone(d) ==
  /\ asking[d]
  /\ ~Looping(d)
  /\ asking' = [asking EXCEPT ![d] = FALSE]
  /\ dialog' = [dialog EXCEPT ![d] =
                  IF HasOffered(d, page[d])
                    THEN [NoDialog EXCEPT !.kind = "price"] ELSE @]
  /\ UNCHANGED <<server, outbox, page, verdict, handler, history>>

\* Mutant: the wrong status.
OfferWritesAccepted(o) == <<PutOffer(o), Notify("accepted", o)>>

\* The writes of ADD: the offer, then the author's notification.
OfferWrites(o) == <<PutOffer(o), Notify("added", o)>>

\* ADD with a valid price.
AddOffer(d, o) ==
  /\ Responsive(d)
  /\ dialog[d].kind = "price"
  /\ o \notin made
  /\ TaskOf[o] = page[d]
  /\ ProviderOf[o] = UserOf[d]
  /\ Queue(d, OfferWrites(o))
  /\ made' = made \cup {o}
  /\ dialog' = [dialog EXCEPT ![d] = NoDialog]
  /\ UNCHANGED <<server, page, verdict, asking, handler,
                 drafted, served, answers, crashes>>

\* The close icon of the price form, No in the accept dialog, a tap outside
\* the reject dialog.
CloseDialog(d) ==
  /\ Responsive(d)
  /\ dialog[d].kind # "none"
  /\ dialog' = [dialog EXCEPT ![d] = NoDialog]
  /\ UNCHANGED <<server, outbox, page, verdict, asking, handler, history>>

-----------------------------------------------------------------------------
(* The author answers.                                                     *)

\* Mutant: the dialog captures the id of the task for that of the offer.
PressAnswerTaskId(d, o, kind) ==
  /\ CanTouch(d)
  /\ IsAuthor(d)
  /\ verdict[d] = "open"
  /\ o \in ViewOffers(d, page[d])
  /\ dialog' = [dialog EXCEPT ![d] =
                  [kind |-> kind, offer |-> page[d], mounted |-> kind = "accept"]]
  /\ UNCHANGED <<server, outbox, page, verdict, asking, handler, history>>

\* Accept or the cross on a row of the list of offers.
PressAnswer(d, o, kind) ==
  /\ CanTouch(d)
  /\ IsAuthor(d)
  /\ verdict[d] = "open"
  /\ o \in ViewOffers(d, page[d])
  /\ dialog' = [dialog EXCEPT ![d] =
                  [kind |-> kind, offer |-> o, mounted |-> kind = "accept"]]
  /\ UNCHANGED <<server, outbox, page, verdict, asking, handler, history>>

\* No in the reject dialog refreshes the screen.
CancelReject(d) ==
  /\ Responsive(d)
  /\ dialog[d].kind = "reject"
  /\ dialog' = [dialog EXCEPT ![d] = NoDialog]
  /\ Rebuilt(d)
  /\ handler' = [handler EXCEPT ![d] = Unmounted(d)]
  /\ UNCHANGED <<server, outbox, page, asking, history>>

\* A confirmed dialog starts its handler in slot s with the given stage.
Confirm(d, s, kind, stage) ==
  /\ Responsive(d)
  /\ dialog[d].kind = kind
  /\ FreeSlot(d, s)
  /\ answers < MaxAnswers
  /\ answers' = answers + 1
  /\ dialog' = [dialog EXCEPT ![d] = NoDialog]
  /\ handler' = [handler EXCEPT ![d][s] =
                   [stage |-> stage, offer |-> dialog[d].offer,
                    docs |-> {}, mounted |-> dialog[d].mounted]]
  /\ UNCHANGED <<server, page, verdict, asking,
                 drafted, made, served, crashes>>

\* Yes in the accept dialog: the query of the task's offers is sent.
AcceptYes(d, s) ==
  /\ Confirm(d, s, "accept", "getting")
  /\ UNCHANGED outbox

\* The query is answered.
AcceptGet(d, s) ==
  /\ handler[d][s].stage = "getting"
  /\ handler' = [handler EXCEPT
       ![d][s].stage = "fetched",
       ![d][s].docs = ViewOffers(d, TaskOf[handler[d][s].offer])]
  /\ UNCHANGED <<server, outbox, screen, history>>

\* Mutant: the handler returns early when its row is gone.
AcceptResumeMounted(d, s) ==
  /\ handler[d][s].stage = "fetched"
  /\ ~Looping(d)
  /\ handler' = [handler EXCEPT ![d][s] =
                   IF @.mounted THEN [@ EXCEPT !.stage = "looping"] ELSE IdleHandler]
  /\ UNCHANGED <<server, outbox, screen, history>>

\* The handler resumes after the await.
AcceptResume(d, s) ==
  /\ handler[d][s].stage = "fetched"
  /\ ~Looping(d)
  /\ handler' = [handler EXCEPT ![d][s].stage = "looping"]
  /\ UNCHANGED <<server, outbox, screen, history>>

\* Mutant: the other providers are not told.
LoopWritesUntold(chosen, o) ==
  IF o # chosen THEN <<DeleteOffer(o, NoSlot)>> ELSE <<Notify("accepted", o)>>

\* Mutant: the chosen offer is deleted with the others.
LoopWritesDeleteAll(chosen, o) ==
  <<DeleteOffer(o, NoSlot),
    Notify(IF o # chosen THEN "rejected" ELSE "accepted", o)>>

\* What one turn of the loop writes: the chosen offer is told "accepted", any
\* other one is deleted and told "rejected".  No write is awaited.
LoopWrites(chosen, o) ==
  IF o # chosen THEN <<DeleteOffer(o, NoSlot), Notify("rejected", o)>>
                ELSE <<Notify("accepted", o)>>

\* One turn of the loop.
LoopStep(d, s, o) ==
  /\ handler[d][s].stage = "looping"
  /\ o \in handler[d][s].docs
  /\ handler' = [handler EXCEPT ![d][s].docs = @ \ {o}]
  /\ Queue(d, LoopWrites(handler[d][s].offer, o))
  /\ UNCHANGED <<server, screen, history>>

\* After the loop "Offer Accepted!" is shown, if the row it was started from
\* is still mounted.  A row whose offer is gone from the list may be either.
LoopEnd(d, s) ==
  LET h == handler[d][s] IN
  /\ h.stage = "looping"
  /\ h.docs = {}
  /\ \/ /\ h.mounted
        /\ handler' = [handler EXCEPT ![d][s].stage = "told"]
     \/ /\ ~h.mounted \/ h.offer \notin ViewOffers(d, TaskOf[h.offer])
        /\ handler' = [handler EXCEPT ![d][s] = IdleHandler]
  /\ UNCHANGED <<server, outbox, screen, history>>

\* OK in "Offer Accepted!" refreshes the screen.
TellOk(d, s) ==
  /\ handler[d][s].stage = "told"
  /\ ~Looping(d)
  /\ Rebuilt(d)
  /\ dialog' = [dialog EXCEPT ![d].mounted = FALSE]
  /\ handler' = [handler EXCEPT ![d] = [Unmounted(d) EXCEPT ![s] = IdleHandler]]
  /\ UNCHANGED <<server, outbox, page, asking, history>>

\* Yes in the reject dialog: the delete is sent and awaited.
RejectYes(d, s) ==
  /\ Confirm(d, s, "reject", "deleting")
  /\ Queue(d, <<DeleteOffer(dialog[d].offer, s)>>)

\* Mutant: nothing follows the delete.
RejectWritesNone(o) == <<>>

\* The notice of a rejection.
RejectWrites(o) == <<Notify("rejected", o)>>

\* The delete was acknowledged: the provider is told.
RejectNotify(d, s) ==
  /\ handler[d][s].stage = "acked"
  /\ ~Looping(d)
  /\ Queue(d, RejectWrites(handler[d][s].offer))
  /\ handler' = [handler EXCEPT ![d][s] = IdleHandler]
  /\ UNCHANGED <<server, screen, history>>

-----------------------------------------------------------------------------
(* The Firestore client and server, and the process of the app.            *)

\* Mutant: an acknowledgement may be lost, and the write is sent again.
DequeueMaybe(d) ==
  \/ outbox' = [outbox EXCEPT ![d] = Tail(@)]
  \/ UNCHANGED outbox

Dequeue(d) == outbox' = [outbox EXCEPT ![d] = Tail(@)]

\* The server applies the oldest write of d and acknowledges it.
Flush(d) ==
  LET w == Head(outbox[d]) IN
  /\ outbox[d] # <<>>
  /\ Dequeue(d)
  /\ tasks' = IF w.op = "post" THEN tasks \cup {w.task} ELSE tasks
  /\ offers' = CASE w.op = "offer" -> offers \cup {w.offer}
                 [] w.op = "delete" -> offers \ {w.offer}
                 [] OTHER -> offers
  /\ served' = IF w.op = "offer" THEN served \cup {w.offer} ELSE served
  /\ notifs' = IF w.op = "notify" THEN [notifs EXCEPT ![w.note] = @ + 1]
                                  ELSE notifs
  /\ handler' = [handler EXCEPT ![d] = [s \in Slots |->
       IF w.op = "delete" /\ w.by = s /\ handler[d][s].stage = "deleting"
         THEN [handler[d][s] EXCEPT !.stage = "acked"] ELSE handler[d][s]]]
  /\ UNCHANGED <<screen, drafted, made, answers, crashes>>

\* Mutant: the detail screen is restored as it was.
RestartScreenRestored(d) == UNCHANGED screen

\* main() starts the app on its first screen.
RestartScreen(d) ==
  /\ page' = [page EXCEPT ![d] = NoTask]
  /\ verdict' = [verdict EXCEPT ![d] = "waiting"]
  /\ asking' = [asking EXCEPT ![d] = FALSE]
  /\ dialog' = [dialog EXCEPT ![d] = NoDialog]

\* The app is killed and started again.  Screens and handlers are gone; of
\* the queue, what the client had stored is left (on the web target, where
\* persistence is off by default, nothing).
Crash(d) ==
  /\ crashes < MaxCrashes
  /\ crashes' = crashes + 1
  /\ \E k \in 0..Len(outbox[d]) :
       outbox' = [outbox EXCEPT ![d] = SubSeq(@, 1, k)]
  /\ RestartScreen(d)
  /\ handler' = [handler EXCEPT ![d] = [s \in Slots |-> IdleHandler]]
  /\ UNCHANGED <<server, drafted, made, served, answers>>

-----------------------------------------------------------------------------
Next ==
  \E d \in Devices :
    \/ \E t \in Tasks : SendNewTask(d, t) \/ OpenDetail(d, t)
    \/ Back(d)
    \/ Rebuild(d)
    \/ LookupDone(d)
    \/ FetchDetails(d)
    \/ PressOffer(d)
    \/ HasOfferedDone(d)
    \/ \E o \in Offers : AddOffer(d, o)
    \/ CloseDialog(d)
    \/ \E o \in Offers, kind \in {"accept", "reject"} : PressAnswer(d, o, kind)
    \/ CancelReject(d)
    \/ \E s \in Slots :
         \/ AcceptYes(d, s)
         \/ AcceptGet(d, s)
         \/ AcceptResume(d, s)
         \/ \E o \in Offers : LoopStep(d, s, o)
         \/ LoopEnd(d, s)
         \/ TellOk(d, s)
         \/ RejectYes(d, s)
         \/ RejectNotify(d, s)
    \/ Flush(d)
    \/ Crash(d)

Spec == Init /\ [][Next]_vars

\* The network and the event loop make progress; users need not.
Fairness ==
  \A d \in Devices :
    /\ WF_vars(Flush(d))
    /\ \A s \in Slots :
         /\ WF_vars(AcceptGet(d, s))
         /\ WF_vars(AcceptResume(d, s))
         /\ WF_vars(\E o \in Offers : LoopStep(d, s, o))
         /\ WF_vars(LoopEnd(d, s))
         /\ WF_vars(RejectNotify(d, s))

FairSpec == Spec /\ Fairness

-----------------------------------------------------------------------------
TypeOK ==
  /\ tasks \in SUBSET Tasks
  /\ offers \in SUBSET Offers
  /\ notifs \in [Notif -> Nat]
  /\ outbox \in [Devices -> Seq(Write)]
  /\ page \in [Devices -> Tasks \cup {NoTask}]
  /\ verdict \in [Devices -> {"waiting", "open", "accepted", "priced", "unpriced"}]
  /\ asking \in [Devices -> BOOLEAN]
  /\ dialog \in [Devices -> Dialog]
  /\ handler \in [Devices -> [Slots -> Handler]]
  /\ drafted \in SUBSET Tasks
  /\ made \in SUBSET Offers
  /\ served \in SUBSET Offers
  /\ answers \in 0..MaxAnswers
  /\ crashes \in 0..MaxCrashes

\* What a dialog or a handler works on is an offer; with TypeOK it is kept by
\* every step.
Captured ==
  \A d \in Devices :
    /\ dialog[d].kind \in {"accept", "reject"} => dialog[d].offer \in Offers
    /\ \A s \in Slots : handler[d][s].stage # "idle" => handler[d][s].offer \in Offers

-----------------------------------------------------------------------------
(* Correctness.                                                            *)

Told(status, o) == notifs[[status |-> status, about |-> o]] > 0

InFlight(status, o) == \E d \in Devices : Notify(status, o) \in Pending(d)

\* A reject handler that has sent its delete of o and not yet its notice.
Owed(o) ==
  \E d \in Devices, s \in Slots :
    handler[d][s].offer = o /\ handler[d][s].stage \in {"deleting", "acked"}

\* An offer that is stored or queued.
Held(o) == o \in offers \/ \E d \in Devices : PutOffer(o) \in Pending(d)

\* No offer disappears behind its provider's back.  While no app is killed,
\* an offer the server once held and holds no more has been told "rejected",
\* or the notice is queued, or a reject handler is about to queue it: the
\* accept loop and the reject button both delete first and tell afterwards.
NoSilentLoss ==
  crashes = 0 =>
    \A o \in served \ offers :
      Told("rejected", o) \/ InFlight("rejected", o) \/ Owed(o)

\* An answer is about an offer the server has received: it is neither told,
\* queued, nor being worked on before, in any order of deliveries and kills.
AnswerHasOffer ==
  /\ \A st \in {"accepted", "rejected"}, o \in Offers :
       Told(st, o) \/ InFlight(st, o) => o \in served
  /\ \A d \in Devices :
       /\ dialog[d].offer \in served \cup {NoOffer}
       /\ \A s \in Slots :
            /\ handler[d][s].offer \in served \cup {NoOffer}
            /\ handler[d][s].docs \subseteq served

\* An offer that was deleted on the server never comes back, whatever is
\* still queued on the devices.
NoRevival == [][\A o \in served \ offers : o \notin offers']_vars

\* The check HasOffered() before the price form and the add after it hold
\* together: a provider has at most one offer on a task, queued or stored.
OneOfferPerProvider ==
  \A o1, o2 \in Offers :
    /\ o1 # o2
    /\ TaskOf[o1] = TaskOf[o2]
    /\ ProviderOf[o1] = ProviderOf[o2]
    => ~(Held(o1) /\ Held(o2))

\* A screen that says "Accepted" is right for as long as it says so: an
\* "accepted" document of its task is stored, or queued on this device.
VerdictBacked ==
  \A d \in Devices :
    verdict[d] \in {"accepted", "priced", "unpriced"} =>
      \E o \in OffersOn(page[d]) :
        Told("accepted", o) \/ Notify("accepted", o) \in Pending(d)

\* An accept that no other answer interferes with stands: the chosen offer
\* stays stored and is never told "rejected".
LoneAcceptStands ==
  answers = 1 =>
    \A o \in Offers :
      Told("accepted", o) => o \in offers /\ ~Told("rejected", o)

\* The author's "Offer's Information" always has the offered price, as the
\* comment on lst[3] in the detail screen says.
PriceKnown ==
  \A d \in Devices : verdict[d] # "unpriced"

\* A confirmed accept ends with the chosen provider being told something:
\* "accepted", or "rejected" if another answer was faster.
AcceptIsAnswered ==
  \A o \in Offers :
    (\E d \in Devices, s \in Slots :
       handler[d][s].stage = "getting" /\ handler[d][s].offer = o)
      ~> (Told("accepted", o) \/ Told("rejected", o))

\* The provider of a deleted offer eventually reads of it, and the author
\* of a task eventually reads of every offer on it.
OfferIsTold ==
  \A o \in Offers :
    /\ (o \in served \ offers) ~> Told("rejected", o)
    /\ (o \in made) ~> Told("added", o)

-----------------------------------------------------------------------------
(* What makes the invariants above inductive.                              *)

\* Only a provider's device queues his offer, only from another's task, and
\* only the author's device answers it: an answer is about a stored offer.
Causal ==
  /\ offers \subseteq served
  /\ \A d \in Devices :
       /\ \A o \in Offers :
            PutOffer(o) \in Pending(d) => AuthorOf[TaskOf[o]] # UserOf[d]
       /\ asking[d] \/ dialog[d].kind = "price" => page[d] \in Tasks /\ ~IsAuthor(d)
       /\ dialog[d].kind \in {"accept", "reject"} =>
            AuthorOf[TaskOf[dialog[d].offer]] = UserOf[d]
       /\ \A s \in Slots : handler[d][s].stage # "idle" =>
            AuthorOf[TaskOf[handler[d][s].offer]] = UserOf[d]

\* The add of an offer is queued once, and not once it was stored.
AddedOnce ==
  /\ served \subseteq made
  /\ \A d \in Devices, o \in Offers :
       PutOffer(o) \in Pending(d) => o \in made \ served
  /\ \A d, e \in Devices, o \in Offers :
       \A i \in 1..Len(outbox[d]), j \in 1..Len(outbox[e]) :
         outbox[d][i] = PutOffer(o) /\ outbox[e][j] = PutOffer(o) => d = e /\ i = j

\* Behind a queued delete of the accept loop its notice is queued too; for
\* a queued delete of a reject handler that handler is still waiting.
NoticeFollows ==
  crashes = 0 =>
    \A d \in Devices, o \in Offers : \A i \in 1..Len(outbox[d]) :
      /\ outbox[d][i] = DeleteOffer(o, NoSlot) =>
           \E j \in 1..Len(outbox[d]) : i < j /\ outbox[d][j] = Notify("rejected", o)
      /\ \A s \in Slots : outbox[d][i] = DeleteOffer(o, s) =>
           /\ handler[d][s].stage = "deleting"
           /\ handler[d][s].offer = o
           /\ \A j \in 1..Len(outbox[d]), x \in Offers :
                outbox[d][j] = DeleteOffer(x, s) => j = i

\* A device queues only offers of its own user, and deletes only offers on
\* the tasks of its user.
OwnWrites ==
  \A d \in Devices :
    /\ \A o \in Offers : PutOffer(o) \in Pending(d) => ProviderOf[o] = UserOf[d]
    /\ \A o \in Offers, by \in Slots \cup {NoSlot} :
         DeleteOffer(o, by) \in Pending(d) => AuthorOf[TaskOf[o]] = UserOf[d]
    /\ \A s \in Slots : \A o \in handler[d][s].docs : AuthorOf[TaskOf[o]] = UserOf[d]

\* No account is signed in on two devices.
OneDevicePerAccount == \A d, e \in Devices : UserOf[d] = UserOf[e] => d = e

\* While the price form is open its user holds no offer on the task.
FormIsFresh ==
  \A d \in Devices : dialog[d].kind = "price" =>
    \A o \in OffersOn(page[d]) : ProviderOf[o] = UserOf[d] => ~Held(o)

\* No answer was confirmed yet.
Unanswered ==
  /\ \A d \in Devices, s \in Slots : handler[d][s].stage = "idle"
  /\ \A d \in Devices, o \in Offers, by \in Slots \cup {NoSlot} :
       DeleteOffer(o, by) \notin Pending(d)
  /\ \A st \in {"accepted", "rejected"}, o \in Offers : ~Told(st, o) /\ ~InFlight(st, o)
  /\ served \subseteq offers

\* An accept of o is under way or was told.
Chosen(o) ==
  \/ Told("accepted", o) \/ InFlight("accepted", o)
  \/ \E d \in Devices, s \in Slots :
       handler[d][s].offer = o /\ handler[d][s].stage \notin {"idle", "deleting", "acked"}

\* Nothing is under way, or was done, against o.
Stands(o) ==
  /\ o \in offers
  /\ ~Told("rejected", o) /\ ~InFlight("rejected", o)
  /\ \A d \in Devices, by \in Slots \cup {NoSlot} : DeleteOffer(o, by) \notin Pending(d)
  /\ \A d \in Devices, s \in Slots : handler[d][s].stage # "idle" =>
       handler[d][s].offer = o /\ handler[d][s].stage \notin {"deleting", "acked"}

\* The only answer so far, if it chose an offer, did nothing against it.
LoneAnswer ==
  /\ answers = 0 => Unanswered
  /\ answers = 1 => \A o \in Offers : Chosen(o) => Stands(o)

=============================================================================
