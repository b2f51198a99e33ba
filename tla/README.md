# OUN in TLA+

OUN is a marketplace for household help written in Flutter over Firebase: a
user posts a task, other users offer to do it for a price, the author accepts
one offer or rejects some, and rates the provider afterwards.  There is no
server code of its own.  Every device runs the same Dart program and talks to
Firebase Authentication and to the collections of Cloud Firestore, so all
coordination happens between clients that read, wait, and write.  This
directory holds a model of that program, the TLC configurations that check it
on small instances, and proofs that hold for every instance.

## Inventory

Paths are relative to `src/lib/`.  The program itself is about 7000 lines of Dart.
`ios/Pods` and `macos/Pods`, four fifths of the files, are vendored C and C++.  One
part of them is modelled all the same: the core of the Firestore client
(`ios/Pods/FirebaseFirestore/Firestore/core/src`, below `core/src`; `macos/Pods` has
the same files).  Everything the app believes about its data, what `await` on a
write means, what a listener sees and in which order writes arrive, is decided
there, and it is the one place in the tree with streams, timers, retries and
restarts.  gRPC, leveldb, BoringSSL and the other pods are not.

### Offer protocol

*Code*: `src/view/screen/office_furniture_detail_screen.dart` (the detail
screen of a task), `src/view/widget/furniture_list_view.dart` (the list of
offers inside it), `src/view/screen/NewTask.dart`.

*State*: the collections `tasks`, `offers` and `notifs`; on a device the open
screen, the futures it has started, and the answer handlers under way.

*Operations*: post a task; open its screen; look up whether it is accepted;
check that one has not offered yet, then offer; accept an offer; reject an
offer; build the screen again.

*Interactions*: the "accepted" state of a task is not a field of anything. It
is derived by every screen from the documents of `notifs` (`isAccepted`), which
the accept handler adds.  Accepting reads all offers of the task, deletes the
others and adds one notification for each, in writes nobody awaits.  Rejecting
deletes one offer, waits for the acknowledgement, then adds the notification.

*Hard*: reads awaited and acted on later; two answers of one author under way
at once, on one device or two; a provider whose account is on two devices; a
kill between two writes that belong together; documents written on several
devices and applied by the server in any order.

*Correct when*: nobody's offer vanishes without a word; an answer is about an
offer that exists; a deleted offer stays deleted; a provider has one offer per
task; "Accepted" on a screen is true; a confirmed answer is eventually told.

### Ratings

*Code*: the lower part of the author's detail screen, `isAccepted`, `israted`.

*State*: the collection `rate`, the field `rate` of `users`, the library
variable `provider`, the stream and the dialog of the rating bar.

*Operations*: look up the accepted provider, show him, stream his ratings, rate
him.  *Interactions*: every screen of the device assigns `provider`; every
author who rates a provider overwrites his mean.

*Hard*: one variable shared by screens whose futures outlive them; a mean
computed from what a stream had delivered when a dialog opened.

*Correct when*: a task is rated once; the mean follows the ratings; the
provider shown and rated is the accepted one.

### Accounts

*Code*: `Screens/Signup`, `Screens/Login`, `Screens/Welcome`,
`profile/pages/profile_page.dart`.  *State*: the signed-in user, the accounts of
Firebase Authentication, the collection `users`, the text controllers (variables
of the library).  *Operations*: sign up (look the email up, create the account,
store the document), log in, log out; the app starts with the welcome screen.
*Hard*: two sign-ups with one email; text fields that are read again at every step;
an account whose document is never stored; `whenComplete` that opens the home screen
after an error.  *Correct when*: the home screen has a user, and a user has a
document.

### Reports

*Code*: the flag icon of the detail screen, `noReported`.  *State*: the
collection `violations`.  *Operations*: check, then report.  *Correct when*: one
report per user and task.

### Field validators

*Code*: regular expressions in the sign-up form, the price form and the task
form.  *Correct when*: they accept what their comments and messages say, and
what they accept can be parsed by the code that follows.

### Lists, search and notifications

*Code*: `office_furniture_list_screen.dart`, `cart_screen.dart`,
`Search_screen.dart`, `Searched.dart`, `notification_screen.dart`,
`widget/notification.dart`.  *State*: none but streams.  *Operations*: filter,
count the unread, open a task.  *Correct when*: each list shows its own
documents, and the badge counts what is unread.

### Navigation and cart controller

*Code*: `src/controller/office_furniture_controller.dart`, `home_screen.dart`.
*State*: the index of the bottom bar, and the cart of the template the app was made
from, of which only `addToCart` is still called and nothing is shown.

### Firestore client: writes

*Code*: `core/src/core/sync_engine.cc`, `local/local_store.cc`,
`local/leveldb_mutation_queue.cc`, `remote/remote_store.cc`, `remote/stream.cc`,
`remote/write_stream.cc`.  *State*: a mutation queue per user on disk, the callbacks
of the writes, the pipeline of at most ten writes in flight, the write stream.
*Operations*: write, wait for pending writes, change the user, switch the network,
the callbacks of the stream, restart.  *Hard*: responses carry no id and are matched
by their order; a stream that breaks loses answers; an error may be about a write or
about the stream; batch ids start again; an idle timer stops the stream.  *Correct
when*: a write is reported stored only if it was, writes arrive in order, none is
forgotten and each is answered in the end.

### Firestore client: online state

*Code*: `remote/online_state_tracker.cc`, the watch half of `remote_store.cc`,
`core/query_listener.cc`.  *State*: Unknown, Online or Offline, a timer, a count of
failures, the watch stream, and for each listener whether it has had its first event.
*Hard*: the timer races the first response, errors and the app's own calls.  *Correct
when*: the state is never about a stream that is gone, one break is not taken for
being offline, and every listener hears something.

### Firestore client: local view

*Code*: `local/local_store.cc`, `local/local_documents_view.cc`,
`local/leveldb_document_overlay_cache.cc`, `model/*mutation*.cc`.  *State*: the last
remote version of a document, the queued mutations, the overlay that stands for them.
*Hard*: the overlay is calculated again only at some events; answers and watched
versions come in any order.  *Correct when*: a reader sees the remote document with
the queue applied, and the server's when nothing is queued.

### Firestore client: watch targets

*Code*: `remote/remote_event.cc`, `remote/remote_store.cc`, `local/local_store.cc`.
*State*: the keys that match a query and the resume token they belong to, in memory
and on disk; what the aggregator has collected; the responses it waits for.  *Hard*:
one target id for listens that follow one another, resets, existence filters, a kill
between the writes of keys and of tokens.  *Correct when*: keys and token agree.

### Firestore client: limbo documents

*Code*: `core/sync_engine.cc`, `core/view.cc`.  *State*: the documents the cache has
in a query and the server's result has not, the lookups of them, a queue for the
places.  *Hard*: a place that falls free in the middle of anything; two queries that
need one document; a rejected lookup.  *Correct when*: every such document is looked
up, no lookup outlives its need, and every view ends up in step.

### Not behaviour

Profile editing changes a static object that nothing reads back.  Widgets,
theme, sample data, generated Firebase options and platform runners hold no
state of the system.  `core/oun_payment.dart` and `core/oun_offer_stream.dart`
are empty files.

## Modules

| Module | What it is |
| --- | --- |
| `Marketplace` | the offer protocol on any number of devices |
| `MCMarketplace` | its instances for TLC |
| `MarketplaceProofs` | its theorems on types, causality, and offers that go, stay and are made twice |
| `Ratings` | lookups, details and ratings of accepted tasks |
| `MCRatings` | its instances for TLC |
| `RatingsProofs` | its theorems, the last on ratings made twice |
| `Accounts` | signing up, in and out on several devices |
| `WriteQueue` | what the Firestore client promises about writes |
| `WriteQueueProofs` | its theorems |
| `WritePipeline` | how it sends them; implements `WriteQueue` |
| `OnlineState` | whether it believes it is online, and what listeners hear |
| `OnlineStateProofs` | its theorems |
| `LocalView` | one document with queued writes |
| `LocalViewProofs` | its theorems |
| `WatchTarget` | one query in step with the server |
| `WatchTargetProofs` | its theorems |
| `Limbo` | documents the cache and the server disagree on |
| `LimboProofs` | its theorems |
| `MCClient` | the five parts of the client for TLC |
| `ClientProofs` | the theorems of `WritePipeline`, among them the refinement, and those of all parts for `MCClient` |

### Firestore, as Marketplace and Ratings see it

A client keeps the writes the server has not acknowledged in a queue and
applies them to what it reads at once (*latency compensation*).  `outbox[d]` is
that queue, first in first out; `Flush(d)` delivers its head; the `View...`
operators are the server's documents with the queue on top.  A `get()` is
answered at a moment of its own, so the action that ends it reads the view then.
Nothing is assumed about the order in which queues of different devices are
delivered.  Every write is assumed to be allowed by the security rules, which are
not part of the repository.  A killed app (`Crash`) loses its screens and
handlers, and any suffix of its queue: the mobile clients persist the queue, the
web client does not, and a write may not have reached the disk.

That the queue keeps its order, is delivered, and tells "ok" only of a stored write is
what `WriteQueue` states and `WritePipeline` is proved to do; that the view is the
server's documents with the queue on top is `LocalView`.  Two differences remain.  A
write whose answer was lost is sent again, so the server may apply it twice, where
`Flush` applies it once.  And `ViewIsQueue` fails for patches (see the violations);
the documents of `Marketplace` are only added and deleted, for which it holds.

### Marketplace

Documents of the three collections are only added and deleted, never edited, so a
document is its id and its fields are constants of the id (`AuthorOf`, `TaskOf`,
`ProviderOf`).  Prices and texts are left out.  Ids no behaviour has used stand
for the ids Firestore generates.  `notifs` is a bag, because nothing but content
tells two notifications apart.  A notification carries the task and the user;
the model carries the offer it is about, from which both follow.

| State | In the code |
| --- | --- |
| `page` | the detail screen on the navigator |
| `verdict` | what the `FutureBuilder` of `isAccepted` that decides the lower part of the screen last gave; `priced`, `unpriced` once the details are fetched |
| `asking` | the `await HasOffered()` of the OFFER button |
| `dialog` | the open dialog: price form, "Accept Offer?", "Reject Offer?" |
| `handler` | an `btnOkOnPress` closure of an answer, by the `await` it stands at |
| `drafted`, `made`, `served`, `answers`, `crashes` | history, read by guards that allot ids and bounds, and by properties |

An accept goes `getting` (the query is sent), `fetched` (answered), `looping`
(the `for` loop), `told` ("Offer Accepted!" is open).  The loop has no `await`:
while it runs no other code of that device does (`Looping`), but the network may
deliver what it has queued, so each iteration is a step.  A reject goes
`deleting`, `acked`.  `mounted` is the `context.mounted` of the row a handler was
started from: without it the last dialog is not shown.

The author's screen replaces its list by a progress bar on every build, so its
rows, and the `mounted` of their handlers, go with `Rebuild`, `CancelReject` and
`TellOk`.  Other `isAccepted` futures of the same screen decide only the colour of
a chip and a heading; they are not modelled here, and are in `Ratings`, where
their side effect matters.

`LookupDone` on a provider's screen is possible at any time: the OFFER button has
a `FutureBuilder` of its own that keeps its old result until a new one is there.

Not modelled: a second press of OFFER while the first still waits (the two forms
share a global key, and Flutter refuses the second); signing out in the middle of
a handler.

### Ratings

Acceptances are constants here (`AcceptedOn`); `Marketplace` says how they come
about.  A mean is represented by the set of ratings it averages: `{r}` is the
rating itself, `{}` is `0 / 0`.  So no arithmetic is needed, and a property can say
*which* ratings a rate counts.

A build of the author's screen starts three `isAccepted` futures and one of any
other screen starts two.  One of the author's decides the lower part (`stage`); the
rest are `strays`, which run to their end even when their screen is gone, and assign
`provider`.  The details, the stream and the rating each read `provider` at a time
of their own.  Delivery of the stream is an action, so it may lag behind the server.
The provider's document in `users` is assumed to exist.

### Accounts

A phone shows the sign-up form (`"signup"`, which stands for the welcome, sign-up and
log-in screens: they lead to one another) or the home screen.  A call of `Signup()` goes
`fetch`, `create`, `answer`, one step per `await`; the text field is read at each of
them, as the code does.  `emailtaken` is a variable of the library, but it is read in
the microtask that follows its assignment, so calls do not share it in effect.
`FetchEmail` may also answer "not taken" from a cache.  A form that was removed has no
Navigator: its calls go on (`Unmounted`) and change no screen.  An ID that is no number
makes `int.parse` throw after the account was created; `Created` then writes nothing.

### WriteQueue and WritePipeline

`WriteQueue` is the promise: an outbox per user, on disk, and what the callers are
told.  `Reached` says what order means: the server acts on a write only when it has
acted on every earlier write of that user; it may act again on what it acted on before.
`WritePipeline` is the code.  A handler of the worker queue is one action, with the calls
it makes: `OnMutationResult`, for instance, tells the caller, removes the batch from the
queue, fills the pipeline again and, if the stream is closed by then, starts it.

| State | In the code |
| --- | --- |
| `queue`, `nextId` | `LevelDbMutationQueue`, one per user, and `next_batch_id_` |
| `callbacks`, `waits` | `SyncEngine::mutation_callbacks_`, `pending_writes_callbacks_` |
| `rs.enabled`, `rs.pipeline` | `RemoteStore::is_network_enabled_`, `write_pipeline_` |
| `rs.state`, `rs.handshake`, `rs.idle` | `Stream::state_`, `handshake_complete_`, `idleness_timer_` |
| `rs.up`, `rs.down` | requests and responses in flight |
| `stale` | requests of the last closed stream the server may still handle |

A batch is its id; its mutations are `LocalView`'s matter.  The server commits, refuses
for good, refuses for now, or handles a request of a closed stream late.  The client
cannot tell a lost request from a lost answer, and the model has both.  Under the
mapping `pending <- ` the writes of `queue`, the other variables being the same, every
step of the pipeline is one of the queue or a stutter (`Implements`).  The batches
that fill the pipeline are one `SubSeq` of the queue, which leveldb keeps sorted by id.

### OnlineState

The tracker is a record (`tracker`) and its methods are operators on it, with a field
`sound` that becomes FALSE where a `HARD_ASSERT` would stop the app.  `Broadcast` is what
`SetAndBroadcast` leads to: an Offline state makes no view current, and raises the first
event of every listener that may have one.  The timer may fire at any moment while it
runs, the idle timer too.

### LocalView

One document.  A mutation is its kind, a mask and the values: sets, patches that require
the document, deletes.  A version of the document is a position of the server's `log`,
which this client and others append to; `acks` and the watched versions (`seen`) reach
the client each in order, in no order with one another.  `overlay` is the entry of
`DocumentOverlayCache`: one mutation and the batch it was saved with.

### WatchTarget

One target, listened to and unlistened again and again under one id.  A resume token is
the version it stands for, so that `TokenIsTrue` can say what a token means: the keys are
the result at that version, in memory (`resume`) and on disk (`saved`), which
`ShouldPersistTargetData` writes under a condition.  The server may send a diff, a diff
over a version in between, everything after a reset, or additions with an existence
filter; a document that still matches may come again.  `lastRemote` is the version of the
last snapshot that was raised, of whichever stream; it is on disk and survives a kill.
An older snapshot, which a listen with an older token brings after a newer one, is not
raised (`SkipWatchSnapshot`): what was collected stays collected until the next.

### Limbo

A document is known by the queries it matches, on the server (`truth`), in the cache
(`cached`) and with its queued write (`pending`).  A snapshot brings every target the
server has answered to one version.  `book` is the bookkeeping of `SyncEngine`; its
methods are operators on it.  `synced` and `current` are the fields of `View`.
`abandoned` is history: the references whose lookup was rejected and that are still
needed, because the view was not in step with the server (see the known cases).

### MCClient

The five parts of the client do not run at once here.  They share `RemoteStore`, and
each module models what the others need of it as choices of its own (a break, an answer,
a rejected target), so a product of their state spaces would only interleave steps that
do not touch one another.  `part` says which one runs; the others stay in their initial
state, and one run checks the properties of all five.  It instantiates the parts with
their proof modules (`LimboProofs` extends `Limbo`, and so on), so that `ClientProofs`
can cite their theorems of the very definitions TLC runs.

## Runs

| Run | Instance | Question |
| --- | --- | --- |
| `market_compete` | author with two phones, two providers, two offers, two answers | are losers told, does a lone accept stand |
| `market_overlap` | author, one provider, two offers, three answers, two at a time; or two and a kill | are answers causal, one offer per provider, no revival |
| `market_live` | author, one provider, two offers, two answers, fair | is everything told in the end |
| `market_price` | two providers, two answers | *violated*: the comment on `lst[3]` |
| `market_twice` | a provider on two devices | *violated*: the check for a second offer |
| `ratings_kept` | one rater, three accepted tasks and an open one; or two raters and a kill | is a task rated once, is the mean one behind, does it count only stored ratings |
| `ratings_mean` | one rater, one task | *violated*: the comment on `lst[1]` |
| `ratings_shown` | one rater, tasks of two providers | *violated*: the comment on `lst[0]` |
| `client_safety` | two users, three writes, pipeline of two; three listeners; a document of two fields; a target with two documents; two queries, two documents, one place | the safety properties of the five parts |
| `client_live` | the same without `LocalView`, smaller, fair | refinement, and what must happen in the end |
| `client_overlay` | a document of two fields, two writes, four versions | *violated*: the comment on LocalDocumentsView |
| `signup_home` | two phones, two emails, three presses | *violated*: the comment of `Signup()` |

### Bounds

*Marketplace.*  `MaxAnswers` bounds confirmed answers, `MaxCrashes` kills, and the sets
of offers and tasks the ids to be had.  Two offers are what a competition needs, two
answers what an overlap needs, three let a third start after two have met.  Opening,
leaving and building a screen, looking up and checking are not bounded.  `OneRival` keeps
`market_compete` to a second provider, of which one leaves the task before the other
opens it, or to a second phone of the author; offers, queues and answers interleave
freely, and `market_price` has no such bound.  `FewEvents` is three answers, or two and
a kill.  `market_overlap` turns deadlock checking off: a system whose queues were cut
before the task was stored, with no id left to draft, has nothing to do.

*Ratings.*  `MaxStrays` bounds the lookups of one task when a screen is built.
`OneRaterOrTwo` is one rater with three tasks, or two with one each and a kill.  Ids of
ratings are interchangeable, so `ratings_kept` uses their symmetry.

*Client.*  `MaxFaults`, `MaxBreaks` and `MaxCalls` bound what goes wrong and what the app
changes its mind about: three faults are a break, a restart and another break of one
write.  A pipeline of two and three writes make it full with one left over, on one user
or on two.  Three listeners are one each with an empty cache, with a cached result, and
waiting for the server.  Two writes of one document and two foreign ones reach every
order of a set, a patch and a delete around a foreign change.  Two listens, one break or
kill and two versions are a relisten with answers of the first under way.  Two queries
and two documents with one place are a shared document and a queue.  Every counter is
bounded, so all these systems stop: the runs turn deadlock checking off.

### What the violations show

`market_price`: the author confirms "Accept Offer?", and while the query waits
opens "Reject Offer?" on the same row; the accept completes, then the reject is
confirmed.  The task is accepted and its offer's document is gone; the price reads
"NO DATA".

`market_twice`: on two devices of one account HasOffered() says yes on both before
either adds.

`ratings_mean`: the mean is taken over the snapshot from before the new rating, so
it is always one behind, and the first one is NaN.

`ratings_shown`: a lookup of the task left before is answered between the lookup of
the open one and its details.

`client_overlay`: a patch is queued on a document, another client deletes it.  The patch
requires the document, so nothing is left to show; but the overlay is only written again
when one was calculated, so the old one stays, and an overlay has no precondition.  Until
the patch is answered the reader sees a document that neither the server has nor the
queue can make.  `NothingHidden` and `LastWriteShows` say what still holds.

`signup_home`: two sign-ups with one email pass the lookup together.  The second is
refused by Firebase Auth, and `whenComplete()` opens the home screen all the same.

### Fairness

`FairSpec` of `Marketplace` assumes weak fairness of `Flush` (a client that is
online retries until the server acknowledges), of the answer to a query, and of
the steps the Dart event loop runs by itself (`AcceptResume`, the loop and its end,
`RejectNotify`).  Users are not assumed to do anything.  A dialog the user leaves
open blocks only later user actions, not handlers, so liveness does not need them.
`market_live` has no kills: with them a notice may be lost for good.

`WritePipeline` assumes that the worker queue runs what is scheduled (callbacks of the
stream, the end of a backoff, a restart of the stream) and that the server handles the
requests of an open stream.  What goes wrong, breaks, refusals for now, restarts,
changes of user and of network, is bounded by `MaxFaults`, which is the assumption that
it ends.  Both fairness conditions are on the whole of what the client and the server
can do: either one always makes progress when it can move at all.  `Resolved` is about a
user who stays signed in with the network enabled.

`OnlineState` assumes that its timer fires and that network and server make progress
(`Progress`); breaks and calls are bounded.  A message that makes no target current is
not part of `Progress`, so a server that only sends such messages is not taken for one
that answers.  `WatchTarget` assumes that a stream that is wanted opens, that the client
reads what has arrived and that the server handles requests and sends what it has.
`Served` is checked without rejected listens (`Rejects = 0`), see below.  `Limbo` assumes
that the server answers a listen and that the client applies a snapshot that is there;
documents stop changing after `MaxChanges`.

## Proofs

`MarketplaceProofs` proves, for any users, devices, tasks, offers, slots and
bounds that satisfy `ConstantsAssumption`:

* `TypeCorrect`: `Spec => [](TypeOK /\ Captured)`.  `TypeOK` alone is not
  inductive: a confirmed dialog puts its offer into a handler and a handler puts
  it into writes, which are only typed if it is an offer and not `NoOffer`.
  `Captured` says so.
* `AnswersAreCausal`: `Spec => []AnswerHasOffer`.  The strengthening is `Causal`:
  only a provider queues an offer and only on another's task, and only the author
  answers it.  So what an author sees of his own task is stored, never merely queued
  on his device (`AuthorSeesStored`), and `served` only grows.  The proof splits the
  invariant into a part about the server and one for each device
  (`CausalParts`): most actions disturb one device, and a kill only shortens a queue.

The rest of `MarketplaceProofs` builds on these two, for the same constants:

* `DeletedStaysDeleted`: `Spec => NoRevival`.  The strengthening is `AddedOnce`: the
  add of an offer stands at one place in one queue, and in none once it was stored.
* `LossesAreTold`: `Spec => []NoSilentLoss`.  The strengthening is `NoticeFollows`.
  A delete in a queue is either the accept loop's, and then its notice stands behind
  it, or a reject handler's, and then that handler waits for this delete and no other.
  When the head of a queue deletes an offer, the first case leaves the notice in
  flight and the second leaves it owed.  `WaitingKept` says what may become of a
  waiting handler.  With a kill the property fails, and is not claimed.
* `VerdictsAreTrue`: `Spec => []VerdictBacked`.  It is inductive with the types: a
  lookup has seen a document (`AcceptedIsBacked`), documents are not withdrawn, and
  what leaves a queue without a kill is delivered (`PendingKept`).
* `OneOfferEach`: `OneDevicePerAccount /\ Spec => []OneOfferPerProvider`.  The
  strengthenings are `FormIsFresh`, that the check still holds while the price form
  is open, and `OwnWrites`, that a device never queues a delete of its own user's
  offer on another's task, so the view the check reads hides none.  `market_twice`
  shows that the hypothesis is needed.
* `LoneAcceptHolds`: `Spec => []LoneAcceptStands`.  The strengthening is `LoneAnswer`:
  before the first answer is confirmed no handler runs, no delete is queued, no notice
  is told or in flight (`Unanswered`), and while there was only one, the offer it has
  `Chosen` `Stands`: it is stored, and nothing is about to delete it or to tell it
  rejected.

`RatingsProofs` proves, for any users, devices, tasks, ratings and bounds:

* `TypeCorrect`: `Spec => [](TypeOK /\ Assigned)`.  `Assigned` says that a rating
  is sent of a task and a provider, which `TypeOK` alone does not.
* `MeansCountStoredRatings`: `Spec => []RateIsStored`.  The strengthening
  `CountsStored` says of every queue that a mean stands behind the ratings it counts,
  which is what first-in first-out delivery, and a kill that cuts off a suffix, keep.

and on it:

* `NobodyRatesTwice`: `OneDeviceEach => (Spec => []RatedOnce)`.  The strengthening, until
  the first kill, is `OnceInv`: the author's own device sees every rating of his tasks
  (`Seen`), since only he makes them and a view never loses what it queued; only the author gets
  as far as the bar (`Own`); and a bar or a dialog is open only while the task has no
  rating (`Fresh`).  A kill may cut the rating off the queue, and a second one is then
  made rightly.  With an account on two devices the check has the gap that
  `market_twice` shows for offers.
* `MeansAreOneBehind`: `OneDeviceEach /\ OneProvider => (Spec => []RateIsOneBehind)`, where
  `OneProvider` says that all tasks were accepted of the same provider.  On top of
  `OnceInv`, `BehindInv` says why the mean lags.  The stream is that of the provider the
  variable names (`Steady`), so what a screen or a dialog has captured are all ratings
  of that provider (`Complete`), unless somebody else rates him too.  The rating that is
  queued with the mean is not among them: the last mean a device has queued, or sent if
  none is queued, is one rating behind (`LastIsBehind`), and nobody who has not rated a
  provider queues a mean of his (`SetsByRaters`).  Without `OneProvider` the property is
  false: `provider` may change while the dialog is open, and the mean of one provider
  goes to another (`ratings_shown`).

`WriteQueueProofs`, for any users and any `MaxWrites`:

* `NoneIsDropped`, `AnswersAreTrue`, `OrderIsKept`: `Spec => []NothingDropped`,
  `[]AnswerIsTrue`, `[]StoredInOrder`.  The invariant is `TypeOK /\ Ordered /\
  NothingDropped`.  `Ordered` says that a queue holds its user's writes, increasing.  The
  order at the server then follows: the writes before `w` are before it in the queue, and
  `Reached` wants those acted on, or have left the queue, and `NothingDropped` says they
  were acted on.  `ClientProofs` carries the theorems over to the code.

`ClientProofs`, for any users, any `kMaxPendingWrites` above 0 and any
`MaxWrites`, `MaxWaits` and `MaxFaults`; the only assumption is `PipelineAssumption`,
that these are numbers:

* `PipelineImplements`: `Spec => Implements`.  Every step of the pipeline is a step of
  `WriteQueue` or changes nothing it sees.
* `PipelineAnswersTrue`, `PipelineStoresInOrder`: `[]AnswerIsTrue`, `[]StoredInOrder`,
  by the refinement from the theorems about `WriteQueue`.
* `PrefixHolds`, `StreamServes`, `CallbacksHold`, `WaitsHold`: `[]PipelineIsPrefix`,
  `[]StreamServesPipeline`, `[]CallbackHasWrite`, `WaitIsOver`.

None of these is inductive.  `Inv` adds to the types and to
the sorted queues (`QueuesInOrder`) where each write is that was sent.  Responses carry
no id, so the invariant has to count: after the handshake the responses on their way are
those of the first writes of the pipeline, the requests are those of the rest (`Rest`),
and only the last response may be an error (`InFlight`).  What a closed stream left over
was acted on before or is, in order, at the front of some queue (`LeftInOrder`): the
server may still handle it after a change of user, a restart or a refusal.  A callback
exists for just the queued writes whose callers wait (`CallbacksMatch`), and a caller of
`waitForPendingWrites()` waits for the last of the writes it asked for (`WaitsCover`).
Each operation of the remote store has a lemma that it keeps `Stream`, each action one
that it keeps `Inv` and is a step of `WriteQueue` or none.  That ids handed out after a
restart are above those in use (`LoadFact`) needs a greatest element, by well-founded
induction (`GreatestExists`).

`OnlineStateProofs`, for any targets and any `MaxBreaks` and `MaxCalls`:

* `AssertionsHold`, `OnlineHasStream`, `OfflineEveryoneTold`, `OneBreakIsUnknown`:
  `AssertsHold`, `OnlineIsOpen` and `OfflineIsTold` always, and `NoFlap` of every step.
  The strengthening is `TrackerInStep`: the timer runs only while the state is Unknown
  and nothing has failed; a state Online has no failures on record; only an enabled
  network has a started stream; the idle timer runs only without targets.  Each operation
  of the tracker has a lemma on what it returns, so the steps do not open it again.

`LocalViewProofs`, for any fields, values, `MaxWrites` and `MaxVersions`, with no
assumption at all:

* `OverlaysHaveBatches`, `NothingIsHidden`, `LastWriteIsShown`, `SettledShowsServer`:
  `[]OverlayHasBatch`, `[]NothingHidden`, `[]LastWriteShows`, `[]SettledIsServer`.  The
  invariant (`Invariance`) has a part about the overlay and one about the remote
  document.  `OverlayInv`: the overlay is that of a queued batch and sets what the *last*
  mutation of the queue sets (`Reflects`), and it is missing only while no queued mutation
  applies (`Hidden`).  `RemoteInv`: what is stored is no older than what the watch stream
  has delivered, and a synced document is the server's of that version.  `ApplyQueueFact`
  says what the recursion over the queue returns: a view that shows the last mutation,
  or the document as it was.  The overlay is *not* the whole queue, which is what
  `client_overlay` shows; the invariant keeps what is left of that claim.

`WatchTargetProofs`, for any finite set of documents that is not empty
(`WatchAssumption`) and any versions, listens, breaks and rejections:

* `TypeCorrect`: no token is ahead of the server's log, and a closed stream has nothing on
  its way.
* `TokensAreTrue`: `[]TokenIsTrue`.  The invariant is `Types /\ Claims /\ Ready`.  `Owed`: the
  aggregator waits for at least as many responses as there are requests and answers on
  their way (`Load` counts them), so the last one it waits for is that of the last
  request.  While it waits the messages change nothing; `Agrees` then says where to look.
  Nothing is owed: the messages on their way take what was collected to the server's
  result, step by step (`InStep`, `Path`).  The request is on its way: it has the token of
  the keys (`Asked`).  It was answered: the answer is on its way and the messages behind
  it begin at the keys, or it was a rejection (`Answered`).  A break empties the stream,
  so nothing has to be said across one; a kill leaves `saved`, which is why the keys have
  to be those of both tokens (`Kept`).  What the server sends is described by `Segment`s,
  which concatenate (`SegmentCat`); `DiffFact`, `ServedCounted` and the like say that each
  way of answering is one, and `CountedFact`, for existence filters, uses that a set with as
  many documents as a subset of it is that subset.  `Ready` is about the snapshots that
  are skipped.  To skip one is harmless in itself, since what was collected is the result
  at its version and stays (`SkipKeeps`), but not if a reset waits for it: additions that
  come in before the next would then be kept under no token.  So the
  message after every filter, and the next one while a reset waits, is a snapshot that
  is no older than the last raised or any before it (`Raisable`): a server that counts
  does so at the newest version (`Final`).

`LimboProofs`, for finite sets of queries and documents and any
`max_concurrent_limbo_resolutions` (`LimboAssumption`):

* `TypeCorrect`, `NoneForgotten`, `NoneLeaks`: `[]TypeOK`, `[]LimboIsLookedUp`,
  `[]NoLookupLeaks`.  The invariant says that the references are those of the documents
  in limbo, and that the bookkeeping is `Sound`: nothing is looked up twice or beyond the
  limit (`Orderly`), nothing waits while a place is free (`Full`), each lookup has a
  reference and each reference a lookup, or is `abandoned` (`Paired`).  Every operation
  keeps `Sound` (`PumpFact` to `UpdateTrackedFact`), in whatever order the documents and
  the queries are gone through; only `HandleRejectedListen` adds to `abandoned`.

`ClientProofs` ends with the client as `client_safety` runs it, for every value of the
constants that satisfies `ClientAssumption` and `PipelineAssumption`: a behaviour of
`MCSpec` is one of each part (`OnlineRuns`, `LocalRuns`, ...), so `ClientTypesOK`,
`ClientAssertsHold`, `ClientTokenIsTrue` and the others follow.

What an operator that is recursive over a sequence returns (`ApplyQueue`,
`UpdateTracked`, `DocMsgs`, the load of the stream) is shown by induction on the length,
with a set of numbers in place of a predicate: `Upwards` gets it from the
well-foundedness of the naturals (`WFMin`), `Recursion` shows that the function exists.

Model-checked and not proved:

* liveness, which needs fairness and `ENABLED`: `AcceptIsAnswered`, `OfferIsTold`,
  `Resolved`, `EveryoneHears`, `Served`, `LimboEnds`.

Every safety invariant and every action property a passing run checks is a theorem.  Every
strengthening was checked with TLC before it was proved.

## Not modelled

*Of the app.*  Reports (a check, then one document that nothing reads but a person),
the field validators (regular expressions over strings), the lists, search and
notifications (queries shown as they come), the bottom bar and the template's cart, of
which nothing is shown, and the edit pages of the profile, which change a static object
that nothing reads back.  A second press of OFFER, and signing out inside a handler.

*Between the modules.*  `Marketplace` and `Ratings` deliver every queued write once;
`WriteQueue` allows it twice.  An add that is applied again after its answer was lost
could bring back an offer that another device has deleted meanwhile, so `NoRevival` is a
statement about deliveries that are not repeated.  The modules of the app are not
composed with each other: `AcceptedOn` in `Ratings` is constant, and the user of a
device in `Marketplace` is.

*Of the Firestore client.*  Field transforms, merging sets, batches of several
documents, garbage collection, indexes, bundles, transactions, several tabs.  The server
is taken to be consistent: a lookup of one document and a query agree at one version.  A
stream that the server ends without an error is taken for a break.  Four cases are known
and kept out of a property; the last two came up when the invariants were proved, and
were outside the bounds of the runs:

* `TokenIsTrue` excludes `slipped`: an existence filter does not match, the client
  unlistens and listens again at once, and before the reset it has noted is carried out
  the app removes the listener and adds one anew.  The reset then falls on the new listen.
* `Served` is checked without rejected listens.  After a listen that the server rejects
  the aggregator may go on counting responses that never come
  (`TargetState::outstanding_responses_`), and what arrives for the target is not applied
  until the stream breaks.
* `TokenIsTrue` excludes, also under `slipped`, a rejection that falls on another listen:
  the app unlistens and listens again while the first listen is being rejected.  The
  target's state is new after the error and waits for nothing, so the answer to the
  unlisten is taken for that of the second listen, and what still comes of the first
  counts for it.
* `LimboIsLookedUp` and `LimboEnds` exclude `abandoned`: the lookup of a document is
  rejected while its view is not in step with the server.  The rejection counts as a
  deletion, but a view that is not `current_` does not recalculate its limbo documents
  (`View::UpdateLimboDocuments`), so the reference stays.  If the cache gets the document
  again before the view is in step, it is in limbo as before and is not "added", and
  nobody looks it up.

## Plan

Done: `Marketplace` and the proofs of its safety properties; `Ratings` and the proofs of
its own; `Accounts`; the five parts of the Firestore client,
the refinement of `WriteQueue` and its proof, and the proofs of every safety property
of the client that a run checks.

Next, in this order:

1. Redelivery in `Marketplace`: `Flush` that applies the head and keeps it.  `NoRevival`
   has to be stated anew, and its proof with it.
2. `Oun`: accounts, marketplace and ratings composed, so that acceptances come about and
   a log-out can fall into a handler.
3. `WatchTarget` and `Limbo` on one stream, so that limbo lookups meet resets.
