------------------------------ MODULE Ratings ------------------------------
(***************************************************************************)
(* The ratings of OUN.  Once an offer is accepted, the detail screen of    *)
(* the task's author shows the accepted provider and a rating bar.  A      *)
(* rating adds a document to `rate' and then overwrites the field `rate'   *)
(* of the provider's document in `users' with the mean of the ratings the  *)
(* screen had received when the bar was touched.                           *)
(*                                                                         *)
(* The provider a screen works on is not a field of the screen: it is the  *)
(* variable `provider' of the library, which every isAccepted() of every   *)
(* screen of the device assigns to when its query is answered.             *)
(*                                                                         *)
(* A mean is represented by the set of the ratings it is the mean of: {r}  *)
(* is the rating r itself and {} is the quotient 0 / 0, NaN in Dart.       *)
(***************************************************************************)
EXTENDS Naturals, Sequences, FiniteSets

CONSTANTS
  Users,       \* accounts
  Devices,     \* installations of the app
  UserOf,      \* the account of a device
  Tasks,       \* ids of the documents of `tasks'
  AuthorOf,    \* field 'author' of a task
  AcceptedOn,  \* the providers the "accepted" documents of a task name
  Ratings,     \* ids of the documents of `rate'
  NoTask, NoUser, NoId,
  MaxStrays,   \* bound: such lookups of one task when a screen is built
  MaxCrashes   \* bound: times an app is killed in a behaviour

ASSUME RatingsAssumption ==
  /\ UserOf \in [Devices -> Users]
  /\ AuthorOf \in [Tasks -> Users]
  /\ AcceptedOn \in [Tasks -> SUBSET Users]
  /\ NoTask \notin Tasks
  /\ NoUser \notin Users
  /\ NoId \notin Ratings
  /\ MaxStrays \in Nat
  /\ MaxCrashes \in Nat

VARIABLES
  rates,      \* server: ids of the documents of `rate'
  userRate,   \* server: field 'rate' of the documents of `users'
  outbox,     \* outbox[d]: writes of d the server has not acknowledged
  about,      \* about[r]: fields 'task' and 'user' of a rating once it is made
  provider,   \* provider[d]: the variable of the library
  page,       \* page[d]: the task whose detail screen is open, or NoTask
  stage,      \* stage[d]: how far the author's part of the screen is built
  shown,      \* shown[d]: the provider whose name, rate and phone are shown
  queried,    \* queried[d]: the provider whose ratings are streamed
  data,       \* data[d]: the ratings the stream has delivered, or NoData
  dialog,     \* dialog[d]: the open "Rating" dialog, or NoDialog
  strays,     \* strays[d][t]: isAccepted() of t running for its side effect only
  crashes     \* history: apps killed, for the bound MaxCrashes

server == <<rates, userRate>>
screen == <<page, stage, shown, queried, data, dialog>>
vars == <<server, outbox, about, provider, screen, strays, crashes>>

-----------------------------------------------------------------------------
\* The stream has delivered nothing yet.
NoData == {NoId}

\* The rate 0 a new account is created with.
Unrated == {NoId}

NoDialog == [rating |-> NoId, data |-> NoData]

NoRating == [task |-> NoTask, user |-> NoUser]

Made == {r \in Ratings : about[r] # NoRating}

AddRate(r) == [op |-> "add", rating |-> r]
SetRate(p, mean) == [op |-> "set", user |-> p, mean |-> mean]

Write == {AddRate(r) : r \in Ratings}
           \cup {SetRate(p, m) : p \in Users, m \in SUBSET Ratings}

Pending(d) == {outbox[d][i] : i \in 1..Len(outbox[d])}

\* What a query of `rate' on d returns.
ViewRates(d) == rates \cup {r \in Ratings : AddRate(r) \in Pending(d)}

\* Mutant: israted() asked of the server, without the device's own queue.
IsRatedOnServer(d, t) == \E r \in rates : about[r].task = t

\* israted(): some rating names the task.
IsRated(d, t) == \E r \in ViewRates(d) : about[r].task = t

\* isAccepted(): exactly one "accepted" document names the task.
IsAccepted(t) == Cardinality(AcceptedOn[t]) = 1

\* isAccepted() of t is answered: provider becomes the user of the last
\* document, in the order of the query, if there is one.
AssignProvider(d, t) ==
  \/ /\ AcceptedOn[t] = {}
     /\ UNCHANGED provider
  \/ \E p \in AcceptedOn[t] : provider' = [provider EXCEPT ![d] = p]

\* build() of the detail screen of t.  On the author's screen it starts three
\* isAccepted(): the chip's, the heading's and the one that decides what the
\* lower part shows; on any other screen two.  The one the author's screen
\* was still waiting for goes on with the others.
Build(d, t) ==
  LET own == AuthorOf[t] = UserOf[d]
      left == IF stage[d] = "waiting" THEN [strays[d] EXCEPT ![page[d]] = @ + 1]
                                      ELSE strays[d] IN
  /\ stage' = [stage EXCEPT ![d] = IF own THEN "waiting" ELSE "other"]
  /\ left[t] + 2 <= MaxStrays
  /\ strays' = [strays EXCEPT ![d] = [left EXCEPT ![t] = @ + 2]]

\* The widgets of the lower part and what they hold are gone.
ClearPart(d) ==
  /\ shown' = [shown EXCEPT ![d] = NoUser]
  /\ queried' = [queried EXCEPT ![d] = NoUser]
  /\ data' = [data EXCEPT ![d] = NoData]

-----------------------------------------------------------------------------
Init ==
  /\ rates = {}
  /\ userRate = [u \in Users |-> Unrated]
  /\ outbox = [d \in Devices |-> <<>>]
  /\ about = [r \in Ratings |-> NoRating]
  /\ provider = [d \in Devices |-> NoUser]
  /\ page = [d \in Devices |-> NoTask]
  /\ stage = [d \in Devices |-> "none"]
  /\ shown = [d \in Devices |-> NoUser]
  /\ queried = [d \in Devices |-> NoUser]
  /\ data = [d \in Devices |-> NoData]
  /\ dialog = [d \in Devices |-> NoDialog]
  /\ strays = [d \in Devices |-> [t \in Tasks |-> 0]]
  /\ crashes = 0

\* A tap on a task of a list.
OpenDetail(d, t) ==
  /\ page[d] = NoTask
  /\ page' = [page EXCEPT ![d] = t]
  /\ Build(d, t)
  /\ UNCHANGED <<server, outbox, about, provider, shown, queried, data, dialog,
                 crashes>>

\* The back arrow; no lookup is cancelled.
Back(d) ==
  /\ page[d] # NoTask
  /\ dialog[d] = NoDialog
  /\ page' = [page EXCEPT ![d] = NoTask]
  /\ stage' = [stage EXCEPT ![d] = "none"]
  /\ strays' = IF stage[d] = "waiting" THEN [strays EXCEPT ![d][page[d]] = @ + 1]
                                       ELSE strays
  /\ ClearPart(d)
  /\ UNCHANGED <<server, outbox, about, provider, dialog, crashes>>

\* The screen is built again, after a rotation for instance.
Rebuild(d) ==
  /\ page[d] # NoTask
  /\ Build(d, page[d])
  /\ ClearPart(d)
  /\ UNCHANGED <<server, outbox, about, provider, page, dialog, crashes>>

\* An isAccepted() the screen does not wait for, or no more, is answered.
StrayDone(d, t) ==
  /\ strays[d][t] > 0
  /\ strays' = [strays EXCEPT ![d][t] = @ - 1]
  /\ AssignProvider(d, t)
  /\ UNCHANGED <<server, outbox, about, screen, crashes>>

\* The isAccepted() that decides the lower part is answered.
LookupDone(d) ==
  /\ stage[d] = "waiting"
  /\ AssignProvider(d, page[d])
  /\ stage' = [stage EXCEPT ![d] = IF IsAccepted(page[d]) THEN "accepted" ELSE "offers"]
  /\ UNCHANGED <<server, outbox, about, page, shown, queried, data, dialog,
                 strays, crashes>>

\* The lower part is built and fetches the name, rate and phone of provider.
FetchDetails(d) ==
  /\ stage[d] = "accepted"
  /\ stage' = [stage EXCEPT ![d] = "details"]
  /\ shown' = [shown EXCEPT ![d] = provider[d]]
  /\ UNCHANGED <<server, outbox, about, provider, page, queried, data, dialog,
                 strays, crashes>>

\* israted() is answered: unless the task is rated, the rating bar is built
\* over a stream of the ratings of provider.
IsRatedDone(d) ==
  /\ stage[d] = "details"
  /\ \/ /\ IsRated(d, page[d])
        /\ stage' = [stage EXCEPT ![d] = "rated"]
        /\ UNCHANGED queried
     \/ /\ ~IsRated(d, page[d])
        /\ stage' = [stage EXCEPT ![d] = "bar"]
        /\ queried' = [queried EXCEPT ![d] = provider[d]]
  /\ UNCHANGED <<server, outbox, about, provider, page, shown, data, dialog,
                 strays, crashes>>

\* Mutant: the stream without the device's own queue.
ViewOfOnServer(d, p) == {r \in rates : about[r].user = p}

\* The ratings of a user on d.
ViewOf(d, p) == {r \in ViewRates(d) : about[r].user = p}

\* The stream delivers.  It may lag behind the server, never behind d itself.
StreamData(d) ==
  /\ stage[d] = "bar"
  /\ data' = [data EXCEPT ![d] = ViewOf(d, queried[d])]
  /\ UNCHANGED <<server, outbox, about, provider, page, stage, shown, queried,
                 dialog, strays, crashes>>

\* A touch of the bar opens "your rate is ..." over the data of this moment.
TouchBar(d, r) ==
  /\ stage[d] = "bar"
  /\ dialog[d] = NoDialog
  /\ r \notin Made
  /\ dialog' = [dialog EXCEPT ![d] = [rating |-> r, data |-> data[d]]]
  /\ UNCHANGED <<server, outbox, about, provider, page, stage, shown, queried,
                 data, strays, crashes>>

\* Cancel.
CancelRate(d) ==
  /\ dialog[d] # NoDialog
  /\ dialog' = [dialog EXCEPT ![d] = NoDialog]
  /\ UNCHANGED <<server, outbox, about, provider, page, stage, shown, queried,
                 data, strays, crashes>>

\* What the provider's rate becomes: the mean of the captured ratings, this
\* one not counted, or this rating alone when nothing was captured.
RateMean(d) ==
  IF dialog[d].data = NoData THEN {dialog[d].rating} ELSE dialog[d].data

\* Mutant: the variable was cleared with the screen.
RateUserCleared(d) == NoUser

\* Who is rated: provider as it is now.
RateUser(d) == provider[d]

\* Mutant: the provider's rate is updated first.
RateWritesUpdateFirst(r, u, mean) == <<SetRate(u, mean), AddRate(r)>>

\* The two writes, neither of which is awaited.
RateWrites(r, u, mean) == <<AddRate(r), SetRate(u, mean)>>

\* Rate: the rating, the provider's new rate, and setState.
RateOk(d) ==
  LET r == dialog[d].rating IN
  /\ dialog[d] # NoDialog
  /\ r \notin Made
  /\ about' = [about EXCEPT ![r] = [task |-> page[d], user |-> RateUser(d)]]
  /\ outbox' = [outbox EXCEPT ![d] = @ \o RateWrites(r, RateUser(d), RateMean(d))]
  /\ dialog' = [dialog EXCEPT ![d] = NoDialog]
  /\ Build(d, page[d])
  /\ ClearPart(d)
  /\ UNCHANGED <<server, provider, page, crashes>>

\* The server applies the oldest write of d.
Flush(d) ==
  LET w == Head(outbox[d]) IN
  /\ outbox[d] # <<>>
  /\ outbox' = [outbox EXCEPT ![d] = Tail(@)]
  /\ rates' = IF w.op = "add" THEN rates \cup {w.rating} ELSE rates
  /\ userRate' = IF w.op = "set" THEN [userRate EXCEPT ![w.user] = w.mean] ELSE userRate
  /\ UNCHANGED <<about, provider, screen, strays, crashes>>

\* The app is killed and started again: the variable of the library and the
\* screen are new, and of the queue what the client had stored is left.
Crash(d) ==
  /\ crashes < MaxCrashes
  /\ crashes' = crashes + 1
  /\ \E k \in 0..Len(outbox[d]) : outbox' = [outbox EXCEPT ![d] = SubSeq(@, 1, k)]
  /\ provider' = [provider EXCEPT ![d] = NoUser]
  /\ page' = [page EXCEPT ![d] = NoTask]
  /\ stage' = [stage EXCEPT ![d] = "none"]
  /\ ClearPart(d)
  /\ dialog' = [dialog EXCEPT ![d] = NoDialog]
  /\ strays' = [strays EXCEPT ![d] = [t \in Tasks |-> 0]]
  /\ UNCHANGED <<server, about>>

Next ==
  \E d \in Devices :
    \/ \E t \in Tasks : OpenDetail(d, t) \/ StrayDone(d, t)
    \/ Back(d)
    \/ Rebuild(d)
    \/ LookupDone(d)
    \/ FetchDetails(d)
    \/ IsRatedDone(d)
    \/ StreamData(d)
    \/ \E r \in Ratings : TouchBar(d, r)
    \/ CancelRate(d)
    \/ RateOk(d)
    \/ Flush(d)
    \/ Crash(d)

Spec == Init /\ [][Next]_vars

-----------------------------------------------------------------------------
TypeOK ==
  /\ rates \in SUBSET Ratings
  /\ userRate \in [Users -> (SUBSET Ratings) \cup {Unrated}]
  /\ outbox \in [Devices -> Seq(Write)]
  /\ about \in [Ratings -> [task: Tasks, user: Users] \cup {NoRating}]
  /\ provider \in [Devices -> Users \cup {NoUser}]
  /\ page \in [Devices -> Tasks \cup {NoTask}]
  /\ stage \in [Devices ->
       {"none", "other", "waiting", "offers", "accepted", "details", "bar", "rated"}]
  /\ shown \in [Devices -> Users \cup {NoUser}]
  /\ queried \in [Devices -> Users \cup {NoUser}]
  /\ data \in [Devices -> (SUBSET Ratings) \cup {NoData}]
  /\ dialog \in [Devices ->
       [rating: Ratings, data: (SUBSET Ratings) \cup {NoData}] \cup {NoDialog}]
  /\ strays \in [Devices -> [Tasks -> Nat]]
  /\ crashes \in 0..MaxCrashes

RatingsOf(u) == {r \in Made : about[r].user = u}

\* The accounts that rated u: only the author of a task sees its rating bar.
RatersOf(u) == {AuthorOf[about[r].task] : r \in RatingsOf(u)}

Quiet == \A d \in Devices : outbox[d] = <<>>

\* The server's mean never counts a rating the server does not have: what the
\* screen captured was stored, or stands before the mean in the same queue.
RateIsStored ==
  \A u \in Users : userRate[u] # Unrated => userRate[u] \subseteq rates

\* israted() and the bar it hides hold together: while an account has one
\* device and none is killed, a task is rated at most once.
RatedOnce ==
  crashes = 0 =>
    \A r1, r2 \in Made : about[r1].task = about[r2].task => r1 = r2

\* With one rater the mean is one rating behind: when everything is sent, the
\* last rating is the only one it does not count, or, if the bar was touched
\* before the stream delivered, the only one it counts.
RateIsOneBehind ==
  crashes = 0 /\ Quiet =>
    \A u \in Users : Cardinality(RatersOf(u)) = 1 =>
      \E r \in RatingsOf(u) : userRate[u] \in {RatingsOf(u) \ {r}, {r}}

\* "lst[1] is his/her ratings": when everything is sent, the rate that is
\* shown of a rated provider is the mean of his ratings.
RateIsMean ==
  Quiet => \A u \in Users : RatingsOf(u) # {} => userRate[u] = RatingsOf(u)

\* "lst[0] is the name of the provider": the screen shows the provider its
\* task was accepted of.
ShownIsAccepted ==
  \A d \in Devices : shown[d] # NoUser => shown[d] \in AcceptedOn[page[d]]

-----------------------------------------------------------------------------
(* What makes the invariants above inductive.                              *)

\* A screen that shows or rates a provider has one, and a dialog a screen.
Assigned ==
  \A d \in Devices :
    /\ stage[d] \in {"accepted", "details", "bar", "rated"} => provider[d] \in Users
    /\ stage[d] \notin {"none", "other"} => page[d] \in Tasks
    /\ dialog[d] # NoDialog => provider[d] \in Users /\ page[d] \in Tasks

\* The writes of d that precede the i-th.
Before(d, i) == {outbox[d][j] : j \in 1..(i - 1)}

\* What d captured, and what a queued mean counts, is stored or precedes it.
CountsStored ==
  \A d \in Devices :
    /\ data[d] # NoData => data[d] \subseteq ViewRates(d)
    /\ dialog[d].data # NoData => dialog[d].data \subseteq ViewRates(d)
    /\ \A i \in 1..Len(outbox[d]) : outbox[d][i].op = "set" =>
         \A r \in outbox[d][i].mean : r \in rates \/ AddRate(r) \in Before(d, i)

=============================================================================
