----------------------------- MODULE OnlineState -----------------------------
(***************************************************************************)
(* Whether the Firestore client believes it is online: the watch stream of *)
(* RemoteStore, OnlineStateTracker with its timer of ten seconds, and what *)
(* a listener hears because of it.  A listener of a query that is not in   *)
(* the cache hears nothing while the state is Unknown; it is told what the *)
(* cache has once the state is Offline.  There is one listener per target, *)
(* and every handler runs alone on the worker queue.                       *)
(***************************************************************************)
EXTENDS Naturals

CONSTANTS
    Targets,      \* the queries the app may listen to
    Cached,       \* those with documents in the cache
    WaitForSync,  \* those whose listener waits for the server when online
    MaxBreaks,    \* bound: errors of the stream
    MaxCalls      \* bound: changes of network and listeners removed

VARIABLES
    enabled,  \* RemoteStore::is_network_enabled_
    listen,   \* RemoteStore::listen_targets_
    stream,   \* Stream::state_ of the watch stream; Open stands for Healthy
    idle,     \* Stream::idleness_timer_
    asked,    \* the stream has sent a request the server can respond to
    tracker,  \* OnlineStateTracker, see NewTracker
    current,  \* View::current_ of each target
    heard,    \* QueryListener::raised_initial_event_ of each target
    breaks, calls

vars == <<enabled, listen, stream, idle, asked, tracker, current, heard,
          breaks, calls>>

-----------------------------------------------------------------------------
(* OnlineStateTracker.  "sound" is FALSE once an assertion has failed.     *)

kMaxWatchStreamFailures == 1

NewTracker == [state |-> "Unknown", failures |-> 0, timer |-> FALSE,
               sound |-> TRUE]

HandleWatchStreamStart(o) ==
    IF o.failures /= 0 THEN o
    ELSE [o EXCEPT !.state = "Unknown", !.timer = TRUE,
                   !.sound = @ /\ ~o.timer]

(* Mutant: a failure leaves the timer running. *)
FailureKeepsTimer(o) ==
    IF o.state = "Online" THEN [o EXCEPT !.state = "Unknown"]
    ELSE [o EXCEPT !.failures = @ + 1, !.state = "Offline"]

(* Mutant: any failure counts. *)
FailureAtOnce(o) ==
    [o EXCEPT !.failures = @ + 1, !.timer = FALSE, !.state = "Offline"]

HandleWatchStreamFailure(o) ==
    IF o.state = "Online"
    THEN [o EXCEPT !.state = "Unknown",
                   !.sound = @ /\ o.failures = 0 /\ ~o.timer]
    ELSE LET failed == [o EXCEPT !.failures = @ + 1]
         IN  IF failed.failures >= kMaxWatchStreamFailures
             THEN [failed EXCEPT !.timer = FALSE, !.state = "Offline"]
             ELSE failed

UpdateState(o, new) ==
    [o EXCEPT !.timer = FALSE, !.failures = 0, !.state = new]

-----------------------------------------------------------------------------
(* RemoteStore, View and QueryListener.                                    *)

IsStarted(s) == s \in {"Starting", "Backoff", "Open"}

Stopped(s) == IF IsStarted(s) THEN "Initial" ELSE s

Started(s) == IF s = "Error" THEN "Backoff" ELSE "Starting"

(* Whether the first event of the listener of t is raised, given whether   *)
(* its snapshot is synced.                                                 *)
ShouldRaiseInitialEvent(t, state, synced) ==
    \/ synced
    \/ /\ ~(t \in WaitForSync /\ state /= "Offline")
       /\ t \in Cached \/ state = "Offline"

(* Mutant: the views stay current. *)
BroadcastKeepsCurrent(state, views) ==
    /\ current' = views
    /\ heard' = [t \in Targets |->
         heard[t] \/ (t \in listen' /\ ShouldRaiseInitialEvent(t, state, views[t]))]

(* SetAndBroadcast() of a state, after the views became "views".           *)
Broadcast(state, views) ==
    LET synced == [t \in Targets |-> views[t] /\ state /= "Offline"]
    IN  /\ current' = synced
        /\ heard' = [t \in Targets |->
             /\ t \in listen'
             /\ heard[t] \/ ShouldRaiseInitialEvent(t, state, synced[t])]

ShouldStartWatchStream == enabled /\ ~IsStarted(stream) /\ listen /= {}

(* OnWatchStreamClose() of a stream that Stop() has closed: the tracker o  *)
(* afterwards.  Nothing is called when the stream was not started.         *)
ClosedGracefully(o) ==
    IF IsStarted(stream) THEN UpdateState(o, "Unknown") ELSE o

Init ==
    /\ enabled = TRUE
    /\ listen = {}
    /\ stream = "Initial"
    /\ idle = FALSE /\ asked = FALSE
    /\ tracker = NewTracker
    /\ current = [t \in Targets |-> FALSE]
    /\ heard = [t \in Targets |-> FALSE]
    /\ breaks = 0 /\ calls = 0

-----------------------------------------------------------------------------
(* Calls of the app.                                                       *)

Listen(t) ==
    /\ t \notin listen
    /\ listen' = listen \cup {t}
    /\ \/ /\ enabled /\ ~IsStarted(stream)
          /\ stream' = Started(stream)
          /\ tracker' = HandleWatchStreamStart(tracker)
          /\ UNCHANGED <<idle, asked>>
       \/ /\ stream = "Open"
          /\ asked' = TRUE /\ idle' = FALSE
          /\ UNCHANGED <<stream, tracker>>
       \/ /\ ~enabled \/ stream \in {"Starting", "Backoff"}
          /\ UNCHANGED <<stream, idle, asked, tracker>>
    /\ Broadcast(tracker'.state, current)
    /\ UNCHANGED <<enabled, breaks, calls>>

StopListening(t) ==
    /\ t \in listen /\ calls < MaxCalls
    /\ listen' = listen \ {t}
    /\ \/ /\ stream = "Open"
          /\ asked' = TRUE
          /\ idle' = (listen' = {})
          /\ UNCHANGED tracker
       \/ /\ stream /= "Open"
          /\ tracker' = IF listen' = {} /\ enabled
                        THEN UpdateState(tracker, "Unknown") ELSE tracker
          /\ UNCHANGED <<asked, idle>>
    /\ Broadcast(tracker'.state, [current EXCEPT ![t] = FALSE])
    /\ calls' = calls + 1
    /\ UNCHANGED <<enabled, stream, breaks>>

DisableNetwork ==
    /\ calls < MaxCalls
    /\ enabled' = FALSE
    /\ stream' = Stopped(stream)
    /\ tracker' = UpdateState(ClosedGracefully(tracker), "Offline")
    /\ idle' = FALSE /\ asked' = FALSE
    /\ UNCHANGED <<listen, breaks>>
    /\ Broadcast("Offline", current)
    /\ calls' = calls + 1

EnableNetwork ==
    /\ calls < MaxCalls
    /\ enabled' = TRUE
    /\ IF ~IsStarted(stream) /\ listen /= {}
       THEN /\ stream' = Started(stream)
            /\ tracker' = HandleWatchStreamStart(tracker)
       ELSE /\ tracker' = UpdateState(tracker, "Unknown")
            /\ UNCHANGED stream
    /\ UNCHANGED <<listen, idle, asked, breaks>>
    /\ Broadcast(tracker'.state, current)
    /\ calls' = calls + 1

(* Another user signs in or the device has a network again.                *)
RestartNetwork ==
    /\ calls < MaxCalls
    /\ enabled
    /\ stream' = IF listen = {} THEN "Initial" ELSE "Starting"
    /\ LET reset == UpdateState(ClosedGracefully(tracker), "Unknown")
       IN  tracker' = IF listen = {} THEN reset
                      ELSE HandleWatchStreamStart(reset)
    /\ idle' = FALSE /\ asked' = FALSE
    /\ UNCHANGED <<enabled, listen, breaks>>
    /\ Broadcast(tracker'.state, current)
    /\ calls' = calls + 1

-----------------------------------------------------------------------------
(* Callbacks of the stream and of the timers.                              *)

BackoffElapsed ==
    /\ stream = "Backoff"
    /\ stream' = "Starting"
    /\ UNCHANGED <<enabled, listen, idle, asked, tracker, current, heard,
                   breaks, calls>>

OnWatchStreamOpen ==
    /\ stream = "Starting"
    /\ stream' = "Open"
    /\ asked' = (listen /= {})
    /\ UNCHANGED <<enabled, listen, idle, tracker, current, heard, breaks,
                   calls>>

(* Mutant: the stream is not started again. *)
StreamErrorEnds ==
    /\ stream \in {"Starting", "Open"}
    /\ breaks < MaxBreaks
    /\ idle' = FALSE /\ asked' = FALSE
    /\ tracker' = UpdateState(tracker, "Unknown")
    /\ stream' = "Error"
    /\ UNCHANGED <<enabled, listen, calls>>
    /\ Broadcast("Unknown", current)
    /\ breaks' = breaks + 1

(* OnStreamFinish() of an error, before or after the stream is open.       *)
StreamError ==
    /\ stream \in {"Starting", "Open"}
    /\ breaks < MaxBreaks
    /\ idle' = FALSE /\ asked' = FALSE
    /\ IF enabled /\ listen /= {}
       THEN /\ tracker' = HandleWatchStreamStart(HandleWatchStreamFailure(tracker))
            /\ stream' = "Backoff"
       ELSE /\ tracker' = UpdateState(tracker, "Unknown")
            /\ stream' = "Error"
    /\ UNCHANGED <<enabled, listen, calls>>
    /\ Broadcast(tracker'.state, current)
    /\ breaks' = breaks + 1

(* Mutant: the tracker keeps its state when the stream is stopped. *)
IdleTimeoutSilent ==
    /\ idle
    /\ idle' = FALSE
    /\ stream' = "Initial"
    /\ asked' = FALSE
    /\ UNCHANGED <<enabled, listen, tracker, current, heard, breaks, calls>>

IdleTimeout ==
    /\ idle
    /\ idle' = FALSE
    /\ stream' = "Initial"
    /\ asked' = FALSE
    /\ tracker' = [ClosedGracefully(tracker) EXCEPT !.sound = @ /\ listen = {}]
    /\ UNCHANGED <<enabled, listen, breaks, calls>>
    /\ Broadcast("Unknown", current)

(* A message that makes no target current: an acknowledgement, documents.  *)
OnWatchStreamChange ==
    /\ stream = "Open" /\ asked
    /\ tracker' = UpdateState(tracker, "Online")
    /\ UNCHANGED <<enabled, listen, stream, idle, asked, breaks, calls>>
    /\ Broadcast("Online", current)

(* A snapshot after which t is current.                                    *)
RaiseWatchSnapshot(t) ==
    /\ stream = "Open" /\ asked /\ t \in listen
    /\ tracker' = UpdateState(tracker, "Online")
    /\ UNCHANGED <<enabled, listen, stream, idle, asked, breaks, calls>>
    /\ Broadcast("Online", [current EXCEPT ![t] = TRUE])

(* The server rejects t; its listener is told and removed.                 *)
ProcessTargetError(t) ==
    /\ stream = "Open" /\ asked /\ t \in listen
    /\ calls < MaxCalls
    /\ tracker' = UpdateState(tracker, "Online")
    /\ listen' = listen \ {t}
    /\ UNCHANGED <<enabled, stream, idle, asked, breaks>>
    /\ Broadcast("Online", [current EXCEPT ![t] = FALSE])
    /\ calls' = calls + 1

OnlineStateTimeout ==
    /\ tracker.timer
    /\ tracker' = [tracker EXCEPT !.timer = FALSE, !.state = "Offline",
                                  !.sound = @ /\ tracker.state = "Unknown"]
    /\ UNCHANGED <<enabled, listen, stream, idle, asked, breaks, calls>>
    /\ Broadcast("Offline", current)

Call ==
    \/ \E t \in Targets : Listen(t) \/ StopListening(t)
    \/ DisableNetwork \/ EnableNetwork \/ RestartNetwork

(* What the network and the server do when they work.                      *)
Progress ==
    \/ BackoffElapsed
    \/ OnWatchStreamOpen
    \/ \E t \in Targets : ~current[t] /\ RaiseWatchSnapshot(t)

Next ==
    \/ Call
    \/ Progress
    \/ StreamError
    \/ OnWatchStreamChange
    \/ \E t \in Targets : RaiseWatchSnapshot(t) \/ ProcessTargetError(t)
    \/ IdleTimeout
    \/ OnlineStateTimeout

Spec == Init /\ [][Next]_vars

(* The timers fire, the worker queue and the server do what there is to do;*)
(* breaks and calls come to an end (MaxBreaks, MaxCalls).                  *)
FairSpec == Spec /\ WF_vars(OnlineStateTimeout) /\ WF_vars(Progress)

-----------------------------------------------------------------------------
(* Properties.                                                             *)

(* The variables have their types; requests and the idle timer belong to  *)
(* an open stream, the timer of the tracker to one that was started.       *)
TypeOK ==
    /\ enabled \in BOOLEAN /\ idle \in BOOLEAN /\ asked \in BOOLEAN
    /\ listen \subseteq Targets
    /\ stream \in {"Initial", "Starting", "Backoff", "Open", "Error"}
    /\ tracker \in [state : {"Unknown", "Online", "Offline"},
                    failures : 0..MaxBreaks, timer : BOOLEAN, sound : BOOLEAN]
    /\ current \in [Targets -> BOOLEAN] /\ heard \in [Targets -> BOOLEAN]
    /\ breaks \in 0..MaxBreaks /\ calls \in 0..MaxCalls
    /\ asked \/ idle => stream = "Open"
    /\ tracker.timer => IsStarted(stream)

(* No HARD_ASSERT of OnlineStateTracker or of OnWatchStreamClose() fails:  *)
(* the timer is never started twice, it only fires while the state is      *)
(* Unknown, an Online client has no failures on record, and the idle timer *)
(* never stops a stream that has targets.                                  *)
AssertsHold == tracker.sound

(* The client only believes it is online while the watch stream is open    *)
(* and a response has come on this very stream.                            *)
OnlineIsOpen == tracker.state = "Online" => stream = "Open" /\ asked

(* While the client is offline no view claims to be in step with the       *)
(* server and no listener is left without an answer from the cache.        *)
OfflineIsTold ==
    tracker.state = "Offline" =>
        \A t \in Targets : ~current[t] /\ (t \in listen => heard[t])

(* One break of a working stream is not taken for being offline: the state *)
(* goes through Unknown, and a second failure or ten seconds follow.       *)
NoFlap ==
    [][tracker.state = "Online" /\ enabled' => tracker'.state /= "Offline"]_vars

(* When network and server work in the end every listener hears something, *)
(* also one that waits for the server.                                     *)
EveryoneHears ==
    \A t \in Targets : t \in listen ~> (heard[t] \/ t \notin listen)
=============================================================================
