-------------------------- MODULE OnlineStateProofs --------------------------
(***************************************************************************)
(* What a listener may rely on, for any queries and any number of breaks   *)
(* and calls: the assertions of OnlineStateTracker hold, Online means an   *)
(* open stream that has answered, and Offline means that everybody was     *)
(* told.                                                                   *)
(***************************************************************************)
EXTENDS OnlineState, TLAPS

(* Why the tracker's assertions hold: its timer runs only while the state  *)
(* is Unknown and nothing failed yet; a stream is started only while the   *)
(* network is enabled, so a stream that is open takes every new listener   *)
(* and stops its idle timer for it.                                        *)
TrackerInStep ==
    /\ tracker.timer => tracker.state = "Unknown" /\ tracker.failures = 0
    /\ tracker.state = "Online" => tracker.failures = 0
    /\ tracker.failures <= breaks
    /\ IsStarted(stream) => enabled
    /\ idle => listen = {}

(* The part of the invariant that does not look at the views.              *)
Safe == AssertsHold /\ OnlineIsOpen /\ TrackerInStep

(* The inductive invariant.                                                *)
Inv == TypeOK /\ Safe /\ OfflineIsTold

(* Types of the tracker, its count of failures not bounded.                *)
Trackers == [state : {"Unknown", "Online", "Offline"},
             failures : Nat, timer : BOOLEAN, sound : BOOLEAN]

(* What the operations of the tracker return.                              *)
LEMMA UpdateStateFact ==
  ASSUME NEW o \in Trackers, NEW new \in {"Unknown", "Online", "Offline"}
  PROVE  /\ UpdateState(o, new) \in Trackers
         /\ UpdateState(o, new).state = new
         /\ UpdateState(o, new).failures = 0
         /\ UpdateState(o, new).timer = FALSE
         /\ UpdateState(o, new).sound = o.sound
  BY DEF UpdateState, Trackers

(* A stream that starts sets the timer, unless something failed.           *)
LEMMA StartFact ==
  ASSUME NEW o \in Trackers, o.timer = FALSE, o.sound = TRUE
  PROVE  LET r == HandleWatchStreamStart(o) IN
         /\ r \in Trackers /\ r.sound = TRUE /\ r.failures = o.failures
         /\ r.state = IF o.failures = 0 THEN "Unknown" ELSE o.state
         /\ r.timer => o.failures = 0
  BY DEF HandleWatchStreamStart, Trackers

(* A failure stops the timer; one while Online makes the state Unknown,    *)
(* any other Offline.                                                      *)
LEMMA FailureFact ==
  ASSUME NEW o \in Trackers, o.sound = TRUE,
         o.state = "Online" => o.failures = 0 /\ o.timer = FALSE
  PROVE  LET r == HandleWatchStreamFailure(o) IN
         /\ r \in Trackers /\ r.sound = TRUE /\ r.timer = FALSE
         /\ r.failures = IF o.state = "Online" THEN 0 ELSE o.failures + 1
         /\ r.state = IF o.state = "Online" THEN "Unknown" ELSE "Offline"
  <1>1. CASE o.state = "Online"
    BY <1>1 DEF HandleWatchStreamFailure, Trackers
  <1>2. CASE o.state /= "Online"
    <2> DEFINE failed == [o EXCEPT !.failures = @ + 1]
    <2>1. /\ failed \in Trackers /\ failed.sound = TRUE
          /\ failed.failures = o.failures + 1 /\ failed.failures >= 1
      BY DEF Trackers
    <2>2. HandleWatchStreamFailure(o) = [failed EXCEPT !.timer = FALSE, !.state = "Offline"]
      BY <1>2, <2>1 DEF HandleWatchStreamFailure, kMaxWatchStreamFailures
    <2> HIDE DEF failed
    <2> QED
      BY <1>2, <2>1, <2>2 DEF Trackers
  <1> QED
    BY <1>1, <1>2

(* A broadcast leaves nobody without an answer when the state is Offline.  *)
LEMMA BroadcastTells ==
  ASSUME NEW views \in [Targets -> BOOLEAN], heard \in [Targets -> BOOLEAN],
         Broadcast(tracker'.state, views)
  PROVE  /\ current' \in [Targets -> BOOLEAN] /\ heard' \in [Targets -> BOOLEAN]
         /\ OfflineIsTold'
  <1> DEFINE synced == [t \in Targets |-> views[t] /\ tracker'.state /= "Offline"]
  <1>1. /\ current' = synced
        /\ heard' = [t \in Targets |->
              /\ t \in listen'
              /\ heard[t] \/ ShouldRaiseInitialEvent(t, tracker'.state, synced[t])]
    BY DEF Broadcast
  <1>2. synced \in [Targets -> BOOLEAN]
    OBVIOUS
  <1>3. heard' \in [Targets -> BOOLEAN]
    BY <1>1
  <1>4. ASSUME tracker'.state = "Offline", NEW t \in Targets
        PROVE  ~current'[t] /\ (t \in listen' => heard'[t])
    <2>1. ShouldRaiseInitialEvent(t, tracker'.state, synced[t])
      BY <1>4 DEF ShouldRaiseInitialEvent
    <2> QED
      BY <1>1, <1>4, <2>1
  <1> QED
    BY <1>1, <1>2, <1>3, <1>4 DEF OfflineIsTold

(* At first the state is Unknown and nobody listens.                       *)
LEMMA InitInv == ASSUME MaxBreaks \in Nat, MaxCalls \in Nat, Init PROVE Inv
  <1>1. tracker = NewTracker /\ stream = "Initial"
    BY DEF Init
  <1>2. TypeOK
    <2>1. tracker \in [state : {"Unknown", "Online", "Offline"},
                      failures : 0..MaxBreaks, timer : BOOLEAN, sound : BOOLEAN]
      BY <1>1 DEF NewTracker
    <2>2. enabled \in BOOLEAN /\ idle \in BOOLEAN /\ asked \in BOOLEAN
      BY DEF Init
    <2>3. /\ asked \/ idle => stream = "Open"
          /\ tracker.timer => IsStarted(stream)
      BY <1>1 DEF Init, NewTracker
    <2>4. /\ current \in [Targets -> BOOLEAN] /\ heard \in [Targets -> BOOLEAN]
      BY DEF Init
    <2> QED
      BY <2>1, <2>2, <2>3, <2>4 DEF Init, TypeOK
  <1>3. AssertsHold /\ OnlineIsOpen /\ OfflineIsTold
    BY <1>1 DEF AssertsHold, OnlineIsOpen, OfflineIsTold, NewTracker
  <1>4. TrackerInStep
    BY <1>1 DEF Init, TrackerInStep, NewTracker
  <1> QED
    BY <1>2, <1>3, <1>4 DEF Inv, Safe

(* What TypeOK says besides the views.  A step that keeps this and Safe    *)
(* only has to broadcast the new state, or to change nothing that a        *)
(* listener sees.                                                          *)
Switches == enabled \in BOOLEAN /\ idle \in BOOLEAN /\ asked \in BOOLEAN

(* The other variables, and what ties them to the stream.                  *)
Rest ==
    /\ listen \subseteq Targets
    /\ stream \in {"Initial", "Starting", "Backoff", "Open", "Error"}
    /\ tracker \in Trackers
    /\ breaks \in 0..MaxBreaks /\ calls \in 0..MaxCalls
    /\ asked \/ idle => stream = "Open"
    /\ tracker.timer => IsStarted(stream)

(* Both together with the views are the type invariant.                    *)
LEMMA TypeOKParts ==
  ASSUME MaxBreaks \in Nat
  PROVE  /\ TypeOK => Switches /\ Rest
         /\ /\ Switches /\ Rest /\ TrackerInStep
            /\ current \in [Targets -> BOOLEAN] /\ heard \in [Targets -> BOOLEAN]
            => TypeOK
  BY DEF TypeOK, Switches, Rest, Trackers, TrackerInStep

(* Calls of the app.                                                       *)
LEMMA CallKeeps ==
  ASSUME MaxBreaks \in Nat, MaxCalls \in Nat, Inv, Call
  PROVE  /\ Switches' /\ Rest' /\ Safe'
         /\ \E views \in [Targets -> BOOLEAN] : Broadcast(tracker'.state, views)
  <1>0. /\ Switches /\ Rest /\ AssertsHold /\ OnlineIsOpen /\ TrackerInStep
        /\ current \in [Targets -> BOOLEAN]
        /\ \A t \in Targets : [current EXCEPT ![t] = FALSE] \in [Targets -> BOOLEAN]
    BY TypeOKParts DEF Inv, Safe, TypeOK
  <1>0a. tracker \in Trackers /\ tracker.sound = TRUE
    BY <1>0 DEF Trackers, Rest, AssertsHold
  <1>1. ASSUME NEW t \in Targets, Listen(t) PROVE Switches' /\ Rest' /\ Safe'
    <2>1. CASE enabled /\ ~IsStarted(stream) /\ stream' = Started(stream)
               /\ tracker' = HandleWatchStreamStart(tracker) /\ UNCHANGED <<idle, asked>>
      <3>1. tracker.timer = FALSE
        BY <1>0, <2>1 DEF Trackers, Rest
      <3>2. /\ tracker' \in Trackers /\ tracker'.sound = TRUE
            /\ tracker'.failures = tracker.failures
            /\ tracker'.state = IF tracker.failures = 0 THEN "Unknown" ELSE tracker.state
            /\ tracker'.timer => tracker.failures = 0
        BY <1>0a, <2>1, <3>1, StartFact
      <3>3. stream' \in {"Starting", "Backoff"} /\ ~asked /\ ~idle
        BY <1>0, <2>1 DEF Started, Rest, IsStarted
      <3>4a. Switches'
        BY <1>0, <1>1, <2>1, <3>2, <3>3 DEF Listen, Switches
      <3>4b. Rest'
        BY <1>0, <1>1, <2>1, <3>2, <3>3 DEF Listen, Rest, IsStarted
      <3>5. AssertsHold' /\ OnlineIsOpen'
        BY <1>0, <1>1, <2>1, <3>2, <3>3 DEF AssertsHold, OnlineIsOpen
      <3>6. TrackerInStep'
        BY <1>0, <1>1, <2>1, <3>2, <3>3 DEF Listen, TrackerInStep
      <3> QED
        BY <3>4a, <3>4b, <3>5, <3>6 DEF Safe
    <2>2. CASE UNCHANGED <<stream, tracker>>
      <3>1a. Switches'
        BY <1>0, <1>1, <2>2 DEF Listen, Switches
      <3>1b. Rest'
        BY <1>0, <1>1, <2>2 DEF Listen, Rest
      <3>2. AssertsHold' /\ OnlineIsOpen'
        BY <1>0, <1>1, <2>2 DEF Listen, AssertsHold, OnlineIsOpen
      <3>3. TrackerInStep'
        BY <1>0, <1>1, <2>2 DEF Listen, Rest, TrackerInStep, IsStarted
      <3> QED
        BY <3>1a, <3>1b, <3>2, <3>3 DEF Safe
    <2> QED
      BY <1>1, <2>1, <2>2 DEF Listen
  <1>2. ASSUME NEW t \in Targets, StopListening(t) PROVE Switches' /\ Rest' /\ Safe'
    <2>1. \/ tracker' = tracker
          \/ /\ tracker' \in Trackers /\ tracker'.sound = TRUE /\ tracker'.state = "Unknown"
             /\ tracker'.failures = 0 /\ tracker'.timer = FALSE
      <3>1. tracker' = tracker \/ tracker' = UpdateState(tracker, "Unknown")
        BY <1>2 DEF StopListening
      <3>2. CASE tracker' = UpdateState(tracker, "Unknown")
        BY <1>0a, <3>2, UpdateStateFact
      <3> QED
        BY <3>1, <3>2
    <2>2a. Switches'
      BY <1>0, <1>0a, <1>2, <2>1 DEF StopListening, Switches
    <2>2b. Rest'
      BY <1>0, <1>0a, <1>2, <2>1 DEF StopListening, Rest
    <2>3. AssertsHold' /\ OnlineIsOpen'
      BY <1>0, <1>0a, <1>2, <2>1 DEF StopListening, AssertsHold, OnlineIsOpen
    <2>4. TrackerInStep'
      BY <1>0, <1>0a, <1>2, <2>1
         DEF StopListening, Rest, Switches, TrackerInStep
    <2> QED
      BY <2>2a, <2>2b, <2>3, <2>4 DEF Safe
  <1>3. CASE DisableNetwork
    <2>1. /\ tracker' \in Trackers /\ tracker'.sound = TRUE /\ tracker'.state = "Offline"
          /\ tracker'.failures = 0 /\ tracker'.timer = FALSE
      <3>1. ClosedGracefully(tracker) \in Trackers /\ ClosedGracefully(tracker).sound = TRUE
        BY <1>0a, UpdateStateFact DEF ClosedGracefully
      <3> QED
        BY <1>3, <3>1, UpdateStateFact DEF DisableNetwork
    <2>2. stream' \in {"Initial", "Error"}
      BY <1>0, <1>3 DEF DisableNetwork, Stopped, Rest, IsStarted
    <2>3. Switches' /\ Rest' /\ Safe'
      <3>1a. Switches'
        BY <1>0, <1>3, <2>1, <2>2 DEF DisableNetwork, Switches
      <3>1b. Rest'
        BY <1>0, <1>3, <2>1, <2>2 DEF DisableNetwork, Rest
      <3>2. AssertsHold' /\ OnlineIsOpen'
        BY <1>0, <1>3, <2>1, <2>2 DEF AssertsHold, OnlineIsOpen
      <3>3. TrackerInStep'
        BY <1>0, <1>3, <2>1, <2>2
           DEF DisableNetwork, Rest, TrackerInStep, IsStarted
      <3> QED
        BY <3>1a, <3>1b, <3>2, <3>3 DEF Safe
    <2> QED
      BY <1>0, <1>3, <2>1, <2>3 DEF DisableNetwork
  <1>4. ASSUME EnableNetwork PROVE Switches' /\ Rest' /\ Safe'
    <2>1. CASE ~IsStarted(stream) /\ listen /= {}
      <3>1. tracker.timer = FALSE
        BY <1>0, <2>1 DEF Trackers, Rest
      <3>2. /\ tracker' \in Trackers /\ tracker'.sound = TRUE
            /\ tracker'.failures = tracker.failures
            /\ tracker'.state = IF tracker.failures = 0 THEN "Unknown" ELSE tracker.state
            /\ tracker'.timer => tracker.failures = 0
        BY <1>0a, <1>4, <2>1, <3>1, StartFact DEF EnableNetwork
      <3>3. stream' \in {"Starting", "Backoff"} /\ ~asked /\ ~idle
        BY <1>0, <1>4, <2>1 DEF EnableNetwork, Started, Rest, IsStarted
      <3>4a. Switches'
        BY <1>0, <1>4, <2>1, <3>2, <3>3 DEF EnableNetwork, Switches
      <3>4b. Rest'
        BY <1>0, <1>4, <2>1, <3>2, <3>3 DEF EnableNetwork, Rest, IsStarted
      <3>5. AssertsHold' /\ OnlineIsOpen'
        BY <1>0, <1>4, <2>1, <3>2, <3>3 DEF AssertsHold, OnlineIsOpen
      <3>6. TrackerInStep'
        BY <1>0, <1>4, <2>1, <3>2, <3>3 DEF EnableNetwork, TrackerInStep
      <3> QED
        BY <3>4a, <3>4b, <3>5, <3>6 DEF Safe
    <2>2. CASE ~(~IsStarted(stream) /\ listen /= {})
      <3>0. tracker' = UpdateState(tracker, "Unknown") /\ stream' = stream
        BY <1>4, <2>2 DEF EnableNetwork
      <3>1. /\ tracker' \in Trackers /\ tracker'.sound = TRUE /\ tracker'.state = "Unknown"
            /\ tracker'.failures = 0 /\ tracker'.timer = FALSE /\ stream' = stream
        BY <1>0a, <3>0, UpdateStateFact
      <3>2a. Switches'
        BY <1>0, <1>4, <3>1 DEF EnableNetwork, Switches
      <3>2b. Rest'
        BY <1>0, <1>4, <3>1 DEF EnableNetwork, Rest
      <3>3. AssertsHold' /\ OnlineIsOpen'
        BY <1>0, <1>4, <3>1 DEF AssertsHold, OnlineIsOpen
      <3>4. TrackerInStep'
        BY <1>0, <1>4, <3>1 DEF EnableNetwork, Rest, TrackerInStep
      <3> QED
        BY <3>2a, <3>2b, <3>3, <3>4 DEF Safe
    <2> QED
      BY <2>1, <2>2
  <1>5. ASSUME RestartNetwork PROVE Switches' /\ Rest' /\ Safe'
    <2> DEFINE closed == ClosedGracefully(tracker)
               reset == UpdateState(closed, "Unknown")
    <2>1. closed \in Trackers /\ closed.sound = TRUE
      BY <1>0a, UpdateStateFact DEF ClosedGracefully
    <2>2. tracker' = IF listen = {} THEN reset ELSE HandleWatchStreamStart(reset)
      BY <1>5 DEF RestartNetwork
    <2> HIDE DEF closed
    <2>3. /\ reset \in Trackers /\ reset.sound = TRUE /\ reset.timer = FALSE
          /\ reset.failures = 0 /\ reset.state = "Unknown"
      BY <2>1, UpdateStateFact
    <2> HIDE DEF reset
    <2>4. tracker' \in Trackers /\ tracker'.sound = TRUE /\ tracker'.failures = 0
          /\ tracker'.state = "Unknown" /\ (tracker'.timer => listen /= {})
      BY <2>2, <2>3, StartFact
    <2>5a. Switches'
      BY <1>0, <1>5, <2>4 DEF RestartNetwork, Switches
    <2>5b. Rest'
      BY <1>0, <1>5, <2>4 DEF RestartNetwork, Rest, IsStarted
    <2>6. AssertsHold' /\ OnlineIsOpen'
      BY <1>0, <1>5, <2>4 DEF AssertsHold, OnlineIsOpen
    <2>7. TrackerInStep'
      BY <1>0, <1>5, <2>4 DEF RestartNetwork, Rest, TrackerInStep
    <2> QED
      BY <2>5a, <2>5b, <2>6, <2>7 DEF Safe
  <1> QED
    BY <1>0, <1>1, <1>2, <1>3, <1>4, <1>5
       DEF Call, Listen, StopListening, EnableNetwork, RestartNetwork

(* Callbacks of the stream and of the timers.                              *)
LEMMA CallbackKeeps ==
  ASSUME MaxBreaks \in Nat, MaxCalls \in Nat, Inv,
         \/ StreamError \/ OnWatchStreamChange
         \/ \E t \in Targets : RaiseWatchSnapshot(t) \/ ProcessTargetError(t)
         \/ IdleTimeout \/ OnlineStateTimeout
  PROVE  /\ Switches' /\ Rest' /\ Safe'
         /\ \E views \in [Targets -> BOOLEAN] : Broadcast(tracker'.state, views)
  <1>0. /\ Switches /\ Rest /\ AssertsHold /\ OnlineIsOpen /\ TrackerInStep
        /\ current \in [Targets -> BOOLEAN]
        /\ \A t \in Targets : [current EXCEPT ![t] = FALSE] \in [Targets -> BOOLEAN]
        /\ \A t \in Targets : [current EXCEPT ![t] = TRUE] \in [Targets -> BOOLEAN]
    BY TypeOKParts DEF Inv, Safe, TypeOK
  <1>0a. tracker \in Trackers /\ tracker.sound = TRUE
    BY <1>0 DEF Trackers, Rest, AssertsHold
  <1>1. ASSUME StreamError PROVE Switches' /\ Rest' /\ Safe'
    <2>1. CASE enabled /\ listen /= {}
      <3> DEFINE failed == HandleWatchStreamFailure(tracker)
      <3>1. tracker.state = "Online" => tracker.failures = 0 /\ tracker.timer = FALSE
        BY <1>0 DEF Trackers, TrackerInStep
      <3>2. /\ failed \in Trackers /\ failed.sound = TRUE /\ failed.timer = FALSE
            /\ failed.failures = IF tracker.state = "Online" THEN 0 ELSE tracker.failures + 1
            /\ failed.state = IF tracker.state = "Online" THEN "Unknown" ELSE "Offline"
        BY <1>0a, <3>1, FailureFact
      <3>3. tracker' = HandleWatchStreamStart(failed) /\ stream' = "Backoff"
        BY <1>1, <2>1 DEF StreamError
      <3> HIDE DEF failed
      <3>4. /\ tracker' \in Trackers /\ tracker'.sound = TRUE
            /\ tracker'.failures = failed.failures
            /\ tracker'.state = IF failed.failures = 0 THEN "Unknown" ELSE failed.state
            /\ tracker'.timer => failed.failures = 0
        BY <3>2, <3>3, StartFact
      <3>5. /\ tracker'.state \in {"Unknown", "Offline"}
            /\ tracker'.failures <= tracker.failures + 1
            /\ tracker'.timer => tracker'.state = "Unknown" /\ tracker'.failures = 0
        BY <1>0a, <3>2, <3>4 DEF Trackers
      <3>6. breaks' = breaks + 1 /\ breaks' \in 0..MaxBreaks /\ breaks \in Nat
        BY <1>0, <1>1 DEF StreamError, Rest
      <3>7a. Switches'
        BY <1>0, <1>0a, <1>1, <2>1, <3>3, <3>4, <3>5, <3>6 DEF StreamError, Trackers, Switches
      <3>7b. Rest'
        BY <1>0, <1>0a, <1>1, <2>1, <3>3, <3>4, <3>5, <3>6
           DEF StreamError, Trackers, Rest, IsStarted
      <3>8. AssertsHold' /\ OnlineIsOpen'
        BY <1>0, <1>0a, <1>1, <2>1, <3>3, <3>4, <3>5, <3>6
           DEF Trackers, AssertsHold, OnlineIsOpen
      <3>9. TrackerInStep'
        BY <1>0, <1>0a, <1>1, <2>1, <3>3, <3>4, <3>5, <3>6
           DEF StreamError, Trackers, TrackerInStep
      <3> QED
        BY <3>7a, <3>7b, <3>8, <3>9 DEF Safe
    <2>2. CASE ~(enabled /\ listen /= {})
      <3>0. tracker' = UpdateState(tracker, "Unknown") /\ stream' = "Error"
        BY <1>1, <2>2 DEF StreamError
      <3>1. /\ tracker' \in Trackers /\ tracker'.sound = TRUE /\ tracker'.state = "Unknown"
            /\ tracker'.failures = 0 /\ tracker'.timer = FALSE /\ stream' = "Error"
        BY <1>0a, <3>0, UpdateStateFact
      <3>2a. Switches'
        BY <1>0, <1>1, <3>1 DEF StreamError, Switches
      <3>2b. Rest'
        BY <1>0, <1>1, <3>1 DEF StreamError, Rest
      <3>3. AssertsHold' /\ OnlineIsOpen'
        BY <1>0, <1>1, <3>1 DEF AssertsHold, OnlineIsOpen
      <3>4. TrackerInStep'
        BY <1>0, <1>1, <3>1 DEF StreamError, Rest, TrackerInStep, IsStarted
      <3> QED
        BY <3>2a, <3>2b, <3>3, <3>4 DEF Safe
    <2> QED
      BY <2>1, <2>2
  <1>2. ASSUME tracker' = UpdateState(tracker, "Online"), stream = "Open", asked,
               listen' \subseteq listen, calls' \in 0..MaxCalls,
               UNCHANGED <<enabled, stream, idle, asked, breaks>>
        PROVE  Switches' /\ Rest' /\ Safe' /\ tracker'.state = "Online"
    <2>1. /\ tracker' \in Trackers /\ tracker'.sound = TRUE /\ tracker'.state = "Online"
          /\ tracker'.failures = 0 /\ tracker'.timer = FALSE
      BY <1>0a, <1>2, UpdateStateFact
    <2>2a. Switches'
      BY <1>0, <1>2, <2>1 DEF Trackers, Switches
    <2>2b. Rest'
      BY <1>0, <1>2, <2>1 DEF Trackers, Rest
    <2>3. AssertsHold' /\ OnlineIsOpen'
      BY <1>0, <1>2, <2>1 DEF Trackers, AssertsHold, OnlineIsOpen
    <2>4. TrackerInStep'
      BY <1>0, <1>2, <2>1 DEF Trackers, Rest, TrackerInStep
    <2> QED
      BY <2>1, <2>2a, <2>2b, <2>3, <2>4 DEF Safe
  <1>3. ASSUME OnWatchStreamChange
        PROVE  Switches' /\ Rest' /\ Safe' /\ tracker'.state = "Online"
    BY <1>0, <1>2, <1>3 DEF OnWatchStreamChange, Rest
  <1>4. ASSUME NEW t \in Targets, RaiseWatchSnapshot(t)
        PROVE  Switches' /\ Rest' /\ Safe' /\ tracker'.state = "Online"
    BY <1>0, <1>2, <1>4 DEF RaiseWatchSnapshot, Rest
  <1>5. ASSUME NEW t \in Targets, ProcessTargetError(t)
        PROVE  Switches' /\ Rest' /\ Safe' /\ tracker'.state = "Online"
    <2>1. calls' \in 0..MaxCalls
      BY <1>0, <1>5 DEF ProcessTargetError, Rest
    <2> QED
      BY <1>0, <1>2, <1>5, <2>1 DEF ProcessTargetError
  <1>6. CASE IdleTimeout
    <2> DEFINE closed == UpdateState(tracker, "Unknown")
    <2>1. closed \in Trackers /\ closed.state = "Unknown" /\ closed.failures = 0
          /\ closed.timer = FALSE /\ closed.sound = TRUE
      BY <1>0a, UpdateStateFact
    <2>2. tracker' = [closed EXCEPT !.sound = closed.sound /\ listen = {}] /\ listen = {}
      BY <1>0, <1>6
         DEF IdleTimeout, ClosedGracefully, Rest, TrackerInStep, IsStarted
    <2> HIDE DEF closed
    <2>3. /\ tracker' \in Trackers /\ tracker'.state = "Unknown"
          /\ tracker'.failures = 0 /\ tracker'.timer = FALSE /\ tracker'.sound = TRUE
      BY <2>1, <2>2 DEF Trackers
    <2>4. Switches' /\ Rest' /\ Safe'
      <3>1a. Switches'
        BY <1>0, <1>6, <2>3 DEF IdleTimeout, Switches
      <3>1b. Rest'
        BY <1>0, <1>6, <2>3 DEF IdleTimeout, Rest
      <3>2. AssertsHold' /\ OnlineIsOpen'
        BY <1>0, <1>6, <2>3 DEF AssertsHold, OnlineIsOpen
      <3>3. TrackerInStep'
        BY <1>0, <1>6, <2>3 DEF IdleTimeout, Rest, TrackerInStep, IsStarted
      <3> QED
        BY <3>1a, <3>1b, <3>2, <3>3 DEF Safe
    <2> QED
      BY <1>0, <1>6, <2>3, <2>4 DEF IdleTimeout
  <1>7. CASE OnlineStateTimeout
    <2>1. /\ tracker' \in Trackers /\ tracker'.state = "Offline"
          /\ tracker'.failures = 0 /\ tracker'.timer = FALSE /\ tracker'.sound = TRUE
      BY <1>0, <1>0a, <1>7 DEF OnlineStateTimeout, Trackers, TrackerInStep
    <2>2. Switches' /\ Rest' /\ Safe'
      <3>1a. Switches'
        BY <1>0, <1>7, <2>1 DEF OnlineStateTimeout, Switches
      <3>1b. Rest'
        BY <1>0, <1>7, <2>1 DEF OnlineStateTimeout, Rest
      <3>2. AssertsHold' /\ OnlineIsOpen'
        BY <1>0, <1>7, <2>1 DEF AssertsHold, OnlineIsOpen
      <3>3. TrackerInStep'
        BY <1>0, <1>7, <2>1 DEF OnlineStateTimeout, TrackerInStep
      <3> QED
        BY <3>1a, <3>1b, <3>2, <3>3 DEF Safe
    <2> QED
      BY <1>0, <1>7, <2>1, <2>2 DEF OnlineStateTimeout
  <1>8. \E views \in [Targets -> BOOLEAN] : Broadcast(tracker'.state, views)
    <2>1. CASE OnWatchStreamChange
      BY <1>0, <1>3, <2>1 DEF OnWatchStreamChange
    <2>2. ASSUME NEW t \in Targets, RaiseWatchSnapshot(t)
          PROVE  \E views \in [Targets -> BOOLEAN] : Broadcast(tracker'.state, views)
      BY <1>0, <1>4, <2>2 DEF RaiseWatchSnapshot
    <2>3. ASSUME NEW t \in Targets, ProcessTargetError(t)
          PROVE  \E views \in [Targets -> BOOLEAN] : Broadcast(tracker'.state, views)
      BY <1>0, <1>5, <2>3 DEF ProcessTargetError
    <2>4. CASE StreamError
      BY <1>0, <2>4 DEF StreamError
    <2> QED
      BY <1>6, <1>7, <2>1, <2>2, <2>3, <2>4
  <1> QED
    BY <1>1, <1>3, <1>4, <1>5, <1>6, <1>7, <1>8

(* Every step keeps the invariant.                                         *)
LEMMA NextKeeps ==
  ASSUME MaxBreaks \in Nat, MaxCalls \in Nat, Inv, [Next]_vars
  PROVE  Inv'
  <1>1. ASSUME Switches', Rest', Safe', NEW views \in [Targets -> BOOLEAN],
               Broadcast(tracker'.state, views)
        PROVE  Inv'
    <2>1. heard \in [Targets -> BOOLEAN]
      BY DEF Inv, TypeOK
    <2>2. /\ current' \in [Targets -> BOOLEAN] /\ heard' \in [Targets -> BOOLEAN]
          /\ OfflineIsTold'
      BY <1>1, <2>1, BroadcastTells
    <2> QED
      BY <1>1, <2>2 DEF Inv, Safe, TypeOK, Switches, Rest, Trackers, TrackerInStep
  <1>2. CASE BackoffElapsed \/ OnWatchStreamOpen \/ UNCHANGED vars
    BY <1>2 DEF BackoffElapsed, OnWatchStreamOpen, vars, Inv, Safe, TypeOK,
       AssertsHold, OnlineIsOpen, OfflineIsTold, TrackerInStep, IsStarted
  <1> QED
    BY <1>1, <1>2, CallKeeps, CallbackKeeps DEF Next, Progress

(* The invariant holds in every behaviour.                                 *)
LEMMA Invariance ==
  ASSUME MaxBreaks \in Nat, MaxCalls \in Nat PROVE Spec => []Inv
  <1>1. Init => Inv
    BY InitInv
  <1>2. Inv /\ [Next]_vars => Inv'
    BY NextKeeps
  <1> QED
    BY <1>1, <1>2, PTL DEF Spec

(* No assertion of OnlineStateTracker or of OnWatchStreamClose() fails,    *)
(* however often the network breaks, is switched off, on or replaced.      *)
THEOREM AssertionsHold ==
  ASSUME MaxBreaks \in Nat, MaxCalls \in Nat PROVE Spec => [](TypeOK /\ AssertsHold)
  <1>1. Inv => TypeOK /\ AssertsHold
    BY DEF Inv, Safe
  <1> QED
    BY <1>1, Invariance, PTL

(* The client believes it is online only while a stream is open that has   *)
(* had a response: RemoteStore tells the tracker nothing else.             *)
THEOREM OnlineHasStream ==
  ASSUME MaxBreaks \in Nat, MaxCalls \in Nat PROVE Spec => []OnlineIsOpen
  <1>1. Inv => OnlineIsOpen
    BY DEF Inv, Safe
  <1> QED
    BY <1>1, Invariance, PTL

(* Offline means that every listener has had what the cache holds and that *)
(* no view is taken for synced: the views of SyncEngine follow every state *)
(* the tracker broadcasts.                                                 *)
THEOREM OfflineEveryoneTold ==
  ASSUME MaxBreaks \in Nat, MaxCalls \in Nat PROVE Spec => []OfflineIsTold
  <1>1. Inv => OfflineIsTold
    BY DEF Inv
  <1> QED
    BY <1>1, Invariance, PTL

(* A client that is online does not become Offline in one step while its   *)
(* network is enabled: OnlineStateTracker goes through Unknown.            *)
THEOREM OneBreakIsUnknown ==
  ASSUME MaxBreaks \in Nat, MaxCalls \in Nat PROVE Spec => NoFlap
  <1>1. Inv /\ [Next]_vars =>
          [tracker.state = "Online" /\ enabled' => tracker'.state /= "Offline"]_vars
    <2> SUFFICES ASSUME Inv, Next, tracker.state = "Online", enabled'
                 PROVE  tracker'.state /= "Offline"
      BY DEF vars
    <2>0. /\ Rest /\ Safe
      BY TypeOKParts DEF Inv
    <2> USE DEF Rest, Safe, OnlineIsOpen, TrackerInStep, IsStarted, AssertsHold
    <2>1. CASE StreamError
      <3>1. tracker.failures = 0 /\ tracker.timer = FALSE /\ tracker.sound = TRUE
        BY <2>0 DEF Trackers
      <3>2. \/ tracker' = HandleWatchStreamStart(HandleWatchStreamFailure(tracker))
            \/ tracker' = UpdateState(tracker, "Unknown")
        BY <2>1 DEF StreamError
      <3> QED
        BY <2>0, <3>1, <3>2 DEF HandleWatchStreamStart, HandleWatchStreamFailure,
           UpdateState, Trackers
    <2>2. CASE OnlineStateTimeout
      BY <2>0, <2>2 DEF OnlineStateTimeout
    <2>3. CASE Call
      BY <2>0, <2>3 DEF Call, Listen, StopListening, DisableNetwork, EnableNetwork,
         RestartNetwork, UpdateState, HandleWatchStreamStart, ClosedGracefully, Trackers
    <2>4. CASE Progress \/ OnWatchStreamChange
               \/ \E t \in Targets : RaiseWatchSnapshot(t) \/ ProcessTargetError(t)
      BY <2>0, <2>4 DEF Progress, BackoffElapsed, OnWatchStreamOpen,
         RaiseWatchSnapshot, OnWatchStreamChange, ProcessTargetError, UpdateState, Trackers
    <2>5. CASE IdleTimeout
      BY <2>0, <2>5 DEF IdleTimeout, ClosedGracefully, UpdateState, Trackers
    <2> QED
      BY <2>1, <2>2, <2>3, <2>4, <2>5 DEF Next
  <1> QED
    BY <1>1, Invariance, PTL DEF Spec, NoFlap
=============================================================================
