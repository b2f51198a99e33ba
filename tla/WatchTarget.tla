----------------------------- MODULE WatchTarget -----------------------------
(***************************************************************************)
(* How the Firestore client keeps the result of one query in step with the *)
(* server: RemoteStore sends watch and unwatch requests of the target,     *)
(* WatchChangeAggregator collects what the server sends until the next     *)
(* snapshot, and LocalStore keeps the matching keys with the resume token  *)
(* they belong to.  The target has one id however often it is listened to, *)
(* so the aggregator counts responses to tell which listen a message is    *)
(* for.  A version is a position of the server's log; a resume token is    *)
(* the version it stands for, 0 is no token.                               *)
(***************************************************************************)
EXTENDS Integers, Sequences, SequencesExt, FiniteSets

CONSTANTS
    Docs,         \* documents that may match the query
    MaxVersions,  \* bound: versions of the server's result
    MaxListens,   \* bound: calls of listen
    MaxBreaks,    \* bound: streams that break, and kills of the app
    MaxRejects    \* bound: listens the server rejects

VARIABLES
    listening,  \* the target is in RemoteStore::listen_targets_
    keys,       \* TargetCache: its matching keys
    saved,      \* TargetCache: its resume token
    resume,     \* LocalStore::target_data_by_target_: its resume token
    held,       \* RemoteStore::listen_targets_: its resume token
    lastRemote, \* TargetCache::last_remote_snapshot_version_
    current,    \* View::current_
    open,       \* the watch stream is open
    state,      \* WatchChangeAggregator::target_states_, see NewState
    reset,      \* the target is in pending_target_resets_
    up, down,   \* requests and responses of the stream on their way
    log,        \* the server: the keys that match, version by version
    serving,    \* the server: the version sent of the target, 0 for none
    slipped,    \* a reset or a rejection of one listen was taken for the next
    listens, breaks, rejects

tokens == <<saved, resume, held>>
client == <<listening, keys, tokens, lastRemote, current, state, reset, slipped>>
vars == <<client, open, up, down, log, serving, listens, breaks, rejects>>

(* TargetState.  "changes" is document_changes_; has_pending_changes_ is   *)
(* left out, the token of a snapshot sets it.                              *)
NewState == [outstanding |-> 0, current |-> FALSE, token |-> 0,
             changes |-> [d \in Docs |-> "none"]]

Members(v) == IF v = 0 THEN {} ELSE log[v]

(* IsActiveTarget(): no response is outstanding.                           *)
IsActiveTarget == listening /\ state.outstanding = 0

Init ==
    /\ listening = FALSE /\ keys = {} /\ current = FALSE
    /\ saved = 0 /\ resume = 0 /\ held = 0 /\ lastRemote = 0
    /\ open = FALSE /\ state = NewState /\ reset = FALSE /\ slipped = FALSE
    /\ up = << >> /\ down = << >>
    /\ \E m \in SUBSET Docs : log = <<m>>
    /\ serving = 0
    /\ listens = 0 /\ breaks = 0 /\ rejects = 0

-----------------------------------------------------------------------------
(* Requests.                                                               *)

Watch(token) == [type |-> "Watch", token |-> token]
Unwatch == [type |-> "Unwatch", token |-> 0]

(* RecordPendingTargetRequest() of n requests.                             *)
Recorded(s, n) == [s EXCEPT !.outstanding = @ + n]

(* AllocateTarget() and RemoteStore::Listen().                             *)
Listen ==
    /\ ~listening /\ listens < MaxListens
    /\ listening' = TRUE
    /\ held' = resume
    /\ listens' = listens + 1
    /\ IF open
       THEN /\ state' = Recorded(state, 1)
            /\ up' = Append(up, Watch(resume))
       ELSE UNCHANGED <<state, up>>
    /\ UNCHANGED <<keys, saved, resume, lastRemote, current, open, reset, down, log,
                   serving, slipped, breaks, rejects>>

(* ReleaseTarget(): the token is written.                                  *)
Release ==
    /\ listening' = FALSE /\ current' = FALSE
    /\ saved' = resume /\ held' = 0
    /\ UNCHANGED resume

StopListening ==
    /\ listening
    /\ Release
    /\ IF open
       THEN /\ state' = Recorded(state, 1)
            /\ up' = Append(up, Unwatch)
       ELSE UNCHANGED <<state, up>>
    /\ UNCHANGED <<keys, lastRemote, open, reset, down, log, serving, slipped,
                   listens, breaks, rejects>>

(* StartWatchStream() and OnWatchStreamOpen(): a new aggregator.           *)
OnWatchStreamOpen ==
    /\ ~open /\ listening
    /\ open' = TRUE
    /\ state' = Recorded(NewState, 1)
    /\ up' = <<Watch(held)>>
    /\ UNCHANGED <<listening, keys, tokens, lastRemote, current, reset, down, log,
                   serving, slipped, listens, breaks, rejects>>

StreamGone ==
    /\ breaks < MaxBreaks
    /\ open' = FALSE
    /\ state' = NewState /\ reset' = FALSE
    /\ up' = << >> /\ down' = << >>
    /\ serving' = 0
    /\ breaks' = breaks + 1
    /\ UNCHANGED <<keys, saved, lastRemote, log, slipped, listens, rejects>>

OnWatchStreamClose ==
    /\ open
    /\ StreamGone
    /\ UNCHANGED <<listening, current, resume, held>>

(* The app is killed: what is not on disk is gone.                         *)
Kill ==
    /\ listening
    /\ StreamGone
    /\ listening' = FALSE /\ current' = FALSE
    /\ resume' = saved /\ held' = 0

-----------------------------------------------------------------------------
(* Responses.                                                              *)

Receive(type) ==
    /\ down /= << >> /\ Head(down).type = type
    /\ down' = Tail(down)
    /\ UNCHANGED <<open, log, serving, listens, breaks, rejects>>

(* ClearPendingChanges(): what is current stays current.                   *)
Cleared(s) == [s EXCEPT !.changes = [d \in Docs |-> "none"]]

Responded(s) == [s EXCEPT !.outstanding = @ - 1]

HandleAdded ==
    /\ Receive("Added")
    /\ LET s == Responded(state)
       IN  state' = IF s.outstanding = 0 THEN Cleared(s) ELSE s
    /\ UNCHANGED <<listening, keys, tokens, lastRemote, current, reset, slipped, up>>

(* Mutant: a response for a target nobody listens to is not counted. *)
HandleRemovedHeard ==
    /\ Receive("Removed")
    /\ LET s == Responded(state)
       IN  state' = IF ~listening THEN state
                    ELSE IF s.outstanding = 0 THEN NewState ELSE s
    /\ UNCHANGED <<listening, keys, tokens, lastRemote, current, reset, slipped, up>>

HandleRemoved ==
    /\ Receive("Removed")
    /\ LET s == Responded(state)
       IN  state' = IF s.outstanding = 0 THEN NewState ELSE s
    /\ UNCHANGED <<listening, keys, tokens, lastRemote, current, reset, slipped, up>>

HandleCurrent ==
    /\ Receive("Current")
    /\ state' = IF IsActiveTarget
                THEN [state EXCEPT !.current = TRUE]
                ELSE state
    /\ UNCHANGED <<listening, keys, tokens, lastRemote, current, reset, slipped, up>>

(* Mutant: what was collected before the reset is kept. *)
ResetOver ==
    [state EXCEPT !.current = FALSE,
        !.changes = [d \in Docs |-> IF d \in keys THEN "removed" ELSE @[d]]]

(* AddDocumentToTarget() and RemoveDocumentFromTarget().                   *)
WithDocument(s, d, in) ==
    [s EXCEPT !.changes[d] = IF in THEN IF d \in keys THEN "modified" ELSE "added"
                             ELSE IF d \in keys THEN "removed" ELSE "none"]

HandleDocumentChange ==
    /\ Receive("Doc")
    /\ state' = IF IsActiveTarget
                THEN WithDocument(state, Head(down).doc, Head(down).in)
                ELSE state
    /\ UNCHANGED <<listening, keys, tokens, lastRemote, current, reset, slipped, up>>

(* ResetTarget(): a new state in which every key is removed.               *)
ResetTarget ==
    [NewState EXCEPT !.changes = [d \in Docs |-> IF d \in keys THEN "removed" ELSE "none"]]

HandleReset ==
    /\ Receive("Reset")
    /\ state' = IF IsActiveTarget THEN ResetTarget ELSE state
    /\ UNCHANGED <<listening, keys, tokens, lastRemote, current, reset, slipped, up>>

Changed(s, kind) == {d \in Docs : s.changes[d] = kind}

HandleExistenceFilter ==
    /\ Receive("Filter")
    /\ LET expected == Head(down).count
           size == Cardinality(keys) + Cardinality(Changed(state, "added"))
                     - Cardinality(Changed(state, "removed"))
       IN  IF IsActiveTarget /\ size /= expected
           THEN state' = ResetTarget /\ reset' = TRUE
           ELSE UNCHANGED <<state, reset>>
    /\ UNCHANGED <<listening, keys, tokens, lastRemote, current, slipped, up>>

(* LocalStore::ApplyRemoteEvent() of the target's change.                  *)
ApplyRemoteEvent(s, token) ==
    LET added == Changed(s, "added")
        removed == Changed(s, "removed")
        changes == added \cup removed \cup Changed(s, "modified")
    IN  /\ keys' = (keys \cup added) \ removed
        /\ current' = s.current
        /\ resume' = token
        (* ShouldPersistTargetData(): a token alone is written when it is  *)
        (* the first, or the last one is five minutes old.                 *)
        /\ saved' \in IF resume = 0 \/ changes /= {} THEN {token} ELSE {saved, token}

(* A message without targets that carries a snapshot version: the token is *)
(* for every active target, and what was collected is applied.  A target   *)
(* that did not match its filter is watched again, without a token.        *)
RaiseWatchSnapshot ==
    /\ Receive("Snapshot") /\ Head(down).version >= lastRemote
    /\ LET again == reset /\ listening
           s == [state EXCEPT !.token = Head(down).version]
           applied == IF IsActiveTarget THEN Cleared(s) ELSE state
       IN  /\ IF IsActiveTarget
              THEN ApplyRemoteEvent(s, IF reset THEN 0 ELSE s.token)
              ELSE UNCHANGED <<keys, current, resume, saved>>
           /\ held' = IF again THEN 0
                      ELSE IF IsActiveTarget THEN s.token ELSE held
           /\ state' = IF again THEN Recorded(applied, 2) ELSE applied
           /\ up' = IF again THEN up \o <<Unwatch, Watch(0)>> ELSE up
           /\ slipped' = (slipped \/ (again /\ ~IsActiveTarget))
    /\ reset' = FALSE /\ lastRemote' = Head(down).version
    /\ UNCHANGED listening

(* OnWatchStreamChange() raises no snapshot that is older than the last,   *)
(* of whichever listen or stream: what was collected waits for the next.   *)
SkipWatchSnapshot ==
    /\ Receive("Snapshot") /\ Head(down).version < lastRemote
    /\ UNCHANGED <<client, up>>

(* The server rejects a listen; one the app has ended is ignored.          *)
ProcessTargetError ==
    /\ Receive("Error")
    /\ IF listening
       THEN /\ Release
            /\ state' = NewState
       ELSE UNCHANGED <<listening, current, tokens, state>>
    /\ slipped' = (slipped \/ (listening /\ state.outstanding /= 1))
    /\ UNCHANGED <<keys, lastRemote, reset, up>>

-----------------------------------------------------------------------------
(* The server.                                                             *)

Msg(type) == [type |-> type, doc |-> CHOOSE d \in Docs : TRUE, in |-> FALSE,
              count |-> 0, version |-> 0]
DocMsgs(ds, in) ==
    SetToSeq({[Msg("Doc") EXCEPT !.doc = d, !.in = in] : d \in ds})
SnapshotMsg(v) == [Msg("Snapshot") EXCEPT !.version = v]
FilterMsg(v) == [Msg("Filter") EXCEPT !.count = Cardinality(Members(v))]

(* What takes a client from version r to v: a document that still matches  *)
(* may be sent again.                                                      *)
Diff(r, v, again) ==
    DocMsgs((Members(v) \ Members(r)) \cup (Members(v) \cap again), TRUE)
      \o DocMsgs(Members(r) \ Members(v), FALSE)

(* The same when the server no longer knows which documents were removed.  *)
Counted(r, v) == DocMsgs(Members(v) \ Members(r), TRUE)

(* A watch request is answered in one go, or over a version in between.    *)
ServerWatch ==
    /\ up /= << >> /\ Head(up).type = "Watch"
    /\ LET r == Head(up).token
           v == Len(log)
           done == <<Msg("Current")>>
       IN  \/ \E w \in (r + 1)..v, again \in {{}, Docs} :
                down' = down \o <<Msg("Added")>> \o Diff(r, w, again)
                          \o (IF w < v THEN <<SnapshotMsg(w)>> \o Diff(w, v, {})
                              ELSE << >>)
                          \o done \o <<SnapshotMsg(v)>>
           \/ /\ r = v
              /\ down' = down \o <<Msg("Added")>> \o done \o <<SnapshotMsg(v)>>
           \/ /\ r > 0 /\ Members(r) \ Members(v) /= {}
              /\ down' = down \o <<Msg("Added")>> \o Counted(r, v) \o done
                           \o <<FilterMsg(v), SnapshotMsg(v)>>
    /\ serving' = Len(log)
    /\ up' = Tail(up)
    /\ UNCHANGED <<client, open, log, listens, breaks, rejects>>

ServerUnwatch ==
    /\ up /= << >> /\ Head(up).type = "Unwatch"
    /\ down' = Append(down, Msg("Removed"))
    /\ serving' = 0
    /\ up' = Tail(up)
    /\ UNCHANGED <<client, open, log, listens, breaks, rejects>>

ServerReject ==
    /\ rejects < MaxRejects
    /\ up /= << >> /\ Head(up).type = "Watch"
    /\ down' = Append(down, Msg("Error"))
    /\ up' = Tail(up)
    /\ rejects' = rejects + 1
    /\ UNCHANGED <<client, open, log, serving, listens, breaks>>

ServerChange(m) ==
    /\ Len(log) < MaxVersions
    /\ log' = Append(log, m)
    /\ UNCHANGED <<client, open, up, down, serving, listens, breaks, rejects>>

(* Changes are sent as they happen, with a snapshot when the stream is     *)
(* consistent; a stream without targets has snapshots too.                 *)
ServerSend ==
    /\ open /\ serving < Len(log)
    /\ \/ /\ serving > 0
          /\ down' = down \o Diff(serving, Len(log), {}) \o <<SnapshotMsg(Len(log))>>
       \/ /\ serving > 0
          /\ down' = down \o Counted(serving, Len(log))
                       \o <<FilterMsg(Len(log)), SnapshotMsg(Len(log))>>
       \/ /\ serving > 0
          /\ down' = down \o <<Msg("Reset")>> \o DocMsgs(Members(Len(log)), TRUE)
                       \o <<Msg("Current"), SnapshotMsg(Len(log))>>
       \/ /\ serving = 0 /\ down = << >>
          /\ down' = <<SnapshotMsg(Len(log))>>
    /\ serving' = IF serving = 0 THEN 0 ELSE Len(log)
    /\ UNCHANGED <<client, open, up, log, listens, breaks, rejects>>

Client ==
    \/ HandleAdded \/ HandleRemoved \/ HandleCurrent \/ HandleDocumentChange
    \/ HandleReset \/ HandleExistenceFilter \/ RaiseWatchSnapshot
    \/ SkipWatchSnapshot \/ ProcessTargetError

Next ==
    \/ Listen \/ StopListening
    \/ OnWatchStreamOpen \/ OnWatchStreamClose \/ Kill
    \/ Client
    \/ ServerWatch \/ ServerUnwatch \/ ServerReject \/ ServerSend
    \/ \E m \in SUBSET Docs : ServerChange(m)

Spec == Init /\ [][Next]_vars
FairSpec ==
    /\ Spec
    /\ WF_vars(OnWatchStreamOpen) /\ WF_vars(Client)
    /\ WF_vars(ServerWatch) /\ WF_vars(ServerUnwatch)

-----------------------------------------------------------------------------
(* Properties.                                                             *)

(* The variables have their types. *)
TypeOK ==
    /\ listening \in BOOLEAN /\ current \in BOOLEAN /\ open \in BOOLEAN
    /\ keys \subseteq Docs
    /\ {saved, resume, held, lastRemote, serving} \subseteq 0..Len(log)
    /\ state \in [outstanding : Int, current : BOOLEAN, token : 0..Len(log),
                  changes : [Docs -> {"none", "added", "modified", "removed"}]]
    /\ reset \in BOOLEAN /\ slipped \in BOOLEAN
    /\ ~open => up = << >> /\ down = << >> /\ state = NewState

(* The keys on disk are the result of the query at the version of the      *)
(* token, on disk and in memory: no message of an earlier listen or stream *)
(* was applied, none of this one was lost, and after a kill the server     *)
(* resumes from what the keys are.                                         *)
TokenIsTrue ==
    slipped \/ (keys = Members(resume) /\ keys = Members(saved))

(* When the stream stays up the view of a target that is listened to gets  *)
(* in step with the server, unless the app stops listening.                *)
Served == listening ~> (current \/ ~listening)
=============================================================================
