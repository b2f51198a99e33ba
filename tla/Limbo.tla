-------------------------------- MODULE Limbo --------------------------------
(***************************************************************************)
(* Documents in limbo: the cache says that a document matches a query, the *)
(* server's result of the query does not have it.  SyncEngine then listens *)
(* to the document itself, to a few such documents at a time, until the    *)
(* cache knows better, and a view is said to come from the cache as long   *)
(* as it has one.  There is one query per target, a document is known by   *)
(* the queries it matches, and a snapshot of the watch stream brings every *)
(* target the server has answered to the same version.                     *)
(***************************************************************************)
EXTENDS Naturals, Sequences, SequencesExt, FiniteSets

CONSTANTS
    Queries,
    Docs,
    NoWrite,       \* no write of a document is queued
    max_concurrent_limbo_resolutions,
    MaxChanges,    \* bound: changes of documents, by others and by the app
    MaxCalls       \* bound: listeners removed, lookups rejected, breaks

VARIABLES
    listening,  \* SyncEngine::query_views_by_query_
    current,    \* the views with current_
    synced,     \* View::synced_documents_, and the keys on disk
    limbo,      \* View::limbo_documents_
    cached,     \* the remote documents: which queries each one matches
    pending,    \* the same for a queued write of the document, or NoWrite
    refs,       \* SyncEngine::limbo_document_refs_
    active,     \* SyncEngine::active_limbo_targets_by_key_
    waiting,    \* SyncEngine::enqueued_limbo_resolutions_
    answered,   \* the queries and the limbo documents the server sends
    abandoned,  \* references whose lookup was rejected while they were needed
    truth,      \* the server's documents: which queries each one matches
    changes, calls

views == <<listening, current, synced, limbo>>
documents == <<cached, pending, truth>>
book == [refs |-> refs, active |-> active, waiting |-> waiting,
         answered |-> answered, abandoned |-> abandoned]
bookVars == <<refs, active, waiting, answered, abandoned>>
vars == <<views, documents, bookVars, changes, calls>>

Init ==
    /\ listening = {} /\ current = {}
    /\ synced = [q \in Queries |-> {}] /\ limbo = [q \in Queries |-> {}]
    /\ cached = [d \in Docs |-> {}] /\ pending = [d \in Docs |-> NoWrite]
    /\ refs = {} /\ active = {} /\ waiting = << >> /\ answered = {}
    /\ abandoned = {}
    /\ truth = [d \in Docs |-> Queries]
    /\ changes = 0 /\ calls = 0

-----------------------------------------------------------------------------
(* The bookkeeping b of SyncEngine.                                        *)

PumpEnqueuedLimboResolutions(b) ==
    LET room == max_concurrent_limbo_resolutions - Cardinality(b.active)
        n == IF Len(b.waiting) < room THEN Len(b.waiting) ELSE room
    IN  [b EXCEPT !.active = @ \cup ToSet(SubSeq(b.waiting, 1, n)),
                  !.waiting = SubSeq(@, n + 1, Len(@))]

TrackLimboChange(b, d) ==
    IF d \in b.active \/ d \in ToSet(b.waiting) THEN b
    ELSE PumpEnqueuedLimboResolutions([b EXCEPT !.waiting = Append(@, d)])

(* OrderedSet::remove().                                                   *)
Dequeued(w, d) ==
    IF d \in ToSet(w) THEN RemoveAt(w, CHOOSE i \in DOMAIN w : w[i] = d) ELSE w

Unlisted(b, d) ==
    [b EXCEPT !.active = @ \ {d}, !.answered = @ \ {d}]

(* Mutant: a lookup that ends leaves its place empty. *)
RemoveWithoutPump(b, d) ==
    Unlisted([b EXCEPT !.waiting = Dequeued(@, d)], d)

RemoveLimboTarget(b, d) ==
    LET left == [b EXCEPT !.waiting = Dequeued(@, d)]
    IN  IF d \in b.active
        THEN PumpEnqueuedLimboResolutions(Unlisted(left, d)) ELSE left

(* Mutant: the lookup goes on. *)
ReferenceLeft(b, q, d) == [b EXCEPT !.refs = @ \ {<<d, q>>}]

(* Mutant: the lookup ends with the first query that needs no more of it. *)
ReferenceGone(b, q, d) ==
    RemoveLimboTarget([b EXCEPT !.refs = @ \ {<<d, q>>}], d)

RemoveReference(b, q, d) ==
    LET left == [b EXCEPT !.refs = @ \ {<<d, q>>}]
    IN  IF \E r \in left.refs : r[1] = d THEN left
        ELSE RemoveLimboTarget(left, d)

AddReference(b, q, d) ==
    TrackLimboChange([b EXCEPT !.refs = @ \cup {<<d, q>>}], d)

RemoveReferences(b, q, ds) ==
    LET left[n \in 0..Len(ds)] ==
          IF n = 0 THEN b ELSE RemoveReference(left[n - 1], q, ds[n])
    IN  left[Len(ds)]

AddReferences(b, q, ds) ==
    LET more[n \in 0..Len(ds)] ==
          IF n = 0 THEN b ELSE AddReference(more[n - 1], q, ds[n])
    IN  more[Len(ds)]

UpdateTrackedLimboDocuments(b, q, old, new) ==
    AddReferences(RemoveReferences(b, q, SetToSeq(old \ new)),
                  q, SetToSeq(new \ old))

(* The same for the queries qs, one after another.                         *)
UpdateTracked(b, qs, old, new) ==
    LET done[n \in 0..Len(qs)] ==
          IF n = 0 THEN b
          ELSE UpdateTrackedLimboDocuments(done[n - 1], qs[n],
                                           old[qs[n]], new[qs[n]])
    IN  done[Len(qs)]

Book(b) ==
    /\ refs' = b.refs /\ active' = b.active /\ waiting' = b.waiting
    /\ answered' = b.answered /\ abandoned' = b.abandoned \cap b.refs

-----------------------------------------------------------------------------
(* View::ShouldBeInLimbo() of d, in the state after the step.              *)
ShouldBeInLimbo(q, d) ==
    /\ d \notin synced'[q]
    /\ pending'[d] = NoWrite
    /\ q \in cached'[d]

(* View::UpdateLimboDocuments(): only a view in step with the server knows.*)
UpdateLimboDocuments(q) ==
    IF q \in current' THEN {d \in Docs : ShouldBeInLimbo(q, d)} ELSE limbo[q]

(* EmitNewSnapshotsAndNotifyLocalStore(), when documents and targets have  *)
(* changed.                                                                *)
EmitNewSnapshots(b) ==
    /\ limbo' = [q \in Queries |-> IF q \in listening THEN UpdateLimboDocuments(q)
                                   ELSE {}]
    /\ Book(UpdateTracked(b, SetToSeq(listening), limbo, limbo'))

(* The app.                                                                *)

Listen(q) ==
    /\ q \notin listening
    /\ listening' = listening \cup {q}
    /\ UNCHANGED <<current, synced, limbo, documents, bookVars, changes, calls>>

StopListening(q) ==
    /\ q \in listening /\ calls < MaxCalls
    /\ calls' = calls + 1
    /\ listening' = listening \ {q} /\ current' = current \ {q}
    /\ limbo' = [limbo EXCEPT ![q] = {}]
    (* RemoveAndCleanupTarget().                                           *)
    /\ Book(RemoveReferences([book EXCEPT !.answered = @ \ {q}], q,
                             SetToSeq({d \in Docs : <<d, q>> \in refs})))
    /\ UNCHANGED <<synced, documents, changes>>

WriteMutations(d, matches) ==
    /\ pending[d] = NoWrite /\ changes < MaxChanges
    /\ changes' = changes + 1
    /\ pending' = [pending EXCEPT ![d] = matches]
    /\ UNCHANGED <<listening, current, synced, cached, truth, calls>>
    /\ EmitNewSnapshots(book)

(* The server has committed the write, and the answer is there.            *)
HandleSuccessfulWrite(d) ==
    /\ pending[d] /= NoWrite
    /\ cached' = [cached EXCEPT ![d] = pending[d]]
    /\ truth' = [truth EXCEPT ![d] = pending[d]]
    /\ pending' = [pending EXCEPT ![d] = NoWrite]
    /\ UNCHANGED <<listening, current, synced, changes, calls>>
    /\ EmitNewSnapshots(book)

HandleRejectedWrite(d) ==
    /\ pending[d] /= NoWrite
    /\ pending' = [pending EXCEPT ![d] = NoWrite]
    /\ UNCHANGED <<listening, current, synced, cached, truth, changes, calls>>
    /\ EmitNewSnapshots(book)

-----------------------------------------------------------------------------
(* The watch stream.                                                       *)

(* A snapshot in which the server answers the targets "new" as well: the   *)
(* documents of the queries answered, and the documents in limbo that      *)
(* were looked up, are brought up to date.  A document that has left a     *)
(* query is not sent.                                                      *)
ApplyRemoteEvent(new) ==
    LET sent == answered \cup new
        found(d) == d \in sent \/ truth[d] \cap sent /= {}
    IN  /\ new \subseteq (listening \cup active)
        /\ cached' = [d \in Docs |-> IF found(d) THEN truth[d] ELSE cached[d]]
        /\ synced' = [q \in Queries |->
                        IF q \in sent THEN {d \in Docs : q \in truth[d]}
                        ELSE synced[q]]
        /\ current' = current \cup (sent \cap Queries)
        /\ UNCHANGED <<listening, pending, truth, changes, calls>>
        /\ EmitNewSnapshots([book EXCEPT !.answered = sent])

(* The stream breaks; if the client takes itself for offline, no view is   *)
(* in step any more.                                                       *)
StreamBreaks ==
    /\ calls < MaxCalls
    /\ calls' = calls + 1
    /\ answered' = {}
    /\ current' \in {current, {}}
    /\ UNCHANGED <<listening, synced, limbo, documents, refs, active, waiting,
                   abandoned, changes>>

(* The server rejects a lookup: the document is taken for deleted.  A view *)
(* that is not in step with the server keeps it in limbo for now.          *)
HandleRejectedListen(d) ==
    /\ d \in active /\ calls < MaxCalls
    /\ calls' = calls + 1
    /\ cached' = [cached EXCEPT ![d] = {}]
    /\ UNCHANGED <<listening, current, synced, pending, truth, changes>>
    /\ EmitNewSnapshots(PumpEnqueuedLimboResolutions(
          [Unlisted(book, d) EXCEPT !.abandoned = @ \cup {<<d, q>> : q \in Queries}]))

ServerChange(d, matches) ==
    /\ changes < MaxChanges
    /\ changes' = changes + 1
    /\ truth' = [truth EXCEPT ![d] = matches]
    /\ UNCHANGED <<views, cached, pending, bookVars, calls>>

Snapshot == \E new \in SUBSET (listening \cup active) : ApplyRemoteEvent(new)

(* A snapshot in which one more target is answered.                        *)
Answer == \E t \in (listening \cup active) \ answered : ApplyRemoteEvent({t})

Next ==
    \/ \E q \in Queries : Listen(q) \/ StopListening(q)
    \/ \E d \in Docs :
         \/ \E m \in SUBSET Queries : WriteMutations(d, m) \/ ServerChange(d, m)
         \/ HandleSuccessfulWrite(d) \/ HandleRejectedWrite(d)
         \/ HandleRejectedListen(d)
    \/ Snapshot
    \/ StreamBreaks

Spec == Init /\ [][Next]_vars

(* The server answers every target, and sends what changes afterwards;     *)
(* changes and calls come to an end (MaxChanges, MaxCalls).                *)
FairSpec == Spec /\ WF_vars(Answer) /\ WF_vars(ApplyRemoteEvent({}))

-----------------------------------------------------------------------------
(* Properties.                                                             *)

(* The variables have their types. *)
TypeOK ==
    /\ listening \subseteq Queries /\ current \subseteq listening
    /\ synced \in [Queries -> SUBSET Docs] /\ limbo \in [Queries -> SUBSET Docs]
    /\ cached \in [Docs -> SUBSET Queries] /\ truth \in [Docs -> SUBSET Queries]
    /\ pending \in [Docs -> (SUBSET Queries) \cup {NoWrite}]
    /\ refs = {r \in Docs \X Queries : r[1] \in limbo[r[2]]}
    /\ active \subseteq Docs /\ waiting \in Seq(Docs)
    /\ answered \subseteq listening \cup active
    /\ abandoned \subseteq refs

(* A document that keeps a view in step with the server from being synced  *)
(* is looked up, or is queued for a place that is taken: none is forgotten *)
(* when a lookup is rejected, its place is passed on or a listener goes.   *)
(* The exception is a lookup that was rejected while the view was not in   *)
(* step, if the document is still in limbo when it is again.               *)
LimboIsLookedUp ==
    /\ \A q \in current : \A d \in limbo[q] :
          d \in active \cup ToSet(waiting) \/ <<d, q>> \in abandoned
    /\ waiting /= << >> => Cardinality(active) = max_concurrent_limbo_resolutions

(* No lookup outlives its need: each one is for a view that still has the  *)
(* document in limbo, at most one per document and never too many.         *)
NoLookupLeaks ==
    /\ active \cup ToSet(waiting) \subseteq UNION {limbo[q] : q \in listening}
    /\ active \cap ToSet(waiting) = {} /\ IsInjective(waiting)
    /\ Cardinality(active) <= max_concurrent_limbo_resolutions

(* Every listener gets a result that is not from the cache.  (See          *)
(* LimboIsLookedUp for the exception.)                                     *)
LimboEnds ==
    \A q \in Queries :
        q \in listening ~>
            \/ q \notin listening
            \/ q \in current /\ \A d \in limbo[q] : <<d, q>> \in abandoned
=============================================================================
