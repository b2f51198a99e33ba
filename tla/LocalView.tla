------------------------------ MODULE LocalView ------------------------------
(***************************************************************************)
(* What the Firestore client shows of one document while writes to it are  *)
(* queued: LocalStore keeps the last remote version, the mutation queue,   *)
(* and an overlay, one mutation that stands for the whole queue and is     *)
(* applied whenever the document is read.  The server applies the writes   *)
(* of this and of other clients in one order, its answers and the watched  *)
(* versions reach the client in order each, but not in one order.          *)
(***************************************************************************)
EXTENDS Naturals, Sequences, SequencesExt

CONSTANTS
    Fields,       \* the fields of the document
    Values,       \* what a field may hold, Absent excluded
    Absent,       \* the value of a field the document does not have
    MaxWrites,    \* bound: writes of this client
    MaxVersions   \* bound: versions of the document on the server

VARIABLES
    remote,   \* RemoteDocumentCache: the last version known of the server
    queue,    \* MutationQueue: the batches, each one mutation of the document
    overlay,  \* DocumentOverlayCache
    nextId,   \* the next batch id
    log,      \* the server: the document's versions
    acks,     \* the server's answers to the first batches, on their way
    seen      \* the last version the watch stream has delivered

vars == <<remote, queue, overlay, nextId, log, acks, seen>>

Data == [Fields -> Values \cup {Absent}]
Empty == [f \in Fields |-> Absent]

(* MutableDocument; a version is a position of the log, 0 is None.         *)
Doc(type, version, data, state) ==
    [type |-> type, version |-> version, data |-> data, state |-> state]
InvalidDocument == Doc("Invalid", 0, Empty, "Synced")

(* A mutation assigns "data" to the fields of "mask".  A patch of the app  *)
(* requires that the document exists, one that is an overlay does not.     *)
Mutation(kind, mask, data) == [kind |-> kind, mask |-> mask, data |-> data]
NoMutation == Mutation("None", {}, Empty)
Update(f, v) == Mutation("Patch", {f}, [Empty EXCEPT ![f] = v])
AppMutations ==
    {Mutation("Set", Fields, d) : d \in Data}
      \cup (UNION {{Update(f, v) : v \in Values \cup {Absent}} : f \in Fields})
      \cup {Mutation("Delete", Fields, Empty)}

SetAll(data, m) == [f \in Fields |-> IF f \in m.mask THEN m.data[f] ELSE data[f]]

-----------------------------------------------------------------------------
(* Mutations applied to a local view: a document and the mask of the       *)
(* fields changed so far; "whole" is the missing mask, after a set or a    *)
(* delete.                                                                 *)

View(doc, whole, fields) == [doc |-> doc, whole |-> whole, fields |-> fields]

ApplyToLocalView(view, m, exists) ==
    CASE m.kind = "Set" ->
           View(Doc("Found", 0, m.data, "Local"), TRUE, {})
      [] m.kind = "Delete" ->
           View(Doc("No", 0, Empty, "Local"), TRUE, {})
      [] m.kind = "Patch" /\ (exists => view.doc.type = "Found") ->
           View(Doc("Found", 0, SetAll(view.doc.data, m), "Local"),
                view.whole, IF view.whole THEN {} ELSE view.fields \cup m.mask)
      [] OTHER -> view

(* The overlay that takes a remote document to the view, if any.           *)
CalculateOverlayMutation(view) ==
    IF view.doc.state /= "Local" THEN NoMutation
    ELSE IF ~view.whole
    THEN Mutation("Patch", view.fields,
                  [f \in Fields |-> IF f \in view.fields THEN view.doc.data[f]
                                    ELSE Absent])
    ELSE IF view.doc.type = "No" THEN Mutation("Delete", Fields, Empty)
    ELSE Mutation("Set", Fields, view.doc.data)

Overlay(batch, m) == [batch |-> batch, m |-> m]
NoOverlay == Overlay(0, NoMutation)

(* Mutant: the overlay of an earlier batch stays. *)
SaveFirstOverlay(o, batch, view) ==
    IF o /= NoOverlay THEN o
    ELSE LET m == CalculateOverlayMutation(view)
         IN  IF m = NoMutation THEN o ELSE Overlay(batch, m)

(* SaveOverlays(): an overlay that is not there leaves the last one.       *)
SaveOverlay(o, batch, view) ==
    LET m == CalculateOverlayMutation(view)
    IN  IF m = NoMutation THEN o ELSE Overlay(batch, m)

RemoveOverlaysForBatchId(o, id) == IF o.batch = id THEN NoOverlay ELSE o

(* The document with every queued mutation applied in order.               *)
ApplyQueue(doc, q) ==
    LET view[n \in 0..Len(q)] ==
          IF n = 0 THEN View(doc, FALSE, {})
          ELSE ApplyToLocalView(view[n - 1], q[n].m, TRUE)
    IN  view[Len(q)]

(* RecalculateAndSaveOverlays() of a document and the queue q.             *)
Recalculate(o, doc, q) ==
    IF q = << >> THEN o ELSE SaveOverlay(o, Last(q).id, ApplyQueue(doc, q))

(* LocalDocumentsView::GetDocument(): a set or a delete needs no base.     *)
GetDocument ==
    LET base == IF overlay.m.kind \in {"None", "Patch"}
                THEN remote ELSE InvalidDocument
    IN  ApplyToLocalView(View(base, FALSE, {}), overlay.m, FALSE).doc

(* GetOverlayedDocuments(): without an overlay there is no mask either.    *)
GetOverlayedDocument ==
    LET view == ApplyToLocalView(View(remote, TRUE, {}), overlay.m, FALSE)
    IN  IF overlay.m.kind = "Patch"
        THEN View(view.doc, FALSE, overlay.m.mask) ELSE view

-----------------------------------------------------------------------------
Init ==
    /\ remote = InvalidDocument
    /\ queue = << >> /\ overlay = NoOverlay /\ nextId = 1
    /\ \E found \in BOOLEAN, d \in Data :
         /\ (~found => d = Empty)
         /\ log = <<[found |-> found, data |-> d]>>
    /\ acks = << >>
    /\ seen = 0

WriteLocally(m) ==
    /\ nextId <= MaxWrites
    /\ queue' = Append(queue, [id |-> nextId, m |-> m])
    /\ overlay' = SaveOverlay(overlay, nextId,
                              ApplyToLocalView(GetOverlayedDocument, m, TRUE))
    /\ nextId' = nextId + 1
    /\ UNCHANGED <<remote, log, acks, seen>>

(* Mutation::ApplyToRemoteDocument() for a mutation committed as version v.*)
ApplyToRemoteDocument(doc, m, v) ==
    CASE m.kind = "Set" -> Doc("Found", v, m.data, "Committed")
      [] m.kind = "Delete" -> Doc("No", v, Empty, "Committed")
      [] m.kind = "Patch" /\ doc.type = "Found" ->
           Doc("Found", v, SetAll(doc.data, m), "Committed")
      [] OTHER -> Doc("Unknown", v, Empty, "Committed")

ApplyBatchResult(doc, m, v) ==
    IF doc.version < v THEN ApplyToRemoteDocument(doc, m, v) ELSE doc

(* The overlay once "batch" is off the queue, whose rest is left.          *)
OverlayWithout(o, doc, batch, rest) ==
    Recalculate(RemoveOverlaysForBatchId(o, batch.id), doc, rest)

AcknowledgeBatch ==
    /\ acks /= << >> /\ Head(acks).ok
    /\ remote' = ApplyBatchResult(remote, Head(queue).m, Head(acks).version)
    /\ queue' = Tail(queue)
    /\ overlay' = OverlayWithout(overlay, remote', Head(queue), queue')
    /\ acks' = Tail(acks)
    /\ UNCHANGED <<nextId, log, seen>>

(* Mutant: the overlay of the rejected batch stays. *)
RejectKeepsOverlay ==
    /\ acks /= << >> /\ ~Head(acks).ok
    /\ queue' = Tail(queue)
    /\ overlay' = Recalculate(overlay, remote, queue')
    /\ acks' = Tail(acks)
    /\ UNCHANGED <<remote, nextId, log, seen>>

RejectBatch ==
    /\ acks /= << >> /\ ~Head(acks).ok
    /\ queue' = Tail(queue)
    /\ overlay' = OverlayWithout(overlay, remote, Head(queue), queue')
    /\ acks' = Tail(acks)
    /\ UNCHANGED <<remote, nextId, log, seen>>

(* Mutant: a version that was acknowledged is never confirmed. *)
NewerOnly(doc) == remote.type = "Invalid" \/ doc.version > remote.version

(* PopulateDocumentChanges(): whether a watched document is stored.        *)
Accepted(doc) ==
    \/ remote.type = "Invalid"
    \/ doc.version > remote.version
    \/ doc.version = remote.version /\ remote.state /= "Synced"

(* Mutant: only an overlay that is a patch is calculated again. *)
PatchedOnly(doc) ==
    /\ (doc.type = "Found") /= (remote.type = "Found")
    /\ overlay.m.kind = "Patch"

(* ComputeViews(): whether the overlay is calculated again for doc.        *)
ExistenceChanged(doc) ==
    /\ (doc.type = "Found") /= (remote.type = "Found")
    /\ overlay.m.kind \in {"None", "Patch"}

ApplyRemoteEvent(v) ==
    /\ v >= seen
    /\ LET doc == Doc(IF log[v].found THEN "Found" ELSE "No", v, log[v].data,
                      "Synced")
       IN  IF Accepted(doc)
           THEN /\ remote' = doc
                /\ overlay' = IF ExistenceChanged(doc)
                              THEN Recalculate(overlay, doc, queue)
                              ELSE overlay
           ELSE UNCHANGED <<remote, overlay>>
    /\ seen' = v
    /\ UNCHANGED <<queue, nextId, log, acks>>

(* The server's document after a mutation.                                 *)
Applied(doc, m) ==
    [found |-> m.kind /= "Delete",
     data |-> IF m.kind = "Patch" THEN SetAll(doc.data, m) ELSE m.data]

ServerCommit ==
    /\ Len(acks) < Len(queue)
    /\ LET m == queue[Len(acks) + 1].m
       IN  IF m.kind = "Patch" /\ ~Last(log).found
           THEN /\ acks' = Append(acks, [ok |-> FALSE, version |-> 0])
                /\ UNCHANGED log
           ELSE /\ log' = Append(log, Applied(Last(log), m))
                /\ acks' = Append(acks, [ok |-> TRUE, version |-> Len(log) + 1])
    /\ UNCHANGED <<remote, queue, overlay, nextId, seen>>

(* A write of another client.                                              *)
ServerChange(m) ==
    /\ Len(log) + Len(queue) - Len(acks) < MaxVersions
    /\ (m.kind = "Patch" => Last(log).found)
    /\ Applied(Last(log), m) /= Last(log)
    /\ log' = Append(log, Applied(Last(log), m))
    /\ UNCHANGED <<remote, queue, overlay, nextId, acks, seen>>

Next ==
    \/ \E m \in AppMutations : WriteLocally(m) \/ ServerChange(m)
    \/ AcknowledgeBatch \/ RejectBatch
    \/ \E v \in 1..Len(log) : ApplyRemoteEvent(v)
    \/ ServerCommit

Spec == Init /\ [][Next]_vars

-----------------------------------------------------------------------------
(* Properties.                                                             *)

(* The variables have their types. *)
TypeOK ==
    /\ remote.type \in {"Invalid", "Found", "No", "Unknown"}
    /\ remote.state \in {"Synced", "Committed"} /\ remote.data \in Data
    /\ remote.version \in 0..Len(log) /\ seen \in 0..Len(log)
    /\ overlay.m.kind \in {"None", "Set", "Patch", "Delete"}
    /\ Len(acks) <= Len(queue)

(* An overlay belongs to a batch that is still queued, so what it shows    *)
(* never outlives the writes it stands for.                                *)
OverlayHasBatch ==
    overlay /= NoOverlay => \E i \in DOMAIN queue : queue[i].id = overlay.batch

(* Nothing is hidden: without an overlay the queued writes have no effect  *)
(* on the document, their preconditions fail.                              *)
NothingHidden ==
    overlay = NoOverlay => ApplyQueue(remote, queue).doc = remote

(* Whatever arrives in the meantime, a reader sees the last write of the   *)
(* app until it is answered.                                               *)
LastWriteShows ==
    queue /= << >> =>
        LET m == Last(queue).m
        IN  CASE m.kind = "Set" -> /\ GetDocument.type = "Found"
                                   /\ GetDocument.data = m.data
              [] m.kind = "Delete" -> GetDocument.type = "No"
              [] m.kind = "Patch" -> GetDocument.type = "Found" =>
                   \A f \in m.mask : GetDocument.data[f] = m.data[f]

(* Once every write is answered and the watch stream has caught up, the    *)
(* reader sees the server's document, whatever order the two came in.      *)
SettledIsServer ==
    queue = << >> /\ seen = Len(log) =>
        /\ (GetDocument.type = "Found") = Last(log).found
        /\ GetDocument.data = Last(log).data
        /\ GetDocument.state = "Synced"

(* The document shown is the remote one with the queued mutations applied. *)
ViewIsQueue ==
    LET shown == GetDocument
        right == ApplyQueue(remote, queue).doc
    IN  /\ (shown.type = "Found") = (right.type = "Found")
        /\ shown.data = right.data
=============================================================================
