----------------------------- MODULE WriteQueue -----------------------------
(***************************************************************************)
(* What the Firestore client promises about the writes of one device: an   *)
(* outbox per user, kept on disk, whose writes reach the server in the     *)
(* order they were made and at least once, and whose authors are told      *)
(* "ok" only of a write that was stored and "error" only of one that was   *)
(* refused.  WritePipeline is shown to implement it.                       *)
(***************************************************************************)
EXTENDS Naturals, Sequences

CONSTANTS
    Users,      \* the accounts that sign in on the device
    MaxWrites   \* bound: the writes made in a behaviour

VARIABLES
    issued,     \* how many writes were made: they are numbered 1..issued
    owner,      \* the user each write was made by
    pending,    \* per user, the writes still in the mutation queue, in order
    user,       \* the signed-in user
    stored,     \* the writes the server committed at least once
    refused,    \* the writes the server refused for good
    told        \* what the caller of each write was told

vars == <<issued, owner, pending, user, stored, refused, told>>

Writes == 1..MaxWrites

Answers == {"waiting", "ok", "error", "lost"}

Init ==
    /\ issued = 0
    /\ user \in Users
    /\ owner = [w \in Writes |-> user]
    /\ pending = [u \in Users |-> << >>]
    /\ stored = {}
    /\ refused = {}
    /\ told = [w \in Writes |-> "waiting"]

(* A write is appended to the queue of the signed-in user. *)
Write ==
    /\ issued < MaxWrites
    /\ issued' = issued + 1
    /\ owner' = [owner EXCEPT ![issued + 1] = user]
    /\ pending' = [pending EXCEPT ![user] = Append(@, issued + 1)]
    /\ UNCHANGED <<user, stored, refused, told>>

(* The server acts on a write only when every earlier write of its queue   *)
(* was acted on; a duplicate of a write it refused may still be stored     *)
(* later, also when the write has left the queue.                          *)
Reached(w) ==
    \/ w \in stored \cup refused
    \/ \E u \in Users : \E i \in DOMAIN pending[u] :
          /\ pending[u][i] = w
          /\ \A j \in 1..(i - 1) : pending[u][j] \in stored \cup refused

Store(w) ==
    /\ Reached(w)
    /\ stored' = stored \cup {w}
    /\ UNCHANGED <<issued, owner, pending, user, refused, told>>

Refuse(w) ==
    /\ Reached(w)
    /\ refused' = refused \cup {w}
    /\ UNCHANGED <<issued, owner, pending, user, stored, told>>

(* The head of the signed-in user's queue is taken out, and its caller,    *)
(* unless the process that made the write is gone, is told.                *)
Resolve(answer, outcomes) ==
    /\ pending[user] /= << >>
    /\ LET w == Head(pending[user]) IN
          /\ w \in outcomes
          /\ told' = [told EXCEPT ![w] = IF @ = "waiting" THEN answer ELSE @]
    /\ pending' = [pending EXCEPT ![user] = Tail(@)]
    /\ UNCHANGED <<issued, owner, user, stored, refused>>

Acknowledge == Resolve("ok", stored)

Reject == Resolve("error", refused)

SwitchUser(u) ==
    /\ user' = u
    /\ UNCHANGED <<issued, owner, pending, stored, refused, told>>

(* The process ends and starts again: the queues are on disk, the          *)
(* callbacks were not.                                                     *)
Restart ==
    /\ told' = [w \in Writes |->
                  IF w <= issued /\ told[w] = "waiting" THEN "lost" ELSE told[w]]
    /\ UNCHANGED <<issued, owner, pending, user, stored, refused>>

Next ==
    \/ Write
    \/ \E w \in Writes : Store(w) \/ Refuse(w)
    \/ Acknowledge
    \/ Reject
    \/ \E u \in Users : SwitchUser(u)
    \/ Restart

Spec == Init /\ [][Next]_vars

-----------------------------------------------------------------------------

TypeOK ==
    /\ issued \in 0..MaxWrites
    /\ owner \in [Writes -> Users]
    /\ pending \in [Users -> Seq(Writes)]
    /\ user \in Users
    /\ stored \subseteq Writes
    /\ refused \subseteq Writes
    /\ told \in [Writes -> Answers]

(* A caller is told "ok" only of a write the server stored and "error"     *)
(* only of a write the server refused, however often the connection broke  *)
(* in between.                                                             *)
AnswerIsTrue ==
    \A w \in Writes : /\ told[w] = "ok" => w \in stored
                      /\ told[w] = "error" => w \in refused

(* A write is acted on by the server only after every earlier write of the *)
(* same user: an edit cannot reach the server before the document it edits.*)
StoredInOrder ==
    \A w \in stored \cup refused : \A v \in 1..(w - 1) :
        owner[v] = owner[w] => v \in stored \cup refused

(* A write leaves the disk only once the server has acted on it, across    *)
(* restarts and changes of user.                                           *)
NothingDropped ==
    \A w \in 1..issued :
        \/ w \in stored \cup refused
        \/ \E i \in DOMAIN pending[owner[w]] : pending[owner[w]][i] = w
=============================================================================
