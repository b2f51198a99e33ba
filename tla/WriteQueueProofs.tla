-------------------------- MODULE WriteQueueProofs --------------------------
(***************************************************************************)
(* What the promise of the Firestore client is worth, for any users and    *)
(* any number of writes: callers are told the truth, the server acts on    *)
(* the writes of a user in order, and no write is dropped before.          *)
(***************************************************************************)
EXTENDS WriteQueue, TLAPS

Acted == stored \cup refused

(* What is queued is a write of the queue's user that was made, in the     *)
(* order of the writes; what was not made was not acted on.                *)
Ordered ==
    /\ \A u \in Users : \A i \in DOMAIN pending[u] :
          /\ pending[u][i] <= issued
          /\ owner[pending[u][i]] = u
          /\ \A j \in DOMAIN pending[u] : j < i => pending[u][j] < pending[u][i]
    /\ \A w \in Acted : w <= issued

Inv == TypeOK /\ Ordered /\ NothingDropped

LEMMA InitInv == ASSUME MaxWrites \in Nat, Init PROVE Inv
  <1>1. TypeOK
    BY DEF Init, TypeOK, Writes, Answers
  <1>2. Ordered /\ NothingDropped
    BY DEF Init, Ordered, NothingDropped, Acted
  <1> QED
    BY <1>1, <1>2 DEF Inv

(* A write that is appended comes after all the others of its queue.       *)
LEMMA WriteKeeps ==
  ASSUME MaxWrites \in Nat, Inv, Write
  PROVE  Inv'
  <1> DEFINE w == issued + 1
             q == pending[user]
  <1> USE DEF Inv
  <1>1. w \in Writes /\ issued \in Nat /\ issued' = w
    BY DEF Write, TypeOK, Writes
  <1>2. q \in Seq(Writes) /\ user \in Users
    BY DEF TypeOK
  <1>3. pending' = [pending EXCEPT ![user] = Append(q, w)]
    BY DEF Write
  <1>4. owner' = [owner EXCEPT ![w] = user]
    BY DEF Write
  <1>5. TypeOK'
    BY <1>1, <1>2, <1>3, <1>4 DEF Write, TypeOK, Writes
  <1>6. /\ DOMAIN Append(q, w) = 1..(Len(q) + 1)
        /\ Append(q, w)[Len(q) + 1] = w
        /\ \A i \in 1..Len(q) : Append(q, w)[i] = q[i]
        /\ DOMAIN q = 1..Len(q) /\ Len(q) \in Nat
    BY <1>1, <1>2
  <1>7. pending'[user] = Append(q, w) /\ \A u \in Users : u /= user => pending'[u] = pending[u]
    BY <1>2, <1>3 DEF TypeOK
  <1>8. \A v \in Writes : v <= issued => owner'[v] = owner[v]
    BY <1>1, <1>4 DEF TypeOK
  <1>8a. owner'[w] = user
    BY <1>1, <1>4 DEF TypeOK
  <1> HIDE DEF w, q
  <1>9. ASSUME NEW u \in Users, NEW i \in DOMAIN pending'[u]
        PROVE  /\ pending'[u][i] <= issued'
               /\ owner'[pending'[u][i]] = u
               /\ \A j \in DOMAIN pending'[u] : j < i => pending'[u][j] < pending'[u][i]
    <2>1. CASE u /= user
      <3>1. pending'[u] = pending[u] /\ pending[u] \in Seq(Writes)
        BY <2>1, <1>7 DEF TypeOK
      <3>2. \A k \in DOMAIN pending[u] : pending[u][k] \in Writes /\ pending[u][k] <= issued
        BY <3>1 DEF Ordered
      <3> QED
        BY <3>1, <3>2, <1>1, <1>8 DEF Ordered, Writes, w
    <2>2. CASE u = user
      <3>1. pending[u] = q /\ \A k \in 1..Len(q) : q[k] \in Writes /\ q[k] <= issued /\ q[k] \in Nat
        BY <2>2, <1>2, <1>6 DEF Ordered, q, Writes
      <3>2. \A k \in 1..Len(q) : owner'[q[k]] = u
        BY <3>1, <1>8, <1>6, <2>2 DEF Ordered
      <3>3. CASE i = Len(q) + 1
        <4>1. pending'[u][i] = w /\ DOMAIN pending'[u] = 1..(Len(q) + 1)
          BY <3>3, <2>2, <1>7, <1>6
        <4>2. \A j \in DOMAIN pending'[u] : j < i => pending'[u][j] = q[j] /\ j \in 1..Len(q)
          BY <4>1, <3>3, <2>2, <1>7, <1>6
        <4> QED
          BY <4>1, <4>2, <3>1, <1>1, <1>8a, <2>2 DEF w
      <3>4. CASE i \in 1..Len(q)
        <4>1. pending'[u][i] = q[i] /\ DOMAIN pending'[u] = 1..(Len(q) + 1)
          BY <3>4, <2>2, <1>7, <1>6
        <4>2. \A j \in DOMAIN pending'[u] : j < i => pending'[u][j] = q[j] /\ j \in 1..Len(q)
          BY <4>1, <3>4, <2>2, <1>7, <1>6
        <4>3. \A j \in 1..Len(q) : j < i => q[j] < q[i]
          BY <3>4, <3>1, <1>6 DEF Ordered
        <4> QED
          BY <4>1, <4>2, <4>3, <3>1, <3>2, <3>4, <1>1 DEF w
      <3> QED
        BY <3>3, <3>4, <2>2, <1>7, <1>6
    <2> QED
      BY <2>1, <2>2
  <1>10. \A v \in Acted' : v <= issued'
    BY <1>1 DEF Ordered, Acted, Write, TypeOK, w, Writes
  <1>11. NothingDropped'
    <2> SUFFICES ASSUME NEW v \in 1..issued'
                 PROVE  \/ v \in Acted'
                        \/ \E i \in DOMAIN pending'[owner'[v]] : pending'[owner'[v]][i] = v
      BY DEF NothingDropped, Acted
    <2>1. CASE v = w
      <3>1. owner'[v] = user /\ Len(q) + 1 \in DOMAIN pending'[user]
            /\ pending'[user][Len(q) + 1] = v
        BY <2>1, <1>8a, <1>7, <1>6
      <3> QED
        BY <3>1
    <2>2. CASE v \in 1..issued
      <3>1. v \in Writes /\ owner'[v] = owner[v] /\ owner[v] \in Users
        BY <2>2, <1>1, <1>8 DEF TypeOK, Writes
      <3>2. CASE v \in Acted
        BY <3>2 DEF Write, Acted
      <3>3. CASE \E i \in DOMAIN pending[owner[v]] : pending[owner[v]][i] = v
        <4>1. CASE owner[v] = user
          BY <4>1, <3>1, <3>3, <1>6, <1>7 DEF q
        <4>2. CASE owner[v] /= user
          BY <4>2, <3>1, <3>3, <1>7
        <4> QED
          BY <4>1, <4>2
      <3> QED
        BY <2>2, <3>2, <3>3 DEF NothingDropped, Acted
    <2> QED
      BY <2>1, <2>2, <1>1 DEF w
  <1> QED
    BY <1>5, <1>9, <1>10, <1>11 DEF Ordered

(* The server acts on writes that were made.                               *)
LEMMA ReachedIsMade ==
  ASSUME Inv, NEW w \in Writes, Reached(w)
  PROVE  w <= issued
  <1>1. CASE w \in Acted
    BY <1>1 DEF Inv, Ordered
  <1>2. CASE \E u \in Users : \E i \in DOMAIN pending[u] : pending[u][i] = w
    BY <1>2 DEF Inv, Ordered
  <1> QED
    BY <1>1, <1>2 DEF Reached, Acted

LEMMA ServerKeeps ==
  ASSUME MaxWrites \in Nat, Inv, NEW w \in Writes, Store(w) \/ Refuse(w)
  PROVE  Inv' /\ Acted' = Acted \cup {w}
  <1> USE DEF Inv
  <1>1. Reached(w) /\ UNCHANGED <<issued, owner, pending, user, told>>
    BY DEF Store, Refuse
  <1>2. Acted' = Acted \cup {w}
    BY DEF Store, Refuse, Acted
  <1>3. w <= issued
    BY <1>1, ReachedIsMade
  <1>4. TypeOK'
    BY <1>1 DEF TypeOK, Store, Refuse
  <1>5. Ordered'
    BY <1>1, <1>2, <1>3 DEF Ordered
  <1>6. NothingDropped'
    BY <1>1, <1>2 DEF NothingDropped, Acted
  <1> QED
    BY <1>2, <1>4, <1>5, <1>6

LEMMA TailIsLater ==
  ASSUME NEW S, NEW s \in Seq(S), s /= << >>
  PROVE  /\ Tail(s) \in Seq(S) /\ Head(s) \in S
         /\ DOMAIN s = 1..Len(s) /\ 1 \in DOMAIN s /\ Head(s) = s[1]
         /\ DOMAIN Tail(s) = 1..(Len(s) - 1) /\ Len(s) \in Nat
         /\ \A i \in DOMAIN Tail(s) : i + 1 \in DOMAIN s /\ Tail(s)[i] = s[i + 1]
         /\ \A i \in DOMAIN s : i /= 1 => i - 1 \in DOMAIN Tail(s) /\ Tail(s)[i - 1] = s[i]
  OBVIOUS

LEMMA ResolveKeeps ==
  ASSUME MaxWrites \in Nat, Inv, NEW answer \in Answers, NEW outcomes \in {stored, refused},
         Resolve(answer, outcomes)
  PROVE  Inv'
  <1> DEFINE q == pending[user]
             w == Head(q)
  <1> USE DEF Inv
  <1>1. q \in Seq(Writes) /\ q /= << >> /\ user \in Users
    BY DEF TypeOK, Resolve
  <1>2. /\ pending' = [pending EXCEPT ![user] = Tail(q)]
        /\ UNCHANGED <<issued, owner, user, stored, refused>>
        /\ told' = [told EXCEPT ![w] = IF @ = "waiting" THEN answer ELSE @]
        /\ w \in outcomes
    BY DEF Resolve
  <1>3. pending'[user] = Tail(q) /\ \A u \in Users : u /= user => pending'[u] = pending[u]
    BY <1>1, <1>2 DEF TypeOK
  <1>4. /\ Tail(q) \in Seq(Writes) /\ w \in Writes
        /\ DOMAIN q = 1..Len(q) /\ w = q[1]
        /\ DOMAIN Tail(q) = 1..(Len(q) - 1) /\ Len(q) \in Nat
        /\ \A i \in DOMAIN Tail(q) : i + 1 \in DOMAIN q /\ Tail(q)[i] = q[i + 1]
        /\ \A i \in DOMAIN q : i /= 1 => i - 1 \in DOMAIN Tail(q) /\ Tail(q)[i - 1] = q[i]
    <2> HIDE DEF q
    <2> QED
      BY <1>1, TailIsLater DEF w
  <1> HIDE DEF q, w
  <1>5. TypeOK'
    <2>1. pending' \in [Users -> Seq(Writes)]
      BY <1>1, <1>2, <1>4 DEF TypeOK
    <2>2. told' \in [Writes -> Answers]
      BY <1>2, <1>4 DEF TypeOK
    <2> QED
      BY <2>1, <2>2, <1>2 DEF TypeOK
  <1>6. Ordered'
    <2>1. ASSUME NEW u \in Users, NEW i \in DOMAIN pending'[u]
          PROVE  /\ pending'[u][i] <= issued'
                 /\ owner'[pending'[u][i]] = u
                 /\ \A j \in DOMAIN pending'[u] : j < i => pending'[u][j] < pending'[u][i]
      <3>1. CASE u /= user
        BY <3>1, <1>2, <1>3 DEF Ordered
      <3>2. CASE u = user
        <4>1. q = pending[u] /\ pending'[u] = Tail(q)
          BY <3>2, <1>3 DEF q
        <4>2. i + 1 \in DOMAIN q /\ pending'[u][i] = q[i + 1]
          BY <4>1, <1>4
        <4>3. \A j \in DOMAIN pending'[u] :
                 j < i => /\ j + 1 \in DOMAIN q /\ j + 1 < i + 1
                          /\ pending'[u][j] = q[j + 1]
          BY <4>1, <1>4
        <4>4. q[i + 1] <= issued /\ owner[q[i + 1]] = u
          BY <4>1, <4>2 DEF Ordered
        <4>5. \A k \in DOMAIN q : k < i + 1 => q[k] < q[i + 1]
          BY <4>1, <4>2 DEF Ordered
        <4> QED
          BY <4>2, <4>3, <4>4, <4>5, <1>2
      <3> QED
        BY <3>1, <3>2
    <2>2. Acted' = Acted
      BY <1>2 DEF Acted
    <2> QED
      BY <2>1, <2>2, <1>2 DEF Ordered
  <1>7. NothingDropped'
    <2> SUFFICES ASSUME NEW v \in 1..issued
                 PROVE  \/ v \in Acted
                        \/ \E i \in DOMAIN pending'[owner[v]] : pending'[owner[v]][i] = v
      BY <1>2 DEF NothingDropped, Acted
    <2>1. v \in Writes /\ owner[v] \in Users
      BY DEF TypeOK, Writes
    <2>2. CASE owner[v] /= user
      BY <2>1, <2>2, <1>3 DEF NothingDropped, Acted
    <2>3. CASE owner[v] = user /\ v \notin Acted
      <3>1. PICK i \in DOMAIN q : q[i] = v
        BY <2>3 DEF NothingDropped, Acted, q
      <3>2. i /= 1
        BY <3>1, <2>3, <1>2, <1>4 DEF Acted
      <3>3. i - 1 \in DOMAIN pending'[owner[v]] /\ pending'[owner[v]][i - 1] = v
        BY <3>1, <3>2, <2>3, <1>3, <1>4
      <3> QED
        BY <3>3
    <2> QED
      BY <2>2, <2>3
  <1> QED
    BY <1>5, <1>6, <1>7

LEMMA RestKeeps ==
  ASSUME Inv, (\E u \in Users : SwitchUser(u)) \/ Restart \/ UNCHANGED vars
  PROVE  Inv'
  <1> USE DEF Inv
  <1>1. UNCHANGED <<issued, owner, pending, stored, refused>>
    BY DEF SwitchUser, Restart, vars
  <1>2. Ordered' /\ NothingDropped'
    BY <1>1 DEF Ordered, NothingDropped, Acted
  <1>3. TypeOK'
    <2>1. ASSUME NEW u \in Users, SwitchUser(u) PROVE TypeOK'
      BY <2>1 DEF SwitchUser, TypeOK
    <2>2. CASE Restart
      <3>1. told' \in [Writes -> Answers]
        BY <2>2 DEF Restart, TypeOK, Answers
      <3> QED
        BY <2>2, <3>1 DEF Restart, TypeOK
    <2>3. CASE UNCHANGED vars
      BY <2>3 DEF vars, TypeOK
    <2> QED
      BY <2>1, <2>2, <2>3
  <1> QED
    BY <1>2, <1>3

LEMMA NextKeeps == ASSUME MaxWrites \in Nat, Inv, [Next]_vars PROVE Inv'
  <1>1. CASE Write
    BY <1>1, WriteKeeps
  <1>2. ASSUME NEW w \in Writes, Store(w) \/ Refuse(w) PROVE Inv'
    BY <1>2, ServerKeeps
  <1>3. CASE Acknowledge
    BY <1>3, ResolveKeeps DEF Acknowledge, Answers
  <1>4. CASE Reject
    BY <1>4, ResolveKeeps DEF Reject, Answers
  <1>5. CASE (\E u \in Users : SwitchUser(u)) \/ Restart \/ UNCHANGED vars
    BY <1>5, RestKeeps
  <1> QED
    BY <1>1, <1>2, <1>3, <1>4, <1>5 DEF Next

LEMMA Invariance == ASSUME MaxWrites \in Nat PROVE Spec => []Inv
  <1>1. Init => Inv
    BY InitInv
  <1>2. Inv /\ [Next]_vars => Inv'
    BY NextKeeps
  <1> QED
    BY <1>1, <1>2, PTL DEF Spec

(* The variables have their types.                                         *)
THEOREM TypeCorrect == ASSUME MaxWrites \in Nat PROVE Spec => []TypeOK
  <1>1. Inv => TypeOK
    BY DEF Inv
  <1> QED
    BY <1>1, Invariance, PTL

(* A write leaves the disk only once the server has acted on it, across    *)
(* restarts and changes of user: LocalStore removes a batch only when it   *)
(* was acknowledged or rejected.                                           *)
THEOREM NoneIsDropped == ASSUME MaxWrites \in Nat PROVE Spec => []NothingDropped
  <1>1. Inv => NothingDropped
    BY DEF Inv
  <1> QED
    BY <1>1, Invariance, PTL

(* A caller is told "ok" only of a write the server stored, and "error"    *)
(* only of one it refused, whatever broke in between: the callbacks of     *)
(* SyncEngine.                                                             *)
THEOREM AnswersAreTrue == ASSUME MaxWrites \in Nat PROVE Spec => []AnswerIsTrue
  <1>1. Init => AnswerIsTrue
    BY DEF Init, AnswerIsTrue
  <1>2. Inv /\ AnswerIsTrue /\ [Next]_vars => AnswerIsTrue'
    <2> SUFFICES ASSUME Inv, AnswerIsTrue, [Next]_vars
                 PROVE  AnswerIsTrue'
      OBVIOUS
    <2> USE DEF Inv
    <2>1. ASSUME Write \/ (\E u \in Users : SwitchUser(u)) \/ UNCHANGED vars
          PROVE  AnswerIsTrue'
      BY <2>1 DEF Write, SwitchUser, vars, AnswerIsTrue
    <2>2. ASSUME NEW w \in Writes, Store(w) \/ Refuse(w) PROVE AnswerIsTrue'
      BY <2>2 DEF Store, Refuse, AnswerIsTrue
    <2>3. CASE Restart
      BY <2>3 DEF Restart, AnswerIsTrue
    <2>4. ASSUME NEW answer, NEW outcomes, Resolve(answer, outcomes),
                 \/ answer = "ok" /\ outcomes = stored
                 \/ answer = "error" /\ outcomes = refused
          PROVE  AnswerIsTrue'
      <3> DEFINE w == Head(pending[user])
      <3>1. /\ w \in outcomes /\ UNCHANGED <<stored, refused>>
            /\ told' = [told EXCEPT ![w] = IF @ = "waiting" THEN answer ELSE @]
        BY <2>4 DEF Resolve
      <3> HIDE DEF w
      <3>2. \A v \in Writes : told'[v] = told[v] \/ (v = w /\ told'[v] = answer)
        BY <3>1 DEF TypeOK
      <3> QED
        BY <2>4, <3>1, <3>2 DEF AnswerIsTrue
    <2> QED
      BY <2>1, <2>2, <2>3, <2>4 DEF Next, Acknowledge, Reject
  <1> QED
    BY <1>1, <1>2, Invariance, PTL DEF Spec

(* The server acts on a write only after every earlier write of the same   *)
(* user.  What was made before and is not in the queue was acted on, and   *)
(* what is in the queue stands before it.                                  *)
LEMMA ReachedInOrder ==
  ASSUME MaxWrites \in Nat, Inv, StoredInOrder, NEW w \in Writes, Reached(w),
         NEW v \in 1..(w - 1), owner[v] = owner[w]
  PROVE  v \in Acted
  <1> USE DEF Inv
  <1>1. w <= issued
    BY ReachedIsMade
  <1>2. v \in 1..issued /\ v < w /\ v \in Writes
    BY <1>1 DEF TypeOK, Writes
  <1>3. CASE w \in Acted
    BY <1>3 DEF StoredInOrder, Acted
  <1>4. ASSUME NEW u \in Users, NEW i \in DOMAIN pending[u], pending[u][i] = w,
               \A j \in 1..(i - 1) : pending[u][j] \in Acted
        PROVE  v \in Acted
    <2>1. owner[w] = u
      BY <1>4 DEF Ordered
    <2>2. ASSUME NEW k \in DOMAIN pending[u], pending[u][k] = v
          PROVE  v \in Acted
      <3>1. DOMAIN pending[u] = 1..Len(pending[u]) /\ Len(pending[u]) \in Nat
        BY DEF TypeOK
      <3>2. k < i
        <4>1. i < k => w < v
          BY <1>4, <2>2 DEF Ordered
        <4>2. i /= k
          BY <1>4, <2>2, <1>2 DEF Writes
        <4> QED
          BY <4>1, <4>2, <3>1, <1>2 DEF Writes
      <3> QED
        BY <3>1, <3>2, <1>4, <2>2
    <2> QED
      BY <2>1, <2>2, <1>2 DEF NothingDropped, Acted
  <1> QED
    BY <1>3, <1>4 DEF Reached, Acted

THEOREM OrderIsKept == ASSUME MaxWrites \in Nat PROVE Spec => []StoredInOrder
  <1>1. Init => StoredInOrder
    BY DEF Init, StoredInOrder
  <1>2. Inv /\ StoredInOrder /\ [Next]_vars => StoredInOrder'
    <2> SUFFICES ASSUME Inv, StoredInOrder, [Next]_vars
                 PROVE  StoredInOrder'
      OBVIOUS
    <2>1. CASE Write
      <3>1. \A w \in Acted : w <= issued /\ w \in Writes
        BY DEF Inv, Ordered, TypeOK, Acted
      <3>2. \A v \in Writes : v <= issued => owner'[v] = owner[v]
        BY <2>1 DEF Inv, TypeOK, Write
      <3>3. UNCHANGED <<stored, refused>>
        BY <2>1 DEF Write
      <3>4. ASSUME NEW w \in Acted, NEW v \in 1..(w - 1), owner'[v] = owner'[w]
            PROVE  v \in Acted
        <4>1. w \in Writes /\ v \in Writes /\ w <= issued /\ v <= issued
          BY <3>1 DEF Writes, Inv, TypeOK
        <4> QED
          BY <4>1, <3>2, <3>4 DEF StoredInOrder, Acted
      <3> QED
        BY <3>3, <3>4 DEF StoredInOrder, Acted
    <2>2. ASSUME NEW w \in Writes, Store(w) \/ Refuse(w) PROVE StoredInOrder'
      <3>1. Reached(w) /\ owner' = owner
        BY <2>2 DEF Store, Refuse
      <3>2. Acted' = Acted \cup {w}
        BY <2>2, ServerKeeps
      <3>3. \A v \in 1..(w - 1) : owner[v] = owner[w] => v \in Acted
        BY <3>1, ReachedInOrder
      <3> QED
        BY <3>1, <3>2, <3>3 DEF StoredInOrder, Acted
    <2>3. CASE UNCHANGED <<owner, stored, refused>>
      BY <2>3 DEF StoredInOrder
    <2> QED
      BY <2>1, <2>2, <2>3
         DEF Next, Acknowledge, Reject, Resolve, SwitchUser, Restart, vars
  <1> QED
    BY <1>1, <1>2, Invariance, PTL DEF Spec
=============================================================================
