----------------------------- MODULE LimboProofs -----------------------------
(***************************************************************************)
(* The lookups of documents in limbo, for any queries, documents and       *)
(* number of lookups that may be open at a time: each one has a view that  *)
(* needs it, and what a view needs is looked up or queued.                 *)
(***************************************************************************)
EXTENDS Limbo, FiniteSetTheorems, SequenceTheorems, WellFoundedInduction, TLAPS

(* The instances the proofs are about: finitely many documents and         *)
(* queries, told apart by the server.                                      *)
LimboAssumption ==
    /\ IsFiniteSet(Queries) /\ IsFiniteSet(Docs) /\ Queries \cap Docs = {}
    /\ max_concurrent_limbo_resolutions \in Nat

-----------------------------------------------------------------------------
(* Induction, for a set of numbers, and a function that is defined by      *)
(* recursion over the positions of a sequence.                             *)

(* A set that has 0 and with i - 1 also i has every number.                *)
LEMMA Upwards ==
  ASSUME NEW n \in Nat, NEW S, 0 \in S,
         \A i \in 1..n : i - 1 \in S => i \in S
  PROVE  \A i \in 0..n : i \in S
  <1> SUFFICES ASSUME NEW i \in 0..n, i \notin S PROVE FALSE
    OBVIOUS
  <1> DEFINE T == {j \in 0..n : j \notin S}
  <1>1. T \subseteq Nat /\ T /= {}
    OBVIOUS
  <1>2. \E x \in T : \A y \in T : ~(<<y, x>> \in OpToRel(<, Nat))
    BY <1>1, NatLessThanWellFounded, WFMin
  <1>3. PICK x \in T : \A y \in T : ~(<<y, x>> \in OpToRel(<, Nat))
    BY <1>2
  <1>4. \A y \in T : ~(y < x)
    BY <1>1, <1>3 DEF OpToRel
  <1>5. x \in 1..n /\ x - 1 \in 0..n /\ x - 1 < x
    OBVIOUS
  <1>6. x - 1 \in S
    BY <1>4, <1>5
  <1> QED
    BY <1>5, <1>6

(* The recursion has a solution.                                           *)
Solutions(X, n, base, step) ==
    {g \in [0..n -> X] :
        g[0] = base /\ \A i \in 1..n : g[i] = step[<<i, g[i - 1]>>]}

(* A function defined by recursion over the positions of a sequence        *)
(* exists, and has its values in X.                                        *)
LEMMA Recursion ==
  ASSUME NEW X, NEW n \in Nat, NEW base \in X, NEW step \in [(1..n) \X X -> X]
  PROVE  Solutions(X, n, base, step) /= {}
  <1> DEFINE P(k) == \E g \in [0..k -> X] :
                g[0] = base /\ \A i \in 1..k : g[i] = step[<<i, g[i - 1]>>]
             S == {k \in 0..n : P(k)}
  <1>1. 0 \in S
    <2> DEFINE g == [i \in 0..0 |-> base]
    <2>1. g \in [0..0 -> X] /\ g[0] = base
      OBVIOUS
    <2>2. \A i \in 1..0 : FALSE
      OBVIOUS
    <2> HIDE DEF g
    <2>3. \A i \in 1..0 : g[i] = step[<<i, g[i - 1]>>]
      BY <2>2
    <2>4. P(0)
      BY <2>1, <2>3
    <2> QED
      BY <2>4
  <1>2. \A k \in 1..n : k - 1 \in S => k \in S
    <2> HIDE DEF P
    <2> SUFFICES ASSUME NEW k \in 1..n, P(k - 1) PROVE P(k)
      OBVIOUS
    <2>1. PICK g \in [0..(k - 1) -> X] :
            g[0] = base /\ \A i \in 1..(k - 1) : g[i] = step[<<i, g[i - 1]>>]
      BY DEF P
    <2> DEFINE last == step[<<k, g[k - 1]>>]
               h == [i \in 0..k |-> IF i = k THEN last ELSE g[i]]
    <2>2. k - 1 \in 0..(k - 1) /\ g[k - 1] \in X /\ last \in X
      BY <2>1
    <2>3. h \in [0..k -> X]
      BY <2>1, <2>2
    <2>4. h[0] = base
      BY <2>1
    <2>5. \A i \in 1..k : h[i] = step[<<i, h[i - 1]>>]
      <3> TAKE i \in 1..k
      <3>1. i \in 0..k /\ i - 1 \in 0..(k - 1) /\ i - 1 /= k /\ i - 1 \in 0..k
        OBVIOUS
      <3>2. h[i - 1] = g[i - 1] /\ h[i] = IF i = k THEN last ELSE g[i]
        BY <3>1
      <3> HIDE DEF h
      <3>3. CASE i = k
        BY <3>2, <3>3
      <3>4. CASE i /= k
        <4>1. i \in 1..(k - 1)
          BY <3>4
        <4> QED
          BY <2>1, <3>2, <3>4, <4>1
      <3> QED
        BY <3>3, <3>4
    <2> HIDE DEF h
    <2> QED
      BY <2>3, <2>4, <2>5 DEF P
  <1> HIDE DEF P
  <1>3. n \in S
    <2> HIDE DEF S
    <2>1. \A i \in 0..n : i \in S
      BY <1>1, <1>2, Upwards
    <2> QED
      BY <2>1
  <1> QED
    BY <1>3 DEF P, Solutions

(* A finite set as a sequence.                                             *)
LEMMA Enumeration ==
  ASSUME NEW S, IsFiniteSet(S)
  PROVE  /\ SetToSeq(S) \in Seq(S) /\ Len(SetToSeq(S)) \in Nat
         /\ ToSet(SetToSeq(S)) = S
  <1> DEFINE n == Cardinality(S)
  <1>1. n \in Nat
    BY FS_CardinalityType
  <1>2. PICK f : f \in Bijection(1..n, S)
    BY FS_CardinalityType DEF ExistsBijection
  <1>3. f \in [1..n -> S] /\ IsInjective(f)
    BY <1>2 DEF Bijection, Injection
  <1>4. SetToSeq(S) \in [1..n -> S] /\ IsInjective(SetToSeq(S))
    BY <1>3 DEF SetToSeq
  <1> HIDE DEF n
  <1> DEFINE g == SetToSeq(S)
  <1>5. g \in Injection(1..n, S)
    BY <1>4 DEF Injection
  <1>6. Cardinality(1..n) = n
    BY <1>1, FS_Interval
  <1>7. g \in Surjection(1..n, S)
    BY <1>5, <1>6, FS_Injection DEF n
  <1>8. \A x \in S : \E i \in 1..n : g[i] = x
    BY <1>7 DEF Surjection
  <1> HIDE DEF g
  <1>9. g \in Seq(S) /\ Len(g) = n
    BY <1>1, <1>4 DEF g
  <1> QED
    BY <1>1, <1>4, <1>8, <1>9 DEF ToSet, g

(* The members of a sequence without repetitions are as many as it is      *)
(* long.                                                                   *)
LEMMA Distinct ==
  ASSUME NEW S, NEW w \in Seq(S), IsInjective(w)
  PROVE  IsFiniteSet(ToSet(w)) /\ Cardinality(ToSet(w)) = Len(w)
  <1> DEFINE n == Len(w)
  <1>1. n \in Nat /\ w \in [1..n -> S]
    OBVIOUS
  <1>2. w \in [1..n -> ToSet(w)] /\ \A x \in ToSet(w) : \E i \in 1..n : w[i] = x
    BY <1>1 DEF ToSet
  <1>3. w \in Bijection(1..n, ToSet(w))
    BY <1>2 DEF Bijection, Injection, Surjection
  <1> HIDE DEF n
  <1>4. IsFiniteSet(1..n) /\ Cardinality(1..n) = n
    BY <1>1, FS_Interval
  <1> QED
    BY <1>3, <1>4, FS_Bijection DEF ExistsBijection, n

(* What is left of a sequence when its first elements are taken.           *)
LEMMA Split ==
  ASSUME NEW S, NEW w \in Seq(S), IsInjective(w), NEW n \in 0..Len(w)
  PROVE  LET taken == SubSeq(w, 1, n)
             left == SubSeq(w, n + 1, Len(w)) IN
         /\ taken \in Seq(S) /\ Len(taken) = n /\ IsInjective(taken)
         /\ left \in Seq(S) /\ Len(left) = Len(w) - n /\ IsInjective(left)
         /\ ToSet(taken) \cup ToSet(left) = ToSet(w)
         /\ ToSet(taken) \cap ToSet(left) = {}
  <1> DEFINE taken == SubSeq(w, 1, n)
             left == SubSeq(w, n + 1, Len(w))
  <1>1. /\ taken \in Seq(S) /\ Len(taken) = n
        /\ \A i \in 1..n : taken[i] = w[i]
    OBVIOUS
  <1>2. /\ left \in Seq(S) /\ Len(left) = Len(w) - n
        /\ \A i \in 1..(Len(w) - n) : left[i] = w[n + i]
    OBVIOUS
  <1>3. DOMAIN taken = 1..n /\ DOMAIN left = 1..(Len(w) - n) /\ DOMAIN w = 1..Len(w)
    BY <1>1, <1>2
  <1> HIDE DEF taken, left
  <1>i. \A i, j \in 1..Len(w) : w[i] = w[j] => i = j
    BY <1>3 DEF IsInjective
  <1>4. IsInjective(taken) /\ IsInjective(left)
    <2>1. IsInjective(taken)
      BY <1>1, <1>3, <1>i DEF IsInjective
    <2>2. \A i, j \in 1..(Len(w) - n) : left[i] = left[j] => i = j
      <3> TAKE i, j \in 1..(Len(w) - n)
      <3>1. n + i \in 1..Len(w) /\ n + j \in 1..Len(w)
        OBVIOUS
      <3>2. left[i] = left[j] => n + i = n + j
        BY <1>2, <1>i, <3>1
      <3> QED
        BY <3>2
    <2> QED
      BY <1>3, <2>1, <2>2 DEF IsInjective
  <1>5. ToSet(taken) = {w[i] : i \in 1..n}
    BY <1>1, <1>3 DEF ToSet
  <1>6. ToSet(left) = {w[i] : i \in (n + 1)..Len(w)}
    <2>1. \A i \in (n + 1)..Len(w) : i - n \in 1..(Len(w) - n) /\ left[i - n] = w[i]
      BY <1>2
    <2>2. \A i \in 1..(Len(w) - n) : n + i \in (n + 1)..Len(w)
      OBVIOUS
    <2>3. ToSet(left) = {left[i] : i \in 1..(Len(w) - n)}
      BY <1>3 DEF ToSet
    <2>4. \A i \in 1..(Len(w) - n) : left[i] \in {w[j] : j \in (n + 1)..Len(w)}
      BY <1>2, <2>2
    <2>5. \A j \in (n + 1)..Len(w) : w[j] \in {left[i] : i \in 1..(Len(w) - n)}
      <3> TAKE j \in (n + 1)..Len(w)
      <3> DEFINE i == j - n
      <3>1. i \in 1..(Len(w) - n) /\ left[i] = w[j]
        BY <2>1
      <3> HIDE DEF i
      <3> QED
        BY <3>1
    <2> QED
      BY <2>3, <2>4, <2>5
  <1>7. ToSet(w) = {w[i] : i \in 1..Len(w)}
    BY <1>3 DEF ToSet
  <1>8. ToSet(taken) \cup ToSet(left) = ToSet(w)
    BY <1>5, <1>6, <1>7
  <1>9. ToSet(taken) \cap ToSet(left) = {}
    BY <1>3, <1>5, <1>6 DEF IsInjective
  <1> QED
    BY <1>1, <1>2, <1>4, <1>8, <1>9 DEF taken, left

(* A sequence to which an element is added, or from which it is removed.   *)
LEMMA AppendKeeps ==
  ASSUME NEW S, NEW w \in Seq(S), IsInjective(w), NEW d \in S, d \notin ToSet(w)
  PROVE  /\ Append(w, d) \in Seq(S) /\ IsInjective(Append(w, d))
         /\ ToSet(Append(w, d)) = ToSet(w) \cup {d}
  <1> DEFINE a == Append(w, d)
  <1>1. /\ a \in Seq(S) /\ Len(a) = Len(w) + 1 /\ a[Len(w) + 1] = d
        /\ \A i \in 1..Len(w) : a[i] = w[i]
    OBVIOUS
  <1>2. DOMAIN a = 1..(Len(w) + 1) /\ DOMAIN w = 1..Len(w)
    BY <1>1
  <1> HIDE DEF a
  <1>3. \A i \in 1..Len(w) : w[i] /= d
    BY <1>2 DEF ToSet
  <1>4. IsInjective(a)
    BY <1>1, <1>2, <1>3 DEF IsInjective
  <1>5. ToSet(a) = ToSet(w) \cup {d}
    BY <1>1, <1>2 DEF ToSet
  <1> QED
    BY <1>1, <1>4, <1>5 DEF a

(* remove() takes a document out of the queue and leaves the others in it, *)
(* each once as before.                                                    *)
LEMMA DequeuedFact ==
  ASSUME NEW S, NEW w \in Seq(S), IsInjective(w), NEW d
  PROVE  /\ Dequeued(w, d) \in Seq(S) /\ IsInjective(Dequeued(w, d))
         /\ ToSet(Dequeued(w, d)) = ToSet(w) \ {d}
         /\ d \notin ToSet(w) => Dequeued(w, d) = w
  <1>1. CASE d \notin ToSet(w)
    BY <1>1 DEF Dequeued
  <1>2. CASE d \in ToSet(w)
    <2> DEFINE k == CHOOSE i \in DOMAIN w : w[i] = d
               r == RemoveAt(w, k)
    <2>1. k \in 1..Len(w) /\ w[k] = d
      BY <1>2 DEF ToSet
    <2>2. Dequeued(w, d) = r
      BY <1>2 DEF Dequeued
    <2> HIDE DEF k
    <2> DEFINE p == SubSeq(w, 1, k - 1)
               t == SubSeq(w, k + 1, Len(w))
    <2>3. /\ p \in Seq(S) /\ Len(p) = k - 1
          /\ \A i \in 1..(k - 1) : p[i] = w[i]
      BY <2>1
    <2>4. /\ t \in Seq(S) /\ Len(t) = Len(w) - k
          /\ \A i \in 1..(Len(w) - k) : t[i] = w[k + i]
      BY <2>1
    <2>o. r = p \o t
      BY DEF RemoveAt
    <2> HIDE DEF r, p, t
    <2>5. /\ r \in Seq(S) /\ Len(r) = Len(w) - 1
          /\ \A i \in 1..(Len(w) - 1) : r[i] = IF i < k THEN w[i] ELSE w[i + 1]
      <3>a. r \in Seq(S) /\ Len(r) = Len(p) + Len(t)
        BY <2>3, <2>4, <2>o, ConcatProperties
      <3>b. (k - 1) + (Len(w) - k) = Len(w) - 1
        BY <2>1
      <3>1. r \in Seq(S) /\ Len(r) = Len(w) - 1
        BY <2>3, <2>4, <3>a, <3>b
      <3>2. \A i \in 1..(k - 1) : r[i] = w[i]
        BY <2>1, <2>3, <2>4, <2>o
      <3>3. \A i \in k..(Len(w) - 1) : r[i] = w[i + 1]
        <4> TAKE i \in k..(Len(w) - 1)
        <4>1. i - (k - 1) \in 1..(Len(w) - k) /\ k + (i - (k - 1)) = i + 1
          BY <2>1
        <4>2. r[i] = t[i - (k - 1)]
          BY <2>1, <2>3, <2>4, <2>o, <4>1
        <4> QED
          BY <2>4, <4>1, <4>2
      <3> QED
        BY <2>1, <3>1, <3>2, <3>3
    <2>6. DOMAIN r = 1..(Len(w) - 1) /\ DOMAIN w = 1..Len(w)
      BY <2>5
    <2>i. \A i, j \in 1..Len(w) : w[i] = w[j] => i = j
      BY <2>6 DEF IsInjective
    <2>7. IsInjective(r)
      <3>1. \A i, j \in 1..(Len(w) - 1) : r[i] = r[j] => i = j
        BY <2>1, <2>5, <2>i
      <3> QED
        BY <2>6, <3>1 DEF IsInjective
    <2>8. \A i \in 1..(Len(w) - 1) : r[i] \in ToSet(w) /\ r[i] /= d
      BY <2>1, <2>5, <2>6, <2>i DEF ToSet
    <2>9. \A i \in 1..Len(w) : w[i] /= d => \E j \in 1..(Len(w) - 1) : r[j] = w[i]
      <3> SUFFICES ASSUME NEW i \in 1..Len(w), w[i] /= d
                   PROVE  \E j \in 1..(Len(w) - 1) : r[j] = w[i]
        OBVIOUS
      <3>1. CASE i < k
        <4>1. i \in 1..(Len(w) - 1) /\ r[i] = w[i]
          BY <2>1, <2>5, <3>1
        <4> QED
          BY <4>1
      <3>2. CASE i > k
        <4>1. i - 1 \in 1..(Len(w) - 1) /\ r[i - 1] = w[i]
          BY <2>1, <2>5, <3>2
        <4> QED
          BY <4>1
      <3> QED
        BY <2>1, <3>1, <3>2
    <2>10. ToSet(r) = ToSet(w) \ {d}
      <3>1. ToSet(r) = {r[j] : j \in 1..(Len(w) - 1)} /\ ToSet(w) = {w[i] : i \in 1..Len(w)}
        BY <2>6 DEF ToSet
      <3> QED
        BY <2>8, <2>9, <3>1
    <2> QED
      BY <1>2, <2>2, <2>5, <2>7, <2>10
  <1> QED
    BY <1>1, <1>2

-----------------------------------------------------------------------------
(* The bookkeeping of SyncEngine.                                          *)

(* Types of the bookkeeping.                                               *)
Books == [refs : SUBSET (Docs \X Queries), active : SUBSET Docs,
          waiting : Seq(Docs), answered : SUBSET (Queries \cup Docs),
          abandoned : SUBSET (Docs \X Queries)]

(* Records that differ in the references.                                  *)
LEMMA RefsReplaced ==
  ASSUME NEW R, NEW A, NEW W, NEW N, NEW G, NEW r \in R,
         NEW b \in [refs : R, active : A, waiting : W, answered : N, abandoned : G]
  PROVE  LET c == [b EXCEPT !.refs = r] IN
         /\ c \in [refs : R, active : A, waiting : W, answered : N, abandoned : G]
         /\ c.refs = r /\ c.active = b.active /\ c.waiting = b.waiting
         /\ c.answered = b.answered /\ c.abandoned = b.abandoned
  OBVIOUS

(* The documents that are looked up or wait to be.                         *)
Tracked(b) == b.active \cup ToSet(b.waiting)

(* No document is looked up twice, and no more at a time than may be.      *)
Orderly(b) ==
    /\ b.active \cap ToSet(b.waiting) = {} /\ IsInjective(b.waiting)
    /\ Cardinality(b.active) <= max_concurrent_limbo_resolutions

(* A document only waits while every place is taken.                       *)
Full(b) ==
    b.waiting /= << >> => Cardinality(b.active) = max_concurrent_limbo_resolutions

(* Each lookup is for a reference, each reference is looked up, and the    *)
(* server answers what is listened to (queries) or looked up.              *)
Paired(b, queries) ==
    /\ \A d \in Tracked(b) : \E q \in Queries : <<d, q>> \in b.refs
    /\ \A r \in b.refs : r[1] \in Tracked(b) \/ r \in b.abandoned
    /\ b.answered \subseteq queries \cup b.active

(* What every operation keeps of the bookkeeping.                          *)
Sound(b, queries) == b \in Books /\ Orderly(b) /\ Full(b) /\ Paired(b, queries)

(* PumpEnqueuedLimboResolutions() starts lookups that wait and no others,  *)
(* and stops when none waits or no place is left.                          *)
LEMMA PumpFact ==
  ASSUME LimboAssumption, NEW b \in Books, Orderly(b)
  PROVE  LET p == PumpEnqueuedLimboResolutions(b) IN
         /\ p \in Books /\ Orderly(p) /\ Full(p)
         /\ Tracked(p) = Tracked(b) /\ b.active \subseteq p.active
         /\ p.refs = b.refs /\ p.answered = b.answered /\ p.abandoned = b.abandoned
  <1> DEFINE max == max_concurrent_limbo_resolutions
             room == max - Cardinality(b.active)
             w == b.waiting
             n == IF Len(w) < room THEN Len(w) ELSE room
             taken == SubSeq(w, 1, n)
             left == SubSeq(w, n + 1, Len(w))
             p == PumpEnqueuedLimboResolutions(b)
  <1>1. /\ b.active \subseteq Docs /\ w \in Seq(Docs) /\ IsInjective(w)
        /\ b.active \cap ToSet(w) = {} /\ Cardinality(b.active) <= max
    BY DEF Books, Orderly
  <1>2. IsFiniteSet(b.active) /\ Cardinality(b.active) \in Nat /\ max \in Nat
    BY <1>1, FS_Subset, FS_CardinalityType DEF LimboAssumption
  <1>3. n \in 0..Len(w) /\ n <= room /\ (n < Len(w) => n = room)
    BY <1>1, <1>2
  <1>4. p = [b EXCEPT !.active = @ \cup ToSet(taken), !.waiting = left]
    BY DEF PumpEnqueuedLimboResolutions
  <1> HIDE DEF n, p
  <1>5. /\ taken \in Seq(Docs) /\ Len(taken) = n /\ IsInjective(taken)
        /\ left \in Seq(Docs) /\ Len(left) = Len(w) - n /\ IsInjective(left)
        /\ ToSet(taken) \cup ToSet(left) = ToSet(w)
        /\ ToSet(taken) \cap ToSet(left) = {}
    BY <1>1, <1>3, Split
  <1> HIDE DEF taken, left
  <1>6. IsFiniteSet(ToSet(taken)) /\ Cardinality(ToSet(taken)) = n
    BY <1>5, Distinct
  <1>7. ToSet(taken) \subseteq Docs
    BY <1>5 DEF ToSet
  <1>8. b.active \cap ToSet(taken) = {}
    BY <1>1, <1>5
  <1>9. Cardinality(b.active \cup ToSet(taken)) = Cardinality(b.active) + n
    <2>1. Cardinality(b.active \cap ToSet(taken)) = 0
      BY <1>8, FS_EmptySet
    <2>2. Cardinality(b.active \cup ToSet(taken))
            = Cardinality(b.active) + Cardinality(ToSet(taken))
                - Cardinality(b.active \cap ToSet(taken))
      BY <1>2, <1>6, FS_Union
    <2>3. n \in Nat
      BY <1>3
    <2> QED
      BY <1>2, <1>6, <2>1, <2>2, <2>3
  <1>10. /\ p \in Books /\ p.active = b.active \cup ToSet(taken) /\ p.waiting = left
         /\ p.refs = b.refs /\ p.answered = b.answered /\ p.abandoned = b.abandoned
    BY <1>1, <1>4, <1>5, <1>7 DEF Books
  <1>11. Orderly(p)
    BY <1>1, <1>2, <1>3, <1>5, <1>9, <1>10 DEF Orderly
  <1>12. Full(p)
    <2> SUFFICES ASSUME left /= << >> PROVE n = room
      BY <1>2, <1>9, <1>10 DEF Full
    <2>1. Len(left) /= 0
      BY <1>5
    <2> QED
      BY <1>1, <1>3, <1>5, <2>1
  <1>13. Tracked(p) = Tracked(b)
    BY <1>5, <1>10 DEF Tracked
  <1> QED
    BY <1>10, <1>11, <1>12, <1>13 DEF p

(* RemoveLimboTarget() takes one lookup away, running or not, and fills    *)
(* its place.                                                              *)
LEMMA RemoveFact ==
  ASSUME LimboAssumption, NEW b \in Books, Orderly(b), Full(b), NEW d \in Docs
  PROVE  LET p == RemoveLimboTarget(b, d) IN
         /\ p \in Books /\ Orderly(p) /\ Full(p)
         /\ Tracked(p) = Tracked(b) \ {d} /\ b.active \ {d} \subseteq p.active
         /\ p.refs = b.refs /\ p.abandoned = b.abandoned
         /\ p.answered \subseteq b.answered /\ (d \in b.active => d \notin p.answered)
  <1> DEFINE less == [b EXCEPT !.waiting = Dequeued(@, d)]
             p == RemoveLimboTarget(b, d)
  <1>1. /\ b.active \subseteq Docs /\ b.waiting \in Seq(Docs)
        /\ IsInjective(b.waiting) /\ b.active \cap ToSet(b.waiting) = {}
    BY DEF Books, Orderly
  <1>2. /\ Dequeued(b.waiting, d) \in Seq(Docs) /\ IsInjective(Dequeued(b.waiting, d))
        /\ ToSet(Dequeued(b.waiting, d)) = ToSet(b.waiting) \ {d}
        /\ d \notin ToSet(b.waiting) => Dequeued(b.waiting, d) = b.waiting
    BY <1>1, DequeuedFact
  <1>3. /\ less \in Books /\ less.active = b.active
        /\ less.waiting = Dequeued(b.waiting, d) /\ less.refs = b.refs
        /\ less.answered = b.answered /\ less.abandoned = b.abandoned
    BY <1>2 DEF Books
  <1> HIDE DEF less
  <1>4. CASE d \in b.active
    <2> DEFINE free == Unlisted(less, d)
    <2>1. /\ free \in Books /\ free.active = b.active \ {d}
          /\ free.waiting = Dequeued(b.waiting, d) /\ free.refs = b.refs
          /\ free.answered = b.answered \ {d} /\ free.abandoned = b.abandoned
      BY <1>3 DEF Unlisted, Books
    <2>2. p = PumpEnqueuedLimboResolutions(free)
      BY <1>4 DEF RemoveLimboTarget, less
    <2> HIDE DEF free, p
    <2>3. Cardinality(b.active \ {d}) <= max_concurrent_limbo_resolutions
      <3>1. IsFiniteSet(b.active) /\ Cardinality(b.active) \in Nat
        BY <1>1, FS_Subset, FS_CardinalityType DEF LimboAssumption
      <3>2. Cardinality(b.active \ {d}) = Cardinality(b.active) - 1
        BY <1>4, <3>1, FS_RemoveElement
      <3> QED
        BY <3>1, <3>2 DEF Orderly, LimboAssumption
    <2>4. Orderly(free)
      BY <1>1, <1>2, <2>1, <2>3 DEF Orderly
    <2>5. /\ p \in Books /\ Orderly(p) /\ Full(p)
          /\ Tracked(p) = Tracked(free) /\ free.active \subseteq p.active
          /\ p.refs = free.refs /\ p.answered = free.answered
          /\ p.abandoned = free.abandoned
      BY <2>1, <2>2, <2>4, PumpFact
    <2>6. Tracked(free) = Tracked(b) \ {d}
      BY <1>2, <2>1 DEF Tracked
    <2> QED
      BY <2>1, <2>5, <2>6 DEF p
  <1>5. CASE d \notin b.active
    <2>1. p = less
      BY <1>5 DEF RemoveLimboTarget, less
    <2>2. Orderly(less)
      BY <1>1, <1>2, <1>3 DEF Orderly
    <2>3. Full(less)
      <3>1. b.waiting = << >> => d \notin ToSet(b.waiting)
        BY DEF ToSet
      <3> QED
        BY <1>2, <1>3, <3>1 DEF Full
    <2>4. Tracked(less) = Tracked(b) \ {d}
      BY <1>2, <1>3, <1>5 DEF Tracked
    <2> QED
      BY <1>3, <1>5, <2>1, <2>2, <2>3, <2>4
  <1> QED
    BY <1>4, <1>5

(* A reference goes, and with the last one its lookup.                     *)
LEMMA RemoveReferenceFact ==
  ASSUME LimboAssumption, NEW queries, NEW b, Sound(b, queries),
         NEW q \in Queries, NEW d \in Docs
  PROVE  LET p == RemoveReference(b, q, d) IN
         /\ Sound(p, queries) /\ p.refs = b.refs \ {<<d, q>>}
         /\ p.abandoned = b.abandoned
  <1> DEFINE less == [b EXCEPT !.refs = @ \ {<<d, q>>}]
             p == RemoveReference(b, q, d)
  <1>1. /\ b \in Books /\ Orderly(b) /\ Full(b) /\ Paired(b, queries)
        /\ b.refs \subseteq Docs \X Queries
    BY DEF Sound, Books
  <1>r. b.refs \ {<<d, q>>} \subseteq Docs \X Queries
    BY <1>1
  <1>2. /\ less \in Books /\ less.refs = b.refs \ {<<d, q>>}
        /\ less.active = b.active /\ less.waiting = b.waiting
        /\ less.answered = b.answered /\ less.abandoned = b.abandoned
    BY <1>1, <1>r, RefsReplaced DEF Books
  <1>3. p = IF \E r \in less.refs : r[1] = d THEN less ELSE RemoveLimboTarget(less, d)
    BY DEF RemoveReference
  <1> HIDE DEF less, p
  <1>4. /\ Orderly(less) /\ Full(less) /\ Tracked(less) = Tracked(b)
    BY <1>1, <1>2 DEF Orderly, Full, Tracked
  <1>5. \A t \in Tracked(b) : t /= d => \E k \in Queries : <<t, k>> \in less.refs
    BY <1>1, <1>2 DEF Paired
  <1>6. CASE \E r \in less.refs : r[1] = d
    <2>1. PICK k \in Queries : <<d, k>> \in less.refs
      BY <1>1, <1>2, <1>6
    <2>2. Paired(less, queries)
      BY <1>1, <1>2, <1>4, <1>5, <2>1 DEF Paired
    <2> QED
      BY <1>2, <1>3, <1>4, <1>6, <2>2 DEF Sound, p
  <1>7. CASE ~\E r \in less.refs : r[1] = d
    <2>1. /\ p \in Books /\ Orderly(p) /\ Full(p)
          /\ Tracked(p) = Tracked(b) \ {d} /\ b.active \ {d} \subseteq p.active
          /\ p.refs = less.refs /\ p.abandoned = b.abandoned
          /\ p.answered \subseteq b.answered /\ (d \in b.active => d \notin p.answered)
      BY <1>2, <1>3, <1>4, <1>7, RemoveFact
    <2>2. Paired(p, queries)
      <3>1. \A t \in Tracked(p) : \E k \in Queries : <<t, k>> \in p.refs
        BY <1>5, <2>1
      <3>2. \A r \in p.refs : r[1] \in Tracked(p) \/ r \in p.abandoned
        BY <1>1, <1>2, <1>7, <2>1 DEF Paired
      <3>3. p.answered \subseteq queries \cup p.active
        BY <1>1, <2>1 DEF Paired
      <3> QED
        BY <3>1, <3>2, <3>3 DEF Paired
    <2> QED
      BY <1>2, <2>1, <2>2 DEF Sound, p
  <1> QED
    BY <1>6, <1>7

(* A reference comes, and its document is looked up.                       *)
LEMMA AddReferenceFact ==
  ASSUME LimboAssumption, NEW queries, NEW b, Sound(b, queries),
         NEW q \in Queries, NEW d \in Docs
  PROVE  LET p == AddReference(b, q, d) IN
         /\ Sound(p, queries) /\ p.refs = b.refs \cup {<<d, q>>}
         /\ p.abandoned = b.abandoned
  <1> DEFINE more == [b EXCEPT !.refs = @ \cup {<<d, q>>}]
             p == AddReference(b, q, d)
  <1>1. /\ b \in Books /\ Orderly(b) /\ Full(b) /\ Paired(b, queries)
    BY DEF Sound
  <1>r. b.refs \cup {<<d, q>>} \subseteq Docs \X Queries
    BY <1>1 DEF Books
  <1>2. /\ more \in Books /\ more.refs = b.refs \cup {<<d, q>>}
        /\ more.active = b.active /\ more.waiting = b.waiting
        /\ more.answered = b.answered /\ more.abandoned = b.abandoned
    BY <1>1, <1>r, RefsReplaced DEF Books
  <1>3. p = TrackLimboChange(more, d)
    BY DEF AddReference
  <1> HIDE DEF more, p
  <1>4. /\ Orderly(more) /\ Full(more) /\ Tracked(more) = Tracked(b)
    BY <1>1, <1>2 DEF Orderly, Full, Tracked
  <1>5. \A t \in Tracked(b) \cup {d} : \E k \in Queries : <<t, k>> \in more.refs
    BY <1>1, <1>2 DEF Paired
  <1>6. CASE d \in Tracked(b)
    <2>1. p = more
      BY <1>2, <1>3, <1>6 DEF TrackLimboChange, Tracked
    <2>2. Paired(more, queries)
      BY <1>1, <1>2, <1>4, <1>5, <1>6 DEF Paired
    <2> QED
      BY <1>2, <1>4, <2>1, <2>2 DEF Sound, p
  <1>7. CASE d \notin Tracked(b)
    <2> DEFINE queued == [more EXCEPT !.waiting = Append(@, d)]
    <2>1. p = PumpEnqueuedLimboResolutions(queued)
      BY <1>2, <1>3, <1>7 DEF TrackLimboChange, Tracked
    <2>2. /\ b.waiting \in Seq(Docs) /\ IsInjective(b.waiting)
          /\ d \notin ToSet(b.waiting) /\ d \notin b.active
      BY <1>1, <1>7 DEF Books, Orderly, Tracked
    <2>3. /\ Append(b.waiting, d) \in Seq(Docs) /\ IsInjective(Append(b.waiting, d))
          /\ ToSet(Append(b.waiting, d)) = ToSet(b.waiting) \cup {d}
      BY <2>2, AppendKeeps
    <2>4. /\ queued \in Books /\ queued.refs = more.refs
          /\ queued.active = b.active /\ queued.waiting = Append(b.waiting, d)
          /\ queued.answered = b.answered /\ queued.abandoned = b.abandoned
      BY <1>2, <2>3 DEF Books
    <2> HIDE DEF queued
    <2>5. Orderly(queued) /\ Tracked(queued) = Tracked(b) \cup {d}
      BY <1>1, <2>2, <2>3, <2>4 DEF Orderly, Tracked
    <2>6. /\ p \in Books /\ Orderly(p) /\ Full(p)
          /\ Tracked(p) = Tracked(queued) /\ queued.active \subseteq p.active
          /\ p.refs = queued.refs /\ p.answered = queued.answered
          /\ p.abandoned = queued.abandoned
      BY <2>1, <2>4, <2>5, PumpFact
    <2>7. Paired(p, queries)
      <3>1. \A t \in Tracked(p) : \E k \in Queries : <<t, k>> \in p.refs
        BY <1>5, <2>4, <2>5, <2>6
      <3>2. \A r \in p.refs : r[1] \in Tracked(p) \/ r \in p.abandoned
        BY <1>1, <1>2, <2>4, <2>5, <2>6 DEF Paired
      <3>3. p.answered \subseteq queries \cup p.active
        BY <1>1, <2>4, <2>6 DEF Paired
      <3> QED
        BY <3>1, <3>2, <3>3 DEF Paired
    <2> QED
      BY <1>2, <2>4, <2>6, <2>7 DEF Sound, p
  <1> QED
    BY <1>6, <1>7

(* The same for one document after another.                                *)
Pairs(ds, m, q) == {<<ds[n], q>> : n \in 1..m}

(* f[n] is the bookkeeping once the first n documents of ds are no longer  *)
(* referred to by q.                                                       *)
Removing(f, b, q, m, ds) ==
    f = [n \in 0..m |-> IF n = 0 THEN b ELSE RemoveReference(f[n - 1], q, ds[n])]

(* There is such a function, each of its values is sound, and at the end   *)
(* just the references of q to the documents of ds are gone.               *)
LEMMA RemoveEach ==
  ASSUME LimboAssumption, NEW queries, NEW b, Sound(b, queries), NEW q \in Queries,
         NEW m \in Nat, NEW ds, \A n \in 1..m : ds[n] \in Docs
  PROVE  /\ \E f : Removing(f, b, q, m, ds)
         /\ \A f : Removing(f, b, q, m, ds) =>
               /\ Sound(f[m], queries) /\ f[m].abandoned = b.abandoned
               /\ f[m].refs = b.refs \ Pairs(ds, m, q)
  <1> DEFINE X == {c \in Books : Sound(c, queries)}
             step == [k \in (1..m) \X X |-> RemoveReference(k[2], q, ds[k[1]])]
  <1>1. b \in X
    BY DEF Sound
  <1>2. \A c \in X : \A d \in Docs :
           /\ RemoveReference(c, q, d) \in X
           /\ RemoveReference(c, q, d).refs = c.refs \ {<<d, q>>}
           /\ RemoveReference(c, q, d).abandoned = c.abandoned
    <2> TAKE c \in X
    <2> TAKE d \in Docs
    <2> QED
      BY RemoveReferenceFact DEF Sound
  <1>3. \A c \in X : Sound(c, queries)
    OBVIOUS
  <1> HIDE DEF X
  <1>4. \E f : Removing(f, b, q, m, ds)
    <2>1. step \in [(1..m) \X X -> X]
      BY <1>2
    <2>2. Solutions(X, m, b, step) /= {}
      <3> HIDE DEF step
      <3> QED
        BY <1>1, <2>1, Recursion
    <2>3. PICK g \in [0..m -> X] :
             g[0] = b /\ \A i \in 1..m : g[i] = step[<<i, g[i - 1]>>]
      BY <2>2 DEF Solutions
    <2>4. \A i \in 1..m : g[i] = RemoveReference(g[i - 1], q, ds[i])
      <3> TAKE i \in 1..m
      <3>1. i - 1 \in 0..m
        OBVIOUS
      <3>2. <<i, g[i - 1]>> \in (1..m) \X X
        BY <3>1
      <3> QED
        BY <2>3, <3>2
    <2>5. Removing(g, b, q, m, ds)
      BY <2>3, <2>4 DEF Removing
    <2> QED
      BY <2>5
  <1>5. ASSUME NEW f, Removing(f, b, q, m, ds)
        PROVE  /\ Sound(f[m], queries) /\ f[m].abandoned = b.abandoned
               /\ f[m].refs = b.refs \ Pairs(ds, m, q)
    <2> DEFINE S == {n \in 0..m :
                       /\ f[n] \in X /\ f[n].abandoned = b.abandoned
                       /\ f[n].refs = b.refs \ Pairs(ds, n, q)}
    <2>1. /\ f[0] = b
          /\ \A n \in 1..m : f[n] = RemoveReference(f[n - 1], q, ds[n])
      BY <1>5 DEF Removing
    <2>2. 0 \in S
      <3>1. Pairs(ds, 0, q) = {}
        BY DEF Pairs
      <3> QED
        BY <1>1, <2>1, <3>1
    <2>3. \A n \in 1..m : n - 1 \in S => n \in S
      <3> SUFFICES ASSUME NEW n \in 1..m, n - 1 \in S PROVE n \in S
        OBVIOUS
      <3>1. /\ f[n - 1] \in X /\ f[n - 1].abandoned = b.abandoned
            /\ f[n - 1].refs = b.refs \ Pairs(ds, n - 1, q)
        OBVIOUS
      <3>2. /\ f[n] \in X /\ f[n].abandoned = b.abandoned
            /\ f[n].refs = f[n - 1].refs \ {<<ds[n], q>>}
        BY <1>2, <2>1, <3>1
      <3>3. Pairs(ds, n, q)
              = Pairs(ds, n - 1, q) \cup {<<ds[n], q>>}
        BY DEF Pairs
      <3> QED
        BY <3>1, <3>2, <3>3
    <2> HIDE DEF S
    <2>4. \A n \in 0..m : n \in S
      BY <2>2, <2>3, Upwards
    <2>5. m \in S
      BY <2>4
    <2> QED
      BY <1>3, <2>5 DEF S
  <1> QED
    BY <1>4, <1>5

(* RemoveReferences() takes away the references of q to ds and no other,   *)
(* and the lookups nobody needs any more.                                  *)
LEMMA RemoveReferencesFact ==
  ASSUME LimboAssumption, NEW queries, NEW b, Sound(b, queries),
         NEW q \in Queries, NEW ds \in Seq(Docs)
  PROVE  LET p == RemoveReferences(b, q, ds) IN
         /\ Sound(p, queries) /\ p.abandoned = b.abandoned
         /\ p.refs = b.refs \ {<<d, q>> : d \in ToSet(ds)}
  <1> DEFINE m == Len(ds)
             left == CHOOSE f : Removing(f, b, q, m, ds)
             p == RemoveReferences(b, q, ds)
  <1>1. m \in Nat /\ \A n \in 1..m : ds[n] \in Docs
    OBVIOUS
  <1>2. p = left[m]
    BY DEF RemoveReferences, Removing
  <1>3. Pairs(ds, m, q) = {<<d, q>> : d \in ToSet(ds)}
    BY DEF ToSet, Pairs
  <1> HIDE DEF m, p
  <1>4. /\ \E f : Removing(f, b, q, m, ds)
        /\ \A f : Removing(f, b, q, m, ds) =>
              /\ Sound(f[m], queries) /\ f[m].abandoned = b.abandoned
              /\ f[m].refs = b.refs \ Pairs(ds, m, q)
    BY <1>1, RemoveEach
  <1>5. Removing(left, b, q, m, ds)
    BY <1>4
  <1> QED
    BY <1>2, <1>3, <1>4, <1>5 DEF p

(* f[n] is the bookkeeping once the first n documents of ds are referred   *)
(* to by q.                                                                *)
Adding(f, b, q, m, ds) ==
    f = [n \in 0..m |-> IF n = 0 THEN b ELSE AddReference(f[n - 1], q, ds[n])]

(* There is such a function, each of its values is sound, and at the end   *)
(* just the references of q to the documents of ds have been added.        *)
LEMMA AddEach ==
  ASSUME LimboAssumption, NEW queries, NEW b, Sound(b, queries), NEW q \in Queries,
         NEW m \in Nat, NEW ds, \A n \in 1..m : ds[n] \in Docs
  PROVE  /\ \E f : Adding(f, b, q, m, ds)
         /\ \A f : Adding(f, b, q, m, ds) =>
               /\ Sound(f[m], queries) /\ f[m].abandoned = b.abandoned
               /\ f[m].refs = b.refs \cup Pairs(ds, m, q)
  <1> DEFINE X == {c \in Books : Sound(c, queries)}
             step == [k \in (1..m) \X X |-> AddReference(k[2], q, ds[k[1]])]
  <1>1. b \in X
    BY DEF Sound
  <1>2. \A c \in X : \A d \in Docs :
           /\ AddReference(c, q, d) \in X
           /\ AddReference(c, q, d).refs = c.refs \cup {<<d, q>>}
           /\ AddReference(c, q, d).abandoned = c.abandoned
    <2> TAKE c \in X
    <2> TAKE d \in Docs
    <2> QED
      BY AddReferenceFact DEF Sound
  <1>3. \A c \in X : Sound(c, queries)
    OBVIOUS
  <1> HIDE DEF X
  <1>4. \E f : Adding(f, b, q, m, ds)
    <2>1. step \in [(1..m) \X X -> X]
      BY <1>2
    <2>2. Solutions(X, m, b, step) /= {}
      <3> HIDE DEF step
      <3> QED
        BY <1>1, <2>1, Recursion
    <2>3. PICK g \in [0..m -> X] :
             g[0] = b /\ \A i \in 1..m : g[i] = step[<<i, g[i - 1]>>]
      BY <2>2 DEF Solutions
    <2>4. \A i \in 1..m : g[i] = AddReference(g[i - 1], q, ds[i])
      <3> TAKE i \in 1..m
      <3>1. i - 1 \in 0..m
        OBVIOUS
      <3>2. <<i, g[i - 1]>> \in (1..m) \X X
        BY <3>1
      <3> QED
        BY <2>3, <3>2
    <2>5. Adding(g, b, q, m, ds)
      BY <2>3, <2>4 DEF Adding
    <2> QED
      BY <2>5
  <1>5. ASSUME NEW f, Adding(f, b, q, m, ds)
        PROVE  /\ Sound(f[m], queries) /\ f[m].abandoned = b.abandoned
               /\ f[m].refs = b.refs \cup Pairs(ds, m, q)
    <2> DEFINE S == {n \in 0..m :
                       /\ f[n] \in X /\ f[n].abandoned = b.abandoned
                       /\ f[n].refs = b.refs \cup Pairs(ds, n, q)}
    <2>1. /\ f[0] = b
          /\ \A n \in 1..m : f[n] = AddReference(f[n - 1], q, ds[n])
      BY <1>5 DEF Adding
    <2>2. 0 \in S
      <3>1. Pairs(ds, 0, q) = {}
        BY DEF Pairs
      <3> QED
        BY <1>1, <2>1, <3>1
    <2>3. \A n \in 1..m : n - 1 \in S => n \in S
      <3> SUFFICES ASSUME NEW n \in 1..m, n - 1 \in S PROVE n \in S
        OBVIOUS
      <3>1. /\ f[n - 1] \in X /\ f[n - 1].abandoned = b.abandoned
            /\ f[n - 1].refs = b.refs \cup Pairs(ds, n - 1, q)
        OBVIOUS
      <3>2. /\ f[n] \in X /\ f[n].abandoned = b.abandoned
            /\ f[n].refs = f[n - 1].refs \cup {<<ds[n], q>>}
        BY <1>2, <2>1, <3>1
      <3>3. Pairs(ds, n, q)
              = Pairs(ds, n - 1, q) \cup {<<ds[n], q>>}
        BY DEF Pairs
      <3> QED
        BY <3>1, <3>2, <3>3
    <2> HIDE DEF S
    <2>4. \A n \in 0..m : n \in S
      BY <2>2, <2>3, Upwards
    <2>5. m \in S
      BY <2>4
    <2> QED
      BY <1>3, <2>5 DEF S
  <1> QED
    BY <1>4, <1>5

(* AddReferences() adds the references of q to ds and a lookup of each.    *)
LEMMA AddReferencesFact ==
  ASSUME LimboAssumption, NEW queries, NEW b, Sound(b, queries),
         NEW q \in Queries, NEW ds \in Seq(Docs)
  PROVE  LET p == AddReferences(b, q, ds) IN
         /\ Sound(p, queries) /\ p.abandoned = b.abandoned
         /\ p.refs = b.refs \cup {<<d, q>> : d \in ToSet(ds)}
  <1> DEFINE m == Len(ds)
             more == CHOOSE f : Adding(f, b, q, m, ds)
             p == AddReferences(b, q, ds)
  <1>1. m \in Nat /\ \A n \in 1..m : ds[n] \in Docs
    OBVIOUS
  <1>2. p = more[m]
    BY DEF AddReferences, Adding
  <1>3. Pairs(ds, m, q) = {<<d, q>> : d \in ToSet(ds)}
    BY DEF ToSet, Pairs
  <1> HIDE DEF m, p
  <1>4. /\ \E f : Adding(f, b, q, m, ds)
        /\ \A f : Adding(f, b, q, m, ds) =>
              /\ Sound(f[m], queries) /\ f[m].abandoned = b.abandoned
              /\ f[m].refs = b.refs \cup Pairs(ds, m, q)
    BY <1>1, AddEach
  <1>5. Adding(more, b, q, m, ds)
    BY <1>4
  <1> QED
    BY <1>2, <1>3, <1>4, <1>5 DEF p

(* The references of q become those of its new set, the others stay.       *)
LEMMA UpdateTrackedLimboDocumentsFact ==
  ASSUME LimboAssumption, NEW queries, NEW b, Sound(b, queries), NEW q \in Queries,
         NEW old \in SUBSET Docs, NEW new \in SUBSET Docs
  PROVE  LET p == UpdateTrackedLimboDocuments(b, q, old, new) IN
         /\ Sound(p, queries) /\ p.abandoned = b.abandoned
         /\ p.refs = (b.refs \ {<<d, q>> : d \in old \ new})
                       \cup {<<d, q>> : d \in new \ old}
  <1> DEFINE gone == SetToSeq(old \ new)
             come == SetToSeq(new \ old)
             less == RemoveReferences(b, q, gone)
             p == AddReferences(less, q, come)
  <1>1. IsFiniteSet(old \ new) /\ IsFiniteSet(new \ old)
    BY FS_Subset DEF LimboAssumption
  <1>2. /\ gone \in Seq(old \ new) /\ ToSet(gone) = old \ new
        /\ come \in Seq(new \ old) /\ ToSet(come) = new \ old
    BY <1>1, Enumeration
  <1>3. UpdateTrackedLimboDocuments(b, q, old, new) = p
    BY DEF UpdateTrackedLimboDocuments
  <1> HIDE DEF gone, come
  <1>4. gone \in Seq(Docs) /\ come \in Seq(Docs)
    BY <1>2, SeqMonotonic
  <1>5. /\ Sound(less, queries) /\ less.abandoned = b.abandoned
        /\ less.refs = b.refs \ {<<d, q>> : d \in ToSet(gone)}
    BY <1>4, RemoveReferencesFact
  <1> HIDE DEF less
  <1>6. /\ Sound(p, queries) /\ p.abandoned = less.abandoned
        /\ p.refs = less.refs \cup {<<d, q>> : d \in ToSet(come)}
    BY <1>4, <1>5, AddReferencesFact
  <1> HIDE DEF p
  <1> QED
    BY <1>2, <1>3, <1>5, <1>6

(* Every view of the queries qs is brought up to date.                     *)
Tracking(f, b, m, qs, old, new) ==
    f = [n \in 0..m |->
           IF n = 0 THEN b
           ELSE UpdateTrackedLimboDocuments(f[n - 1], qs[n], old[qs[n]], new[qs[n]])]

(* The documents in limbo of each view.                                    *)
LimboSets == [Queries -> SUBSET Docs]

(* The references the views need.                                          *)
References(of) == {r \in Docs \X Queries : r[1] \in of[r[2]]}

(* The documents in limbo once the first n queries of qs have been         *)
(* updated.                                                                *)
Upto(n, qs, old, new) ==
    [q \in Queries |-> IF \E i \in 1..n : qs[i] = q THEN new[q] ELSE old[q]]

(* Updating the queries one after another keeps the bookkeeping sound, and *)
(* the references are those of the views updated so far.                   *)
LEMMA UpdateEach ==
  ASSUME LimboAssumption, NEW queries, NEW b, Sound(b, queries),
         NEW m \in Nat, NEW qs, \A n \in 1..m : qs[n] \in Queries,
         NEW old \in LimboSets, NEW new \in LimboSets,
         b.refs = References(old)
  PROVE  /\ \E f : Tracking(f, b, m, qs, old, new)
         /\ \A f : Tracking(f, b, m, qs, old, new) =>
               /\ Sound(f[m], queries) /\ f[m].abandoned = b.abandoned
               /\ f[m].refs = References(Upto(m, qs, old, new))
  <1> DEFINE X == {c \in Books : Sound(c, queries)}
             next(c, q) == UpdateTrackedLimboDocuments(c, q, old[q], new[q])
             step == [k \in (1..m) \X X |-> next(k[2], qs[k[1]])]
  <1>1. b \in X
    BY DEF Sound
  <1>2. \A c \in X : \A q \in Queries :
           /\ next(c, q) \in X /\ next(c, q).abandoned = c.abandoned
           /\ next(c, q).refs = (c.refs \ {<<d, q>> : d \in old[q] \ new[q]})
                                  \cup {<<d, q>> : d \in new[q] \ old[q]}
    <2> TAKE c \in X
    <2> TAKE q \in Queries
    <2>1. old[q] \in SUBSET Docs /\ new[q] \in SUBSET Docs /\ Sound(c, queries)
      BY DEF LimboSets
    <2> HIDE DEF X
    <2>2. /\ Sound(next(c, q), queries) /\ next(c, q).abandoned = c.abandoned
          /\ next(c, q).refs = (c.refs \ {<<d, q>> : d \in old[q] \ new[q]})
                                 \cup {<<d, q>> : d \in new[q] \ old[q]}
      BY <2>1, UpdateTrackedLimboDocumentsFact
    <2>3. next(c, q) \in X
      BY <2>2 DEF Sound, X
    <2> QED
      BY <2>2, <2>3
  <1>3. \A c \in X : Sound(c, queries)
    OBVIOUS
  <1> HIDE DEF X
  <1>4. \E f : Tracking(f, b, m, qs, old, new)
    <2>1. step \in [(1..m) \X X -> X]
      <3> HIDE DEF next
      <3> QED
        BY <1>2
    <2>2. Solutions(X, m, b, step) /= {}
      <3> HIDE DEF step
      <3> QED
        BY <1>1, <2>1, Recursion
    <2>3. PICK g \in [0..m -> X] :
             g[0] = b /\ \A i \in 1..m : g[i] = step[<<i, g[i - 1]>>]
      BY <2>2 DEF Solutions
    <2>4. \A i \in 1..m : g[i] = next(g[i - 1], qs[i])
      <3> TAKE i \in 1..m
      <3>1. i - 1 \in 0..m
        OBVIOUS
      <3>2. <<i, g[i - 1]>> \in (1..m) \X X
        BY <3>1
      <3> HIDE DEF next
      <3> QED
        BY <2>3, <3>2
    <2>5. Tracking(g, b, m, qs, old, new)
      BY <2>3, <2>4 DEF Tracking
    <2> QED
      BY <2>5
  <1>5. ASSUME NEW f, Tracking(f, b, m, qs, old, new)
        PROVE  /\ Sound(f[m], queries) /\ f[m].abandoned = b.abandoned
               /\ f[m].refs = References(Upto(m, qs, old, new))
    <2> DEFINE At(k) == References(Upto(k, qs, old, new))
               S == {n \in 0..m : /\ f[n] \in X /\ f[n].abandoned = b.abandoned
                                  /\ f[n].refs = At(n)}
    <2>1. f[0] = b /\ \A n \in 1..m : f[n] = next(f[n - 1], qs[n])
      BY <1>5 DEF Tracking
    <2> HIDE DEF next
    <2>2. 0 \in S
      <3>1. At(0) = b.refs
        <4>1. Upto(0, qs, old, new) = old
          BY DEF Upto, LimboSets
        <4> QED
          BY <4>1
      <3> HIDE DEF At
      <3>2. f[0] \in X /\ f[0].abandoned = b.abandoned /\ f[0].refs = At(0)
        BY <1>1, <2>1, <3>1
      <3> QED
        BY <3>2
    <2>3. \A n \in 1..m : n - 1 \in S => n \in S
      <3> SUFFICES ASSUME NEW n \in 1..m, n - 1 \in S PROVE n \in S
        OBVIOUS
      <3> DEFINE q == qs[n]
      <3>1. f[n - 1] \in X /\ f[n - 1].abandoned = b.abandoned /\ f[n - 1].refs = At(n - 1)
        OBVIOUS
      <3>2. q \in Queries /\ old[q] \subseteq Docs /\ new[q] \subseteq Docs
        BY DEF LimboSets
      <3>3. /\ f[n] \in X /\ f[n].abandoned = b.abandoned
            /\ f[n].refs = (At(n - 1) \ {<<d, q>> : d \in old[q] \ new[q]})
                             \cup {<<d, q>> : d \in new[q] \ old[q]}
        <4> HIDE DEF At
        <4> QED
          BY <1>2, <2>1, <3>1, <3>2
      <3>4. \A k \in Queries : (\E i \in 1..n : qs[i] = k)
                                 <=> k = q \/ \E i \in 1..(n - 1) : qs[i] = k
        OBVIOUS
      <3>5. f[n].refs = At(n)
        <4> HIDE DEF q
        <4>1. f[n].refs \subseteq Docs \X Queries /\ At(n) \subseteq Docs \X Queries
          BY <3>2, <3>3 DEF References
        <4>2. \A d \in Docs : \A k \in Queries : <<d, k>> \in f[n].refs <=> <<d, k>> \in At(n)
          BY <3>2, <3>3, <3>4 DEF References, Upto
        <4> HIDE DEF At
        <4>3. \A r \in Docs \X Queries : r \in f[n].refs <=> r \in At(n)
          BY <4>2
        <4> QED
          BY <4>1, <4>3
      <3> HIDE DEF At
      <3> QED
        BY <3>3, <3>5
    <2> HIDE DEF S
    <2>4. \A n \in 0..m : n \in S
      BY <2>2, <2>3, Upwards
    <2>5. m \in S
      BY <2>4
    <2> QED
      BY <1>3, <2>5 DEF S
  <1> QED
    BY <1>4, <1>5

(* In the end they are those of all the views.                             *)
LEMMA UpdateTrackedFact ==
  ASSUME LimboAssumption, NEW queries, NEW b, Sound(b, queries),
         NEW qs \in Seq(Queries),
         NEW old \in LimboSets, NEW new \in LimboSets,
         \A q \in Queries \ ToSet(qs) : old[q] = new[q],
         b.refs = References(old)
  PROVE  LET p == UpdateTracked(b, qs, old, new) IN
         /\ Sound(p, queries) /\ p.abandoned = b.abandoned
         /\ p.refs = References(new)
  <1> DEFINE m == Len(qs)
             done == CHOOSE f : Tracking(f, b, m, qs, old, new)
             p == UpdateTracked(b, qs, old, new)
  <1>1. m \in Nat /\ \A n \in 1..m : qs[n] \in Queries
    OBVIOUS
  <1>2. p = done[m]
    BY DEF UpdateTracked, Tracking
  <1>3. Upto(m, qs, old, new) = new
    <2>1. \A q \in Queries : ~(\E n \in 1..m : qs[n] = q) => old[q] = new[q]
      BY DEF ToSet
    <2> HIDE DEF m
    <2> QED
      BY <2>1 DEF Upto, LimboSets
  <1> HIDE DEF m, p
  <1>4. \E f : Tracking(f, b, m, qs, old, new)
    BY <1>1, UpdateEach
  <1>5. Tracking(done, b, m, qs, old, new)
    BY <1>4
  <1> HIDE DEF done
  <1>6. /\ Sound(done[m], queries) /\ done[m].abandoned = b.abandoned
        /\ done[m].refs = References(Upto(m, qs, old, new))
    BY <1>1, <1>5, UpdateEach
  <1> QED
    BY <1>2, <1>3, <1>6 DEF p

-----------------------------------------------------------------------------
(* The actions.                                                            *)

(* The inductive invariant: the views and the documents have their types,  *)
(* a query that nobody listens to has nothing in limbo, the references are *)
(* those of the views, and the bookkeeping is sound.                       *)
ViewsOK ==
    /\ listening \subseteq Queries /\ current \subseteq listening
    /\ synced \in [Queries -> SUBSET Docs] /\ limbo \in LimboSets
    /\ \A q \in Queries \ listening : limbo[q] = {}
    /\ refs = References(limbo) /\ abandoned \subseteq refs

(* Types of the documents.                                                 *)
DocumentsOK ==
    /\ cached \in [Docs -> SUBSET Queries] /\ truth \in [Docs -> SUBSET Queries]
    /\ pending \in [Docs -> (SUBSET Queries) \cup {NoWrite}]

(* The inductive invariant.                                                *)
Inv == ViewsOK /\ DocumentsOK /\ Sound(book, listening)

(* It includes the type invariant.                                         *)
LEMMA InvTypes ==
  ASSUME Inv PROVE TypeOK
  <1>1. /\ book.active = active /\ book.waiting = waiting /\ book.answered = answered
        /\ book \in Books /\ Paired(book, listening)
    BY DEF Inv, Sound, book
  <1>2. active \subseteq Docs /\ waiting \in Seq(Docs)
    BY <1>1 DEF Books
  <1>3. answered \subseteq listening \cup active
    BY <1>1 DEF Paired
  <1> QED
    BY <1>2, <1>3 DEF Inv, ViewsOK, DocumentsOK, TypeOK, References, LimboSets

(* The bookkeeping after a step, from the record it is set from.           *)
LEMMA BookKeeps ==
  ASSUME NEW queries, NEW p, Sound(p, queries), Book(p), queries = listening'
  PROVE  /\ Sound(book, listening)'
         /\ refs' = p.refs /\ abandoned' \subseteq refs'
  <1>1. /\ p \in Books /\ Orderly(p) /\ Full(p) /\ Paired(p, queries)
    BY DEF Sound
  <1>2. book' = [refs |-> p.refs, active |-> p.active, waiting |-> p.waiting,
                 answered |-> p.answered, abandoned |-> p.abandoned \cap p.refs]
    BY DEF book, Book
  <1> DEFINE c == book'
  <1>3. /\ c \in Books /\ c.refs = p.refs /\ c.active = p.active /\ c.waiting = p.waiting
        /\ c.answered = p.answered /\ c.abandoned = p.abandoned \cap p.refs
    BY <1>1, <1>2 DEF Books
  <1> HIDE DEF c
  <1>4. Orderly(c) /\ Full(c) /\ Tracked(c) = Tracked(p)
    BY <1>1, <1>3 DEF Orderly, Full, Tracked
  <1>5. Paired(c, queries)
    BY <1>1, <1>3, <1>4 DEF Paired
  <1>6. Sound(c, queries)
    BY <1>3, <1>4, <1>5 DEF Sound
  <1>7. Sound(book', listening')
    BY <1>6 DEF c
  <1> QED
    BY <1>7 DEF Book

(* What a snapshot does to the views and the bookkeeping b.                *)
LEMMA EmitKeeps ==
  ASSUME LimboAssumption, ViewsOK, NEW b, Sound(b, listening), b.refs = refs,
         EmitNewSnapshots(b), UNCHANGED listening
  PROVE  /\ limbo' \in LimboSets
         /\ \A q \in Queries \ listening' : limbo'[q] = {}
         /\ refs' = References(limbo') /\ abandoned' \subseteq refs'
         /\ Sound(book, listening)'
  <1> DEFINE qs == SetToSeq(listening)
             p == UpdateTracked(b, qs, limbo, limbo')
  <1>1. /\ Book(p)
        /\ limbo' = [q \in Queries |-> IF q \in listening THEN UpdateLimboDocuments(q)
                                       ELSE {}]
    BY DEF EmitNewSnapshots
  <1>2. limbo' \in LimboSets /\ \A q \in Queries \ listening : limbo'[q] = {}
    <2>1. \A q \in Queries : UpdateLimboDocuments(q) \in SUBSET Docs
      BY DEF UpdateLimboDocuments, ViewsOK, LimboSets
    <2> QED
      BY <1>1, <2>1 DEF LimboSets
  <1>3. /\ limbo \in LimboSets /\ refs = References(limbo)
        /\ \A q \in Queries \ listening : limbo[q] = {}
    BY DEF ViewsOK
  <1>4. qs \in Seq(Queries) /\ ToSet(qs) = listening
    <2>1. listening \subseteq Queries /\ IsFiniteSet(listening)
      BY FS_Subset DEF ViewsOK, LimboAssumption
    <2>2. qs \in Seq(listening) /\ ToSet(qs) = listening
      BY <2>1, Enumeration
    <2> HIDE DEF qs
    <2> QED
      BY <2>1, <2>2, SeqMonotonic
  <1> HIDE DEF qs
  <1>5. \A q \in Queries \ ToSet(qs) : limbo[q] = limbo'[q]
    BY <1>2, <1>3, <1>4
  <1>6. Sound(p, listening) /\ p.refs = References(limbo')
    BY <1>2, <1>3, <1>4, <1>5, UpdateTrackedFact
  <1> HIDE DEF p
  <1>7. /\ Sound(book, listening)'
        /\ refs' = p.refs /\ abandoned' \subseteq refs'
    BY <1>1, <1>6, BookKeeps
  <1> QED
    BY <1>2, <1>6, <1>7

(* EmitNewSnapshots() establishes the invariant from sound bookkeeping     *)
(* that still has the references of the old views.                         *)
LEMMA EmitInv ==
  ASSUME LimboAssumption, ViewsOK, NEW b, Sound(b, listening), b.refs = refs,
         EmitNewSnapshots(b), UNCHANGED listening,
         current' \subseteq listening, synced' \in [Queries -> SUBSET Docs],
         DocumentsOK'
  PROVE  Inv'
  <1>1. /\ limbo' \in LimboSets
        /\ \A q \in Queries \ listening' : limbo'[q] = {}
        /\ refs' = References(limbo') /\ abandoned' \subseteq refs'
        /\ Sound(book, listening)'
    BY EmitKeeps
  <1>2. ViewsOK'
    BY <1>1 DEF ViewsOK
  <1> QED
    BY <1>1, <1>2 DEF Inv

(* A new listener has nothing in limbo yet.                                *)
LEMMA ListenKeeps ==
  ASSUME Inv, NEW q \in Queries, Listen(q)
  PROVE  Inv'
  <1>1. /\ q \notin listening /\ listening' = listening \cup {q}
        /\ UNCHANGED <<current, synced, limbo, cached, pending, truth, refs, active,
                       waiting, answered, abandoned>>
    BY DEF Listen, documents, bookVars
  <1>2. ViewsOK'
    BY <1>1 DEF Inv, ViewsOK
  <1>3. DocumentsOK'
    BY <1>1 DEF Inv, DocumentsOK
  <1>4. book' = book
    BY <1>1 DEF book
  <1>5. Sound(book, listening')
    BY <1>1 DEF Inv, Sound, Paired
  <1> QED
    BY <1>2, <1>3, <1>4, <1>5 DEF Inv

(* The references of a listener that stops are removed with it.            *)
LEMMA StopKeeps ==
  ASSUME LimboAssumption, Inv, NEW q \in Queries, StopListening(q)
  PROVE  Inv'
  <1> DEFINE b == [book EXCEPT !.answered = @ \ {q}]
             gone == {d \in Docs : <<d, q>> \in refs}
             ds == SetToSeq(gone)
             p == RemoveReferences(b, q, ds)
  <1>1. /\ listening' = listening \ {q} /\ current' = current \ {q}
        /\ limbo' = [limbo EXCEPT ![q] = {}] /\ Book(p)
        /\ UNCHANGED <<synced, cached, pending, truth>>
    BY DEF StopListening, documents
  <1>2. Sound(book, listening)
    BY DEF Inv
  <1>3. /\ b \in Books /\ b.refs = book.refs /\ b.active = book.active
        /\ b.waiting = book.waiting /\ b.abandoned = book.abandoned
        /\ b.answered = book.answered \ {q} /\ book.refs = refs
    BY <1>2 DEF Sound, Books, book
  <1> HIDE DEF b
  <1>4. Sound(b, listening')
    BY <1>1, <1>2, <1>3 DEF Sound, Orderly, Full, Paired, Tracked
  <1>5. ds \in Seq(Docs) /\ ToSet(ds) = gone
    <2>1. gone \subseteq Docs /\ IsFiniteSet(gone)
      BY FS_Subset DEF LimboAssumption
    <2>2. ds \in Seq(gone) /\ ToSet(ds) = gone
      BY <2>1, Enumeration
    <2> HIDE DEF ds
    <2> QED
      BY <2>1, <2>2, SeqMonotonic
  <1> HIDE DEF ds
  <1>6. Sound(p, listening') /\ p.refs = b.refs \ {<<d, q>> : d \in ToSet(ds)}
    <2> DEFINE after == listening'
    <2>1. Sound(b, after) /\ ds \in Seq(Docs)
      BY <1>4, <1>5
    <2> HIDE DEF after
    <2>2. /\ Sound(p, after) /\ p.abandoned = b.abandoned
          /\ p.refs = b.refs \ {<<d, q>> : d \in ToSet(ds)}
      BY <2>1, RemoveReferencesFact
    <2> QED
      BY <2>2 DEF after
  <1> HIDE DEF p
  <1>7. Sound(book, listening)' /\ refs' = p.refs /\ abandoned' \subseteq refs'
    BY <1>1, <1>6, BookKeeps
  <1>8. limbo' \in LimboSets /\ \A k \in Queries \ listening' : limbo'[k] = {}
    BY <1>1 DEF Inv, ViewsOK, LimboSets
  <1>9. refs' = References(limbo')
    <2>1. refs = {r \in Docs \X Queries : r[1] \in limbo[r[2]]}
      BY DEF Inv, ViewsOK, References
    <2>2. limbo \in [Queries -> SUBSET Docs]
      BY DEF Inv, ViewsOK, LimboSets
    <2>3. refs' = refs \ {<<d, q>> : d \in gone}
      BY <1>3, <1>5, <1>6, <1>7
    <2>4. \A r \in Docs \X Queries : r \in refs' <=> r[1] \in limbo'[r[2]]
      <3> TAKE r \in Docs \X Queries
      <3>1. PICK d \in Docs, k \in Queries : r = <<d, k>>
        OBVIOUS
      <3>2. r \in refs' <=> k /= q /\ d \in limbo[k]
        BY <2>1, <2>3, <3>1
      <3>3. limbo'[k] = IF k = q THEN {} ELSE limbo[k]
        BY <1>1, <2>2
      <3> QED
        BY <3>1, <3>2, <3>3
    <2>5. refs' \subseteq Docs \X Queries
      BY <2>1, <2>3
    <2> QED
      BY <2>4, <2>5 DEF References
  <1>10. ViewsOK'
    BY <1>1, <1>7, <1>8, <1>9 DEF Inv, ViewsOK
  <1>11. DocumentsOK'
    BY <1>1 DEF Inv, DocumentsOK
  <1> QED
    BY <1>7, <1>10, <1>11 DEF Inv

(* The writes of the app and their answers.                                *)
LEMMA WriteKeeps ==
  ASSUME LimboAssumption, Inv, NEW d \in Docs,
         \/ \E m \in SUBSET Queries : WriteMutations(d, m)
         \/ HandleSuccessfulWrite(d)
         \/ HandleRejectedWrite(d)
  PROVE  Inv'
  <1>1. EmitNewSnapshots(book) /\ UNCHANGED <<listening, current, synced>>
    BY DEF WriteMutations, HandleSuccessfulWrite, HandleRejectedWrite
  <1>2. /\ pending' = [pending EXCEPT ![d] = pending'[d]]
        /\ pending'[d] \in (SUBSET Queries) \cup {NoWrite}
        /\ \/ UNCHANGED <<cached, truth>>
           \/ /\ pending[d] \in SUBSET Queries
              /\ cached' = [cached EXCEPT ![d] = pending[d]]
              /\ truth' = [truth EXCEPT ![d] = pending[d]]
    BY DEF Inv, DocumentsOK, WriteMutations, HandleSuccessfulWrite, HandleRejectedWrite
  <1>3. DocumentsOK'
    BY <1>2 DEF Inv, DocumentsOK
  <1>4. /\ ViewsOK /\ Sound(book, listening) /\ book.refs = refs
        /\ current' \subseteq listening /\ synced' \in [Queries -> SUBSET Docs]
    BY <1>1 DEF Inv, ViewsOK, book
  <1> QED
    BY <1>1, <1>3, <1>4, EmitInv

(* A rejected lookup leaves its place to the next; a reference that stays  *)
(* is abandoned.                                                           *)
LEMMA RejectedKeeps ==
  ASSUME LimboAssumption, Inv, NEW d \in Docs, HandleRejectedListen(d)
  PROVE  Inv'
  <1> DEFINE free == [Unlisted(book, d) EXCEPT
                        !.abandoned = @ \cup {<<d, q>> : q \in Queries}]
             p == PumpEnqueuedLimboResolutions(free)
  <1>1. /\ d \in active /\ cached' = [cached EXCEPT ![d] = {}]
        /\ UNCHANGED <<listening, current, synced, pending, truth>>
        /\ EmitNewSnapshots(p)
    BY DEF HandleRejectedListen
  <1>2. Sound(book, listening) /\ book.active = active /\ book.refs = refs
    BY DEF Inv, book
  <1>b. {<<d, q>> : q \in Queries} \subseteq Docs \X Queries
    OBVIOUS
  <1>u. /\ Unlisted(book, d) \in Books /\ Unlisted(book, d).active = book.active \ {d}
        /\ Unlisted(book, d).waiting = book.waiting
        /\ Unlisted(book, d).refs = book.refs
        /\ Unlisted(book, d).answered = book.answered \ {d}
        /\ Unlisted(book, d).abandoned = book.abandoned
    <2> DEFINE b == book
    <2>1. b \in Books
      BY <1>2 DEF Sound
    <2> HIDE DEF b
    <2>2. /\ Unlisted(b, d) \in Books /\ Unlisted(b, d).active = b.active \ {d}
          /\ Unlisted(b, d).waiting = b.waiting
          /\ Unlisted(b, d).refs = b.refs
          /\ Unlisted(b, d).answered = b.answered \ {d}
          /\ Unlisted(b, d).abandoned = b.abandoned
      BY <2>1 DEF Unlisted, Books
    <2> QED
      BY <2>2 DEF b
  <1>3. /\ free \in Books /\ free.active = book.active \ {d}
        /\ free.waiting = book.waiting /\ free.refs = book.refs
        /\ free.answered = book.answered \ {d}
        /\ free.abandoned = book.abandoned \cup {<<d, q>> : q \in Queries}
    BY <1>b, <1>u DEF Books
  <1> HIDE DEF free
  <1>4. Orderly(book) /\ book \in Books /\ Paired(book, listening)
    BY <1>2 DEF Sound
  <1>5. Orderly(free)
    <2>1. IsFiniteSet(book.active) /\ Cardinality(book.active) \in Nat
      BY <1>4, FS_Subset, FS_CardinalityType DEF LimboAssumption, Books
    <2>2. Cardinality(book.active \ {d}) = Cardinality(book.active) - 1
      BY <1>1, <1>2, <2>1, FS_RemoveElement
    <2> QED
      BY <1>3, <1>4, <2>1, <2>2 DEF Orderly, LimboAssumption
  <1>6. /\ p \in Books /\ Orderly(p) /\ Full(p)
        /\ Tracked(p) = Tracked(free) /\ free.active \subseteq p.active
        /\ p.refs = free.refs /\ p.answered = free.answered
        /\ p.abandoned = free.abandoned
    BY <1>3, <1>5, PumpFact
  <1>7. Tracked(free) = Tracked(book) \ {d}
    BY <1>1, <1>2, <1>3, <1>4 DEF Tracked, Orderly
  <1> HIDE DEF p
  <1>8. Paired(p, listening)
    <2>1. \A t \in Tracked(p) : \E k \in Queries : <<t, k>> \in p.refs
      BY <1>3, <1>4, <1>6, <1>7 DEF Paired
    <2>2. \A r \in p.refs : r[1] \in Tracked(p) \/ r \in p.abandoned
      <3> SUFFICES ASSUME NEW r \in p.refs PROVE r[1] \in Tracked(p) \/ r \in p.abandoned
        OBVIOUS
      <3>1. r \in book.refs /\ r \in Docs \X Queries
        BY <1>3, <1>4, <1>6 DEF Books
      <3>2. r[1] \in Tracked(book) \/ r \in book.abandoned
        BY <1>4, <3>1 DEF Paired
      <3>3. r[1] = d => r \in {<<d, q>> : q \in Queries}
        BY <3>1
      <3> QED
        BY <1>3, <1>6, <1>7, <3>2, <3>3
    <2>3. p.answered \subseteq listening \cup p.active
      BY <1>3, <1>4, <1>6 DEF Paired
    <2> QED
      BY <2>1, <2>2, <2>3 DEF Paired
  <1>9. Sound(p, listening) /\ p.refs = refs
    BY <1>2, <1>3, <1>6, <1>8 DEF Sound
  <1>10. DocumentsOK'
    BY <1>1 DEF Inv, DocumentsOK
  <1>11. /\ ViewsOK /\ current' \subseteq listening
         /\ synced' \in [Queries -> SUBSET Docs]
    BY <1>1 DEF Inv, ViewsOK
  <1> QED
    BY <1>1, <1>9, <1>10, <1>11, EmitInv

(* A snapshot of the watch stream is applied to documents and views.       *)
LEMMA SnapshotKeeps ==
  ASSUME LimboAssumption, Inv, NEW new, ApplyRemoteEvent(new)
  PROVE  Inv'
  <1> DEFINE sent == answered \cup new
             b == [book EXCEPT !.answered = sent]
  <1>1. /\ new \subseteq (listening \cup active)
        /\ current' = current \cup (sent \cap Queries)
        /\ UNCHANGED <<listening, pending, truth>>
        /\ EmitNewSnapshots(b)
    BY DEF ApplyRemoteEvent
  <1>2. cached' \in [Docs -> SUBSET Queries] /\ synced' \in [Queries -> SUBSET Docs]
    BY DEF ApplyRemoteEvent, Inv, DocumentsOK, ViewsOK
  <1>3. Sound(book, listening) /\ book.active = active /\ book.refs = refs
        /\ book.answered = answered
    BY DEF Inv, book
  <1>4. active \subseteq Docs /\ answered \subseteq listening \cup active
    BY <1>3 DEF Sound, Paired, Books
  <1>5. sent \subseteq listening \cup active
    BY <1>1, <1>4
  <1>6. listening \subseteq Queries /\ current \subseteq listening
    BY DEF Inv, ViewsOK
  <1> HIDE DEF sent
  <1>7. /\ b \in Books /\ b.refs = book.refs /\ b.active = book.active
        /\ b.waiting = book.waiting /\ b.abandoned = book.abandoned
        /\ b.answered = sent
    BY <1>3, <1>4, <1>5, <1>6 DEF Sound, Books
  <1> HIDE DEF b
  <1>8. Sound(b, listening) /\ b.refs = refs
    BY <1>3, <1>5, <1>7 DEF Sound, Orderly, Full, Paired, Tracked
  <1>9. current' \subseteq listening
    BY <1>1, <1>4, <1>5, <1>6 DEF LimboAssumption
  <1>10. DocumentsOK'
    BY <1>1, <1>2 DEF Inv, DocumentsOK
  <1> QED
    BY <1>1, <1>2, <1>8, <1>9, <1>10, EmitInv DEF Inv

(* The steps of the server and of the stream touch no reference.           *)
LEMMA OtherKeeps ==
  ASSUME Inv,
         \/ StreamBreaks
         \/ \E d \in Docs : \E m \in SUBSET Queries : ServerChange(d, m)
         \/ UNCHANGED vars
  PROVE  Inv'
  <1>1. /\ UNCHANGED <<listening, synced, limbo, cached, pending, refs, active, waiting,
                       abandoned>>
        /\ answered' \in {answered, {}} /\ current' \in {current, {}}
        /\ \/ truth' = truth
           \/ \E d \in Docs : \E m \in SUBSET Queries : truth' = [truth EXCEPT ![d] = m]
    BY DEF StreamBreaks, ServerChange, vars, views, documents, bookVars
  <1>2. ViewsOK'
    BY <1>1 DEF Inv, ViewsOK
  <1>3. DocumentsOK'
    BY <1>1 DEF Inv, DocumentsOK
  <1>4. Sound(book, listening)
    BY DEF Inv
  <1>5. /\ book' \in Books /\ book'.refs = book.refs /\ book'.active = book.active
        /\ book'.waiting = book.waiting /\ book'.abandoned = book.abandoned
        /\ book'.answered \subseteq book.answered
    BY <1>1, <1>4 DEF Sound, Books, book
  <1> DEFINE c == book'
             b == book
  <1>6. Sound(c, listening)
    <2>1. Sound(b, listening) /\ c \in Books /\ c.refs = b.refs /\ c.active = b.active
          /\ c.waiting = b.waiting /\ c.abandoned = b.abandoned
          /\ c.answered \subseteq b.answered
      BY <1>4, <1>5
    <2> HIDE DEF b, c
    <2> QED
      BY <2>1 DEF Sound, Orderly, Full, Paired, Tracked
  <1>7. Sound(book', listening')
    BY <1>1, <1>6
  <1> QED
    BY <1>2, <1>3, <1>7 DEF Inv

(* At first there is nothing to look up.                                   *)
LEMMA InitInv ==
  ASSUME LimboAssumption, Init PROVE Inv
  <1>1. ViewsOK /\ DocumentsOK
    BY DEF Init, ViewsOK, DocumentsOK, LimboSets, References
  <1>2. book = [refs |-> {}, active |-> {}, waiting |-> << >>, answered |-> {},
                abandoned |-> {}]
    BY DEF Init, book
  <1>3. book \in Books
    BY <1>2 DEF Books
  <1>4. IsInjective(<< >>) /\ ToSet(<< >>) = {}
    BY DEF IsInjective, ToSet
  <1>5. Cardinality({}) = 0
    BY FS_EmptySet
  <1>6. Orderly(book) /\ Full(book) /\ Paired(book, listening)
    BY <1>2, <1>4, <1>5 DEF Orderly, Full, Paired, Tracked, LimboAssumption, Init
  <1> QED
    BY <1>1, <1>3, <1>6 DEF Inv, Sound

(* Every step keeps the invariant.                                         *)
LEMMA NextInv ==
  ASSUME LimboAssumption, Inv, [Next]_vars PROVE Inv'
  <1>1. CASE \E q \in Queries : Listen(q) \/ StopListening(q)
    BY <1>1, ListenKeeps, StopKeeps
  <1>2. CASE \E d \in Docs : \/ \E m \in SUBSET Queries : WriteMutations(d, m)
                             \/ HandleSuccessfulWrite(d) \/ HandleRejectedWrite(d)
    BY <1>2, WriteKeeps
  <1>3. CASE \E d \in Docs : HandleRejectedListen(d)
    BY <1>3, RejectedKeeps
  <1>4. CASE Snapshot
    BY <1>4, SnapshotKeeps DEF Snapshot
  <1>5. CASE \/ StreamBreaks
             \/ \E d \in Docs : \E m \in SUBSET Queries : ServerChange(d, m)
             \/ UNCHANGED vars
    BY <1>5, OtherKeeps
  <1> QED
    BY <1>1, <1>2, <1>3, <1>4, <1>5 DEF Next

(* The invariant holds in every behaviour.                                 *)
LEMMA Invariance ==
  ASSUME LimboAssumption PROVE Spec => []Inv
  <1>1. Init => Inv
    BY InitInv
  <1>2. Inv /\ [Next]_vars => Inv'
    BY NextInv
  <1> QED
    BY <1>1, <1>2, PTL DEF Spec

-----------------------------------------------------------------------------
(* The state of the views and of SyncEngine's bookkeeping has its types in *)
(* every reachable state.                                                  *)
THEOREM TypeCorrect ==
  ASSUME LimboAssumption PROVE Spec => []TypeOK
  <1>1. Inv => TypeOK
    BY InvTypes
  <1> QED
    BY <1>1, Invariance, PTL

(* What keeps a view from being synced is looked up, or waits for a place  *)
(* that is taken, through rejected lookups, listeners that go, writes and  *)
(* breaks of the stream; the one exception is a lookup that was rejected   *)
(* while it was still needed.                                              *)
THEOREM NoneForgotten ==
  ASSUME LimboAssumption PROVE Spec => []LimboIsLookedUp
  <1>1. ASSUME Inv PROVE LimboIsLookedUp
    <2>1. /\ ViewsOK /\ Full(book) /\ Paired(book, listening)
          /\ book.refs = refs /\ book.active = active /\ book.waiting = waiting
          /\ book.abandoned = abandoned
      BY <1>1 DEF Inv, Sound, book
    <2>2. waiting /= << >> => Cardinality(active) = max_concurrent_limbo_resolutions
      BY <2>1 DEF Full
    <2>3. ASSUME NEW q \in current, NEW d \in limbo[q]
          PROVE  d \in active \cup ToSet(waiting) \/ <<d, q>> \in abandoned
      <3>1. q \in Queries /\ d \in Docs /\ <<d, q>> \in refs
        BY <2>1, <2>3 DEF ViewsOK, LimboSets, References
      <3>2. d \in Tracked(book) \/ <<d, q>> \in abandoned
        BY <2>1, <3>1 DEF Paired
      <3> QED
        BY <2>1, <3>2 DEF Tracked
    <2> QED
      BY <2>2, <2>3 DEF LimboIsLookedUp
  <1> QED
    BY <1>1, Invariance, PTL

(* No lookup outlives its need, and there are never two for a document or  *)
(* more than max_concurrent_limbo_resolutions at a time.                   *)
THEOREM NoneLeaks ==
  ASSUME LimboAssumption PROVE Spec => []NoLookupLeaks
  <1>1. ASSUME Inv PROVE NoLookupLeaks
    <2>1. /\ ViewsOK /\ Orderly(book) /\ Paired(book, listening)
          /\ book.refs = refs /\ book.active = active /\ book.waiting = waiting
      BY <1>1 DEF Inv, Sound, book
    <2>2. ASSUME NEW d \in active \cup ToSet(waiting)
          PROVE  \E q \in listening : d \in limbo[q]
      <3>1. PICK q \in Queries : <<d, q>> \in refs
        BY <2>1, <2>2 DEF Paired, Tracked
      <3>2. d \in limbo[q]
        BY <2>1, <3>1 DEF ViewsOK, References
      <3>3. q \in listening
        BY <2>1, <3>2 DEF ViewsOK
      <3> QED
        BY <3>2, <3>3
    <2> QED
      BY <2>1, <2>2 DEF NoLookupLeaks, Orderly
  <1> QED
    BY <1>1, Invariance, PTL
=============================================================================
