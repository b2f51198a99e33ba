--------------------------- MODULE LocalViewProofs ---------------------------
(***************************************************************************)
(* What is shown of a document while writes to it are queued, for any      *)
(* fields and values, any number of writes and any answers of the server.  *)
(***************************************************************************)
EXTENDS LocalView, SequenceTheorems, WellFoundedInduction, TLAPS

-----------------------------------------------------------------------------
(* Induction, for a set of numbers, and a function that is defined by      *)
(* recursion over the positions of a sequence.                             *)

(* A set that has 0 and with i - 1 also i has every number.                *)
LEMMA Upwards ==
  ASSUME NEW n \in Nat, NEW S, 0 \in S,
         \A i \in 1..n : i - 1 \in S => i \in S
  PROVE  \A i \in 0..n : i \in S
  <1> SUFFICES ASSUME NEW i \in 0..n, i \notin S PROVE FALSE
    OBVIOUS
  <1> DEFINE T == {j \in 0..n : j \notin S}
  <1>1. T \subseteq Nat /\ T /= {}
    OBVIOUS
  <1>2. \E x \in T : \A y \in T : ~(<<y, x>> \in OpToRel(<, Nat))
    BY <1>1, NatLessThanWellFounded, WFMin
  <1>3. PICK x \in T : \A y \in T : ~(<<y, x>> \in OpToRel(<, Nat))
    BY <1>2
  <1>4. \A y \in T : ~(y < x)
    BY <1>1, <1>3 DEF OpToRel
  <1>5. x \in 1..n /\ x - 1 \in 0..n /\ x - 1 < x
    OBVIOUS
  <1>6. x - 1 \in S
    BY <1>4, <1>5
  <1> QED
    BY <1>5, <1>6

(* The recursion has a solution.                                           *)
Solutions(X, n, base, step) ==
    {g \in [0..n -> X] :
        g[0] = base /\ \A i \in 1..n : g[i] = step[<<i, g[i - 1]>>]}

(* A function defined by recursion over the positions of a sequence        *)
(* exists, and has its values in X.                                        *)
LEMMA Recursion ==
  ASSUME NEW X, NEW n \in Nat, NEW base \in X, NEW step \in [(1..n) \X X -> X]
  PROVE  Solutions(X, n, base, step) /= {}
  <1> DEFINE P(k) == \E g \in [0..k -> X] :
                g[0] = base /\ \A i \in 1..k : g[i] = step[<<i, g[i - 1]>>]
             S == {k \in 0..n : P(k)}
  <1>1. 0 \in S
    <2> DEFINE g == [i \in 0..0 |-> base]
    <2>1. g \in [0..0 -> X] /\ g[0] = base
      OBVIOUS
    <2>2. \A i \in 1..0 : FALSE
      OBVIOUS
    <2> HIDE DEF g
    <2>3. \A i \in 1..0 : g[i] = step[<<i, g[i - 1]>>]
      BY <2>2
    <2>4. P(0)
      BY <2>1, <2>3
    <2> QED
      BY <2>4
  <1>2. \A k \in 1..n : k - 1 \in S => k \in S
    <2> HIDE DEF P
    <2> SUFFICES ASSUME NEW k \in 1..n, P(k - 1) PROVE P(k)
      OBVIOUS
    <2>1. PICK g \in [0..(k - 1) -> X] :
            g[0] = base /\ \A i \in 1..(k - 1) : g[i] = step[<<i, g[i - 1]>>]
      BY DEF P
    <2> DEFINE last == step[<<k, g[k - 1]>>]
               h == [i \in 0..k |-> IF i = k THEN last ELSE g[i]]
    <2>2. k - 1 \in 0..(k - 1) /\ g[k - 1] \in X /\ last \in X
      BY <2>1
    <2>3. h \in [0..k -> X]
      BY <2>1, <2>2
    <2>4. h[0] = base
      BY <2>1
    <2>5. \A i \in 1..k : h[i] = step[<<i, h[i - 1]>>]
      <3> TAKE i \in 1..k
      <3>1. i \in 0..k /\ i - 1 \in 0..(k - 1) /\ i - 1 /= k /\ i - 1 \in 0..k
        OBVIOUS
      <3>2. h[i - 1] = g[i - 1] /\ h[i] = IF i = k THEN last ELSE g[i]
        BY <3>1
      <3> HIDE DEF h
      <3>3. CASE i = k
        BY <3>2, <3>3
      <3>4. CASE i /= k
        <4>1. i \in 1..(k - 1)
          BY <3>4
        <4> QED
          BY <2>1, <3>2, <3>4, <4>1
      <3> QED
        BY <3>3, <3>4
    <2> HIDE DEF h
    <2> QED
      BY <2>3, <2>4, <2>5 DEF P
  <1> HIDE DEF P
  <1>3. n \in S
    <2> HIDE DEF S
    <2>1. \A i \in 0..n : i \in S
      BY <1>1, <1>2, Upwards
    <2> QED
      BY <2>1
  <1> QED
    BY <1>3 DEF P, Solutions

-----------------------------------------------------------------------------
(* Documents, views and mutations.                                         *)

(* Types of the documents, remote or as the app sees them.                 *)
Documents ==
    [type : {"Invalid", "Found", "No", "Unknown"}, version : Nat, data : Data,
     state : {"Synced", "Committed", "Local"}]

(* Types of the views: a document with what the mutations applied to it    *)
(* have set.                                                               *)
Views == [doc : Documents, whole : BOOLEAN, fields : SUBSET Fields]

(* Types of the mutations, those of overlays included.                     *)
Mutations ==
    [kind : {"None", "Set", "Patch", "Delete"}, mask : SUBSET Fields, data : Data]

(* What the mutations of the app are made of.                              *)
LEMMA MutationFact ==
  ASSUME NEW m \in AppMutations
  PROVE  m \in Mutations /\ m.kind \in {"Set", "Patch", "Delete"}
  <1>1. Empty \in Data
    BY DEF Empty, Data
  <1>2. CASE \E d \in Data : m = Mutation("Set", Fields, d)
    BY <1>2 DEF Mutation, Mutations
  <1>3. CASE \E f \in Fields : \E v \in Values \cup {Absent} : m = Update(f, v)
    <2> PICK f \in Fields, v \in Values \cup {Absent} : m = Update(f, v)
      BY <1>3
    <2>1. [Empty EXCEPT ![f] = v] \in Data
      BY <1>1 DEF Data
    <2> QED
      BY <2>1 DEF Update, Mutation, Mutations
  <1>4. CASE m = Mutation("Delete", Fields, Empty)
    BY <1>1, <1>4 DEF Mutation, Mutations
  <1> QED
    BY <1>2, <1>3, <1>4 DEF AppMutations

(* A view that a later mutation does not make a remote document again.     *)
Definite(v) ==
    \/ v.doc.type = "Found"
    \/ v.doc.type = "No" /\ v.whole

(* The view v shows what the mutation m, the last one, wrote.              *)
Latest(v, m) ==
    /\ v.doc.state = "Local" /\ Definite(v)
    /\ m.kind = "Set" => v.whole /\ v.doc.type = "Found" /\ v.doc.data = m.data
    /\ m.kind = "Delete" => v.doc.type = "No"
    /\ m.kind = "Patch" /\ v.doc.type = "Found" =>
         /\ v.whole \/ m.mask \subseteq v.fields
         /\ \A f \in m.mask : v.doc.data[f] = m.data[f]

(* Applied to a view, a mutation shows, unless it is a patch of a document *)
(* that is not there.                                                      *)
LEMMA AppliedFact ==
  ASSUME NEW v \in Views, NEW m \in AppMutations
  PROVE  LET w == ApplyToLocalView(v, m, TRUE) IN
         /\ w \in Views
         /\ m.kind = "Patch" /\ v.doc.type /= "Found" => w = v
         /\ ~(m.kind = "Patch" /\ v.doc.type /= "Found") => Latest(w, m)
         /\ v.doc.state = "Local" /\ Definite(v) => Latest(w, m)
  <1> DEFINE w == ApplyToLocalView(v, m, TRUE)
  <1>1. m \in Mutations /\ m.kind \in {"Set", "Patch", "Delete"}
    BY MutationFact
  <1>2. Empty \in Data /\ SetAll(v.doc.data, m) \in Data
    BY <1>1 DEF Empty, Data, SetAll, Mutations, Views, Documents
  <1>3. CASE m.kind = "Set"
    <2>1. w = View(Doc("Found", 0, m.data, "Local"), TRUE, {})
      BY <1>3 DEF ApplyToLocalView
    <2> HIDE DEF w
    <2>2. w \in Views
      BY <1>1, <2>1 DEF View, Doc, Views, Documents, Mutations
    <2>3. Latest(w, m)
      BY <1>3, <2>1 DEF View, Doc, Latest, Definite
    <2> QED
      BY <1>3, <2>2, <2>3 DEF w
  <1>4. CASE m.kind = "Delete"
    <2>1. w = View(Doc("No", 0, Empty, "Local"), TRUE, {})
      BY <1>4 DEF ApplyToLocalView
    <2> HIDE DEF w
    <2>2. w \in Views
      BY <1>2, <2>1 DEF View, Doc, Views, Documents
    <2>3. Latest(w, m)
      BY <1>4, <2>1 DEF View, Doc, Latest, Definite
    <2> QED
      BY <1>4, <2>2, <2>3 DEF w
  <1>5. CASE m.kind = "Patch" /\ v.doc.type = "Found"
    <2>1. w = View(Doc("Found", 0, SetAll(v.doc.data, m), "Local"),
                   v.whole, IF v.whole THEN {} ELSE v.fields \cup m.mask)
      BY <1>5 DEF ApplyToLocalView
    <2> HIDE DEF w
    <2>2. \A f \in m.mask : SetAll(v.doc.data, m)[f] = m.data[f]
      BY <1>1 DEF SetAll, Mutations
    <2>3. w \in Views
      BY <1>1, <1>2, <2>1 DEF View, Doc, Views, Documents, Mutations
    <2>4. Latest(w, m)
      BY <1>5, <2>1, <2>2 DEF View, Doc, Latest, Definite
    <2> QED
      BY <1>5, <2>3, <2>4 DEF w
  <1>6. CASE m.kind = "Patch" /\ v.doc.type /= "Found"
    <2>1. w = v
      BY <1>6 DEF ApplyToLocalView
    <2> HIDE DEF w
    <2> QED
      BY <1>6, <2>1 DEF Latest, Definite, w
  <1> QED
    BY <1>1, <1>3, <1>4, <1>5, <1>6

-----------------------------------------------------------------------------
(* The queue of mutations applied to a remote document.                    *)

(* The view after the first n mutations of q.                              *)
Start(doc) == View(doc, FALSE, {})
(* The view after one more batch.                                          *)
Apply(v, b) == ApplyToLocalView(v, b.m, TRUE)

(* f[i] is the view after the first i batches of q.                        *)
Applying(f, doc, n, q) ==
    f = [i \in 0..n |-> IF i = 0 THEN Start(doc) ELSE Apply(f[i - 1], q[i])]

(* No one of the first n mutations applies: each is a patch of a document  *)
(* that does not exist.                                                    *)
Hidden(doc, n, q) ==
    \A i \in 1..n : q[i].m.kind = "Patch" /\ doc.type /= "Found"

(* What is known of the view after n mutations: it is the remote document  *)
(* if none applied, and else it shows the last one.                        *)
Shows(v, doc, n, q) ==
    /\ v \in Views
    /\ Hidden(doc, n, q) => v = Start(doc)
    /\ ~Hidden(doc, n, q) => Latest(v, q[n].m)

(* Without an effect none of the mutations applies, otherwise the last one *)
(* shows.                                                                  *)
LEMMA ApplyEach ==
  ASSUME NEW doc \in Documents, doc.state /= "Local", NEW n \in Nat, NEW q,
         \A i \in 1..n : q[i].m \in AppMutations
  PROVE  /\ \E f : Applying(f, doc, n, q)
         /\ \A f : Applying(f, doc, n, q) => Shows(f[n], doc, n, q)
  <1> DEFINE start == Start(doc)
             step == [k \in (1..n) \X Views |-> Apply(k[2], q[k[1]])]
  <1>1. start \in Views
    BY DEF Start, View, Views
  <1>2. \A v \in Views : \A i \in 1..n : Apply(v, q[i]) \in Views
    <2> TAKE v \in Views
    <2> TAKE i \in 1..n
    <2> DEFINE m == q[i].m
    <2>1. m \in AppMutations
      OBVIOUS
    <2> HIDE DEF m
    <2>2. ApplyToLocalView(v, m, TRUE) \in Views
      BY <2>1, AppliedFact
    <2> QED
      BY <2>2 DEF Apply, m
  <1>3. \E f : Applying(f, doc, n, q)
    <2> HIDE DEF start
    <2>1. step \in [(1..n) \X Views -> Views]
      BY <1>2
    <2>2. Solutions(Views, n, start, step) /= {}
      <3> HIDE DEF step
      <3> QED
        BY <1>1, <2>1, Recursion
    <2>3. PICK g \in [0..n -> Views] :
             g[0] = start /\ \A i \in 1..n : g[i] = step[<<i, g[i - 1]>>]
      BY <2>2 DEF Solutions
    <2>4. \A i \in 1..n : g[i] = Apply(g[i - 1], q[i])
      <3> TAKE i \in 1..n
      <3>1. i - 1 \in 0..n
        OBVIOUS
      <3>2. <<i, g[i - 1]>> \in (1..n) \X Views
        BY <3>1
      <3> QED
        BY <2>3, <3>2
    <2>5. Applying(g, doc, n, q)
      BY <2>3, <2>4 DEF Applying, start
    <2> QED
      BY <2>5
  <1>4. ASSUME NEW f, Applying(f, doc, n, q)
        PROVE  Shows(f[n], doc, n, q)
    <2> DEFINE S == {i \in 0..n : Shows(f[i], doc, i, q)}
    <2>1. f[0] = start /\ \A i \in 1..n : f[i] = Apply(f[i - 1], q[i])
      BY <1>4 DEF Applying
    <2>2. 0 \in S
      <3>1. Hidden(doc, 0, q)
        BY DEF Hidden
      <3> HIDE DEF start
      <3> QED
        BY <1>1, <2>1, <3>1 DEF Shows, start
    <2>3. \A i \in 1..n : i - 1 \in S => i \in S
      <3> SUFFICES ASSUME NEW i \in 1..n, i - 1 \in S PROVE Shows(f[i], doc, i, q)
        OBVIOUS
      <3> DEFINE m == q[i].m
                 v == f[i - 1]
                 w == f[i]
                 less == Hidden(doc, i - 1, q)
      <3>1. m \in AppMutations /\ w = ApplyToLocalView(v, m, TRUE)
        BY <2>1 DEF Apply
      <3>2. v \in Views /\ (less => v = start) /\ (~less => Latest(v, q[i - 1].m))
        BY DEF Shows
      <3>3. Hidden(doc, i, q) <=> less /\ m.kind = "Patch" /\ doc.type /= "Found"
        <4>1. \A j \in 1..(i - 1) : j \in 1..i
          OBVIOUS
        <4>2. \A j \in 1..i : j = i \/ j \in 1..(i - 1)
          OBVIOUS
        <4>3. i \in 1..i
          OBVIOUS
        <4> QED
          BY <4>1, <4>2, <4>3 DEF Hidden
      <3>4. start.doc = doc
        BY DEF Start, View
      <3> HIDE DEF m, v, w, start, less
      <3>5. /\ w \in Views
            /\ m.kind = "Patch" /\ v.doc.type /= "Found" => w = v
            /\ ~(m.kind = "Patch" /\ v.doc.type /= "Found") => Latest(w, m)
            /\ v.doc.state = "Local" /\ Definite(v) => Latest(w, m)
        BY <3>1, <3>2, AppliedFact
      <3>6. CASE less
        BY <3>2, <3>3, <3>4, <3>5, <3>6 DEF Shows, m, w, start
      <3>7. CASE ~less
        <4>1. v.doc.state = "Local" /\ Definite(v)
          BY <3>2, <3>7 DEF Latest
        <4> QED
          BY <3>3, <3>5, <3>7, <4>1 DEF Shows, m, w
      <3> QED
        BY <3>6, <3>7
    <2> HIDE DEF S
    <2>4. \A i \in 0..n : i \in S
      BY <2>2, <2>3, Upwards
    <2>5. n \in S
      BY <2>4
    <2> QED
      BY <2>5 DEF S
  <1> QED
    BY <1>3, <1>4

(* Types of the batches of the queue.                                      *)
Batches == [id : Nat, m : AppMutations]

(* ApplyQueue() returns a view that shows the last mutation of the queue,  *)
(* or the remote document if none applied.                                 *)
LEMMA ApplyQueueFact ==
  ASSUME NEW doc \in Documents, doc.state /= "Local", NEW q \in Seq(Batches)
  PROVE  Shows(ApplyQueue(doc, q), doc, Len(q), q)
  <1> DEFINE n == Len(q)
             view == CHOOSE f : Applying(f, doc, n, q)
             v == ApplyQueue(doc, q)
  <1>0. n \in Nat /\ \A i \in 1..n : q[i] \in Batches
    OBVIOUS
  <1>1. \A i \in 1..n : q[i].m \in AppMutations
    BY <1>0 DEF Batches
  <1>2. v = view[n]
    BY Zenon DEF ApplyQueue, Applying, Start, Apply
  <1> HIDE DEF n, v
  <1>3. /\ \E f : Applying(f, doc, n, q)
        /\ \A f : Applying(f, doc, n, q) => Shows(f[n], doc, n, q)
    BY <1>0, <1>1, ApplyEach
  <1>4. Applying(view, doc, n, q)
    BY <1>3
  <1>5. Shows(v, doc, n, q)
    BY <1>2, <1>3, <1>4
  <1> QED
    BY <1>5 DEF n, v

-----------------------------------------------------------------------------
(* The overlay.                                                            *)

(* The overlay c shows what the mutation m, the last one queued, wrote.    *)
Reflects(c, m) ==
    /\ c.kind \in {"Set", "Patch", "Delete"}
    /\ m.kind = "Set" => c.kind = "Set" /\ c.data = m.data
    /\ m.kind = "Delete" => c.kind = "Delete"
    /\ m.kind = "Patch" /\ c.kind /= "Delete" =>
         /\ c.kind = "Set" \/ m.mask \subseteq c.mask
         /\ \A f \in m.mask : c.data[f] = m.data[f]

(* The overlay calculated from a view shows what the view does.            *)
LEMMA CalculatedFact ==
  ASSUME NEW v \in Views, NEW m \in AppMutations, Latest(v, m)
  PROVE  LET c == CalculateOverlayMutation(v) IN
         c \in Mutations /\ c /= NoMutation /\ Reflects(c, m)
  <1> DEFINE c == CalculateOverlayMutation(v)
             data == [f \in Fields |-> IF f \in v.fields THEN v.doc.data[f]
                                       ELSE Absent]
  <1>1. m \in Mutations /\ m.kind \in {"Set", "Patch", "Delete"}
    BY MutationFact
  <1>2. Empty \in Data /\ data \in Data /\ v.doc.data \in Data
    BY DEF Empty, Data, Views, Documents
  <1>3. CASE ~v.whole
    <2>1. c = Mutation("Patch", v.fields, data)
      BY <1>3 DEF CalculateOverlayMutation, Latest
    <2>2. m.kind = "Patch" /\ v.doc.type = "Found"
      BY <1>1, <1>3 DEF Latest, Definite
    <2>3. \A f \in m.mask : data[f] = m.data[f]
      BY <1>1, <1>3, <2>2 DEF Latest, Mutations
    <2> HIDE DEF c, data
    <2> QED
      BY <1>2, <1>3, <2>1, <2>2, <2>3
      DEF c, Mutation, NoMutation, Mutations, Views, Reflects, Latest
  <1>4. CASE v.whole /\ v.doc.type = "No"
    <2>1. c = Mutation("Delete", Fields, Empty)
      BY <1>4 DEF CalculateOverlayMutation, Latest
    <2> HIDE DEF c
    <2> QED
      BY <1>1, <1>2, <1>4, <2>1
      DEF c, Mutation, NoMutation, Mutations, Reflects, Latest
  <1>5. CASE v.whole /\ v.doc.type /= "No"
    <2>1. c = Mutation("Set", Fields, v.doc.data)
      BY <1>5 DEF CalculateOverlayMutation, Latest
    <2>2. v.doc.type = "Found"
      BY <1>5 DEF Latest, Definite
    <2> HIDE DEF c
    <2> QED
      BY <1>1, <1>2, <1>5, <2>1, <2>2
      DEF c, Mutation, NoMutation, Mutations, Reflects, Latest
  <1> QED
    BY <1>3, <1>4, <1>5 DEF Views

(* An overlay and the queue it stands for.                                 *)
Overlays == [batch : Nat, m : Mutations]

(* The overlay o reflects the last mutation of the queue q, for a batch    *)
(* that is still queued; there is none only if no mutation applies.        *)
OverlayInv(o, doc, q) ==
    /\ o \in Overlays /\ (o.m.kind = "None" => o = NoOverlay)
    /\ o = NoOverlay => Hidden(doc, Len(q), q)
    /\ o /= NoOverlay => /\ \E i \in 1..Len(q) : q[i].id = o.batch
                         /\ Reflects(o.m, q[Len(q)].m)

(* The overlay calculated again from the queue, where the one before may   *)
(* stand for a write that is not queued any more.                          *)
LEMMA RecalculateFact ==
  ASSUME NEW doc \in Documents, doc.state /= "Local", NEW q \in Seq(Batches),
         NEW o \in Overlays, o.m.kind = "None" => o = NoOverlay,
         o /= NoOverlay => /\ \E i \in 1..Len(q) : q[i].id = o.batch
                           /\ Reflects(o.m, q[Len(q)].m)
  PROVE  OverlayInv(Recalculate(o, doc, q), doc, q)
  <1> DEFINE n == Len(q)
             v == ApplyQueue(doc, q)
             c == CalculateOverlayMutation(v)
             p == Recalculate(o, doc, q)
  <1>0. n \in Nat /\ \A i \in 1..n : q[i] \in Batches
    OBVIOUS
  <1>1. CASE q = << >>
    <2>1. n = 0 /\ p = o
      BY <1>1 DEF Recalculate
    <2>2. Hidden(doc, n, q)
      BY <2>1 DEF Hidden
    <2> HIDE DEF p, n
    <2> QED
      BY <2>1, <2>2 DEF OverlayInv, p, n
  <1>2. CASE q /= << >>
    <2>1. n >= 1 /\ n \in 1..n /\ Last(q) = q[n]
      BY <1>2 DEF Last
    <2>2. p = SaveOverlay(o, q[n].id, v)
      BY <1>2, <2>1 DEF Recalculate
    <2>3. p = IF c = NoMutation THEN o ELSE Overlay(q[n].id, c)
      BY <2>2 DEF SaveOverlay
    <2>4. Shows(v, doc, n, q)
      BY ApplyQueueFact
    <2> HIDE DEF c, v, p, n
    <2>5. CASE Hidden(doc, n, q)
      <3>1. v.doc = doc
        BY <2>4, <2>5 DEF Shows, Start, View
      <3>2. c = NoMutation
        BY <3>1 DEF c, CalculateOverlayMutation
      <3> QED
        BY <2>3, <2>5, <3>2 DEF OverlayInv, p, n
    <2>6. CASE ~Hidden(doc, n, q)
      <3> DEFINE m == q[n].m
      <3>1. v \in Views /\ m \in AppMutations /\ Latest(v, m)
        BY <1>0, <2>1, <2>4, <2>6 DEF Shows, Batches
      <3> HIDE DEF m
      <3>2. c \in Mutations /\ c /= NoMutation /\ Reflects(c, m)
        BY <3>1, CalculatedFact DEF c
      <3>3. p = Overlay(q[n].id, c)
        BY <2>3, <3>2
      <3>4. /\ p \in Overlays /\ p /= NoOverlay /\ p.m.kind /= "None"
            /\ p.batch = q[n].id /\ p.m = c
        BY <1>0, <2>1, <3>2, <3>3 DEF Overlay, Overlays, NoOverlay, Reflects, Batches
      <3> QED
        BY <2>1, <3>2, <3>4 DEF OverlayInv, p, n, m
    <2> QED
      BY <2>5, <2>6
  <1> QED
    BY <1>1, <1>2

-----------------------------------------------------------------------------
(* The inductive invariant.                                                *)

(* Types of what the server keeps, and of its answers.                     *)
Versions == [found : BOOLEAN, data : Data]
(* An answer to a write: the version it was stored with, or an error.      *)
Answers == [ok : BOOLEAN, version : Nat]

(* Types of the variables; the answers on their way are to queued batches  *)
(* and of versions the server has.                                         *)
Types ==
    /\ remote \in Documents /\ remote.state /= "Local"
    /\ queue \in Seq(Batches) /\ nextId \in Nat
    /\ log \in Seq(Versions) /\ Len(log) >= 1
    /\ acks \in Seq(Answers) /\ Len(acks) <= Len(queue)
    /\ \A i \in 1..Len(acks) : acks[i].ok => acks[i].version \in 1..Len(log)
    /\ seen \in Nat

(* What is stored is no older than what the watch stream has delivered; a  *)
(* synced document is the server's of that version.                        *)
RemoteInv(doc, l, s) ==
    /\ s <= doc.version /\ doc.version <= Len(l)
    /\ doc.state = "Synced" /\ doc.version > 0 =>
         /\ (doc.type = "Found") = l[doc.version].found
         /\ doc.data = l[doc.version].data
    /\ doc.version = s /\ s > 0 => doc.state = "Synced"

(* The inductive invariant: types, the overlay against the queue, and the  *)
(* remote document against what the server has.                            *)
Inv ==
    /\ Types
    /\ OverlayInv(overlay, remote, queue)
    /\ RemoteInv(remote, log, seen)

(* An overlay saved for a view that shows the last mutation.               *)
LEMMA SavedFact ==
  ASSUME NEW v \in Views, NEW m \in AppMutations, Latest(v, m),
         NEW o, NEW b \in Nat
  PROVE  LET p == SaveOverlay(o, b, v) IN
         /\ p \in Overlays /\ p.m.kind /= "None" /\ p /= NoOverlay
         /\ p.batch = b /\ Reflects(p.m, m)
  <1> DEFINE c == CalculateOverlayMutation(v)
             p == SaveOverlay(o, b, v)
  <1>1. c \in Mutations /\ c /= NoMutation /\ Reflects(c, m)
    BY CalculatedFact
  <1>2. p = IF c = NoMutation THEN o ELSE Overlay(b, c)
    BY DEF SaveOverlay
  <1> HIDE DEF c, p
  <1>3. p = Overlay(b, c)
    BY <1>1, <1>2
  <1> QED
    BY <1>1, <1>3 DEF Overlay, Overlays, NoOverlay, Reflects, p

(* The document and mask that a new write starts from.                     *)
LEMMA OverlayedFact ==
  ASSUME remote \in Documents, overlay \in Overlays,
         overlay.m.kind = "None" => overlay = NoOverlay
  PROVE  /\ GetOverlayedDocument \in Views
         /\ overlay = NoOverlay => GetOverlayedDocument.doc = remote
         /\ overlay /= NoOverlay => /\ GetOverlayedDocument.doc.state = "Local"
                                    /\ Definite(GetOverlayedDocument)
  <1> DEFINE o == overlay.m
             base == View(remote, TRUE, {})
             view == ApplyToLocalView(base, o, FALSE)
             g == GetOverlayedDocument
  <1>1. /\ o \in Mutations /\ Empty \in Data /\ base \in Views
        /\ base.doc = remote /\ base.whole = TRUE
    BY DEF Overlays, Empty, Data, View, Views
  <1>2. g = IF o.kind = "Patch" THEN View(view.doc, FALSE, o.mask) ELSE view
    BY DEF GetOverlayedDocument
  <1>3. NoOverlay.m.kind = "None"
    BY DEF NoOverlay, Overlay, NoMutation, Mutation
  <1> HIDE DEF o, g
  <1>4. CASE o.kind = "None"
    <2>1. view = base
      BY <1>4 DEF ApplyToLocalView
    <2> HIDE DEF view, base
    <2> QED
      BY <1>1, <1>2, <1>4, <2>1 DEF g, o
  <1>5. CASE o.kind = "Set"
    <2>1. view = View(Doc("Found", 0, o.data, "Local"), TRUE, {})
      BY <1>5 DEF ApplyToLocalView
    <2> HIDE DEF view, base
    <2>2. g \in Views /\ g.doc.state = "Local" /\ Definite(g)
      BY <1>1, <1>2, <1>5, <2>1
      DEF View, Doc, Views, Documents, Mutations, Definite
    <2> QED
      BY <1>3, <1>5, <2>2 DEF g, o
  <1>6. CASE o.kind = "Delete"
    <2>1. view = View(Doc("No", 0, Empty, "Local"), TRUE, {})
      BY <1>6 DEF ApplyToLocalView
    <2> HIDE DEF view, base
    <2>2. g \in Views /\ g.doc.state = "Local" /\ Definite(g)
      BY <1>1, <1>2, <1>6, <2>1 DEF View, Doc, Views, Documents, Definite
    <2> QED
      BY <1>3, <1>6, <2>2 DEF g, o
  <1>7. CASE o.kind = "Patch"
    <2> DEFINE data == SetAll(remote.data, o)
    <2>1. data \in Data
      BY <1>1 DEF Data, SetAll, Mutations, Documents
    <2>2. view.doc = Doc("Found", 0, data, "Local")
      BY <1>1, <1>7 DEF ApplyToLocalView, View
    <2> HIDE DEF view, base, data
    <2>3. g \in Views /\ g.doc.state = "Local" /\ Definite(g)
      BY <1>1, <1>2, <1>7, <2>1, <2>2
      DEF View, Doc, Views, Documents, Mutations, Definite
    <2> QED
      BY <1>3, <1>7, <2>3 DEF g, o
  <1> QED
    BY <1>1, <1>4, <1>5, <1>6, <1>7 DEF Mutations

(* At first nothing is queued and nothing is cached.                       *)
LEMMA InitInv == Init => Inv
  <1> SUFFICES ASSUME Init PROVE Inv
    OBVIOUS
  <1>1. Empty \in Data
    BY DEF Empty, Data
  <1>2. /\ remote \in Documents /\ remote.state = "Synced" /\ remote.version = 0
    BY <1>1 DEF Init, InvalidDocument, Doc, Documents
  <1>3. PICK found \in BOOLEAN, d \in Data : log = <<[found |-> found, data |-> d]>>
    BY DEF Init
  <1>4. log \in Seq(Versions) /\ Len(log) = 1
    BY <1>3 DEF Versions
  <1>5. queue = << >> /\ nextId = 1 /\ acks = << >> /\ seen = 0 /\ overlay = NoOverlay
    BY DEF Init
  <1>6. Types
    BY <1>2, <1>4, <1>5 DEF Types
  <1>7. NoOverlay \in Overlays
    BY <1>1 DEF NoOverlay, Overlay, NoMutation, Mutation, Overlays, Mutations
  <1>8. OverlayInv(overlay, remote, queue)
    <2>1. Len(queue) = 0
      BY <1>5
    <2> QED
      BY <1>5, <1>7, <2>1 DEF OverlayInv, Hidden
  <1>9. RemoteInv(remote, log, seen)
    BY <1>2, <1>4, <1>5 DEF RemoteInv
  <1> QED
    BY <1>6, <1>8, <1>9 DEF Inv

(* A write of the app is queued and its overlay saved.                     *)
LEMMA WriteLocallyInv ==
  ASSUME Inv, NEW m \in AppMutations, WriteLocally(m)
  PROVE  Inv'
  <1> DEFINE n == Len(queue)
             b == [id |-> nextId, m |-> m]
             q == queue'
             v == GetOverlayedDocument
             w == ApplyToLocalView(v, m, TRUE)
             p == overlay'
  <1>1. /\ q = Append(queue, b) /\ nextId' = nextId + 1 /\ p = SaveOverlay(overlay, nextId, w)
        /\ UNCHANGED <<remote, log, acks, seen>>
    BY DEF WriteLocally
  <1>t. Types /\ OverlayInv(overlay, remote, queue) /\ RemoteInv(remote, log, seen)
    BY DEF Inv
  <1>2. b \in Batches
    BY <1>t DEF Types, Batches
  <1>3. /\ q \in Seq(Batches) /\ Len(q) = n + 1 /\ n \in Nat /\ q[n + 1] = b
        /\ \A i \in 1..n : q[i] = queue[i]
    BY <1>1, <1>2, <1>t DEF Types
  <1>4. Types'
    BY <1>1, <1>3, <1>t DEF Types
  <1>5. RemoteInv(remote, log, seen)'
    BY <1>1, <1>t DEF RemoteInv
  <1>6. /\ v \in Views
        /\ overlay = NoOverlay => v.doc = remote
        /\ overlay /= NoOverlay => v.doc.state = "Local" /\ Definite(v)
    BY <1>t, OverlayedFact DEF Types, OverlayInv
  <1> HIDE DEF v
  <1>7. /\ w \in Views
        /\ m.kind = "Patch" /\ v.doc.type /= "Found" => w = v
        /\ ~(m.kind = "Patch" /\ v.doc.type /= "Found") => Latest(w, m)
        /\ v.doc.state = "Local" /\ Definite(v) => Latest(w, m)
    BY <1>6, AppliedFact
  <1> HIDE DEF w, p, q, b
  <1>8. CASE Latest(w, m)
    <2>1. nextId \in Nat
      BY <1>t DEF Types
    <2>2. /\ p \in Overlays /\ p.m.kind /= "None" /\ p /= NoOverlay
          /\ p.batch = nextId /\ Reflects(p.m, m)
      BY <1>1, <1>7, <1>8, <2>1, SavedFact
    <2>3. q[n + 1].id = nextId /\ q[n + 1].m = m /\ n + 1 \in 1..Len(q)
      BY <1>3 DEF b
    <2>4. OverlayInv(p, remote', q)
      BY <1>3, <2>2, <2>3 DEF OverlayInv
    <2> QED
      BY <1>4, <1>5, <2>4 DEF Inv, p, q
  <1>9. CASE ~Latest(w, m)
    <2>1. overlay = NoOverlay /\ m.kind = "Patch" /\ remote.type /= "Found" /\ w.doc = remote
      BY <1>6, <1>7, <1>9
    <2>2. p = NoOverlay
      BY <1>1, <1>t, <2>1 DEF SaveOverlay, CalculateOverlayMutation, Types
    <2>3. Hidden(remote, n + 1, q)
      <3>1. Hidden(remote, n, queue)
        BY <1>t, <2>1 DEF OverlayInv
      <3>2. \A i \in 1..(n + 1) : i = n + 1 \/ i \in 1..n
        BY <1>3
      <3>3. q[n + 1].m = m
        BY <1>3 DEF b
      <3> QED
        BY <1>3, <2>1, <3>1, <3>2, <3>3 DEF Hidden
    <2>4. OverlayInv(p, remote', q)
      BY <1>1, <1>3, <1>t, <2>1, <2>2, <2>3 DEF OverlayInv
    <2> QED
      BY <1>4, <1>5, <2>4 DEF Inv, p, q
  <1> QED
    BY <1>8, <1>9

(* The overlay once the first batch is off the queue.                      *)
LEMMA OverlayWithoutFact ==
  ASSUME Types, OverlayInv(overlay, remote, queue), queue /= << >>,
         NEW doc \in Documents, doc.state /= "Local"
  PROVE  OverlayInv(OverlayWithout(overlay, doc, Head(queue), Tail(queue)),
                    doc, Tail(queue))
  <1> DEFINE n == Len(queue)
             q == Tail(queue)
             o == RemoveOverlaysForBatchId(overlay, Head(queue).id)
  <1>1. /\ n \in Nat /\ n >= 1 /\ Head(queue) = queue[1]
        /\ q \in Seq(Batches) /\ Len(q) = n - 1
        /\ \A i \in 1..(n - 1) : q[i] = queue[i + 1]
    BY DEF Types
  <1>2. OverlayWithout(overlay, doc, Head(queue), q) = Recalculate(o, doc, q)
    BY DEF OverlayWithout
  <1>3. o = IF overlay.batch = queue[1].id THEN NoOverlay ELSE overlay
    BY <1>1 DEF RemoveOverlaysForBatchId
  <1>4. NoOverlay \in Overlays
    BY DEF NoOverlay, Overlay, NoMutation, Mutation, Overlays, Mutations, Empty, Data
  <1> HIDE DEF q, o
  <1>5. o \in Overlays /\ (o.m.kind = "None" => o = NoOverlay)
    BY <1>3, <1>4 DEF OverlayInv
  <1>6. ASSUME o /= NoOverlay
        PROVE  (\E i \in 1..Len(q) : q[i].id = o.batch) /\ Reflects(o.m, q[Len(q)].m)
    <2>1. o = overlay /\ overlay.batch /= queue[1].id
      BY <1>3, <1>6
    <2>2. PICK i \in 1..n : queue[i].id = o.batch
      BY <1>6, <2>1 DEF OverlayInv
    <2>3. i - 1 \in 1..(n - 1) /\ q[i - 1] = queue[i]
      BY <1>1, <2>1, <2>2
    <2>4. n - 1 \in 1..(n - 1) /\ q[n - 1] = queue[n]
      BY <1>1, <2>3
    <2> QED
      BY <1>1, <1>6, <2>1, <2>2, <2>3, <2>4 DEF OverlayInv
  <1>7. OverlayInv(Recalculate(o, doc, q), doc, q)
    BY <1>1, <1>5, <1>6, RecalculateFact
  <1> QED
    BY <1>2, <1>7 DEF q

(* What is left when the first answer is taken.                            *)
LEMMA AnswerTaken ==
  ASSUME Types, acks /= << >>
  PROVE  /\ queue /= << >> /\ Head(queue) \in Batches /\ Head(acks) \in Answers
         /\ Head(acks).ok => Head(acks).version \in 1..Len(log)
         /\ Tail(queue) \in Seq(Batches) /\ Tail(acks) \in Seq(Answers)
         /\ Len(Tail(acks)) <= Len(Tail(queue))
         /\ \A i \in 1..Len(Tail(acks)) :
              Tail(acks)[i].ok => Tail(acks)[i].version \in 1..Len(log)
  <1>1. /\ Len(acks) \in Nat /\ Len(acks) >= 1 /\ Len(queue) \in Nat /\ Len(queue) >= 1
        /\ Len(acks) <= Len(queue)
    BY DEF Types
  <1>2. queue /= << >> /\ Head(queue) = queue[1] /\ Head(queue) \in Batches
    BY <1>1 DEF Types
  <1>3. Head(acks) = acks[1] /\ Head(acks) \in Answers
    BY <1>1 DEF Types
  <1>4. Tail(queue) \in Seq(Batches) /\ Len(Tail(queue)) = Len(queue) - 1
    BY <1>2 DEF Types
  <1>5. /\ Tail(acks) \in Seq(Answers) /\ Len(Tail(acks)) = Len(acks) - 1
        /\ \A i \in 1..(Len(acks) - 1) : Tail(acks)[i] = acks[i + 1]
    BY <1>1 DEF Types
  <1>6. 1 \in 1..Len(acks) /\ \A i \in 1..(Len(acks) - 1) : i + 1 \in 1..Len(acks)
    BY <1>1
  <1>7. \A i \in 1..Len(acks) : acks[i].ok => acks[i].version \in 1..Len(log)
    BY DEF Types
  <1> QED
    BY <1>1, <1>2, <1>3, <1>4, <1>5, <1>6, <1>7

(* The first batch is acknowledged: its result is stored and the overlay   *)
(* calculated again.                                                       *)
LEMMA AcknowledgeBatchInv ==
  ASSUME Inv, AcknowledgeBatch
  PROVE  Inv'
  <1> DEFINE m == Head(queue).m
             k == Head(acks).version
             doc == remote'
  <1>1. /\ acks /= << >> /\ Head(acks).ok /\ doc = ApplyBatchResult(remote, m, k)
        /\ queue' = Tail(queue)
        /\ overlay' = OverlayWithout(overlay, doc, Head(queue), queue')
        /\ acks' = Tail(acks) /\ UNCHANGED <<nextId, log, seen>>
    BY DEF AcknowledgeBatch
  <1>t. Types /\ OverlayInv(overlay, remote, queue) /\ RemoteInv(remote, log, seen)
    BY DEF Inv
  <1>2. /\ queue /= << >> /\ Head(queue) \in Batches /\ Head(acks) \in Answers
        /\ k \in 1..Len(log)
        /\ Tail(queue) \in Seq(Batches) /\ Tail(acks) \in Seq(Answers)
        /\ Len(Tail(acks)) <= Len(Tail(queue))
        /\ \A i \in 1..Len(Tail(acks)) :
             Tail(acks)[i].ok => Tail(acks)[i].version \in 1..Len(log)
    BY <1>1, <1>t, AnswerTaken
  <1>3. k \in Nat /\ m \in Mutations
    BY <1>2, MutationFact DEF Answers, Batches
  <1> HIDE DEF doc, m, k
  <1>4. doc = remote \/ /\ doc \in Documents /\ doc.state = "Committed"
                        /\ doc.version = k /\ remote.version < k
    <2>1. CASE ~(remote.version < k)
      BY <1>1, <2>1 DEF ApplyBatchResult
    <2>2. CASE remote.version < k
      <3>1. doc = ApplyToRemoteDocument(remote, m, k)
        BY <1>1, <2>2 DEF ApplyBatchResult
      <3>2. \E type \in {"Found", "No", "Unknown"}, data \in Data :
               ApplyToRemoteDocument(remote, m, k) = Doc(type, k, data, "Committed")
        <4>1. m.data \in Data /\ Empty \in Data /\ SetAll(remote.data, m) \in Data
          BY <1>3, <1>t DEF Types, Documents, Mutations, Empty, SetAll, Data
        <4> QED
          BY <4>1 DEF ApplyToRemoteDocument
      <3> QED
        BY <1>3, <2>2, <3>1, <3>2 DEF Doc, Documents
    <2> QED
      BY <2>1, <2>2
  <1>5. doc \in Documents /\ doc.state /= "Local"
    BY <1>4, <1>t DEF Types
  <1>6. Types'
    BY <1>1, <1>2, <1>5, <1>t DEF Types, doc
  <1>7. OverlayInv(overlay, remote, queue)'
    BY <1>1, <1>2, <1>5, <1>t, OverlayWithoutFact DEF doc
  <1>8. RemoteInv(doc, log, seen)
    <2>1. seen \in Nat /\ Len(log) \in Nat /\ remote.version \in Nat
      BY <1>t DEF Types, Documents
    <2> QED
      BY <1>2, <1>4, <1>t, <2>1 DEF RemoteInv
  <1> QED
    BY <1>1, <1>6, <1>7, <1>8 DEF Inv, doc

(* The first batch is rejected: the overlay is calculated again without    *)
(* it.                                                                     *)
LEMMA RejectBatchInv ==
  ASSUME Inv, RejectBatch
  PROVE  Inv'
  <1>1. /\ acks /= << >> /\ queue' = Tail(queue)
        /\ overlay' = OverlayWithout(overlay, remote, Head(queue), queue')
        /\ acks' = Tail(acks) /\ UNCHANGED <<remote, nextId, log, seen>>
    BY DEF RejectBatch
  <1>t. Types /\ OverlayInv(overlay, remote, queue) /\ RemoteInv(remote, log, seen)
    BY DEF Inv
  <1>2. /\ queue /= << >>
        /\ Tail(queue) \in Seq(Batches) /\ Tail(acks) \in Seq(Answers)
        /\ Len(Tail(acks)) <= Len(Tail(queue))
        /\ \A i \in 1..Len(Tail(acks)) :
             Tail(acks)[i].ok => Tail(acks)[i].version \in 1..Len(log)
    BY <1>1, <1>t, AnswerTaken
  <1>3. Types'
    BY <1>1, <1>2, <1>t DEF Types
  <1>4. remote \in Documents /\ remote.state /= "Local"
    BY <1>t DEF Types
  <1>5. OverlayInv(overlay, remote, queue)'
    BY <1>1, <1>2, <1>4, <1>t, OverlayWithoutFact
  <1> QED
    BY <1>1, <1>3, <1>5, <1>t DEF Inv

(* A document of the watch stream is stored if it is newer, and the        *)
(* overlay calculated again.                                               *)
LEMMA ApplyRemoteEventInv ==
  ASSUME Inv, NEW v \in 1..Len(log), ApplyRemoteEvent(v)
  PROVE  Inv'
  <1> DEFINE doc == Doc(IF log[v].found THEN "Found" ELSE "No", v, log[v].data, "Synced")
  <1>1. /\ v >= seen /\ seen' = v /\ UNCHANGED <<queue, nextId, log, acks>>
        /\ Accepted(doc) => /\ remote' = doc
                            /\ overlay' = IF ExistenceChanged(doc)
                                          THEN Recalculate(overlay, doc, queue)
                                          ELSE overlay
        /\ ~Accepted(doc) => UNCHANGED <<remote, overlay>>
    BY DEF ApplyRemoteEvent
  <1>t. Types /\ OverlayInv(overlay, remote, queue) /\ RemoteInv(remote, log, seen)
    BY DEF Inv
  <1>n. Len(log) \in Nat /\ v \in Nat /\ v >= 1 /\ seen \in Nat /\ remote.version \in Nat
    BY <1>t DEF Types, Documents
  <1>2. log[v] \in Versions
    BY <1>t DEF Types
  <1>3. /\ doc \in Documents /\ doc.state = "Synced" /\ doc.version = v
        /\ (doc.type = "Found") = log[v].found /\ doc.data = log[v].data
    BY <1>2, <1>n DEF Doc, Documents, Versions
  <1> HIDE DEF doc
  <1>4. CASE Accepted(doc)
    <2>1. remote' = doc
      BY <1>1, <1>4
    <2>2. Types'
      BY <1>1, <1>3, <1>n, <1>t, <2>1 DEF Types
    <2>3. RemoteInv(doc, log, v)
      BY <1>3, <1>n DEF RemoteInv
    <2>4. OverlayInv(overlay', doc, queue)
      <3>1. CASE ExistenceChanged(doc)
        <4>1. OverlayInv(Recalculate(overlay, doc, queue), doc, queue)
          BY <1>3, <1>t, RecalculateFact DEF Types, OverlayInv
        <4> QED
          BY <1>1, <1>4, <3>1, <4>1
      <3>2. CASE ~ExistenceChanged(doc)
        <4>1. overlay' = overlay
          BY <1>1, <1>4, <3>2
        <4>2. overlay = NoOverlay => (doc.type = "Found" <=> remote.type = "Found")
          BY <3>2 DEF ExistenceChanged, NoOverlay, Overlay, NoMutation, Mutation
        <4>3. overlay = NoOverlay => Hidden(doc, Len(queue), queue)
          BY <1>t, <4>2 DEF OverlayInv, Hidden
        <4> QED
          BY <1>t, <4>1, <4>3 DEF OverlayInv
      <3> QED
        BY <3>1, <3>2
    <2> QED
      BY <1>1, <2>1, <2>2, <2>3, <2>4 DEF Inv
  <1>5. CASE ~Accepted(doc)
    <2>1. UNCHANGED <<remote, overlay>>
      BY <1>1, <1>5
    <2>2. v <= remote.version /\ (v = remote.version => remote.state = "Synced")
      BY <1>3, <1>5, <1>n DEF Accepted
    <2>3. Types'
      BY <1>1, <1>n, <1>t, <2>1 DEF Types
    <2>4. RemoteInv(remote, log, v)
      BY <1>n, <1>t, <2>2 DEF RemoteInv
    <2> QED
      BY <1>1, <1>t, <2>1, <2>3, <2>4 DEF Inv
  <1> QED
    BY <1>4, <1>5

(* The server's document after a mutation, added to its versions.          *)
LEMMA LogGrows ==
  ASSUME Inv, NEW m \in AppMutations, log' = Append(log, Applied(Last(log), m)),
         remote' = remote, seen' = seen
  PROVE  /\ log' \in Seq(Versions) /\ Len(log') = Len(log) + 1
         /\ RemoteInv(remote, log, seen)'
  <1> DEFINE last == log[Len(log)]
             d == Applied(last, m)
  <1>t. Types /\ RemoteInv(remote, log, seen)
    BY DEF Inv
  <1>1. Len(log) \in Nat /\ last \in Versions /\ Last(log) = last
    BY <1>t DEF Types, Last
  <1> HIDE DEF last
  <1>2. d \in Versions
    <2>1. m \in Mutations
      BY MutationFact
    <2>2. SetAll(last.data, m) \in Data /\ m.data \in Data
      BY <1>1, <2>1 DEF SetAll, Data, Versions, Mutations
    <2> QED
      BY <2>2 DEF Applied, Versions
  <1>3. log' = Append(log, d)
    BY <1>1
  <1> HIDE DEF d
  <1>4. /\ log' \in Seq(Versions) /\ Len(log') = Len(log) + 1
        /\ \A i \in 1..Len(log) : log'[i] = log[i]
    BY <1>2, <1>3, <1>t DEF Types
  <1>5. seen \in Nat /\ remote.version \in Nat
    BY <1>t DEF Types, Documents
  <1>6. remote.version > 0 => log'[remote.version] = log[remote.version]
    BY <1>1, <1>4, <1>5, <1>t DEF RemoteInv
  <1>7. remote.version <= Len(log')
    BY <1>1, <1>4, <1>5, <1>t DEF RemoteInv
  <1>8. RemoteInv(remote, log', seen)
    BY <1>t, <1>6, <1>7 DEF RemoteInv
  <1> QED
    BY <1>4, <1>8

(* The server stores or rejects the oldest write it has not answered.      *)
LEMMA ServerCommitInv ==
  ASSUME Inv, ServerCommit
  PROVE  Inv'
  <1> DEFINE n == Len(acks)
             m == queue[n + 1].m
  <1>t. Types /\ OverlayInv(overlay, remote, queue) /\ RemoteInv(remote, log, seen)
    BY DEF Inv
  <1>1. n \in Nat /\ n < Len(queue) /\ UNCHANGED <<remote, queue, overlay, nextId, seen>>
    BY <1>t DEF ServerCommit, Types
  <1>2. \/ acks' = Append(acks, [ok |-> FALSE, version |-> 0]) /\ log' = log
        \/ /\ log' = Append(log, Applied(Last(log), m))
           /\ acks' = Append(acks, [ok |-> TRUE, version |-> Len(log) + 1])
    BY DEF ServerCommit
  <1>3. m \in AppMutations
    <2>1. queue[n + 1] \in Batches
      BY <1>1, <1>t DEF Types
    <2> QED
      BY <2>1 DEF Batches
  <1> HIDE DEF m
  <1>4. Len(log) \in Nat /\ n \in Nat /\ acks \in Seq(Answers)
    BY <1>t DEF Types
  <1>5. \A i \in 1..n : acks[i].ok => acks[i].version \in 1..Len(log)
    BY <1>t DEF Types
  <1>6. CASE acks' = Append(acks, [ok |-> FALSE, version |-> 0]) /\ log' = log
    <2>1. [ok |-> FALSE, version |-> 0] \in Answers
      BY DEF Answers
    <2>2. /\ acks' \in Seq(Answers) /\ Len(acks') = n + 1
          /\ acks'[n + 1] = [ok |-> FALSE, version |-> 0]
          /\ \A i \in 1..n : acks'[i] = acks[i]
      BY <1>4, <1>6, <2>1
    <2>3. \A i \in 1..(n + 1) : acks'[i].ok => acks'[i].version \in 1..Len(log)
      BY <1>4, <1>5, <2>2
    <2>4. Types'
      BY <1>1, <1>4, <1>6, <1>t, <2>2, <2>3 DEF Types
    <2> QED
      BY <1>1, <1>6, <1>t, <2>4 DEF Inv
  <1>7. CASE /\ log' = Append(log, Applied(Last(log), m))
             /\ acks' = Append(acks, [ok |-> TRUE, version |-> Len(log) + 1])
    <2> DEFINE a == [ok |-> TRUE, version |-> Len(log) + 1]
    <2>1. a \in Answers /\ a.version = Len(log) + 1
      BY <1>4 DEF Answers
    <2> HIDE DEF a
    <2>2. /\ acks' \in Seq(Answers) /\ Len(acks') = n + 1 /\ acks'[n + 1] = a
          /\ \A i \in 1..n : acks'[i] = acks[i]
      BY <1>4, <1>7, <2>1 DEF a
    <2>3. /\ log' \in Seq(Versions) /\ Len(log') = Len(log) + 1
          /\ RemoteInv(remote, log, seen)'
      BY <1>1, <1>3, <1>7, LogGrows
    <2>4. \A i \in 1..(n + 1) : acks'[i].ok => acks'[i].version \in 1..Len(log')
      <3> TAKE i \in 1..(n + 1)
      <3>1. CASE i = n + 1
        BY <1>4, <2>1, <2>2, <2>3, <3>1
      <3>2. CASE i \in 1..n
        <4>1. acks'[i].ok => acks'[i].version \in 1..Len(log)
          BY <1>5, <2>2, <3>2
        <4> QED
          BY <1>4, <2>3, <4>1
      <3> QED
        BY <1>4, <3>1, <3>2
    <2>5. Len(log') >= 1 /\ Len(acks') <= Len(queue) /\ Len(queue) \in Nat
      BY <1>1, <1>4, <1>t, <2>2, <2>3 DEF Types
    <2>6. \A i \in 1..Len(acks') : acks'[i].ok => acks'[i].version \in 1..Len(log')
      BY <2>2, <2>4
    <2>7. Types'
      BY <1>1, <1>t, <2>2, <2>3, <2>5, <2>6 DEF Types
    <2> QED
      BY <1>1, <1>t, <2>3, <2>7 DEF Inv
  <1> QED
    BY <1>2, <1>6, <1>7

(* Somebody else changes the document.                                     *)
LEMMA ServerChangeInv ==
  ASSUME Inv, NEW m \in AppMutations, ServerChange(m)
  PROVE  Inv'
  <1>1. /\ log' = Append(log, Applied(Last(log), m))
        /\ UNCHANGED <<remote, queue, overlay, nextId, acks, seen>>
    BY DEF ServerChange
  <1>t. Types /\ OverlayInv(overlay, remote, queue)
    BY DEF Inv
  <1>2. /\ log' \in Seq(Versions) /\ Len(log') = Len(log) + 1
        /\ RemoteInv(remote, log, seen)'
    BY <1>1, LogGrows
  <1>3. Len(log) \in Nat /\ Len(log) >= 1 /\ acks \in Seq(Answers)
    BY <1>t DEF Types
  <1>4. \A i \in 1..Len(acks) : acks[i].ok => acks[i].version \in 1..Len(log')
    <2>1. \A i \in 1..Len(acks) : acks[i].ok => acks[i].version \in 1..Len(log)
      BY <1>t DEF Types
    <2>2. \A k \in 1..Len(log) : k \in 1..Len(log')
      BY <1>2, <1>3
    <2> QED
      BY <2>1, <2>2
  <1>5. Types'
    BY <1>1, <1>2, <1>3, <1>4, <1>t DEF Types
  <1> QED
    BY <1>1, <1>2, <1>5, <1>t DEF Inv

(* Every step keeps the invariant.                                         *)
LEMMA NextInv == Inv /\ [Next]_vars => Inv'
  <1> SUFFICES ASSUME Inv, [Next]_vars PROVE Inv'
    OBVIOUS
  <1>1. CASE \E m \in AppMutations : WriteLocally(m)
    BY <1>1, WriteLocallyInv
  <1>2. CASE \E m \in AppMutations : ServerChange(m)
    BY <1>2, ServerChangeInv
  <1>3. CASE AcknowledgeBatch
    BY <1>3, AcknowledgeBatchInv
  <1>4. CASE RejectBatch
    BY <1>4, RejectBatchInv
  <1>5. CASE \E v \in 1..Len(log) : ApplyRemoteEvent(v)
    BY <1>5, ApplyRemoteEventInv
  <1>6. CASE ServerCommit
    BY <1>6, ServerCommitInv
  <1>7. CASE UNCHANGED vars
    BY <1>7 DEF vars, Inv, Types, OverlayInv, RemoteInv
  <1> QED
    BY <1>1, <1>2, <1>3, <1>4, <1>5, <1>6, <1>7 DEF Next

(* The invariant holds in every behaviour: overlay, queue and remote       *)
(* document fit together after every step of the client and the server.    *)
THEOREM Invariance == Spec => []Inv
  <1> QED
    BY InitInv, NextInv, PTL DEF Spec

-----------------------------------------------------------------------------
(* What the invariant says.                                                *)

(* The variables have their types. *)
THEOREM TypeCorrect == Spec => []TypeOK
  <1>1. Inv => TypeOK
    <2> SUFFICES ASSUME Inv PROVE TypeOK
      OBVIOUS
    <2>1. Types /\ OverlayInv(overlay, remote, queue) /\ RemoteInv(remote, log, seen)
      BY DEF Inv
    <2>2. overlay.m.kind \in {"None", "Set", "Patch", "Delete"}
      BY <2>1 DEF OverlayInv, Overlays, Mutations
    <2>3. remote.version \in 0..Len(log) /\ seen \in 0..Len(log)
      BY <2>1 DEF RemoteInv, Types, Documents
    <2> QED
      BY <2>1, <2>2, <2>3 DEF TypeOK, Types, Documents
  <1> QED
    BY <1>1, Invariance, PTL

(* An overlay belongs to a batch that is queued. *)
THEOREM OverlaysHaveBatches == Spec => []OverlayHasBatch
  <1>1. Inv => OverlayHasBatch
    BY DEF Inv, Types, OverlayInv, OverlayHasBatch
  <1> QED
    BY <1>1, Invariance, PTL

(* Where there is no overlay the queued writes have no effect. *)
THEOREM NothingIsHidden == Spec => []NothingHidden
  <1>1. Inv => NothingHidden
    <2> SUFFICES ASSUME Inv, overlay = NoOverlay
                 PROVE  ApplyQueue(remote, queue).doc = remote
      BY DEF NothingHidden
    <2>1. /\ remote \in Documents /\ remote.state /= "Local" /\ queue \in Seq(Batches)
          /\ Hidden(remote, Len(queue), queue)
      BY DEF Inv, Types, OverlayInv
    <2>2. Shows(ApplyQueue(remote, queue), remote, Len(queue), queue)
      BY <2>1, ApplyQueueFact
    <2>3. ApplyQueue(remote, queue) = Start(remote)
      BY <2>1, <2>2 DEF Shows
    <2> QED
      BY <2>3 DEF Start, View
  <1> QED
    BY <1>1, Invariance, PTL

(* The document shown, by the kind of the overlay.                         *)
LEMMA GetDocumentFact ==
  ASSUME remote \in Documents, overlay \in Overlays
  PROVE  /\ overlay.m.kind = "None" => GetDocument = remote
         /\ overlay.m.kind = "Set" =>
              GetDocument.type = "Found" /\ GetDocument.data = overlay.m.data
         /\ overlay.m.kind = "Delete" => GetDocument.type = "No"
         /\ overlay.m.kind = "Patch" =>
              /\ GetDocument.type = "Found"
              /\ \A f \in overlay.m.mask : GetDocument.data[f] = overlay.m.data[f]
  <1> DEFINE o == overlay.m
             base == IF o.kind \in {"None", "Patch"} THEN remote ELSE InvalidDocument
             view == ApplyToLocalView(View(base, FALSE, {}), o, FALSE)
             g == GetDocument
  <1>1. o \in Mutations
    BY DEF Overlays
  <1>2. g = view.doc
    BY DEF GetDocument
  <1>3. View(base, FALSE, {}).doc = base
    BY DEF View
  <1> HIDE DEF o, g
  <1>4. o.kind = "None" => view = View(base, FALSE, {}) /\ base = remote
    BY DEF ApplyToLocalView
  <1>5. o.kind = "Set" => view = View(Doc("Found", 0, o.data, "Local"), TRUE, {})
    BY DEF ApplyToLocalView
  <1>6. o.kind = "Delete" => view = View(Doc("No", 0, Empty, "Local"), TRUE, {})
    BY DEF ApplyToLocalView
  <1>7. o.kind = "Patch" => view.doc = Doc("Found", 0, SetAll(remote.data, o), "Local")
    BY <1>3 DEF ApplyToLocalView, View
  <1>8. o.kind = "Patch" => \A f \in o.mask : SetAll(remote.data, o)[f] = o.data[f]
    BY <1>1 DEF SetAll, Mutations
  <1> HIDE DEF view, base
  <1>9. /\ o.kind = "None" => g = remote
        /\ o.kind = "Set" => g.type = "Found" /\ g.data = o.data
        /\ o.kind = "Delete" => g.type = "No"
    BY <1>2, <1>3, <1>4, <1>5, <1>6 DEF View, Doc
  <1>10. o.kind = "Patch" => /\ g.type = "Found"
                             /\ \A f \in o.mask : g.data[f] = o.data[f]
    BY <1>2, <1>7, <1>8 DEF Doc
  <1> QED
    BY <1>9, <1>10 DEF o, g

(* The last write of the app shows until it is answered. *)
THEOREM LastWriteIsShown == Spec => []LastWriteShows
  <1>1. Inv => LastWriteShows
    <2> DEFINE n == Len(queue)
               m == queue[n].m
               g == GetDocument
               o == overlay.m
    <2> SUFFICES ASSUME Inv, queue /= << >> PROVE LastWriteShows
      BY DEF LastWriteShows
    <2>1. /\ Types /\ OverlayInv(overlay, remote, queue)
          /\ remote \in Documents /\ overlay \in Overlays
      BY DEF Inv, Types, OverlayInv
    <2>2. n \in Nat /\ n >= 1 /\ Last(queue) = queue[n] /\ queue[n] \in Batches
      BY <2>1 DEF Types, Last
    <2>3. m \in AppMutations
      BY <2>2 DEF Batches
    <2>4. m.kind \in {"Set", "Patch", "Delete"} /\ m \in Mutations
      BY <2>3, MutationFact
    <2>5. /\ o.kind = "None" => g = remote
          /\ o.kind = "Set" => g.type = "Found" /\ g.data = o.data
          /\ o.kind = "Delete" => g.type = "No"
          /\ o.kind = "Patch" =>
               /\ g.type = "Found"
               /\ \A f \in o.mask : g.data[f] = o.data[f]
      BY <2>1, GetDocumentFact
    <2>6. overlay = NoOverlay => /\ o.kind = "None"
                                 /\ m.kind = "Patch" /\ remote.type /= "Found"
      BY <2>1, <2>2 DEF OverlayInv, Hidden, NoOverlay, Overlay, NoMutation, Mutation
    <2>7. overlay /= NoOverlay => Reflects(o, m)
      BY <2>1 DEF OverlayInv
    <2> HIDE DEF m, g, o
    <2>8. /\ m.kind = "Set" => g.type = "Found" /\ g.data = m.data
          /\ m.kind = "Delete" => g.type = "No"
          /\ m.kind = "Patch" /\ g.type = "Found" =>
               \A f \in m.mask : g.data[f] = m.data[f]
      <3>1. CASE overlay = NoOverlay
        BY <2>5, <2>6, <3>1
      <3>2. CASE overlay /= NoOverlay
        BY <2>5, <2>7, <3>2 DEF Reflects
      <3> QED
        BY <3>1, <3>2
    <2> QED
      BY <2>2, <2>4, <2>8 DEF LastWriteShows, m, g
  <1> QED
    BY <1>1, Invariance, PTL

(* Once every write is answered and the watch stream has caught up, the    *)
(* reader sees the server's document. *)
THEOREM SettledShowsServer == Spec => []SettledIsServer
  <1>1. Inv => SettledIsServer
    <2> SUFFICES ASSUME Inv, queue = << >>, seen = Len(log)
                 PROVE  /\ (GetDocument.type = "Found") = Last(log).found
                        /\ GetDocument.data = Last(log).data
                        /\ GetDocument.state = "Synced"
      BY DEF SettledIsServer
    <2>1. /\ Types /\ OverlayInv(overlay, remote, queue)
          /\ RemoteInv(remote, log, seen)
          /\ remote \in Documents /\ overlay \in Overlays
      BY DEF Inv, Types, OverlayInv
    <2>2. overlay = NoOverlay
      <3>1. Len(queue) = 0
        OBVIOUS
      <3> QED
        BY <2>1, <3>1 DEF OverlayInv
    <2>3. overlay.m.kind = "None"
      BY <2>2 DEF NoOverlay, Overlay, NoMutation, Mutation
    <2>4. GetDocument = remote
      BY <2>1, <2>3, GetDocumentFact
    <2>5. Last(log) = log[Len(log)] /\ Len(log) \in Nat /\ Len(log) >= 1
      BY <2>1 DEF Types, Last
    <2>6. remote.version = Len(log)
      BY <2>1, <2>5 DEF RemoteInv, Documents
    <2> QED
      BY <2>1, <2>4, <2>5, <2>6 DEF RemoteInv
  <1> QED
    BY <1>1, Invariance, PTL

=============================================================================
