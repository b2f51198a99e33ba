----------------------------- MODULE MCRatings -----------------------------
(* Instances of Ratings for TLC: providers pat and quin, raters ann, bob.  *)
EXTENDS Ratings, TLC

CONSTANTS ann, bob, pat, quin, a, b, t1, t2, t3, t4, t5, r1, r2, r3

Owners == [d \in Devices |-> IF d = a THEN ann ELSE bob]

\* t2 is bob's task, the others are ann's.
Authors == [t \in Tasks |-> IF t = t2 THEN bob ELSE ann]
AnnsTasks == [t \in Tasks |-> ann]

\* Every task was accepted of pat.
AllPat == [t \in Tasks |-> {pat}]
\* t3 was accepted of quin.
PatAndQuin == [t \in Tasks |-> IF t = t3 THEN {quin} ELSE {pat}]
\* t4 is not accepted of anybody.
PatOrOpen == [t \in Tasks |-> IF t = t4 THEN {} ELSE {pat}]

\* The auto-generated ids of the ratings are interchangeable.
Ids == Permutations(Ratings)

\* Bound: ann rates three tasks, having looked at an open one first, or ann
\* and bob rate a task each and one app is killed.
OneRaterOrTwo ==
  \/ /\ crashes = 0
     /\ \/ page[a] \in {NoTask, t1, t3, t5}
        \/ page[a] = t4 /\ Made = {}
     /\ strays[a][t2] = 0
     /\ (strays[a][t4] = 0 \/ Made = {})
     /\ page[b] = NoTask /\ provider[b] = NoUser
     /\ strays[b] = [t \in Tasks |-> 0]
  \/ /\ page[a] \in {NoTask, t1, t2} /\ page[b] \in {NoTask, t2}
     /\ \A d \in Devices, t \in Tasks \ {t1, t2} : strays[d][t] = 0
     /\ \A r \in Made : about[r].task \in {t1, t2}
     /\ Cardinality(Made) <= 2

=============================================================================
