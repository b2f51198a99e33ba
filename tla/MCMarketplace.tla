--------------------------- MODULE MCMarketplace ---------------------------
(* Instances of Marketplace for TLC: an author, two providers, one task.   *)
EXTENDS Marketplace

CONSTANTS ann, bob, cy, a, a2, b, b2, c, t1, o1, o2, o3, s1, s2

\* a and a2 are ann's devices, b and b2 are bob's, c is cy's.
Owners == [d \in Devices |->
  IF d \in {a, a2} THEN ann ELSE IF d \in {b, b2} THEN bob ELSE cy]

AnnsTask == [t \in Tasks |-> ann]
OnlyTask == [o \in Offers |-> t1]
\* o1 and o3 are bob's, o2 is cy's.
Providers == [o \in Offers |-> IF o = o2 THEN cy ELSE bob]

\* Bound: the two providers do not have the task open at the same time.
OneAtATime == page[b] = NoTask \/ page[c] = NoTask

\* Bound: either a second provider competes or the author has a second
\* device, not both.
OneRival ==
  /\ OneAtATime
  /\ \/ page[c] = NoTask /\ o2 \notin made
     \/ page[a2] = NoTask /\ outbox[a2] = << >>

\* Bound: three answers, or two and a kill.
FewEvents == answers + crashes <= 3

=============================================================================
