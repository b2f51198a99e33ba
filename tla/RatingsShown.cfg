\* lst[0] of the detail screen.
SPECIFICATION Spec
CONSTANTS
  ann = ann  bob = bob  pat = pat  quin = quin  a = a  b = b
  t1 = t1  t2 = t2  t3 = t3  t4 = t4  t5 = t5  r1 = r1  r2 = r2  r3 = r3
  NoTask = NoTask  NoUser = NoUser  NoId = NoId
  Users = {ann, bob, pat, quin}
  UserOf <- Owners
  Devices = {a}
  Tasks = {t1, t3}
  AuthorOf <- AnnsTasks
  AcceptedOn <- PatAndQuin
  Ratings = {r1, r2}
  MaxStrays = 3
  MaxCrashes = 0
INVARIANTS ShownIsAccepted
