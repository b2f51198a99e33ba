\* Three tasks of one provider and an open one, or two raters and a kill.
SPECIFICATION Spec
CONSTANTS
  ann = ann  bob = bob  pat = pat  quin = quin  a = a  b = b
  t1 = t1  t2 = t2  t3 = t3  t4 = t4  t5 = t5  r1 = r1  r2 = r2  r3 = r3
  NoTask = NoTask  NoUser = NoUser  NoId = NoId
  Users = {ann, bob, pat, quin}
  UserOf <- Owners
  Devices = {a, b}
  Tasks = {t1, t2, t3, t4, t5}
  AuthorOf <- Authors
  AcceptedOn <- PatOrOpen
  Ratings = {r1, r2, r3}
  MaxStrays = 2
  MaxCrashes = 1
SYMMETRY Ids
CONSTRAINT OneRaterOrTwo
INVARIANTS TypeOK RatedOnce RateIsOneBehind RateIsStored
