\* One provider offers again and again; three answers, two at a time, or
\* two answers and an app killed at any point.
SPECIFICATION Spec
CONSTANTS
  ann = ann  bob = bob  cy = cy  a = a  a2 = a2  b = b  b2 = b2  c = c
  t1 = t1  o1 = o1  o2 = o2  o3 = o3  s1 = s1  s2 = s2
  NoTask = NoTask  NoOffer = NoOffer  NoSlot = NoSlot
  Users = {ann, bob, cy}
  Devices = {a, b}
  UserOf <- Owners
  Tasks = {t1}
  AuthorOf <- AnnsTask
  Offers = {o1, o3}
  TaskOf <- OnlyTask
  ProviderOf <- Providers
  Slots = {s1, s2}
  MaxAnswers = 3
  MaxCrashes = 1
CONSTRAINT FewEvents
CHECK_DEADLOCK FALSE
INVARIANTS AnswerHasOffer OneOfferPerProvider VerdictBacked
 
