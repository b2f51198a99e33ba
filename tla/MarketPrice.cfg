\* lst[3] of the detail screen, with one phone per account.
SPECIFICATION Spec
CONSTANTS
  ann = ann  bob = bob  cy = cy  a = a  a2 = a2  b = b  b2 = b2  c = c
  t1 = t1  o1 = o1  o2 = o2  o3 = o3  s1 = s1  s2 = s2
  NoTask = NoTask  NoOffer = NoOffer  NoSlot = NoSlot
  Users = {ann, bob, cy}
  Devices = {a, b, c}
  UserOf <- Owners
  Tasks = {t1}
  AuthorOf <- AnnsTask
  Offers = {o1, o2}
  TaskOf <- OnlyTask
  ProviderOf <- Providers
  Slots = {s1}
  MaxAnswers = 2
  MaxCrashes = 0
INVARIANTS PriceKnown
