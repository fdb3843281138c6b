SPECIFICATION FairSpec
CONSTANTS
  r1 = r1
  r2 = r2
  r3 = r3
  r4 = r4
  u1 = u1
  u2 = u2
  Requests = {r1, r2, r3, r4}
  Users = {u1, u2}
  UserOf <- TwoEach
  UserLimit = 2
  GlobalLimit = 2
  MaxCrashes = 1
INVARIANTS PlacesHold OpenRowsAreBroken
PROPERTY PlacesComeBack
