SPECIFICATION Spec
CONSTANTS
  ann = ann
  bob = bob
  cid = cid
  t1 = t1
  t2 = t2
  Broken = Broken
  NoOperation = NoOperation
  User = {ann, bob, cid}
  Thread = {t1, t2}
  MaxOperations = 4
CHECK_DEADLOCK FALSE
SYMMETRY Symmetric
INVARIANTS
  OnlyConsented
  FriendListsInSync
PROPERTIES
  RequestsAwaitAnswer
  ImplementsFriendGraph
