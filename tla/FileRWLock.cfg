SPECIFICATION FairSpec
CONSTANTS
  p1 = p1
  p2 = p2
  p3 = p3
  user_json = user_json
  friends_json = friends_json
  m1 = m1
  m2 = m2
  m3 = m3
  Nobody = Nobody
  NoMutex = NoMutex
  Proc = {p1, p2, p3}
  Path = {user_json, friends_json}
  Addresses = {m1, m2, m3}
  Kinds = {"read", "write", "login", "create"}
  MaxOperations = 3
CHECK_DEADLOCK FALSE
INVARIANTS
  RefCounts
  SameFileSameMutex
  NoTornRead
PROPERTY OperationCompletes
