SPECIFICATION Spec
CONSTANTS
  c1 = c1
  c2 = c2
  t1 = t1
  t2 = t2
  Cleaner = Cleaner
  Nobody = Nobody
  NoToken = NoToken
  NoConn = NoConn
  Uid <- TwoUsers
  Conn = {c1, c2}
  Token = {t1, t2}
  Expiring = {t1}
  Kinds = {"query"}
  MaxRequests = 2
CHECK_DEADLOCK FALSE
INVARIANT FreshTokenAccepted
