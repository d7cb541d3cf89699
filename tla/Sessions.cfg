SPECIFICATION Spec
CONSTANTS
  ann = ann
  bob = bob
  cid = cid
  t1 = t1
  t2 = t2
  s1 = s1
  s2 = s2
  s3 = s3
  NoSession = NoSession
  NoOperation = NoOperation
  NoAnswer = NoAnswer
  User = {ann, bob, cid}
  Thread = {t1, t2}
  Session = {s1, s2, s3}
  Ranges <- SomeRanges
  Faults = {"busy", "crash"}
  MaxOperations = 3
CHECK_DEADLOCK FALSE
SYMMETRY Symmetric
INVARIANTS
  SessionsArePrivate
  AcknowledgedKept
  OneSession
  RangeAnswered
