SPECIFICATION FairSpec
CONSTANTS
  r1 = r1
  r2 = r2
  r3 = r3
  Nobody = Nobody
  NoNumber = NoNumber
  Request = {r1, r2, r3}
  FirstUid = 1
  LastUid = 4
  MaxCrashes = 1
  MaxOpenFailures = 1
CHECK_DEADLOCK FALSE
INVARIANTS
  UidsUnique
  AnsweredAccountKept
PROPERTIES
  RegistrationEnds
