SPECIFICATION TRFairSpec
CONSTANTS
  p = p
  Task = Task
  Queue = Queue
  Nothing = Nothing
  Pusher = {p}
  HeaderSize = 2
  MaxPack = 3
  Size = {0, 2, 4}
  MaxRequests = 2
  MaxPushes = 1
  MaxQueued = 2
CHECK_DEADLOCK FALSE
INVARIANTS
  FramesInStep
PROPERTIES
  OutgoingIntact
  QueuedSent
