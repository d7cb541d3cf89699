SPECIFICATION Spec
CONSTANTS
  w1 = w1
  w2 = w2
  Main = Main
  Nobody = Nobody
  None = None
  Conn = {1, 2}
  Worker = {w1, w2}
  Uid = {1, 2}
  PipeSize = 1
  MaxInbox = 1
  MaxKnocks = 1
CHECK_DEADLOCK FALSE
SYMMETRY Symmetry
INVARIANTS
  OnePlace
  HandlesMatch
