SPECIFICATION Spec
CONSTANTS
  r1 = r1
  t1 = t1
  t2 = t2
  Realm = {r1}
  Thread = {t1, t2}
  NoThread = NoThread
  Row <- TwoRows
  Client <- OneClient
  Uint8 = 256
  Uint16 = 65536
  UpdateInterval = 1
  MaxClock = 2
  MaxEdits = 1
INVARIANTS SeesProgress  OutageIsShort
PROPERTIES NeverBackwards RequestEnds
