SPECIFICATION Spec
CONSTANTS
  r1 = r1
  r2 = r2
  t1 = t1
  t2 = t2
  Realm = {r1, r2}
  Thread = {t1, t2}
  NoThread = NoThread
  Row <- ThreeRows
  Client <- TwoClients
  Uint8 = 2
  Uint16 = 3
  UpdateInterval = 1
  MaxClock = 1
  MaxEdits = 1
SYMMETRY Symmetry
INVARIANTS TypeOK AnswerIsOneTable 
