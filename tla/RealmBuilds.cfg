SPECIFICATION Spec
CONSTANTS
  r1 = r1
  t1 = t1
  Realm = {r1}
  Thread = {t1}
  NoThread = NoThread
  Row <- EveryRow
  Client <- EveryClient
  Uint8 = 256
  Uint16 = 65536
  UpdateInterval = 1
  MaxClock = 1
  MaxEdits = 1
INVARIANT FirstBuildDecides
