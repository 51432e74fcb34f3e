SPECIFICATION FairSpec
CONSTANTS
  Worker = {w1, w2}
  Free = Free
  Main = Main
  Scheduled <- MCScheduled
  NumLoops = 2
  MaxMinute = 2
  MaxRuns = 2
  MaxQueue = 2
INVARIANTS
  TypeOK
  NoStatementLost
  NoRestartLoop
  ExitCodeIsCause NoCircularWait
PROPERTY StopIsHonoured
CHECK_DEADLOCK FALSE
