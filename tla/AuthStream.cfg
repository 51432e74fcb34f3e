SPECIFICATION Spec
CONSTANTS
  Streams <- MCStreams
  Cut <- MCCut
  MaxPiece <- MCMaxPiece
INVARIANTS TypeOK CutsDoNotMatter GuardSuffices AtMostOneLate
\* A session ends when it is closed.
CHECK_DEADLOCK FALSE
