SPECIFICATION FairSpec
CONSTANTS
  Longer = Longer
  Shorter = Shorter
  Archive <- TwoArchives
  NoArchive = NoArchive
  Size <- MCSize
  kChunkSize = 2
  kMaxOutstandingBytes = 4
  HeaderSize = 1
  OfferSize = 1
  MaxLength = 7
INVARIANTS
  TypeOK
  BacklogBounded
  AtMostOneLateFrame
PROPERTIES
  
  EndReleasesThread
CHECK_DEADLOCK FALSE
