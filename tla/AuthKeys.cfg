SPECIFICATION MCSpec
CONSTANTS
  s1 = s1
  s2 = s2
  a1 = a1
  i1 = i1
  i2 = i2
  Session = {s1, s2}
  Account = {a1}
  Ip = {i1, i2}
  OldKey = OldKey
  NoKey = NoKey
  NoLogin = NoLogin
  AddressOf <- TwoAddresses
  GmLevel <- PlayerLevel
  Locked = {a1}
  Build = {5875}
  PatchEnabled = TRUE
  ForcedBuilds = {}
  MaxWrongPassCount = 1
  BanAccount = FALSE
  BanPermanent = FALSE
  AuthTimeout = 0
  MaxClock = 0
  InitialBans = {{}, {"permanent"}}
  MayLackRow = {a1}
  Sweeping = FALSE
  Reconnecting = TRUE
CONSTRAINT Bounded
INVARIANTS SuccessIsPublished AuthedKeyWasIssued PublishedKeyIsProven CountersExact
PROPERTIES LockedAddressKept KeepsPromises
CHECK_DEADLOCK FALSE
