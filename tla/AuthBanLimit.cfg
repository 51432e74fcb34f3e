SPECIFICATION MCSpec
CONSTANTS
  s1 = s1
  s2 = s2
  s3 = s3
  a1 = a1
  i1 = i1
  i2 = i2
  Session = {s1, s2, s3}
  Account = {a1}
  Ip = {i1}
  OldKey = OldKey
  NoKey = NoKey
  NoLogin = NoLogin
  AddressOf <- OneAddress
  GmLevel <- PlayerLevel
  Locked = {}
  Build = {5875}
  PatchEnabled = TRUE
  ForcedBuilds = {}
  MaxWrongPassCount = 2
  BanAccount = TRUE
  BanPermanent = TRUE
  AuthTimeout = 0
  MaxClock = 0
  InitialBans = {{}}
  MayLackRow = {}
  Sweeping = FALSE
  Reconnecting = FALSE
CONSTRAINT Bounded
SYMMETRY Symmetry
INVARIANT BannedAtLimit
CHECK_DEADLOCK FALSE
