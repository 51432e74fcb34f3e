SPECIFICATION MCFairSpec
CONSTANTS
  s1 = s1
  a1 = a1
  i1 = i1
  i2 = i2
  Session = {s1}
  Account = {a1}
  Ip = {i1}
  OldKey = OldKey
  NoKey = NoKey
  NoLogin = NoLogin
  AddressOf <- OneAddress
  GmLevel <- PlayerLevel
  Locked = {}
  Build = {5875, 8606, 5000}
  PatchEnabled = TRUE
  ForcedBuilds = {8606}
  MaxWrongPassCount = 0
  BanAccount = TRUE
  BanPermanent = TRUE
  AuthTimeout = 1
  MaxClock = 2
  InitialBans = {{}}
  MayLackRow = {a1}
  Sweeping = TRUE
  Reconnecting = TRUE
PROPERTY ExemptFromTimeout
CHECK_DEADLOCK FALSE
