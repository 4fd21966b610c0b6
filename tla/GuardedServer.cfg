CONSTANTS
  roamer = roamer
  stranger = stranger
  IPs = {roamer, stranger}
  KeyHolders = {roamer}
  NeverBannable = {}
  Allowlist = {}
  Threshold = 2
  FailWindow = 1
  BanTime = 1
  TestBanTime = 1
  ChannelCap = 1
  PipeCap = 1
  MaxTime = 2
  MaxAttempts = 1
  Window = 1
  MaxConcurrent = 1
  NoIP = NoIP
SPECIFICATION GuardedSpec
INVARIANTS LimiterTypeOK SlidingWindow PermitsConserved AttemptsCountOnce
