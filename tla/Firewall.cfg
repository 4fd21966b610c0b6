CONSTANTS
  remote = remote
  lan = lan
  office = office
  IPs = {remote, lan, office}
  NeverBannable = {lan}
  Allowlist = {office}
  Threshold = 2
  FailWindow = 1
  BanTime = 2
  TestBanTime = 1
  ChannelCap = 2
  PipeCap = 1
  MaxTime = 3
SPECIFICATION FirewallSpec
INVARIANTS FirewallTypeOK StreaksCaught NeverBannableSpared
PROPERTY BansEarned
