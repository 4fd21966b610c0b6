CONSTANTS
  game = game
  dns = dns
  open = open
  other = other
  hidden = hidden
  Apps = {game, dns}
  Links = {open, other, hidden}
  LinkOf <- MCLinkOf
  ParsesAs <- MCParsesAs
  Authorised = {open, other}
  MaxFlows = 2
  MaxSessions = 2
  MaxRebinds = 1
  Cap = 1
SPECIFICATION UdpSpec
INVARIANTS UdpTypeOK OneTaskPerSource OwnTraffic
PROPERTY AllReclaimed
CHECK_DEADLOCK FALSE
