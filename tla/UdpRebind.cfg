CONSTANTS
  game = game
  dns = dns
  open = open
  other = other
  hidden = hidden
  Apps = {game}
  Links = {open}
  LinkOf <- MCGame
  ParsesAs <- MCPlain
  Authorised = {open}
  MaxFlows = 1
  MaxSessions = 1
  MaxRebinds = 1
  Cap = 1
SPECIFICATION UdpSpec
PROPERTY RebindStartsAnew
CHECK_DEADLOCK FALSE
