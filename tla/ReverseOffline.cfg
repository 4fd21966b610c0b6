\* Two links, two peers, two connections, a channel of one message.
CONSTANTS
  c1 = c1
  c2 = c2
  pub = pub
  priv = priv
  alice = alice
  bob = bob
  Conns = {c1, c2}
  Links = {pub, priv}
  Peers = {alice, bob}
  Authorised <- MCAuthorised
  Offers <- MCOffers
  QueueCap = 1
  MaxBreaks = 1
  MaxHellos = 0
  MaxRestarts = 0
  NoConn = NoConn
  NoPeer = NoPeer
SPECIFICATION OfflineSpec
CHECK_DEADLOCK FALSE
PROPERTY PendingResolved
