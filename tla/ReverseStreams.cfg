\* Two links, two peers, two connections, a channel of one message.
CONSTANTS
  c1 = c1
  c2 = c2
  pub = pub
  priv = priv
  alice = alice
  bob = bob
  Conns = {c1, c2}
  Links = {pub, priv}
  Peers = {alice, bob}
  Authorised <- MCAuthorised
  Offers <- MCOffers
  QueueCap = 1
  MaxBreaks = 1
  MaxHellos = 1
  MaxRestarts = 1
  NoConn = NoConn
  NoPeer = NoPeer
SPECIFICATION Spec
CHECK_DEADLOCK FALSE
INVARIANTS TypeOK OwnedOnce JoinedOnOwnLink PendingHasCleanup
PROPERTIES ImplementsRendezvous PendingResolved
