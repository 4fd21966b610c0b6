\* A data connection the server did not ask for; no break and no restart.
CONSTANTS
  c1 = c1
  c2 = c2
  pub = pub
  priv = priv
  alice = alice
  bob = bob
  Conns = {c1, c2}
  Links = {pub, priv}
  Peers = {alice, bob}
  Authorised <- MCAuthorised
  Offers <- MCOffers
  QueueCap = 1
  MaxBreaks = 0
  MaxHellos = 1
  MaxRestarts = 0
  NoConn = NoConn
  NoPeer = NoPeer
SPECIFICATION Safety
CHECK_DEADLOCK FALSE
INVARIANT GrantsEnforced
