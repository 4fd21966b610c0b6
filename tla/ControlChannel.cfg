CONSTANTS
  home = home
  phone = phone
  Clients = {home, phone}
  MaxBackoff = 5
  MaxFaults = 2
  None = None
SPECIFICATION ControlSpec
INVARIANTS ControlTypeOK OnlineIsKnown
PROPERTIES EventuallyServing EventuallyOnline
CHECK_DEADLOCK FALSE
