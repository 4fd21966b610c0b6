CONSTANTS
  s1 = s1
  s2 = s2
  Streams = {s1, s2}
  Peers = {"alice", "bob"}
  LinkIds = {"web", "cam", "dns", "old"}
  Link <- MCLink
  Grants <- MCGrants
  Sizes <- MCSizes
  MaxStarts = 2
  None = None
SPECIFICATION StatusSpec
CHECK_DEADLOCK FALSE
INVARIANTS StatusTypeOK StaleSocketReplaced ActiveWithinTotal QuietIsExact
PROPERTY StreamsSettle
