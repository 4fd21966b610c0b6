SPECIFICATION MCSpec
CONSTANTS
    MaxPings = 3
    MaxStreams = 3
    MaxSessions = 4
INVARIANTS
    FramingTypeOK
    ReceivedPrefix
    EndsOnlyWhenTorn
    SnapshotIsRecent
PROPERTIES
    OpenStreamDelivered
\* The bounds on ticks and streams, and the end of both sessions, stop it.
CHECK_DEADLOCK FALSE
