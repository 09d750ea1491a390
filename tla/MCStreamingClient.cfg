SPECIFICATION FairClientSpec
CONSTANTS
    Port <- MCPort
    MaxSockets = 1
    MaxFrames = 2
    MaxInbox = 1
    MaxPending = 2
INVARIANTS
    ClientTypeOK
    EndsDisconnected
    ReadsItsStream
    ReadsUntilDeadline
PROPERTIES
    InterruptEnds
    ShutdownEnds
CHECK_DEADLOCK FALSE
