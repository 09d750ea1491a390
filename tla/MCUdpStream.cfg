SPECIFICATION FairSpec
CONSTANTS
    Port <- MCPort
    MaxSockets = 2
    MaxFrames = 1
    MaxInbox = 1
INVARIANTS
    TypeOK
    OneSocket
    WholePackets
PROPERTIES
    ReceiveUDPReturns
CHECK_DEADLOCK FALSE
