SPECIFICATION FairSpec
CONSTANTS
    h1 = h1
    h2 = h2
    lan = lan
    wlan = wlan
    Unreadable = Unreadable
    Net <- MCNet
    Host <- MCHost
    Reaches <- MCReaches
    CamerasOf <- MCCameras
    Machine <- MCMachine
    ListenPort <- MCListenPort
    AnyPort = 50000
    MaxCalls = 2
    MaxInbox = 2
INVARIANTS
    TypeOK
    EachAsSent
    NoDuplicates
    EveryNetAsked
    SocketClosed
    NoneHidden
PROPERTIES
    DiscoverReturns
CHECK_DEADLOCK FALSE
