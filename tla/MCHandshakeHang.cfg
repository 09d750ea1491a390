SPECIFICATION FairSpec
CONSTANTS
    DefaultMajorVersion = 1
    DefaultMinorVersion = 3
    MinSupportedMinorVersion = 1
    Wanted <- MCWanted
    Offered <- MCOffered
    MaxPending = 1
PROPERTIES
    CallsReturn
