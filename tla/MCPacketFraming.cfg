SPECIFICATION Spec
CONSTANTS
    Event = {None, Zero, CaptureStarted, CameraSettingsChanged}
    NoEvent = None
    ZeroEvent = Zero
    CameraSettingsChanged = CameraSettingsChanged
    CaptureStarted = CaptureStarted
    packetHeaderSize = 3
    startBufferSize = 4
    maxPacketSize = 5
    readTimeoutSet = TRUE
    Wire <- MCWire
    Misread <- MCMisread
    HeaderAtomic = TRUE
    MaxQueue = 2
INVARIANTS
    TypeOK
    Synchronised
PROPERTIES
    StreamSpec
