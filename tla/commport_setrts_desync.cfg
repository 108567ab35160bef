\* A failed SetRTS on an open port leaves m_dcb unlike the driver DCB.
SPECIFICATION MCSpec
CONSTANTS
    Ports = {p1, p2}
    DefaultPort = p1
    Bauds <- MCBauds
    SupportedBauds <- MCSupportedBauds
    ByteSizes = {8}
    SupportedByteSizes = {8}
    Parities = {0, 2}
    StopBitsVals = {0, 2}
    RtsStates = {FALSE, TRUE}
    DCBProps <- MCDCBProps
    DeviceInit <- MCDeviceInit
    Tracked <- MCSettingsAndRts
    MaxFaults = 1
    p1 = p1
    p2 = p2
INVARIANT DcbMatchesDevice
