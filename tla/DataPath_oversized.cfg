SPECIFICATION Spec
CONSTANTS
    Base = 10
    MagicNumber = 71
    Kilo = 10
    MsThreshold = 20
    One = 16
    Largest = 262143
    Ulp64 <- DoubleUlps
    Largest32 = 4095
    Ulp32 <- SingleUlps
    Keys = {"port"}
    Words <- FewWords
    Points <- OnePoint
    RawNumbers = {0}
    WriteValues = {0}
    Topics <- OneTopic
    DeviceNames <- OneName
    Outputs <- AllOutputs
    Payloads <- OnePayload
    ModbusName <- ShortName
    MqttName <- LongName
    MaxReadings = 2
    MaxFrames = 3
    CutPoints = {20}
INVARIANT
    FramesAreAccepted
CHECK_DEADLOCK FALSE
