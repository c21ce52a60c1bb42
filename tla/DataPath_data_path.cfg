SPECIFICATION Spec
CONSTANTS
    Base = 10
    MagicNumber = 71
    Kilo = 10
    MsThreshold = 20
    One = 16
    Largest = 262143
    Ulp64 <- DoubleUlps
    Largest32 = 4095
    Ulp32 <- SingleUlps
    Keys = {"port", "token", "max_retry", "buffer_size", "redis_password"}
    Words <- IntWords
    Points <- AllPoints
    RawNumbers <- Numbers
    WriteValues <- Written
    Topics <- AllTopics
    DeviceNames <- Names
    Outputs <- AllOutputs
    Payloads <- AllPayloads
    ModbusName <- ShortName
    MqttName <- OtherName
    MaxReadings = 2
    MaxFrames = 3
    CutPoints = {20}
INVARIANTS
    AcceptedIsMeant
    ReadsTheDevice
    StreamIsFaithful
    ArrivesAsMeant
CHECK_DEADLOCK FALSE
