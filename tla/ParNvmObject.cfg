SPECIFICATION Spec
CONSTANTS
    Firmware <- MCFirmware
    Payloads <- MCPayloads
    StoreSize = 10
    FixedAddr = 1
    RegionSize = 9
    DedicatedAddr = 1
    WriteVerify = TRUE
    Bytes <- MCBytes
    b1 = b1
    b2 = b2
    b3 = b3
    Sign = Sign
    Blank = Blank
    Garbage = Garbage
    ScalarData = ScalarData
    MaxFaults = 2
    MaxCalls = 2
    MaxBoots = 3
INVARIANTS TypeOK ScalarsUntouched NoTornPayload AllOrNothing NoHalfSaveAll SavedObjectsSurvive
CHECK_DEADLOCK FALSE
