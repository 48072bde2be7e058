SPECIFICATION Spec
CONSTANTS
    Range32 = 4
    Keys = {"key1"}
    Switches = {"sw0"}
    Lights = {"LEDR"}
    LightAddr <- TestLightAddr
    LightReset <- TestLightReset
    LastState = 3
    Reads <- TestReads
    Writes <- TestWrites
    Data = {0, 1}
INVARIANTS
    TypeOK
    TimerOnTime
    FlagWithinRange
PROPERTIES
    OneReportPerPress
    AcknowledgeTakes
    ReportsReachReader
