SPECIFICATION FairSpec
CONSTANTS
    CfgRoute = "LOCAL_ONLY"
    CfgDevice = "CPU"
    Device = {"CPU", "GPU"}
    IterDefault = 2
    IterDouble = 1
    Longest = 10
    MaxTerm = 1
PROPERTIES
    WakeupEndsSleep
    IdleBacksOff
