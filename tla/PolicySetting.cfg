SPECIFICATION HistorySpec
CONSTANTS
    c1 = c1
    Client = {c1}
    NoSetting = NoSetting
    CfgRoute = "LOCAL_ONLY"
    CfgDevice = "CPU"
    Device = {"CPU", "MYRIAD"}
    MaxTerm = 1
INVARIANT
    SettingKept
