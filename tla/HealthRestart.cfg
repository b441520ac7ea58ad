SPECIFICATION FairSpec
CONSTANTS
    h1 = h1
    h2 = h2
    Handler = {h1, h2}
    watchdog = watchdog
    Caller <- Callers
    NoCall = NoCall
    Daemon = {}
    Service = {s1}
    MaxTries = 2
    Interval = 4
    CmdLimit = 2
    Timeout = 8
PROPERTIES
    WatchdogPatient
    ContainerRestored
    BrokenReplaced
