SPECIFICATION FairSpec
CONSTANTS
    PluginFile <- BothDirectories
    Unloadable = {"pose"}
    Served = {"pose", "backgroundblur"}
    MaxPeople = 1
    Status <- TwoStates
    Delay = 1
INVARIANTS
    ProbesAttached
    PolledWhileStarted
    FreshStatus
    BackgroundReady
PROPERTIES
    StoppedOnlyUnseen
    PollingJoined
