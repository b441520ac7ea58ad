SPECIFICATION Spec
CONSTANTS
    Model <- AllModels
    AppModel = {"super"}
    Device = {"CPU", "GPU"}
    Version = {"v1", "w1", "v2"}
    Digest <- XmlDigest
    MaxBatch = 1
    Process <- AllProcesses
    Thread = {"t1", "t2"}
    MaxMethods = 2
    MaxRegions = 2
INVARIANTS
    EngineStable
    CachesFollow
    MutexReleased
PROPERTIES
    KeepsPromise
    StrandedSeen
