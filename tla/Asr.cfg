SPECIFICATION Spec
CONSTANTS
    Request = {"r1", "r2"}
    MaxSessions = 2
    MaxQueue = 2
INVARIANTS
    StopMeansStopped
    OwnSession
    FlagTellsSession
PROPERTIES
    AsrAnswers
