SPECIFICATION ServiceFairSpec
CONSTANTS
    n1 = n1
    n2 = n2
    fcgi = fcgi
    Name = {n1, n2}
    Version = {v1}
    NoRow = NoRow
    Untagged = Untagged
    Client = {fcgi}
    Thread = {t1, t2}
    Nobody = Nobody
    NoThread = NoThread
    NoName = NoName
    NoFile = NoFile
    NotImage = NotImage
    CanDie = TRUE
    realpath <- RealpathLink
    Calls <- AllCalls
    UserMethods <- AllMethods
    MaxEvents = 1
INVARIANTS
    StopAnswerTrue
    NoLostAdd
PROPERTIES
    CallsAtomic
    RequestAnswered
