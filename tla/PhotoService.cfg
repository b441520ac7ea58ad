SPECIFICATION Spec
CONSTANTS
    n1 = n1
    n2 = n2
    Name = {n1, n2}
    Version = {v1}
    NoRow = NoRow
    Untagged = Untagged
    Client = {c1}
    Thread = {t1, t2}
    Nobody = Nobody
    NoThread = NoThread
    NoName = NoName
    NoFile = NoFile
    NotImage = NotImage
    CanDie = TRUE
    realpath <- RealpathId
    Calls <- ServiceCalls
SYMMETRY ThreadSymmetry
INVARIANTS
    OneScanner
    NoUseAfterFree
    QuiescentDurable
    JoinFindsThread
