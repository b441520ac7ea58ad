SPECIFICATION Spec
CONSTANTS
    Thread = {"t1", "t2"}
    Fd = {3, 4}
INVARIANTS
    LostOnlyWhileDown
    OwnDescriptor
    TypeKept
