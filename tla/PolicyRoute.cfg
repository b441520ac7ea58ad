SPECIFICATION Spec
CONSTANTS
    c1 = c1
    Client = {c1}
    CfgRoute = "LOCAL_FIRST"
    CfgDevice = "MYRIAD"
    Device = {"CPU", "MYRIAD"}
    MaxTerm = 1
VIEW LiveMem
INVARIANT
    RoutedAsSet
