SPECIFICATION Spec
CONSTANTS
    P1 = P1
    P2 = P2
    Pools = {P1, P2}
    ConfigOf <- MCConfigOf
    GlobalConfig = GlobalConfig
INVARIANT OnlyValidPoolsKept
CHECK_DEADLOCK FALSE
