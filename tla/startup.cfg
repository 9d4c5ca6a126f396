SPECIFICATION Spec
CONSTANTS
    P1 = P1
    P2 = P2
    Pools = {P1, P2}
    ConfigOf <- MCConfigOf
    GlobalConfig = GlobalConfig
INVARIANTS TypeOK KeptPoolsHaveData CellsBeforeUse
PROPERTIES PrunedForACause StartupEnds
CHECK_DEADLOCK FALSE
