SPECIFICATION Spec
CONSTANTS
    U64 = 16
    FeeRateDenominator = 8
    BasisPoints = 8
    TransferFee <- MCTransferFee
    Terms <- MCTerms
    NoQuote = NoQuote
    Abort = Abort
    Pools = {p1, p2}
    Levels <- MCLevels
    AmountsIn <- MCAmountsIn
    Pending = Pending
    MaxMoves = 1
SYMMETRY PoolSymmetry
INVARIANTS
    TypeOK
    ProductIsKept
    PanicsOnlyIfTornOrEmpty
    NoPhantomArbitrage
CHECK_DEADLOCK FALSE
