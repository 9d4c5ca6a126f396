SPECIFICATION Spec
CONSTANTS
    ArraySize = 2
    BitmapSize = 2
    Bitmaps = 2
    MaxTick = 18
    Q64 = 64
    U64 = 48
    FeeDenominator = 16
    SqrtPrice <- MCSqrtPrice
    LoopLimit = 2
    ScaleFactor = 2
    ReductionDenominator = 2
    ControlDenominator = 8
    MaxReferenceAge = 20
    FeeRateHardLimit = 12
    TickSpacing = 2
    Terms <- MCTerms
    States <- MCStates
    AmountsIn <- MCAmountsIn
    Now = 10
    Slot = 7
    Missing = Missing
    ExponentBits = 4
    BasisPointMax = 8
    FeePrecision = 160
    VariableFeeScale = 8
    BinsPerArray = 2
    MaxBin = 9
    MaxFeeRate = 40
    MaxMoves = 1
INVARIANTS
    TypeOK
    QuoteIsTheSwap
    PanicsOnlyIfTornOrEmpty
    ChargedByGroup
    ArraysAreListed
CHECK_DEADLOCK FALSE
