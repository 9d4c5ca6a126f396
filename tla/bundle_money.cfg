SPECIFICATION Spec
CONSTANTS
    U1 = U1
    U2 = U2
    U3 = U3
    Arbs = {r1, r2}
    Atas = {arb, other}
    ArbAta = arb
    Tips = {1, 2}
    UrlGroups <- MCOneUrl
    AmountIn = 3
    Numerator = 3
    Denominator = 4
    Fee = 1
    Rent = 2
    FirstTokens = {1, 2, 4}
    FirstNative = 6
    MaxExtra = 1
    MaxAge = 0
    MaxHeight = 0
    MaxSent = 2
    MaxFailures = 1
INVARIANTS TypeOK AtasReady ShareStillCovers
PROPERTIES WealthNeverFalls
SYMMETRY Symmetry
