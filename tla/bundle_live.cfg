SPECIFICATION Spec
CONSTANTS
    U1 = U1
    U2 = U2
    U3 = U3
    Arbs = {r1}
    Atas = {arb}
    ArbAta = arb
    Tips = {1}
    UrlGroups <- MCUrlGroups
    AmountIn = 3
    Numerator = 1
    Denominator = 2
    Fee = 1
    Rent = 2
    FirstTokens = {4}
    FirstNative = 6
    MaxExtra = 0
    MaxAge = 0
    MaxHeight = 2
    MaxSent = 3
    MaxFailures = 2
INVARIANTS AcceptedIsReported
PROPERTIES ArbReturns WalletRecovers HashCatchesUp
