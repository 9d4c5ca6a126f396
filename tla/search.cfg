SPECIFICATION Spec
CONSTANTS
    A = A
    B = B
    C = C
    D = D
    S = S
    T = T
    U = U
    Pools = {A, B, C, D}
    MintsOf <- MCMintsOf
    ArbMint = S
    DataOf <- MCDataOf
    Quote <- MCQuote
    NoQuote = NoQuote
    NoRoute = NoRoute
    Pending = Pending
    Unknown = Unknown
    AmountIn = 10
    MinProfit = 2
    Wallets = {14, 15}
    Numerator = 70
    Denominator = 100
    MaxWrites = 1
INVARIANTS TypeOK ProfitFloor ProfitsWereReal
PROPERTIES ImplementsBestRoute
