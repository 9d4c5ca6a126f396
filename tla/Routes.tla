-------------------------------- MODULE Routes --------------------------------
(***************************************************************************)
(* Edges, two-hop paths and their profit, as the search of the bot sees    *)
(* them.  How a DEX prices a swap is the constant operator Quote: the     *)
(* amount out of a swap of `x' in the given direction over the cached data *)
(* `d' of a pool, or NoQuote.                                              *)
(***************************************************************************)
EXTENDS Integers, FiniteSets

CONSTANTS
    Pools,          \* pools of the loaded dex json, POOL_INDEX
    MintsOf,        \* per pool, <<mint_a, mint_b>>
    ArbMint,        \* --arb-mint
    DataOf,         \* per pool, what the cache may hold of it
    Quote(_, _, _), \* Quoter::quote of the pool's DEX
    NoQuote,        \* None of a quote
    NoRoute,        \* None of a search or of a candidate
    AmountIn,       \* --arb-amount-in
    MinProfit       \* --arb-min-profit

ASSUME RoutesAssumption ==
    /\ AmountIn \in Nat
    /\ MinProfit \in Nat
    /\ NoQuote \notin Nat
    /\ NoRoute \notin Nat
    /\ \A p \in Pools : MintsOf[p][1] # MintsOf[p][2]

Data == UNION {DataOf[p] : p \in Pools}

\* Amounts are natural numbers, on the first hop and on the second.
ASSUME QuoteAssumption ==
    \A d \in Data, forward \in BOOLEAN :
        LET x == Quote(d, forward, AmountIn)
        IN  /\ x \in Nat \cup {NoQuote}
            /\ x \in Nat =>
                \A e \in Data, back \in BOOLEAN : Quote(e, back, x) \in Nat \cup {NoQuote}

\* Each pool can be crossed in both directions.
Edges == [pool : Pools, swap_direction : BOOLEAN]

MintIn(e) == MintsOf[e.pool][IF e.swap_direction THEN 1 ELSE 2]

MintOut(e) == MintsOf[e.pool][IF e.swap_direction THEN 2 ELSE 1]

\* Path::new: two different pools, and the second hop undoes the first.
IsPath(first, second) ==
    /\ first.pool # second.pool
    /\ MintIn(first) = MintOut(second)
    /\ MintOut(first) = MintIn(second)

Paths == {h \in [first : Edges, second : Edges] : IsPath(h.first, h.second)}

\* The entry of the graph for a pool: the paths that cross it.
Graph(pool) == {h \in Paths : pool \in {h.first.pool, h.second.pool}}

\* Only paths that start from the mint the bot trades with are quoted.
Candidates(pool) == {h \in Graph(pool) : MintIn(h.first) = ArbMint}

Positive(pool) == {h \in Candidates(pool) : h.first.pool = pool}

Reverse(pool) == Candidates(pool) \ Positive(pool)

\* Mutant of CalculateProfit: the minimum profit is not asked for.
AnyProfit(out) == IF out \in Nat /\ out >= AmountIn THEN out - AmountIn ELSE NoRoute

\* calculate_profit, None when the last hop has no quote.
CalculateProfit(out) ==
    IF out \in Nat /\ out >= AmountIn + MinProfit THEN out - AmountIn ELSE NoRoute

\* The profit of path h over data d of its first and e of its second pool.
Gain(h, d, e) ==
    LET x == Quote(d, h.first.swap_direction, AmountIn)
    IN  CalculateProfit(IF x = NoQuote THEN NoQuote ELSE Quote(e, h.second.swap_direction, x))
=============================================================================
