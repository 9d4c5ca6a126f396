-------------------------------- MODULE TwoHop --------------------------------
(***************************************************************************)
(* The two-hop search of an Arb (trigger_quote, find_best_hop_path and     *)
(* normal_quote), one action per quote it takes from the cache, while the  *)
(* processors go on writing the cache and the wallet map is refreshed.     *)
(* Paths through the pool of the trigger share one quote of their first    *)
(* hop; the others are quoted hop by hop; rayon runs the candidates of     *)
(* each group in any order.                                                *)
(***************************************************************************)
EXTENDS Routes

CONSTANTS
    Wallets,        \* amounts the wallet map may hold for the mint of the bot
    Unknown,        \* no entry for it
    Numerator,      \* --arb-mint-bps-numerator
    Denominator,    \* --arb-mint-bps-denominator
    Pending,        \* a quote that has not been taken
    MaxWrites       \* bound on the cache writes during one search

ASSUME SearchAssumption ==
    /\ Wallets \subseteq Nat
    /\ Unknown \notin Nat
    /\ Numerator \in Nat
    /\ Denominator \in Nat \ {0}
    /\ Pending \notin Nat \cup {NoQuote, NoRoute}
    /\ MaxWrites \in Nat

VARIABLES
    cache,          \* per pool, the data in the cache
    wallet,         \* what the wallet map holds for the mint of the bot
    phase,          \* of the search
    pool,           \* pool of the transaction that triggered the search
    out,            \* per path, the amount out of its first hop
    profit,         \* per path, the profit found
    answer,         \* of the last search
    window,         \* history: per pool, the data it had since the search began
    writes          \* history: cache writes during the search

qvars == <<out, profit>>
vars == <<cache, wallet, phase, pool, out, profit, answer, window, writes>>

Init ==
    /\ cache \in {c \in [Pools -> Data] : \A p \in Pools : c[p] \in DataOf[p]}
    /\ wallet \in Wallets \cup {Unknown}
    /\ phase = "idle"
    /\ pool \in Pools
    /\ out = [h \in Paths |-> Pending]
    /\ profit = [h \in Paths |-> Pending]
    /\ answer = NoRoute
    /\ window = [p \in Pools |-> {}]
    /\ writes = 0

-----------------------------------------------------------------------------
(* Other tasks *)

\* A processor replaces the data of a pool.  Every cache is an initial one, so
\* writes between two searches add nothing a search could notice.
CacheWrite(p, d) ==
    /\ phase # "idle"
    /\ writes < MaxWrites
    /\ d # cache[p]
    /\ cache' = [cache EXCEPT ![p] = d]
    /\ window' = [window EXCEPT ![p] = @ \cup {d}]
    /\ writes' = writes + 1
    /\ UNCHANGED <<wallet, phase, pool, qvars, answer>>

\* wallet_ata_refresher replaces the map.  A search reads it once, before it
\* begins, so a later change is the same as one after the search.
WalletChange(w) ==
    /\ phase = "idle"
    /\ wallet' = w
    /\ UNCHANGED <<cache, phase, pool, qvars, answer, window, writes>>

-----------------------------------------------------------------------------
(* The search *)

Affordable ==
    /\ wallet # Unknown
    /\ (wallet * Numerator) \div Denominator >= AmountIn

StartSearch(p) ==
    /\ phase = "idle"
    /\ Affordable
    /\ Candidates(p) # {}
    /\ pool' = p
    /\ phase' = IF Positive(p) # {} THEN "shared" ELSE "reverse"
    /\ out' = [h \in Paths |-> Pending]
    /\ profit' = [h \in Paths |-> Pending]
    /\ window' = [q \in Pools |-> {cache[q]}]
    /\ writes' = 0
    /\ UNCHANGED <<cache, wallet, answer>>

\* No entry in the wallet map, too small a wallet, or no path to quote.
DeclineSearch(p) ==
    /\ phase = "idle"
    /\ ~Affordable \/ Candidates(p) = {}
    /\ pool' = p
    /\ answer' = NoRoute
    /\ UNCHANGED <<cache, wallet, phase, qvars, window, writes>>

\* Mutant of FirstHop: the second hop of the path is quoted in its place.
SecondForFirst(h) == Quote(cache[h.second.pool], h.second.swap_direction, AmountIn)

FirstHop(h) == Quote(cache[h.first.pool], h.first.swap_direction, AmountIn)

SecondHop(h) == CalculateProfit(Quote(cache[h.second.pool], h.second.swap_direction, out[h]))

\* Mutant of QuoteShared: the positive paths are pursued without a quote.
QuoteSharedBlind ==
    /\ phase = "shared"
    /\ \E h \in Positive(pool) :
         out' = [k \in Paths |-> IF k \in Positive(pool) THEN FirstHop(h) ELSE out[k]]
    /\ phase' = "positive"
    /\ UNCHANGED <<cache, wallet, pool, profit, answer, window, writes>>

\* The first hop of the first positive path is quoted once for all of them;
\* without a quote none of them is pursued.
QuoteShared ==
    /\ phase = "shared"
    /\ \E h \in Positive(pool) :
         LET x == FirstHop(h)
         IN  /\ out' = [k \in Paths |-> IF k \in Positive(pool) THEN x ELSE out[k]]
             /\ profit' = [k \in Paths |->
                             IF k \in Positive(pool) /\ x = NoQuote THEN NoRoute ELSE profit[k]]
             /\ phase' = IF x = NoQuote THEN "reverse" ELSE "positive"
    /\ UNCHANGED <<cache, wallet, pool, answer, window, writes>>

QuotePositive(h) ==
    /\ phase = "positive"
    /\ h \in Positive(pool)
    /\ profit[h] = Pending
    /\ profit' = [profit EXCEPT ![h] = SecondHop(h)]
    /\ UNCHANGED <<cache, wallet, phase, pool, out, answer, window, writes>>

\* The reverse candidates are only quoted when all positive ones are.
PositiveDone ==
    /\ phase = "positive"
    /\ \A h \in Positive(pool) : profit[h] # Pending
    /\ phase' = "reverse"
    /\ UNCHANGED <<cache, wallet, pool, qvars, answer, window, writes>>

QuoteReverseFirst(h) ==
    /\ phase = "reverse"
    /\ h \in Reverse(pool)
    /\ out[h] = Pending
    /\ out' = [out EXCEPT ![h] = FirstHop(h)]
    /\ profit' = [profit EXCEPT ![h] = IF FirstHop(h) = NoQuote THEN NoRoute ELSE @]
    /\ UNCHANGED <<cache, wallet, phase, pool, answer, window, writes>>

QuoteReverseSecond(h) ==
    /\ phase = "reverse"
    /\ h \in Reverse(pool)
    /\ out[h] \notin {Pending, NoQuote}
    /\ profit[h] = Pending
    /\ profit' = [profit EXCEPT ![h] = SecondHop(h)]
    /\ UNCHANGED <<cache, wallet, phase, pool, out, answer, window, writes>>

\* The candidates of a group that max_by_key may return.
Best(group) ==
    {h \in group : profit[h] # NoRoute
                     /\ \A k \in group : profit[k] # NoRoute => profit[k] <= profit[h]}

\* Mutant of Choices: a positive path is preferred whatever its profit.
PreferPositive == IF Best(Positive(pool)) # {} THEN Best(Positive(pool)) ELSE Best(Reverse(pool))

\* A positive path wins unless a reverse one is strictly more profitable.
Choices ==
    LET positive == Best(Positive(pool))
        reverse == Best(Reverse(pool))
    IN  IF positive # {} /\ \A h \in positive, k \in reverse : profit[h] >= profit[k]
          THEN positive ELSE reverse

Finish ==
    /\ phase = "reverse"
    /\ \A h \in Reverse(pool) : profit[h] # Pending
    /\ \/ /\ Choices = {}
          /\ answer' = NoRoute
       \/ \E h \in Choices : answer' = [path |-> h, profit |-> profit[h]]
    /\ phase' = "idle"
    /\ UNCHANGED <<cache, wallet, pool, qvars, window, writes>>

SearchStep ==
    \/ QuoteShared
    \/ PositiveDone
    \/ \E h \in Paths : QuotePositive(h) \/ QuoteReverseFirst(h) \/ QuoteReverseSecond(h)
    \/ Finish

Next ==
    \/ \E p \in Pools : \E d \in DataOf[p] : CacheWrite(p, d)
    \/ \E w \in Wallets \cup {Unknown} : WalletChange(w)
    \/ \E p \in Pools : StartSearch(p) \/ DeclineSearch(p)
    \/ SearchStep

\* The search is a synchronous computation on an Arb's own thread and the
\* rayon pool: nothing it waits for can fail to come.
Spec == Init /\ [][Next]_vars /\ WF_vars(SearchStep)

-----------------------------------------------------------------------------
(* Properties *)

Phases == {"idle", "shared", "positive", "reverse"}

\* Types of the variables; the paths of the pool that triggered the search are
\* priced from one common quote.
TypeOK ==
    /\ cache \in [Pools -> Data]
    /\ wallet \in Wallets \cup {Unknown}
    /\ phase \in Phases
    /\ pool \in Pools
    /\ out \in [Paths -> Nat \cup {Pending, NoQuote}]
    /\ profit \in [Paths -> Nat \cup {Pending, NoRoute}]
    /\ answer \in {NoRoute} \cup [path : Paths, profit : Nat]
    /\ window \in [Pools -> SUBSET Data]
    /\ writes \in 0..MaxWrites
    /\ phase = "positive" => \A h, k \in Positive(pool) : out[h] = out[k] /\ out[h] \in Nat

\* Whatever the cache does meanwhile, a route is only returned if it starts and
\* ends in the mint of the bot over two different pools, crosses the pool that
\* triggered it, and earned at least the minimum profit.
ProfitFloor ==
    (phase = "idle" /\ answer # NoRoute) =>
        /\ answer.path \in Candidates(pool)
        /\ MintOut(answer.path.second) = ArbMint
        /\ answer.path.first.pool # answer.path.second.pool
        /\ answer.profit >= MinProfit

\* Each profit a search found is the profit of its path for data both pools
\* had since the search began.
ProfitsWereReal ==
    phase # "idle" =>
        \A h \in Candidates(pool) :
            profit[h] # Pending =>
                \E d \in window[h.first.pool], e \in window[h.second.pool] :
                    profit[h] = Gain(h, d, e)

Route == INSTANCE BestRoute WITH busy <- (phase # "idle")

\* The search implements BestRoute: the route it returns is a best one, and it
\* returns none only if there was none, up to writes made during the search.
ImplementsBestRoute == Route!Spec
=============================================================================
