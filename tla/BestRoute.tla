------------------------------ MODULE BestRoute ------------------------------
(***************************************************************************)
(* What a search promises to an Arb, without quoting step by step.  While  *)
(* a search runs, processors write the cache; the answer is the best route *)
(* for some choice, path by path, of data its two pools had during the     *)
(* search, and "no route" only if each path was unprofitable for some such *)
(* choice.  A search the cache leaves alone is therefore exact.            *)
(***************************************************************************)
EXTENDS Routes

CONSTANTS
    Wallets,        \* amounts the wallet map may hold for the mint of the bot
    Unknown,        \* no entry for it
    Numerator, Denominator   \* the share of the wallet one trade may use

VARIABLES
    cache,          \* per pool, the data in the cache
    wallet,         \* what the wallet map holds for the mint of the bot
    busy,           \* a search is running
    pool,           \* pool of the transaction that triggered the last search
    window,         \* per pool, the data it had since the search began
    answer          \* of the last search

vars == <<cache, wallet, busy, pool, window, answer>>

Affordable ==
    /\ wallet # Unknown
    /\ (wallet * Numerator) \div Denominator >= AmountIn

Init ==
    /\ cache \in [Pools -> Data]
    /\ \A p \in Pools : cache[p] \in DataOf[p]
    /\ wallet \in Wallets \cup {Unknown}
    /\ busy = FALSE
    /\ pool \in Pools
    /\ window = [p \in Pools |-> {}]
    /\ answer = NoRoute

Write(p, d) ==
    /\ cache' = [cache EXCEPT ![p] = d]
    /\ window' = [window EXCEPT ![p] = IF busy THEN @ \cup {d} ELSE @]
    /\ UNCHANGED <<wallet, busy, pool, answer>>

WalletChange ==
    /\ wallet' \in Wallets \cup {Unknown}
    /\ UNCHANGED <<cache, busy, pool, window, answer>>

Begin(p) ==
    /\ ~busy
    /\ Affordable
    /\ Candidates(p) # {}
    /\ busy' = TRUE
    /\ pool' = p
    /\ window' = [q \in Pools |-> {cache[q]}]
    /\ UNCHANGED <<cache, wallet, answer>>

Decline(p) ==
    /\ ~busy
    /\ ~Affordable \/ Candidates(p) = {}
    /\ pool' = p
    /\ answer' = NoRoute
    /\ UNCHANGED <<cache, wallet, busy, window>>

\* The profits path h had for the data of the window.
Outcomes(h) ==
    {Gain(h, d, e) : d \in window[h.first.pool], e \in window[h.second.pool]}

\* Path h never beat profit g for sure.
NoBetter(h, g) == \E o \in Outcomes(h) : o # NoRoute => o <= g

Answer ==
    /\ busy
    /\ busy' = FALSE
    /\ \/ /\ answer' = NoRoute
          /\ \A h \in Candidates(pool) : NoRoute \in Outcomes(h)
       \/ \E h \in Candidates(pool) : \E g \in Outcomes(h) \ {NoRoute} :
            /\ answer' = [path |-> h, profit |-> g]
            /\ \A k \in Candidates(pool) : NoBetter(k, g)
    /\ UNCHANGED <<cache, wallet, pool, window>>

Next ==
    \/ \E p \in Pools : \E d \in DataOf[p] : Write(p, d)
    \/ WalletChange
    \/ \E p \in Pools : Begin(p) \/ Decline(p)
    \/ Answer

Spec == Init /\ [][Next]_vars /\ WF_vars(Answer)
=============================================================================
