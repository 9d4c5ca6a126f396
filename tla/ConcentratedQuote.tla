-------------------------- MODULE ConcentratedQuote --------------------------
(***************************************************************************)
(* A quote over a pool with concentrated liquidity, of Raydium, Orca or    *)
(* one of Meteora's two programs, account by account and then tick by tick *)
(* or bin by bin.  The quoter gets the pool and what the pool points it to *)
(* from the cache, walks what it got, and when the amount is taken the     *)
(* accounts of the swap are listed from the cache again.  On chain one     *)
(* transaction writes several of these accounts; their updates are cached  *)
(* one by one.                                                             *)
(***************************************************************************)
EXTENDS PoolsOnChain

CONSTANTS
    Terms,          \* static data of pools: [dex, fee]
    States,         \* of each dex, states of a pool on chain
    AmountsIn,
    MaxMoves        \* bound on the transactions that write the pool

ASSUME TermsAssumption == \A t \in Terms : t.dex \in Dexes

\* Numbers and fees of DAMM v2 pools; the fee that decays by powers is one too.
ASSUME StretchAssumption ==
    /\ AmountsIn \subseteq Nat /\ MaxMoves \in Nat
    /\ \A s \in States["MeteoraDAMMV2"] :
         s.liquidity \in Nat /\ s.price \in Nat \ {0} /\ s.volatility \in Nat
    /\ \A t \in Terms : t.dex = "MeteoraDAMMV2" =>
         /\ t.fee.variable_fee_control \in Nat /\ t.fee.bin_step \in Nat
         /\ BaseFee(t.fee, CurrentPoint(t.fee.activation_type, Now, Slot)) \in Int
         /\ \A n \in 1..2 :
              /\ t.fee.transfer[n].denominator \in Nat \ {0}
              /\ t.fee.transfer[n].fee_bps \in 0..t.fee.transfer[n].denominator
              /\ t.fee.transfer[n].max_fee \in Nat

\* Where Raydium's pools are: the extension reaches to the last tick.
ASSUME RaydiumAssumption ==
    /\ MaxTick < max_tick_in_tickarray_bitmap(TickSpacing) * (Bitmaps + 1)
    /\ \A s \in States["RaydiumCLMM"] :
         s.tick \in MinTick..MaxTick /\ Initialized(s) \subseteq MinTick..MaxTick

\* Numbers of Raydium's pools: the price lies at the current tick.
ASSUME ClmmAssumption ==
    /\ \A s \in States["RaydiumCLMM"] :
         /\ s.price \in SqrtPrice[MinTick]..SqrtPrice[MaxTick] /\ SqrtPrice[s.tick] =< s.price
         /\ s.tick < MaxTick => s.price =< SqrtPrice[s.tick + 1]
         /\ LiquidityAt(s, s.tick) \in Nat
         /\ \A t \in Initialized(s) : Net(s, t) \in Int
    /\ \A t \in Terms : t.dex = "RaydiumCLMM" => t.fee.rate \in 0..(FeeDenominator - 1)

\* Where DLMM's pools are, and their numbers; an account that is there is not
\* missing.
ASSUME BinPoolAssumption ==
    /\ \A s \in States["MeteoraDLMM"] :
         /\ s.active \in (-MaxBin)..MaxBin /\ DOMAIN s.bins \subseteq (-MaxBin)..MaxBin
         /\ \A id \in DOMAIN s.bins : s.bins[id].x \in Nat /\ s.bins[id].y \in Nat
         /\ s.variables \in
                [last_update_timestamp : Int, index_reference : Int,
                 volatility_reference : Nat, volatility_accumulator : Nat]
         /\ ExtensionAccount("MeteoraDLMM", s) # Missing
    /\ \A t \in Terms : t.dex = "MeteoraDLMM" =>
         /\ get_base_fee(t.fee) \in Nat /\ t.fee.bin_step \in Nat
         /\ t.fee.variable_fee_control \in Nat /\ t.fee.reduction_factor \in Nat
         /\ t.fee.max_volatility_accumulator \in Nat
         /\ \A n \in 1..2 :
              /\ t.fee.transfer[n].denominator \in Nat \ {0}
              /\ t.fee.transfer[n].fee_bps \in 0..t.fee.transfer[n].denominator
              /\ t.fee.transfer[n].max_fee \in Nat

\* Numbers of Whirlpools: ticks are initialized at multiples of the spacing and
\* the price lies at the current tick; a tick group divides the spacing, the
\* reference of an adaptive fee is a group of ticks, and its volatility is at most
\* what the constants of the fee allow.
ASSUME WhirlpoolAssumption ==
    /\ TickSpacing \in Nat \ {0} /\ Now \in Nat
    /\ \A amount \in AmountsIn : Fits(amount)
    /\ \A s \in States["OrcaWhirl"] :
         /\ s.tick \in (MinTick - 1)..MaxTick
         /\ s.price \in SqrtPrice[MinTick]..SqrtPrice[MaxTick]
         /\ s.tick >= MinTick => SqrtPrice[s.tick] =< s.price
         /\ s.tick < MaxTick => s.price =< SqrtPrice[s.tick + 1]
         /\ LiquidityAt(s, s.tick) \in Nat
         /\ \A t \in Initialized(s) :
              t \in MinTick..MaxTick /\ t % TickSpacing = 0 /\ Net(s, t) \in Int
         /\ s.oracle.found =>
              s.oracle.variables \in
                  [last_reference_update_timestamp : Nat, last_major_swap_timestamp : Nat,
                   tick_group_index_reference : Int, volatility_reference : Nat,
                   volatility_accumulator : Nat]
    /\ \A t \in Terms : t.dex = "OrcaWhirl" =>
         /\ t.fee.rate \in 0..(FeeDenominator - 1) /\ t.fee.adaptive \in BOOLEAN
         /\ \A n \in 1..2 :
              /\ t.fee.transfer[n].denominator \in Nat \ {0}
              /\ t.fee.transfer[n].fee_bps \in 0..t.fee.transfer[n].denominator
              /\ t.fee.transfer[n].max_fee \in Nat
         /\ t.fee.adaptive =>
              /\ t.fee.tick_group_size \in Nat \ {0}
              /\ TickSpacing % t.fee.tick_group_size = 0
              /\ t.fee.reduction_factor \in 0..ReductionDenominator
              /\ t.fee.adaptive_fee_control_factor \in Nat
              /\ t.fee.max_volatility_accumulator \in Nat
              /\ \A s \in States["OrcaWhirl"] : s.oracle.found =>
                   LET v == s.oracle.variables
                       group == v.tick_group_index_reference
                   IN  /\ group * t.fee.tick_group_size =< MaxTick
                       /\ MinTick =< (group + 1) * t.fee.tick_group_size
                       /\ v.volatility_reference =< t.fee.max_volatility_accumulator
                       /\ v.volatility_accumulator =< t.fee.max_volatility_accumulator

VARIABLES
    terms,          \* static data of the pool
    down,           \* swap_direction
    amount_in,
    chain,          \* the pool on chain
    cache,          \* its accounts in the cache
    next,           \* what the quote does next
    held,           \* what it has read
    walk,           \* the walk over the ticks, or what the quote returned
    listed,         \* what the accounts of the swap were listed from
    past,           \* history: states of the pool on chain
    moves           \* history: transactions that wrote the pool

pvars == <<terms, down, amount_in>>
cvars == <<chain, past, moves>>
vars == <<terms, down, amount_in, chain, cache, next, held, walk, listed, past, moves>>

Unread == [pool |-> <<>>, extension |-> Missing, oracle |-> [found |-> FALSE],
           keys |-> <<>>, arrays |-> <<>>]
Idle == [is |-> "reading"]
Ended == {"amount", "none", "panic"}

Init ==
    /\ terms \in Terms
    /\ down \in BOOLEAN
    /\ amount_in \in AmountsIn
    /\ chain \in States[terms.dex]
    /\ cache = Accounts(terms.dex, chain)
    /\ next = "pool"
    /\ held = Unread
    /\ walk = Idle
    /\ listed = Unread
    /\ past = {chain}
    /\ moves = 0

\* The process has not been ended by a panic.
Alive == walk.is # "panic"

-----------------------------------------------------------------------------
(* Chain and processors *)

\* The quote reads the cache next.  What is written while it computes commutes
\* with that, so it is written before or after.
Reading == next \in {"pool", "extension", "arrays", "oracle", "list", "list arrays"}

Move ==
    /\ moves < MaxMoves
    /\ Reading
    /\ \E s \in States[terms.dex] :
         Follows(terms.dex, chain, s) /\ chain' = s /\ past' = past \cup {s}
    /\ moves' = moves + 1
    /\ UNCHANGED <<pvars, cache, next, held, walk, listed>>

\* update_cache of one account.  An account that was never needed is not there.
Update ==
    /\ LET fresh == Accounts(terms.dex, chain)
       IN  \/ cache' = [cache EXCEPT !.pool = fresh.pool]
           \/ /\ cache.extension # Missing \/ fresh.extension # Missing
              /\ cache' = [cache EXCEPT !.extension = ExtensionAccount(terms.dex, chain)]
           \/ cache' = [cache EXCEPT !.oracle = fresh.oracle]
           \/ \E i \in ArrayKeys(terms.dex) :
                /\ cache.arrays[i] # Missing \/ fresh.arrays[i] # Missing
                /\ cache' = [cache EXCEPT !.arrays[i] = ArrayAccount(terms.dex, chain, i)]
    /\ cache' # cache
    /\ Reading
    /\ UNCHANGED <<pvars, cvars, next, held, walk, listed>>

-----------------------------------------------------------------------------
(* The reads *)

\* Raydium: the arrays the bitmaps name, or why there are none.  Later
\* searches are unwrapped.
TickArrayKeys(h, further) ==
    LET End(searches) ==
            LET last == searches[Len(searches)]
            IN  IF Len(searches) = 1 /\ last.is = "error" THEN "none"
                ELSE IF last.is \in {"error", "panic"} THEN "panic" ELSE "reading"
        Loaded(searches) == [is |-> End(searches), keys |-> Starts(searches)]
    IN  Loaded(load_cur_and_next_specify_count_tick_array_key(
                   further, h.pool.tick_array_bitmap, h.extension,
                   h.pool.tick_current, TickSpacing, down))

\* The keys of the current array and of some further ones.
KeysOf(h, further) ==
    IF terms.dex = "RaydiumCLMM" THEN TickArrayKeys(h, further)
    ELSE [is |-> "reading",
          keys |-> get_bin_array_pubkeys_for_swap(further + 1, h.pool.bin_array_bitmap,
                        h.extension, h.pool.active_id, down)]

\* What the pool alone names: Orca's arrays, of DAMM v2 nothing.
KeysOfPool(pool) ==
    IF terms.dex = "OrcaWhirl"
    THEN get_tick_arrays_or_default(pool.tick_current_index, TickSpacing, down)
    ELSE <<>>

ReadPool ==
    /\ next = "pool"
    /\ held' = [held EXCEPT !.pool = cache.pool, !.keys = KeysOfPool(cache.pool)]
    /\ next' = IF HasBitmaps(terms.dex) THEN "extension"
               ELSE IF held'.keys # <<>> THEN "arrays" ELSE "begin"
    /\ UNCHANGED <<pvars, cvars, cache, walk, listed>>

ReadExtensionForFour ==
    /\ next = "extension"
    /\ LET read == [held EXCEPT !.extension = cache.extension]
       IN  \E found \in {KeysOf(read, 3)} :
             /\ held' = [read EXCEPT !.keys = found.keys]
             /\ walk' = [is |-> found.is]
             /\ next' = IF found.is # "reading" THEN "none"
                        ELSE IF found.keys # <<>> THEN "arrays" ELSE "begin"
    /\ UNCHANGED <<pvars, cvars, cache, listed>>

ReadExtension ==
    /\ next = "extension"
    /\ LET read == [held EXCEPT !.extension = cache.extension]
       IN  \E found \in {KeysOf(read, 2)} :
             /\ held' = [read EXCEPT !.keys = found.keys]
             /\ walk' = [is |-> found.is]
             /\ next' = IF found.is # "reading" THEN "none"
                        ELSE IF found.keys # <<>> THEN "arrays" ELSE "begin"
    /\ UNCHANGED <<pvars, cvars, cache, listed>>

\* One array; Orca's quoter takes one that is missing for an empty one.
ReadArray ==
    /\ next = "arrays"
    /\ LET i == held.keys[Len(held.arrays) + 1]
           found == IF i \in ArrayKeys(terms.dex) THEN cache.arrays[i] ELSE Missing
           array == IF found = Missing /\ terms.dex = "OrcaWhirl"
                    THEN uninitialized_tick_array(i) ELSE found
       IN  held' = [held EXCEPT !.arrays = Append(@, array)]
    /\ next' = IF Len(held'.arrays) < Len(held.keys) THEN "arrays"
               ELSE IF terms.dex = "OrcaWhirl" /\ terms.fee.adaptive THEN "oracle"
               ELSE "begin"
    /\ UNCHANGED <<pvars, cvars, cache, walk, listed>>

ReadOracle ==
    /\ next = "oracle"
    /\ held' = [held EXCEPT !.oracle = cache.oracle]
    /\ next' = "begin"
    /\ UNCHANGED <<pvars, cvars, cache, walk, listed>>

-----------------------------------------------------------------------------
(* The walk *)

AfterWalk(w) == IF w.is = "walking" THEN "walk" ELSE IF w.is = "amount" THEN "list" ELSE "none"

Begin ==
    /\ next = "begin"
    /\ walk' = IF terms.dex = "OrcaWhirl"
               THEN BeginWhirlpool(held.pool, held.oracle, held.arrays, amount_in,
                                   terms.fee, TickSpacing, Now, down)
               ELSE IF terms.dex = "MeteoraDAMMV2"
               THEN QuoteDamm(held.pool, amount_in, terms.fee, Now, Slot, down)
               ELSE IF Missing \in ToSet(held.arrays) THEN Nothing
               ELSE IF terms.dex = "MeteoraDLMM"
               THEN BeginBins(held.pool, held.arrays, amount_in, terms.fee, Now, Slot, down)
               ELSE BeginSwap(held.pool, held.extension, TickSpacing, held.arrays,
                              amount_in, down)
    /\ next' = AfterWalk(walk')
    /\ UNCHANGED <<pvars, cvars, cache, held, listed>>

Walk ==
    /\ next = "walk"
    /\ walk' = IF terms.dex = "OrcaWhirl" THEN WhirlpoolLoop(walk, terms.fee, TickSpacing, down)
               ELSE IF terms.dex = "MeteoraDLMM" THEN BinLoop(walk, terms.fee, down)
               ELSE SwapLoop(held.pool, held.extension, TickSpacing, walk, terms.fee.rate, down)
    /\ next' = AfterWalk(walk')
    /\ UNCHANGED <<pvars, cvars, cache, held, listed>>

\* convert_to_instruction_material: the pool, its extension and the keys of its
\* arrays are got once more.  Orca's converter takes the keys off the end.
ListPool ==
    /\ next = "list"
    /\ listed' = [listed EXCEPT !.pool = cache.pool, !.keys = Reverse(KeysOfPool(cache.pool))]
    /\ next' = IF HasBitmaps(terms.dex) THEN "list arrays" ELSE "done"
    /\ UNCHANGED <<pvars, cvars, cache, held, walk>>

ListArraysOfTwo ==
    /\ next = "list arrays"
    /\ LET read == [listed EXCEPT !.extension = cache.extension]
       IN  \E found \in {KeysOf(read, 1)} :
             /\ listed' = [read EXCEPT !.keys = found.keys]
             /\ walk' = IF found.is = "panic" THEN Aborted ELSE walk
             /\ next' = IF found.is = "reading" THEN "done" ELSE "none"
    /\ UNCHANGED <<pvars, cvars, cache, held>>

ListArrays ==
    /\ next = "list arrays"
    /\ LET read == [listed EXCEPT !.extension = cache.extension]
       IN  \E found \in {KeysOf(read, 2)} :
             /\ listed' = [read EXCEPT !.keys = found.keys]
             /\ walk' = IF found.is = "panic" THEN Aborted ELSE walk
             /\ next' = IF found.is = "reading" THEN "done" ELSE "none"
    /\ UNCHANGED <<pvars, cvars, cache, held>>

Next ==
    /\ Alive
    /\ \/ Move \/ Update
       \/ ReadPool \/ ReadExtension \/ ReadArray \/ ReadOracle
       \/ Begin \/ Walk
       \/ ListPool \/ ListArrays

Spec == Init /\ [][Next]_vars

-----------------------------------------------------------------------------
(* Properties *)

\* An extension that was read is that of state s; one with no bit set is as
\* good as none.
ExtensionOf(x, s) ==
    HasBitmaps(terms.dex) => x \in {Extension(terms.dex, s), ExtensionAccount(terms.dex, s)}

\* What the quote read is what the accounts were in state s.
ReadFrom(s) ==
    LET fresh == Accounts(terms.dex, s)
    IN  /\ held.pool = fresh.pool
        /\ ExtensionOf(held.extension, s)
        /\ \A n \in DOMAIN held.arrays :
             LET i == held.keys[n]
             IN  held.arrays[n] = IF i \in Arrays(terms.dex, s) THEN ArrayAccount(terms.dex, s, i)
                                  ELSE IF terms.dex = "OrcaWhirl" THEN uninitialized_tick_array(i)
                                  ELSE Missing
        /\ held.oracle.found => held.oracle = s.oracle

Untorn == \E s \in past : ReadFrom(s)

TypeOK ==
    /\ terms \in Terms /\ down \in BOOLEAN /\ amount_in \in AmountsIn
    /\ chain \in past /\ past \subseteq States[terms.dex]
    /\ next \in {"pool", "extension", "arrays", "oracle", "begin", "walk", "list",
                 "list arrays", "none", "done"}
    /\ Len(held.arrays) =< Len(held.keys) /\ Len(held.keys) =< 3
    /\ walk.is \in {"reading", "walking"} \cup Ended
    /\ walk.is = "walking" => walk.remaining \in 0..amount_in /\ Fits(walk.calculated)
    /\ walk.is = "walking" /\ HasTicks(terms.dex) =>
         /\ walk.tick \in (MinTick - 1)..MaxTick
         /\ walk.price \in SqrtPrice[MinTick]..SqrtPrice[MaxTick]
    /\ walk.is = "walking" /\ ~HasTicks(terms.dex) => walk.active_id \in (-MaxBin)..MaxBin
    /\ moves \in 0..MaxMoves

\* A quote that is not torn is what a swap of the pool itself gives: no array,
\* tick or bin is missed or taken twice, and there is no amount only when what
\* a swap may use of the pool does not take all that goes in.  It says nothing of
\* Whirlpools whose fee is adaptive; ChargedByGroup does.
QuoteIsTheSwap ==
    LET Is(amounts) == IF amounts = {} THEN walk.is = "none"
                       ELSE walk.is = "amount" /\ walk.amount_out \in amounts
    IN  \A s \in past :
            /\ walk.is \in {"amount", "none"}
            /\ ReadFrom(s)
            /\ terms.dex = "OrcaWhirl" => ~terms.fee.adaptive
            => Is(Takes(terms, s, amount_in, down))

\* The process is ended by a panic of the quoter only over a torn read, or over
\* a DAMM v2 pool that was emptied.
PanicsOnlyIfTornOrEmpty ==
    walk.is = "panic" =>
        \/ ~Untorn
        \/ terms.dex = "MeteoraDAMMV2" /\ held.pool.liquidity = 0

\* Of a pool whose fee is adaptive, every stretch of prices is charged at the
\* rate of the tick group it lies in, groups that are skipped too.
GroupRate(g) ==
    get_total_fee_rate(update_volatility_accumulator(walk.variables, g, terms.fee), terms.fee)

ChargedByGroup ==
    walk.is = "walking" /\ terms.dex = "OrcaWhirl" /\ terms.fee.adaptive =>
        LET low == Min({walk.price, walk.charged.from})
            high == Max({walk.price, walk.charged.from})
        IN  \A t \in MinTick..(MaxTick - 1) :
                /\ walk.charged.liquidity > 0
                /\ Max({low, SqrtPrice[t]}) < Min({high, SqrtPrice[t + 1]})
                => walk.charged.rate = GroupRate(GroupOf(t, terms.fee))

\* The arrays listed for the swap are those a swap of the pool they were listed
\* from may use, each once: nearest first, or farthest first for Orca
\* (convert_to_instruction_material).  The pool may have been written since the
\* quote; if not, they are the arrays of the quoted route.
ArraysAreListed ==
    LET descending == IF terms.dex = "OrcaWhirl" THEN ~down ELSE down
        keys == listed.keys
    IN  next = "done" =>
            \A s \in past :
                /\ listed.pool = PoolAccount(terms.dex, s)
                /\ ExtensionOf(listed.extension, s)
                /\ terms.dex # "MeteoraDAMMV2"
                => /\ ToSet(keys) = Usable(terms.dex, s, down)
                   /\ \A m, n \in DOMAIN keys :
                        m < n => IF descending THEN keys[m] > keys[n] ELSE keys[m] < keys[n]
                   /\ ReadFrom(s) => ToSet(held.keys) = ToSet(keys)

=============================================================================
