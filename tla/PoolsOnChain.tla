---------------------------- MODULE PoolsOnChain ----------------------------
(***************************************************************************)
(* Pools with concentrated liquidity as they are on chain, and what a swap *)
(* of them is: Raydium's and Orca's are positions between ticks, Meteora's *)
(* DLMM is bins that each hold both tokens at one price, DAMM v2 is one    *)
(* stretch of liquidity.  Of each, the accounts that say so: pool, tick or *)
(* bin arrays, bitmaps, and the variables of an adaptive fee.  A swap is   *)
(* defined on the state itself, without arrays or bitmaps.                 *)
(*                                                                         *)
(* A pool is its static data, terms = [dex, fee], and its state s.         *)
(***************************************************************************)
EXTENDS WhirlpoolSwap, BinSwap, DammSwap, SequencesExt

CONSTANTS
    TickSpacing,
    Now,            \* the clock: unix_timestamp
    Slot            \* and slot

Dexes == {"RaydiumCLMM", "OrcaWhirl", "MeteoraDLMM", "MeteoraDAMMV2"}
HasTicks(dex) == dex \in {"RaydiumCLMM", "OrcaWhirl"}
HasBitmaps(dex) == dex \in {"RaydiumCLMM", "MeteoraDLMM"}

-----------------------------------------------------------------------------
(* Ticks: s = [positions, price, tick, oracle] *)

Initialized(s) == {q.lower : q \in s.positions} \cup {q.upper : q \in s.positions}

LiquidityOf(positions) == MapThenSumSet(LAMBDA q : q.liquidity, positions)

\* Liquidity in range at tick t, and what is added when t is crossed upwards.
LiquidityAt(s, t) == LiquidityOf({q \in s.positions : q.lower =< t /\ t < q.upper})
Net(s, t) ==
    LiquidityOf({q \in s.positions : q.lower = t}) - LiquidityOf({q \in s.positions : q.upper = t})

TickStarts == {i \in (MinTick - tick_count(TickSpacing))..MaxTick :
                  /\ i % tick_count(TickSpacing) = 0
                  /\ i >= get_array_start_index(MinTick, TickSpacing)}
StartOf(t) == get_array_start_index(t, TickSpacing)

TickArray(s, i) ==
    [start |-> i, ticks |-> [t \in {u \in Initialized(s) : StartOf(u) = i} |-> Net(s, t)]]

PoolState(s, bitmap) ==
    [tick_current |-> s.tick, sqrt_price_x64 |-> s.price, liquidity |-> LiquidityAt(s, s.tick),
     tick_array_bitmap |-> bitmap]

Whirlpool(s) ==
    [tick_current_index |-> s.tick, sqrt_price |-> s.price, liquidity |-> LiquidityAt(s, s.tick)]

-----------------------------------------------------------------------------
(* Bins: s = [active, bins, variables]; a bin below the active one holds y, *)
(* one above it x.                                                          *)

ArrayIndices == bin_id_to_bin_array_index(-MaxBin)..bin_id_to_bin_array_index(MaxBin)

BinArray(s, i) ==
    [index |-> i, bins |-> [id \in BinsOf(i) |->
        IF id \in DOMAIN s.bins THEN s.bins[id] ELSE [x |-> 0, y |-> 0]]]

LbPair(s, bitmap) ==
    [active_id |-> s.active, v_parameters |-> s.variables, bin_array_bitmap |-> bitmap]

-----------------------------------------------------------------------------
(* One stretch: s = [liquidity, price, updated, volatility] *)

Pool(s) ==
    [liquidity |-> s.liquidity, sqrt_price |-> s.price, last_update_timestamp |-> s.updated,
     volatility_accumulator |-> s.volatility]

-----------------------------------------------------------------------------
(* Accounts *)

\* Keys of arrays, those of a pool that hold anything, and where they are in
\* the order of all.
ArrayKeys(dex) ==
    IF HasTicks(dex) THEN TickStarts ELSE IF dex = "MeteoraDLMM" THEN ArrayIndices ELSE {}

Arrays(dex, s) ==
    IF HasTicks(dex) THEN {StartOf(t) : t \in Initialized(s)}
    ELSE IF dex = "MeteoraDLMM" THEN {bin_id_to_bin_array_index(id) : id \in DOMAIN s.bins}
    ELSE {}

Ordinal(dex, key) == IF HasTicks(dex) THEN key \div tick_count(TickSpacing) ELSE key

ArrayAccount(dex, s, key) == IF HasTicks(dex) THEN TickArray(s, key) ELSE BinArray(s, key)

\* Bits of the arrays of ordinal n and on, in a bitmap of some width.
BitsFrom(dex, s, n, width) ==
    {Ordinal(dex, key) - n :
        key \in {k \in Arrays(dex, s) : Ordinal(dex, k) \in n..(n + width - 1)}}

PoolAccount(dex, s) ==
    LET bitmap == BitsFrom(dex, s, -BitmapSize, 2 * BitmapSize)
    IN  IF dex = "RaydiumCLMM" THEN PoolState(s, bitmap)
        ELSE IF dex = "OrcaWhirl" THEN Whirlpool(s)
        ELSE IF dex = "MeteoraDLMM" THEN LbPair(s, bitmap)
        ELSE Pool(s)

\* DLMM counts the bits of the negative side outwards.
ExtensionAccount(dex, s) ==
    LET upwards == [k \in 0..(Bitmaps - 1) |->
                        BitsFrom(dex, s, (k + 1) * BitmapSize, BitmapSize)]
        below == [k \in 0..(Bitmaps - 1) |->
                        BitsFrom(dex, s, -(k + 2) * BitmapSize, BitmapSize)]
        outwards == [k \in 0..(Bitmaps - 1) |-> {BitmapSize - 1 - b : b \in below[k]}]
    IN  [positive |-> upwards, negative |-> IF dex = "RaydiumCLMM" THEN below ELSE outwards]

\* A DLMM pool has an extension once an array or its active bin needs one.
Extension(dex, s) ==
    IF \/ dex = "RaydiumCLMM"
       \/ dex = "MeteoraDLMM" /\ \E i \in Arrays(dex, s) \cup {bin_id_to_bin_array_index(s.active)} :
            is_overflow_default_bin_array_bitmap(i)
    THEN ExtensionAccount(dex, s) ELSE Missing

Oracle(s) == s.oracle

\* All accounts of a state, as the cache holds them once they are in it.
Accounts(dex, s) ==
    [pool |-> PoolAccount(dex, s), extension |-> Extension(dex, s),
     oracle |-> IF dex = "OrcaWhirl" THEN Oracle(s) ELSE Missing,
     arrays |-> [key \in ArrayKeys(dex) |->
                    IF key \in Arrays(dex, s) THEN ArrayAccount(dex, s, key) ELSE Missing]]

\* One transaction: a swap, or a position that is opened or closed.
Follows(dex, s, r) ==
    /\ s # r
    /\ CASE HasTicks(dex) ->
              \/ s.positions = r.positions
              \/ /\ Cardinality(SymDiff(s.positions, r.positions)) = 1
                 /\ s.price = r.price /\ s.tick = r.tick
         [] dex = "MeteoraDLMM" -> DOMAIN s.bins = DOMAIN r.bins \/ s.active = r.active
         [] dex = "MeteoraDAMMV2" -> TRUE

-----------------------------------------------------------------------------
(* The swap of a pool with ticks, rung by rung *)

Current(dex, s) == IF HasTicks(dex) THEN StartOf(s.tick) ELSE bin_id_to_bin_array_index(s.active)

\* Arrays a swap may use: the nearest three that hold anything, or of Orca's the
\* current one and the next two.
Usable(dex, s, down) ==
    LET ahead == {i \in Arrays(dex, s) :
                    IF down THEN i =< Current(dex, s) ELSE i >= Current(dex, s)}
        Before(i) == {j \in ahead : IF down THEN j > i ELSE j < i}
    IN  IF dex = "OrcaWhirl"
        THEN {Current(dex, s) + (n * tick_count(TickSpacing)) : n \in IF down THEN -2..0 ELSE 0..2}
        ELSE {i \in ahead : Cardinality(Before(i)) < 3}

\* Ticks where the liquidity may change ahead of the price, and the end of
\* Orca's arrays, nearest first.
Rungs(dex, s, down) ==
    LET usable == Usable(dex, s, down)
        last == IF down THEN Min(usable) ELSE Max(usable) + tick_count(TickSpacing) - 1
        ends == IF dex = "OrcaWhirl" THEN {Clamped(last)} ELSE {}
        ahead == {t \in ends \cup {u \in Initialized(s) : StartOf(u) \in usable} :
                    IF down THEN t =< s.tick ELSE t > s.tick}
        rungs == SetToSortSeq(ahead, LAMBDA a, b : IF down THEN a > b ELSE a < b)
    IN  IF dex = "RaydiumCLMM" /\ Len(rungs) > LoopLimit + 1
        THEN SubSeq(rungs, 1, LoopLimit + 1) ELSE rungs

Limit(dex, down) == IF dex = "RaydiumCLMM" THEN SqrtPriceLimit(down) ELSE WhirlpoolLimit(down)

StepTo(terms, s, t, price, remaining, down) ==
    LET liquidity == LiquidityAt(s, IF down THEN t ELSE t - 1)
        target == Nearer(SqrtPrice[t], Limit(terms.dex, down), down)
    IN  IF terms.dex = "RaydiumCLMM"
        THEN compute_swap_step(price, target, liquidity, remaining, terms.fee.rate, down)
        ELSE WhirlpoolStep(price, target, liquidity, remaining, terms.fee.rate, down)

\* The swap of an amount, and what it leaves of it.
RungSwap(terms, s, amount, down) ==
    LET Taking(before, step) ==
            [price |-> step.price, out |-> before.out + step.amount_out,
             remaining |-> before.remaining - step.amount_in - step.fee_amount]
        Climb(before, t) ==
            IF before.remaining = 0 \/ before.price = Limit(terms.dex, down) THEN before
            ELSE Taking(before, StepTo(terms, s, t, before.price, before.remaining, down))
    IN  FoldLeft(Climb, [price |-> s.price, remaining |-> amount, out |-> 0],
                 Rungs(terms.dex, s, down))

-----------------------------------------------------------------------------
(* The swap of a pool with bins, bin by bin: it ends before the first one  *)
(* whose array it may not use.                                             *)

BinAt(s, n, down) == IF down THEN s.active - n ELSE s.active + n

\* What bin id leaves of an amount, and what has come out then.
TakeBin(terms, s, id, before, down) ==
    LET references == update_references(s.variables, s.active, terms.fee, Now)
        rate == get_total_fee(Volatility(references, id, terms.fee), terms.fee)
        step == swap(s.bins[id], before.remaining,
                     get_price_from_id(id, terms.fee.bin_step), rate, down)
    IN  IF before.remaining = 0 \/ id \notin DOMAIN s.bins THEN before
        ELSE IF is_empty(s.bins[id], down) THEN before
        ELSE [out |-> before.out + step.amount_out,
              remaining |-> before.remaining - step.amount_in]

\* A swap goes through the bin.
MayTake(terms, s, id, down) ==
    /\ id \in (-MaxBin)..MaxBin
    /\ bin_id_to_bin_array_index(id) \in Usable(terms.dex, s, down)

BinSwapOf(terms, s, amount, down) ==
    LET steps == Cardinality({n \in 0..(2 * MaxBin) :
                                \A m \in 0..n : MayTake(terms, s, BinAt(s, m, down), down)})
        after[n \in 0..steps] ==
            IF n = 0 THEN [remaining |-> amount, out |-> 0]
            ELSE TakeBin(terms, s, BinAt(s, n - 1, down), after[n - 1], down)
    IN  after[steps]

-----------------------------------------------------------------------------
(* The swap of one stretch: the product of what it holds of either token,  *)
(* with liquidity / price of a and liquidity * price of b, does not fall.  *)

Keeps(s, spent, out, down) ==
    IF down THEN (s.liquidity + (spent * s.price)) * ((s.liquidity * s.price) - (out * U128))
                    >= s.liquidity * s.liquidity * s.price
    ELSE ((s.liquidity * s.price) + (spent * U128)) * (s.liquidity - (out * s.price))
            >= s.liquidity * s.liquidity * s.price

MostOut(s, spent, down) ==
    Max({o \in 0..(2 * U64) : Keeps(s, spent, o, down)})

\* The price stays in range, of the stretch without rounding.
StaysInRange(terms, s, spent, down) ==
    IF down THEN s.liquidity * s.price > (terms.fee.sqrt_min_price - 1) * (s.liquidity + (spent * s.price))
    ELSE (s.price * s.liquidity) + (spent * U128) < (terms.fee.sqrt_max_price + 1) * s.liquidity

\* What rounding the price takes of what goes out.
Slack(s, down) == 2 + (s.liquidity \div (IF down THEN U128 ELSE s.price * s.price))

-----------------------------------------------------------------------------
(* What a quote over one state is *)

Received(terms, amount, down) == AfterTransferFee(amount, terms.fee.transfer[IF down THEN 1 ELSE 2])
Sent(terms, amount, down) == AfterTransferFee(amount, terms.fee.transfer[IF down THEN 2 ELSE 1])

TicksTake(terms, s, amount, down) ==
    LET received == IF terms.dex = "RaydiumCLMM" THEN amount ELSE Received(terms, amount, down)
        limit == Limit(terms.dex, down)
        Gives(swapped) ==
            IF swapped.remaining # 0 /\ swapped.price # limit THEN {}
            ELSE IF terms.dex = "RaydiumCLMM" THEN {swapped.out}
            ELSE {Sent(terms, swapped.out, down)}
    IN  IF received = 0 \/ s.price = limit THEN {}
        ELSE Gives(RungSwap(terms, s, received, down))

BinsTake(terms, s, amount, down) ==
    LET swapped == BinSwapOf(terms, s, Received(terms, amount, down), down)
    IN  IF swapped.remaining # 0 \/ ~validate_swap_activation(terms.fee, Now, Slot) THEN {}
        ELSE {Sent(terms, swapped.out, down)}

StretchTakes(terms, s, amount, down) ==
    LET point == CurrentPoint(terms.fee.activation_type, Now, Slot)
        received == Received(terms, amount, down)
        OfFee(n) == LessFee(n, Pool(s), terms.fee, point)
        on_input == FeesOnInput(terms.fee, down)
        spent == IF on_input THEN OfFee(received) ELSE received
        most == MostOut(s, spent, down)
    IN  IF \/ s.liquidity = 0 \/ IsNewer(Pool(s), terms.fee, Now) \/ BaseFee(terms.fee, point) < 0
           \/ ~StaysInRange(terms, s, spent, down) \/ ~Fits(most) THEN {}
        ELSE {IF on_input THEN out ELSE OfFee(out) : out \in (most - Slack(s, down))..most}

\* Amounts a quote may say come out of the pool for what goes in; none if the
\* pool does not take it all.
Takes(terms, s, amount, down) ==
    IF HasTicks(terms.dex) THEN TicksTake(terms, s, amount, down)
    ELSE IF terms.dex = "MeteoraDLMM" THEN BinsTake(terms, s, amount, down)
    ELSE StretchTakes(terms, s, amount, down)
=============================================================================
