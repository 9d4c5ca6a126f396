------------------------------ MODULE ClmmSwap ------------------------------
(***************************************************************************)
(* The swap of a Raydium concentrated pool, of an exact amount in: the     *)
(* arithmetic of one step (swap_math.rs, liquidity_math.rs,                *)
(* sqrt_price_math.rs, full_math.rs) and the loop over the ticks           *)
(* (utils.rs).  Prices are square roots scaled by Q64; what is not a panic *)
(* or an error of a step fits a u64.                                       *)
(***************************************************************************)
EXTENDS TickBitmap

CONSTANTS
    FeeDenominator, \* FEE_RATE_DENOMINATOR_VALUE
    SqrtPrice,      \* get_sqrt_price_at_tick, a function of the ticks
    LoopLimit       \* iterations after which the loop gives up

ASSUME SwapAssumption ==
    /\ FeeDenominator \in Nat \ {0}
    /\ SqrtPrice \in [MinTick..MaxTick -> Nat \ {0}]
    /\ \A t \in MinTick..(MaxTick - 1) : SqrtPrice[t] < SqrtPrice[t + 1]
    /\ LoopLimit \in Nat

-----------------------------------------------------------------------------
(* Arithmetic *)

mul_div_floor(a, b, d) == (a * b) \div d
mul_div_ceil(a, b, d) == ((a * b) + d - 1) \div d
div_rounding_up(a, d) == (a \div d) + (IF a % d > 0 THEN 1 ELSE 0)

\* Token 0 and token 1 between prices low and high.
get_delta_amount_0_unsigned(low, high, liquidity, round_up) ==
    IF round_up
    THEN div_rounding_up(mul_div_ceil(liquidity * Q64, high - low, high), low)
    ELSE mul_div_floor(liquidity * Q64, high - low, high) \div low

get_delta_amount_1_unsigned(low, high, liquidity, round_up) ==
    IF round_up THEN mul_div_ceil(liquidity, high - low, Q64)
    ELSE mul_div_floor(liquidity, high - low, Q64)

NextPriceRoundingDown(price, liquidity, amount) ==
    IF amount = 0 THEN price
    ELSE mul_div_floor(liquidity * Q64, price, (liquidity * Q64) + (amount * price))

get_next_sqrt_price_from_amount_0_rounding_up(price, liquidity, amount) ==
    IF amount = 0 THEN price
    ELSE mul_div_ceil(liquidity * Q64, price, (liquidity * Q64) + (amount * price))

get_next_sqrt_price_from_amount_1_rounding_down(price, liquidity, amount) ==
    price + ((amount * Q64) \div liquidity)

get_next_sqrt_price_from_input(price, liquidity, amount, down) ==
    IF down THEN get_next_sqrt_price_from_amount_0_rounding_up(price, liquidity, amount)
    ELSE get_next_sqrt_price_from_amount_1_rounding_down(price, liquidity, amount)

AmountIn(price, next, liquidity, down) ==
    IF down THEN get_delta_amount_0_unsigned(next, price, liquidity, TRUE)
    ELSE get_delta_amount_1_unsigned(price, next, liquidity, TRUE)

AmountOut(price, next, liquidity, down) ==
    IF down THEN get_delta_amount_1_unsigned(next, price, liquidity, FALSE)
    ELSE get_delta_amount_0_unsigned(price, next, liquidity, FALSE)

\* Bit by bit the code multiplies up an increasing table, and searches it.
get_sqrt_price_at_tick(t) == SqrtPrice[t]
get_tick_at_sqrt_price(price) == Max({t \in MinTick..MaxTick : SqrtPrice[t] =< price})

\* compute_swap_step; "is" says whether one of its unwraps or of its caller's
\* panics: no liquidity for a price to move, or an amount beyond u64.
compute_swap_step(price, target, liquidity, remaining, rate, down) ==
    LET less_fee == mul_div_floor(remaining, FeeDenominator - rate, FeeDenominator)
        needed == AmountIn(price, target, liquidity, down)
        reached == Fits(needed) /\ less_fee >= needed
        next == IF reached THEN target
                ELSE get_next_sqrt_price_from_input(price, liquidity, less_fee, down)
        amount_in == IF next # target THEN AmountIn(price, next, liquidity, down)
                     ELSE IF Fits(needed) THEN needed ELSE 0
        amount_out == AmountOut(price, next, liquidity, down)
        fee == IF next # target THEN remaining - amount_in
               ELSE mul_div_ceil(amount_in, rate, FeeDenominator - rate)
        panics == \/ ~reached /\ liquidity = 0
                  \/ ~Fits(amount_in) \/ ~Fits(amount_out) \/ fee < 0 \/ ~Fits(fee)
    IN  IF panics THEN [is |-> "panic"]
        ELSE [is |-> "step", price |-> next, amount_in |-> amount_in,
              amount_out |-> amount_out, fee_amount |-> fee]

\* liquidity_math::add_delta; what it refuses is only logged by the loop.
add_delta(liquidity, net) == IF liquidity + net < 0 THEN liquidity ELSE liquidity + net

SqrtPriceLimit(down) == IF down THEN SqrtPrice[MinTick] + 1 ELSE SqrtPrice[MaxTick] - 1

\* The target of a step: no further than the limit.
TargetPrice(next_price, down) ==
    IF down THEN Max({next_price, SqrtPriceLimit(down)}) ELSE Min({next_price, SqrtPriceLimit(down)})

-----------------------------------------------------------------------------
(* swap_compute over the arrays the quote loaded *)

Nothing == [is |-> "none"]
Aborted == [is |-> "panic"]

\* pool is the pool account as it was read, x its extension, arrays the
\* sequence of tick arrays that were found in the cache.
BeginSwap(pool, x, s, arrays, amount, down) ==
    LET From(first) ==
            IF \/ first.at.is # "found" \/ amount = 0
               \/ down /\ SqrtPriceLimit(down) >= pool.sqrt_price_x64
               \/ ~down /\ SqrtPriceLimit(down) =< pool.sqrt_price_x64
               \/ arrays[1].start # first.at.start
            THEN Nothing
            ELSE [is |-> "walking", remaining |-> amount, calculated |-> 0,
                  price |-> pool.sqrt_price_x64, tick |-> pool.tick_current,
                  liquidity |-> pool.liquidity, matched |-> first.here,
                  valid_start |-> first.at.start, array |-> arrays[1],
                  queue |-> Tail(arrays), loop_count |-> 0]
    IN  From(get_first_initialized_tick_array(
                 pool.tick_array_bitmap, x, pool.tick_current, s, down))

LoopGoesOn(w, down) ==
    /\ w.remaining # 0
    /\ w.price # SqrtPriceLimit(down)
    /\ w.tick < MaxTick /\ w.tick > MinTick

SwapToStaying(w, t, rate, down) ==
    LET next_price == get_sqrt_price_at_tick(t)
        net == IF down THEN -w.array.ticks[t] ELSE w.array.ticks[t]
        After(step, crossed) ==
            [w EXCEPT
                !.remaining = @ - (step.amount_in + step.fee_amount),
                !.calculated = @ + step.amount_out,
                !.price = step.price,
                !.liquidity = IF crossed THEN add_delta(@, net) ELSE @,
                !.tick = IF crossed THEN t
                         ELSE IF step.price # w.price THEN get_tick_at_sqrt_price(step.price)
                         ELSE @,
                !.loop_count = @ + 1]
        Take(step) ==
            IF step.is = "panic" THEN Aborted
            ELSE IF \/ step.amount_in + step.fee_amount > w.remaining
                    \/ ~Fits(w.calculated + step.amount_out) THEN Aborted
            ELSE After(step, step.price = next_price)
    IN  Take(compute_swap_step(w.price, TargetPrice(next_price, down), w.liquidity,
                               w.remaining, rate, down))

\* To tick t, which lies in the current array of w.
SwapTo(w, t, rate, down) ==
    LET next_price == get_sqrt_price_at_tick(t)
        net == IF down THEN -w.array.ticks[t] ELSE w.array.ticks[t]
        After(step, crossed) ==
            [w EXCEPT
                !.remaining = @ - (step.amount_in + step.fee_amount),
                !.calculated = @ + step.amount_out,
                !.price = step.price,
                !.liquidity = IF crossed THEN add_delta(@, net) ELSE @,
                !.tick = IF crossed THEN (IF down THEN t - 1 ELSE t)
                         ELSE IF step.price # w.price THEN get_tick_at_sqrt_price(step.price)
                         ELSE @,
                !.loop_count = @ + 1]
        Take(step) ==
            IF step.is = "panic" THEN Aborted
            ELSE IF \/ step.amount_in + step.fee_amount > w.remaining
                    \/ ~Fits(w.calculated + step.amount_out) THEN Aborted
            ELSE After(step, step.price = next_price)
    IN  Take(compute_swap_step(w.price, TargetPrice(next_price, down), w.liquidity,
                               w.remaining, rate, down))

\* The first tick of the current array, of which the caller unwraps that there
\* is one.
SwapToFirst(w, rate, down) ==
    IF DOMAIN w.array.ticks = {} THEN Aborted
    ELSE SwapTo(w, First(w.array.ticks, down), rate, down)

\* On to the next initialized array; none in the queue leaves the current one.
NextArray(pool, x, s, w, rate, down) ==
    LET array == IF w.queue # <<>> THEN Head(w.queue) ELSE w.array
        queue == IF w.queue # <<>> THEN Tail(w.queue) ELSE w.queue
        Into(next) ==
            IF next.is \in {"error", "panic"} THEN Aborted
            ELSE IF next.is = "none" \/ array.start # next.start THEN Nothing
            ELSE SwapToFirst([w EXCEPT !.array = array, !.queue = queue,
                                       !.valid_start = next.start], rate, down)
    IN  Into(next_initialized_tick_array_start_index(
                 pool.tick_array_bitmap, x, w.valid_start, s, down))

\* One iteration of the loop, or what follows the last one.
SwapLoop(pool, x, s, w, rate, down) ==
    LET ahead == next_initialized_tick(w.array.start, w.array.ticks, w.tick, s, down)
    IN  IF ~LoopGoesOn(w, down) THEN [is |-> "amount", amount_out |-> w.calculated]
        ELSE IF w.loop_count > LoopLimit THEN Nothing
        ELSE IF ahead # {} THEN SwapTo(w, Nearest(ahead, down), rate, down)
        ELSE IF ~w.matched THEN SwapToFirst([w EXCEPT !.matched = TRUE], rate, down)
        ELSE NextArray(pool, x, s, w, rate, down)
=============================================================================
