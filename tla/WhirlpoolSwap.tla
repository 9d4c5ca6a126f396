---------------------------- MODULE WhirlpoolSwap ----------------------------
(***************************************************************************)
(* The swap of an Orca Whirlpool, of an exact amount in                    *)
(* (dex/orca_whirlpools/swap.rs, math/): a walk over the ticks of three    *)
(* consecutive tick arrays in which every step charges the fee rate of the *)
(* tick group it is in, if the pool's fee is adaptive.  Ticks, prices and  *)
(* the bounds of amounts are those of ClmmSwap.                            *)
(*                                                                         *)
(* fee is what is constant of a pool: its rate, whether it is adaptive,    *)
(* and its AdaptiveFeeConstants; variables are its                         *)
(* AdaptiveFeeVariables.                                                   *)
(***************************************************************************)
EXTENDS ClmmSwap

CONSTANTS
    ScaleFactor,            \* VOLATILITY_ACCUMULATOR_SCALE_FACTOR
    ReductionDenominator,   \* REDUCTION_FACTOR_DENOMINATOR
    ControlDenominator,     \* ADAPTIVE_FEE_CONTROL_FACTOR_DENOMINATOR
    MaxReferenceAge,        \* MAX_REFERENCE_AGE
    FeeRateHardLimit        \* FEE_RATE_HARD_LIMIT

ASSUME FeeRateAssumption ==
    /\ ScaleFactor \in Nat \ {0} /\ ReductionDenominator \in Nat \ {0}
    /\ ControlDenominator \in Nat \ {0}
    /\ FeeRateHardLimit \in 0..(FeeDenominator - 1)

-----------------------------------------------------------------------------
(* Tick arrays *)

get_tick_array_start_tick_index(t, s) == ((t \div s) \div ArraySize) * s * ArraySize

get_tick_arrays_or_default(t, s, down) ==
    LET start == get_tick_array_start_tick_index(t, s)
        offset == IF down THEN -(s * ArraySize) ELSE s * ArraySize
    IN  <<start, start + offset, start + (2 * offset)>>

uninitialized_tick_array(start) == [start |-> start, ticks |-> <<>>]

\* TickArraySequence: the ticks from start_index to end_index and those of
\* them that are initialized.
TickSequence(arrays, s) ==
    LET starts == {arrays[i].start : i \in DOMAIN arrays}
    IN  [start_index |-> Max({Min(starts), MinTick}),
         end_index |-> Min({Max(starts) + (ArraySize * s) - 1, MaxTick}),
         net |-> [t \in UNION {DOMAIN arrays[i].ticks : i \in DOMAIN arrays} |->
                    LET i == CHOOSE k \in DOMAIN arrays : t \in DOMAIN arrays[k].ticks
                    IN  arrays[i].ticks[t]]]

Tick(seq, t) == IF t \in DOMAIN seq.net THEN seq.net[t] ELSE 0

\* The next tick of the sequence to walk to, initialized or its end.
prev_initialized_tick(seq, t, s) ==
    LET ahead == {u \in DOMAIN seq.net : u =< t /\ u >= seq.start_index}
    IN  IF ahead # {} THEN Max(ahead) ELSE seq.start_index

next_initialized_tick_of(seq, t, s) ==
    LET ahead == {u \in DOMAIN seq.net : u > t /\ u =< seq.end_index}
    IN  IF ahead # {} THEN Min(ahead) ELSE seq.end_index

PastSequence(seq, t, down) == IF down THEN t < seq.start_index ELSE t >= seq.end_index

tick_index_to_sqrt_price(t) == SqrtPrice[t]
sqrt_price_to_tick_index(price) == get_tick_at_sqrt_price(price)

-----------------------------------------------------------------------------
(* Amounts *)

try_get_amount_delta_a(low, high, liquidity, round_up) ==
    Rounded(liquidity * (high - low) * Q64, low * high, round_up)

try_get_amount_delta_b(low, high, liquidity, round_up) ==
    Rounded(liquidity * (high - low), Q64, round_up)

FixedDelta(price, next, liquidity, down) ==
    IF down THEN try_get_amount_delta_a(next, price, liquidity, TRUE)
    ELSE try_get_amount_delta_b(price, next, liquidity, TRUE)

UnfixedDelta(price, next, liquidity, down) ==
    IF down THEN try_get_amount_delta_b(next, price, liquidity, FALSE)
    ELSE try_get_amount_delta_a(price, next, liquidity, FALSE)

try_get_next_sqrt_price_from_a(price, liquidity, amount) ==
    CeilDiv(liquidity * price * Q64, (liquidity * Q64) + (price * amount))

try_get_next_sqrt_price_from_b(price, liquidity, amount) ==
    price + ((amount * Q64) \div liquidity)

try_get_next_sqrt_price(price, liquidity, amount, down) ==
    IF amount = 0 THEN price
    ELSE IF down THEN try_get_next_sqrt_price_from_a(price, liquidity, amount)
    ELSE try_get_next_sqrt_price_from_b(price, liquidity, amount)

try_apply_swap_fee(amount, rate) == (amount * (FeeDenominator - rate)) \div FeeDenominator
try_reverse_apply_swap_fee(amount, rate) ==
    CeilDiv(amount * FeeDenominator, FeeDenominator - rate)

\* fee_bps and max_fee of a token-2022 mint, by side of the pool.
try_apply_transfer_fee(amount, transfer_fee) ==
    amount - Min({CeilDiv(amount * transfer_fee.fee_bps, transfer_fee.denominator),
                  transfer_fee.max_fee})

\* compute_swap_step; an error ends the quote without an amount.  Without
\* liquidity the target is always reached.
WhirlpoolStep(price, target, liquidity, remaining, rate, down) ==
    LET initial == FixedDelta(price, target, liquidity, down)
        less_fee == try_apply_swap_fee(remaining, rate)
        reached == Fits(initial) /\ initial =< less_fee
        next == IF reached THEN target
                ELSE try_get_next_sqrt_price(price, liquidity, less_fee, down)
        amount_in == IF next = target /\ Fits(initial) THEN initial
                     ELSE FixedDelta(price, next, liquidity, down)
        amount_out == UnfixedDelta(price, next, liquidity, down)
        fee == IF next # target THEN remaining - amount_in
               ELSE try_reverse_apply_swap_fee(amount_in, rate) - amount_in
    IN  IF \/ next < SqrtPrice[MinTick] \/ next > SqrtPrice[MaxTick] \/ fee < 0
           \/ ~Fits(amount_in) \/ ~Fits(amount_out) \/ ~Fits(amount_in + fee)
        THEN [is |-> "none"]
        ELSE [is |-> "step", price |-> next, amount_in |-> amount_in,
              amount_out |-> amount_out, fee_amount |-> fee]

\* get_next_liquidity: u128 arithmetic that wraps.
get_next_liquidity(liquidity, net, down) ==
    (IF down THEN liquidity - net ELSE liquidity + net) % U128

-----------------------------------------------------------------------------
(* FeeRateManager *)

GroupOf(t, fee) == t \div fee.tick_group_size

\* update_reference, of a swap at time now that starts in a group.
update_reference(variables, group, now, fee) ==
    LET last == Max({variables.last_reference_update_timestamp,
                     variables.last_major_swap_timestamp})
        elapsed == now - last
        \* The references of a swap that is not one of a burst.
        Renewed(volatility) ==
            [variables EXCEPT !.tick_group_index_reference = group,
                              !.volatility_reference = volatility,
                              !.last_reference_update_timestamp = now]
    IN  IF now - variables.last_reference_update_timestamp > MaxReferenceAge THEN Renewed(0)
        ELSE IF elapsed < fee.filter_period THEN variables
        ELSE IF elapsed < fee.decay_period
             THEN Renewed((variables.volatility_accumulator * fee.reduction_factor)
                            \div ReductionDenominator)
        ELSE Renewed(0)

IsEarly(variables, now) ==
    \/ now < variables.last_reference_update_timestamp
    \/ now < variables.last_major_swap_timestamp

update_volatility_accumulator(variables, group, fee) ==
    LET distance == AbsOf(variables.tick_group_index_reference - group)
    IN  [variables EXCEPT !.volatility_accumulator =
            Min({variables.volatility_reference + (distance * ScaleFactor),
                 fee.max_volatility_accumulator})]

compute_adaptive_fee_rate(variables, fee) ==
    LET crossed == variables.volatility_accumulator * fee.tick_group_size
    IN  Min({CeilDiv(fee.adaptive_fee_control_factor * crossed * crossed,
                     ControlDenominator * ScaleFactor * ScaleFactor),
             FeeRateHardLimit})

get_total_fee_rate(variables, fee) ==
    IF fee.adaptive
    THEN Min({fee.rate + compute_adaptive_fee_rate(variables, fee), FeeRateHardLimit})
    ELSE fee.rate

\* Groups in which the accumulator is not yet at its maximum, as distances
\* from the reference, with the prices they end at.
CoreRange(variables, fee) ==
    LET reach == CeilDiv(fee.max_volatility_accumulator - variables.volatility_reference,
                         ScaleFactor)
    IN  [lower |-> variables.tick_group_index_reference - reach,
         upper |-> variables.tick_group_index_reference + reach]

LowerTick(core, fee) == core.lower * fee.tick_group_size
UpperTick(core, fee) == (core.upper * fee.tick_group_size) + fee.tick_group_size

Clamped(t) == Max({MinTick, Min({t, MaxTick})})
Nearer(a, b, down) == IF down THEN Max({a, b}) ELSE Min({a, b})

\* get_bounded_sqrt_price_target: where a step ends, and whether it skips
\* groups that are all charged the same.
Bounded(target, liquidity, w, fee, down) ==
    LET core == CoreRange(w.variables, fee)
        below == LowerTick(core, fee) > MinTick /\ w.group < core.lower
        above == UpperTick(core, fee) < MaxTick /\ w.group > core.upper
        edge == IF down THEN w.group * fee.tick_group_size
                ELSE (w.group * fee.tick_group_size) + fee.tick_group_size
    IN  IF ~fee.adaptive THEN [price |-> target, skip |-> FALSE]
        ELSE IF fee.adaptive_fee_control_factor = 0 \/ liquidity = 0
        THEN [price |-> target, skip |-> TRUE]
        ELSE IF below THEN
            [price |-> IF down THEN target ELSE Min({target, tick_index_to_sqrt_price(LowerTick(core, fee))}),
             skip |-> TRUE]
        ELSE IF above THEN
            [price |-> IF down THEN Max({target, tick_index_to_sqrt_price(UpperTick(core, fee))}) ELSE target,
             skip |-> TRUE]
        ELSE [price |-> Nearer(target, tick_index_to_sqrt_price(Clamped(edge)), down), skip |-> FALSE]

NextGroupOnBoundary(group, price, t, skip, fee, down) ==
    LET at == IF price = tick_index_to_sqrt_price(t) THEN t ELSE sqrt_price_to_tick_index(price)
        last == GroupOf(at, fee)
        ahead == IF down THEN last < group ELSE last > group
        from == IF skip /\ ahead THEN last ELSE group
    IN  IF ~fee.adaptive THEN group ELSE IF down THEN from - 1 ELSE from + 1

\* The group after a step to price, on the way to tick t: one further, after a
\* skip counted from where the price is.
NextGroup(group, price, t, skip, fee, down) ==
    LET at == IF price = tick_index_to_sqrt_price(t) THEN t ELSE sqrt_price_to_tick_index(price)
        on_boundary == at % fee.tick_group_size = 0 /\ price = tick_index_to_sqrt_price(at)
        last == IF on_boundary /\ ~down THEN (at \div fee.tick_group_size) - 1
                ELSE GroupOf(at, fee)
        ahead == IF down THEN last < group ELSE last > group
        from == IF skip /\ ahead THEN last ELSE group
    IN  IF ~fee.adaptive THEN group ELSE IF down THEN from - 1 ELSE from + 1

-----------------------------------------------------------------------------
(* compute_swap *)

WhirlpoolLimit(down) == IF down THEN tick_index_to_sqrt_price(MinTick) ELSE tick_index_to_sqrt_price(MaxTick)

\* pool as it was read, oracle its AdaptiveFeeVariables if they were found.
BeginWhirlpool(pool, oracle, arrays, amount, fee, s, now, down) ==
    LET after_fee == try_apply_transfer_fee(amount, IF down THEN fee.transfer[1] ELSE fee.transfer[2])
        group == GroupOf(pool.tick_current_index, fee)
    IN  IF \/ down /\ WhirlpoolLimit(down) >= pool.sqrt_price
           \/ ~down /\ WhirlpoolLimit(down) =< pool.sqrt_price
           \/ after_fee = 0
           \/ fee.adaptive # oracle.found
           \/ fee.adaptive /\ IsEarly(oracle.variables, now)
        THEN Nothing
        ELSE [is |-> "walking", remaining |-> after_fee, calculated |-> 0,
              price |-> pool.sqrt_price, tick |-> pool.tick_current_index,
              liquidity |-> pool.liquidity, sequence |-> TickSequence(arrays, s),
              inside |-> FALSE, next |-> pool.tick_current_index,
              group |-> IF fee.adaptive THEN group ELSE 0,
              variables |-> IF fee.adaptive
                            THEN update_reference(oracle.variables, group, now, fee) ELSE <<>>,
              charged |-> [from |-> pool.sqrt_price, rate |-> fee.rate, liquidity |-> 0]]

\* One iteration of the inner loop, towards w.next.
StepWithin(w, fee, down) ==
    LET variables == IF fee.adaptive
                     THEN update_volatility_accumulator(w.variables, w.group, fee)
                     ELSE w.variables
        rate == get_total_fee_rate(variables, fee)
        target == Nearer(tick_index_to_sqrt_price(w.next), WhirlpoolLimit(down), down)
        net == Tick(w.sequence, w.next)
        After(step, crossed, remaining, skip) ==
            [w EXCEPT
                !.remaining = remaining,
                !.calculated = @ + step.amount_out,
                !.price = step.price,
                !.liquidity = IF crossed THEN get_next_liquidity(@, net, down) ELSE @,
                !.tick = IF crossed THEN (IF down THEN w.next - 1 ELSE w.next)
                         ELSE IF step.price # w.price THEN sqrt_price_to_tick_index(step.price)
                         ELSE @,
                !.variables = variables,
                !.group = NextGroup(@, step.price, w.next, skip, fee, down),
                !.inside = remaining # 0 /\ step.price # target,
                !.charged = [from |-> w.price, rate |-> rate, liquidity |-> w.liquidity]]
        Take(step, skip) ==
            IF step.is = "none" THEN Nothing
            ELSE IF \/ step.amount_in + step.fee_amount > w.remaining
                    \/ ~Fits(w.calculated + step.amount_out) THEN Nothing
            ELSE After(step, step.price = tick_index_to_sqrt_price(w.next),
                       w.remaining - step.amount_in - step.fee_amount, skip)
        Towards(bounded) ==
            Take(WhirlpoolStep(w.price, bounded.price, w.liquidity, w.remaining, rate, down),
                 bounded.skip)
    IN  Towards(Bounded(target, w.liquidity, w, fee, down))

\* An iteration of either loop, or what follows the last one.
WhirlpoolLoop(w, fee, s, down) ==
    LET out == try_apply_transfer_fee(w.calculated,
                    IF down THEN fee.transfer[2] ELSE fee.transfer[1])
        next == IF down THEN prev_initialized_tick(w.sequence, w.tick, s)
                ELSE next_initialized_tick_of(w.sequence, w.tick, s)
    IN  IF w.inside THEN StepWithin(w, fee, down)
        ELSE IF w.remaining = 0 \/ w.price = WhirlpoolLimit(down)
             THEN [is |-> "amount", amount_out |-> out]
        ELSE IF PastSequence(w.sequence, w.tick, down) THEN Nothing
        ELSE StepWithin([w EXCEPT !.next = next], fee, down)
=============================================================================
