------------------------------ MODULE DammSwap ------------------------------
(***************************************************************************)
(* The swap of a Meteora DAMM v2 pool, of an exact amount in               *)
(* (dex/meteora_damm_v2/): one stretch of liquidity between two prices,    *)
(* and a fee that decays from the activation of the pool on and grows with *)
(* the volatility the pool account holds.  liquidity is scaled by Q64 too. *)
(*                                                                         *)
(* fee is the static slice of the pool; down is the direction a to b.      *)
(***************************************************************************)
EXTENDS MeteoraFees

MaxFeeNumerator == FeePrecision \div 2

-----------------------------------------------------------------------------
(* Fees *)

get_fee_in_period(fee, period) ==
    LET power == pow(Q64 - ((fee.reduction_factor * Q64) \div BasisPointMax), period)
    IN  IF fee.reduction_factor = 0 THEN fee.cliff_fee_numerator
        ELSE IF power = NoPower THEN -1
        ELSE (power * fee.cliff_fee_numerator) \div Q64

\* get_current_base_fee_numerator; negative where the code has an error.
BaseFee(fee, point) ==
    LET passed == (point - fee.activation_point) \div fee.period_frequency
        period == IF point < fee.activation_point \/ passed > fee.number_of_period
                  THEN fee.number_of_period ELSE passed
    IN  IF fee.period_frequency = 0 THEN fee.cliff_fee_numerator
        ELSE IF fee.fee_scheduler_mode = "linear"
             THEN fee.cliff_fee_numerator - (period * fee.reduction_factor)
        ELSE get_fee_in_period(fee, period)

get_variable_fee(pool, fee) ==
    IF fee.dynamic THEN VariableFee(fee.variable_fee_control, pool.volatility_accumulator, fee.bin_step)
    ELSE 0

\* get_fee_on_amount, what it leaves of the amount.
LessFee(amount, pool, fee, point) ==
    LET rate == BaseFee(fee, point) + get_variable_fee(pool, fee)
        capped == IF rate > MaxFeeNumerator THEN MaxFeeNumerator ELSE rate
    IN  amount - CeilDiv(amount * capped, FeePrecision)

\* get_fee_mode: fees are taken of the token out, or of b.
FeesOnInput(fee, down) == fee.collect_fee_mode = "only b" /\ ~down

-----------------------------------------------------------------------------
(* Curve *)

get_next_sqrt_price_from_amount_a_rounding_up(price, liquidity, amount) ==
    IF amount = 0 THEN price
    ELSE CeilDiv(liquidity * price, liquidity + (amount * price))

get_next_sqrt_price_from_amount_b_rounding_down(price, liquidity, amount) ==
    price + ((amount * U128) \div liquidity)

NextPrice(pool, amount, down) ==
    IF down THEN get_next_sqrt_price_from_amount_a_rounding_up(pool.sqrt_price, pool.liquidity, amount)
    ELSE get_next_sqrt_price_from_amount_b_rounding_down(pool.sqrt_price, pool.liquidity, amount)

get_delta_amount_a_unsigned(lower, upper, liquidity) ==
    (liquidity * (upper - lower)) \div (lower * upper)

get_delta_amount_b_unsigned(lower, upper, liquidity) ==
    (liquidity * (upper - lower)) \div U128

InRange(price, fee, down) ==
    IF down THEN price >= fee.sqrt_min_price ELSE price =< fee.sqrt_max_price

-----------------------------------------------------------------------------
(* get_quote *)

\* A swap that is newer than the clock is an error of update_references; what
\* that writes otherwise, the fee does not read.
IsNewer(pool, fee, now) == fee.dynamic /\ now < pool.last_update_timestamp

\* The whole quote, of a pool account as it was read.  A pool without liquidity
\* fails an assertion.
QuoteDamm(pool, amount, fee, now, slot, down) ==
    LET point == CurrentPoint(fee.activation_type, now, slot)
        received == AfterTransferFee(amount, fee.transfer[IF down THEN 1 ELSE 2])
        less_fee == LessFee(received, pool, fee, point)
        spent == IF FeesOnInput(fee, down) THEN less_fee ELSE received
        next == NextPrice(pool, spent, down)
        out == IF down THEN get_delta_amount_b_unsigned(next, pool.sqrt_price, pool.liquidity)
               ELSE get_delta_amount_a_unsigned(pool.sqrt_price, next, pool.liquidity)
    IN  IF \/ amount = 0 \/ IsNewer(pool, fee, now)
           \/ FeesOnInput(fee, down) /\ BaseFee(fee, point) < 0
        THEN [is |-> "none"]
        ELSE IF pool.liquidity = 0 THEN [is |-> "panic"]
        ELSE IF ~InRange(next, fee, down) \/ ~Fits(out) \/ BaseFee(fee, point) < 0
        THEN [is |-> "none"]
        ELSE [is |-> "amount",
              amount_out |-> IF FeesOnInput(fee, down) THEN out ELSE LessFee(out, pool, fee, point)]
=============================================================================
