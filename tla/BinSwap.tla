------------------------------- MODULE BinSwap -------------------------------
(***************************************************************************)
(* The swap of a Meteora DLMM pool, of an exact amount in                  *)
(* (dex/meteora_dlmm/): the search for bin arrays with liquidity, in the   *)
(* bitmap of the pool and those of its extension, and the walk from bin to *)
(* bin.  A bin trades at one price; its fee grows with its distance from   *)
(* the bin the volatility is measured from.                                *)
(*                                                                         *)
(* fee is the static slice of the pool, v its VariableParameters.  down is *)
(* swap_for_y.  Searches return what those of TickBitmap do.               *)
(***************************************************************************)
EXTENDS MeteoraFees, TickBitmap

CONSTANTS
    BinsPerArray,   \* MAX_BIN_PER_ARRAY
    MaxBin,         \* MAX_BIN_ID
    MaxFeeRate,     \* MAX_FEE_RATE
    Missing         \* an account that is not in the cache

\* The extension names every array there can be and the one after.
ASSUME BinAssumption ==
    /\ BinsPerArray \in Nat \ {0} /\ MaxFeeRate \in 0..(FeePrecision - 1)
    /\ MaxBin \in Nat /\ (MaxBin \div BinsPerArray) + 1 < BitmapSize * (Bitmaps + 1)
    /\ Bitmaps # 0

-----------------------------------------------------------------------------
(* Bin arrays *)

bin_id_to_bin_array_index(id) == id \div BinsPerArray

BinsOf(i) == (i * BinsPerArray)..((i * BinsPerArray) + BinsPerArray - 1)

is_overflow_default_bin_array_bitmap(i) == i > BitmapSize - 1 \/ i < -BitmapSize

next_bin_array_index_with_liquidity_internal(bits, i, down) ==
    LET ahead == Ahead(bits, i + BitmapSize, down)
    IN  IF ahead # {} THEN Found(Nearest(ahead, down) - BitmapSize)
        ELSE NotFound(IF down THEN -BitmapSize - 1 ELSE BitmapSize)

\* Position of an array on its side of the extension, counted over bitmaps.
bin_array_offset_in_bitmap(i) ==
    (IF i > 0 THEN i ELSE -(i + 1)) - BitmapSize

to_bin_array_index(position, positive) ==
    IF positive THEN BitmapSize + position ELSE -(BitmapSize + position) - 1

\* From start towards end, which is beyond the side start is on, unless they
\* are the same array: then only that one.
iter_bitmap(x, start, end) ==
    LET side == IF start < 0 THEN x.negative ELSE x.positive
        set == UNION {{(k * BitmapSize) + b : b \in side[k]} : k \in DOMAIN side}
        from == bin_array_offset_in_bitmap(start)
        ahead == Ahead(set, from, (start < 0) = (start < end))
    IN  IF start = end THEN set \cap {from} ELSE ahead

next_bin_array_index_with_liquidity(x, start, down) ==
    LET positive == start > 0
        inwards == positive = down
        last == (BitmapSize * (Bitmaps + 1)) - 1
        end == IF inwards THEN (IF positive THEN BitmapSize ELSE -BitmapSize - 1)
               ELSE (IF positive THEN last ELSE -last - 1)
        ahead == iter_bitmap(x, start, end)
    IN  IF ahead # {} THEN Found(to_bin_array_index(Nearest(ahead, inwards), positive))
        ELSE IF inwards THEN NotFound(IF positive THEN BitmapSize - 1 ELSE -BitmapSize)
        ELSE Error

\* In the bitmap array i is in, if there is one; x may be Missing.
NextBinArray(bits, x, i, down) ==
    IF ~is_overflow_default_bin_array_bitmap(i)
    THEN next_bin_array_index_with_liquidity_internal(bits, i, down)
    ELSE IF x = Missing THEN Error
    ELSE next_bin_array_index_with_liquidity(x, i, down)

\* Up to take_count arrays with liquidity from the active bin on.
get_bin_array_pubkeys_for_swap(take_count, bits, x, active_id, down) ==
    LET round == [i \in Int |-> NextBinArray(bits, x, i, down)]
        After(i) == IF down THEN i - 1 ELSE i + 1
    IN  Starts(Searches(Search(round, bin_id_to_bin_array_index(active_id)),
                        [i \in Int |-> Search(round, After(i))], take_count - 1))

-----------------------------------------------------------------------------
(* Fees *)

update_references(v, active_id, fee, now) ==
    LET elapsed == now - v.last_update_timestamp
        decayed == (v.volatility_accumulator * fee.reduction_factor) \div BasisPointMax
    IN  IF elapsed < fee.filter_period THEN v
        ELSE [v EXCEPT !.index_reference = active_id,
                       !.volatility_reference =
                            IF elapsed < fee.decay_period THEN decayed ELSE 0]

\* update_volatility_accumulator, in the bin that is active.
Volatility(v, active_id, fee) ==
    LET grown == v.volatility_reference + (AbsOf(v.index_reference - active_id) * BasisPointMax)
    IN  [v EXCEPT !.volatility_accumulator =
            Min({grown, fee.max_volatility_accumulator})]

get_base_fee(fee) == fee.base_factor * fee.bin_step * 10 * (10 ^ fee.base_fee_power_factor)

get_total_fee(v, fee) ==
    Min({get_base_fee(fee)
            + VariableFee(fee.variable_fee_control, v.volatility_accumulator, fee.bin_step),
         MaxFeeRate})

\* The fee on top of an amount, and the fee in it.
compute_fee(amount, rate) == CeilDiv(amount * rate, FeePrecision - rate)
compute_fee_from_amount(amount, rate) == CeilDiv(amount * rate, FeePrecision)

-----------------------------------------------------------------------------
(* Bins *)

get_price_from_id(id, bin_step) == pow(Q64 + ((bin_step * Q64) \div BasisPointMax), id)

is_empty(bin, down) == (IF down THEN bin.y ELSE bin.x) = 0

get_max_amount_out(bin, down) == IF down THEN bin.y ELSE bin.x

get_max_amount_in(bin, price, down) ==
    IF down THEN CeilDiv(bin.y * Q64, price) ELSE CeilDiv(bin.x * price, Q64)

get_amount_out(amount, price, down) ==
    IF down THEN (price * amount) \div Q64 ELSE (amount * Q64) \div price

\* All of a bin, or as much as the amount buys.
swap(bin, amount, price, rate, down) ==
    LET whole == get_max_amount_in(bin, price, down)
        whole_fee == compute_fee(whole, rate)
        takes_all == amount > whole + whole_fee
        fee == IF takes_all THEN whole_fee ELSE compute_fee_from_amount(amount, rate)
        bought == get_amount_out(amount - fee, price, down)
        into == IF takes_all THEN whole ELSE amount - fee
    IN  IF \/ ~Fits(whole) \/ ~Fits(whole + whole_fee)
           \/ ~takes_all /\ ~Fits(bought)
           \/ ~Fits((IF down THEN bin.x ELSE bin.y) + into)
        THEN [is |-> "none"]
        ELSE [is |-> "step", amount_in |-> into + fee,
              amount_out |-> IF takes_all THEN get_max_amount_out(bin, down)
                             ELSE Min({bought, get_max_amount_out(bin, down)})]

-----------------------------------------------------------------------------
(* quote_exact_in *)

validate_swap_activation(fee, now, slot) ==
    /\ fee.status = "enabled"
    /\ fee.pair_type = "permission" =>
            CurrentPoint(fee.activation_type, now, slot) >= fee.activation_point

\* pool is the pool account as it was read, arrays what was found of it.
BeginBins(pool, arrays, amount, fee, now, slot, down) ==
    IF ~validate_swap_activation(fee, now, slot) THEN [is |-> "none"]
    ELSE [is |-> "walking", calculated |-> 0,
          remaining |-> AfterTransferFee(amount, fee.transfer[IF down THEN 1 ELSE 2]),
          active_id |-> pool.active_id,
          variables |-> update_references(pool.v_parameters, pool.active_id, fee, now),
          array |-> Missing, queue |-> arrays]

\* Out of the active bin, which is in the current array of w, and on to the
\* next one.
ThroughBin(w, fee, down) ==
    LET v == Volatility(w.variables, w.active_id, fee)
        bin == w.array.bins[w.active_id]
        price == get_price_from_id(w.active_id, fee.bin_step)
        step == IF is_empty(bin, down) THEN [is |-> "step", amount_in |-> 0, amount_out |-> 0]
                ELSE swap(bin, w.remaining, price, get_total_fee(v, fee), down)
        next == IF down THEN w.active_id - 1 ELSE w.active_id + 1
        left == w.remaining - step.amount_in
    IN  IF \/ price = NoPower \/ step.is = "none"
           \/ ~Fits(w.calculated + step.amount_out)
           \/ left > 0 /\ next \notin (-MaxBin)..MaxBin
        THEN [is |-> "none"]
        ELSE [w EXCEPT !.remaining = left, !.calculated = @ + step.amount_out,
                       !.variables = v, !.active_id = IF left > 0 THEN next ELSE @]

\* One iteration of either loop, or what follows the last one.  Arrays the
\* active bin is not in are dropped.
BinLoop(w, fee, down) ==
    LET inside == w.array # Missing /\ w.active_id \in BinsOf(w.array.index)
        out == AfterTransferFee(w.calculated, fee.transfer[IF down THEN 2 ELSE 1])
    IN  IF w.remaining = 0 THEN [is |-> "amount", amount_out |-> out]
        ELSE IF inside THEN ThroughBin(w, fee, down)
        ELSE IF w.queue = <<>> THEN [is |-> "none"]
        ELSE [w EXCEPT !.array = Head(w.queue), !.queue = Tail(w.queue)]
=============================================================================
