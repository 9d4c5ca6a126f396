------------------------ MODULE MCConcentratedQuote ------------------------
EXTENDS ConcentratedQuote

MCSqrtPrice == [t \in MinTick..MaxTick |-> 64 + (2 * t)]

Position(lower, upper, liquidity) == [lower |-> lower, upper |-> upper, liquidity |-> liquidity]
Quiet == [found |-> TRUE,
          variables |-> [last_reference_update_timestamp |-> 0, last_major_swap_timestamp |-> 0,
                         tick_group_index_reference |-> 0, volatility_reference |-> 0,
                         volatility_accumulator |-> 0]]
\* The last swaps were a burst that ended two groups up.
Burst == [found |-> TRUE,
          variables |-> [last_reference_update_timestamp |-> 8, last_major_swap_timestamp |-> 0,
                         tick_group_index_reference |-> 2, volatility_reference |-> 1,
                         volatility_accumulator |-> 3]]
\* A swap of the same moment, four groups up.
Fresh == [found |-> TRUE,
          variables |-> [last_reference_update_timestamp |-> 10, last_major_swap_timestamp |-> 10,
                         tick_group_index_reference |-> 4, volatility_reference |-> 1,
                         volatility_accumulator |-> 5]]
\* A swap whose time is after the local clock.
Later == [Fresh EXCEPT !.variables.last_major_swap_timestamp = 11]
State(positions, price, tick, oracle) ==
    [positions |-> positions, price |-> price, tick |-> tick, oracle |-> oracle]

\* One position over all ticks, and a narrow one.
Whole == Position(-18, 18, 32)
Narrow == Position(-2, 2, 24)
\* Islands of liquidity, the outer ones in the extension.
Islands == {Position(-4, 2, 40), Position(-16, -12, 40), Position(8, 10, 40)}
\* Ticks in more than three arrays.
Ladder == {Position(-10, -2, 24), Position(-6, 2, 24), Position(2, 14, 24)}

TickStates ==
    {State({Whole, Narrow}, 64, 0, Quiet), State({Whole}, 64, 0, Later),
     State({Whole, Narrow}, 60, -3, Fresh), State({Whole}, 60, -3, Fresh),
     State(Islands, 61, -2, Quiet), State(Islands \ {Position(8, 10, 40)}, 61, -2, Quiet),
     State(Ladder, 66, 1, Quiet), State(Ladder \cup {Position(0, 6, 24)}, 66, 1, Burst),
     State(Ladder, 71, 3, Burst)}

\* Bins from one id to another: y below the active one, x above, both in it.
Filled(from, to, active, amount) ==
    [id \in from..to |-> [x |-> IF id < active THEN 0 ELSE amount,
                          y |-> IF id > active THEN 0 ELSE amount]]
Bins(active, bins, last, reference, volatility) ==
    [active |-> active, bins |-> bins,
     variables |-> [last_update_timestamp |-> last, index_reference |-> reference,
                    volatility_reference |-> volatility, volatility_accumulator |-> 3 * volatility]]

\* Around zero, from the pool's bitmap into the extension and back, over an
\* array without liquidity, in the last array there is, and beyond all that hold
\* anything.
BinStates ==
    {Bins(0, Filled(-3, 3, 0, 5), 0, 0, 0), Bins(1, Filled(-3, 3, 1, 5), 10, 0, 2),
     Bins(2, Filled(-2, 7, 2, 4), 8, 4, 3), Bins(-5, Filled(-9, 0, -5, 4), 9, -5, 0),
     Bins(-4, Filled(-9, 0, -4, 4), 10, -5, 1),
     Bins(0, Filled(-3, 3, 0, 5) @@ Filled(-6, -6, 0, 6) @@ Filled(6, 6, 0, 6), 0, 0, 0),
     Bins(8, Filled(2, 9, 8, 3), 0, 0, 0), Bins(4, Filled(-3, 3, 4, 5), 0, 0, 0)}

Stretch(liquidity, price, updated, volatility) ==
    [liquidity |-> liquidity, price |-> price, updated |-> updated, volatility |-> volatility]

\* One was emptied, one swapped in after the local clock.
StretchStates ==
    {Stretch(2560, 64, 0, 0), Stretch(2560, 70, 9, 4), Stretch(2560, 56, 11, 2),
     Stretch(0, 64, 0, 0), Stretch(1280, 64, 9, 6)}

MCStates ==
    [dex \in Dexes |-> IF HasTicks(dex) THEN TickStates
                       ELSE IF dex = "MeteoraDLMM" THEN BinStates ELSE StretchStates]

NoFee == [fee_bps |-> 0, denominator |-> 8, max_fee |-> 0]
OneIn == [fee_bps |-> 1, denominator |-> 8, max_fee |-> 1]
Static == [rate |-> 1, adaptive |-> FALSE, transfer |-> <<NoFee, OneIn>>, tick_group_size |-> 2,
           filter_period |-> 1, decay_period |-> 4, reduction_factor |-> 1,
           adaptive_fee_control_factor |-> 1, max_volatility_accumulator |-> 5]
Dlmm == [status |-> "enabled", pair_type |-> "permission", activation_type |-> "timestamp",
         activation_point |-> 10, bin_step |-> 1, base_factor |-> 1, base_fee_power_factor |-> 0,
         filter_period |-> 1, decay_period |-> 4, reduction_factor |-> 4,
         variable_fee_control |-> 1, max_volatility_accumulator |-> 20, transfer |-> <<NoFee, OneIn>>]
\* A fee that decays by steps, the volatility on top; and one that decays by
\* powers from an activation that is still to come.
Damm == [dynamic |-> TRUE, activation_type |-> "timestamp", activation_point |-> 5,
         cliff_fee_numerator |-> 40, fee_scheduler_mode |-> "linear", number_of_period |-> 3,
         period_frequency |-> 2, reduction_factor |-> 4, variable_fee_control |-> 2, bin_step |-> 1,
         collect_fee_mode |-> "both tokens", sqrt_min_price |-> 40, sqrt_max_price |-> 90,
         transfer |-> <<NoFee, OneIn>>]
Early == [Damm EXCEPT !.dynamic = FALSE, !.activation_type = "slot", !.activation_point = 9,
                      !.fee_scheduler_mode = "exponential", !.collect_fee_mode = "only b"]
MCTerms == {[dex |-> "RaydiumCLMM", fee |-> [rate |-> 1]],
            [dex |-> "OrcaWhirl", fee |-> Static],
            [dex |-> "OrcaWhirl", fee |-> [Static EXCEPT !.adaptive = TRUE]],
            [dex |-> "MeteoraDLMM", fee |-> Dlmm],
            [dex |-> "MeteoraDLMM", fee |-> [Dlmm EXCEPT !.activation_type = "slot"]],
            [dex |-> "MeteoraDAMMV2", fee |-> Damm],
            [dex |-> "MeteoraDAMMV2", fee |-> Early]}
MCAmountsIn == {1, 5, 12, 36}
=============================================================================
