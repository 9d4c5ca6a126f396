----------------------------- MODULE MeteoraFees -----------------------------
(***************************************************************************)
(* What the quoters of Meteora's two programs have in common: powers of a  *)
(* fixed point number, by which DLMM prices its bins and DAMM v2 lets its  *)
(* base fee decay, fees that grow with the volatility, and the point in    *)
(* time, a slot or a timestamp, from which a pool is active.               *)
(***************************************************************************)
EXTENDS FixedPoint

CONSTANTS
    ExponentBits,       \* 19: powers beyond are not computed
    BasisPointMax,
    FeePrecision,       \* FEE_PRECISION, FEE_DENOMINATOR
    VariableFeeScale    \* 100_000_000_000

ASSUME FeeAssumption ==
    /\ ExponentBits \in Nat
    /\ BasisPointMax \in Nat \ {0} /\ FeePrecision \in Nat \ {0} /\ VariableFeeScale \in Nat \ {0}

\* No number where the code returns None.
NoPower == 0

\* base^exp by repeated squaring of a number below one: a larger base is
\* inverted first, the result at the end if just one of the two was.
pow(base, exp) ==
    LET inverted == base >= Q64
        bits == AbsOf(exp)
        square[n \in Nat] ==
            IF n = 0 THEN IF inverted THEN (U128 - 1) \div base ELSE base
            ELSE (square[n - 1] * square[n - 1]) \div Q64
        product[n \in Nat] ==
            IF n = 0 THEN Q64
            ELSE IF (bits \div (2 ^ (n - 1))) % 2 = 0 THEN product[n - 1]
            ELSE (product[n - 1] * square[n - 1]) \div Q64
        result == product[ExponentBits]
    IN  IF exp = 0 THEN Q64
        ELSE IF bits >= 2 ^ ExponentBits \/ result = 0 THEN NoPower
        ELSE IF inverted # (exp < 0) THEN (U128 - 1) \div result
        ELSE result

\* The part of the fee rate that the volatility adds.
VariableFee(control, accumulator, bin_step) ==
    CeilDiv(control * (accumulator * bin_step) * (accumulator * bin_step), VariableFeeScale)

CurrentPoint(activation_type, now, slot) == IF activation_type = "slot" THEN slot ELSE now

\* Fee of a token-2022 mint: fee.transfer has that of either token of a pool.
AfterTransferFee(amount, transfer_fee) ==
    LET raw == CeilDiv(amount * transfer_fee.fee_bps, transfer_fee.denominator)
    IN  amount - (IF raw < transfer_fee.max_fee THEN raw ELSE transfer_fee.max_fee)
=============================================================================
