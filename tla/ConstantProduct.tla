--------------------------- MODULE ConstantProduct ---------------------------
(***************************************************************************)
(* The quotes of the constant-product exchanges: Raydium AMM, Raydium CPMM *)
(* and PumpFun.  A pool is two sides, each with a vault and what the pool  *)
(* owes out of it (pnl of the AMM, protocol and fund fees of the CPMM).    *)
(* Swapping true is swapping in on side 0.                                 *)
(*                                                                         *)
(* u64 arithmetic wraps, as in the release profile of Cargo.toml, and a    *)
(* panic ends the process.  u128 cannot overflow here: its operands are    *)
(* below U64 and what is subtracted is not larger (FeesWithinAmount).      *)
(***************************************************************************)
EXTENDS Integers

CONSTANTS
    U64,                    \* 2^64
    FeeRateDenominator,     \* FEE_RATE_DENOMINATOR_VALUE of the CPMM
    BasisPoints,            \* 10_000, of PumpFun
    TransferFee(_, _),      \* get_transfer_fee of the mint of a side in this epoch
    Terms,                  \* static data of the pools: DEX and fees
    NoQuote,                \* quote returned None
    Abort                   \* the quoter panicked

Sides == {0, 1}

AmmTerms == [dex : {"RaydiumAMM"}, numerator : Nat, denominator : Nat \ {0}]
CpmmTerms == [dex : {"RaydiumCPMM"}, rate : Nat]
PumpTerms == [dex : {"PumpFunAMM"}, lp : Nat, protocol : Nat, creator : Nat]

\* The programs accept fees up to the whole amount; those of PumpFun add up to
\* about one percent, of which the quoter needs no more than half to be left.
ASSUME FeeAssumption ==
    /\ U64 \in Nat \ {0}
    /\ FeeRateDenominator \in Nat \ {0}
    /\ BasisPoints \in Nat \ {0}
    /\ \A s \in Sides, n \in 0..(U64 - 1) : TransferFee(s, n) \in Nat
    /\ Terms \subseteq AmmTerms \cup CpmmTerms \cup PumpTerms
    /\ \A t \in Terms :
         /\ t.dex = "RaydiumAMM" => t.numerator =< t.denominator
         /\ t.dex = "RaydiumCPMM" => t.rate =< FeeRateDenominator
         /\ t.dex = "PumpFunAMM" => 2 * (t.lp + t.protocol + t.creator) =< BasisPoints
    /\ NoQuote \notin Nat /\ Abort \notin Nat /\ NoQuote # Abort

\* Quotient of checked_ceil_div: rounds up, except that a quotient of zero is
\* rounded to the nearest.
CheckedCeilDiv(n, d) ==
    LET quotient == n \div d
    IN  IF quotient = 0 THEN IF 2 * n >= d THEN 1 ELSE 0
        ELSE IF n % d > 0 THEN quotient + 1 ELSE quotient

\* u64::try_from of an amount, after what may have been a panic.
TryU64(v) == IF v = Abort THEN Abort ELSE IF v < U64 THEN v ELSE NoQuote

\* What amount buys of reserve y for reserve x; a division by zero panics.
Swapped(amount, x, y) ==
    IF x + amount = 0 THEN Abort ELSE (y * amount) \div (x + amount)

AmmQuote(t, held, side, amount_in) ==
    LET swap_fee == CheckedCeilDiv(amount_in * t.numerator, t.denominator)
        without_pnl(s) == (held.vault[s] - held.owed[s]) % U64
    IN  TryU64(Swapped(amount_in - swap_fee, without_pnl(side), without_pnl(1 - side)))

CpmmTradingFee(t, amount) ==
    (amount * t.rate + FeeRateDenominator - 1) \div FeeRateDenominator

\* amount_in.saturating_sub(transfer_fee)
Received(side, amount_in) ==
    IF TransferFee(side, amount_in) >= amount_in THEN 0
    ELSE amount_in - TransferFee(side, amount_in)

\* Mutant of CpmmQuote: the fees owed are left in the reserves.
CpmmWithFees(t, held, side, amount_in) ==
    LET actual == Received(side, amount_in)
    IN  TryU64(Swapped(actual - CpmmTradingFee(t, actual), held.vault[side], held.vault[1 - side]))

\* Mutant of CpmmQuote: the fees of each side are taken from the other's vault.
CpmmCrossed(t, held, side, amount_in) ==
    LET actual == Received(side, amount_in)
        without_fee(s) == held.vault[s] - held.owed[1 - s]
    IN  IF \E s \in Sides : without_fee(s) < 0 THEN Abort
        ELSE TryU64(Swapped(actual - CpmmTradingFee(t, actual),
                            without_fee(side), without_fee(1 - side)))

CpmmQuote(t, held, side, amount_in) ==
    LET actual == Received(side, amount_in)
        without_fee(s) == held.vault[s] - held.owed[s]
        amount_out == TryU64(Swapped(actual - CpmmTradingFee(t, actual),
                                     without_fee(side), without_fee(1 - side)))
    IN  IF \E s \in Sides : held.vault[s] < held.owed[s] THEN Abort
        ELSE IF amount_out \notin Nat THEN amount_out
        ELSE IF TransferFee(1 - side, amount_out) > amount_out THEN NoQuote
        ELSE amount_out - TransferFee(1 - side, amount_out)

PumpFees(t, amount) ==
    CheckedCeilDiv(amount * t.lp, BasisPoints)
      + CheckedCeilDiv(amount * t.protocol, BasisPoints)
      + CheckedCeilDiv(amount * t.creator, BasisPoints)

\* Base for quote pays its fees out of the quote tokens bought, quote for base
\* out of those sold: always on side 1.
PumpQuote(t, held, side, amount_in) ==
    IF side = 0
    THEN LET bought == Swapped(amount_in, held.vault[0], held.vault[1])
         IN  IF bought = Abort THEN Abort ELSE TryU64(bought - PumpFees(t, bought))
    ELSE TryU64(Swapped(amount_in - PumpFees(t, amount_in), held.vault[1], held.vault[0]))

\* Mutant of Quote: a CPMM is quoted in the direction opposite to that asked.
QuoteBackwards(t, held, side, amount_in) ==
    CASE t.dex = "RaydiumAMM" -> AmmQuote(t, held, side, amount_in)
      [] t.dex = "RaydiumCPMM" -> CpmmQuote(t, held, 1 - side, amount_in)
      [] t.dex = "PumpFunAMM" -> PumpQuote(t, held, side, amount_in)

Quote(t, held, side, amount_in) ==
    CASE t.dex = "RaydiumAMM" -> AmmQuote(t, held, side, amount_in)
      [] t.dex = "RaydiumCPMM" -> CpmmQuote(t, held, side, amount_in)
      [] t.dex = "PumpFunAMM" -> PumpQuote(t, held, side, amount_in)
=============================================================================
