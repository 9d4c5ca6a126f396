----------------------------- MODULE FixedPoint -----------------------------
(***************************************************************************)
(* Fixed point numbers of the quoters: a price is scaled by Q64, which is  *)
(* 2^64, an amount fits a u64.  In the model the two widths are constants  *)
(* of their own, so that amounts and prices both stay small.               *)
(***************************************************************************)
EXTENDS Integers

CONSTANTS
    Q64,
    U64             \* 2^64, as the bound of an amount

ASSUME WidthAssumption == Q64 \in Nat \ {0} /\ U64 \in Nat \ {0}

U128 == Q64 * Q64

Fits(n) == n < U64

AbsOf(i) == IF i < 0 THEN -i ELSE i

CeilDiv(n, d) == IF n % d # 0 THEN (n \div d) + 1 ELSE n \div d
Rounded(n, d, round_up) == IF round_up THEN CeilDiv(n, d) ELSE n \div d
=============================================================================
