----------------------- MODULE ConcentratedQuoteProofs -----------------------
(***************************************************************************)
(* What the quotes pay out and charge, for every state of a pool, fee,     *)
(* amount and width: a bin gives no more than it holds and takes no more   *)
(* than there is, a swap of a DAMM v2 pool never lowers the product of     *)
(* what the pool holds of its two tokens, a swap of a Whirlpool is charged *)
(* at the rate of every tick group it goes through, and a quote of a DLMM  *)
(* pool is what a swap of it gives.  The walk of a Whirlpool is proved     *)
(* about in this order: prices of ticks, one step to a tick, the rates of  *)
(* groups and those that a step may skip, the loops, and the quote, whose  *)
(* reads may be torn; that of a DLMM pool in this: its numbers, arrays and *)
(* bins, the walk from bin to bin, the same walk over the bins of the      *)
(* pool, and the quote; that of a Raydium pool in this: one step between   *)
(* two prices, the loop with its jump to the next array, and the quote.    *)
(* The types of all quotes come last.                                      *)
(***************************************************************************)
EXTENDS SearchProofs

-----------------------------------------------------------------------------
(* Rounding *)

\* The least multiple of d that is not below n.
LEMMA CeilDivFacts ==
    ASSUME NEW n \in Nat, NEW d \in Nat \ {0}
    PROVE  /\ CeilDiv(n, d) \in Nat
           /\ n =< d * CeilDiv(n, d)
           /\ d * CeilDiv(n, d) < n + d
<1> DEFINE q == n \div d
           r == n % d
<1>1. q \in Nat /\ r \in 0..(d - 1) /\ n = d * q + r
  BY DivFacts
<1>2. CeilDiv(n, d) = IF r # 0 THEN q + 1 ELSE q
  BY DEF CeilDiv
<1> HIDE DEF q, r
<1>3. d * (q + 1) = d * q + d
  BY <1>1
<1> QED
  BY <1>1, <1>2, <1>3

\* A part of an amount is at most the amount.
LEMMA PartWithin ==
    ASSUME NEW amount \in Nat, NEW num \in Nat, NEW d \in Nat \ {0}, num =< d
    PROVE  CeilDiv(amount * num, d) \in 0..amount
<1> DEFINE c == CeilDiv(amount * num, d)
<1>1. amount * num \in Nat /\ amount * num =< amount * d
  BY Products
<1>2. c \in Nat /\ d * c < amount * num + d
  BY <1>1, CeilDivFacts
<1> HIDE DEF c
<1>3. d * c < d * (amount + 1)
  <2>1. d * (amount + 1) = amount * d + d /\ d * c \in Int
    BY <1>2
  <2> QED
    BY <1>1, <1>2, <2>1
<1>4. c < amount + 1
  BY <1>2, <1>3, Products
<1> QED
  BY <1>2, <1>4 DEF c

-----------------------------------------------------------------------------
(* The curve of DAMM v2 *)

\* The square of the price scale is a number of its own in the proofs.
LEMMA WidthFacts == U128 \in Nat \ {0}
<1> USE WidthAssumption DEF U128
<1>1. Q64 \in Nat /\ Q64 # 0
  OBVIOUS
<1>2. Q64 * Q64 \in Nat /\ Q64 * Q64 # 0
  BY <1>1
<1> QED
  BY <1>2

\* Down: the price is rounded up, but not above where it was; what goes out is
\* rounded down, and the product does not fall.
LEMMA DownKeeps ==
    ASSUME NEW L \in Nat \ {0}, NEW P \in Nat \ {0}, NEW x \in Nat, NEW U \in Nat \ {0},
           NEW after \in Nat, NEW out \in Nat,
           L * P =< (L + (x * P)) * after,
           U * out =< L * (P - after)
    PROVE  L * L * P =< (L + (x * P)) * ((L * P) - (out * U))
<1> DEFINE D == L + (x * P)
           R == (L * P) - (out * U)
<1>1. D \in Nat /\ R \in Int /\ L * P \in Nat
  OBVIOUS
<1>2. L * after =< R
  <2>1. L * (P - after) = L * P - L * after /\ out * U = U * out
    OBVIOUS
  <2> QED
    BY <2>1
<1>3. L * P =< D * after
  OBVIOUS
<1> HIDE DEF D, R
<1>4. L * after \in Int /\ D * (L * after) =< D * R
  BY <1>1, <1>2, Products
<1>5. D * after \in Int /\ L * (L * P) =< L * (D * after)
  BY <1>1, <1>3, Products
<1>6. D * (L * after) = L * (D * after) /\ L * L * P = L * (L * P)
  BY <1>1
<1>7. L * L * P =< D * R
  BY <1>1, <1>4, <1>5, <1>6
<1> QED
  BY <1>7 DEF D, R

\* Up: the price is rounded down.
LEMMA UpKeeps ==
    ASSUME NEW L \in Nat \ {0}, NEW P \in Nat \ {0}, NEW x \in Nat, NEW U \in Nat \ {0},
           NEW more \in Nat, NEW out \in Nat,
           L * more =< x * U,
           (P * (P + more)) * out =< L * more
    PROVE  L * L * P =< ((L * P) + (x * U)) * (L - (out * P))
<1> DEFINE after == P + more
           N == (L * P) + (x * U)
           R == L - (out * P)
<1>1. after \in Nat \ {0} /\ N \in Nat /\ R \in Int /\ L * P \in Nat
  OBVIOUS
<1>2. L * after =< N
  <2>1. L * after = L * P + L * more
    OBVIOUS
  <2> QED
    BY <2>1
<1>3. L * P =< after * R
  <2>1. after * R = L * after - after * (out * P)
    OBVIOUS
  <2>2. after * (out * P) = (P * after) * out
    OBVIOUS
  <2>3. L * after = L * P + L * more
    OBVIOUS
  <2> QED
    BY <2>1, <2>2, <2>3
<1> HIDE DEF after, N, R
<1>4. R \in Nat
  <2>1. 0 < after * R
    <3>1. 0 < L * P
      BY Products
    <3> QED
      BY <1>1, <1>3, <3>1
  <2>2. after * 0 < after * R
    BY <1>1, <2>1
  <2>3. 0 < R
    BY <1>1, <2>2, Products
  <2> QED
    BY <1>1, <2>3
<1>5. R * (L * after) =< R * N
  BY <1>1, <1>2, <1>4, Products
<1>6. L * (L * P) =< L * (after * R)
  BY <1>1, <1>3, Products
<1>7. R * (L * after) = L * (after * R) /\ L * L * P = L * (L * P) /\ R * N = N * R
  BY <1>1
<1>8. L * L * P =< N * R
  BY <1>1, <1>4, <1>5, <1>6, <1>7
<1> QED
  BY <1>8 DEF N, R

LEMMA DownPrice ==
    ASSUME NEW L \in Nat \ {0}, NEW P \in Nat \ {0}, NEW x \in Nat
    PROVE  LET after == get_next_sqrt_price_from_amount_a_rounding_up(P, L, x)
           IN  after \in 0..P /\ L * P =< (L + (x * P)) * after
<1> DEFINE D == L + (x * P)
           c == CeilDiv(L * P, D)
<1>1. CASE x = 0
  BY <1>1 DEF get_next_sqrt_price_from_amount_a_rounding_up
<1>2. CASE x # 0
  <2>1. x * P \in Nat /\ D \in Nat \ {0} /\ L * P \in Nat
    OBVIOUS
  <2>2. c \in Nat /\ L * P =< D * c /\ D * c < L * P + D
    BY <2>1, CeilDivFacts
  <2>3. P * L =< P * D /\ P * L = L * P /\ P * D = D * P
    BY <2>1, Products
  <2> HIDE DEF c
  <2>4. D * (P + 1) = D * P + D /\ D * c \in Int /\ D * P \in Int
    BY <2>1, <2>2
  <2> HIDE DEF D
  <2>5. D * c < D * (P + 1)
    BY <2>1, <2>2, <2>3, <2>4
  <2>6. c < P + 1
    BY <2>1, <2>2, <2>5, Products
  <2>7. get_next_sqrt_price_from_amount_a_rounding_up(P, L, x) = c
    BY <1>2 DEF get_next_sqrt_price_from_amount_a_rounding_up, c, D
  <2> QED
    BY <2>2, <2>6, <2>7 DEF D
<1> QED
  BY <1>1, <1>2

\* What a swap of one stretch pays out, before fees.
CurveOut(s, spent, d) ==
    LET after == NextPrice(Pool(s), spent, d)
    IN  IF d THEN get_delta_amount_b_unsigned(after, s.price, s.liquidity)
        ELSE get_delta_amount_a_unsigned(s.price, after, s.liquidity)

\* Whatever the liquidity, the price and the amount, the curve pays out no more
\* than keeps the product of what the pool holds (get_swap_result_from_a_to_b,
\* get_swap_result_from_b_to_a).
THEOREM CurveKeepsTheProduct ==
    ASSUME NEW s, s.liquidity \in Nat \ {0}, s.price \in Nat \ {0},
           NEW spent \in Nat, NEW d \in BOOLEAN
    PROVE  CurveOut(s, spent, d) \in Nat /\ Keeps(s, spent, CurveOut(s, spent, d), d)
<1> DEFINE L == s.liquidity
           P == s.price
           after == NextPrice(Pool(s), spent, d)
           out == CurveOut(s, spent, d)
<1>0. /\ Pool(s).liquidity = L /\ Pool(s).sqrt_price = P
      /\ L \in Nat \ {0} /\ P \in Nat \ {0}
      /\ U128 \in Nat \ {0}
  BY WidthFacts DEF Pool
<1>1. CASE d
  <2>1. after = get_next_sqrt_price_from_amount_a_rounding_up(P, L, spent)
    BY <1>0, <1>1 DEF NextPrice
  <2>2. after \in 0..P /\ L * P =< (L + (spent * P)) * after
    BY <1>0, <2>1, DownPrice
  <2>3. out = (L * (P - after)) \div U128
    BY <1>1 DEF CurveOut, get_delta_amount_b_unsigned
  <2> HIDE DEF after, out, L, P
  <2>4. P - after \in Nat /\ L * (P - after) \in Nat
    BY <1>0, <2>2
  <2>5. out \in Nat /\ U128 * out =< L * (P - after)
    BY <1>0, <2>3, <2>4, DivFacts
  <2>6. L * L * P =< (L + (spent * P)) * ((L * P) - (out * U128))
    BY <1>0, <2>2, <2>5, DownKeeps
  <2>7. L * L * P \in Int /\ (L + (spent * P)) * ((L * P) - (out * U128)) \in Int
    BY <1>0, <2>5
  <2>8. (L + (spent * P)) * ((L * P) - (out * U128)) >= L * L * P
    BY <2>6, <2>7
  <2> QED
    BY <1>1, <2>5, <2>8 DEF Keeps, out, L, P
<1>2. CASE ~d
  <2> DEFINE more == (spent * U128) \div L
  <2>1. spent * U128 \in Nat
    BY <1>0
  <2>2. more \in Nat /\ L * more =< spent * U128
    BY <1>0, <2>1, DivFacts
  <2>3. after = P + more
    BY <1>0, <1>2 DEF NextPrice, get_next_sqrt_price_from_amount_b_rounding_down
  <2>4. out = (L * (after - P)) \div (P * after)
    BY <1>2 DEF CurveOut, get_delta_amount_a_unsigned
  <2> HIDE DEF after, out, L, P, more
  <2>5. after - P = more /\ L * more \in Nat /\ P * (P + more) \in Nat \ {0}
    <3>1. P + more \in Nat \ {0}
      BY <1>0, <2>2
    <3>2. after - P = more
      BY <1>0, <2>2, <2>3
    <3> QED
      BY <1>0, <2>2, <3>1, <3>2
  <2>6. out \in Nat /\ (P * (P + more)) * out =< L * more
    BY <2>3, <2>4, <2>5, DivFacts
  <2>7. L * L * P =< ((L * P) + (spent * U128)) * (L - (out * P))
    BY <1>0, <2>2, <2>6, UpKeeps
  <2>8. L * L * P \in Int /\ ((L * P) + (spent * U128)) * (L - (out * P)) \in Int
    BY <1>0, <2>6
  <2>9. ((L * P) + (spent * U128)) * (L - (out * P)) >= L * L * P
    BY <2>7, <2>8
  <2> QED
    BY <1>2, <2>6, <2>9 DEF Keeps, out, L, P
<1> QED
  BY <1>1, <1>2

-----------------------------------------------------------------------------
(* A bin of DLMM *)

LEMMA LeastOfTwo ==
    ASSUME NEW a \in Nat, NEW b \in Nat
    PROVE  Min({a, b}) \in {a, b} /\ Min({a, b}) =< a /\ Min({a, b}) =< b
<1>1. \E m \in {a, b} : \A y \in {a, b} : m =< y
  <2>1. CASE a =< b
    BY <2>1
  <2>2. CASE ~(a =< b)
    BY <2>2
  <2> QED
    BY <2>1, <2>2
<1> QED
  BY <1>1 DEF Min

\* What out is worth at a price is at most what goes in.
AtItsPrice(out, price, into, falling) ==
    IF falling THEN Q64 * out =< price * into ELSE price * out =< Q64 * into

\* All of a bin for what it asks, and what an amount buys of it.
LEMMA AllAtItsPrice ==
    ASSUME NEW bin, bin.x \in Nat, bin.y \in Nat, NEW price \in Nat \ {0}, NEW d \in BOOLEAN
    PROVE  /\ get_max_amount_in(bin, price, d) \in Nat
           /\ get_max_amount_out(bin, d) \in Nat
           /\ AtItsPrice(get_max_amount_out(bin, d), price, get_max_amount_in(bin, price, d), d)
<1>1. PICK x \in Nat, y \in Nat : x = bin.x /\ y = bin.y
  OBVIOUS
<1>2. Q64 \in Nat \ {0}
  BY WidthAssumption
<1>3. y * Q64 \in Nat /\ x * price \in Nat /\ y * Q64 = Q64 * y /\ x * price = price * x
  BY <1>2, Products
<1>4. CASE d
  <2>1. CeilDiv(y * Q64, price) \in Nat /\ y * Q64 =< price * CeilDiv(y * Q64, price)
    BY <1>3, CeilDivFacts
  <2> QED
    BY <1>1, <1>3, <1>4, <2>1 DEF get_max_amount_in, get_max_amount_out, AtItsPrice
<1>5. CASE ~d
  <2>1. CeilDiv(x * price, Q64) \in Nat /\ x * price =< Q64 * CeilDiv(x * price, Q64)
    BY <1>2, <1>3, CeilDivFacts
  <2> QED
    BY <1>1, <1>3, <1>5, <2>1 DEF get_max_amount_in, get_max_amount_out, AtItsPrice
<1> QED
  BY <1>4, <1>5

LEMMA BoughtAtItsPrice ==
    ASSUME NEW amount \in Nat, NEW price \in Nat \ {0}, NEW d \in BOOLEAN
    PROVE  /\ get_amount_out(amount, price, d) \in Nat
           /\ AtItsPrice(get_amount_out(amount, price, d), price, amount, d)
<1>1. Q64 \in Nat \ {0}
  BY WidthAssumption
<1>2. price * amount \in Nat /\ amount * Q64 \in Nat /\ amount * Q64 = Q64 * amount
  BY <1>1, Products
<1>3. CASE d
  BY <1>1, <1>2, <1>3, DivFacts DEF get_amount_out, AtItsPrice
<1>4. CASE ~d
  BY <1>1, <1>2, <1>4, DivFacts DEF get_amount_out, AtItsPrice
<1> QED
  BY <1>3, <1>4

\* A smaller amount out of a larger one in stays within the price.
LEMMA PriceWithin ==
    ASSUME NEW out \in Nat, NEW into \in Nat, NEW less \in 0..out, NEW more \in Nat,
           into =< more, NEW price \in Nat \ {0}, NEW d \in BOOLEAN,
           AtItsPrice(out, price, into, d)
    PROVE  AtItsPrice(less, price, more, d)
<1>1. Q64 \in Nat
  BY WidthAssumption
<1>2. /\ Q64 * less =< Q64 * out /\ price * into =< price * more
      /\ price * less =< price * out /\ Q64 * into =< Q64 * more
  BY <1>1, Products
<1>3. /\ Q64 * less \in Int /\ Q64 * out \in Int /\ price * into \in Int /\ price * more \in Int
      /\ price * less \in Int /\ price * out \in Int /\ Q64 * into \in Int /\ Q64 * more \in Int
  BY <1>1
<1>4. CASE d
  BY <1>2, <1>3, <1>4 DEF AtItsPrice
<1>5. CASE ~d
  BY <1>2, <1>3, <1>5 DEF AtItsPrice
<1> QED
  BY <1>4, <1>5

\* Whatever its amounts, its price, the fee and the amount, a bin that is swapped
\* with takes no more than the amount, so that the unchecked subtraction of the
\* walk does not wrap, gives no more than it holds, and never gives more than its
\* price allows (Bin::swap, quote_exact_in).
THEOREM BinTradesAtItsPrice ==
    ASSUME NEW bin, bin.x \in Nat, bin.y \in Nat, NEW amount \in Nat,
           NEW price \in Nat \ {0}, NEW rate \in 0..MaxFeeRate, NEW d \in BOOLEAN,
           NEW step, step = swap(bin, amount, price, rate, d), step.is = "step"
    PROVE  /\ step.amount_in \in 0..amount
           /\ step.amount_out \in 0..get_max_amount_out(bin, d)
           /\ AtItsPrice(step.amount_out, price, step.amount_in, d)
<1> DEFINE whole == get_max_amount_in(bin, price, d)
           whole_fee == compute_fee(whole, rate)
           fee == compute_fee_from_amount(amount, rate)
           bought == get_amount_out(amount - fee, price, d)
           store == get_max_amount_out(bin, d)
           takes_all == amount > whole + whole_fee
<1>0. store = get_max_amount_out(bin, d)
  OBVIOUS
<1>1. whole \in Nat /\ store \in Nat /\ AtItsPrice(store, price, whole, d)
  BY AllAtItsPrice
<1>2. rate \in Nat /\ rate =< FeePrecision /\ FeePrecision \in Nat \ {0}
      /\ FeePrecision - rate \in Nat \ {0}
  BY FeeAssumption, BinAssumption
<1>3. fee \in 0..amount
  BY <1>2, PartWithin DEF compute_fee_from_amount
<1>4. step.amount_in = (IF takes_all THEN whole + whole_fee ELSE (amount - fee) + fee)
      /\ step.amount_out = (IF takes_all THEN store ELSE Min({bought, store}))
  BY DEF swap
<1> HIDE DEF whole, store
<1>5. whole_fee \in Nat
  <2>1. whole * rate \in Nat
    BY <1>1, <1>2
  <2> QED
    BY <1>2, <2>1, CeilDivFacts DEF compute_fee
<1> HIDE DEF whole_fee, fee
<1>6. amount - fee \in 0..amount /\ (amount - fee) + fee = amount
  BY <1>3
<1>7. bought \in Nat /\ AtItsPrice(bought, price, amount - fee, d)
  BY <1>6, BoughtAtItsPrice
<1> HIDE DEF bought
<1>8. CASE takes_all
  <2>1. step.amount_in = whole + whole_fee /\ step.amount_out = store
    BY <1>4, <1>8
  <2>2. AtItsPrice(store, price, whole + whole_fee, d)
    BY <1>1, <1>5, PriceWithin
  <2> QED
    BY <1>0, <1>1, <1>5, <1>8, <2>1, <2>2
<1>9. CASE ~takes_all
  <2>1. step.amount_in = amount /\ step.amount_out = Min({bought, store})
    BY <1>4, <1>6, <1>9
  <2>2. Min({bought, store}) \in 0..store /\ Min({bought, store}) \in 0..bought
    BY <1>1, <1>7, LeastOfTwo
  <2>3. AtItsPrice(Min({bought, store}), price, amount, d)
    BY <1>6, <1>7, <2>2, PriceWithin
  <2> QED
    BY <1>0, <2>1, <2>2, <2>3
<1> QED
  BY <1>8, <1>9

-----------------------------------------------------------------------------
(* Fees of DAMM v2 *)

LEMMA TransferFeeWithin ==
    ASSUME NEW amount \in Nat, NEW f,
           f.denominator \in Nat \ {0}, f.fee_bps \in 0..f.denominator, f.max_fee \in Nat
    PROVE  AfterTransferFee(amount, f) \in 0..amount
<1>1. PICK bps, denominator, max :
        /\ bps = f.fee_bps /\ denominator = f.denominator /\ max = f.max_fee
        /\ denominator \in Nat \ {0} /\ bps \in 0..denominator /\ max \in Nat
  OBVIOUS
<1>2. CeilDiv(amount * bps, denominator) \in 0..amount
  BY <1>1, PartWithin
<1>3. PICK raw : raw = CeilDiv(amount * bps, denominator)
  OBVIOUS
<1>4. AfterTransferFee(amount, f) = amount - (IF raw < max THEN raw ELSE max)
  BY <1>1, <1>3 DEF AfterTransferFee
<1> QED
  BY <1>1, <1>2, <1>3, <1>4

LEMMA VariableFeeIsNat ==
    ASSUME NEW control \in Nat, NEW accumulator \in Nat, NEW step \in Nat
    PROVE  VariableFee(control, accumulator, step) \in Nat
<1>1. accumulator * step \in Nat
  OBVIOUS
<1>2. control * (accumulator * step) \in Nat
  BY <1>1
<1>3. control * (accumulator * step) * (accumulator * step) \in Nat
  BY <1>1, <1>2
<1>4. VariableFeeScale \in Nat \ {0}
  BY FeeAssumption
<1> QED
  BY <1>3, <1>4, CeilDivFacts DEF VariableFee

\* A fee of at most half an amount leaves some of it.
LEMMA FeeLeaves ==
    ASSUME NEW amount \in Nat, NEW pool, NEW fee, NEW point,
           pool.volatility_accumulator \in Nat,
           fee.variable_fee_control \in Nat, fee.bin_step \in Nat,
           BaseFee(fee, point) \in Nat
    PROVE  LessFee(amount, pool, fee, point) \in 0..amount
<1> DEFINE rate == BaseFee(fee, point) + get_variable_fee(pool, fee)
           capped == IF rate > MaxFeeNumerator THEN MaxFeeNumerator ELSE rate
<1>1. get_variable_fee(pool, fee) \in Nat
  BY VariableFeeIsNat DEF get_variable_fee
<1>2. FeePrecision \in Nat \ {0} /\ MaxFeeNumerator \in 0..FeePrecision
  BY FeeAssumption DEF MaxFeeNumerator
<1>3. rate \in Nat
  BY <1>1
<1>4. capped \in Nat /\ capped =< FeePrecision
  BY <1>2, <1>3
<1> HIDE DEF capped
<1>5. CeilDiv(amount * capped, FeePrecision) \in 0..amount
  BY <1>2, <1>4, PartWithin
<1> QED
  BY <1>5 DEF LessFee, capped

-----------------------------------------------------------------------------
(* Quotes of DAMM v2 *)

\* An amount quoted for a DAMM v2 pool is at most what keeps the product of a
\* state the pool had on chain, for at most the amount that goes in (get_quote).
DammKeeps ==
    walk.is = "amount" /\ terms.dex = "MeteoraDAMMV2" =>
        \E s \in past, spent \in 0..amount_in, out \in Nat :
            Keeps(s, spent, out, down) /\ walk.amount_out \in 0..out

LEMMA QuoteKeeps ==
    ASSUME NEW t \in Terms, t.dex = "MeteoraDAMMV2", NEW s \in States["MeteoraDAMMV2"],
           NEW amount \in Nat, NEW d \in BOOLEAN,
           QuoteDamm(Pool(s), amount, t.fee, Now, Slot, d).is = "amount"
    PROVE  \E spent \in 0..amount, out \in Nat :
               /\ Keeps(s, spent, out, d)
               /\ QuoteDamm(Pool(s), amount, t.fee, Now, Slot, d).amount_out \in 0..out
<1> DEFINE point == CurrentPoint(t.fee.activation_type, Now, Slot)
           received == AfterTransferFee(amount, t.fee.transfer[IF d THEN 1 ELSE 2])
           less_fee == LessFee(received, Pool(s), t.fee, point)
           spent == IF FeesOnInput(t.fee, d) THEN less_fee ELSE received
           out == CurveOut(s, spent, d)
           quote == QuoteDamm(Pool(s), amount, t.fee, Now, Slot, d)
<1>1. /\ s.liquidity \in Nat /\ s.price \in Nat \ {0}
      /\ Pool(s).liquidity = s.liquidity /\ Pool(s).sqrt_price = s.price
      /\ Pool(s).volatility_accumulator \in Nat
  BY StretchAssumption DEF Pool
<1>2. /\ t.fee.variable_fee_control \in Nat /\ t.fee.bin_step \in Nat
      /\ BaseFee(t.fee, point) \in Int
  BY StretchAssumption
<1>3. /\ s.liquidity # 0 /\ BaseFee(t.fee, point) >= 0
      /\ quote.amount_out = IF FeesOnInput(t.fee, d) THEN out
                            ELSE LessFee(out, Pool(s), t.fee, point)
  BY <1>1, <1>2 DEF QuoteDamm, CurveOut
<1>4. BaseFee(t.fee, point) \in Nat
  BY <1>2, <1>3
<1>5. received \in 0..amount
  <2>1. (IF d THEN 1 ELSE 2) \in 1..2
    OBVIOUS
  <2> QED
    BY <2>1, StretchAssumption, TransferFeeWithin
<1> HIDE DEF received, point
<1>6. less_fee \in 0..received
  BY <1>1, <1>2, <1>4, <1>5, FeeLeaves
<1> HIDE DEF less_fee
<1>7. spent \in 0..amount
  BY <1>5, <1>6
<1> HIDE DEF spent
<1>8. out \in Nat /\ Keeps(s, spent, out, d)
  BY <1>1, <1>3, <1>7, CurveKeepsTheProduct
<1> HIDE DEF out
<1>9. LessFee(out, Pool(s), t.fee, point) \in 0..out
  BY <1>1, <1>2, <1>4, <1>8, FeeLeaves
<1>10. quote.amount_out \in 0..out
  BY <1>3, <1>8, <1>9
<1> QED
  BY <1>7, <1>8, <1>10

\* The pool a quote is about, and what of it the cache and the quote hold: an
\* account of a state the pool had.
Given ==
    /\ terms \in Terms /\ down \in BOOLEAN /\ amount_in \in AmountsIn
    /\ chain \in past /\ past \subseteq States[terms.dex]

Had(pool) == \E s \in past : pool = Pool(s)

StretchInv ==
    /\ "pool" \in DOMAIN cache /\ {"pool", "keys"} \subseteq DOMAIN held
    /\ terms.dex = "MeteoraDAMMV2" =>
        /\ Had(cache.pool)
        /\ next \in {"pool", "begin", "list", "none", "done"}
        /\ next = "pool" => walk.is = "reading"
        /\ next = "begin" => Had(held.pool)

QuoteInv == Given /\ StretchInv /\ DammKeeps

LEMMA OneStretch ==
    ASSUME NEW s
    PROVE  /\ PoolAccount("MeteoraDAMMV2", s) = Pool(s)
           /\ ~HasBitmaps("MeteoraDAMMV2")
           /\ ArrayKeys("MeteoraDAMMV2") = {}
  BY DEF PoolAccount, HasBitmaps, HasTicks, ArrayKeys

LEMMA QuoteInit == Init => QuoteInv
<1> SUFFICES ASSUME Init PROVE QuoteInv
  OBVIOUS
<1> USE DEF Init
<1>1. Given
  BY DEF Given
<1>2. StretchInv
  <2>1. cache.pool = PoolAccount(terms.dex, chain) /\ "pool" \in DOMAIN cache
    BY DEF Accounts
  <2>2. {"pool", "keys"} \subseteq DOMAIN held
    BY DEF Unread
  <2>3. walk.is = "reading"
    BY DEF Idle
  <2> QED
    BY <2>1, <2>2, <2>3, OneStretch DEF StretchInv, Had
<1>3. DammKeeps
  BY DEF DammKeeps, Idle
<1> QED
  BY <1>1, <1>2, <1>3 DEF QuoteInv

\* What is quoted stays when the pool moves on.
LEMMA KeptWhenPastGrows ==
    ASSUME DammKeeps, past \subseteq past', UNCHANGED <<pvars, walk>>
    PROVE  DammKeeps'
  BY DEF DammKeeps, pvars

LEMMA QuoteNext == QuoteInv /\ [Next]_vars => QuoteInv'
<1> SUFFICES ASSUME QuoteInv, [Next]_vars PROVE QuoteInv'
  OBVIOUS
<1> USE DEF QuoteInv
<1>1. CASE Move
  <2> USE <1>1 DEF Move, pvars
  <2>1. past \subseteq past' /\ UNCHANGED <<pvars, cache, next, held, walk>>
    OBVIOUS
  <2>2. Given'
    BY DEF Given
  <2>3. StretchInv'
    BY <2>1 DEF StretchInv, Had
  <2>4. DammKeeps'
    BY <2>1, KeptWhenPastGrows
  <2> QED
    BY <2>2, <2>3, <2>4
<1>2. CASE Update
  <2>1. UNCHANGED <<pvars, cvars, next, held, walk>>
    BY <1>2 DEF Update
  <2>2. Given'
    BY <2>1 DEF Given, pvars, cvars
  <2>3. "pool" \in DOMAIN cache' /\ cache'.pool \in {cache.pool, PoolAccount(terms.dex, chain)}
    <3>1. "pool" \in DOMAIN cache
      BY DEF StretchInv
    <3>2. Accounts(terms.dex, chain).pool = PoolAccount(terms.dex, chain)
      BY DEF Accounts
    <3>3. \/ cache' = [cache EXCEPT !.pool = Accounts(terms.dex, chain).pool]
          \/ cache' = [cache EXCEPT !.extension = ExtensionAccount(terms.dex, chain)]
          \/ cache' = [cache EXCEPT !.oracle = Accounts(terms.dex, chain).oracle]
          \/ \E i \in ArrayKeys(terms.dex) :
                cache' = [cache EXCEPT !.arrays[i] = ArrayAccount(terms.dex, chain, i)]
      BY <1>2 DEF Update
    <3> QED
      BY <3>1, <3>2, <3>3
  <2>4. StretchInv'
    <3>1. {"pool", "keys"} \subseteq DOMAIN held'
      BY <2>1 DEF StretchInv
    <3>2. ASSUME terms.dex = "MeteoraDAMMV2" PROVE Had(cache.pool)'
      BY <2>1, <2>3, <3>2, OneStretch DEF StretchInv, Had, Given, cvars
    <3> QED
      BY <2>1, <2>3, <3>1, <3>2 DEF StretchInv, Had, pvars, cvars
  <2>5. DammKeeps'
    BY <2>1, KeptWhenPastGrows DEF cvars
  <2> QED
    BY <2>2, <2>4, <2>5
<1>3. CASE ReadPool
  <2>1. UNCHANGED <<pvars, cvars, cache, walk>>
    BY <1>3 DEF ReadPool
  <2>2. Given'
    BY <2>1 DEF Given, pvars, cvars
  <2>3. /\ {"pool", "keys"} \subseteq DOMAIN held'
        /\ held'.pool = cache.pool /\ held'.keys = KeysOfPool(cache.pool)
    BY <1>3 DEF ReadPool, StretchInv
  <2>4. ASSUME terms.dex = "MeteoraDAMMV2" PROVE next' = "begin"
    BY <1>3, <2>3, <2>4, OneStretch DEF ReadPool, KeysOfPool
  <2>5. StretchInv'
    BY <2>1, <2>3, <2>4 DEF StretchInv, Had, pvars, cvars
  <2>6. DammKeeps'
    BY <2>1, KeptWhenPastGrows DEF cvars
  <2> QED
    BY <2>2, <2>5, <2>6
<1>4. CASE ReadExtension
  <2>1. UNCHANGED <<pvars, cvars, cache>> /\ next = "extension"
    BY <1>4 DEF ReadExtension
  <2>2. terms.dex # "MeteoraDAMMV2"
    BY <2>1 DEF StretchInv
  <2>3. Given'
    BY <2>1 DEF Given, pvars, cvars
  <2>4. {"pool", "keys"} \subseteq DOMAIN held'
    BY <1>4 DEF ReadExtension, StretchInv
  <2> QED
    BY <2>1, <2>2, <2>3, <2>4 DEF StretchInv, DammKeeps, pvars
<1>5. CASE ReadArray
  <2>1. UNCHANGED <<pvars, cvars, cache, walk>> /\ next = "arrays"
    BY <1>5 DEF ReadArray
  <2>2. terms.dex # "MeteoraDAMMV2"
    BY <2>1 DEF StretchInv
  <2>3. Given'
    BY <2>1 DEF Given, pvars, cvars
  <2>4. {"pool", "keys"} \subseteq DOMAIN held'
    BY <1>5 DEF ReadArray, StretchInv
  <2> QED
    BY <2>1, <2>2, <2>3, <2>4 DEF StretchInv, DammKeeps, pvars
<1>6. CASE ReadOracle
  <2>1. UNCHANGED <<pvars, cvars, cache, walk>> /\ next = "oracle"
    BY <1>6 DEF ReadOracle
  <2>2. terms.dex # "MeteoraDAMMV2"
    BY <2>1 DEF StretchInv
  <2>3. Given'
    BY <2>1 DEF Given, pvars, cvars
  <2>4. {"pool", "keys"} \subseteq DOMAIN held'
    BY <1>6 DEF ReadOracle, StretchInv
  <2> QED
    BY <2>1, <2>2, <2>3, <2>4 DEF StretchInv, DammKeeps, pvars
<1>7. CASE Begin
  <2>1. UNCHANGED <<pvars, cvars, cache, held>> /\ next = "begin" /\ next' = AfterWalk(walk')
    BY <1>7 DEF Begin
  <2>2. Given'
    BY <2>1 DEF Given, pvars, cvars
  <2>3. CASE terms.dex # "MeteoraDAMMV2"
    BY <2>1, <2>2, <2>3 DEF StretchInv, DammKeeps, pvars
  <2>4. CASE terms.dex = "MeteoraDAMMV2"
    <3>1. walk' = QuoteDamm(held.pool, amount_in, terms.fee, Now, Slot, down)
      BY <1>7, <2>4 DEF Begin
    <3>2. PICK s \in past : held.pool = Pool(s)
      BY <2>1, <2>4 DEF StretchInv, Had
    <3>3. walk'.is \in Ended
      BY <3>1 DEF QuoteDamm, Ended
    <3>4. next' \in {"list", "none"}
      BY <2>1, <3>3 DEF AfterWalk, Ended
    <3>5. StretchInv'
      BY <2>1, <2>4, <3>4 DEF StretchInv, Had, pvars, cvars
    <3>6. DammKeeps'
      <4>1. ASSUME walk'.is = "amount"
            PROVE  \E spent \in 0..amount_in, out \in Nat :
                     Keeps(s, spent, out, down) /\ walk'.amount_out \in 0..out
        <5>1. /\ terms \in Terms /\ s \in States["MeteoraDAMMV2"]
              /\ amount_in \in Nat /\ down \in BOOLEAN
          BY <2>4, StretchAssumption DEF Given
        <5> QED
          BY <2>4, <3>1, <3>2, <4>1, <5>1, QuoteKeeps
      <4> QED
        BY <2>1, <4>1 DEF DammKeeps, pvars, cvars
    <3> QED
      BY <2>2, <3>5, <3>6
  <2> QED
    BY <2>3, <2>4
<1>8. CASE Walk
  <2>1. UNCHANGED <<pvars, cvars, cache, held>> /\ next = "walk"
    BY <1>8 DEF Walk
  <2>2. terms.dex # "MeteoraDAMMV2"
    BY <2>1 DEF StretchInv
  <2>3. Given'
    BY <2>1 DEF Given, pvars, cvars
  <2> QED
    BY <2>1, <2>2, <2>3 DEF StretchInv, DammKeeps, pvars
<1>9. CASE ListPool
  <2>1. UNCHANGED <<pvars, cvars, cache, held, walk>> /\ next = "list"
    BY <1>9 DEF ListPool
  <2>2. Given'
    BY <2>1 DEF Given, pvars, cvars
  <2>3. ASSUME terms.dex = "MeteoraDAMMV2" PROVE next' = "done"
    BY <1>9, <2>3, OneStretch DEF ListPool
  <2>4. StretchInv'
    BY <2>1, <2>3 DEF StretchInv, Had, pvars, cvars
  <2>5. DammKeeps'
    BY <2>1, KeptWhenPastGrows DEF cvars
  <2> QED
    BY <2>2, <2>4, <2>5
<1>10. CASE ListArrays
  <2>1. UNCHANGED <<pvars, cvars, cache, held>> /\ next = "list arrays"
    BY <1>10 DEF ListArrays
  <2>2. terms.dex # "MeteoraDAMMV2"
    BY <2>1 DEF StretchInv
  <2>3. Given'
    BY <2>1 DEF Given, pvars, cvars
  <2> QED
    BY <2>1, <2>2, <2>3 DEF StretchInv, DammKeeps, pvars
<1>11. CASE UNCHANGED vars
  BY <1>11 DEF vars, Given, StretchInv, Had, DammKeeps
<1> QED
  BY <1>1, <1>2, <1>3, <1>4, <1>5, <1>6, <1>7, <1>8, <1>9, <1>10, <1>11 DEF Next

\* Whatever the transactions between the reads, an amount quoted for a DAMM v2
\* pool never asks of a state it had on chain more than its product allows
\* (get_quote with the pool account the cache held).
THEOREM DammQuotesKeepThePool == Spec => []DammKeeps
<1>1. QuoteInv => DammKeeps
  BY DEF QuoteInv
<1> QED
  BY QuoteInit, QuoteNext, <1>1, PTL DEF Spec

-----------------------------------------------------------------------------
(* Ticks and prices *)

LEMMA NearerIs ==
    ASSUME NEW a \in Int, NEW b \in Int, NEW d \in BOOLEAN
    PROVE  Nearer(a, b, d) = IF d THEN (IF a >= b THEN a ELSE b) ELSE (IF a =< b THEN a ELSE b)
  BY OfTwo DEF Nearer

LEMMA ClampedIs ==
    ASSUME NEW t \in Int
    PROVE  /\ Clamped(t) = IF t < MinTick THEN MinTick ELSE IF t > MaxTick THEN MaxTick ELSE t
           /\ Clamped(t) \in MinTick..MaxTick
<1>1. Min({t, MaxTick}) = IF t =< MaxTick THEN t ELSE MaxTick
  BY TickRange, OfTwo
<1>2. PICK m \in Int : m = Min({t, MaxTick})
  BY <1>1, TickRange
<1>3. Max({MinTick, m}) = IF MinTick >= m THEN MinTick ELSE m
  BY <1>2, TickRange, OfTwo
<1> QED
  BY <1>1, <1>2, <1>3, TickRange DEF Clamped

\* Prices grow with the ticks.
LEMMA PricesGrow ==
    \A t, u \in MinTick..MaxTick : t < u => SqrtPrice[t] < SqrtPrice[u]
<1> SUFFICES ASSUME NEW t \in MinTick..MaxTick, NEW v \in MinTick..MaxTick, t < v,
                    ~(SqrtPrice[t] < SqrtPrice[v])
             PROVE  FALSE
  OBVIOUS
<1> DEFINE T == {n \in Nat : /\ t + 1 + n \in MinTick..MaxTick
                             /\ ~(SqrtPrice[t] < SqrtPrice[t + 1 + n])}
<1>0. t \in Int /\ v \in Int /\ MinTick \in Int /\ MaxTick \in Int
  BY TickRange
<1>1. v - t - 1 \in T
  <2>1. PICK n \in Nat : n = v - t - 1
    BY <1>0
  <2>2. t + 1 + n = v
    BY <1>0, <2>1
  <2>3. n \in T
    BY <2>2
  <2> QED
    BY <2>1, <2>3
<1>2. PICK n \in T : \A y \in T : n =< y
  BY <1>1, LeastNat
<1>3. PICK u \in MinTick..MaxTick : u = t + 1 + n /\ n \in Nat /\ ~(SqrtPrice[t] < SqrtPrice[u])
  BY <1>2
<1>4. u - 1 \in MinTick..(MaxTick - 1) /\ SqrtPrice[u - 1] < SqrtPrice[u]
  <2>1. u - 1 \in MinTick..(MaxTick - 1) /\ (u - 1) + 1 = u
    BY <1>0, <1>3
  <2> QED
    BY <2>1, SwapAssumption
<1>5. SqrtPrice[t] \in Nat /\ SqrtPrice[u] \in Nat /\ SqrtPrice[u - 1] \in Nat
  BY <1>0, <1>4, SwapAssumption
<1>6. CASE n = 0
  BY <1>0, <1>3, <1>4, <1>6
<1>7. CASE n # 0
  <2>1. PICK k \in Nat : n = k + 1
    BY <1>3, <1>7
  <2>2. u - 1 = t + 1 + k
    BY <1>0, <1>3, <2>1
  <2>3. ~(SqrtPrice[t] < SqrtPrice[u - 1])
    BY <1>3, <1>4, <1>5
  <2>4. k \in T
    BY <1>0, <1>4, <2>2, <2>3
  <2> QED
    BY <1>2, <1>3, <2>1, <2>4
<1> QED
  BY <1>6, <1>7

LEMMA Prices ==
    /\ \A t \in MinTick..MaxTick : SqrtPrice[t] \in Nat \ {0}
    /\ \A t, u \in MinTick..MaxTick :
         /\ t < u <=> SqrtPrice[t] < SqrtPrice[u]
         /\ t =< u <=> SqrtPrice[t] =< SqrtPrice[u]
         /\ t = u <=> SqrtPrice[t] = SqrtPrice[u]
<1>1. \A t \in MinTick..MaxTick : t \in Int /\ SqrtPrice[t] \in Nat \ {0}
  BY SwapAssumption, TickRange
<1>2. \A t, u \in MinTick..MaxTick : t < u \/ u < t \/ t = u
  BY <1>1
<1> QED
  BY <1>1, <1>2, PricesGrow

\* The tick of a price, of the price of a tick that tick.
LEMMA TickOfPrice ==
    ASSUME NEW price \in Int, SqrtPrice[MinTick] =< price
    PROVE  /\ sqrt_price_to_tick_index(price) \in MinTick..MaxTick
           /\ \A t \in MinTick..MaxTick : price = SqrtPrice[t] => sqrt_price_to_tick_index(price) = t
<1> DEFINE S == {t \in MinTick..MaxTick : SqrtPrice[t] =< price}
<1>1. S \subseteq MinTick..MaxTick /\ MinTick \in S
  BY TickRange
<1>2. Max(S) \in S /\ \A x \in S : x =< Max(S)
  BY <1>1, TickRange, GreatestOf
<1>3. sqrt_price_to_tick_index(price) = Max(S)
  BY DEF sqrt_price_to_tick_index, get_tick_at_sqrt_price
<1>4. ASSUME NEW t \in MinTick..MaxTick, price = SqrtPrice[t] PROVE Max(S) = t
  <2>1. t \in S
    BY <1>4, Prices
  <2>2. Max(S) =< t
    BY <1>2, <1>4, Prices
  <2> QED
    BY <1>2, <2>1, <2>2, TickRange
<1> QED
  BY <1>2, <1>3, <1>4

-----------------------------------------------------------------------------
(* Amounts and prices of one step of a Whirlpool *)

\* What is less than a rounded up quotient is less than the quotient.
LEMMA BelowCeilDiv ==
    ASSUME NEW n \in Nat, NEW d \in Nat \ {0}, NEW x \in Nat, x < CeilDiv(n, d)
    PROVE  d * x < n
<1>1. PICK c \in Nat : c = CeilDiv(n, d)
  BY CeilDivFacts
<1>2. d * c < n + d
  BY <1>1, CeilDivFacts
<1>3. d * (x + 1) =< d * c
  <2>1. x + 1 \in Nat /\ x + 1 =< c
    BY <1>1
  <2> QED
    BY <2>1, Products
<1>4. d * (x + 1) = d * x + d /\ d * x \in Nat /\ d * c \in Nat
  BY <1>1
<1> QED
  BY <1>2, <1>3, <1>4

\* The price falls, and not below where all it could take was too little for.
LEMMA PriceFalls ==
    ASSUME NEW P \in Nat \ {0}, NEW T \in Nat \ {0}, T =< P, NEW L \in Nat, NEW Q \in Nat \ {0},
           NEW x \in Nat, (T * P) * x < L * (P - T) * Q
    PROVE  CeilDiv(L * P * Q, (L * Q) + (P * x)) \in T..P
<1> DEFINE LQ == L * Q
           d == LQ + (P * x)
           n == L * P * Q
           c == CeilDiv(n, d)
<1>1. LQ \in Nat /\ P * x \in Nat /\ n = P * LQ /\ n \in Nat
  OBVIOUS
<1>2. L # 0 /\ LQ \in Nat \ {0}
  <2>1. (T * P) * x \in Nat
    OBVIOUS
  <2>2. L # 0
    BY <2>1
  <2> QED
    BY <2>2
<1>3. d \in Nat \ {0}
  BY <1>1, <1>2
<1>4. d * T < n
  <2>1. d * T = (T * LQ) + ((T * P) * x)
    BY <1>1
  <2>2. L * (P - T) * Q = (P * LQ) - (T * LQ)
    BY <1>1
  <2>3. T * LQ \in Nat /\ P * LQ \in Nat /\ (T * P) * x \in Nat
    BY <1>1
  <2> QED
    BY <1>1, <2>1, <2>2, <2>3
<1>5. n =< d * P
  <2>1. d * P = (P * LQ) + (P * (P * x))
    BY <1>1
  <2>2. P * (P * x) \in Nat /\ P * LQ \in Nat
    BY <1>1
  <2> QED
    BY <1>1, <2>1, <2>2
<1> HIDE DEF d, n, LQ
<1>6. c \in Nat /\ n =< d * c /\ d * c < n + d
  BY <1>1, <1>3, CeilDivFacts
<1> HIDE DEF c
<1>7. T < c
  <2>1. d * T < d * c
    <3>1. d * T \in Nat /\ d * c \in Nat
      BY <1>3, <1>6
    <3> QED
      BY <1>1, <1>4, <1>6, <3>1
  <2> QED
    BY <1>3, <1>6, <2>1, Products
<1>8. c < P + 1
  <2>1. d * (P + 1) = d * P + d /\ d * P \in Nat /\ d * c \in Nat
    BY <1>3, <1>6
  <2>2. d * c < d * (P + 1)
    BY <1>1, <1>3, <1>5, <1>6, <2>1
  <2> QED
    BY <1>3, <1>6, <2>2, Products
<1> QED
  BY <1>6, <1>7, <1>8 DEF c, d, n, LQ

LEMMA PriceRises ==
    ASSUME NEW P \in Nat, NEW T \in Nat, P =< T, NEW L \in Nat, NEW Q \in Nat \ {0},
           NEW x \in Nat, Q * x < L * (T - P)
    PROVE  P + ((x * Q) \div L) \in P..T
<1> DEFINE n == x * Q
           q == n \div L
<1>1. n \in Nat /\ n < L * (T - P) /\ T - P \in Nat
  OBVIOUS
<1>2. L \in Nat \ {0}
  BY <1>1
<1> HIDE DEF n
<1>3. q \in Nat /\ L * q =< n
  BY <1>1, <1>2, DivFacts
<1> HIDE DEF q
<1>4. L * q < L * (T - P)
  <2>1. L * q \in Nat /\ L * (T - P) \in Nat
    BY <1>1, <1>3
  <2> QED
    BY <1>1, <1>3, <2>1
<1>5. q < T - P
  BY <1>1, <1>2, <1>3, <1>4, Products
<1> QED
  BY <1>1, <1>3, <1>5 DEF q, n

\* Between two prices lies a number of each token, not less than none.
LEMMA Deltas ==
    ASSUME NEW lo \in Nat \ {0}, NEW hi \in Nat, lo =< hi, NEW L \in Nat, NEW up \in BOOLEAN
    PROVE  /\ try_get_amount_delta_a(lo, hi, L, up) \in Nat
           /\ try_get_amount_delta_b(lo, hi, L, up) \in Nat
<1>1. Q64 \in Nat \ {0}
  BY WidthAssumption
<1>2. PICK w \in Nat : w = hi - lo
  OBVIOUS
<1>3. L * w \in Nat /\ L * w * Q64 \in Nat /\ lo * hi \in Nat \ {0}
  BY <1>1, <1>2
<1>4. /\ CeilDiv(L * w * Q64, lo * hi) \in Nat /\ (L * w * Q64) \div (lo * hi) \in Nat
      /\ CeilDiv(L * w, Q64) \in Nat /\ (L * w) \div Q64 \in Nat
  BY <1>1, <1>3, CeilDivFacts, DivFacts
<1> QED
  BY <1>2, <1>4 DEF try_get_amount_delta_a, try_get_amount_delta_b, Rounded

\* Where the price goes lies between where it is and the target.
OnTheWay(price, target, d) == IF d THEN target =< price ELSE price =< target

LEMMA LessFeeWithin ==
    ASSUME NEW amount \in Nat, NEW rate \in 0..(FeeDenominator - 1)
    PROVE  try_apply_swap_fee(amount, rate) \in 0..amount
<1>1. FeeDenominator \in Nat \ {0}
  BY SwapAssumption
<1>2. PICK part \in 0..FeeDenominator : part = FeeDenominator - rate
  BY <1>1
<1>3. amount * part \in Nat /\ amount * part =< FeeDenominator * amount
  BY <1>1, <1>2, Products
<1>4. PICK q : q = (amount * part) \div FeeDenominator
  OBVIOUS
<1>5. q \in Nat /\ FeeDenominator * q =< amount * part
  BY <1>1, <1>3, <1>4, DivFacts
<1>6. FeeDenominator * q =< FeeDenominator * amount
  <2>1. FeeDenominator * q \in Nat /\ FeeDenominator * amount \in Nat
    BY <1>1, <1>5
  <2> QED
    BY <1>3, <1>5, <2>1
<1>7. q =< amount
  BY <1>1, <1>5, <1>6, Products
<1> QED
  BY <1>2, <1>4, <1>5, <1>7 DEF try_apply_swap_fee

\* What is too little to reach the target moves the price on the way to it.
LEMMA PriceMoves ==
    ASSUME NEW price \in Nat \ {0}, NEW target \in Nat \ {0}, NEW L \in Nat, NEW x \in Nat,
           NEW d \in BOOLEAN, OnTheWay(price, target, d),
           x < FixedDelta(price, target, L, d)
    PROVE  LET after == try_get_next_sqrt_price(price, L, x, d)
           IN  /\ after \in Nat
               /\ OnTheWay(price, after, d) /\ OnTheWay(after, target, d)
<1>1. Q64 \in Nat \ {0}
  BY WidthAssumption
<1>2. CASE x = 0
  BY <1>2 DEF try_get_next_sqrt_price, OnTheWay
<1>3. CASE x # 0 /\ d
  <2>1. target =< price /\ price - target \in Nat
    BY <1>3 DEF OnTheWay
  <2>2. FixedDelta(price, target, L, d) = CeilDiv(L * (price - target) * Q64, target * price)
    BY <1>3 DEF FixedDelta, try_get_amount_delta_a, Rounded
  <2>3. L * (price - target) * Q64 \in Nat /\ target * price \in Nat \ {0}
    BY <1>1, <2>1
  <2>4. (target * price) * x < L * (price - target) * Q64
    BY <2>2, <2>3, BelowCeilDiv
  <2>5. CeilDiv(L * price * Q64, (L * Q64) + (price * x)) \in target..price
    BY <1>1, <2>1, <2>4, PriceFalls
  <2> QED
    BY <1>3, <2>5 DEF OnTheWay, try_get_next_sqrt_price, try_get_next_sqrt_price_from_a
<1>4. CASE x # 0 /\ ~d
  <2>1. price =< target /\ target - price \in Nat
    BY <1>4 DEF OnTheWay
  <2>2. FixedDelta(price, target, L, d) = CeilDiv(L * (target - price), Q64)
    BY <1>4 DEF FixedDelta, try_get_amount_delta_b, Rounded
  <2>3. L * (target - price) \in Nat
    BY <2>1
  <2>4. Q64 * x < L * (target - price)
    BY <1>1, <2>2, <2>3, BelowCeilDiv
  <2>5. price + ((x * Q64) \div L) \in price..target
    BY <1>1, <2>1, <2>4, PriceRises
  <2> QED
    BY <1>4, <2>5 DEF OnTheWay, try_get_next_sqrt_price, try_get_next_sqrt_price_from_b
<1> QED
  BY <1>2, <1>3, <1>4

LEMMA DeltasOnTheWay ==
    ASSUME NEW price \in Nat \ {0}, NEW target \in Nat \ {0}, NEW L \in Nat,
           NEW d \in BOOLEAN, OnTheWay(price, target, d)
    PROVE  /\ FixedDelta(price, target, L, d) \in Nat
           /\ UnfixedDelta(price, target, L, d) \in Nat
<1>1. CASE d
  <2>1. target =< price
    BY <1>1 DEF OnTheWay
  <2>2. \A up \in BOOLEAN : /\ try_get_amount_delta_a(target, price, L, up) \in Nat
                            /\ try_get_amount_delta_b(target, price, L, up) \in Nat
    BY <2>1, Deltas
  <2> QED
    BY <1>1, <2>2 DEF FixedDelta, UnfixedDelta
<1>2. CASE ~d
  <2>1. price =< target
    BY <1>2 DEF OnTheWay
  <2>2. \A up \in BOOLEAN : /\ try_get_amount_delta_a(price, target, L, up) \in Nat
                            /\ try_get_amount_delta_b(price, target, L, up) \in Nat
    BY <2>1, Deltas
  <2> QED
    BY <1>2, <2>2 DEF FixedDelta, UnfixedDelta
<1> QED
  BY <1>1, <1>2

\* A step ends between the price and the target, and before the target only
\* when it has taken all there is.
LEMMA StepIs ==
    ASSUME NEW price \in Nat \ {0}, NEW target \in Nat \ {0}, NEW L \in Nat,
           NEW remaining \in Nat, Fits(remaining), NEW rate \in 0..(FeeDenominator - 1),
           NEW d \in BOOLEAN, OnTheWay(price, target, d),
           WhirlpoolStep(price, target, L, remaining, rate, d).is # "none"
    PROVE  LET step == WhirlpoolStep(price, target, L, remaining, rate, d)
           IN  /\ step.price \in SqrtPrice[MinTick]..SqrtPrice[MaxTick]
               /\ OnTheWay(price, step.price, d) /\ OnTheWay(step.price, target, d)
               /\ step.amount_in \in Nat /\ step.amount_out \in Nat /\ step.fee_amount \in Int
               /\ step.fee_amount >= 0
               /\ step.price # target => remaining - step.amount_in - step.fee_amount = 0
<1> DEFINE initial == FixedDelta(price, target, L, d)
           less_fee == try_apply_swap_fee(remaining, rate)
           reached == Fits(initial) /\ initial =< less_fee
           after == IF reached THEN target ELSE try_get_next_sqrt_price(price, L, less_fee, d)
           taken == IF after = target /\ Fits(initial) THEN initial
                    ELSE FixedDelta(price, after, L, d)
           amount_out == UnfixedDelta(price, after, L, d)
           fee == IF after # target THEN remaining - taken
                  ELSE try_reverse_apply_swap_fee(taken, rate) - taken
           step == WhirlpoolStep(price, target, L, remaining, rate, d)
<1>1. initial \in Nat
  BY DeltasOnTheWay
<1>2. less_fee \in 0..remaining
  BY LessFeeWithin
<1>3. after \in Nat /\ OnTheWay(price, after, d) /\ OnTheWay(after, target, d)
  <2>1. CASE reached
    BY <2>1 DEF OnTheWay
  <2>2. CASE ~reached
    <3>1. less_fee < initial
      BY <1>1, <1>2, <2>2, WidthAssumption DEF Fits
    <3>2. less_fee \in Nat
      BY <1>2
    <3>3. after = try_get_next_sqrt_price(price, L, less_fee, d)
      BY <2>2, Zenon
    <3> HIDE DEF less_fee, after, reached
    <3> QED
      BY <3>1, <3>2, <3>3, PriceMoves
  <2> QED
    BY <2>1, <2>2
<1>4. /\ ~(after < SqrtPrice[MinTick] \/ after > SqrtPrice[MaxTick] \/ fee < 0)
      /\ step.price = after /\ step.amount_in = taken /\ step.amount_out = amount_out
      /\ step.fee_amount = fee
  BY Zenon DEF WhirlpoolStep
<1>5. SqrtPrice[MinTick] \in Nat \ {0} /\ SqrtPrice[MaxTick] \in Nat \ {0}
  BY Prices, TickRange
<1>6. after \in SqrtPrice[MinTick]..SqrtPrice[MaxTick] /\ after \in Nat \ {0}
  BY <1>3, <1>4, <1>5
<1> HIDE DEF after, initial, less_fee, step
<1>7. taken \in Nat /\ amount_out \in Nat
  BY <1>1, <1>3, <1>6, DeltasOnTheWay
<1> HIDE DEF amount_out
<1>8. fee \in Int
  <2>1. FeeDenominator \in Nat \ {0}
    BY SwapAssumption
  <2>2. CASE after # target
    BY <1>7, <2>2
  <2>3. CASE after = target
    <3>1. PICK n \in Nat, part \in Nat \ {0} :
            n = taken * FeeDenominator /\ part = FeeDenominator - rate
      BY <1>7, <2>1
    <3>2. CeilDiv(n, part) \in Nat
      BY <3>1, CeilDivFacts
    <3> QED
      BY <1>7, <2>3, <3>1, <3>2 DEF try_reverse_apply_swap_fee
  <2> QED
    BY <2>2, <2>3
<1> QED
  BY <1>3, <1>4, <1>6, <1>7, <1>8 DEF step

-----------------------------------------------------------------------------
(* The rates of tick groups *)

\* AdaptiveFeeVariables of an oracle.
Variables ==
    [last_reference_update_timestamp : Nat, last_major_swap_timestamp : Nat,
     tick_group_index_reference : Int, volatility_reference : Nat, volatility_accumulator : Nat]

\* The constants of a Whirlpool whose fee is adaptive.
Adapts(fee) ==
    /\ fee.adaptive
    /\ fee.rate \in 0..(FeeDenominator - 1)
    /\ fee.tick_group_size \in Nat \ {0} /\ TickSpacing % fee.tick_group_size = 0
    /\ fee.reduction_factor \in 0..ReductionDenominator
    /\ fee.adaptive_fee_control_factor \in Nat
    /\ fee.max_volatility_accumulator \in Nat

LEMMA AbsIs ==
    ASSUME NEW i \in Int
    PROVE  AbsOf(i) \in Nat /\ i =< AbsOf(i) /\ -i =< AbsOf(i)
  BY DEF AbsOf

\* Some of the ticks there are lie in the group.
HoldsTicks(g, size) == g * size =< MaxTick /\ MinTick =< (g + 1) * size

\* The references of a fee that is charged: a group of ticks, and no more than
\* the most there may be.
Refers(v, fee) ==
    /\ HoldsTicks(v.tick_group_index_reference, fee.tick_group_size)
    /\ v.volatility_reference =< fee.max_volatility_accumulator

\* The accumulator of a group: the further from the reference, the greater.
AccumulatorAt(v, g, fee) ==
    LET n == v.volatility_reference + (AbsOf(v.tick_group_index_reference - g) * ScaleFactor)
    IN  IF n =< fee.max_volatility_accumulator THEN n ELSE fee.max_volatility_accumulator

LEMMA UpdateIs ==
    ASSUME NEW v \in Variables, NEW g \in Int, NEW fee, Adapts(fee)
    PROVE  /\ AccumulatorAt(v, g, fee) \in Nat
           /\ update_volatility_accumulator(v, g, fee)
                = [v EXCEPT !.volatility_accumulator = AccumulatorAt(v, g, fee)]
           /\ update_volatility_accumulator(v, g, fee) \in Variables
<1>1. PICK most \in Nat : most = fee.max_volatility_accumulator
  BY DEF Adapts
<1>2. PICK reference \in Nat, from \in Int :
        reference = v.volatility_reference /\ from = v.tick_group_index_reference
  BY DEF Variables
<1>3. PICK distance \in Nat : distance = AbsOf(from - g)
  BY DEF AbsOf
<1>4. distance * ScaleFactor \in Nat
  BY FeeRateAssumption
<1>5. PICK n \in Nat : n = reference + (distance * ScaleFactor)
  BY <1>4
<1>6. Min({n, most}) = IF n =< most THEN n ELSE most
  <2>1. n \in Int /\ most \in Int
    OBVIOUS
  <2> QED
    BY <2>1, OfTwo
<1>7. AccumulatorAt(v, g, fee) = Min({n, most}) /\ AccumulatorAt(v, g, fee) \in Nat
  BY <1>1, <1>2, <1>3, <1>5, <1>6 DEF AccumulatorAt
<1>8. update_volatility_accumulator(v, g, fee)
        = [v EXCEPT !.volatility_accumulator = AccumulatorAt(v, g, fee)]
  BY <1>1, <1>2, <1>3, <1>5, <1>7 DEF update_volatility_accumulator
<1> QED
  BY <1>7, <1>8 DEF Variables

LEMMA RateWithin ==
    ASSUME NEW v \in Variables, NEW fee, Adapts(fee)
    PROVE  get_total_fee_rate(v, fee) \in 0..(FeeDenominator - 1)
<1>1. PICK acc \in Nat, size \in Nat, factor \in Nat, rate \in Nat :
        /\ acc = v.volatility_accumulator /\ size = fee.tick_group_size
        /\ factor = fee.adaptive_fee_control_factor /\ rate = fee.rate
  BY DEF Variables, Adapts
<1>2. PICK crossed \in Nat : crossed = acc * size
  OBVIOUS
<1>3. PICK n \in Nat : n = factor * crossed * crossed
  <2>1. factor * crossed \in Nat
    OBVIOUS
  <2> QED
    BY <2>1
<1>4. PICK by \in Nat \ {0} : by = ControlDenominator * ScaleFactor * ScaleFactor
  <2>1. ControlDenominator * ScaleFactor \in Nat \ {0}
    BY FeeRateAssumption
  <2> QED
    BY <2>1, FeeRateAssumption
<1>5. PICK raw \in Nat : raw = CeilDiv(n, by)
  BY CeilDivFacts
<1>6. PICK limit \in 0..(FeeDenominator - 1) : limit = FeeRateHardLimit
  BY FeeRateAssumption
<1>7. PICK adaptive \in Nat : adaptive = Min({raw, limit})
  <2>1. Min({raw, limit}) = IF raw =< limit THEN raw ELSE limit
    <3>1. raw \in Int /\ limit \in Int
      BY <1>6, SwapAssumption
    <3> QED
      BY <3>1, OfTwo
  <2> QED
    BY <1>6, <2>1, SwapAssumption
<1>8. compute_adaptive_fee_rate(v, fee) = adaptive
  BY <1>1, <1>2, <1>3, <1>4, <1>5, <1>6, <1>7 DEF compute_adaptive_fee_rate
<1>9. Min({rate + adaptive, limit}) \in 0..(FeeDenominator - 1)
  <2>1. rate + adaptive \in Int /\ limit \in Int
    BY <1>6, SwapAssumption
  <2>2. Min({rate + adaptive, limit}) = IF rate + adaptive =< limit THEN rate + adaptive ELSE limit
    BY <2>1, OfTwo
  <2> QED
    BY <1>6, <2>2, SwapAssumption
<1> QED
  BY <1>1, <1>6, <1>8, <1>9 DEF get_total_fee_rate, Adapts

\* A rate is that of the accumulator.
LEMMA RateOfAccumulator ==
    ASSUME NEW v, NEW u, NEW fee, v.volatility_accumulator = u.volatility_accumulator
    PROVE  get_total_fee_rate(v, fee) = get_total_fee_rate(u, fee)
  BY DEF get_total_fee_rate, compute_adaptive_fee_rate

RateAt(v, g, fee) == get_total_fee_rate(update_volatility_accumulator(v, g, fee), fee)

LEMMA RateAgain ==
    ASSUME NEW v \in Variables, NEW g \in Int, NEW h \in Int, NEW fee, Adapts(fee)
    PROVE  RateAt(update_volatility_accumulator(v, g, fee), h, fee) = RateAt(v, h, fee)
<1> DEFINE u == update_volatility_accumulator(v, g, fee)
<1>1. u \in Variables /\ u = [v EXCEPT !.volatility_accumulator = AccumulatorAt(v, g, fee)]
  BY UpdateIs
<1>2. /\ u.volatility_reference = v.volatility_reference
      /\ u.tick_group_index_reference = v.tick_group_index_reference
  BY <1>1 DEF Variables
<1> HIDE DEF u
<1>3. AccumulatorAt(u, h, fee) = AccumulatorAt(v, h, fee)
  BY <1>2 DEF AccumulatorAt
<1>4. update_volatility_accumulator(u, h, fee).volatility_accumulator
        = update_volatility_accumulator(v, h, fee).volatility_accumulator
  BY <1>1, <1>3, UpdateIs DEF Variables
<1> QED
  BY <1>4, RateOfAccumulator DEF RateAt, u

\* Without a control factor all groups are charged the same, and so are those on
\* one side of the core range.
LEMMA RateWithoutControl ==
    ASSUME NEW v \in Variables, NEW g \in Int, NEW h \in Int, NEW fee, Adapts(fee),
           fee.adaptive_fee_control_factor = 0
    PROVE  RateAt(v, g, fee) = RateAt(v, h, fee)
<1>1. ASSUME NEW u \in Variables
      PROVE  compute_adaptive_fee_rate(u, fee)
               = Min({CeilDiv(0, ControlDenominator * ScaleFactor * ScaleFactor), FeeRateHardLimit})
  <2>1. PICK crossed \in Nat : crossed = u.volatility_accumulator * fee.tick_group_size
    BY DEF Variables, Adapts
  <2>2. 0 * crossed * crossed = 0
    OBVIOUS
  <2> QED
    BY <2>1, <2>2 DEF compute_adaptive_fee_rate
<1>2. update_volatility_accumulator(v, g, fee) \in Variables
  BY UpdateIs
<1>3. update_volatility_accumulator(v, h, fee) \in Variables
  BY UpdateIs
<1> QED
  BY <1>1, <1>2, <1>3 DEF RateAt, get_total_fee_rate

Outside(v, g, fee) ==
    \/ g < CoreRange(v, fee).lower \/ g > CoreRange(v, fee).upper

LEMMA AtMaximum ==
    ASSUME NEW v \in Variables, NEW g \in Int, NEW fee, Adapts(fee), Outside(v, g, fee)
    PROVE  AccumulatorAt(v, g, fee) = fee.max_volatility_accumulator
<1>1. PICK most \in Nat : most = fee.max_volatility_accumulator
  BY DEF Adapts
<1>2. PICK reference \in Nat, from \in Int :
        reference = v.volatility_reference /\ from = v.tick_group_index_reference
  BY DEF Variables
<1>3. PICK scale \in Nat \ {0} : scale = ScaleFactor
  BY FeeRateAssumption
<1>4. PICK reach \in Int : /\ reach = CeilDiv(most - reference, scale)
                           /\ most - reference =< scale * reach
  <2>1. PICK n \in Int : n = most - reference
    OBVIOUS
  <2>2. CeilDiv(n, scale) \in Int /\ n =< scale * CeilDiv(n, scale)
    <3> DEFINE q == n \div scale
               r == n % scale
    <3>1. q \in Int /\ r \in 0..(scale - 1) /\ n = scale * q + r
      OBVIOUS
    <3>2. CeilDiv(n, scale) = IF r # 0 THEN q + 1 ELSE q
      BY DEF CeilDiv
    <3> HIDE DEF q, r
    <3>3. scale * (q + 1) = scale * q + scale /\ scale * q \in Int
      BY <3>1
    <3> QED
      BY <3>1, <3>2, <3>3
  <2> QED
    BY <2>1, <2>2
<1>5. g < from - reach \/ g > from + reach
  BY <1>1, <1>2, <1>3, <1>4 DEF Outside, CoreRange
<1>6. PICK distance \in Nat :
        distance = AbsOf(from - g) /\ from - g =< distance /\ -(from - g) =< distance
  <2>1. from - g \in Int
    OBVIOUS
  <2> QED
    BY <2>1, AbsIs
<1>7. reach =< distance
  BY <1>4, <1>5, <1>6
<1>8. scale * reach =< scale * distance /\ distance * scale = scale * distance
      /\ scale * distance \in Nat /\ scale * reach \in Int
  BY <1>3, <1>4, <1>6, <1>7, Products
<1>9. most =< reference + (distance * scale)
  BY <1>4, <1>8
<1>10. AccumulatorAt(v, g, fee)
         = LET n == reference + (distance * scale) IN IF n =< most THEN n ELSE most
  BY <1>1, <1>2, <1>3, <1>6 DEF AccumulatorAt
<1>11. reference + (distance * scale) \in Nat
  BY <1>8
<1> QED
  BY <1>1, <1>9, <1>10, <1>11

LEMMA RateOutside ==
    ASSUME NEW v \in Variables, NEW g \in Int, NEW h \in Int, NEW fee, Adapts(fee),
           Outside(v, g, fee), Outside(v, h, fee)
    PROVE  RateAt(v, g, fee) = RateAt(v, h, fee)
<1>1. AccumulatorAt(v, g, fee) = AccumulatorAt(v, h, fee)
  BY AtMaximum
<1>2. update_volatility_accumulator(v, g, fee) = update_volatility_accumulator(v, h, fee)
  BY <1>1, UpdateIs
<1> QED
  BY <1>2 DEF RateAt

-----------------------------------------------------------------------------
(* Multiples *)

\* A multiple of the spacing is one of the group size.
LEMMA OnGroup ==
    ASSUME NEW t \in Int, t % TickSpacing = 0, NEW size \in Nat \ {0}, TickSpacing % size = 0
    PROVE  \E k \in Int : t = k * size
<1>1. TickSpacing \in Nat \ {0}
  BY WhirlpoolAssumption
<1>2. ASSUME NEW u \in Int, NEW c \in Nat \ {0}, u % c = 0
      PROVE  \E m \in Int : u = m * c
  <2>1. u \div c \in Int /\ u = (u \div c) * c
    BY <1>2, Quotient
  <2> QED
    BY <2>1
<1>3. PICK m \in Int : t = m * TickSpacing
  BY <1>1, <1>2
<1>4. PICK n \in Int : TickSpacing = n * size
  <2>1. TickSpacing \in Int
    BY <1>1
  <2> QED
    BY <1>2, <2>1
<1>5. t = (m * n) * size /\ m * n \in Int
  BY <1>3, <1>4
<1> QED
  BY <1>5

-----------------------------------------------------------------------------
(* The walk in its tick group *)

\* Ticks that may be initialized, amounts, and what is read of three tick arrays.
Grid == {t \in MinTick..MaxTick : t % TickSpacing = 0}
Amounts == {n \in Nat : Fits(n)}

Sequences ==
    {seq \in [start_index : Int, end_index : Int, net : UNION {[S -> Int] : S \in SUBSET Grid}] :
        /\ seq.start_index >= MinTick /\ seq.end_index =< MaxTick
        /\ seq.start_index = MinTick \/ seq.start_index % TickSpacing = 0}

\* What a walk is, whatever the pool.
Walks ==
    [is : {"walking"}, remaining : Amounts, calculated : Amounts,
     price : SqrtPrice[MinTick]..SqrtPrice[MaxTick], tick : (MinTick - 1)..MaxTick,
     liquidity : Nat, sequence : Sequences, inside : BOOLEAN, next : (MinTick - 1)..MaxTick,
     group : Int, variables : Variables \cup {<<>>},
     charged : [from : Nat, rate : Int, liquidity : Nat]]

\* The price is in the group of the walk.
InGroup(w, size) ==
    /\ HoldsTicks(w.group, size)
    /\ SqrtPrice[Clamped(w.group * size)] =< w.price
    /\ w.price =< SqrtPrice[Clamped((w.group + 1) * size)]

\* Before a step: the tick the walk is on its way to lies ahead of where the
\* group begins.
Placed(w, d, size) ==
    /\ InGroup(w, size)
    /\ IF d THEN w.next < (w.group + 1) * size ELSE w.group * size < w.next

\* Where a step ends: at a tick b that is no further than the one the walk is on
\* its way to, and that the rate of its group still holds for.
EndsAt(w, d, fee, b, skip) ==
    LET g == w.group
        size == fee.tick_group_size
        core == CoreRange(w.variables, fee)
    IN  \/ /\ skip /\ b = w.next
           /\ fee.adaptive_fee_control_factor = 0 \/ w.liquidity = 0
        \/ /\ skip /\ g < core.lower
           /\ b = w.next \/ (~d /\ b = core.lower * size)
           /\ ~d => b =< core.lower * size
        \/ /\ skip /\ g > core.upper
           /\ b = w.next \/ (d /\ b = (core.upper + 1) * size)
           /\ d => (core.upper + 1) * size =< b
        \/ /\ ~skip
           /\ b = w.next \/ b = Clamped(IF d THEN g * size ELSE (g + 1) * size)
           /\ IF d THEN Clamped(g * size) =< b ELSE b =< Clamped((g + 1) * size)

LEMMA PriceOfTwo ==
    ASSUME NEW t \in MinTick..MaxTick, NEW u \in MinTick..MaxTick
    PROVE  /\ Max({SqrtPrice[t], SqrtPrice[u]}) = SqrtPrice[IF t >= u THEN t ELSE u]
           /\ Min({SqrtPrice[t], SqrtPrice[u]}) = SqrtPrice[IF t =< u THEN t ELSE u]
<1>1. PICK p \in Int, q \in Int : p = SqrtPrice[t] /\ q = SqrtPrice[u]
  BY Prices
<1>2. /\ t \in Int /\ u \in Int
      /\ t =< u <=> p =< q
      /\ u =< t <=> q =< p
  BY <1>1, Prices, TickRange
<1>3. /\ Max({p, q}) = IF p >= q THEN p ELSE q
      /\ Min({p, q}) = IF p =< q THEN p ELSE q
  BY OfTwo
<1> QED
  BY <1>1, <1>2, <1>3

\* The core range lies around the group of the reference.
LEMMA CoreIs ==
    ASSUME NEW v \in Variables, NEW fee, Adapts(fee), Refers(v, fee)
    PROVE  LET core == CoreRange(v, fee)
           IN  /\ core.lower \in Int /\ core.upper \in Int
               /\ core.lower =< v.tick_group_index_reference
               /\ v.tick_group_index_reference =< core.upper
<1>1. PICK n \in Nat : n = fee.max_volatility_accumulator - v.volatility_reference
  BY DEF Adapts, Variables, Refers
<1>2. ScaleFactor \in Nat \ {0}
  BY FeeRateAssumption
<1>3. PICK reach \in Nat : reach = CeilDiv(n, ScaleFactor)
  BY <1>1, <1>2, CeilDivFacts
<1>4. v.tick_group_index_reference \in Int
  BY DEF Variables
<1> QED
  BY <1>1, <1>3, <1>4 DEF CoreRange

\* A step ends at a tick on the way that the rate of its group holds up to.
LEMMA BoundedIs ==
    ASSUME NEW w \in Walks, NEW fee, Adapts(fee), NEW d \in BOOLEAN,
           w.variables \in Variables, Refers(w.variables, fee), Placed(w, d, fee.tick_group_size),
           w.next \in MinTick..MaxTick, OnTheWay(w.price, SqrtPrice[w.next], d)
    PROVE  LET bounded == Bounded(SqrtPrice[w.next], w.liquidity, w, fee, d)
           IN  \E b \in MinTick..MaxTick :
                 /\ bounded.price = SqrtPrice[b] /\ OnTheWay(w.price, SqrtPrice[b], d)
                 /\ IF d THEN w.next =< b ELSE b =< w.next
                 /\ bounded.skip \in BOOLEAN /\ EndsAt(w, d, fee, b, bounded.skip)
<1> DEFINE bounded == Bounded(SqrtPrice[w.next], w.liquidity, w, fee, d)
           core == CoreRange(w.variables, fee)
<1>1. PICK size \in Nat \ {0} : size = fee.tick_group_size
  BY DEF Adapts
<1>2. PICK g \in Int, n \in MinTick..MaxTick, L \in Nat, price \in Nat, from \in Int :
        /\ g = w.group /\ n = w.next /\ L = w.liquidity /\ price = w.price
        /\ from = w.variables.tick_group_index_reference
  <2>1. SqrtPrice[MinTick] \in Nat /\ SqrtPrice[MaxTick] \in Nat
    BY Prices, TickRange
  <2>2. w.group \in Int /\ w.liquidity \in Nat /\ w.price \in SqrtPrice[MinTick]..SqrtPrice[MaxTick]
    BY DEF Walks
  <2>3. w.price \in Nat
    BY <2>1, <2>2
  <2>4. w.variables.tick_group_index_reference \in Int
    BY DEF Variables
  <2> QED
    BY <2>2, <2>3, <2>4
<1>3. PICK lower \in Int, upper \in Int :
        lower = core.lower /\ upper = core.upper /\ lower =< from /\ from =< upper
  BY <1>2, CoreIs
<1> HIDE DEF core
<1>4. PICK low \in Int, high \in Int, bottom \in Int, top \in Int :
        /\ low = lower * size /\ high = (upper + 1) * size
        /\ bottom = g * size /\ top = (g + 1) * size /\ top = bottom + size
        /\ LowerTick(core, fee) = low /\ UpperTick(core, fee) = high
        /\ (g * size) + size = top
  <2>1. (upper + 1) * size = (upper * size) + size /\ (g + 1) * size = (g * size) + size
    BY Ordered
  <2>2. lower * size \in Int /\ upper * size \in Int /\ g * size \in Int
    BY Ordered
  <2> QED
    BY <1>1, <1>3, <2>1, <2>2 DEF LowerTick, UpperTick
<1>5. /\ bottom =< MaxTick /\ MinTick =< top
      /\ low =< MaxTick /\ MinTick =< high
  <2>1. bottom =< MaxTick /\ MinTick =< top
    BY <1>1, <1>2, <1>4 DEF Placed, InGroup, HoldsTicks
  <2>2. from * size =< MaxTick /\ MinTick =< (from + 1) * size
    BY <1>1, <1>2 DEF Refers, HoldsTicks
  <2>3. lower * size =< from * size
    BY <1>3, Ordered
  <2>4. (from + 1) * size =< (upper + 1) * size
    <3>1. from + 1 \in Int /\ upper + 1 \in Int /\ from + 1 =< upper + 1
      BY <1>3
    <3> QED
      BY <3>1, Ordered
  <2>5. from * size \in Int /\ (from + 1) * size \in Int
    BY Ordered
  <2> QED
    BY <1>4, <2>1, <2>2, <2>3, <2>4, <2>5, TickRange
<1>6. /\ SqrtPrice[Clamped(bottom)] =< price /\ price =< SqrtPrice[Clamped(top)]
      /\ Clamped(bottom) \in MinTick..MaxTick /\ Clamped(top) \in MinTick..MaxTick
      /\ Clamped(bottom) = IF bottom < MinTick THEN MinTick ELSE bottom
      /\ Clamped(top) = IF top > MaxTick THEN MaxTick ELSE top
  BY <1>1, <1>2, <1>4, <1>5, ClampedIs, TickRange DEF Placed, InGroup
<1>7. IF d THEN n < top ELSE bottom < n
  BY <1>1, <1>2, <1>4 DEF Placed, InGroup
<1>8. OnTheWay(price, SqrtPrice[n], d)
  BY <1>2
<1> DEFINE below == low > MinTick /\ g < lower
           above == high < MaxTick /\ g > upper
           edge == IF d THEN bottom ELSE top
           b == IF L = 0 \/ fee.adaptive_fee_control_factor = 0 THEN n
                ELSE IF below THEN (IF d THEN n ELSE IF n =< low THEN n ELSE low)
                ELSE IF above THEN (IF d THEN (IF n >= high THEN n ELSE high) ELSE n)
                ELSE IF d THEN (IF n >= Clamped(edge) THEN n ELSE Clamped(edge))
                ELSE (IF n =< Clamped(edge) THEN n ELSE Clamped(edge))
           skip == L = 0 \/ fee.adaptive_fee_control_factor = 0 \/ below \/ above
<1>9. low \in Int /\ high \in Int /\ n \in Int /\ MinTick \in Int /\ MaxTick \in Int
  BY TickRange
<1>10. bounded.price = SqrtPrice[b] /\ bounded.skip \in BOOLEAN /\ (bounded.skip <=> skip)
  <2> DEFINE still == L = 0 \/ fee.adaptive_fee_control_factor = 0
  <2>0. /\ tick_index_to_sqrt_price(low) = SqrtPrice[low]
        /\ tick_index_to_sqrt_price(high) = SqrtPrice[high]
        /\ tick_index_to_sqrt_price(Clamped(edge)) = SqrtPrice[Clamped(edge)]
        /\ fee.adaptive
    BY DEF tick_index_to_sqrt_price, Adapts
  <2>1. /\ CoreRange(w.variables, fee).lower = lower /\ CoreRange(w.variables, fee).upper = upper
        /\ LowerTick(CoreRange(w.variables, fee), fee) = low
        /\ UpperTick(CoreRange(w.variables, fee), fee) = high
        /\ w.group = g /\ w.liquidity = L /\ w.next = n
        /\ w.group * fee.tick_group_size = bottom
        /\ (w.group * fee.tick_group_size) + fee.tick_group_size = top
    BY <1>1, <1>2, <1>3, <1>4 DEF core
  <2>2. CASE still
    <3>1. bounded = [price |-> SqrtPrice[n], skip |-> TRUE]
      BY <2>0, <2>1, <2>2 DEF Bounded
    <3>2. bounded.skip = TRUE /\ bounded.price = SqrtPrice[n]
      BY <3>1
    <3> QED
      BY <2>2, <3>2
  <2>3. CASE ~still /\ below
    <3>1. bounded = [price |-> IF d THEN SqrtPrice[n] ELSE Min({SqrtPrice[n], SqrtPrice[low]}),
                     skip |-> TRUE]
      BY <2>0, <2>1, <2>3 DEF Bounded
    <3>2. low \in MinTick..MaxTick
      BY <1>5, <1>9, <2>3
    <3>3. Min({SqrtPrice[n], SqrtPrice[low]}) = SqrtPrice[IF n =< low THEN n ELSE low]
      BY <3>2, PriceOfTwo
    <3>4. /\ bounded.skip = TRUE
          /\ bounded.price = SqrtPrice[IF d THEN n ELSE IF n =< low THEN n ELSE low]
      BY <3>1, <3>3
    <3> QED
      BY <2>3, <3>4
  <2>4. CASE ~still /\ ~below /\ above
    <3>1. bounded = [price |-> IF d THEN Max({SqrtPrice[n], SqrtPrice[high]}) ELSE SqrtPrice[n],
                     skip |-> TRUE]
      BY <2>0, <2>1, <2>4 DEF Bounded
    <3>2. high \in MinTick..MaxTick
      BY <1>5, <1>9, <2>4
    <3>3. Max({SqrtPrice[n], SqrtPrice[high]}) = SqrtPrice[IF n >= high THEN n ELSE high]
      BY <3>2, PriceOfTwo
    <3>4. /\ bounded.skip = TRUE
          /\ bounded.price = SqrtPrice[IF d THEN (IF n >= high THEN n ELSE high) ELSE n]
      BY <3>1, <3>3
    <3> QED
      BY <2>4, <3>4
  <2>5. CASE ~still /\ ~below /\ ~above
    <3>1. bounded = [price |-> Nearer(SqrtPrice[n], SqrtPrice[Clamped(edge)], d), skip |-> FALSE]
      BY <2>0, <2>1, <2>5 DEF Bounded
    <3>2. PICK e \in MinTick..MaxTick : e = Clamped(edge)
      BY <1>6
    <3>3. /\ Max({SqrtPrice[n], SqrtPrice[e]}) = SqrtPrice[IF n >= e THEN n ELSE e]
          /\ Min({SqrtPrice[n], SqrtPrice[e]}) = SqrtPrice[IF n =< e THEN n ELSE e]
      BY PriceOfTwo
    <3>4. /\ bounded.skip = FALSE
          /\ bounded.price = SqrtPrice[IF d THEN (IF n >= e THEN n ELSE e)
                                       ELSE (IF n =< e THEN n ELSE e)]
      BY <3>1, <3>2, <3>3 DEF Nearer
    <3> QED
      BY <2>5, <3>2, <3>4
  <2> QED
    BY <2>2, <2>3, <2>4, <2>5
<1>11. b \in MinTick..MaxTick /\ IF d THEN n =< b ELSE b =< n
  BY <1>5, <1>6, <1>9
<1>12. OnTheWay(price, SqrtPrice[b], d)
  <2>1. CASE b = n
    BY <1>8, <2>1
  <2>2. CASE b = low /\ ~d /\ below
    <3>1. top =< low
      <4>1. g + 1 \in Int /\ g + 1 =< lower
        BY <2>2
      <4> QED
        BY <1>4, <4>1, Ordered
    <3>2. Clamped(top) =< low /\ low \in MinTick..MaxTick
      BY <1>4, <1>5, <1>6, <1>9, <2>2, <3>1
    <3>3. SqrtPrice[Clamped(top)] =< SqrtPrice[low]
      BY <1>6, <3>2, Prices
    <3>4. SqrtPrice[Clamped(top)] \in Int /\ SqrtPrice[low] \in Int
      BY <1>6, <3>2, Prices
    <3> QED
      BY <1>6, <2>2, <3>3, <3>4 DEF OnTheWay
  <2>3. CASE b = high /\ d /\ above
    <3>1. high =< bottom
      <4>1. upper + 1 \in Int /\ upper + 1 =< g
        BY <2>3
      <4> QED
        BY <1>4, <4>1, Ordered
    <3>2. high =< Clamped(bottom) /\ high \in MinTick..MaxTick
      BY <1>4, <1>5, <1>6, <1>9, <2>3, <3>1
    <3>3. SqrtPrice[high] =< SqrtPrice[Clamped(bottom)]
      BY <1>6, <3>2, Prices
    <3>4. SqrtPrice[Clamped(bottom)] \in Int /\ SqrtPrice[high] \in Int
      BY <1>6, <3>2, Prices
    <3> QED
      BY <1>6, <2>3, <3>3, <3>4 DEF OnTheWay
  <2>4. CASE b = Clamped(edge)
    BY <1>6, <2>4 DEF OnTheWay
  <2> QED
    BY <2>1, <2>2, <2>3, <2>4
<1>13. EndsAt(w, d, fee, b, bounded.skip)
  <2>1. /\ core.lower = lower /\ core.upper = upper /\ core.lower * fee.tick_group_size = low
        /\ (core.upper + 1) * fee.tick_group_size = high
        /\ w.group = g /\ w.next = n /\ w.liquidity = L
        /\ w.group * fee.tick_group_size = bottom /\ (w.group + 1) * fee.tick_group_size = top
    BY <1>1, <1>2, <1>3, <1>4
  <2>2. CASE L = 0 \/ fee.adaptive_fee_control_factor = 0
    <3>1. b = n /\ bounded.skip
      BY <1>10, <2>2
    <3> QED
      BY <2>1, <2>2, <3>1 DEF EndsAt
  <2>3. CASE ~(L = 0 \/ fee.adaptive_fee_control_factor = 0) /\ below
    <3>1. /\ b = n \/ (~d /\ b = low)
          /\ ~d => b =< low
          /\ bounded.skip /\ g < lower
      BY <1>9, <1>10, <2>3
    <3> HIDE DEF b, bounded
    <3> QED
      BY <2>1, <3>1 DEF EndsAt, core
  <2>4. CASE ~(L = 0 \/ fee.adaptive_fee_control_factor = 0) /\ ~below /\ above
    <3>1. /\ b = n \/ (d /\ b = high)
          /\ d => high =< b
          /\ bounded.skip /\ g > upper
      BY <1>9, <1>10, <2>4
    <3> HIDE DEF b, bounded
    <3> QED
      BY <2>1, <3>1 DEF EndsAt, core
  <2>5. CASE ~(L = 0 \/ fee.adaptive_fee_control_factor = 0) /\ ~below /\ ~above
    <3>1. /\ b = n \/ b = Clamped(edge)
          /\ IF d THEN Clamped(bottom) =< b ELSE b =< Clamped(top)
          /\ ~bounded.skip
      BY <1>6, <1>9, <1>10, <2>5
    <3>2. Clamped(edge) = Clamped(IF d THEN bottom ELSE top)
      OBVIOUS
    <3> HIDE DEF b, bounded
    <3> QED
      BY <2>1, <3>1, <3>2 DEF EndsAt
  <2> QED
    BY <2>2, <2>3, <2>4, <2>5
<1>14. OnTheWay(w.price, SqrtPrice[b], d) /\ IF d THEN w.next =< b ELSE b =< w.next
  BY <1>2, <1>11, <1>12
<1> HIDE DEF b, bounded
<1> QED
  BY <1>10, <1>11, <1>13, <1>14 DEF bounded

\* A tick that a stretch of the step overlaps is charged as the group is that the
\* step is in.
LEMMA StretchIsCharged ==
    ASSUME NEW w \in Walks, NEW fee, Adapts(fee), NEW d \in BOOLEAN,
           w.variables \in Variables, Refers(w.variables, fee), Placed(w, d, fee.tick_group_size),
           NEW b \in MinTick..MaxTick, NEW skip \in BOOLEAN, EndsAt(w, d, fee, b, skip),
           NEW price \in Nat, OnTheWay(price, SqrtPrice[b], d), w.liquidity > 0,
           NEW t \in MinTick..(MaxTick - 1),
           SqrtPrice[t] < (IF d THEN w.price ELSE price),
           (IF d THEN price ELSE w.price) < SqrtPrice[t + 1]
    PROVE  RateAt(w.variables, GroupOf(t, fee), fee) = RateAt(w.variables, w.group, fee)
<1> DEFINE core == CoreRange(w.variables, fee)
<1>1. PICK size \in Nat \ {0} : size = fee.tick_group_size
  BY DEF Adapts
<1>2. PICK g \in Int, lower \in Int, upper \in Int, p \in Nat :
        g = w.group /\ lower = core.lower /\ upper = core.upper /\ p = w.price
  <2>1. SqrtPrice[MinTick] \in Nat /\ SqrtPrice[MaxTick] \in Nat
    BY Prices, TickRange
  <2>2. w.group \in Int /\ w.price \in SqrtPrice[MinTick]..SqrtPrice[MaxTick]
    BY DEF Walks
  <2>3. w.price \in Nat
    BY <2>1, <2>2
  <2>4. core.lower \in Int /\ core.upper \in Int
    BY CoreIs
  <2> QED
    BY <2>2, <2>3, <2>4
<1> HIDE DEF core
<1>3. PICK low \in Int, high \in Int, bottom \in Int, top \in Int :
        /\ low = lower * size /\ high = (upper + 1) * size
        /\ bottom = g * size /\ top = (g + 1) * size
  <2>1. upper + 1 \in Int /\ g + 1 \in Int
    OBVIOUS
  <2> QED
    BY <2>1, Ordered
<1>4. /\ bottom =< MaxTick /\ MinTick =< top
      /\ SqrtPrice[Clamped(bottom)] =< p /\ p =< SqrtPrice[Clamped(top)]
  BY <1>1, <1>2, <1>3 DEF Placed, InGroup, HoldsTicks
<1>5. /\ Clamped(bottom) \in MinTick..MaxTick /\ Clamped(top) \in MinTick..MaxTick
      /\ bottom =< Clamped(bottom) /\ Clamped(top) =< top
  BY <1>3, <1>4, ClampedIs, TickRange
<1>6. PICK h \in Int : /\ h = GroupOf(t, fee)
                       /\ h * size =< t /\ t < (h + 1) * size
  <2>1. t \in Int
    BY TickRange
  <2> QED
    BY <1>1, <2>1, Quotient DEF GroupOf
<1>7. /\ t \in Int /\ t + 1 \in MinTick..MaxTick /\ t \in MinTick..MaxTick /\ b \in Int
      /\ SqrtPrice[t] \in Int /\ SqrtPrice[t + 1] \in Int /\ SqrtPrice[b] \in Int
      /\ SqrtPrice[Clamped(bottom)] \in Int /\ SqrtPrice[Clamped(top)] \in Int
      /\ h * size \in Int /\ (h + 1) * size \in Int
  <2>1. t + 1 \in MinTick..MaxTick /\ t \in MinTick..MaxTick /\ b \in Int /\ t \in Int
    BY TickRange
  <2>2. h + 1 \in Int
    OBVIOUS
  <2> QED
    BY <1>5, <2>1, <2>2, Prices, Ordered
<1>8. CASE d
  <2>1. t < top
    <3>1. SqrtPrice[t] < SqrtPrice[Clamped(top)]
      BY <1>2, <1>4, <1>7, <1>8
    <3>2. t < Clamped(top)
      BY <1>5, <1>7, <3>1, Prices
    <3> QED
      BY <1>3, <1>5, <1>7, <3>2, TickRange
  <2>2. b =< t
    <3>1. SqrtPrice[b] < SqrtPrice[t + 1]
      BY <1>7, <1>8 DEF OnTheWay
    <3>2. b < t + 1
      BY <1>7, <3>1, Prices
    <3> QED
      BY <1>7, <3>2
  <2>3. h =< g
    <3>1. h * size < (g + 1) * size
      BY <1>3, <1>6, <1>7, <2>1
    <3>2. h < g + 1
      <4>1. g + 1 \in Int
        OBVIOUS
      <4> QED
        BY <3>1, <4>1, Ordered
    <3> QED
      BY <3>2
  <2>4. CASE skip /\ b = w.next /\ (fee.adaptive_fee_control_factor = 0 \/ w.liquidity = 0)
    BY <1>2, <1>6, <2>4, RateWithoutControl
  <2>5. CASE g < lower
    <3>1. Outside(w.variables, g, fee) /\ Outside(w.variables, h, fee)
      BY <1>2, <2>3, <2>5 DEF Outside, core
    <3> QED
      BY <1>2, <1>6, <3>1, RateOutside
  <2>6. CASE g > upper /\ high =< b
    <3>1. (upper + 1) * size < (h + 1) * size
      BY <1>3, <1>6, <1>7, <2>2, <2>6
    <3>2. upper + 1 < h + 1
      <4>1. upper + 1 \in Int /\ h + 1 \in Int
        OBVIOUS
      <4> QED
        BY <3>1, <4>1, Ordered
    <3>3. Outside(w.variables, g, fee) /\ Outside(w.variables, h, fee)
      BY <1>2, <2>6, <3>2 DEF Outside, core
    <3> QED
      BY <1>2, <1>6, <3>3, RateOutside
  <2>7. CASE Clamped(bottom) =< b
    <3>1. g * size < (h + 1) * size
      BY <1>3, <1>5, <1>6, <1>7, <2>2, <2>7, TickRange
    <3>2. g < h + 1
      <4>1. h + 1 \in Int
        OBVIOUS
      <4> QED
        BY <3>1, <4>1, Ordered
    <3> QED
      BY <1>2, <1>6, <2>3, <3>2
  <2> QED
    BY <1>1, <1>2, <1>3, <1>8, <2>4, <2>5, <2>6, <2>7 DEF EndsAt, core
<1>9. CASE ~d
  <2>1. bottom =< t
    <3>1. SqrtPrice[Clamped(bottom)] < SqrtPrice[t + 1]
      BY <1>2, <1>4, <1>7, <1>9
    <3>2. Clamped(bottom) < t + 1
      BY <1>5, <1>7, <3>1, Prices
    <3> QED
      BY <1>3, <1>5, <1>7, <3>2, TickRange
  <2>2. t < b
    <3>1. SqrtPrice[t] < SqrtPrice[b]
      BY <1>7, <1>9 DEF OnTheWay
    <3> QED
      BY <1>7, <3>1, Prices
  <2>3. g =< h
    <3>1. g * size < (h + 1) * size
      BY <1>3, <1>6, <1>7, <2>1
    <3>2. g < h + 1
      <4>1. h + 1 \in Int
        OBVIOUS
      <4> QED
        BY <3>1, <4>1, Ordered
    <3> QED
      BY <3>2
  <2>4. CASE skip /\ b = w.next /\ (fee.adaptive_fee_control_factor = 0 \/ w.liquidity = 0)
    BY <1>2, <1>6, <2>4, RateWithoutControl
  <2>5. CASE g > upper
    <3>1. Outside(w.variables, g, fee) /\ Outside(w.variables, h, fee)
      BY <1>2, <2>3, <2>5 DEF Outside, core
    <3> QED
      BY <1>2, <1>6, <3>1, RateOutside
  <2>6. CASE g < lower /\ b =< low
    <3>1. h * size < lower * size
      BY <1>3, <1>6, <1>7, <2>2, <2>6
    <3>2. h < lower
      BY <3>1, Ordered
    <3>3. Outside(w.variables, g, fee) /\ Outside(w.variables, h, fee)
      BY <1>2, <2>6, <3>2 DEF Outside, core
    <3> QED
      BY <1>2, <1>6, <3>3, RateOutside
  <2>7. CASE b =< Clamped(top)
    <3>1. h * size < (g + 1) * size
      BY <1>3, <1>5, <1>6, <1>7, <2>2, <2>7, TickRange
    <3>2. h < g + 1
      <4>1. g + 1 \in Int
        OBVIOUS
      <4> QED
        BY <3>1, <4>1, Ordered
    <3> QED
      BY <1>2, <1>6, <2>3, <3>2
  <2> QED
    BY <1>1, <1>2, <1>3, <1>9, <2>4, <2>5, <2>6, <2>7 DEF EndsAt, core
<1> QED
  BY <1>8, <1>9

\* After a step to a boundary of groups the walk is in the group beyond it.
LEMMA NextGroupIs ==
    ASSUME NEW w \in Walks, NEW fee, Adapts(fee), NEW d \in BOOLEAN,
           w.variables \in Variables, Refers(w.variables, fee), Placed(w, d, fee.tick_group_size),
           w.next \in MinTick..MaxTick,
           NEW b \in MinTick..MaxTick, NEW skip \in BOOLEAN, EndsAt(w, d, fee, b, skip),
           NEW k \in Int, b = k * fee.tick_group_size, SqrtPrice[b] # WhirlpoolLimit(d)
    PROVE  NextGroup(w.group, SqrtPrice[b], w.next, skip, fee, d) = IF d THEN k - 1 ELSE k
<1> DEFINE core == CoreRange(w.variables, fee)
<1>1. PICK size \in Nat \ {0} : size = fee.tick_group_size
  BY DEF Adapts
<1>2. PICK g \in Int, lower \in Int, upper \in Int, n \in MinTick..MaxTick :
        g = w.group /\ lower = core.lower /\ upper = core.upper /\ n = w.next
  <2>1. w.group \in Int
    BY DEF Walks
  <2>2. core.lower \in Int /\ core.upper \in Int
    BY CoreIs
  <2> QED
    BY <2>1, <2>2
<1> HIDE DEF core
<1>3. PICK low \in Int, high \in Int, bottom \in Int, top \in Int :
        /\ low = lower * size /\ high = (upper + 1) * size
        /\ bottom = g * size /\ top = (g + 1) * size
  <2>1. upper + 1 \in Int /\ g + 1 \in Int
    OBVIOUS
  <2> QED
    BY <2>1, Ordered
<1>4. /\ bottom =< MaxTick /\ MinTick =< top
      /\ Clamped(bottom) = IF bottom < MinTick THEN MinTick ELSE bottom
      /\ Clamped(top) = IF top > MaxTick THEN MaxTick ELSE top
      /\ IF d THEN n < top ELSE bottom < n
      /\ b = k * size /\ b \in Int /\ n \in Int /\ MinTick \in Int /\ MaxTick \in Int
  <2>1. /\ bottom =< MaxTick /\ MinTick =< top
        /\ IF d THEN n < top ELSE bottom < n
    BY <1>1, <1>2, <1>3 DEF Placed, InGroup, HoldsTicks
  <2> QED
    BY <1>1, <1>3, <2>1, ClampedIs, TickRange
<1>5. b # IF d THEN MinTick ELSE MaxTick
  BY DEF WhirlpoolLimit, tick_index_to_sqrt_price
\* Where the price is, and the last group that was left.
<1>6. IF SqrtPrice[b] = tick_index_to_sqrt_price(n) THEN n = b
      ELSE sqrt_price_to_tick_index(SqrtPrice[b]) = b
  <2>1. SqrtPrice[b] = SqrtPrice[n] => n = b
    BY Prices
  <2>2. SqrtPrice[b] \in Int /\ SqrtPrice[MinTick] =< SqrtPrice[b]
    BY <1>4, Prices, TickRange
  <2>3. sqrt_price_to_tick_index(SqrtPrice[b]) = b
    BY <2>2, TickOfPrice
  <2> QED
    BY <2>1, <2>3 DEF tick_index_to_sqrt_price
<1>7. b % size = 0 /\ b \div size = k
  BY <1>4, MultipleIs
<1>8. NextGroup(w.group, SqrtPrice[b], w.next, skip, fee, d)
        = LET last == IF d THEN k ELSE k - 1
              ahead == IF d THEN last < g ELSE last > g
              before == IF skip /\ ahead THEN last ELSE g
          IN  IF d THEN before - 1 ELSE before + 1
  BY <1>1, <1>2, <1>6, <1>7 DEF NextGroup, GroupOf, tick_index_to_sqrt_price, Adapts
\* The four ways a step may end.
<1>9. CASE d
  <2>1. skip => k =< g
    <3>1. ASSUME b < top PROVE k =< g
      <4>1. k * size < (g + 1) * size /\ g + 1 \in Int
        BY <1>3, <1>4, <3>1
      <4>2. k < g + 1
        BY <4>1, Ordered
      <4> QED
        BY <4>2
    <3>2. ASSUME b = high, g > upper PROVE k =< g
      <4>1. k * size = (upper + 1) * size /\ upper + 1 \in Int
        BY <1>3, <1>4, <3>2
      <4>2. k =< upper + 1
        BY <4>1, Ordered
      <4> QED
        BY <3>2, <4>2
    <3> QED
      BY <1>1, <1>2, <1>3, <1>4, <1>9, <3>1, <3>2 DEF EndsAt, core
  <2>2. ~skip => k = g
    <3>1. ASSUME ~skip PROVE bottom =< b /\ b < top
      <4>1. b = n \/ b = Clamped(bottom)
        BY <1>1, <1>2, <1>3, <1>9, <3>1 DEF EndsAt, core
      <4>2. Clamped(bottom) =< b
        BY <1>1, <1>2, <1>3, <1>9, <3>1 DEF EndsAt, core
      <4>3. bottom =< b
        BY <1>4, <4>2
      <4>4. bottom < top
        <5>1. g < g + 1 /\ g + 1 \in Int
          OBVIOUS
        <5> QED
          BY <1>3, <5>1, Ordered
      <4>5. b = n \/ b = bottom
        BY <1>4, <1>5, <1>9, <4>1
      <4> QED
        BY <1>4, <1>9, <4>3, <4>4, <4>5
    <3>2. ASSUME bottom =< b, b < top PROVE k = g
      <4>1. g * size =< b /\ b < (g + 1) * size /\ k = b \div size
        BY <1>3, <1>7, <3>2
      <4> QED
        BY <1>4, <4>1, Quotient
    <3> QED
      BY <3>1, <3>2
  <2> QED
    BY <1>8, <1>9, <2>1, <2>2
<1>10. CASE ~d
  <2>1. skip => g =< k - 1
    <3>1. ASSUME bottom < b PROVE g =< k - 1
      <4>1. g * size < k * size
        BY <1>3, <1>4, <3>1
      <4>2. g < k
        BY <4>1, Ordered
      <4> QED
        BY <4>2
    <3>2. ASSUME b = low, g < lower PROVE g =< k - 1
      <4>1. lower * size =< k * size
        BY <1>3, <1>4, <3>2
      <4>2. lower =< k
        BY <4>1, Ordered
      <4> QED
        BY <3>2, <4>2
    <3> QED
      BY <1>1, <1>2, <1>3, <1>4, <1>10, <3>1, <3>2 DEF EndsAt, core
  <2>2. ~skip => k - 1 = g
    <3>1. ASSUME ~skip PROVE bottom < b /\ b =< top
      <4>1. b = n \/ b = Clamped(top)
        BY <1>1, <1>2, <1>3, <1>10, <3>1 DEF EndsAt, core
      <4>2. b =< Clamped(top)
        BY <1>1, <1>2, <1>3, <1>10, <3>1 DEF EndsAt, core
      <4>3. b =< top
        BY <1>4, <4>2
      <4>4. bottom < top
        <5>1. g < g + 1 /\ g + 1 \in Int
          OBVIOUS
        <5> QED
          BY <1>3, <5>1, Ordered
      <4>5. b = n \/ b = top
        BY <1>4, <1>5, <1>10, <4>1
      <4> QED
        BY <1>4, <1>10, <4>3, <4>4, <4>5
    <3>2. ASSUME bottom < b, b =< top PROVE k - 1 = g
      <4>1. g * size < k * size /\ k * size =< (g + 1) * size /\ g + 1 \in Int
        BY <1>3, <1>4, <3>2
      <4>2. g < k /\ k =< g + 1
        BY <4>1, Ordered
      <4> QED
        BY <4>2
    <3> QED
      BY <3>1, <3>2
  <2> QED
    BY <1>8, <1>10, <2>1, <2>2
<1> QED
  BY <1>9, <1>10

\* A boundary of groups is in the group before it and in the one after it.
LEMMA OnBoundary ==
    ASSUME NEW k \in Int, NEW size \in Nat \ {0}, k * size \in MinTick..MaxTick,
           NEW d \in BOOLEAN, NEW w, w.group = (IF d THEN k - 1 ELSE k),
           w.price = SqrtPrice[k * size]
    PROVE  InGroup(w, size) /\ (d => (w.group + 1) * size = k * size)
<1>1. PICK b \in MinTick..MaxTick, g \in Int : b = k * size /\ g = w.group
  OBVIOUS
<1>2. PICK bottom \in Int, top \in Int :
        bottom = g * size /\ top = (g + 1) * size /\ top = bottom + size
  <2>1. g + 1 \in Int
    OBVIOUS
  <2> QED
    BY <2>1, Ordered
<1>3. (d => top = b) /\ (~d => bottom = b)
  <2>1. CASE d
    <3>1. g + 1 = k
      BY <1>1, <2>1
    <3> QED
      BY <1>1, <1>2, <2>1, <3>1
  <2>2. CASE ~d
    BY <1>1, <1>2, <2>2
  <2> QED
    BY <2>1, <2>2
<1>4. /\ Clamped(bottom) \in MinTick..MaxTick /\ Clamped(top) \in MinTick..MaxTick
      /\ bottom =< MaxTick /\ MinTick =< top
      /\ Clamped(bottom) =< b /\ b =< Clamped(top)
  BY <1>1, <1>2, <1>3, ClampedIs, TickRange
<1>5. SqrtPrice[Clamped(bottom)] =< SqrtPrice[b] /\ SqrtPrice[b] =< SqrtPrice[Clamped(top)]
  BY <1>4, Prices
<1> QED
  BY <1>1, <1>2, <1>3, <1>4, <1>5 DEF InGroup, HoldsTicks

LEMMA NextGroupType ==
    ASSUME NEW g \in Int, NEW price \in Int, SqrtPrice[MinTick] =< price, NEW t \in Int,
           NEW skip \in BOOLEAN, NEW fee, fee.adaptive => Adapts(fee), NEW d \in BOOLEAN
    PROVE  NextGroup(g, price, t, skip, fee, d) \in Int
<1>1. CASE ~fee.adaptive
  BY <1>1 DEF NextGroup
<1>2. CASE fee.adaptive
  <2>1. PICK size \in Nat \ {0} : size = fee.tick_group_size
    BY <1>2 DEF Adapts
  <2>2. PICK at \in Int :
          at = IF price = tick_index_to_sqrt_price(t) THEN t ELSE sqrt_price_to_tick_index(price)
    BY TickOfPrice, TickRange
  <2>3. at \div size \in Int
    BY Quotient
  <2> QED
    BY <1>2, <2>1, <2>2, <2>3 DEF NextGroup, GroupOf
<1> QED
  BY <1>1, <1>2

-----------------------------------------------------------------------------
(* One step of the walk *)

\* Inside the inner loop: the tick the walk is on its way to, which is that of a
\* position or the end of the arrays.
Ready(w, d) ==
    /\ w.next \in MinTick..MaxTick /\ OnTheWay(w.price, SqrtPrice[w.next], d)
    /\ w.next % TickSpacing = 0 \/ w.next = (IF d THEN MinTick ELSE w.sequence.end_index)

\* Between two inner loops: the walk is not over, and the price is at the tick.
GoesOn(w, d) ==
    w.remaining # 0 /\ w.price # WhirlpoolLimit(d) /\ ~PastSequence(w.sequence, w.tick, d)

Faces(w, d) ==
    IF d THEN SqrtPrice[w.tick] =< w.price ELSE w.price =< SqrtPrice[w.tick + 1]

Stands(w, d, size) ==
    /\ InGroup(w, size)
    /\ IF d THEN w.tick < (w.group + 1) * size ELSE w.group * size =< w.tick

\* The stretch that was charged last, at the rates of its groups.
ByGroup(w, fee) ==
    LET low == Min({w.price, w.charged.from})
        high == Max({w.price, w.charged.from})
    IN  \A t \in MinTick..(MaxTick - 1) :
            /\ w.charged.liquidity > 0
            /\ Max({low, SqrtPrice[t]}) < Min({high, SqrtPrice[t + 1]})
            => w.charged.rate = RateAt(w.variables, GroupOf(t, fee), fee)

Rated(w, fee) == fee.adaptive => w.variables \in Variables /\ Refers(w.variables, fee)

Walked(w, fee, d) ==
    /\ w \in Walks /\ Rated(w, fee)
    /\ fee.adaptive => ByGroup(w, fee)
    /\ w.inside => Ready(w, d) /\ (fee.adaptive => Placed(w, d, fee.tick_group_size))
    /\ ~w.inside /\ GoesOn(w, d) =>
         Faces(w, d) /\ (fee.adaptive => Stands(w, d, fee.tick_group_size))

\* What is constant of a Whirlpool.
Whirlpools(fee) ==
    /\ fee.adaptive \in BOOLEAN /\ fee.rate \in 0..(FeeDenominator - 1)
    /\ fee.adaptive => Adapts(fee)

\* A step, taken apart.
Stepped(w, variables, group, step, rate, d) ==
    [w EXCEPT
        !.remaining = w.remaining - step.amount_in - step.fee_amount,
        !.calculated = @ + step.amount_out,
        !.price = step.price,
        !.liquidity = IF step.price = SqrtPrice[w.next]
                      THEN get_next_liquidity(@, Tick(w.sequence, w.next), d) ELSE @,
        !.tick = IF step.price = SqrtPrice[w.next] THEN (IF d THEN w.next - 1 ELSE w.next)
                 ELSE IF step.price # w.price THEN sqrt_price_to_tick_index(step.price)
                 ELSE @,
        !.variables = variables,
        !.group = group,
        !.inside = w.remaining - step.amount_in - step.fee_amount # 0
                     /\ step.price # SqrtPrice[w.next],
        !.charged = [from |-> w.price, rate |-> rate, liquidity |-> w.liquidity]]

\* Where the next tick is, no limit is nearer.
LEMMA TargetIs ==
    ASSUME NEW t \in MinTick..MaxTick, NEW d \in BOOLEAN
    PROVE  Nearer(tick_index_to_sqrt_price(t), WhirlpoolLimit(d), d) = SqrtPrice[t]
<1>1. MinTick \in MinTick..MaxTick /\ MaxTick \in MinTick..MaxTick /\ t \in Int
  BY TickRange
<1>2. CASE d
  <2>1. Max({SqrtPrice[t], SqrtPrice[MinTick]}) = SqrtPrice[t]
    BY <1>1, PriceOfTwo
  <2> QED
    BY <1>2, <2>1 DEF Nearer, WhirlpoolLimit, tick_index_to_sqrt_price
<1>3. CASE ~d
  <2>1. Min({SqrtPrice[t], SqrtPrice[MaxTick]}) = SqrtPrice[t]
    BY <1>1, PriceOfTwo
  <2> QED
    BY <1>3, <2>1 DEF Nearer, WhirlpoolLimit, tick_index_to_sqrt_price
<1> QED
  BY <1>2, <1>3

\* One step, taken apart: where it ends, what it charges, and what it leaves.
StepTowards(w, b, rate, d) ==
    WhirlpoolStep(w.price, SqrtPrice[b], w.liquidity, w.remaining, rate, d)

LEMMA StepApart ==
    ASSUME NEW w \in Walks, NEW fee, Whirlpools(fee), NEW d \in BOOLEAN, Rated(w, fee),
           Ready(w, d), fee.adaptive => Placed(w, d, fee.tick_group_size),
           StepWithin(w, fee, d).is # "none"
    PROVE  \E b \in MinTick..MaxTick, skip \in BOOLEAN, rate \in 0..(FeeDenominator - 1),
              variables \in Variables \cup {<<>>} :
             /\ LET step == StepTowards(w, b, rate, d)
                    group == NextGroup(w.group, step.price, w.next, skip, fee, d)
                IN  /\ StepWithin(w, fee, d) = Stepped(w, variables, group, step, rate, d)
                    /\ step.is # "none"
                    /\ ~(step.amount_in + step.fee_amount > w.remaining)
                    /\ Fits(w.calculated + step.amount_out)
             /\ OnTheWay(w.price, SqrtPrice[b], d) /\ (IF d THEN w.next =< b ELSE b =< w.next)
             /\ IF fee.adaptive
                THEN /\ variables = update_volatility_accumulator(w.variables, w.group, fee)
                     /\ rate = RateAt(w.variables, w.group, fee)
                     /\ EndsAt(w, d, fee, b, skip)
                ELSE b = w.next /\ variables = w.variables
<1> DEFINE variables == IF fee.adaptive
                        THEN update_volatility_accumulator(w.variables, w.group, fee)
                        ELSE w.variables
           rate == get_total_fee_rate(variables, fee)
           target == Nearer(tick_index_to_sqrt_price(w.next), WhirlpoolLimit(d), d)
           bounded == Bounded(target, w.liquidity, w, fee, d)
           step == WhirlpoolStep(w.price, bounded.price, w.liquidity, w.remaining, rate, d)
           v == StepWithin(w, fee, d)
<1>0. w.group \in Int /\ w.next \in Int /\ w.liquidity \in Nat
      /\ w.variables \in Variables \cup {<<>>}
  BY TickRange DEF Walks
<1>1. target = SqrtPrice[w.next] /\ tick_index_to_sqrt_price(w.next) = SqrtPrice[w.next]
  BY TargetIs DEF Ready, tick_index_to_sqrt_price
<1>2. /\ variables \in Variables \cup {<<>>} /\ rate \in 0..(FeeDenominator - 1)
      /\ fee.adaptive => rate = RateAt(w.variables, w.group, fee)
  <2>1. CASE fee.adaptive
    <3>1. variables \in Variables
      BY <1>0, <2>1, UpdateIs DEF Rated, Whirlpools
    <3>2. rate \in 0..(FeeDenominator - 1)
      BY <2>1, <3>1, RateWithin DEF Whirlpools
    <3> QED
      BY <2>1, <3>1, <3>2 DEF RateAt
  <2>2. CASE ~fee.adaptive
    BY <1>0, <2>2 DEF Whirlpools, get_total_fee_rate
  <2> QED
    BY <2>1, <2>2
<1>3. PICK b \in MinTick..MaxTick :
        /\ bounded.price = SqrtPrice[b] /\ bounded.skip \in BOOLEAN
        /\ OnTheWay(w.price, SqrtPrice[b], d) /\ (IF d THEN w.next =< b ELSE b =< w.next)
        /\ IF fee.adaptive THEN EndsAt(w, d, fee, b, bounded.skip) ELSE b = w.next
  <2>1. CASE fee.adaptive
    <3>1. \E b \in MinTick..MaxTick :
            /\ bounded.price = SqrtPrice[b] /\ OnTheWay(w.price, SqrtPrice[b], d)
            /\ IF d THEN w.next =< b ELSE b =< w.next
            /\ bounded.skip \in BOOLEAN /\ EndsAt(w, d, fee, b, bounded.skip)
      BY <1>1, <2>1, BoundedIs DEF Rated, Whirlpools, Ready
    <3> QED
      BY <2>1, <3>1
  <2>2. CASE ~fee.adaptive
    <3>1. bounded = [price |-> SqrtPrice[w.next], skip |-> FALSE]
      BY <1>1, <2>2 DEF Bounded
    <3>2. bounded.price = SqrtPrice[w.next] /\ bounded.skip \in BOOLEAN
      BY <3>1
    <3>3. w.next \in MinTick..MaxTick /\ OnTheWay(w.price, SqrtPrice[w.next], d)
      BY DEF Ready
    <3>4. IF d THEN w.next =< w.next ELSE w.next =< w.next
      BY <1>0
    <3> HIDE DEF bounded
    <3> QED
      BY <2>2, <3>2, <3>3, <3>4
  <2> QED
    BY <2>1, <2>2
<1>4. step = StepTowards(w, b, rate, d)
  BY <1>3 DEF StepTowards
<1> DEFINE skip == bounded.skip
           group == NextGroup(w.group, step.price, w.next, skip, fee, d)
<1> HIDE DEF variables, rate, step, target, bounded, skip
<1>5. /\ step.is # "none" /\ ~(step.amount_in + step.fee_amount > w.remaining)
      /\ Fits(w.calculated + step.amount_out)
      /\ v = Stepped(w, variables, group, step, rate, d)
  <2>1. v = IF step.is = "none" THEN Nothing
            ELSE IF \/ step.amount_in + step.fee_amount > w.remaining
                    \/ ~Fits(w.calculated + step.amount_out) THEN Nothing
            ELSE Stepped(w, variables, group, step, rate, d)
    <3> DEFINE crossed == step.price = tick_index_to_sqrt_price(w.next)
               remaining == w.remaining - step.amount_in - step.fee_amount
               after == [w EXCEPT
                            !.remaining = remaining,
                            !.calculated = @ + step.amount_out,
                            !.price = step.price,
                            !.liquidity = IF crossed
                                THEN get_next_liquidity(@, Tick(w.sequence, w.next), d) ELSE @,
                            !.tick = IF crossed THEN (IF d THEN w.next - 1 ELSE w.next)
                                ELSE IF step.price # w.price
                                     THEN sqrt_price_to_tick_index(step.price) ELSE @,
                            !.variables = variables,
                            !.group = NextGroup(@, step.price, w.next, skip, fee, d),
                            !.inside = remaining # 0 /\ step.price # target,
                            !.charged = [from |-> w.price, rate |-> rate,
                                         liquidity |-> w.liquidity]]
    <3>1. v = IF step.is = "none" THEN Nothing
              ELSE IF \/ step.amount_in + step.fee_amount > w.remaining
                      \/ ~Fits(w.calculated + step.amount_out) THEN Nothing
              ELSE after
      BY Zenon DEF StepWithin, variables, rate, step, target, bounded, skip
    <3>2. after = Stepped(w, variables, group, step, rate, d)
      BY <1>1, SMTT(30) DEF Stepped
    <3> QED
      BY <3>1, <3>2
  <2>2. v # Nothing
    BY DEF Nothing
  <2> QED
    BY <2>1, <2>2
<1> HIDE DEF v, group
<1>6. /\ skip \in BOOLEAN
      /\ IF fee.adaptive THEN EndsAt(w, d, fee, b, skip) ELSE b = w.next
  BY <1>3 DEF skip
<1>7. /\ fee.adaptive => variables = update_volatility_accumulator(w.variables, w.group, fee)
      /\ ~fee.adaptive => variables = w.variables
  BY DEF variables
<1>8. group = NextGroup(w.group, StepTowards(w, b, rate, d).price, w.next, skip, fee, d)
  BY <1>4 DEF group
<1> QED
  BY <1>2, <1>3, <1>4, <1>5, <1>6, <1>7, <1>8 DEF v

LEMMA LiquidityType ==
    ASSUME NEW L \in Nat, NEW net \in Int, NEW d \in BOOLEAN
    PROVE  get_next_liquidity(L, net, d) \in Nat
<1>1. PICK n \in Int : n = IF d THEN L - net ELSE L + net
  <2>1. L - net \in Int /\ L + net \in Int
    OBVIOUS
  <2> QED
    BY <2>1
<1>2. PICK width \in Nat \ {0} : width = U128
  BY WidthFacts
<1>3. n % width \in Nat
  OBVIOUS
<1> QED
  BY <1>1, <1>2, <1>3 DEF get_next_liquidity

LEMMA TickType ==
    ASSUME NEW seq \in Sequences, NEW t
    PROVE  Tick(seq, t) \in Int
<1>1. PICK S \in SUBSET Grid : seq.net \in [S -> Int]
  BY DEF Sequences
<1> QED
  BY <1>1 DEF Tick

LEMMA PriceType ==
    ASSUME NEW w \in Walks
    PROVE  w.price \in Nat \ {0} /\ SqrtPrice[MinTick] =< w.price /\ w.price =< SqrtPrice[MaxTick]
<1>1. SqrtPrice[MinTick] \in Nat \ {0} /\ SqrtPrice[MaxTick] \in Nat \ {0}
  BY Prices, TickRange
<1>2. w.price \in SqrtPrice[MinTick]..SqrtPrice[MaxTick]
  BY DEF Walks
<1> QED
  BY <1>1, <1>2

\* v is w after a step that ends at tick b.
StepsTo(w, v, variables, group, step, b, rate, skip, fee, d) ==
    /\ step = StepTowards(w, b, rate, d)
    /\ group = NextGroup(w.group, step.price, w.next, skip, fee, d)
    /\ v = Stepped(w, variables, group, step, rate, d)
    /\ step.is # "none" /\ ~(step.amount_in + step.fee_amount > w.remaining)
    /\ Fits(w.calculated + step.amount_out)

\* A step leaves a walk, with less to take.
LEMMA StepType ==
    ASSUME NEW w \in Walks, NEW fee, Whirlpools(fee), NEW d \in BOOLEAN, Rated(w, fee),
           Ready(w, d), NEW variables \in Variables \cup {<<>>}, NEW skip \in BOOLEAN,
           NEW b \in MinTick..MaxTick, OnTheWay(w.price, SqrtPrice[b], d),
           NEW rate \in 0..(FeeDenominator - 1), NEW step, NEW v, NEW group,
           StepsTo(w, v, variables, group, step, b, rate, skip, fee, d)
    PROVE  /\ v \in Walks /\ v.remaining =< w.remaining
           /\ step.price \in Nat
           /\ OnTheWay(w.price, step.price, d) /\ OnTheWay(step.price, SqrtPrice[b], d)
           /\ v.remaining # 0 => step.price = SqrtPrice[b]
<1>0. /\ step = StepTowards(w, b, rate, d) /\ step.is # "none"
      /\ ~(step.amount_in + step.fee_amount > w.remaining)
      /\ Fits(w.calculated + step.amount_out)
      /\ group = NextGroup(w.group, step.price, w.next, skip, fee, d)
      /\ v = Stepped(w, variables, group, step, rate, d)
  BY DEF StepsTo
<1>1. /\ w.remaining \in Nat /\ Fits(w.remaining) /\ w.liquidity \in Nat
      /\ w.calculated \in Nat /\ w.sequence \in Sequences /\ w.group \in Int
      /\ w.tick \in (MinTick - 1)..MaxTick
  BY DEF Walks, Amounts
<1>2. w.price \in Nat \ {0}
  BY PriceType
<1>3. SqrtPrice[b] \in Nat \ {0} /\ SqrtPrice[MinTick] \in Nat \ {0} /\ SqrtPrice[MaxTick] \in Nat \ {0}
  BY Prices, TickRange
<1>4. /\ step.price \in SqrtPrice[MinTick]..SqrtPrice[MaxTick]
      /\ OnTheWay(w.price, step.price, d) /\ OnTheWay(step.price, SqrtPrice[b], d)
      /\ step.amount_in \in Nat /\ step.amount_out \in Nat /\ step.fee_amount \in Int
      /\ step.fee_amount >= 0
      /\ step.price # SqrtPrice[b] => w.remaining - step.amount_in - step.fee_amount = 0
  <2>1. PICK p \in Nat \ {0}, target \in Nat \ {0}, L \in Nat, n \in Nat :
          p = w.price /\ target = SqrtPrice[b] /\ L = w.liquidity /\ n = w.remaining
    BY <1>1, <1>2, <1>3
  <2>2. step = WhirlpoolStep(p, target, L, n, rate, d)
    BY <1>0, <2>1 DEF StepTowards
  <2>3. OnTheWay(p, target, d) /\ Fits(n) /\ WhirlpoolStep(p, target, L, n, rate, d).is # "none"
    BY <1>0, <1>1, <2>1, <2>2
  <2>4. LET s == WhirlpoolStep(p, target, L, n, rate, d)
        IN  /\ s.price \in SqrtPrice[MinTick]..SqrtPrice[MaxTick]
            /\ OnTheWay(p, s.price, d) /\ OnTheWay(s.price, target, d)
            /\ s.amount_in \in Nat /\ s.amount_out \in Nat /\ s.fee_amount \in Int
            /\ s.fee_amount >= 0
            /\ s.price # target => n - s.amount_in - s.fee_amount = 0
    BY <1>0, <2>3, StepIs
  <2> QED
    BY <2>1, <2>2, <2>4
<1>5. PICK price \in Nat, taken \in Nat, out \in Nat, charge \in Nat :
        /\ price = step.price /\ taken = step.amount_in /\ out = step.amount_out
        /\ charge = step.fee_amount
  BY <1>3, <1>4
<1>6. PICK remaining \in Amounts :
        remaining = w.remaining - step.amount_in - step.fee_amount /\ remaining =< w.remaining
  <2>1. PICK n \in Nat, width \in Nat : n = w.remaining /\ width = U64 /\ n < width
    BY <1>1, WidthAssumption DEF Fits
  <2>2. ~(taken + charge > n)
    BY <1>0, <1>5, <2>1
  <2>3. n - taken - charge \in Nat /\ n - taken - charge < width /\ n - taken - charge =< n
    BY <2>1, <2>2
  <2> QED
    BY <1>5, <2>1, <2>3 DEF Amounts, Fits
<1>7. w.calculated + step.amount_out \in Amounts
  BY <1>0, <1>1, <1>5 DEF Amounts
<1>8. PICK liquidity \in Nat :
        liquidity = IF step.price = SqrtPrice[w.next]
                    THEN get_next_liquidity(w.liquidity, Tick(w.sequence, w.next), d)
                    ELSE w.liquidity
  BY <1>1, TickType, LiquidityType
<1>9. PICK tick \in (MinTick - 1)..MaxTick :
        tick = IF step.price = SqrtPrice[w.next] THEN (IF d THEN w.next - 1 ELSE w.next)
               ELSE IF step.price # w.price THEN sqrt_price_to_tick_index(step.price)
               ELSE w.tick
  <2>1. w.next \in MinTick..MaxTick
    BY DEF Ready
  <2>2. step.price \in Int /\ SqrtPrice[MinTick] =< step.price
    BY <1>3, <1>4
  <2>3. sqrt_price_to_tick_index(step.price) \in MinTick..MaxTick
    BY <2>2, TickOfPrice
  <2> QED
    BY <1>1, <2>1, <2>3, TickRange
<1>10. group \in Int
  <2>1. step.price \in Int /\ SqrtPrice[MinTick] =< step.price
    BY <1>3, <1>4
  <2>2. w.next \in Int /\ (fee.adaptive => Adapts(fee))
    BY TickRange DEF Ready, Whirlpools
  <2> QED
    BY <1>0, <1>1, <2>1, <2>2, NextGroupType
<1>11. PICK inside \in BOOLEAN :
         inside = (w.remaining - step.amount_in - step.fee_amount # 0
                     /\ step.price # SqrtPrice[w.next])
  OBVIOUS
<1>12. v = [w EXCEPT !.remaining = remaining, !.calculated = w.calculated + step.amount_out,
                     !.price = step.price, !.liquidity = liquidity, !.tick = tick,
                     !.variables = variables, !.group = group, !.inside = inside,
                     !.charged = [from |-> w.price, rate |-> rate, liquidity |-> w.liquidity]]
  BY <1>0, <1>6, <1>8, <1>9, <1>11 DEF Stepped
<1>13. [from |-> w.price, rate |-> rate, liquidity |-> w.liquidity]
         \in [from : Nat, rate : Int, liquidity : Nat]
  <2>1. rate \in Int
    BY SwapAssumption
  <2> QED
    BY <1>1, <1>2, <2>1
<1>14. v \in Walks
  <2>1. PICK sum \in Amounts, p \in SqrtPrice[MinTick]..SqrtPrice[MaxTick], g \in Int,
             charged \in [from : Nat, rate : Int, liquidity : Nat] :
          /\ sum = w.calculated + step.amount_out /\ p = step.price /\ g = group
          /\ charged = [from |-> w.price, rate |-> rate, liquidity |-> w.liquidity]
    BY <1>4, <1>7, <1>10, <1>13
  <2>2. v = [w EXCEPT !.remaining = remaining, !.calculated = sum, !.price = p,
                      !.liquidity = liquidity, !.tick = tick, !.variables = variables,
                      !.group = g, !.inside = inside, !.charged = charged]
    BY <1>12, <2>1
  <2>3. PICK u \in Walks : u = [w EXCEPT !.remaining = remaining, !.calculated = sum, !.price = p]
    BY DEF Walks
  <2>4. PICK x \in Walks : x = [u EXCEPT !.liquidity = liquidity, !.tick = tick,
                                          !.variables = variables]
    BY DEF Walks
  <2>5. [x EXCEPT !.group = g, !.inside = inside, !.charged = charged] \in Walks
    BY DEF Walks
  <2> QED
    BY <2>2, <2>3, <2>4, <2>5
<1>15. v.remaining = remaining
  BY <1>12 DEF Walks
<1> QED
  BY <1>4, <1>5, <1>6, <1>14, <1>15

LEMMA SteppedFields ==
    ASSUME NEW w \in Walks, NEW variables, NEW group, NEW step, NEW rate, NEW d \in BOOLEAN
    PROVE  LET v == Stepped(w, variables, group, step, rate, d)
           IN  /\ v.is = "walking" /\ v.price = step.price /\ v.variables = variables
               /\ v.group = group /\ v.next = w.next /\ v.sequence = w.sequence
               /\ v.charged.from = w.price /\ v.charged.rate = rate
               /\ v.charged.liquidity = w.liquidity
               /\ v.inside <=> v.remaining # 0 /\ step.price # SqrtPrice[w.next]
               /\ step.price = SqrtPrice[w.next] => v.tick = IF d THEN w.next - 1 ELSE w.next
  BY DEF Stepped, Walks

\* Every stretch of the step is charged at the rate of its group.
LEMMA StepIsByGroup ==
    ASSUME NEW w \in Walks, NEW fee, Adapts(fee), NEW d \in BOOLEAN,
           w.variables \in Variables, Refers(w.variables, fee), Placed(w, d, fee.tick_group_size),
           NEW b \in MinTick..MaxTick, NEW skip \in BOOLEAN, EndsAt(w, d, fee, b, skip),
           NEW v, v.price \in Nat, v.charged.from = w.price,
           OnTheWay(w.price, v.price, d), OnTheWay(v.price, SqrtPrice[b], d),
           v.variables = update_volatility_accumulator(w.variables, w.group, fee),
           v.charged.rate = RateAt(w.variables, w.group, fee), v.charged.liquidity = w.liquidity
    PROVE  ByGroup(v, fee)
<1>1. PICK p \in Nat, q \in Nat : p = w.price /\ q = v.price
  BY PriceType
<1>2. /\ Min({q, p}) = (IF d THEN q ELSE p) /\ Max({q, p}) = (IF d THEN p ELSE q)
  <2>1. p \in Int /\ q \in Int
    OBVIOUS
  <2>2. /\ Max({q, p}) = IF q >= p THEN q ELSE p
        /\ Min({q, p}) = IF q =< p THEN q ELSE p
    BY <2>1, OfTwo
  <2> QED
    BY <1>1, <2>2 DEF OnTheWay
<1>3. ASSUME NEW t \in MinTick..(MaxTick - 1), w.liquidity > 0,
             Max({IF d THEN q ELSE p, SqrtPrice[t]}) < Min({IF d THEN p ELSE q, SqrtPrice[t + 1]})
      PROVE  v.charged.rate = RateAt(v.variables, GroupOf(t, fee), fee)
  <2>1. t \in Int /\ t \in MinTick..MaxTick /\ t + 1 \in MinTick..MaxTick
    BY TickRange
  <2>2. PICK low \in Int, high \in Int, from \in Int, to \in Int :
          /\ low = (IF d THEN q ELSE p) /\ high = (IF d THEN p ELSE q)
          /\ from = SqrtPrice[t] /\ to = SqrtPrice[t + 1]
    BY <2>1, Prices
  <2>3. /\ Max({low, from}) = IF low >= from THEN low ELSE from
        /\ Min({high, to}) = IF high =< to THEN high ELSE to
    BY OfTwo
  <2>4. from < high /\ low < to
    BY <1>3, <2>2, <2>3
  <2>5. RateAt(w.variables, GroupOf(t, fee), fee) = RateAt(w.variables, w.group, fee)
    <3>1. /\ SqrtPrice[t] < (IF d THEN w.price ELSE q)
          /\ (IF d THEN q ELSE w.price) < SqrtPrice[t + 1]
      BY <1>1, <2>2, <2>4
    <3>2. OnTheWay(q, SqrtPrice[b], d)
      BY <1>1
    <3> QED
      BY <1>3, <3>1, <3>2, StretchIsCharged
  <2>6. GroupOf(t, fee) \in Int /\ w.group \in Int
    <3>1. fee.tick_group_size \in Nat \ {0}
      BY DEF Adapts
    <3> QED
      BY <2>1, <3>1, Quotient DEF GroupOf, Walks
  <2>7. RateAt(v.variables, GroupOf(t, fee), fee) = RateAt(w.variables, GroupOf(t, fee), fee)
    BY <2>6, RateAgain
  <2> QED
    BY <2>5, <2>7
<1> QED
  BY <1>1, <1>2, <1>3 DEF ByGroup

\* Inside the inner loop the walk goes on from a boundary of groups.
LEMMA StepStaysPlaced ==
    ASSUME NEW w \in Walks, NEW fee, Adapts(fee), NEW d \in BOOLEAN,
           w.variables \in Variables, Refers(w.variables, fee), Placed(w, d, fee.tick_group_size),
           w.next \in MinTick..MaxTick,
           NEW b \in MinTick..MaxTick, NEW skip \in BOOLEAN, EndsAt(w, d, fee, b, skip),
           IF d THEN w.next < b ELSE b < w.next,
           NEW v, v.price = SqrtPrice[b], v.next = w.next,
           v.group = NextGroup(w.group, SqrtPrice[b], w.next, skip, fee, d)
    PROVE  Placed(v, d, fee.tick_group_size)
<1> DEFINE core == CoreRange(w.variables, fee)
<1>1. PICK size \in Nat \ {0} : size = fee.tick_group_size
  BY DEF Adapts
<1>2. PICK g \in Int, lower \in Int, upper \in Int, n \in MinTick..MaxTick :
        g = w.group /\ lower = core.lower /\ upper = core.upper /\ n = w.next
  <2>1. w.group \in Int
    BY DEF Walks
  <2>2. core.lower \in Int /\ core.upper \in Int
    BY CoreIs
  <2> QED
    BY <2>1, <2>2
<1> HIDE DEF core
<1>3. PICK k \in Int : b = k * size
  <2>1. ASSUME b = Clamped(IF d THEN g * size ELSE (g + 1) * size) PROVE \E i \in Int : b = i * size
    <3>1. g * size \in Int /\ (g + 1) * size \in Int /\ g + 1 \in Int
      OBVIOUS
    <3>2. g * size =< MaxTick /\ MinTick =< (g + 1) * size
      BY <1>1, <1>2 DEF Placed, InGroup, HoldsTicks
    <3>3. CASE d
      <4>1. MinTick < b
        BY <1>2, <3>3, TickRange
      <4>2. b = g * size
        BY <2>1, <3>1, <3>2, <3>3, <4>1, ClampedIs, TickRange
      <4> QED
        BY <4>2
    <3>4. CASE ~d
      <4>1. b < MaxTick
        BY <1>2, <3>4, TickRange
      <4>2. b = (g + 1) * size
        BY <2>1, <3>1, <3>2, <3>4, <4>1, ClampedIs, TickRange
      <4> QED
        BY <3>1, <4>2
    <3> QED
      BY <3>3, <3>4
  <2>2. b # n
    BY <1>2, TickRange
  <2>3. \/ b = lower * size \/ b = (upper + 1) * size
        \/ b = Clamped(IF d THEN g * size ELSE (g + 1) * size)
    BY <1>1, <1>2, <2>2 DEF EndsAt, core
  <2>4. upper + 1 \in Int
    OBVIOUS
  <2> QED
    BY <2>1, <2>3, <2>4
<1>4. SqrtPrice[b] # WhirlpoolLimit(d)
  <2>1. b # IF d THEN MinTick ELSE MaxTick
    BY <1>2, TickRange
  <2>2. MinTick \in MinTick..MaxTick /\ MaxTick \in MinTick..MaxTick
    BY TickRange
  <2> QED
    BY <2>1, <2>2, Prices DEF WhirlpoolLimit, tick_index_to_sqrt_price
<1>5. v.group = IF d THEN k - 1 ELSE k
  BY <1>1, <1>3, <1>4, NextGroupIs
<1>6. InGroup(v, size) /\ (d => (v.group + 1) * size = k * size)
  BY <1>3, <1>5, OnBoundary
<1>7. IF d THEN v.next < (v.group + 1) * size ELSE v.group * size < v.next
  BY <1>2, <1>3, <1>5, <1>6
<1> QED
  BY <1>1, <1>6, <1>7 DEF Placed

\* And so it does between two of them.
LEMMA StepStands ==
    ASSUME NEW w \in Walks, NEW fee, Adapts(fee), NEW d \in BOOLEAN,
           w.variables \in Variables, Refers(w.variables, fee), Placed(w, d, fee.tick_group_size),
           NEW n \in MinTick..MaxTick, n = w.next, n % TickSpacing = 0,
           NEW skip \in BOOLEAN, EndsAt(w, d, fee, n, skip), SqrtPrice[n] # WhirlpoolLimit(d),
           NEW v, v.price = SqrtPrice[n], v.tick = (IF d THEN n - 1 ELSE n),
           v.group = NextGroup(w.group, SqrtPrice[n], w.next, skip, fee, d)
    PROVE  Stands(v, d, fee.tick_group_size)
<1>1. PICK size \in Nat \ {0} : size = fee.tick_group_size /\ TickSpacing % size = 0
  BY DEF Adapts
<1>2. n \in Int
  BY TickRange
<1>3. PICK k \in Int : n = k * size
  BY <1>1, <1>2, OnGroup
<1>4. v.group = IF d THEN k - 1 ELSE k
  <2>1. PICK b \in MinTick..MaxTick : b = n
    OBVIOUS
  <2>2. /\ w.next \in MinTick..MaxTick /\ b = k * size
        /\ EndsAt(w, d, fee, b, skip) /\ SqrtPrice[b] # WhirlpoolLimit(d)
        /\ v.group = NextGroup(w.group, SqrtPrice[b], w.next, skip, fee, d)
    BY <1>3, <2>1
  <2> QED
    BY <1>1, <2>2, NextGroupIs
<1>5. InGroup(v, size) /\ (d => (v.group + 1) * size = k * size)
  BY <1>3, <1>4, OnBoundary
<1>6. IF d THEN v.tick < (v.group + 1) * size ELSE v.group * size =< v.tick
  BY <1>2, <1>3, <1>4, <1>5
<1> QED
  BY <1>1, <1>5, <1>6 DEF Stands

\* A step of the walk keeps what it is.
LEMMA StepKeeps ==
    ASSUME NEW w \in Walks, NEW fee, Whirlpools(fee), NEW d \in BOOLEAN, Rated(w, fee),
           Ready(w, d), fee.adaptive => Placed(w, d, fee.tick_group_size),
           NEW v, v = StepWithin(w, fee, d), v.is # "none"
    PROVE  Walked(v, fee, d) /\ v.remaining =< w.remaining
<1>1. PICK b \in MinTick..MaxTick, skip \in BOOLEAN, rate \in 0..(FeeDenominator - 1),
           variables \in Variables \cup {<<>>} :
        /\ LET step == StepTowards(w, b, rate, d)
               group == NextGroup(w.group, step.price, w.next, skip, fee, d)
           IN  /\ StepWithin(w, fee, d) = Stepped(w, variables, group, step, rate, d)
               /\ step.is # "none"
               /\ ~(step.amount_in + step.fee_amount > w.remaining)
               /\ Fits(w.calculated + step.amount_out)
        /\ OnTheWay(w.price, SqrtPrice[b], d) /\ (IF d THEN w.next =< b ELSE b =< w.next)
        /\ IF fee.adaptive
           THEN /\ variables = update_volatility_accumulator(w.variables, w.group, fee)
                /\ rate = RateAt(w.variables, w.group, fee)
                /\ EndsAt(w, d, fee, b, skip)
           ELSE b = w.next /\ variables = w.variables
  BY StepApart
<1>2. PICK step, group :
        /\ step = StepTowards(w, b, rate, d)
        /\ group = NextGroup(w.group, step.price, w.next, skip, fee, d)
  OBVIOUS
<1>3. /\ v = Stepped(w, variables, group, step, rate, d) /\ step.is # "none"
      /\ ~(step.amount_in + step.fee_amount > w.remaining)
      /\ Fits(w.calculated + step.amount_out)
  BY <1>1, <1>2
<1>4. /\ v \in Walks /\ v.remaining =< w.remaining /\ step.price \in Nat
      /\ OnTheWay(w.price, step.price, d) /\ OnTheWay(step.price, SqrtPrice[b], d)
      /\ v.remaining # 0 => step.price = SqrtPrice[b]
  <2>1. OnTheWay(w.price, SqrtPrice[b], d)
    BY <1>1
  <2>2. StepsTo(w, v, variables, group, step, b, rate, skip, fee, d)
    BY <1>2, <1>3 DEF StepsTo
  <2> QED
    BY <2>1, <2>2, StepType
<1>5. /\ v.price = step.price /\ v.variables = variables /\ v.group = group
      /\ v.next = w.next /\ v.sequence = w.sequence
      /\ v.charged.from = w.price /\ v.charged.rate = rate /\ v.charged.liquidity = w.liquidity
      /\ v.inside <=> v.remaining # 0 /\ step.price # SqrtPrice[w.next]
      /\ step.price = SqrtPrice[w.next] => v.tick = IF d THEN w.next - 1 ELSE w.next
  BY <1>3, SteppedFields
<1>6. w.next \in MinTick..MaxTick /\ w.next \in Int /\ b \in Int
  BY TickRange DEF Ready
<1>7. fee.adaptive =>
        /\ Adapts(fee) /\ w.variables \in Variables /\ Refers(w.variables, fee)
        /\ Placed(w, d, fee.tick_group_size)
  BY DEF Whirlpools, Rated
<1>8. Rated(v, fee)
  <2> SUFFICES ASSUME fee.adaptive PROVE v.variables \in Variables /\ Refers(v.variables, fee)
    BY DEF Rated
  <2>1. w.group \in Int
    BY DEF Walks
  <2>2. /\ v.variables \in Variables
        /\ v.variables = [w.variables EXCEPT
                            !.volatility_accumulator = AccumulatorAt(w.variables, w.group, fee)]
    <3>1. PICK u \in Variables, g \in Int : u = w.variables /\ g = w.group
      BY <1>7, <2>1
    <3>2. /\ update_volatility_accumulator(u, g, fee) \in Variables
          /\ update_volatility_accumulator(u, g, fee)
               = [u EXCEPT !.volatility_accumulator = AccumulatorAt(u, g, fee)]
      BY <1>7, UpdateIs
    <3> QED
      BY <1>1, <1>5, <3>1, <3>2
  <2> QED
    BY <1>7, <2>2 DEF Refers, Variables
<1>9. fee.adaptive => ByGroup(v, fee)
  BY <1>1, <1>4, <1>5, <1>7, StepIsByGroup
<1>10. ASSUME v.inside
       PROVE  Ready(v, d) /\ (fee.adaptive => Placed(v, d, fee.tick_group_size))
  <2>1. step.price = SqrtPrice[b] /\ b # w.next
    BY <1>4, <1>5, <1>10
  <2>2. IF d THEN w.next < b ELSE b < w.next
    BY <1>1, <1>6, <2>1
  <2>3. OnTheWay(SqrtPrice[b], SqrtPrice[w.next], d)
    BY <1>6, <2>2, Prices DEF OnTheWay
  <2>4. Ready(v, d)
    BY <1>5, <1>6, <2>1, <2>3 DEF Ready
  <2>5. ASSUME fee.adaptive PROVE Placed(v, d, fee.tick_group_size)
    <3>1. /\ v.price = SqrtPrice[b] /\ v.next = w.next
          /\ v.group = NextGroup(w.group, SqrtPrice[b], w.next, skip, fee, d)
      BY <1>2, <1>5, <2>1
    <3> QED
      BY <1>1, <1>6, <1>7, <2>2, <2>5, <3>1, StepStaysPlaced
  <2> QED
    BY <2>4, <2>5
<1>11. ASSUME ~v.inside, GoesOn(v, d)
       PROVE  Faces(v, d) /\ (fee.adaptive => Stands(v, d, fee.tick_group_size))
  <2>1. PICK n \in MinTick..MaxTick : n = w.next
    BY <1>6
  <2>2. /\ v.price = SqrtPrice[n] /\ step.price = SqrtPrice[n] /\ b = n
        /\ v.tick = IF d THEN n - 1 ELSE n
    <3>1. v.remaining # 0
      BY <1>11 DEF GoesOn
    <3>2. step.price = SqrtPrice[n] /\ step.price = SqrtPrice[b]
      BY <1>4, <1>5, <1>11, <2>1, <3>1
    <3>3. b = n
      BY <3>2, Prices
    <3> QED
      BY <1>5, <2>1, <3>2, <3>3
  <2>3. SqrtPrice[n] # WhirlpoolLimit(d) /\ ~PastSequence(v.sequence, v.tick, d)
    BY <1>11, <2>2 DEF GoesOn
  <2>4. IF d THEN n # MinTick ELSE n # MaxTick
    BY <2>3 DEF WhirlpoolLimit, tick_index_to_sqrt_price
  <2>5. Faces(v, d)
    <3>1. CASE d
      <4>1. n - 1 \in MinTick..MaxTick /\ n - 1 =< n
        BY <2>4, <3>1, TickRange
      <4> QED
        BY <2>2, <3>1, <4>1, Prices DEF Faces
    <3>2. CASE ~d
      <4>1. n + 1 \in MinTick..MaxTick /\ n =< n + 1
        BY <2>4, <3>2, TickRange
      <4> QED
        BY <2>2, <3>2, <4>1, Prices DEF Faces
    <3> QED
      BY <3>1, <3>2
  <2>6. ASSUME fee.adaptive PROVE Stands(v, d, fee.tick_group_size)
    <3>1. n % TickSpacing = 0
      <4>1. n % TickSpacing = 0 \/ n = (IF d THEN MinTick ELSE v.sequence.end_index)
        BY <1>5, <2>1 DEF Ready
      <4>2. CASE d
        BY <2>4, <4>1, <4>2
      <4>3. CASE ~d
        <5>1. ~(n >= v.sequence.end_index) /\ n \in Int
          BY <2>1, <2>2, <2>3, <4>3, TickRange DEF PastSequence
        <5>2. n # v.sequence.end_index
          BY <5>1
        <5> QED
          BY <4>1, <4>3, <5>2
      <4> QED
        BY <4>2, <4>3
    <3>2. EndsAt(w, d, fee, n, skip)
      BY <1>1, <2>2, <2>6
    <3>3. v.group = NextGroup(w.group, SqrtPrice[n], w.next, skip, fee, d)
      BY <1>2, <1>5, <2>2
    <3> QED
      BY <1>7, <2>1, <2>2, <2>3, <2>6, <3>1, <3>2, <3>3, StepStands
  <2> QED
    BY <2>5, <2>6
<1> QED
  BY <1>4, <1>8, <1>9, <1>10, <1>11 DEF Walked

\* The tick to walk to next lies ahead, at a multiple of the spacing or at the
\* end of the arrays.
LEMMA TickAhead ==
    ASSUME NEW seq \in Sequences, NEW t \in (MinTick - 1)..MaxTick, NEW d \in BOOLEAN,
           ~PastSequence(seq, t, d),
           NEW n, n = IF d THEN prev_initialized_tick(seq, t, TickSpacing)
                      ELSE next_initialized_tick_of(seq, t, TickSpacing)
    PROVE  /\ n \in MinTick..MaxTick /\ (IF d THEN n =< t ELSE t < n)
           /\ n % TickSpacing = 0 \/ n = (IF d THEN MinTick ELSE seq.end_index)
<1>1. PICK from \in Int, to \in Int :
        /\ from = seq.start_index /\ to = seq.end_index /\ from >= MinTick /\ to =< MaxTick
        /\ from = MinTick \/ from % TickSpacing = 0
  BY DEF Sequences
<1>2. PICK S \in SUBSET Grid : S = DOMAIN seq.net
  BY DEF Sequences
<1>3. t \in Int /\ MinTick \in Int /\ MaxTick \in Int
  BY TickRange
<1>4. CASE d
  <2> DEFINE ahead == {u \in S : u =< t /\ u >= from}
  <2>1. from =< t
    BY <1>1, <1>3, <1>4 DEF PastSequence
  <2>2. n = IF ahead # {} THEN Max(ahead) ELSE from
    BY <1>1, <1>2, <1>4 DEF prev_initialized_tick
  <2>3. CASE ahead = {}
    BY <1>1, <1>3, <1>4, <2>1, <2>2, <2>3
  <2>4. CASE ahead # {}
    <3>1. ahead \subseteq MinTick..MaxTick
      BY DEF Grid
    <3>2. Max(ahead) \in ahead
      BY <1>3, <2>4, <3>1, GreatestOf
    <3>3. n \in Grid /\ n =< t
      BY <2>2, <2>4, <3>2
    <3> QED
      BY <1>4, <3>3 DEF Grid
  <2> QED
    BY <2>3, <2>4
<1>5. CASE ~d
  <2> DEFINE ahead == {u \in S : u > t /\ u =< to}
  <2>1. t < to
    BY <1>1, <1>3, <1>5 DEF PastSequence
  <2>2. n = IF ahead # {} THEN Min(ahead) ELSE to
    BY <1>1, <1>2, <1>5 DEF next_initialized_tick_of
  <2>3. CASE ahead = {}
    BY <1>1, <1>3, <1>5, <2>1, <2>2, <2>3
  <2>4. CASE ahead # {}
    <3>1. ahead \subseteq MinTick..MaxTick
      BY DEF Grid
    <3>2. Min(ahead) \in ahead
      BY <1>3, <2>4, <3>1, LeastOf
    <3>3. n \in Grid /\ n > t
      BY <2>2, <2>4, <3>2
    <3>4. n \in MinTick..MaxTick /\ n % TickSpacing = 0
      BY <3>3 DEF Grid
    <3> QED
      BY <1>3, <1>5, <3>3, <3>4
  <2> QED
    BY <2>3, <2>4
<1> QED
  BY <1>4, <1>5

\* So the inner loop begins where a step may begin.
LEMMA InnerLoopBegins ==
    ASSUME NEW fee, Whirlpools(fee), NEW d \in BOOLEAN, NEW w, Walked(w, fee, d),
           ~w.inside, GoesOn(w, d),
           NEW n, n = IF d THEN prev_initialized_tick(w.sequence, w.tick, TickSpacing)
                      ELSE next_initialized_tick_of(w.sequence, w.tick, TickSpacing),
           NEW v, v = [w EXCEPT !.next = n]
    PROVE  /\ v \in Walks /\ Rated(v, fee) /\ Ready(v, d)
           /\ fee.adaptive => Placed(v, d, fee.tick_group_size)
           /\ v.remaining = w.remaining
<1>1. /\ w \in Walks /\ w.sequence \in Sequences /\ w.tick \in (MinTick - 1)..MaxTick
      /\ w.group \in Int /\ Rated(w, fee) /\ Faces(w, d)
      /\ fee.adaptive => Stands(w, d, fee.tick_group_size)
  BY DEF Walked, Walks
<1>2. PICK m \in MinTick..MaxTick :
        /\ m = n /\ (IF d THEN m =< w.tick ELSE w.tick < m)
        /\ m % TickSpacing = 0 \/ m = (IF d THEN MinTick ELSE w.sequence.end_index)
  <2>1. ~PastSequence(w.sequence, w.tick, d)
    BY DEF GoesOn
  <2> QED
    BY <1>1, <2>1, TickAhead
<1>3. m \in (MinTick - 1)..MaxTick /\ w.tick \in Int /\ MinTick \in Int /\ MaxTick \in Int /\ m \in Int
  BY <1>1, TickRange
<1>4. v = [w EXCEPT !.next = m]
  BY <1>2
<1>5. /\ v \in Walks /\ v.next = m /\ v.price = w.price /\ v.group = w.group
      /\ v.variables = w.variables /\ v.sequence = w.sequence /\ v.remaining = w.remaining
  BY <1>1, <1>3, <1>4 DEF Walks
<1>6. OnTheWay(w.price, SqrtPrice[m], d)
  <2>1. PICK p \in Nat : p = w.price
    BY <1>1, PriceType
  <2>2. CASE d
    <3>1. PICK t \in MinTick..MaxTick : t = w.tick
      BY <1>1, <1>2, <1>3, <2>2
    <3>2. m =< t /\ SqrtPrice[t] =< p
      BY <1>1, <1>2, <2>1, <2>2, <3>1 DEF Faces
    <3>3. SqrtPrice[m] =< SqrtPrice[t] /\ SqrtPrice[m] \in Nat /\ SqrtPrice[t] \in Nat
      BY <3>2, Prices
    <3> QED
      BY <2>1, <2>2, <3>2, <3>3 DEF OnTheWay
  <2>3. CASE ~d
    <3>1. PICK t \in MinTick..MaxTick : t = w.tick + 1
      BY <1>1, <1>2, <1>3, <2>3
    <3>2. t =< m /\ p =< SqrtPrice[t]
      BY <1>1, <1>2, <1>3, <2>1, <2>3, <3>1 DEF Faces
    <3>3. SqrtPrice[t] =< SqrtPrice[m] /\ SqrtPrice[m] \in Nat /\ SqrtPrice[t] \in Nat
      BY <3>2, Prices
    <3> QED
      BY <2>1, <2>3, <3>2, <3>3 DEF OnTheWay
  <2> QED
    BY <2>2, <2>3
<1>7. Ready(v, d)
  BY <1>2, <1>5, <1>6 DEF Ready
<1>8. ASSUME fee.adaptive PROVE Placed(v, d, fee.tick_group_size)
  <2>1. PICK size \in Nat \ {0} : size = fee.tick_group_size
    BY <1>8 DEF Whirlpools, Adapts
  <2>2. PICK g \in Int : g = w.group
    BY <1>1
  <2>3. PICK bottom \in Int, top \in Int : bottom = g * size /\ top = (g + 1) * size
    <3>1. g + 1 \in Int
      OBVIOUS
    <3> QED
      BY <3>1, Ordered
  <2>4. InGroup(w, size) /\ (IF d THEN w.tick < top ELSE bottom =< w.tick)
    BY <1>1, <1>8, <2>1, <2>2, <2>3 DEF Stands
  <2>5. IF d THEN m < top ELSE bottom < m
    BY <1>2, <1>3, <2>3, <2>4
  <2>6. InGroup(v, size)
    BY <1>5, <2>4 DEF InGroup
  <2> QED
    BY <1>5, <2>1, <2>2, <2>3, <2>5, <2>6 DEF Placed
<1>9. Rated(v, fee)
  BY <1>1, <1>5 DEF Rated
<1> QED
  BY <1>5, <1>7, <1>8, <1>9

\* An iteration ends the walk or keeps it one, and never panics.
LEMMA LoopKeeps ==
    ASSUME NEW fee, Whirlpools(fee), NEW d \in BOOLEAN, NEW w, Walked(w, fee, d),
           NEW v, v = WhirlpoolLoop(w, fee, TickSpacing, d)
    PROVE  \/ v.is \in {"amount", "none"}
           \/ Walked(v, fee, d) /\ v.remaining =< w.remaining
<1> DEFINE n == IF d THEN prev_initialized_tick(w.sequence, w.tick, TickSpacing)
                ELSE next_initialized_tick_of(w.sequence, w.tick, TickSpacing)
           u == [w EXCEPT !.next = n]
           out == try_apply_transfer_fee(w.calculated,
                      IF d THEN fee.transfer[2] ELSE fee.transfer[1])
<1>1. v = IF w.inside THEN StepWithin(w, fee, d)
          ELSE IF w.remaining = 0 \/ w.price = WhirlpoolLimit(d)
               THEN [is |-> "amount", amount_out |-> out]
          ELSE IF PastSequence(w.sequence, w.tick, d) THEN Nothing
          ELSE StepWithin(u, fee, d)
  BY Zenon DEF WhirlpoolLoop
<1>2. CASE w.inside
  <2>1. /\ w \in Walks /\ Rated(w, fee) /\ Ready(w, d)
        /\ fee.adaptive => Placed(w, d, fee.tick_group_size)
    BY <1>2 DEF Walked
  <2>2. v = StepWithin(w, fee, d)
    BY <1>1, <1>2
  <2> QED
    BY <2>1, <2>2, StepKeeps
<1>3. CASE ~w.inside /\ GoesOn(w, d)
  <2>1. v = StepWithin(u, fee, d)
    BY <1>1, <1>3 DEF GoesOn
  <2> HIDE DEF n
  <2>2. /\ u \in Walks /\ Rated(u, fee) /\ Ready(u, d)
        /\ fee.adaptive => Placed(u, d, fee.tick_group_size)
        /\ u.remaining = w.remaining
    BY <1>3, InnerLoopBegins DEF n
  <2> HIDE DEF u
  <2>3. v.is # "none" => Walked(v, fee, d) /\ v.remaining =< u.remaining
    BY <2>1, <2>2, StepKeeps
  <2> QED
    BY <2>2, <2>3
<1>4. CASE ~w.inside /\ ~GoesOn(w, d)
  <2>1. v = [is |-> "amount", amount_out |-> out] \/ v = Nothing
    BY <1>1, <1>4 DEF GoesOn
  <2> QED
    BY <2>1 DEF Nothing
<1> QED
  BY <1>2, <1>3, <1>4

-----------------------------------------------------------------------------
(* Tick arrays *)

\* Tick arrays and the multiples of the spacing they begin at.
Multiples == {i \in Int : i % TickSpacing = 0}
TickMaps == UNION {[S -> Int] : S \in SUBSET Grid}
TickArrays == [start : Multiples, ticks : TickMaps]

\* The array of a state, and the one taken for a missing one.
LEMMA OfState ==
    ASSUME NEW s \in States["OrcaWhirl"], NEW i \in Multiples
    PROVE  TickArray(s, i) \in TickArrays /\ TickArray(s, i).start = i
<1> DEFINE T == {u \in Initialized(s) : StartOf(u) = i}
           net == [t \in T |-> Net(s, t)]
<1>1. \A t \in Initialized(s) : t \in MinTick..MaxTick /\ t % TickSpacing = 0 /\ Net(s, t) \in Int
  BY WhirlpoolAssumption
<1>2. T \in SUBSET Grid
  BY <1>1 DEF Grid
<1>3. net \in [T -> Int]
  BY <1>1
<1>4. net \in TickMaps
  BY <1>2, <1>3 DEF TickMaps
<1>5. TickArray(s, i) = [start |-> i, ticks |-> net]
  BY DEF TickArray
<1> QED
  BY <1>4, <1>5 DEF TickArrays

LEMMA OfNone ==
    ASSUME NEW i \in Multiples
    PROVE  /\ uninitialized_tick_array(i) \in TickArrays
           /\ uninitialized_tick_array(i).start = i
<1>1. <<>> \in [{} -> Int]
  OBVIOUS
<1>2. {} \in SUBSET Grid
  OBVIOUS
<1>3. <<>> \in TickMaps
  BY <1>1, <1>2 DEF TickMaps
<1> QED
  BY <1>3 DEF uninitialized_tick_array, TickArrays

\* A tick array begins at a multiple of the spacing, and so does the next one.
LEMMA KeysAre ==
    ASSUME NEW t \in Int, NEW d \in BOOLEAN
    PROVE  \E i \in Multiples, j \in Multiples, k \in Multiples :
             get_tick_arrays_or_default(t, TickSpacing, d) = <<i, j, k>>
<1>1. PICK s \in Nat \ {0}, size \in Nat \ {0} : s = TickSpacing /\ size = ArraySize
  BY SpacingIs, BitmapAssumption
<1>2. PICK q \in Int : q = (t \div s) \div size
  <2>1. PICK r \in Int : r = t \div s
    BY Quotient
  <2>2. r \div size \in Int
    BY Quotient
  <2> QED
    BY <2>1, <2>2
<1>3. PICK a \in Int, b \in Int, c \in Int :
        LET o == IF d THEN -size ELSE size
        IN  a = q * size /\ b = a + o /\ c = a + (2 * o)
  <2>1. PICK a \in Int, o \in Int : a = q * size /\ o = IF d THEN -size ELSE size
    OBVIOUS
  <2>2. PICK b \in Int, c \in Int : b = a + o /\ c = a + (2 * o)
    OBVIOUS
  <2> QED
    BY <2>1, <2>2
<1>4. PICK i \in Int, j \in Int, k \in Int : i = a * s /\ j = b * s /\ k = c * s
  OBVIOUS
<1>5. i \in Multiples /\ j \in Multiples /\ k \in Multiples
  <2>1. \A n \in Int : (n * s) % s = 0
    BY MultipleIs
  <2> QED
    BY <1>1, <1>4, <2>1 DEF Multiples
<1>6. get_tick_arrays_or_default(t, TickSpacing, d) = <<i, j, k>>
  <2>1. PICK start \in Int : start = q * s * size
    OBVIOUS
  <2>2. get_tick_array_start_tick_index(t, TickSpacing) = start
    BY <1>1, <1>2, <2>1 DEF get_tick_array_start_tick_index
  <2>3. PICK width \in Int : width = s * size
    OBVIOUS
  <2>4. /\ start = a * s
        /\ d => start - width = b * s /\ start + (2 * (-width)) = c * s
        /\ ~d => start + width = b * s /\ start + (2 * width) = c * s
    <3>1. start = a * s
      BY <1>3, <2>1
    <3>2. CASE d
      <4>1. b * s = a * s - size * s /\ c * s = a * s - 2 * (size * s)
        <5>1. b = a - size /\ c = a - 2 * size
          BY <1>3, <3>2
        <5> QED
          BY <5>1
      <4>2. width = size * s
        BY <2>3
      <4> QED
        BY <3>1, <3>2, <4>1, <4>2
    <3>3. CASE ~d
      <4>1. b * s = a * s + size * s /\ c * s = a * s + 2 * (size * s)
        <5>1. b = a + size /\ c = a + 2 * size
          BY <1>3, <3>3
        <5> QED
          BY <5>1
      <4>2. width = size * s
        BY <2>3
      <4> QED
        BY <3>1, <3>3, <4>1, <4>2
    <3> QED
      BY <3>1, <3>2, <3>3
  <2>5. start + (-width) = start - width
    OBVIOUS
  <2> QED
    BY <1>1, <1>4, <2>2, <2>3, <2>4, <2>5 DEF get_tick_arrays_or_default
<1> QED
  BY <1>5, <1>6

\* What is read of three arrays is a sequence of ticks.
LEMMA SequenceOfThree ==
    ASSUME NEW arrays \in Seq(TickArrays), Len(arrays) = 3
    PROVE  TickSequence(arrays, TickSpacing) \in Sequences
<1> DEFINE starts == {arrays[n].start : n \in DOMAIN arrays}
           ticks == UNION {DOMAIN arrays[n].ticks : n \in DOMAIN arrays}
           At(t) == CHOOSE n \in DOMAIN arrays : t \in DOMAIN arrays[n].ticks
           net == [t \in ticks |-> arrays[At(t)].ticks[t]]
           first == Max({Min(starts), MinTick})
           last == Min({Max(starts) + (ArraySize * TickSpacing) - 1, MaxTick})
<1>1. DOMAIN arrays = {1, 2, 3}
  <2>1. DOMAIN arrays = 1..3
    OBVIOUS
  <2> QED
    BY <2>1
<1>2. \A n \in DOMAIN arrays : arrays[n] \in TickArrays
  <2>1. \A n \in 1..Len(arrays) : arrays[n] \in TickArrays
    OBVIOUS
  <2> QED
    BY <2>1
<1>3. starts \subseteq Multiples /\ starts # {} /\ Multiples \subseteq Int
  BY <1>1, <1>2 DEF TickArrays, Multiples
<1>4. PICK least \in Multiples, most \in Multiples : least = Min(starts) /\ most = Max(starts)
  <2>1. PICK a \in Int, b \in Int, c \in Int :
          a = arrays[1].start /\ b = arrays[2].start /\ c = arrays[3].start
    BY <1>1, <1>3
  <2>2. starts = {a, b, c}
    BY <1>1, <2>1
  <2> HIDE DEF starts
  <2>3. PICK reach \in Nat : \A x \in {a, b, c} : -reach =< x /\ x =< reach
    <3>1. PICK p \in Nat, q \in Nat, r \in Nat :
            /\ a =< p /\ -a =< p /\ b =< q /\ -b =< q /\ c =< r /\ -c =< r
      BY AbsIs
    <3>2. PICK n \in Nat : n = p + q + r
      OBVIOUS
    <3>3. -n =< a /\ a =< n /\ -n =< b /\ b =< n /\ -n =< c /\ c =< n
      BY <3>1, <3>2
    <3> QED
      BY <3>3
  <2>4. -reach \in Int /\ reach \in Int /\ starts \subseteq (-reach)..reach
    <3>1. a \in (-reach)..reach /\ b \in (-reach)..reach /\ c \in (-reach)..reach
      BY <2>3
    <3>2. {a, b, c} \subseteq (-reach)..reach
      BY <3>1
    <3> QED
      BY <2>2, <3>2
  <2>5. Min(starts) \in starts
    BY <1>3, <2>4, LeastOf
  <2>6. Max(starts) \in starts
    BY <1>3, <2>4, GreatestOf
  <2> QED
    BY <1>3, <2>5, <2>6
<1>5. first \in Int /\ first >= MinTick /\ (first = MinTick \/ first % TickSpacing = 0)
  <2>1. least \in Int /\ MinTick \in Int /\ least % TickSpacing = 0
    BY <1>3, TickRange DEF Multiples
  <2>2. Max({least, MinTick}) = IF least >= MinTick THEN least ELSE MinTick
    BY <2>1, OfTwo
  <2> QED
    BY <1>4, <2>1, <2>2
<1>6. last \in Int /\ last =< MaxTick
  <2>1. PICK width \in Int : width = ArraySize * TickSpacing
    BY SpacingIs, BitmapAssumption
  <2>2. PICK end \in Int : end = most + width - 1
    BY <1>3
  <2>3. Min({end, MaxTick}) = IF end =< MaxTick THEN end ELSE MaxTick
    <3>1. MaxTick \in Int /\ end \in Int
      BY TickRange
    <3> QED
      BY <3>1, OfTwo
  <2> QED
    BY <1>4, <2>1, <2>2, <2>3, TickRange
<1>7. ticks \in SUBSET Grid /\ net \in [ticks -> Int]
  <2>1. \A n \in DOMAIN arrays : \E S \in SUBSET Grid : arrays[n].ticks \in [S -> Int]
    BY <1>2 DEF TickArrays, TickMaps
  <2>2. ticks \in SUBSET Grid
    BY <2>1
  <2>3. \A t \in ticks : At(t) \in DOMAIN arrays /\ t \in DOMAIN arrays[At(t)].ticks
    OBVIOUS
  <2>4. \A t \in ticks : arrays[At(t)].ticks[t] \in Int
    BY <2>1, <2>3
  <2> QED
    BY <2>2, <2>4
<1>8. TickSequence(arrays, TickSpacing) = [start_index |-> first, end_index |-> last, net |-> net]
  BY Zenon DEF TickSequence
<1> HIDE DEF first, last, net, ticks
<1>9. net \in UNION {[S -> Int] : S \in SUBSET Grid}
  BY <1>7
<1> QED
  BY <1>5, <1>6, <1>8, <1>9 DEF Sequences

-----------------------------------------------------------------------------
(* The walk begins *)

\* The pool and the variables of its fee, as an account of a state says.
GoodPool(p) ==
    /\ p.tick_current_index \in (MinTick - 1)..MaxTick
    /\ p.sqrt_price \in SqrtPrice[MinTick]..SqrtPrice[MaxTick]
    /\ p.tick_current_index >= MinTick => SqrtPrice[p.tick_current_index] =< p.sqrt_price
    /\ p.tick_current_index < MaxTick => p.sqrt_price =< SqrtPrice[p.tick_current_index + 1]
    /\ p.liquidity \in Nat

GoodOracle(o, fee) ==
    o.found = TRUE =>
        /\ o.variables \in Variables /\ Refers(o.variables, fee)
        /\ o.variables.volatility_accumulator =< fee.max_volatility_accumulator

LEMMA GoodAccounts ==
    ASSUME NEW s \in States["OrcaWhirl"], NEW t \in Terms, t.dex = "OrcaWhirl"
    PROVE  /\ GoodPool(Whirlpool(s))
           /\ t.fee.adaptive => GoodOracle(s.oracle, t.fee)
<1>1. GoodPool(Whirlpool(s))
  BY WhirlpoolAssumption DEF GoodPool, Whirlpool
<1>2. ASSUME t.fee.adaptive, s.oracle.found = TRUE
      PROVE  /\ s.oracle.variables \in Variables /\ Refers(s.oracle.variables, t.fee)
             /\ s.oracle.variables.volatility_accumulator =< t.fee.max_volatility_accumulator
  BY <1>2, WhirlpoolAssumption DEF Variables, Refers, HoldsTicks
<1> QED
  BY <1>1, <1>2 DEF GoodOracle

LEMMA TermsOfWhirlpools ==
    ASSUME NEW t \in Terms, t.dex = "OrcaWhirl"
    PROVE  Whirlpools(t.fee)
  BY WhirlpoolAssumption DEF Whirlpools, Adapts

LEMMA Reduced ==
    ASSUME NEW n \in Nat, NEW factor \in 0..ReductionDenominator
    PROVE  (n * factor) \div ReductionDenominator \in 0..n
<1>1. PICK c \in Nat \ {0}, f \in Nat : c = ReductionDenominator /\ f = factor /\ f =< c
  BY FeeRateAssumption
<1>2. PICK product \in Nat : product = n * f
  OBVIOUS
<1>3. product =< c * n
  <2>1. f * n =< c * n
    BY <1>1, Products
  <2> QED
    BY <1>2, <2>1
<1>4. PICK q \in Nat : q = product \div c /\ c * q =< product
  BY DivFacts
<1>5. q =< n
  <2>1. c * q =< c * n /\ c # 0 /\ c \in Nat /\ q \in Int /\ n \in Int
    <3>1. c * q \in Nat /\ c * n \in Nat
      OBVIOUS
    <3> QED
      BY <1>3, <1>4, <3>1
  <2> QED
    BY <2>1, Products
<1> QED
  BY <1>1, <1>2, <1>4, <1>5

\* The references that a swap charges by.
LEMMA ReferencesAre ==
    ASSUME NEW v \in Variables, NEW g \in Int, NEW fee, Adapts(fee), Refers(v, fee),
           v.volatility_accumulator =< fee.max_volatility_accumulator,
           HoldsTicks(g, fee.tick_group_size)
    PROVE  LET u == update_reference(v, g, Now, fee) IN u \in Variables /\ Refers(u, fee)
<1> DEFINE u == update_reference(v, g, Now, fee)
           Renewed(n) == [v EXCEPT !.tick_group_index_reference = g, !.volatility_reference = n,
                                   !.last_reference_update_timestamp = Now]
           reduced == (v.volatility_accumulator * fee.reduction_factor) \div ReductionDenominator
<1>1. u \in {v, Renewed(0), Renewed(reduced)}
  BY Zenon DEF update_reference
<1>2. reduced \in Nat /\ reduced =< fee.max_volatility_accumulator
  <2>1. PICK n \in Nat, most \in Nat :
          n = v.volatility_accumulator /\ most = fee.max_volatility_accumulator /\ n =< most
    BY DEF Variables, Adapts
  <2>2. fee.reduction_factor \in 0..ReductionDenominator
    BY DEF Adapts
  <2>3. (n * fee.reduction_factor) \div ReductionDenominator \in 0..n
    BY <2>2, Reduced
  <2> QED
    BY <2>1, <2>3
<1>3. ASSUME NEW n \in Nat, n =< fee.max_volatility_accumulator
      PROVE  Renewed(n) \in Variables /\ Refers(Renewed(n), fee)
  <2>1. Now \in Nat
    BY WhirlpoolAssumption
  <2>2. /\ Renewed(n) \in Variables /\ Renewed(n).tick_group_index_reference = g
        /\ Renewed(n).volatility_reference = n
    BY <2>1 DEF Variables
  <2> QED
    BY <1>3, <2>2 DEF Refers
<1>4. 0 \in Nat /\ 0 =< fee.max_volatility_accumulator
  BY DEF Adapts
<1> HIDE DEF u, reduced
<1>5. /\ Renewed(0) \in Variables /\ Refers(Renewed(0), fee)
      /\ Renewed(reduced) \in Variables /\ Refers(Renewed(reduced), fee)
  BY <1>2, <1>3, <1>4
<1> HIDE DEF Renewed
<1>6. u \in Variables /\ Refers(u, fee)
  BY <1>1, <1>5
<1> QED
  BY <1>6 DEF u

\* A pool is in the group of its current tick.
LEMMA InItsGroup ==
    ASSUME NEW p, GoodPool(p), NEW size \in Nat \ {0},
           NEW g, g = p.tick_current_index \div size,
           NEW w, w.price = p.sqrt_price, w.tick = p.tick_current_index, w.group = g,
           NEW d \in BOOLEAN
    PROVE  g \in Int /\ HoldsTicks(g, size) /\ Stands(w, d, size)
<1>1. PICK t \in (MinTick - 1)..MaxTick : t = p.tick_current_index
  BY DEF GoodPool
<1>2. t \in Int /\ MinTick \in Int /\ MaxTick \in Int
  BY TickRange
<1>3. g \in Int /\ g * size =< t /\ t < (g + 1) * size
  <2>1. t \div size \in Int /\ (t \div size) * size =< t /\ t < ((t \div size) + 1) * size
    BY <1>2, Quotient
  <2> QED
    BY <1>1, <2>1
<1>4. PICK bottom \in Int, top \in Int : bottom = g * size /\ top = (g + 1) * size
  <2>1. g + 1 \in Int
    BY <1>3
  <2> QED
    BY <1>3, <2>1, Ordered
<1>5. bottom =< t /\ t < top
  BY <1>3, <1>4
<1>6. /\ bottom =< MaxTick /\ MinTick =< top
      /\ Clamped(bottom) \in MinTick..MaxTick /\ Clamped(top) \in MinTick..MaxTick
      /\ Clamped(bottom) = MinTick \/ (Clamped(bottom) =< t /\ MinTick =< t)
      /\ Clamped(top) = MaxTick \/ (t + 1 =< Clamped(top) /\ t < MaxTick)
  <2>1. PICK a \in Int, b \in Int : a = Clamped(bottom) /\ b = Clamped(top)
    BY <1>2, ClampedIs
  <2>2. /\ a = IF bottom < MinTick THEN MinTick ELSE IF bottom > MaxTick THEN MaxTick ELSE bottom
        /\ b = IF top < MinTick THEN MinTick ELSE IF top > MaxTick THEN MaxTick ELSE top
    BY <2>1, ClampedIs
  <2>3. t >= MinTick - 1 /\ t =< MaxTick
    BY <1>2
  <2>4. MinTick =< MaxTick
    BY TickRange
  <2> QED
    BY <1>2, <1>5, <2>1, <2>2, <2>3, <2>4
<1>7. PICK price \in Int :
        /\ price = p.sqrt_price /\ SqrtPrice[MinTick] =< price /\ price =< SqrtPrice[MaxTick]
        /\ t >= MinTick => SqrtPrice[t] =< price
        /\ t < MaxTick => price =< SqrtPrice[t + 1]
  <2>1. SqrtPrice[MinTick] \in Nat /\ SqrtPrice[MaxTick] \in Nat
    BY Prices, TickRange
  <2> QED
    BY <1>1, <2>1 DEF GoodPool
<1>8. SqrtPrice[Clamped(bottom)] =< price
  <2>1. CASE Clamped(bottom) = MinTick
    BY <1>7, <2>1
  <2>2. CASE Clamped(bottom) =< t /\ MinTick =< t
    <3>1. PICK a \in MinTick..MaxTick, b \in MinTick..MaxTick : a = Clamped(bottom) /\ b = t
      BY <1>2, <1>6, <2>2
    <3>2. a =< b
      BY <2>2, <3>1
    <3>3. SqrtPrice[a] =< SqrtPrice[b] /\ SqrtPrice[a] \in Nat /\ SqrtPrice[b] \in Nat
      BY <3>2, Prices
    <3> QED
      BY <1>2, <1>7, <2>2, <3>1, <3>3
  <2> QED
    BY <1>6, <2>1, <2>2
<1>9. price =< SqrtPrice[Clamped(top)]
  <2>1. CASE Clamped(top) = MaxTick
    BY <1>7, <2>1
  <2>2. CASE t + 1 =< Clamped(top) /\ t < MaxTick
    <3>1. PICK a \in MinTick..MaxTick, b \in MinTick..MaxTick : a = t + 1 /\ b = Clamped(top)
      BY <1>2, <1>6, <2>2
    <3>2. a =< b
      BY <2>2, <3>1
    <3>3. SqrtPrice[a] =< SqrtPrice[b] /\ SqrtPrice[a] \in Nat /\ SqrtPrice[b] \in Nat
      BY <3>2, Prices
    <3> QED
      BY <1>2, <1>7, <2>2, <3>1, <3>3
  <2> QED
    BY <1>6, <2>1, <2>2
<1>10. HoldsTicks(g, size)
  BY <1>4, <1>6 DEF HoldsTicks
<1>11. InGroup(w, size)
  BY <1>4, <1>7, <1>8, <1>9, <1>10 DEF InGroup
<1>12. IF d THEN w.tick < (w.group + 1) * size ELSE w.group * size =< w.tick
  BY <1>1, <1>3
<1> QED
  BY <1>3, <1>10, <1>11, <1>12 DEF Stands

LEMMA ReceivedIs ==
    ASSUME NEW amount \in Nat, NEW f,
           f.denominator \in Nat \ {0}, f.fee_bps \in 0..f.denominator, f.max_fee \in Nat
    PROVE  try_apply_transfer_fee(amount, f) \in 0..amount
<1>1. PICK raw \in 0..amount : raw = CeilDiv(amount * f.fee_bps, f.denominator)
  <2>1. PICK bps, denominator :
          /\ bps = f.fee_bps /\ denominator = f.denominator
          /\ denominator \in Nat \ {0} /\ bps \in 0..denominator
    OBVIOUS
  <2>2. bps \in Nat /\ bps =< denominator
    BY <2>1
  <2> QED
    BY <2>1, <2>2, PartWithin
<1>2. PICK most \in Nat : most = f.max_fee
  OBVIOUS
<1>3. Min({raw, most}) = IF raw =< most THEN raw ELSE most
  <2>1. raw \in Int /\ most \in Int
    OBVIOUS
  <2> QED
    BY <2>1, OfTwo
<1> QED
  BY <1>1, <1>2, <1>3 DEF try_apply_transfer_fee

\* A walk that begins stands in the group of the current tick, and has charged
\* nothing yet.
LEMMA BeginIsWalked ==
    ASSUME NEW t \in Terms, t.dex = "OrcaWhirl", NEW p, GoodPool(p),
           NEW o, t.fee.adaptive => GoodOracle(o, t.fee),
           NEW arrays \in Seq(TickArrays), Len(arrays) = 3,
           NEW amount \in AmountsIn, NEW d \in BOOLEAN,
           NEW v, v = BeginWhirlpool(p, o, arrays, amount, t.fee, TickSpacing, Now, d)
    PROVE  v.is = "none" \/ (Walked(v, t.fee, d) /\ v.remaining =< amount)
<1> DEFINE fee == t.fee
           after_fee == try_apply_transfer_fee(amount, IF d THEN fee.transfer[1] ELSE fee.transfer[2])
           group == GroupOf(p.tick_current_index, fee)
           variables == IF fee.adaptive THEN update_reference(o.variables, group, Now, fee) ELSE <<>>
           sequence == TickSequence(arrays, TickSpacing)
           walking == [is |-> "walking", remaining |-> after_fee, calculated |-> 0,
                       price |-> p.sqrt_price, tick |-> p.tick_current_index,
                       liquidity |-> p.liquidity, sequence |-> sequence,
                       inside |-> FALSE, next |-> p.tick_current_index,
                       group |-> IF fee.adaptive THEN group ELSE 0,
                       variables |-> variables,
                       charged |-> [from |-> p.sqrt_price, rate |-> fee.rate, liquidity |-> 0]]
<1>1. v = Nothing \/ (v = walking /\ ~(fee.adaptive # o.found))
  BY Zenon DEF BeginWhirlpool
<1>2. CASE v = Nothing
  BY <1>2 DEF Nothing
<1>3. CASE v = walking /\ ~(fee.adaptive # o.found)
  <2>1. Whirlpools(fee) /\ sequence \in Sequences
    BY TermsOfWhirlpools, SequenceOfThree
  <2>2. after_fee \in Amounts /\ after_fee =< amount
    <3>1. PICK n \in Nat, width \in Nat : n = amount /\ width = U64 /\ n < width
      BY StretchAssumption, WhirlpoolAssumption, WidthAssumption DEF Fits
    <3>2. PICK f : /\ f = (IF d THEN fee.transfer[1] ELSE fee.transfer[2])
                   /\ f.denominator \in Nat \ {0} /\ f.fee_bps \in 0..f.denominator
                   /\ f.max_fee \in Nat
      BY WhirlpoolAssumption
    <3>3. try_apply_transfer_fee(n, f) \in 0..n
      BY <3>2, ReceivedIs
    <3> QED
      BY <3>1, <3>2, <3>3 DEF Amounts, Fits
  <2>3. 0 \in Amounts
    BY WidthAssumption DEF Amounts, Fits
  <2>4. fee.adaptive =>
          /\ Adapts(fee) /\ group \in Int /\ HoldsTicks(group, fee.tick_group_size)
          /\ Stands(walking, d, fee.tick_group_size)
    <3> SUFFICES ASSUME fee.adaptive
                 PROVE  /\ Adapts(fee) /\ group \in Int /\ HoldsTicks(group, fee.tick_group_size)
                        /\ Stands(walking, d, fee.tick_group_size)
      OBVIOUS
    <3>1. PICK size \in Nat \ {0} : size = fee.tick_group_size /\ Adapts(fee)
      BY <2>1 DEF Whirlpools, Adapts
    <3>2. /\ walking.price = p.sqrt_price /\ walking.tick = p.tick_current_index
          /\ walking.group = group
      OBVIOUS
    <3>3. group = p.tick_current_index \div size
      BY <3>1 DEF GroupOf
    <3> HIDE DEF walking, group
    <3> QED
      BY <3>1, <3>2, <3>3, InItsGroup
  <2>5. /\ variables \in Variables \cup {<<>>}
        /\ fee.adaptive => variables \in Variables /\ Refers(variables, fee)
    <3>1. CASE ~fee.adaptive
      BY <3>1
    <3>2. CASE fee.adaptive
      <4>1. /\ o.variables \in Variables /\ Refers(o.variables, fee)
            /\ o.variables.volatility_accumulator =< fee.max_volatility_accumulator
        <5>1. fee.adaptive = TRUE
          BY <2>1, <3>2 DEF Whirlpools
        <5>2. o.found = TRUE
          BY <1>3, <5>1
        <5> QED
          BY <3>2, <5>2 DEF GoodOracle
      <4>2. variables = update_reference(o.variables, group, Now, fee)
        BY <3>2
      <4> HIDE DEF variables, group
      <4>3. variables \in Variables /\ Refers(variables, fee)
        BY <2>4, <3>2, <4>1, <4>2, ReferencesAre
      <4> QED
        BY <4>3
    <3> QED
      BY <3>1, <3>2
  <2> HIDE DEF after_fee, group, variables, sequence
  <2>6. PICK g \in Int : g = IF fee.adaptive THEN group ELSE 0
    BY <2>4
  <2>7. p.sqrt_price \in Nat
    <3>1. SqrtPrice[MinTick] \in Nat /\ SqrtPrice[MaxTick] \in Nat
      BY Prices, TickRange
    <3> QED
      BY <3>1 DEF GoodPool
  <2>8. fee.rate \in Int
    BY <2>1, SwapAssumption DEF Whirlpools
  <2>9. walking \in Walks
    <3>1. [from |-> p.sqrt_price, rate |-> fee.rate, liquidity |-> 0]
            \in [from : Nat, rate : Int, liquidity : Nat]
      BY <2>7, <2>8
    <3>2. PICK charged \in [from : Nat, rate : Int, liquidity : Nat] :
            charged = [from |-> p.sqrt_price, rate |-> fee.rate, liquidity |-> 0]
      BY <3>1
    <3>3. walking = [is |-> "walking", remaining |-> after_fee, calculated |-> 0,
                     price |-> p.sqrt_price, tick |-> p.tick_current_index,
                     liquidity |-> p.liquidity, sequence |-> sequence,
                     inside |-> FALSE, next |-> p.tick_current_index,
                     group |-> g, variables |-> variables, charged |-> charged]
      BY <2>6, <3>2
    <3> HIDE DEF walking
    <3> QED
      BY <2>1, <2>2, <2>3, <2>5, <3>3 DEF Walks, GoodPool
  <2>10. /\ walking.price = p.sqrt_price /\ walking.tick = p.tick_current_index
         /\ walking.variables = variables /\ walking.sequence = sequence
         /\ walking.inside = FALSE /\ walking.remaining = after_fee
         /\ walking.charged.liquidity = 0
    OBVIOUS
  <2> HIDE DEF walking
  <2>11. Rated(walking, fee) /\ (fee.adaptive => ByGroup(walking, fee))
    BY <2>5, <2>10 DEF Rated, ByGroup
  <2>12. ASSUME GoesOn(walking, d) PROVE Faces(walking, d)
    <3>1. PICK from \in Int, to \in Int, at \in Int :
            /\ from = sequence.start_index /\ to = sequence.end_index
            /\ from >= MinTick /\ to =< MaxTick /\ at = p.tick_current_index
      BY <2>1, TickRange DEF Sequences, GoodPool
    <3>2. IF d THEN from =< at ELSE at < to
      BY <2>10, <2>12, <3>1 DEF GoesOn, PastSequence
    <3>3. IF d THEN at >= MinTick ELSE at < MaxTick
      BY <3>1, <3>2, TickRange
    <3> QED
      BY <2>10, <3>1, <3>3 DEF Faces, GoodPool
  <2>13. Walked(walking, fee, d)
    BY <2>4, <2>9, <2>10, <2>11, <2>12 DEF Walked
  <2> QED
    BY <1>3, <2>2, <2>10, <2>13
<1> QED
  BY <1>1, <1>2, <1>3

-----------------------------------------------------------------------------
(* Quotes over Whirlpools *)

\* What the cache, the quote and the walk hold of a Whirlpool.
CacheHolds ==
    /\ {"pool", "oracle", "arrays"} \subseteq DOMAIN cache
    /\ GoodPool(cache.pool)
    /\ terms.fee.adaptive => GoodOracle(cache.oracle, terms.fee)
    /\ DOMAIN cache.arrays = TickStarts
    /\ \A i \in TickStarts : cache.arrays[i] = Missing \/ cache.arrays[i] \in TickArrays

ThreeKeys == \E i \in Multiples, j \in Multiples, k \in Multiples : held.keys = <<i, j, k>>

HeldHolds ==
    /\ {"pool", "oracle", "keys", "arrays"} \subseteq DOMAIN held
    /\ terms.fee.adaptive => GoodOracle(held.oracle, terms.fee)
    /\ held.arrays \in Seq(TickArrays)
    /\ next = "pool" => held.arrays = <<>> /\ held.keys = <<>>
    /\ next # "pool" => GoodPool(held.pool) /\ ThreeKeys /\ Len(held.arrays) =< 3
    /\ next = "arrays" => Len(held.arrays) < 3
    /\ next \in {"oracle", "begin"} => Len(held.arrays) = 3

WalkHolds ==
    /\ next \in {"pool", "arrays", "oracle", "begin", "walk", "list", "none", "done"}
    /\ walk.is \in {"reading", "walking", "amount", "none"}
    /\ next = "walk" => walk.is = "walking"
    /\ walk.is = "walking" => Walked(walk, terms.fee, down) /\ walk.remaining =< amount_in

WhirlInv == terms.dex = "OrcaWhirl" => CacheHolds /\ HeldHolds /\ WalkHolds

LEMMA Whirl ==
    /\ HasTicks("OrcaWhirl") /\ ~HasBitmaps("OrcaWhirl") /\ ArrayKeys("OrcaWhirl") = TickStarts
    /\ \A s : /\ PoolAccount("OrcaWhirl", s) = Whirlpool(s)
              /\ \A i : ArrayAccount("OrcaWhirl", s, i) = TickArray(s, i)
  BY DEF HasTicks, HasBitmaps, ArrayKeys, PoolAccount, ArrayAccount

LEMMA StartsAreMultiples == TickStarts \subseteq Multiples
<1> SUFFICES ASSUME NEW i \in TickStarts PROVE i \in Multiples
  OBVIOUS
<1>1. PICK s \in Nat \ {0}, size \in Nat \ {0} : s = TickSpacing /\ size = ArraySize
  BY SpacingIs, BitmapAssumption
<1>2. PICK width \in Nat \ {0} : width = size * s
  <2>1. size * s \in Nat /\ size * s # 0
    OBVIOUS
  <2> QED
    BY <2>1
<1>3. i \in Int /\ i % width = 0
  <2>1. i \in (MinTick - width)..MaxTick /\ i % width = 0
    BY <1>1, <1>2 DEF TickStarts, tick_count
  <2> QED
    BY <2>1, TickRange
<1>4. PICK q \in Int : i = q * width
  <2>1. i \div width \in Int /\ i = (i \div width) * width
    BY <1>3, Quotient
  <2> QED
    BY <2>1
<1>5. PICK m \in Int : m = q * size
  OBVIOUS
<1>6. i = m * s
  BY <1>2, <1>4, <1>5
<1>7. (m * s) % s = 0
  BY MultipleIs
<1> QED
  BY <1>1, <1>3, <1>6, <1>7 DEF Multiples

LEMMA CachedOf ==
    ASSUME NEW s \in States["OrcaWhirl"], NEW t \in Terms, t.dex = "OrcaWhirl"
    PROVE  LET fresh == Accounts("OrcaWhirl", s)
           IN  /\ DOMAIN fresh = {"pool", "extension", "oracle", "arrays"}
               /\ GoodPool(fresh.pool)
               /\ t.fee.adaptive => GoodOracle(fresh.oracle, t.fee)
               /\ DOMAIN fresh.arrays = TickStarts
               /\ \A i \in TickStarts : /\ fresh.arrays[i] = Missing \/ fresh.arrays[i] \in TickArrays
                                        /\ ArrayAccount("OrcaWhirl", s, i) \in TickArrays
<1> DEFINE fresh == Accounts("OrcaWhirl", s)
           arrays == [i \in TickStarts |->
                        IF i \in Arrays("OrcaWhirl", s) THEN ArrayAccount("OrcaWhirl", s, i) ELSE Missing]
<1>1. fresh = [pool |-> Whirlpool(s), extension |-> Extension("OrcaWhirl", s),
               oracle |-> s.oracle, arrays |-> arrays]
  BY Whirl DEF Accounts, Oracle
<1>2. \A i \in TickStarts : ArrayAccount("OrcaWhirl", s, i) \in TickArrays
  BY Whirl, StartsAreMultiples, OfState
<1>3. /\ DOMAIN arrays = TickStarts
      /\ \A i \in TickStarts : arrays[i] = Missing \/ arrays[i] \in TickArrays
  BY <1>2
<1> HIDE DEF fresh, arrays
<1>4. /\ DOMAIN fresh = {"pool", "extension", "oracle", "arrays"}
      /\ fresh.pool = Whirlpool(s) /\ fresh.oracle = s.oracle /\ fresh.arrays = arrays
  BY <1>1
<1>5. /\ DOMAIN fresh = {"pool", "extension", "oracle", "arrays"}
      /\ GoodPool(fresh.pool)
      /\ t.fee.adaptive => GoodOracle(fresh.oracle, t.fee)
      /\ DOMAIN fresh.arrays = TickStarts
      /\ \A i \in TickStarts : /\ fresh.arrays[i] = Missing \/ fresh.arrays[i] \in TickArrays
                               /\ ArrayAccount("OrcaWhirl", s, i) \in TickArrays
  BY <1>2, <1>3, <1>4, GoodAccounts
<1> QED
  BY <1>5 DEF fresh

LEMMA CacheKept == CacheHolds /\ UNCHANGED <<terms, cache>> => CacheHolds'
  BY DEF CacheHolds

LEMMA HeldKept ==
    HeldHolds /\ next \in {"begin", "walk", "list"} /\ next' \in {"walk", "list", "none", "done"}
        /\ UNCHANGED <<terms, held>> => HeldHolds'
  BY DEF HeldHolds, ThreeKeys

LEMMA WhirlInit == Init => WhirlInv
<1> SUFFICES ASSUME Init, terms.dex = "OrcaWhirl" PROVE CacheHolds /\ HeldHolds /\ WalkHolds
  BY DEF WhirlInv
<1>1. /\ terms \in Terms /\ chain \in States["OrcaWhirl"] /\ cache = Accounts("OrcaWhirl", chain)
      /\ next = "pool" /\ held = Unread /\ walk = Idle
  BY DEF Init
<1>2. CacheHolds
  BY <1>1, CachedOf DEF CacheHolds
<1>3. HeldHolds
  <2>1. /\ DOMAIN held = {"pool", "extension", "oracle", "keys", "arrays"}
        /\ held.arrays = <<>> /\ held.keys = <<>> /\ held.oracle = [found |-> FALSE]
    BY <1>1 DEF Unread
  <2>2. <<>> \in Seq(TickArrays)
    OBVIOUS
  <2>3. GoodOracle(held.oracle, terms.fee)
    BY <2>1 DEF GoodOracle
  <2> QED
    BY <1>1, <2>1, <2>2, <2>3 DEF HeldHolds
<1>4. WalkHolds
  BY <1>1 DEF WalkHolds, Idle
<1> QED
  BY <1>2, <1>3, <1>4

LEMMA WhirlUpdate ==
    ASSUME Given, CacheHolds, terms.dex = "OrcaWhirl", Update
    PROVE  CacheHolds'
<1>0. UNCHANGED <<terms, chain>>
  BY DEF Update, pvars, cvars
<1> DEFINE fresh == Accounts("OrcaWhirl", chain)
<1>1. /\ DOMAIN fresh = {"pool", "extension", "oracle", "arrays"}
      /\ GoodPool(fresh.pool)
      /\ terms.fee.adaptive => GoodOracle(fresh.oracle, terms.fee)
      /\ \A i \in TickStarts : ArrayAccount("OrcaWhirl", chain, i) \in TickArrays
  <2>1. terms \in Terms /\ chain \in States["OrcaWhirl"]
    BY DEF Given
  <2> QED
    BY <2>1, CachedOf
<1>2. \/ cache' = [cache EXCEPT !.pool = fresh.pool]
      \/ cache' = [cache EXCEPT !.extension = ExtensionAccount("OrcaWhirl", chain)]
      \/ cache' = [cache EXCEPT !.oracle = fresh.oracle]
      \/ \E i \in TickStarts :
            cache' = [cache EXCEPT !.arrays[i] = ArrayAccount("OrcaWhirl", chain, i)]
  BY Whirl DEF Update
<1> HIDE DEF fresh
<1>3. CASE cache' = [cache EXCEPT !.pool = fresh.pool]
  BY <1>0, <1>1, <1>3 DEF CacheHolds
<1>4. CASE cache' = [cache EXCEPT !.extension = ExtensionAccount("OrcaWhirl", chain)]
  BY <1>0, <1>4 DEF CacheHolds
<1>5. CASE cache' = [cache EXCEPT !.oracle = fresh.oracle]
  BY <1>0, <1>1, <1>5 DEF CacheHolds
<1>6. CASE \E i \in TickStarts :
             cache' = [cache EXCEPT !.arrays[i] = ArrayAccount("OrcaWhirl", chain, i)]
  <2>1. PICK i \in TickStarts, array \in TickArrays :
          cache' = [cache EXCEPT !.arrays[i] = array]
    BY <1>1, <1>6
  <2>2. /\ DOMAIN cache' = DOMAIN cache
        /\ cache'.pool = cache.pool /\ cache'.oracle = cache.oracle
        /\ cache'.arrays = [cache.arrays EXCEPT ![i] = array]
    BY <2>1 DEF CacheHolds
  <2> QED
    BY <1>0, <2>2 DEF CacheHolds
<1> QED
  BY <1>2, <1>3, <1>4, <1>5, <1>6

LEMMA WhirlReadPool ==
    ASSUME Given, CacheHolds, HeldHolds, terms.dex = "OrcaWhirl", ReadPool
    PROVE  HeldHolds' /\ next' = "arrays"
<1>1. /\ next = "pool" /\ UNCHANGED <<terms, down, cache>>
      /\ held' = [held EXCEPT !.pool = cache.pool, !.keys = KeysOfPool(cache.pool)]
      /\ next' = IF HasBitmaps(terms.dex) THEN "extension"
                 ELSE IF held'.keys # <<>> THEN "arrays" ELSE "begin"
  BY DEF ReadPool, pvars
<1>2. PICK i \in Multiples, j \in Multiples, k \in Multiples : KeysOfPool(cache.pool) = <<i, j, k>>
  <2>1. cache.pool.tick_current_index \in Int /\ down \in BOOLEAN
    BY TickRange DEF CacheHolds, GoodPool, Given
  <2> QED
    BY <2>1, KeysAre DEF KeysOfPool
<1>3. /\ DOMAIN held' = DOMAIN held /\ held'.pool = cache.pool /\ held'.keys = <<i, j, k>>
      /\ held'.oracle = held.oracle /\ held'.arrays = held.arrays
  BY <1>1, <1>2 DEF HeldHolds
<1>4. next' = "arrays"
  <2>1. held'.keys # <<>>
    BY <1>3
  <2> QED
    BY <1>1, <2>1, Whirl
<1>5. held.arrays = <<>> /\ Len(held'.arrays) = 0
  BY <1>1, <1>3 DEF HeldHolds
<1>6. ThreeKeys' /\ GoodPool(held'.pool)
  BY <1>3 DEF ThreeKeys, CacheHolds
<1>7. held'.arrays \in Seq(TickArrays) /\ (terms'.fee.adaptive => GoodOracle(held'.oracle, terms'.fee))
  BY <1>1, <1>3 DEF HeldHolds
<1>8. {"pool", "oracle", "keys", "arrays"} \subseteq DOMAIN held'
  BY <1>3 DEF HeldHolds
<1>9. Len(held'.arrays) =< 3 /\ Len(held'.arrays) < 3
  BY <1>5
<1> QED
  BY <1>4, <1>6, <1>7, <1>8, <1>9 DEF HeldHolds

LEMMA WhirlReadArray ==
    ASSUME Given, CacheHolds, HeldHolds, terms.dex = "OrcaWhirl", ReadArray
    PROVE  HeldHolds' /\ next' \in {"arrays", "oracle", "begin"}
<1> DEFINE i == held.keys[Len(held.arrays) + 1]
           found == IF i \in ArrayKeys(terms.dex) THEN cache.arrays[i] ELSE Missing
           array == IF found = Missing /\ terms.dex = "OrcaWhirl"
                    THEN uninitialized_tick_array(i) ELSE found
<1>1. /\ next = "arrays" /\ UNCHANGED <<terms, down, cache>>
      /\ held' = [held EXCEPT !.arrays = Append(@, array)]
      /\ next' = IF Len(held'.arrays) < Len(held.keys) THEN "arrays"
                 ELSE IF terms.dex = "OrcaWhirl" /\ terms.fee.adaptive THEN "oracle"
                 ELSE "begin"
  BY DEF ReadArray, pvars
<1>2. PICK n \in Nat : n = Len(held.arrays) /\ n < 3 /\ held.arrays \in Seq(TickArrays)
  BY <1>1 DEF HeldHolds
<1>3. Len(held.keys) = 3 /\ i \in Multiples
  <2>1. PICK a \in Multiples, b \in Multiples, c \in Multiples : held.keys = <<a, b, c>>
    BY <1>1 DEF HeldHolds, ThreeKeys
  <2>2. n + 1 = 1 \/ n + 1 = 2 \/ n + 1 = 3
    BY <1>2
  <2> QED
    BY <1>2, <2>1, <2>2
<1> HIDE DEF i
<1>4. array \in TickArrays
  <2>1. found = Missing \/ found \in TickArrays
    BY Whirl DEF CacheHolds
  <2> QED
    BY <1>3, <2>1, OfNone
<1> HIDE DEF array
<1>5. /\ DOMAIN held' = DOMAIN held /\ held'.pool = held.pool /\ held'.keys = held.keys
      /\ held'.oracle = held.oracle /\ held'.arrays = Append(held.arrays, array)
  BY <1>1 DEF HeldHolds
<1>6. held'.arrays \in Seq(TickArrays) /\ Len(held'.arrays) = n + 1
  BY <1>2, <1>4, <1>5
<1>7. /\ next' = "arrays" => Len(held'.arrays) < 3
      /\ next' \in {"oracle", "begin"} => Len(held'.arrays) = 3
      /\ next' \in {"arrays", "oracle", "begin"}
      /\ Len(held'.arrays) =< 3
  BY <1>1, <1>2, <1>3, <1>6
<1>8. GoodPool(held'.pool) /\ ThreeKeys'
  BY <1>1, <1>5 DEF HeldHolds, ThreeKeys
<1> QED
  BY <1>1, <1>5, <1>6, <1>7, <1>8 DEF HeldHolds

LEMMA WhirlReadOracle ==
    ASSUME CacheHolds, HeldHolds, ReadOracle
    PROVE  HeldHolds'
<1>1. /\ next = "oracle" /\ next' = "begin" /\ UNCHANGED terms
      /\ held' = [held EXCEPT !.oracle = cache.oracle]
  BY DEF ReadOracle, pvars
<1>2. /\ DOMAIN held' = DOMAIN held /\ held'.pool = held.pool /\ held'.keys = held.keys
      /\ held'.oracle = cache.oracle /\ held'.arrays = held.arrays
  BY <1>1 DEF HeldHolds
<1> QED
  BY <1>1, <1>2 DEF HeldHolds, CacheHolds, ThreeKeys

LEMMA WhirlBegin ==
    ASSUME Given, HeldHolds, terms.dex = "OrcaWhirl", Begin
    PROVE  HeldHolds' /\ WalkHolds'
<1>1. /\ next = "begin" /\ next' = AfterWalk(walk') /\ UNCHANGED <<terms, down, amount_in, held>>
      /\ walk' = BeginWhirlpool(held.pool, held.oracle, held.arrays, amount_in,
                                terms.fee, TickSpacing, Now, down)
  BY DEF Begin, pvars
<1>2. walk'.is = "none" \/ (Walked(walk', terms.fee, down) /\ walk'.remaining =< amount_in)
  <2>1. /\ terms \in Terms /\ down \in BOOLEAN /\ amount_in \in AmountsIn
    BY DEF Given
  <2>2. /\ GoodPool(held.pool) /\ (terms.fee.adaptive => GoodOracle(held.oracle, terms.fee))
        /\ held.arrays \in Seq(TickArrays) /\ Len(held.arrays) = 3
    BY <1>1 DEF HeldHolds
  <2> QED
    BY <1>1, <2>1, <2>2, BeginIsWalked
<1>3. walk'.is \in {"none", "walking"}
  BY <1>2 DEF Walked, Walks
<1>4. next' \in {"walk", "none"} /\ (next' = "walk" => walk'.is = "walking")
  BY <1>1, <1>3 DEF AfterWalk
<1>5. HeldHolds'
  BY <1>1, <1>4, HeldKept
<1>6. WalkHolds'
  BY <1>1, <1>2, <1>3, <1>4 DEF WalkHolds
<1> QED
  BY <1>5, <1>6

LEMMA WhirlWalk ==
    ASSUME Given, HeldHolds, WalkHolds, terms.dex = "OrcaWhirl", Walk
    PROVE  HeldHolds' /\ WalkHolds'
<1>1. /\ next = "walk" /\ next' = AfterWalk(walk') /\ UNCHANGED <<terms, down, amount_in, held>>
      /\ walk' = WhirlpoolLoop(walk, terms.fee, TickSpacing, down)
  BY DEF Walk, pvars
<1>2. Walked(walk, terms.fee, down) /\ walk.remaining =< amount_in
  BY <1>1 DEF WalkHolds
<1>3. \/ walk'.is \in {"amount", "none"}
      \/ Walked(walk', terms.fee, down) /\ walk'.remaining =< walk.remaining
  <2>1. Whirlpools(terms.fee) /\ down \in BOOLEAN
    BY TermsOfWhirlpools DEF Given
  <2> QED
    BY <1>1, <1>2, <2>1, LoopKeeps
<1>4. Walked(walk', terms.fee, down) /\ walk'.remaining =< walk.remaining
        => walk'.is = "walking" /\ walk'.remaining =< amount_in
  <2> SUFFICES ASSUME Walked(walk', terms.fee, down), walk'.remaining =< walk.remaining
               PROVE  walk'.is = "walking" /\ walk'.remaining =< amount_in
    OBVIOUS
  <2>1. PICK amount \in Nat, before \in Nat, after \in Nat :
          amount = amount_in /\ before = walk.remaining /\ after = walk'.remaining
    BY <1>2, StretchAssumption DEF Given, Walked, Walks, Amounts
  <2>2. after =< before /\ before =< amount
    BY <1>2, <2>1
  <2>3. walk'.is = "walking"
    BY DEF Walked, Walks
  <2> QED
    BY <2>1, <2>2, <2>3
<1>5. walk'.is \in {"none", "amount", "walking"}
  BY <1>3, <1>4
<1>6. next' \in {"walk", "list", "none"} /\ (next' = "walk" => walk'.is = "walking")
  BY <1>1, <1>5 DEF AfterWalk
<1>7. HeldHolds'
  BY <1>1, <1>6, HeldKept
<1>8. WalkHolds'
  BY <1>1, <1>3, <1>4, <1>5, <1>6 DEF WalkHolds
<1> QED
  BY <1>7, <1>8

LEMMA WhirlNext == Given /\ WhirlInv /\ [Next]_vars => WhirlInv'
<1> SUFFICES ASSUME Given, WhirlInv, [Next]_vars, terms'.dex = "OrcaWhirl"
             PROVE  CacheHolds' /\ HeldHolds' /\ WalkHolds'
  BY DEF WhirlInv
<1>0. UNCHANGED pvars
  BY DEF Next, vars, pvars, Move, Update, ReadPool, ReadExtension, ReadArray, ReadOracle, Begin, Walk,
         ListPool, ListArrays
<1>1. UNCHANGED <<terms, down, amount_in>> /\ terms.dex = "OrcaWhirl"
  BY <1>0 DEF pvars
<1>2. CacheHolds /\ HeldHolds /\ WalkHolds
  BY <1>1 DEF WhirlInv
<1>3. /\ UNCHANGED <<held, next, walk>> => HeldHolds' /\ WalkHolds'
      /\ UNCHANGED cache => CacheHolds'
      /\ UNCHANGED walk /\ next # "walk" /\ next' \in {"arrays", "oracle", "begin", "none", "done"}
           => WalkHolds'
  <2>1. ASSUME UNCHANGED <<held, next, walk>> PROVE HeldHolds' /\ WalkHolds'
    BY <1>1, <1>2, <2>1 DEF HeldHolds, ThreeKeys, WalkHolds
  <2>2. ASSUME UNCHANGED cache PROVE CacheHolds'
    BY <1>1, <1>2, <2>2, CacheKept
  <2>3. ASSUME UNCHANGED walk, next' \in {"arrays", "oracle", "begin", "none", "done"}
        PROVE  WalkHolds'
    BY <1>1, <1>2, <2>3 DEF WalkHolds
  <2> QED
    BY <2>1, <2>2, <2>3
<1>4. CASE Move
  BY <1>3, <1>4 DEF Move
<1>5. CASE Update
  BY <1>1, <1>2, <1>3, <1>5, WhirlUpdate DEF Update
<1>6. CASE ReadPool
  BY <1>1, <1>2, <1>3, <1>6, WhirlReadPool DEF ReadPool
<1>7. CASE ReadExtension
  BY <1>2, <1>7 DEF ReadExtension, WalkHolds
<1>8. CASE ReadArray
  BY <1>1, <1>2, <1>3, <1>8, WhirlReadArray DEF ReadArray
<1>9. CASE ReadOracle
  BY <1>2, <1>3, <1>9, WhirlReadOracle DEF ReadOracle
<1>10. CASE Begin
  BY <1>1, <1>2, <1>3, <1>10, WhirlBegin DEF Begin
<1>11. CASE Walk
  BY <1>1, <1>2, <1>3, <1>11, WhirlWalk DEF Walk
<1>12. CASE ListPool
  <2>1. next = "list" /\ UNCHANGED <<cache, held, walk>>
    BY <1>12 DEF ListPool
  <2>2. next' = "done"
    BY <1>1, <1>12, Whirl DEF ListPool
  <2>3. HeldHolds'
    BY <1>1, <1>2, <2>1, <2>2, HeldKept
  <2> QED
    BY <1>3, <2>1, <2>2, <2>3
<1>13. CASE ListArrays
  BY <1>2, <1>13 DEF ListArrays, WalkHolds
<1>14. CASE UNCHANGED vars
  BY <1>3, <1>14 DEF vars
<1> QED
  BY <1>4, <1>5, <1>6, <1>7, <1>8, <1>9, <1>10, <1>11, <1>12, <1>13, <1>14 DEF Next

LEMMA WalkedByGroup == Given /\ WhirlInv => ChargedByGroup
<1> SUFFICES ASSUME Given, WhirlInv, walk.is = "walking", terms.dex = "OrcaWhirl", terms.fee.adaptive
             PROVE  LET low == Min({walk.price, walk.charged.from})
                        high == Max({walk.price, walk.charged.from})
                    IN  \A t \in MinTick..(MaxTick - 1) :
                            /\ walk.charged.liquidity > 0
                            /\ Max({low, SqrtPrice[t]}) < Min({high, SqrtPrice[t + 1]})
                            => walk.charged.rate = GroupRate(GroupOf(t, terms.fee))
  BY DEF ChargedByGroup
<1>1. ByGroup(walk, terms.fee)
  BY DEF WhirlInv, WalkHolds, Walked
<1> QED
  BY <1>1 DEF ByGroup, RateAt, GroupRate

\* Of a Whirlpool with an adaptive fee every stretch of prices is charged at the rate
\* of the tick group it lies in, whatever the reads were torn by (compute_swap and
\* get_bounded_sqrt_price_target, whose steps skip groups).
THEOREM RatesAreByGroup == Spec => []ChargedByGroup
<1>1. QuoteInv => Given
  BY DEF QuoteInv
<1>2. Init => QuoteInv /\ WhirlInv
  BY QuoteInit, WhirlInit
<1>3. QuoteInv /\ WhirlInv /\ [Next]_vars => (QuoteInv /\ WhirlInv)'
  BY <1>1, QuoteNext, WhirlNext
<1>4. QuoteInv /\ WhirlInv => ChargedByGroup
  BY <1>1, WalkedByGroup
<1> QED
  BY <1>2, <1>3, <1>4, PTL DEF Spec

-----------------------------------------------------------------------------
(* Numbers of DLMM *)

\* Numbers follow from numbers.
LEMMA AllNumbers ==
    ASSUME NEW f, f[0] \in Nat, \A n \in Nat : f[n] \in Nat => f[n + 1] \in Nat
    PROVE  \A n \in Nat : f[n] \in Nat
<1> DEFINE Bad == {n \in Nat : f[n] \notin Nat}
<1> SUFFICES ASSUME Bad # {} PROVE FALSE
  OBVIOUS
<1>1. Bad \subseteq Nat
  OBVIOUS
<1>2. PICK n \in Bad : \A m \in Bad : n =< m
  <2> HIDE DEF Bad
  <2> QED
    BY <1>1, LeastNat
<1>3. PICK m \in Nat : n = m + 1
  <2>1. n \in Nat \ {0}
    BY <1>2
  <2>2. n - 1 \in Nat /\ n = (n - 1) + 1
    BY <2>1
  <2> QED
    BY <2>2
<1>4. m \notin Bad
  BY <1>2, <1>3
<1> QED
  BY <1>2, <1>3, <1>4

LEMMA DivIsNat ==
    ASSUME NEW a \in Nat, NEW b \in Nat \ {0}
    PROVE  a \div b \in Nat
  OBVIOUS

\* A sequence that starts at c and goes on with f.
RecursIn(D, c, f) == \E e \in [Nat -> D] : e = [n \in Nat |-> IF n = 0 THEN c ELSE f[n][e[n - 1]]]

LEMMA Recurs ==
    ASSUME NEW D, NEW c \in D, NEW f \in [Nat -> [D -> D]]
    PROVE  RecursIn(D, c, f)
  BY PrimitiveRecursion DEF RecursIn

\* The squares of a number, scaled.
LEMMA SquaresAre ==
    ASSUME NEW z \in Nat, NEW q \in Nat \ {0}
    PROVE  LET square[n \in Nat] == IF n = 0 THEN z ELSE (square[n - 1] * square[n - 1]) \div q
           IN  \A n \in Nat : square[n] \in Nat
<1> DEFINE square[n \in Nat] == IF n = 0 THEN z ELSE (square[n - 1] * square[n - 1]) \div q
<1>1. PICK go : go = [n \in Nat |-> [v \in Nat |-> (v * v) \div q]]
  OBVIOUS
<1>2. go \in [Nat -> [Nat -> Nat]]
  <2>1. \A v \in Nat : v * v \in Nat /\ (v * v) \div q \in Nat
    BY DivIsNat
  <2> QED
    BY <1>1, <2>1
<1>3. \E g : g = [n \in Nat |-> IF n = 0 THEN z ELSE (g[n - 1] * g[n - 1]) \div q]
  <2>1. PICK S : S = Nat
    OBVIOUS
  <2>2. z \in S /\ go \in [Nat -> [S -> S]]
    BY <1>2, <2>1
  <2>3. PICK g \in [Nat -> S] : g = [n \in Nat |-> IF n = 0 THEN z ELSE go[n][g[n - 1]]]
    <3>1. PICK D, c, f : D = S /\ c = z /\ f = go
      OBVIOUS
    <3>2. c \in D /\ f \in [Nat -> [D -> D]]
      BY <2>2, <3>1
    <3>3. RecursIn(D, c, f)
      BY <3>2, Recurs
    <3> QED
      BY <3>1, <3>3 DEF RecursIn
  <2>4. ASSUME NEW n \in Nat
        PROVE  g[n] = IF n = 0 THEN z ELSE (g[n - 1] * g[n - 1]) \div q
    <3>1. n # 0 => n - 1 \in Nat
      OBVIOUS
    <3>2. g[n] = IF n = 0 THEN z ELSE go[n][g[n - 1]]
      BY <2>3
    <3>3. n # 0 => g[n - 1] \in Nat
      BY <2>1, <2>3, <3>1
    <3> QED
      BY <1>1, <3>2, <3>3
  <2>5. PICK h : h = [n \in Nat |-> IF n = 0 THEN z ELSE (g[n - 1] * g[n - 1]) \div q]
    OBVIOUS
  <2>6. g = h
    <3>1. \A n \in Nat : g[n] = h[n]
      BY <2>4, <2>5
    <3>2. g = [n \in Nat |-> g[n]] /\ h = [n \in Nat |-> h[n]]
      BY <2>3, <2>5
    <3> QED
      BY <3>1, <3>2
  <2> QED
    BY <2>5, <2>6
<1>4. square = [n \in Nat |-> IF n = 0 THEN z ELSE (square[n - 1] * square[n - 1]) \div q]
  BY <1>3, Zenon
<1>5. PICK f : f = square
  OBVIOUS
<1>6. f = [n \in Nat |-> IF n = 0 THEN z ELSE (f[n - 1] * f[n - 1]) \div q]
  BY <1>4, <1>5
<1> HIDE DEF square
<1>7. ASSUME NEW n \in Nat, f[n] \in Nat PROVE f[n + 1] \in Nat
  <2>1. f[n + 1] = (f[n] * f[n]) \div q
    <3>1. n + 1 \in Nat /\ n + 1 # 0 /\ n + 1 - 1 = n
      OBVIOUS
    <3> QED
      BY <1>6, <3>1
  <2>2. f[n] * f[n] \in Nat
    BY <1>7
  <2> QED
    BY <2>1, <2>2, DivIsNat
<1>8. f[0] \in Nat
  BY <1>6
<1>9. \A n \in Nat : f[n] \in Nat
  BY <1>7, <1>8, AllNumbers
<1> QED
  BY <1>5, <1>9 DEF square

\* The product of those that some bits pick.
ProductsAreNat(z, q, s, bits) ==
    LET product[n \in Nat] ==
            IF n = 0 THEN z
            ELSE IF (bits \div (2 ^ (n - 1))) % 2 = 0 THEN product[n - 1]
            ELSE (product[n - 1] * s[n - 1]) \div q
    IN  \A n \in Nat : product[n] \in Nat

LEMMA ProductsAre ==
    ASSUME NEW z \in Nat, NEW q \in Nat \ {0}, NEW s, \A n \in Nat : s[n] \in Nat, NEW bits
    PROVE  ProductsAreNat(z, q, s, bits)
<1> DEFINE Skip(n) == (bits \div (2 ^ (n - 1))) % 2 = 0
           product[n \in Nat] ==
                   IF n = 0 THEN z
                   ELSE IF (bits \div (2 ^ (n - 1))) % 2 = 0 THEN product[n - 1]
                   ELSE (product[n - 1] * s[n - 1]) \div q
<1>1. PICK skip : skip = [n \in Nat |-> Skip(n)]
  OBVIOUS
<1>0. ASSUME NEW n \in Nat PROVE skip[n] = Skip(n)
  BY <1>1
<1> HIDE DEF Skip
<1>2. PICK go : go = [n \in Nat |-> [v \in Nat |-> IF n = 0 \/ skip[n] THEN v ELSE (v * s[n - 1]) \div q]]
  OBVIOUS
<1>3. go \in [Nat -> [Nat -> Nat]]
  <2>1. ASSUME NEW n \in Nat, NEW v \in Nat
        PROVE  (IF n = 0 \/ skip[n] THEN v ELSE (v * s[n - 1]) \div q) \in Nat
    <3>1. CASE n = 0 \/ skip[n]
      BY <3>1
    <3>2. CASE ~(n = 0 \/ skip[n])
      <4>1. n - 1 \in Nat
        BY <3>2
      <4>2. s[n - 1] \in Nat
        BY <4>1
      <4>3. v * s[n - 1] \in Nat
        BY <4>2
      <4>4. (v * s[n - 1]) \div q \in Nat
        BY <4>3, DivIsNat
      <4> QED
        BY <3>2, <4>4
    <3> QED
      BY <3>1, <3>2
  <2> QED
    BY <1>2, <2>1
<1>4. \E g : g = [n \in Nat |-> IF n = 0 THEN z ELSE IF Skip(n) THEN g[n - 1]
                                ELSE (g[n - 1] * s[n - 1]) \div q]
  <2>1. PICK S : S = Nat
    OBVIOUS
  <2>2. z \in S /\ go \in [Nat -> [S -> S]]
    BY <1>3, <2>1
  <2>3. PICK g \in [Nat -> S] : g = [n \in Nat |-> IF n = 0 THEN z ELSE go[n][g[n - 1]]]
    <3>1. PICK D, c, f : D = S /\ c = z /\ f = go
      OBVIOUS
    <3>2. c \in D /\ f \in [Nat -> [D -> D]]
      BY <2>2, <3>1
    <3>3. RecursIn(D, c, f)
      BY <3>2, Recurs
    <3> QED
      BY <3>1, <3>3 DEF RecursIn
  <2>5. PICK h : h = [n \in Nat |-> IF n = 0 THEN z ELSE IF Skip(n) THEN g[n - 1]
                                    ELSE (g[n - 1] * s[n - 1]) \div q]
    OBVIOUS
  <2>4. ASSUME NEW n \in Nat PROVE g[n] = h[n]
    <3>1. h[n] = IF n = 0 THEN z ELSE IF Skip(n) THEN g[n - 1] ELSE (g[n - 1] * s[n - 1]) \div q
      BY <2>5
    <3>2. g[n] = IF n = 0 THEN z ELSE go[n][g[n - 1]]
      BY <2>3
    <3>3. CASE n = 0
      BY <3>1, <3>2, <3>3
    <3>4. CASE n # 0
      <4>1. n - 1 \in Nat
        BY <3>4
      <4>2. g[n - 1] \in Nat
        BY <2>1, <2>3, <4>1
      <4>3. go[n][g[n - 1]] = IF skip[n] THEN g[n - 1] ELSE (g[n - 1] * s[n - 1]) \div q
        BY <1>2, <3>4, <4>2
      <4> QED
        BY <1>0, <3>1, <3>2, <3>4, <4>3
    <3> QED
      BY <3>3, <3>4
  <2>6. g = h
    <3>1. \A n \in Nat : g[n] = h[n]
      BY <2>4
    <3>2. g = [n \in Nat |-> g[n]] /\ h = [n \in Nat |-> h[n]]
      BY <2>3, <2>5
    <3> QED
      BY <3>1, <3>2
  <2> QED
    BY <2>5, <2>6
<1>5. product = [n \in Nat |-> IF n = 0 THEN z ELSE IF Skip(n) THEN product[n - 1]
                               ELSE (product[n - 1] * s[n - 1]) \div q]
  BY <1>4, Zenon DEF Skip
<1>6. PICK f : f = product
  OBVIOUS
<1>7. f = [n \in Nat |-> IF n = 0 THEN z ELSE IF Skip(n) THEN f[n - 1]
                         ELSE (f[n - 1] * s[n - 1]) \div q]
  BY <1>5, <1>6
<1> HIDE DEF product
<1>8. ASSUME NEW n \in Nat, f[n] \in Nat PROVE f[n + 1] \in Nat
  <2>1. f[n + 1] = IF Skip(n + 1) THEN f[n] ELSE (f[n] * s[n]) \div q
    <3>1. n + 1 \in Nat /\ n + 1 # 0 /\ n + 1 - 1 = n
      OBVIOUS
    <3> QED
      BY <1>7, <3>1
  <2>2. f[n] * s[n] \in Nat
    BY <1>8
  <2>3. (f[n] * s[n]) \div q \in Nat
    BY <2>2, DivIsNat
  <2> QED
    BY <1>8, <2>1, <2>3
<1>9. f[0] \in Nat
  BY <1>7
<1>10. \A n \in Nat : f[n] \in Nat
  BY <1>8, <1>9, AllNumbers
<1>11. \A n \in Nat : product[n] \in Nat
  BY <1>6, <1>10
<1> QED
  BY <1>11 DEF product, ProductsAreNat

\* A power is a number, or NoPower.
LEMMA PowIsNat ==
    ASSUME NEW base \in Nat \ {0}, NEW exp \in Int
    PROVE  pow(base, exp) \in Nat
<1>1. Q64 \in Nat \ {0} /\ U128 - 1 \in Nat
  BY WidthAssumption, WidthFacts
<1> DEFINE inverted == base >= Q64
           first == IF inverted THEN (U128 - 1) \div base ELSE base
           bits == AbsOf(exp)
           square[n \in Nat] ==
               IF n = 0 THEN IF inverted THEN (U128 - 1) \div base ELSE base
               ELSE (square[n - 1] * square[n - 1]) \div Q64
           product[n \in Nat] ==
               IF n = 0 THEN Q64
               ELSE IF (bits \div (2 ^ (n - 1))) % 2 = 0 THEN product[n - 1]
               ELSE (product[n - 1] * square[n - 1]) \div Q64
<1>2. first \in Nat
  BY <1>1, DivIsNat
<1>3. \A n \in Nat : square[n] \in Nat
  <2>1. PICK z \in Nat : z = first
    BY <1>2
  <2>2. LET f[n \in Nat] == IF n = 0 THEN z ELSE (f[n - 1] * f[n - 1]) \div Q64
        IN  \A n \in Nat : f[n] \in Nat
    BY <1>1, SquaresAre
  <2> QED
    BY <2>1, <2>2, Zenon
<1>4. \A n \in Nat : product[n] \in Nat
  <2>1. ProductsAreNat(Q64, Q64, square, bits)
    <3> HIDE DEF square, bits
    <3> QED
      BY <1>1, <1>3, ProductsAre
  <2> QED
    <3> HIDE DEF square, bits
    <3> QED
      BY <2>1 DEF ProductsAreNat
<1>5. product[ExponentBits] \in Nat
  BY <1>4, FeeAssumption
<1>7. pow(base, exp) = IF exp = 0 THEN Q64
                       ELSE IF bits >= 2 ^ ExponentBits \/ product[ExponentBits] = 0 THEN NoPower
                       ELSE IF inverted # (exp < 0) THEN (U128 - 1) \div product[ExponentBits]
                       ELSE product[ExponentBits]
  BY Zenon DEF pow
<1>6. PICK r \in Nat : r = product[ExponentBits]
  BY <1>5
<1>8. r # 0 => (U128 - 1) \div r \in Nat
  BY <1>1, DivIsNat
<1> QED
  <2> HIDE DEF bits, inverted, product
  <2>1. pow(base, exp) \in {Q64, NoPower, (U128 - 1) \div r, r} /\ (pow(base, exp) = (U128 - 1) \div r => r # 0 \/ pow(base, exp) \in {Q64, NoPower})
    BY <1>6, <1>7, Zenon
  <2> QED
    BY <1>1, <1>8, <2>1 DEF NoPower

-----------------------------------------------------------------------------
(* Arrays and bins of DLMM pools *)

\* What a pool read before or after its extension names.
MixedBins(s, r, x) ==
    Inner(Arrays("MeteoraDLMM", s))
        \cup (IF x = Missing THEN {} ELSE {a \in Arrays("MeteoraDLMM", r) : Outward(a)})

LEMMA MixedBinsAreNamed ==
    ASSUME NEW s \in States["MeteoraDLMM"], NEW r \in States["MeteoraDLMM"], NEW x,
           x \in {Missing, ExtensionAccount("MeteoraDLMM", r)}
    PROVE  BinNamed(MixedBins(s, r, x), PoolAccount("MeteoraDLMM", s).bin_array_bitmap, x)
<1>1. PICK b, top, S, R, M :
        /\ b \in Nat \ {0} /\ b = BitmapSize /\ top \in Nat /\ top = Top
        /\ S = Arrays("MeteoraDLMM", s) /\ R = Arrays("MeteoraDLMM", r) /\ M = MixedBins(s, r, x)
  BY TopIs, BitmapAssumption
<1>2. /\ S \subseteq ArrayIndices /\ R \subseteq ArrayIndices
      /\ \A a \in ArrayIndices : a \in Int /\ a \in Reach
  <2>1. \A a \in ArrayIndices : a \in (-(top - 1))..(top - 2)
    BY <1>1, IndicesAre
  <2> QED
    BY <1>1, <2>1, BinArraysAre DEF Reach
<1>3. M \subseteq Reach
  BY <1>1, <1>2 DEF MixedBins, Inner
<1>4. Inner(M) = Inner(S)
  BY <1>1 DEF MixedBins, Inner
<1>5. PoolAccount("MeteoraDLMM", s).bin_array_bitmap = {a + BitmapSize : a \in Inner(S)}
  BY <1>1, BinBitmapsName DEF BinNamed, BinNames
<1>6. ASSUME x = Missing PROVE M = Inner(M)
  BY <1>1, <1>6 DEF MixedBins, Inner
<1>7. ASSUME x # Missing
      PROVE  /\ Positions(x.positive) = {a + (-BitmapSize) : a \in Above(M)}
             /\ Positions(x.negative) = {e + (-BitmapSize - 1) : e \in {-a : a \in Under(M)}}
  <2>1. x = ExtensionAccount("MeteoraDLMM", r)
    BY <1>7
  <2>2. M = Inner(S) \cup {a \in R : Outward(a)}
    BY <1>1, <1>7 DEF MixedBins
  <2>3. \A a \in S \cup R : a \in Int
    BY <1>2
  <2>4. Above(M) = Above(R) /\ Under(M) = Under(R)
    BY <1>1, <2>2, <2>3 DEF Above, Under, Outward, Inner
  <2> QED
    BY <1>1, <2>1, <2>4, UpwardsName, OutwardsName
<1> QED
  BY <1>1, <1>3, <1>4, <1>5, <1>6, <1>7 DEF BinNamed, BinNames

\* Three searches name at most three arrays.
LEMMA FewBinKeys ==
    ASSUME NEW s \in States["MeteoraDLMM"], NEW r \in States["MeteoraDLMM"], NEW h,
           down \in BOOLEAN, terms.dex = "MeteoraDLMM",
           h.pool = PoolAccount("MeteoraDLMM", s),
           h.extension \in {Missing, ExtensionAccount("MeteoraDLMM", r)}
    PROVE  LET keys == KeysOf(h, 2).keys
           IN  Len(keys) \in 0..3 /\ DOMAIN keys = 1..Len(keys) /\ (Len(keys) = 0 <=> keys = <<>>)
<1>1. PICK d, bits, x, n, A :
        /\ d \in BOOLEAN /\ d = down /\ bits = h.pool.bin_array_bitmap /\ x = h.extension
        /\ n = bin_id_to_bin_array_index(s.active) /\ A = MixedBins(s, r, x)
  OBVIOUS
<1>2. h.pool.active_id = s.active
  BY DEF PoolAccount, LbPair
<1>3. BinNamed(A, bits, x)
  BY <1>1, MixedBinsAreNamed
<1>4. n \in Int
  <2>1. n \in ArrayIndices
    BY <1>1, BinArraysAre
  <2>2. PICK top \in Nat : top = Top
    BY TopIs
  <2> QED
    BY <2>1, <2>2, IndicesAre
<1>5. PICK first, further, V :
        /\ first = Search(BinRounds(bits, x, d), n) /\ further = FurtherBins(bits, x, d)
        /\ V = {Search(BinRounds(bits, x, d), i) : i \in Int}
  OBVIOUS
<1>6. first \in V /\ further \in [Int -> V]
  BY <1>4, <1>5 DEF FurtherBins, After
<1>7. \A v \in V : IsFound(v) => v.start \in Int
  BY <1>1, <1>3, <1>5, BinSearchNumber
<1>8. PICK second, third : second = further[first.start] /\ third = further[second.start]
  OBVIOUS
<1>9. PICK q : q = Searches(first, further, 2)
  OBVIOUS
<1>10. q = IF ~IsFound(first) THEN <<first>>
           ELSE IF ~IsFound(second) THEN <<first, second>>
           ELSE <<first, second, third>>
  BY <1>6, <1>7, <1>8, <1>9, SearchesOfTwo
<1>11. Starts(q) \in {<<>>, <<first.start>>, <<first.start, second.start>>,
                      <<first.start, second.start, third.start>>}
  BY <1>10, StartsOfFew
<1>12. PICK keys : keys = Starts(q)
  OBVIOUS
<1>13. KeysOf(h, 2).keys = keys
  BY <1>1, <1>2, <1>5, <1>9, <1>12, BinKeysOf
<1>14. Len(keys) \in 0..3 /\ DOMAIN keys = 1..Len(keys) /\ (Len(keys) = 0 <=> keys = <<>>)
  <2>1. PICK u, v, z : keys \in {<<>>, <<u>>, <<u, v>>, <<u, v, z>>}
    BY <1>11, <1>12
  <2> QED
    BY <2>1
<1> QED
  BY <1>13, <1>14

\* Bin arrays of some state, and what a walk from bin to bin is.
BinArrays == {BinArray(s, i) : s \in States["MeteoraDLMM"], i \in ArrayIndices}
BinIds == (-MaxBin)..MaxBin
References ==
    [last_update_timestamp : Int, index_reference : Int,
     volatility_reference : Nat, volatility_accumulator : Nat]
BinWalks ==
    [is : {"walking"}, calculated : Amounts, remaining : Nat, active_id : BinIds,
     variables : References, array : BinArrays \cup {Missing}, queue : Seq(BinArrays)]

\* The bins of an array hold amounts.
LEMMA BinsHold ==
    ASSUME NEW array \in BinArrays, NEW id \in BinsOf(array.index)
    PROVE  array.bins[id].x \in Nat /\ array.bins[id].y \in Nat
<1>1. PICK s \in States["MeteoraDLMM"], i \in ArrayIndices : array = BinArray(s, i)
  BY DEF BinArrays
<1>2. array.index = i
  BY <1>1 DEF BinArray
<1>3. array.bins[id] = IF id \in DOMAIN s.bins THEN s.bins[id] ELSE [x |-> 0, y |-> 0]
  BY <1>1, <1>2 DEF BinArray
<1>4. id \in DOMAIN s.bins => s.bins[id].x \in Nat /\ s.bins[id].y \in Nat
  BY BinPoolAssumption
<1> QED
  BY <1>3, <1>4

\* The volatility of a bin leaves what it is measured from.
LEMMA VolatilityIs ==
    ASSUME NEW t \in Terms, t.dex = "MeteoraDLMM", NEW v \in References, NEW id \in Int
    PROVE  /\ Volatility(v, id, t.fee) \in References
           /\ Volatility(v, id, t.fee).index_reference = v.index_reference
           /\ Volatility(v, id, t.fee).volatility_reference = v.volatility_reference
<1>1. PICK a \in Nat : a = AbsOf(v.index_reference - id)
  BY DEF AbsOf, References
<1>2. PICK b \in Nat, r \in Nat, most \in Nat :
        b = BasisPointMax /\ r = v.volatility_reference /\ most = t.fee.max_volatility_accumulator
  BY BinPoolAssumption, FeeAssumption DEF References
<1>3. PICK grown \in Nat : grown = r + (a * b)
  <2>1. a * b \in Nat
    BY <1>1, <1>2
  <2> QED
    BY <1>2, <2>1
<1>4. PICK m \in Nat : m = Min({grown, most})
  BY <1>2, <1>3, LeastOfTwo
<1>5. Volatility(v, id, t.fee) = [v EXCEPT !.volatility_accumulator = m]
  BY <1>1, <1>2, <1>3, <1>4, Zenon DEF Volatility
<1> QED
  BY <1>5 DEF References

\* So is what the walk begins with.
LEMMA BinReferencesAre ==
    ASSUME NEW t \in Terms, t.dex = "MeteoraDLMM", NEW v \in References, NEW id \in Int
    PROVE  update_references(v, id, t.fee, Now) \in References
<1>1. PICK decayed \in Nat :
        decayed = (v.volatility_accumulator * t.fee.reduction_factor) \div BasisPointMax
  <2>1. PICK a \in Nat, f \in Nat, b \in Nat \ {0} :
          a = v.volatility_accumulator /\ f = t.fee.reduction_factor /\ b = BasisPointMax
    BY BinPoolAssumption, FeeAssumption DEF References
  <2>2. a * f \in Nat
    BY <2>1
  <2>3. (a * f) \div b \in Nat
    BY <2>1, <2>2, DivIsNat
  <2> QED
    BY <2>1, <2>3
<1>2. PICK reference \in Nat :
        \/ update_references(v, id, t.fee, Now) = v
        \/ update_references(v, id, t.fee, Now) =
             [v EXCEPT !.index_reference = id, !.volatility_reference = reference]
  BY <1>1 DEF update_references
<1> QED
  BY <1>2 DEF References

\* A fee rate is capped.
LEMMA BinRateIs ==
    ASSUME NEW t \in Terms, t.dex = "MeteoraDLMM", NEW v \in References
    PROVE  get_total_fee(v, t.fee) \in 0..MaxFeeRate
<1>1. PICK a \in Nat, c \in Nat, b \in Nat, base \in Nat, most \in Nat :
        /\ a = v.volatility_accumulator /\ c = t.fee.variable_fee_control
        /\ b = t.fee.bin_step /\ base = get_base_fee(t.fee) /\ most = MaxFeeRate
  BY BinPoolAssumption, BinAssumption, FeeAssumption DEF References
<1>2. PICK f \in Nat : f = VariableFee(c, a, b)
  BY <1>1, VariableFeeIsNat
<1>5. PICK sum \in Nat : sum = base + f
  BY <1>1, <1>2
<1>3. get_total_fee(v, t.fee) = Min({sum, most})
  BY <1>1, <1>2, <1>5, Zenon DEF get_total_fee
<1>4. Min({sum, most}) \in Nat /\ Min({sum, most}) =< most
  BY LeastOfTwo
<1> QED
  BY <1>1, <1>3, <1>4

LEMMA BinPriceIs ==
    ASSUME NEW t \in Terms, t.dex = "MeteoraDLMM", NEW id \in Int
    PROVE  get_price_from_id(id, t.fee.bin_step) \in Nat
<1>1. PICK step \in Nat, q \in Nat \ {0}, b \in Nat \ {0} :
        step = t.fee.bin_step /\ q = Q64 /\ b = BasisPointMax
  BY BinPoolAssumption, FeeAssumption, WidthAssumption
<1>2. step * q \in Nat
  BY <1>1
<1>3. (step * q) \div b \in Nat
  BY <1>1, <1>2, DivIsNat
<1>4. q + ((step * q) \div b) \in Nat \ {0}
  BY <1>1, <1>3
<1>5. PICK base \in Nat \ {0} : base = q + ((step * q) \div b)
  BY <1>4
<1>6. pow(base, id) \in Nat
  BY PowIsNat
<1> QED
  BY <1>1, <1>5, <1>6, Zenon DEF get_price_from_id

-----------------------------------------------------------------------------
(* The walk over bins *)

\* What a bin takes of an amount, and gives for it.
BinTrade(w, v, bin, t, d) ==
    IF is_empty(bin, d) THEN [is |-> "step", amount_in |-> 0, amount_out |-> 0]
    ELSE swap(bin, w.remaining, get_price_from_id(w.active_id, t.fee.bin_step),
              get_total_fee(v, t.fee), d)

\* A bin takes no more than is left.
LEMMA BinTakesLess ==
    ASSUME NEW t \in Terms, t.dex = "MeteoraDLMM", NEW d \in BOOLEAN, NEW w \in BinWalks,
           NEW v \in References, NEW bin, bin.x \in Nat, bin.y \in Nat,
           get_price_from_id(w.active_id, t.fee.bin_step) # NoPower,
           BinTrade(w, v, bin, t, d).is # "none"
    PROVE  /\ BinTrade(w, v, bin, t, d).amount_in \in 0..w.remaining
           /\ BinTrade(w, v, bin, t, d).amount_out \in Nat
<1>1. PICK step : step = BinTrade(w, v, bin, t, d)
  OBVIOUS
<1>2. CASE is_empty(bin, d)
  <2>1. step.amount_in = 0 /\ step.amount_out = 0
    BY <1>1, <1>2 DEF BinTrade
  <2>2. w.remaining \in Nat
    BY DEF BinWalks
  <2> QED
    BY <1>1, <2>1, <2>2
<1>3. CASE ~is_empty(bin, d)
  <2>1. PICK price \in Nat \ {0} : price = get_price_from_id(w.active_id, t.fee.bin_step)
    <3>1. w.active_id \in Int
      BY BinAssumption DEF BinWalks, BinIds
    <3> QED
      BY <3>1, BinPriceIs DEF NoPower
  <2>2. PICK rate \in 0..MaxFeeRate : rate = get_total_fee(v, t.fee)
    BY BinRateIs
  <2>3. PICK amount \in Nat : amount = w.remaining
    BY DEF BinWalks
  <2>4. step = swap(bin, amount, price, rate, d)
    BY <1>1, <1>3, <2>1, <2>2, <2>3, Zenon DEF BinTrade
  <2>5. step.is = "step"
    <3>1. step.is \in {"none", "step"}
      BY <2>4 DEF swap
    <3> QED
      BY <1>1, <3>1
  <2>6. step.amount_in \in 0..amount /\ step.amount_out \in 0..get_max_amount_out(bin, d)
    BY <2>4, <2>5, BinTradesAtItsPrice
  <2>7. get_max_amount_out(bin, d) \in Nat
    BY DEF get_max_amount_out
  <2>8. step.amount_out \in Nat
    BY <2>6, <2>7
  <2> QED
    BY <1>1, <2>3, <2>6, <2>8
<1> QED
  BY <1>2, <1>3

\* A bin the walk goes through: what it trades, and where the walk is then.
LEMMA ThroughBinIs ==
    ASSUME NEW t \in Terms, t.dex = "MeteoraDLMM", NEW d \in BOOLEAN, NEW w \in BinWalks,
           w.array \in BinArrays, w.active_id \in BinsOf(w.array.index),
           ThroughBin(w, t.fee, d).is # "none"
    PROVE  LET v == Volatility(w.variables, w.active_id, t.fee)
               trade == BinTrade(w, v, w.array.bins[w.active_id], t, d)
               then == ThroughBin(w, t.fee, d)
           IN  /\ v \in References
               /\ trade.amount_in \in 0..w.remaining /\ trade.amount_out \in Nat
               /\ then \in BinWalks
               /\ then.remaining = w.remaining - trade.amount_in
               /\ then.calculated = w.calculated + trade.amount_out
               /\ then.variables = v /\ then.array = w.array /\ then.queue = w.queue
               /\ then.remaining # 0 => then.active_id = After(w.active_id, d)
<1>1. PICK id \in Int : id = w.active_id /\ id \in BinIds
  BY BinAssumption DEF BinWalks, BinIds
<1>2. PICK v \in References : v = Volatility(w.variables, id, t.fee)
  <2>1. w.variables \in References
    BY DEF BinWalks
  <2> QED
    BY <2>1, VolatilityIs
<1>3. PICK bin : bin = w.array.bins[id] /\ bin.x \in Nat /\ bin.y \in Nat
  BY <1>1, BinsHold
<1>4. PICK trade : trade = BinTrade(w, v, bin, t, d)
  OBVIOUS
<1>5. PICK left, out, go : left = w.remaining - trade.amount_in
                           /\ out = w.calculated + trade.amount_out /\ go = After(id, d)
  OBVIOUS
<1>6. PICK then : then = ThroughBin(w, t.fee, d)
  OBVIOUS
<1>7. then = IF \/ get_price_from_id(id, t.fee.bin_step) = NoPower \/ trade.is = "none"
                \/ ~Fits(out)
                \/ left > 0 /\ go \notin (-MaxBin)..MaxBin
             THEN [is |-> "none"]
             ELSE [w EXCEPT !.remaining = left, !.calculated = out,
                            !.variables = v, !.active_id = IF left > 0 THEN go ELSE @]
  BY <1>1, <1>2, <1>3, <1>4, <1>5, <1>6, Zenon DEF ThroughBin, BinTrade, After
<1>8. /\ get_price_from_id(id, t.fee.bin_step) # NoPower /\ trade.is # "none" /\ Fits(out)
      /\ left > 0 => go \in (-MaxBin)..MaxBin
      /\ then = [w EXCEPT !.remaining = left, !.calculated = out,
                          !.variables = v, !.active_id = IF left > 0 THEN go ELSE @]
  <2>1. then.is # "none"
    BY <1>6
  <2>2. [is |-> "none"].is = "none"
    OBVIOUS
  <2>3. ~(\/ get_price_from_id(id, t.fee.bin_step) = NoPower \/ trade.is = "none"
          \/ ~Fits(out)
          \/ left > 0 /\ go \notin (-MaxBin)..MaxBin)
    BY <1>7, <2>1, <2>2, Zenon
  <2> QED
    BY <1>7, <2>3, Zenon
<1>9. trade.amount_in \in 0..w.remaining /\ trade.amount_out \in Nat
  BY <1>1, <1>3, <1>4, <1>8, BinTakesLess
<1>10. left \in Nat /\ out \in Amounts /\ w.remaining \in Nat
  <2>1. w.remaining \in Nat /\ w.calculated \in Nat
    BY DEF BinWalks, Amounts
  <2> QED
    BY <1>5, <1>8, <1>9, <2>1 DEF Amounts
<1>11. PICK on : on = IF left > 0 THEN go ELSE id
  OBVIOUS
<1>12. then = [w EXCEPT !.remaining = left, !.calculated = out, !.variables = v, !.active_id = on]
  BY <1>1, <1>8, <1>11
<1>13. on \in BinIds
  BY <1>1, <1>8, <1>11 DEF BinIds
<1>14. then \in BinWalks
  BY <1>10, <1>12, <1>13 DEF BinWalks
<1>15. /\ then.remaining = left /\ then.calculated = out /\ then.variables = v
       /\ then.array = w.array /\ then.queue = w.queue /\ then.active_id = on
  BY <1>12 DEF BinWalks
<1>16. left # 0 => on = go
  BY <1>10, <1>11
<1> QED
  BY <1>1, <1>2, <1>3, <1>4, <1>5, <1>6, <1>9, <1>14, <1>15, <1>16, Zenon

\* One iteration of the walk.
LEMMA BinLoopKeeps ==
    ASSUME NEW t \in Terms, t.dex = "MeteoraDLMM", NEW d \in BOOLEAN, NEW w \in BinWalks
    PROVE  LET then == BinLoop(w, t.fee, d)
           IN  \/ w.remaining = 0 /\ then.is = "amount"
               \/ then.is = "none"
               \/ then \in BinWalks /\ then.remaining \in 0..w.remaining
<1>1. PICK then : then = BinLoop(w, t.fee, d)
  OBVIOUS
<1>2. CASE w.remaining = 0
  BY <1>2 DEF BinLoop
<1>3. CASE w.remaining # 0 /\ w.array # Missing /\ w.active_id \in BinsOf(w.array.index)
  <2>1. then = ThroughBin(w, t.fee, d)
    BY <1>1, <1>3 DEF BinLoop
  <2>2. w.array \in BinArrays /\ w.remaining \in Nat
    BY <1>3 DEF BinWalks
  <2>3. CASE then.is # "none"
    <3>1. PICK trade : /\ trade.amount_in \in 0..w.remaining /\ then \in BinWalks
                       /\ then.remaining = w.remaining - trade.amount_in
      BY <1>3, <2>1, <2>2, <2>3, ThroughBinIs
    <3>2. then.remaining \in 0..w.remaining
      BY <2>2, <3>1
    <3> QED
      BY <1>1, <3>1, <3>2
  <2> QED
    BY <1>1, <2>3
<1>4. CASE w.remaining # 0 /\ ~(w.array # Missing /\ w.active_id \in BinsOf(w.array.index))
  <2>1. then = IF w.queue = <<>> THEN [is |-> "none"]
               ELSE [w EXCEPT !.array = Head(w.queue), !.queue = Tail(w.queue)]
    BY <1>1, <1>4, Zenon DEF BinLoop
  <2>2. CASE w.queue = <<>>
    BY <1>1, <2>1, <2>2
  <2>3. CASE w.queue # <<>>
    <3>1. PICK q \in Seq(BinArrays) : q = w.queue /\ q # <<>>
      BY <2>3 DEF BinWalks
    <3>2. Head(q) \in BinArrays /\ Tail(q) \in Seq(BinArrays)
      BY <3>1
    <3>3. then = [w EXCEPT !.array = Head(q), !.queue = Tail(q)]
      BY <2>1, <2>3, <3>1
    <3>4. then \in BinWalks /\ then.remaining = w.remaining /\ w.remaining \in Nat
      BY <3>2, <3>3 DEF BinWalks
    <3>5. then.remaining \in 0..w.remaining
      BY <3>4
    <3> QED
      BY <1>1, <3>4, <3>5
  <2> QED
    BY <2>2, <2>3
<1> QED
  BY <1>2, <1>3, <1>4

-----------------------------------------------------------------------------
(* The walk is the swap, bin by bin *)

\* g[m] is what is left, and has come out, after the first m bins, of n.
Trades(t, s, amount, d, n, g) ==
    /\ \A m \in 0..(n - 1) : MayTake(t, s, BinAt(s, m, d), d)
    /\ g[0] = [remaining |-> amount, out |-> 0]
    /\ \A m \in 0..(n - 1) : g[m + 1] = TakeBin(t, s, BinAt(s, m, d), g[m], d)

\* Once nothing is left, no further bin matters.
LEMMA AllTaken ==
    ASSUME NEW t, NEW s \in States["MeteoraDLMM"], NEW d \in BOOLEAN, NEW amount,
           NEW n \in Nat, NEW g, Trades(t, s, amount, d, n, g), g[n].remaining = 0
    PROVE  BinSwapOf(t, s, amount, d) = g[n]
<1> DEFINE K == {k \in 0..(2 * MaxBin) : \A m \in 0..k : MayTake(t, s, BinAt(s, m, d), d)}
           steps == Cardinality(K)
           first == [remaining |-> amount, out |-> 0]
           after[k \in 0..steps] ==
               IF k = 0 THEN [remaining |-> amount, out |-> 0]
               ELSE TakeBin(t, s, BinAt(s, k - 1, d), after[k - 1], d)
<1>1. PICK max \in Nat : max = MaxBin
  BY BinAssumption
<1>2. steps \in Nat /\ n =< steps
  <2>1. 0 \in Int /\ 2 * max \in Int
    BY <1>1
  <2>2. IsFiniteSet(0..(2 * max))
    BY <2>1, FS_Interval
  <2>3. IsFiniteSet(K) /\ steps \in Nat
    <3>1. K \subseteq 0..(2 * max)
      BY <1>1
    <3> QED
      BY <2>2, <3>1, FS_Subset, FS_CardinalityType
  <2>4. 0..(n - 1) \subseteq K
    <3> SUFFICES ASSUME NEW k \in 0..(n - 1)
                 PROVE  k \in 0..(2 * max) /\ \A m \in 0..k : MayTake(t, s, BinAt(s, m, d), d)
      BY <1>1
    <3>1. \A m \in 0..k : m \in 0..(n - 1)
      OBVIOUS
    <3>2. \A m \in 0..k : MayTake(t, s, BinAt(s, m, d), d)
      BY <3>1 DEF Trades
    <3>3. MayTake(t, s, BinAt(s, k, d), d)
      BY <3>2
    <3>4. BinAt(s, k, d) \in (-max)..max /\ s.active \in (-max)..max
      BY <1>1, <3>3, BinPoolAssumption DEF MayTake
    <3>5. k \in 0..(2 * max)
      BY <3>4 DEF BinAt
    <3> QED
      BY <3>2, <3>5
  <2>5. Cardinality(0..(n - 1)) = n
    <3>1. 0 \in Int /\ n - 1 \in Int
      OBVIOUS
    <3>2. Cardinality(0..(n - 1)) = IF 0 > n - 1 THEN 0 ELSE n - 1 - 0 + 1
      BY <3>1, FS_Interval
    <3> QED
      BY <3>2
  <2>6. Cardinality(0..(n - 1)) =< Cardinality(K)
    BY <2>3, <2>4, FS_Subset
  <2> QED
    BY <2>3, <2>5, <2>6
<1> HIDE DEF K
<1>3. PICK G : G = [k \in 0..steps |-> IF k =< n THEN g[k] ELSE g[n]]
  OBVIOUS
<1>4. ASSUME NEW k \in 0..steps
      PROVE  G[k] = IF k = 0 THEN first ELSE TakeBin(t, s, BinAt(s, k - 1, d), G[k - 1], d)
  <2>1. CASE k = 0
    <3>1. k =< n
      BY <2>1
    <3>2. G[k] = g[0]
      BY <1>2, <1>3, <2>1, <3>1
    <3> QED
      BY <2>1, <3>2 DEF Trades
  <2>2. CASE k # 0 /\ k =< n
    <3>1. PICK m \in 0..(n - 1) : k = m + 1 /\ k - 1 = m /\ m \in 0..steps /\ m =< n
      <4>1. k - 1 \in 0..(n - 1) /\ k = (k - 1) + 1 /\ k - 1 \in 0..steps /\ k - 1 =< n
        BY <1>2, <2>2
      <4> QED
        BY <4>1
    <3>2. G[k] = g[k] /\ G[m] = g[m]
      BY <1>3, <2>2, <3>1
    <3>3. g[m + 1] = TakeBin(t, s, BinAt(s, m, d), g[m], d)
      BY DEF Trades
    <3> QED
      BY <2>2, <3>1, <3>2, <3>3
  <2>3. CASE k # 0 /\ ~(k =< n)
    <3>1. PICK m \in 0..steps : k - 1 = m /\ n =< m
      <4>1. k - 1 \in 0..steps /\ n =< k - 1
        BY <1>2, <2>3
      <4> QED
        BY <4>1
    <3>2. G[k] = g[n] /\ G[m] = g[n]
      <4>1. m =< n => m = n
        BY <1>2, <3>1
      <4> QED
        BY <1>3, <2>3, <3>1, <4>1
    <3>3. TakeBin(t, s, BinAt(s, m, d), g[n], d) = g[n]
      BY DEF TakeBin
    <3> QED
      BY <2>3, <3>1, <3>2, <3>3
  <2> QED
    BY <2>1, <2>2, <2>3
<1>5. \E e : e = [k \in 0..steps |-> IF k = 0 THEN first
                                     ELSE TakeBin(t, s, BinAt(s, k - 1, d), e[k - 1], d)]
  <2>1. PICK e : e = [k \in 0..steps |-> IF k = 0 THEN first
                                         ELSE TakeBin(t, s, BinAt(s, k - 1, d), G[k - 1], d)]
    OBVIOUS
  <2>2. G = e
    <3>1. \A k \in 0..steps : G[k] = e[k]
      BY <1>4, <2>1
    <3>2. G = [k \in 0..steps |-> G[k]] /\ e = [k \in 0..steps |-> e[k]]
      BY <1>3, <2>1
    <3> QED
      BY <3>1, <3>2
  <2> QED
    BY <2>1, <2>2
<1>6. after = [k \in 0..steps |-> IF k = 0 THEN first
                                  ELSE TakeBin(t, s, BinAt(s, k - 1, d), after[k - 1], d)]
  BY <1>5, Zenon
<1>7. PICK f : f = after
  OBVIOUS
<1>8. \A k \in 0..steps : f[k] = IF k = 0 THEN first
                                 ELSE TakeBin(t, s, BinAt(s, k - 1, d), f[k - 1], d)
  BY <1>6, <1>7
<1>9. BinSwapOf(t, s, amount, d) = f[steps]
  BY <1>7, Zenon DEF BinSwapOf, K
<1> HIDE DEF after, steps, first
<1>10. \A k \in 0..steps : f[k] = G[k]
  <2> DEFINE Bad == {k \in 0..steps : f[k] # G[k]}
  <2> SUFFICES ASSUME Bad # {} PROVE FALSE
    OBVIOUS
  <2>1. Bad \subseteq Nat
    BY <1>2
  <2>2. PICK k \in Bad : \A m \in Bad : k =< m
    <3> HIDE DEF Bad
    <3> QED
      BY <2>1, LeastNat
  <2>3. k \in 0..steps /\ f[k] # G[k]
    BY <2>2
  <2>4. k # 0
    BY <1>4, <1>8, <2>3
  <2>5. PICK m \in 0..steps : m = k - 1 /\ m < k
    <3>1. k - 1 \in 0..steps /\ k - 1 < k
      BY <1>2, <2>3, <2>4
    <3> QED
      BY <3>1
  <2>6. m \notin Bad
    BY <1>2, <2>2, <2>3, <2>5
  <2>7. f[m] = G[m]
    BY <2>6
  <2> QED
    BY <1>4, <1>8, <2>3, <2>4, <2>5, <2>7
<1>11. G[steps] = g[n]
  <2>1. steps \in 0..steps /\ (steps =< n => steps = n)
    BY <1>2
  <2> QED
    BY <1>3, <2>1
<1>12. f[steps] = G[steps]
  BY <1>2, <1>10
<1> QED
  BY <1>9, <1>11, <1>12

\* The walk is over the pool s: it has gone through bins s has, one by one.
UsableArrays(s, d) == {BinArray(s, i) : i \in Usable("MeteoraDLMM", s, d)}
ReferencesOf(t, s) == update_references(s.variables, s.active, t.fee, Now)
WalkOver(w, t, s, amount, d) ==
    /\ \E n \in Nat : \E g :
          /\ Trades(t, s, Received(t, amount, d), d, n, g)
          /\ g[n] = [remaining |-> w.remaining, out |-> w.calculated]
          /\ w.remaining # 0 => w.active_id = BinAt(s, n, d)
    /\ w.variables.index_reference = ReferencesOf(t, s).index_reference
    /\ w.variables.volatility_reference = ReferencesOf(t, s).volatility_reference
    /\ w.array \in UsableArrays(s, d) \cup {Missing}
    /\ w.queue \in Seq(UsableArrays(s, d))

\* Then it has taken what the swap of the pool takes.
LEMMA WalkOverTakes ==
    ASSUME NEW t, t.dex = "MeteoraDLMM", NEW s \in States["MeteoraDLMM"], NEW d \in BOOLEAN,
           NEW amount, NEW w, WalkOver(w, t, s, amount, d), w.remaining = 0,
           validate_swap_activation(t.fee, Now, Slot)
    PROVE  BinLoop(w, t.fee, d).amount_out \in Takes(t, s, amount, d)
<1>1. PICK n, g : /\ n \in Nat
                  /\ Trades(t, s, Received(t, amount, d), d, n, g)
                  /\ g[n] = [remaining |-> w.remaining, out |-> w.calculated]
  BY DEF WalkOver
<1>2. PICK swapped : swapped = BinSwapOf(t, s, Received(t, amount, d), d)
  OBVIOUS
<1>3. swapped = g[n]
  <2>1. PICK received : received = Received(t, amount, d)
    OBVIOUS
  <2>2. g[n].remaining = 0
    BY <1>1
  <2> QED
    BY <1>1, <1>2, <2>1, <2>2, AllTaken
<1>4. swapped.remaining = 0 /\ swapped.out = w.calculated
  BY <1>1, <1>3
<1>5. BinLoop(w, t.fee, d).amount_out = Sent(t, swapped.out, d)
  BY <1>4 DEF BinLoop, Sent
<1>6. BinsTake(t, s, amount, d) = {Sent(t, swapped.out, d)}
  BY <1>2, <1>4 DEF BinsTake
<1>7. Takes(t, s, amount, d) = BinsTake(t, s, amount, d)
  BY DEF Takes, HasTicks
<1> QED
  BY <1>5, <1>6, <1>7

\* A bin is charged by its distance from where the volatility is measured from,
\* whatever the bins before it were.
LEMMA SameRate ==
    ASSUME NEW t, NEW v \in References, NEW r \in References, NEW id,
           v.index_reference = r.index_reference, v.volatility_reference = r.volatility_reference
    PROVE  get_total_fee(Volatility(v, id, t.fee), t.fee) = get_total_fee(Volatility(r, id, t.fee), t.fee)
<1>1. PICK m : m = Min({v.volatility_reference + (AbsOf(v.index_reference - id) * BasisPointMax),
                        t.fee.max_volatility_accumulator})
  OBVIOUS
<1>2. /\ Volatility(v, id, t.fee) = [v EXCEPT !.volatility_accumulator = m]
      /\ Volatility(r, id, t.fee) = [r EXCEPT !.volatility_accumulator = m]
  BY <1>1, Zenon DEF Volatility
<1>3. /\ Volatility(v, id, t.fee).volatility_accumulator = m
      /\ Volatility(r, id, t.fee).volatility_accumulator = m
  BY <1>2 DEF References
<1> QED
  BY <1>3, Zenon DEF get_total_fee

\* One iteration of the walk goes on over the same pool.
LEMMA WalkGoesOn ==
    ASSUME NEW t \in Terms, t.dex = "MeteoraDLMM", NEW s \in States["MeteoraDLMM"],
           NEW d \in BOOLEAN, NEW amount, NEW w \in BinWalks, WalkOver(w, t, s, amount, d),
           BinLoop(w, t.fee, d) \in BinWalks
    PROVE  WalkOver(BinLoop(w, t.fee, d), t, s, amount, d)
<1>1. PICK then : then = BinLoop(w, t.fee, d)
  OBVIOUS
<1>2. then.is = "walking"
  BY <1>1 DEF BinWalks
<1>3. w.remaining # 0
  <2>1. w.remaining = 0 => then.is = "amount"
    BY <1>1 DEF BinLoop
  <2> QED
    BY <1>2, <2>1
<1>4. PICK n, g : /\ n \in Nat
                  /\ Trades(t, s, Received(t, amount, d), d, n, g)
                  /\ g[n] = [remaining |-> w.remaining, out |-> w.calculated]
                  /\ w.active_id = BinAt(s, n, d)
  BY <1>3 DEF WalkOver
<1>5. CASE w.array # Missing /\ w.active_id \in BinsOf(w.array.index)
  <2>1. then = ThroughBin(w, t.fee, d)
    BY <1>1, <1>3, <1>5 DEF BinLoop
  <2>2. w.array \in BinArrays
    BY <1>5 DEF BinWalks
  <2>3. PICK id \in Int : id = w.active_id /\ id \in (-MaxBin)..MaxBin
    BY BinAssumption DEF BinWalks, BinIds
  <2>4. PICK i \in Usable("MeteoraDLMM", s, d) : w.array = BinArray(s, i)
    BY <1>5 DEF WalkOver, UsableArrays
  <2>5. PICK v, bin, trade :
          /\ v = Volatility(w.variables, id, t.fee) /\ bin = w.array.bins[id]
          /\ trade = BinTrade(w, v, bin, t, d)
    OBVIOUS
  <2>6. /\ v \in References
        /\ trade.amount_in \in 0..w.remaining /\ trade.amount_out \in Nat
        /\ then.remaining = w.remaining - trade.amount_in
        /\ then.calculated = w.calculated + trade.amount_out
        /\ then.variables = v /\ then.array = w.array /\ then.queue = w.queue
        /\ then.remaining # 0 => then.active_id = After(id, d)
    BY <1>2, <1>5, <2>1, <2>2, <2>3, <2>5, ThroughBinIs
  <2>7. w.array.index = i /\ id \in BinsOf(i) /\ i \in Int
    <3>1. w.array.index = i
      BY <2>4 DEF BinArray
    <3>2. Usable("MeteoraDLMM", s, d) \subseteq Arrays("MeteoraDLMM", s)
      BY DEF Usable
    <3>3. PICK top \in Nat : top = Top
      BY TopIs
    <3>4. i \in ArrayIndices
      BY <3>2, BinArraysAre
    <3>5. i \in Int
      BY <3>3, <3>4, IndicesAre
    <3> QED
      BY <1>5, <2>3, <3>1, <3>5
  <2>8. MayTake(t, s, id, d)
    <3>1. bin_id_to_bin_array_index(id) = i
      <4>1. PICK c \in Nat \ {0} : c = BinsPerArray
        BY BinAssumption
      <4>2. i * c =< id /\ id < (i + 1) * c
        <5>1. (i + 1) * c = i * c + c /\ i * c \in Int
          BY <2>7, Ordered
        <5> QED
          BY <2>7, <4>1, <5>1 DEF BinsOf
      <4>3. id \div c = i
        BY <2>7, <4>2, Quotient
      <4> QED
        BY <4>1, <4>3 DEF bin_id_to_bin_array_index
    <3> QED
      BY <2>3, <3>1 DEF MayTake
  <2>9. w.remaining \in Nat /\ w.calculated \in Nat /\ w.variables \in References
    BY DEF BinWalks, Amounts
  <2>10. PICK before, after, references, price :
           /\ before = g[n] /\ after = TakeBin(t, s, id, before, d)
           /\ references = ReferencesOf(t, s)
           /\ price = get_price_from_id(id, t.fee.bin_step)
    OBVIOUS
  <2>11. before.remaining = w.remaining /\ before.out = w.calculated
    BY <1>4, <2>10
  <2>12. after = [remaining |-> then.remaining, out |-> then.calculated]
    <3>1. bin = IF id \in DOMAIN s.bins THEN s.bins[id] ELSE [x |-> 0, y |-> 0]
      BY <2>4, <2>5, <2>7 DEF BinArray
    <3>2. CASE is_empty(bin, d)
      <4>1. trade.amount_in = 0 /\ trade.amount_out = 0
        BY <2>5, <3>2 DEF BinTrade
      <4>2. then.remaining = w.remaining /\ then.calculated = w.calculated
        BY <2>6, <2>9, <4>1
      <4>3. after = before
        BY <2>10, <3>1, <3>2 DEF TakeBin
      <4> QED
        BY <1>4, <2>10, <4>2, <4>3
    <3>3. CASE ~is_empty(bin, d)
      <4>1. id \in DOMAIN s.bins /\ bin = s.bins[id]
        <5>1. is_empty([x |-> 0, y |-> 0], d)
          BY DEF is_empty
        <5> QED
          BY <3>1, <3>3, <5>1
      <4>2. PICK rate : /\ rate = get_total_fee(v, t.fee)
                        /\ rate = get_total_fee(Volatility(references, id, t.fee), t.fee)
        <5>1. references \in References
          <6>1. s.variables \in References /\ s.active \in Int
            BY BinPoolAssumption, BinAssumption DEF References
          <6> QED
            BY <2>10, <6>1, BinReferencesAre DEF ReferencesOf
        <5>2. /\ w.variables.index_reference = references.index_reference
              /\ w.variables.volatility_reference = references.volatility_reference
          BY <2>10 DEF WalkOver
        <5> QED
          BY <2>5, <2>9, <5>1, <5>2, SameRate
      <4>3. trade = swap(bin, w.remaining, price, rate, d)
        BY <2>3, <2>5, <2>10, <3>3, <4>2, Zenon DEF BinTrade
      <4>4. PICK step : step = swap(s.bins[id], before.remaining, price, rate, d)
        OBVIOUS
      <4>5. step = trade
        BY <2>11, <4>1, <4>3, <4>4
      <4>6. after = IF before.remaining = 0 \/ id \notin DOMAIN s.bins THEN before
                    ELSE IF is_empty(s.bins[id], d) THEN before
                    ELSE [out |-> before.out + step.amount_out,
                          remaining |-> before.remaining - step.amount_in]
        BY <2>10, <4>2, <4>4, Zenon DEF TakeBin, ReferencesOf
      <4>7. after = [out |-> before.out + step.amount_out,
                     remaining |-> before.remaining - step.amount_in]
        BY <1>3, <2>11, <3>3, <4>1, <4>6
      <4> QED
        BY <2>6, <2>11, <4>5, <4>7
    <3> QED
      BY <3>2, <3>3
  <2>13. PICK h : h = [m \in 0..(n + 1) |-> IF m =< n THEN g[m] ELSE after]
    OBVIOUS
  <2>14. n + 1 \in Nat /\ n + 1 - 1 = n /\ (\A m \in 0..n : h[m] = g[m]) /\ h[n + 1] = after
    <3>1. \A m \in 0..n : m \in 0..(n + 1) /\ m =< n
      BY <1>4
    <3>2. n + 1 \in 0..(n + 1) /\ ~(n + 1 =< n) /\ n + 1 \in Nat /\ n + 1 - 1 = n
      BY <1>4
    <3> QED
      BY <2>13, <3>1, <3>2
  <2>15. Trades(t, s, Received(t, amount, d), d, n + 1, h)
    <3>1. h[0] = [remaining |-> Received(t, amount, d), out |-> 0]
      <4>1. 0 \in 0..n
        BY <1>4
      <4> QED
        BY <1>4, <2>14, <4>1 DEF Trades
    <3>2. ASSUME NEW m \in 0..n
          PROVE  /\ MayTake(t, s, BinAt(s, m, d), d)
                 /\ h[m + 1] = TakeBin(t, s, BinAt(s, m, d), h[m], d)
      <4>1. CASE m = n
        <5>1. BinAt(s, m, d) = id /\ h[m] = before /\ h[m + 1] = after
          BY <1>4, <2>3, <2>10, <2>14, <4>1
        <5> QED
          BY <2>8, <2>10, <5>1
      <4>2. CASE m # n
        <5>1. m \in 0..(n - 1) /\ m + 1 \in 0..n
          BY <1>4, <4>2
        <5>2. MayTake(t, s, BinAt(s, m, d), d) /\ g[m + 1] = TakeBin(t, s, BinAt(s, m, d), g[m], d)
          BY <1>4, <5>1 DEF Trades
        <5> QED
          BY <2>14, <5>1, <5>2
      <4> QED
        BY <4>1, <4>2
    <3>3. PICK k \in Nat : k = n + 1 /\ k - 1 = n
      BY <1>4
    <3>5. PICK received : received = Received(t, amount, d)
      OBVIOUS
    <3>4. Trades(t, s, received, d, k, h)
      BY <3>1, <3>2, <3>3, <3>5 DEF Trades
    <3> QED
      BY <3>3, <3>4, <3>5
  <2>16. then.remaining # 0 => then.active_id = BinAt(s, n + 1, d)
    <3>1. After(id, d) = BinAt(s, n + 1, d)
      <4>1. s.active \in Int
        BY BinPoolAssumption, BinAssumption
      <4>2. id = BinAt(s, n, d)
        BY <1>4, <2>3
      <4> QED
        BY <1>4, <4>1, <4>2 DEF After, BinAt
    <3> QED
      BY <2>6, <3>1
  <2>17. /\ then.variables.index_reference = ReferencesOf(t, s).index_reference
         /\ then.variables.volatility_reference = ReferencesOf(t, s).volatility_reference
    <3>1. /\ v.index_reference = w.variables.index_reference
          /\ v.volatility_reference = w.variables.volatility_reference
      BY <2>5, <2>9, VolatilityIs
    <3> QED
      BY <2>6, <3>1 DEF WalkOver
  <2>18. then.array \in UsableArrays(s, d) \cup {Missing} /\ then.queue \in Seq(UsableArrays(s, d))
    BY <2>6 DEF WalkOver
  <2>19. h[n + 1] = [remaining |-> then.remaining, out |-> then.calculated]
    BY <2>12, <2>14
  <2>20. \E k \in Nat : \E e :
           /\ Trades(t, s, Received(t, amount, d), d, k, e)
           /\ e[k] = [remaining |-> then.remaining, out |-> then.calculated]
           /\ then.remaining # 0 => then.active_id = BinAt(s, k, d)
    BY <2>14, <2>15, <2>16, <2>19
  <2> QED
    BY <1>1, <2>17, <2>18, <2>20 DEF WalkOver
<1>6. CASE ~(w.array # Missing /\ w.active_id \in BinsOf(w.array.index))
  <2>1. then = IF w.queue = <<>> THEN [is |-> "none"]
               ELSE [w EXCEPT !.array = Head(w.queue), !.queue = Tail(w.queue)]
    BY <1>1, <1>3, <1>6, Zenon DEF BinLoop
  <2>2. w.queue # <<>>
    BY <1>2, <2>1
  <2>3. PICK q \in Seq(UsableArrays(s, d)) : q = w.queue /\ q # <<>>
    BY <2>2 DEF WalkOver
  <2>4. Head(q) \in UsableArrays(s, d) /\ Tail(q) \in Seq(UsableArrays(s, d))
    BY <2>3
  <2>5. then = [w EXCEPT !.array = Head(q), !.queue = Tail(q)]
    BY <2>1, <2>2, <2>3
  <2>6. /\ then.remaining = w.remaining /\ then.calculated = w.calculated
        /\ then.active_id = w.active_id /\ then.variables = w.variables
        /\ then.array = Head(q) /\ then.queue = Tail(q)
    BY <2>5 DEF BinWalks
  <2> QED
    BY <1>1, <2>4, <2>6 DEF WalkOver
<1> QED
  BY <1>5, <1>6

-----------------------------------------------------------------------------
(* Reads of the pools that have bitmaps *)

\* What the cache and the quote hold of a pool: accounts of states it may be in,
\* each perhaps of another one.
CacheOf(pools, extensions, keys, arrays) ==
    /\ {"pool", "extension", "oracle", "arrays"} \subseteq DOMAIN cache
    /\ cache.pool \in pools
    /\ cache.extension \in extensions
    /\ DOMAIN cache.arrays = keys
    /\ \A i \in keys : cache.arrays[i] \in arrays \cup {Missing}

HeldOf(pools, extensions, arrays) ==
    /\ {"pool", "extension", "keys", "arrays"} \subseteq DOMAIN held
    /\ held.arrays \in Seq(arrays \cup {Missing})
    /\ Len(held.keys) \in 0..3
    /\ next \in {"pool", "extension"} => held.arrays = <<>> /\ held.keys = <<>>
    /\ next # "pool" => held.pool \in pools
    /\ next \notin {"pool", "extension"} =>
         held.extension \in extensions /\ held.keys = KeysOf(held, 2).keys
    /\ Len(held.arrays) =< Len(held.keys)
    /\ next = "arrays" => Len(held.arrays) < Len(held.keys)
    /\ next = "begin" => Len(held.arrays) = Len(held.keys)

\* These are the accounts a program keeps.
AccountsAre(dex, pools, extensions, keys, arrays) ==
    /\ HasBitmaps(dex) /\ ArrayKeys(dex) = keys
    /\ \A s \in States[dex] :
         LET fresh == Accounts(dex, s)
         IN  /\ DOMAIN fresh = {"pool", "extension", "oracle", "arrays"}
             /\ fresh.pool \in pools /\ fresh.extension \in extensions
             /\ ExtensionAccount(dex, s) \in extensions
             /\ DOMAIN fresh.arrays = keys
             /\ \A i \in keys : /\ fresh.arrays[i] \in arrays \cup {Missing}
                                /\ ArrayAccount(dex, s, i) \in arrays

LEMMA CacheOfKept ==
    ASSUME NEW pools, NEW extensions, NEW keys, NEW arrays
    PROVE  CacheOf(pools, extensions, keys, arrays) /\ UNCHANGED cache
             => CacheOf(pools, extensions, keys, arrays)'
  BY DEF CacheOf

LEMMA CacheOfUpdate ==
    ASSUME NEW dex, NEW pools, NEW extensions, NEW keys, NEW arrays,
           AccountsAre(dex, pools, extensions, keys, arrays),
           CacheOf(pools, extensions, keys, arrays), terms.dex = dex,
           chain \in States[dex], Update
    PROVE  CacheOf(pools, extensions, keys, arrays)'
<1> DEFINE fresh == Accounts(dex, chain)
<1>1. /\ fresh.pool \in pools /\ ExtensionAccount(dex, chain) \in extensions
      /\ \A i \in keys : ArrayAccount(dex, chain, i) \in arrays
  BY DEF AccountsAre
<1>2. \/ cache' = [cache EXCEPT !.pool = fresh.pool]
      \/ cache' = [cache EXCEPT !.extension = ExtensionAccount(dex, chain)]
      \/ cache' = [cache EXCEPT !.oracle = fresh.oracle]
      \/ \E i \in keys : cache' = [cache EXCEPT !.arrays[i] = ArrayAccount(dex, chain, i)]
  BY DEF Update, AccountsAre
<1> HIDE DEF fresh
<1>3. CASE cache' = [cache EXCEPT !.pool = fresh.pool]
  BY <1>1, <1>3 DEF CacheOf
<1>4. CASE cache' = [cache EXCEPT !.extension = ExtensionAccount(dex, chain)]
  BY <1>1, <1>4 DEF CacheOf
<1>5. CASE cache' = [cache EXCEPT !.oracle = fresh.oracle]
  BY <1>5 DEF CacheOf
<1>6. CASE \E i \in keys : cache' = [cache EXCEPT !.arrays[i] = ArrayAccount(dex, chain, i)]
  <2>1. PICK i \in keys, array \in arrays : cache' = [cache EXCEPT !.arrays[i] = array]
    BY <1>1, <1>6
  <2>2. /\ DOMAIN cache' = DOMAIN cache
        /\ cache'.pool = cache.pool /\ cache'.extension = cache.extension
        /\ cache'.arrays = [cache.arrays EXCEPT ![i] = array]
    BY <2>1 DEF CacheOf
  <2> QED
    BY <2>2 DEF CacheOf
<1> QED
  BY <1>2, <1>3, <1>4, <1>5, <1>6

LEMMA HeldOfInit ==
    ASSUME NEW pools, NEW extensions, NEW arrays, Init
    PROVE  HeldOf(pools, extensions, arrays)
<1>1. /\ DOMAIN held = {"pool", "extension", "oracle", "keys", "arrays"}
      /\ held.arrays = <<>> /\ held.keys = <<>> /\ next = "pool"
  BY DEF Init, Unread
<1>2. <<>> \in Seq(arrays \cup {Missing}) /\ Len(<<>>) = 0
  OBVIOUS
<1>3. Len(held.arrays) = 0 /\ Len(held.keys) = 0
  BY <1>1, <1>2
<1> QED
  BY <1>1, <1>2, <1>3 DEF HeldOf

\* Nothing that reads or begins nothing changes what was read.
LEMMA HeldOfKept ==
    ASSUME NEW pools, NEW extensions, NEW arrays,
           HeldOf(pools, extensions, arrays), UNCHANGED <<terms, down, held>>,
           \/ UNCHANGED next
           \/ next' \notin {"pool", "extension", "arrays", "begin"} /\ next \notin {"pool", "extension"}
    PROVE  HeldOf(pools, extensions, arrays)'
<1>1. KeysOf(held, 2)' = KeysOf(held, 2)
  BY DEF KeysOf, TickArrayKeys
<1> QED
  BY <1>1 DEF HeldOf

LEMMA HeldOfPool ==
    ASSUME NEW pools, NEW extensions, NEW keys, NEW arrays,
           CacheOf(pools, extensions, keys, arrays), HeldOf(pools, extensions, arrays),
           HasBitmaps(terms.dex), ReadPool
    PROVE  HeldOf(pools, extensions, arrays)' /\ next' = "extension" /\ UNCHANGED walk
<1>1. /\ next = "pool" /\ UNCHANGED <<terms, down, walk>>
      /\ held' = [held EXCEPT !.pool = cache.pool, !.keys = KeysOfPool(cache.pool)]
      /\ next' = "extension"
  BY DEF ReadPool, pvars
<1>2. KeysOfPool(cache.pool) = <<>>
  BY DEF KeysOfPool, HasBitmaps
<1>3. /\ DOMAIN held' = DOMAIN held /\ held'.pool = cache.pool /\ held'.keys = <<>>
      /\ held'.arrays = <<>> /\ held.arrays = <<>> /\ held.keys = <<>>
  BY <1>1, <1>2 DEF HeldOf
<1>4. Len(held'.arrays) = 0 /\ Len(held'.keys) = 0
  BY <1>3
<1> QED
  BY <1>1, <1>3, <1>4 DEF HeldOf, CacheOf

LEMMA HeldOfExtension ==
    ASSUME NEW pools, NEW extensions, NEW keys, NEW arrays,
           CacheOf(pools, extensions, keys, arrays), HeldOf(pools, extensions, arrays),
           ReadExtension,
           ASSUME NEW h, h.pool \in pools, h.extension \in extensions
           PROVE  /\ Len(KeysOf(h, 2).keys) \in 0..3
                  /\ Len(KeysOf(h, 2).keys) = 0 <=> KeysOf(h, 2).keys = <<>>
    PROVE  /\ HeldOf(pools, extensions, arrays)'
           /\ \E found : /\ walk' = [is |-> found.is]
                         /\ \E h : found = KeysOf(h, 2) /\ h.pool \in pools /\ h.extension \in extensions
                         /\ next' = IF found.is # "reading" THEN "none"
                                    ELSE IF found.keys # <<>> THEN "arrays" ELSE "begin"
<1>1. PICK read, found :
        /\ read = [held EXCEPT !.extension = cache.extension] /\ found = KeysOf(read, 2)
        /\ held' = [read EXCEPT !.keys = found.keys]
        /\ walk' = [is |-> found.is]
        /\ next = "extension"
        /\ next' = IF found.is # "reading" THEN "none"
                   ELSE IF found.keys # <<>> THEN "arrays" ELSE "begin"
        /\ UNCHANGED <<terms, down, amount_in>>
  BY DEF ReadExtension, pvars
<1>2. /\ DOMAIN read = DOMAIN held /\ read.pool = held.pool /\ read.extension = cache.extension
      /\ read.arrays = <<>> /\ held.arrays = <<>>
  BY <1>1 DEF HeldOf
<1>3. PICK h : h = held'
  OBVIOUS
<1>4. /\ DOMAIN h = DOMAIN held /\ h.pool = held.pool /\ h.extension = cache.extension
      /\ h.arrays = <<>> /\ h.keys = found.keys
  BY <1>1, <1>2, <1>3 DEF HeldOf
<1>5. h.pool \in pools /\ h.extension \in extensions
  BY <1>1, <1>4 DEF HeldOf, CacheOf
<1>6. found = KeysOf(h, 2)
  BY <1>1, <1>2, <1>4, KeysOfThese
<1>7. KeysOf(held, 2)' = KeysOf(h, 2)
  BY <1>1, <1>3 DEF KeysOf, TickArrayKeys
<1>8. Len(h.keys) \in 0..3 /\ (Len(h.keys) = 0 <=> h.keys = <<>>)
  BY <1>4, <1>5, <1>6
<1>9. Len(h.arrays) = 0
  BY <1>4
<1>10. /\ next' \in {"arrays", "begin", "none"}
       /\ next' = "arrays" => Len(h.arrays) < Len(h.keys)
       /\ next' = "begin" => Len(h.arrays) = Len(h.keys)
       /\ Len(h.arrays) =< Len(h.keys)
  BY <1>1, <1>4, <1>8, <1>9
<1>11. HeldOf(pools, extensions, arrays)'
  <2>1. h.arrays \in Seq(arrays \cup {Missing}) /\ h.keys = KeysOf(held, 2)'.keys
    BY <1>4, <1>6, <1>7
  <2>2. {"pool", "extension", "keys", "arrays"} \subseteq DOMAIN h
    BY <1>4 DEF HeldOf
  <2> QED
    BY <1>3, <1>5, <1>8, <1>10, <2>1, <2>2 DEF HeldOf
<1> QED
  BY <1>1, <1>5, <1>6, <1>11

LEMMA HeldOfArray ==
    ASSUME NEW dex, NEW pools, NEW extensions, NEW keys, NEW arrays,
           AccountsAre(dex, pools, extensions, keys, arrays),
           CacheOf(pools, extensions, keys, arrays), HeldOf(pools, extensions, arrays),
           terms.dex = dex, ReadArray
    PROVE  /\ HeldOf(pools, extensions, arrays)' /\ next' \in {"arrays", "begin"}
           /\ next = "arrays" /\ UNCHANGED walk
<1>1. PICK i, found :
        /\ found = IF i \in keys THEN cache.arrays[i] ELSE Missing
        /\ held' = [held EXCEPT !.arrays = Append(@, found)]
        /\ next = "arrays"
        /\ next' = IF Len(held'.arrays) < Len(held.keys) THEN "arrays" ELSE "begin"
        /\ UNCHANGED <<terms, down, amount_in, walk>>
  <2>1. PICK i, found, array :
          /\ found = IF i \in ArrayKeys(terms.dex) THEN cache.arrays[i] ELSE Missing
          /\ array = IF found = Missing /\ terms.dex = "OrcaWhirl"
                     THEN uninitialized_tick_array(i) ELSE found
          /\ held' = [held EXCEPT !.arrays = Append(@, array)]
          /\ next = "arrays"
          /\ next' = IF Len(held'.arrays) < Len(held.keys) THEN "arrays"
                     ELSE IF terms.dex = "OrcaWhirl" /\ terms.fee.adaptive THEN "oracle"
                     ELSE "begin"
          /\ UNCHANGED <<terms, down, amount_in, walk>>
    BY DEF ReadArray, pvars
  <2>2. terms.dex # "OrcaWhirl" /\ ArrayKeys(terms.dex) = keys
    BY DEF AccountsAre, HasBitmaps
  <2>3. array = found
    BY <2>1, <2>2
  <2> QED
    BY <2>1, <2>2, <2>3
<1>2. found \in arrays \cup {Missing}
  BY <1>1 DEF CacheOf
<1>3. PICK h : h = held'
  OBVIOUS
<1>4. /\ DOMAIN h = DOMAIN held /\ h.pool = held.pool /\ h.extension = held.extension
      /\ h.keys = held.keys /\ h.arrays = Append(held.arrays, found)
  BY <1>1, <1>3 DEF HeldOf
<1>5. /\ h.arrays \in Seq(arrays \cup {Missing})
      /\ Len(held.arrays) \in Nat /\ Len(h.arrays) = Len(held.arrays) + 1
  BY <1>2, <1>4 DEF HeldOf
<1>6. KeysOf(held, 2)' = KeysOf(held, 2)
  <2>1. KeysOf(held, 2)' = KeysOf(h, 2)
    BY <1>1, <1>3 DEF KeysOf, TickArrayKeys
  <2> QED
    BY <1>4, <2>1, KeysOfThese
<1>7. /\ next' \in {"arrays", "begin"}
      /\ next' = "arrays" => Len(h.arrays) < Len(h.keys)
      /\ next' = "begin" => Len(h.arrays) = Len(h.keys)
      /\ Len(h.arrays) =< Len(h.keys) /\ Len(h.keys) \in 0..3
  <2>1. Len(held.arrays) < Len(held.keys) /\ Len(held.keys) \in 0..3
    BY <1>1 DEF HeldOf
  <2> QED
    BY <1>1, <1>3, <1>4, <1>5, <2>1
<1>8. /\ h.pool \in pools /\ h.extension \in extensions /\ held.keys = KeysOf(held, 2).keys
      /\ {"pool", "extension", "keys", "arrays"} \subseteq DOMAIN h
  BY <1>1, <1>4 DEF HeldOf
<1>9. HeldOf(pools, extensions, arrays)'
  BY <1>3, <1>4, <1>5, <1>6, <1>7, <1>8 DEF HeldOf
<1> QED
  BY <1>1, <1>7, <1>9

\* Reads that found every array are of arrays only.
LEMMA NoneMissing ==
    ASSUME NEW S, NEW q \in Seq(S \cup {Missing}), Missing \notin ToSet(q)
    PROVE  q \in Seq(S)
<1>1. PICK n \in Nat : n = Len(q) /\ DOMAIN q = 1..n /\ q = [k \in 1..n |-> q[k]]
  OBVIOUS
<1>2. ASSUME NEW k \in 1..n PROVE q[k] \in S
  <2>1. q[k] \in S \cup {Missing} /\ q[k] \in ToSet(q)
    BY <1>1 DEF ToSet
  <2> QED
    BY <2>1
<1>3. PICK e : e = [k \in 1..n |-> q[k]]
  OBVIOUS
<1>4. e \in [1..n -> S]
  BY <1>2, <1>3
<1>5. e \in Seq(S)
  BY <1>1, <1>4
<1> QED
  BY <1>1, <1>3, <1>5

-----------------------------------------------------------------------------
(* Quotes over DLMM pools *)

\* What the cache, the quote and the walk hold of a DLMM pool: accounts of states
\* it may be in, each perhaps of another one.
Extensions == {Missing} \cup {ExtensionAccount("MeteoraDLMM", s) : s \in States["MeteoraDLMM"]}
LbPairs == {PoolAccount("MeteoraDLMM", s) : s \in States["MeteoraDLMM"]}

CacheOfBins == CacheOf(LbPairs, Extensions, ArrayIndices, BinArrays)
HeldOfBins == HeldOf(LbPairs, Extensions, BinArrays)

\* The walk goes over every state that all accounts were read from.
WalkOfBins ==
    /\ next \in {"pool", "extension", "arrays", "begin", "walk", "list", "list arrays",
                 "none", "done"}
    /\ walk.is \in {"reading", "walking", "amount", "none"}
    /\ next = "walk" <=> walk.is = "walking"
    /\ walk.is = "amount" => next \in {"list", "list arrays", "none", "done"}
    /\ walk.is = "walking" =>
         walk \in BinWalks /\ walk.remaining =< amount_in /\ validate_swap_activation(terms.fee, Now, Slot)

WalkOfRead ==
    \A s \in States["MeteoraDLMM"] : ReadFrom(s) =>
        /\ walk.is = "walking" => WalkOver(walk, terms, s, amount_in, down)
        /\ walk.is = "amount" => walk.amount_out \in Takes(terms, s, amount_in, down)

BinInv ==
    terms.dex = "MeteoraDLMM" => CacheOfBins /\ HeldOfBins /\ WalkOfBins /\ WalkOfRead

LEMMA Bins ==
    /\ HasBitmaps("MeteoraDLMM") /\ ArrayKeys("MeteoraDLMM") = ArrayIndices
    /\ \A s, i : ArrayAccount("MeteoraDLMM", s, i) = BinArray(s, i)
  BY DEF HasBitmaps, ArrayKeys, HasTicks, ArrayAccount

LEMMA BinAccounts ==
    AccountsAre("MeteoraDLMM", LbPairs, Extensions, ArrayIndices, BinArrays)
<1>1. ASSUME NEW s \in States["MeteoraDLMM"]
      PROVE  LET fresh == Accounts("MeteoraDLMM", s)
             IN  /\ DOMAIN fresh = {"pool", "extension", "oracle", "arrays"}
                 /\ fresh.pool \in LbPairs /\ fresh.extension \in Extensions
                 /\ ExtensionAccount("MeteoraDLMM", s) \in Extensions
                 /\ DOMAIN fresh.arrays = ArrayIndices
                 /\ \A i \in ArrayIndices : /\ fresh.arrays[i] \in BinArrays \cup {Missing}
                                            /\ ArrayAccount("MeteoraDLMM", s, i) \in BinArrays
  <2>1. PICK arrays : arrays = [i \in ArrayIndices |->
            IF i \in Arrays("MeteoraDLMM", s) THEN ArrayAccount("MeteoraDLMM", s, i) ELSE Missing]
    OBVIOUS
  <2>2. PICK oracle : Accounts("MeteoraDLMM", s) =
            [pool |-> PoolAccount("MeteoraDLMM", s), extension |-> Extension("MeteoraDLMM", s),
             oracle |-> oracle, arrays |-> arrays]
    BY <2>1, Bins DEF Accounts
  <2>3. \A i \in ArrayIndices : ArrayAccount("MeteoraDLMM", s, i) \in BinArrays
    BY Bins DEF BinArrays
  <2>4. ExtensionAccount("MeteoraDLMM", s) \in Extensions
    BY DEF Extensions
  <2>5. Extension("MeteoraDLMM", s) \in Extensions
    BY <2>4 DEF Extension, Extensions
  <2>6. PoolAccount("MeteoraDLMM", s) \in LbPairs
    BY DEF LbPairs
  <2>7. \A i \in ArrayIndices : arrays[i] \in BinArrays \cup {Missing}
    BY <2>1, <2>3
  <2> QED
    BY <2>1, <2>2, <2>3, <2>4, <2>5, <2>6, <2>7
<1> QED
  BY <1>1, Bins DEF AccountsAre

LEMMA HeldOfBinsKept ==
    ASSUME HeldOfBins, UNCHANGED <<terms, down, held>>,
           \/ UNCHANGED next
           \/ next' \notin {"pool", "extension", "arrays", "begin"} /\ next \notin {"pool", "extension"}
    PROVE  HeldOfBins'
  BY HeldOfKept DEF HeldOfBins

LEMMA ReadKept == UNCHANGED <<terms, held>> => \A s : ReadFrom(s)' <=> ReadFrom(s)
  BY DEF ReadFrom, ExtensionOf

LEMMA BinInit == Init => BinInv
<1> SUFFICES ASSUME Init, terms.dex = "MeteoraDLMM"
             PROVE  CacheOfBins /\ HeldOfBins /\ WalkOfBins /\ WalkOfRead
  BY DEF BinInv
<1>1. /\ chain \in States["MeteoraDLMM"] /\ cache = Accounts("MeteoraDLMM", chain)
      /\ next = "pool" /\ held = Unread /\ walk = Idle
  BY DEF Init
<1>2. CacheOfBins
  BY <1>1, BinAccounts DEF CacheOfBins, CacheOf, AccountsAre
<1>3. HeldOfBins
  BY HeldOfInit DEF HeldOfBins
<1>4. WalkOfBins /\ WalkOfRead
  BY <1>1 DEF WalkOfBins, WalkOfRead, Idle
<1> QED
  BY <1>2, <1>3, <1>4

LEMMA BinReadPool ==
    ASSUME CacheOfBins, HeldOfBins, WalkOfBins, terms.dex = "MeteoraDLMM", ReadPool
    PROVE  HeldOfBins' /\ WalkOfBins' /\ WalkOfRead'
<1>1. HeldOfBins' /\ next' = "extension" /\ UNCHANGED <<walk, terms, down, amount_in>>
  BY Bins, HeldOfPool DEF HeldOfBins, CacheOfBins, ReadPool, pvars
<1>2. walk'.is \in {"reading", "none"} /\ walk'.is # "walking"
  <2>1. next = "pool"
    BY DEF ReadPool
  <2> QED
    BY <1>1, <2>1 DEF WalkOfBins
<1>3. WalkOfBins' /\ WalkOfRead'
  BY <1>1, <1>2 DEF WalkOfBins, WalkOfRead
<1> QED
  BY <1>1, <1>3

LEMMA BinReadExtension ==
    ASSUME CacheOfBins, HeldOfBins, WalkOfBins, terms.dex = "MeteoraDLMM", down \in BOOLEAN,
           ReadExtension
    PROVE  HeldOfBins' /\ WalkOfBins' /\ WalkOfRead'
<1>1. ASSUME NEW h, h.pool \in LbPairs, h.extension \in Extensions
      PROVE  /\ Len(KeysOf(h, 2).keys) \in 0..3
             /\ Len(KeysOf(h, 2).keys) = 0 <=> KeysOf(h, 2).keys = <<>>
  <2>1. PICK s \in States["MeteoraDLMM"] : h.pool = PoolAccount("MeteoraDLMM", s)
    BY <1>1 DEF LbPairs
  <2>2. PICK r \in States["MeteoraDLMM"] :
          h.extension \in {Missing, ExtensionAccount("MeteoraDLMM", r)}
    BY <1>1, <2>1 DEF Extensions
  <2> QED
    BY <1>1, <2>1, <2>2, FewBinKeys
<1>2. /\ CacheOf(LbPairs, Extensions, ArrayIndices, BinArrays)
      /\ HeldOf(LbPairs, Extensions, BinArrays)
  BY DEF CacheOfBins, HeldOfBins
<1>3. /\ HeldOf(LbPairs, Extensions, BinArrays)'
      /\ \E found : /\ walk' = [is |-> found.is]
                    /\ \E h : found = KeysOf(h, 2) /\ h.pool \in LbPairs /\ h.extension \in Extensions
                    /\ next' = IF found.is # "reading" THEN "none"
                               ELSE IF found.keys # <<>> THEN "arrays" ELSE "begin"
  BY <1>1, <1>2, HeldOfExtension
<1>4. PICK found, h : /\ walk' = [is |-> found.is] /\ found = KeysOf(h, 2)
                      /\ next' = IF found.is # "reading" THEN "none"
                                 ELSE IF found.keys # <<>> THEN "arrays" ELSE "begin"
  BY <1>3
<1>5. walk'.is = "reading" /\ next' \in {"arrays", "begin"}
  BY <1>4, BinKeysOf
<1>6. WalkOfBins' /\ WalkOfRead'
  BY <1>5 DEF WalkOfBins, WalkOfRead
<1> QED
  BY <1>3, <1>6 DEF HeldOfBins

LEMMA BinReadArray ==
    ASSUME CacheOfBins, HeldOfBins, WalkOfBins, terms.dex = "MeteoraDLMM", ReadArray
    PROVE  HeldOfBins' /\ WalkOfBins' /\ WalkOfRead'
<1>1. /\ HeldOfBins' /\ next' \in {"arrays", "begin"} /\ UNCHANGED walk /\ next = "arrays"
  BY BinAccounts, HeldOfArray DEF HeldOfBins, CacheOfBins
<1>2. walk'.is \in {"reading", "none"} /\ walk'.is # "walking"
  BY <1>1 DEF WalkOfBins
<1>3. WalkOfBins' /\ WalkOfRead'
  BY <1>1, <1>2 DEF WalkOfBins, WalkOfRead
<1> QED
  BY <1>1, <1>3

\* What was read of one state is the arrays a swap of it may use.
LEMMA ReadAreUsable ==
    ASSUME HeldOfBins, terms.dex = "MeteoraDLMM", down \in BOOLEAN, next = "begin",
           NEW s \in States["MeteoraDLMM"], ReadFrom(s), Missing \notin ToSet(held.arrays)
    PROVE  held.arrays \in Seq(UsableArrays(s, down))
<1>1. /\ held.pool = PoolAccount("MeteoraDLMM", s)
      /\ held.extension \in {Extension("MeteoraDLMM", s), ExtensionAccount("MeteoraDLMM", s)}
      /\ \A n \in DOMAIN held.arrays :
           held.arrays[n] = IF held.keys[n] \in Arrays("MeteoraDLMM", s)
                            THEN BinArray(s, held.keys[n]) ELSE Missing
  <2>1. Accounts("MeteoraDLMM", s).pool = PoolAccount("MeteoraDLMM", s)
    BY DEF Accounts
  <2> QED
    BY <2>1, Bins DEF ReadFrom, ExtensionOf
<1>2. ToSet(held.keys) = Usable("MeteoraDLMM", s, down)
  <2>1. held.keys = KeysOf(held, 2).keys
    BY DEF HeldOfBins, HeldOf
  <2> QED
    BY <1>1, <2>1, BinArraysAreUsable
<1>3. DOMAIN held.keys = 1..Len(held.keys)
  <2>1. held.keys = KeysOf(held, 2).keys
    BY DEF HeldOfBins, HeldOf
  <2>2. held.extension \in {Missing, ExtensionAccount("MeteoraDLMM", s)}
    BY <1>1 DEF Extension
  <2> QED
    BY <1>1, <2>1, <2>2, FewBinKeys
<1>4. held.arrays \in Seq(BinArrays \cup {Missing}) /\ Len(held.arrays) = Len(held.keys)
  BY DEF HeldOfBins, HeldOf
<1>5. PICK n \in Nat : n = Len(held.arrays) /\ DOMAIN held.arrays = 1..n /\ DOMAIN held.keys = 1..n
  BY <1>3, <1>4
<1>6. ASSUME NEW k \in 1..n PROVE held.arrays[k] \in UsableArrays(s, down)
  <2>1. held.keys[k] \in Usable("MeteoraDLMM", s, down)
    BY <1>2, <1>5 DEF ToSet
  <2>2. Usable("MeteoraDLMM", s, down) \subseteq Arrays("MeteoraDLMM", s)
    BY DEF Usable
  <2>3. held.arrays[k] = BinArray(s, held.keys[k])
    BY <1>1, <1>5, <2>1, <2>2
  <2> QED
    BY <2>1, <2>3 DEF UsableArrays
<1>7. PICK q, S : q = held.arrays /\ S = UsableArrays(s, down)
  OBVIOUS
<1>8. q \in Seq(BinArrays \cup {Missing}) /\ Len(q) = n /\ \A k \in 1..n : q[k] \in S
  BY <1>4, <1>5, <1>6, <1>7
<1>9. q = [k \in 1..n |-> q[k]]
  BY <1>8
<1>10. q \in Seq(S)
  BY <1>8, <1>9
<1> QED
  BY <1>7, <1>10

LEMMA TransferTerms ==
    ASSUME NEW t \in Terms, t.dex = "MeteoraDLMM", NEW d \in BOOLEAN, NEW amount \in Nat
    PROVE  Received(t, amount, d) \in 0..amount
<1>1. PICK n \in 1..2 : n = IF d THEN 1 ELSE 2
  OBVIOUS
<1>2. AfterTransferFee(amount, t.fee.transfer[n]) \in 0..amount
  BY BinPoolAssumption, TransferFeeWithin
<1> QED
  BY <1>1, <1>2 DEF Received

\* Where the walk begins.
LEMMA BinBegin ==
    ASSUME HeldOfBins, WalkOfBins, terms \in Terms, terms.dex = "MeteoraDLMM", down \in BOOLEAN,
           amount_in \in Nat, Begin
    PROVE  HeldOfBins' /\ WalkOfBins' /\ WalkOfRead'
<1>1. /\ next = "begin" /\ next' = AfterWalk(walk') /\ UNCHANGED <<terms, down, amount_in, held>>
      /\ walk' = IF Missing \in ToSet(held.arrays) THEN Nothing
                 ELSE BeginBins(held.pool, held.arrays, amount_in, terms.fee, Now, Slot, down)
  BY DEF Begin, pvars
<1>2. CASE walk'.is = "none"
  <2>1. next' = "none"
    BY <1>1, <1>2 DEF AfterWalk
  <2>2. HeldOfBins'
    BY <1>1, <2>1, HeldOfBinsKept
  <2>3. WalkOfBins' /\ WalkOfRead'
    BY <1>2, <2>1 DEF WalkOfBins, WalkOfRead
  <2> QED
    BY <2>2, <2>3
<1>3. CASE walk'.is # "none"
  <2>1. Missing \notin ToSet(held.arrays)
    BY <1>1, <1>3 DEF Nothing
  <2>2. PICK w : w = walk'
    OBVIOUS
  <2>3. PICK received : received = Received(terms, amount_in, down)
    OBVIOUS
  <2>4. /\ validate_swap_activation(terms.fee, Now, Slot)
        /\ w = [is |-> "walking", calculated |-> 0, remaining |-> received,
                active_id |-> held.pool.active_id,
                variables |-> update_references(held.pool.v_parameters, held.pool.active_id,
                                                terms.fee, Now),
                array |-> Missing, queue |-> held.arrays]
    <3>1. w = BeginBins(held.pool, held.arrays, amount_in, terms.fee, Now, Slot, down)
      BY <1>1, <2>1, <2>2
    <3>2. w.is # "none"
      BY <1>3, <2>2
    <3> QED
      BY <2>3, <3>1, <3>2 DEF BeginBins, Received
  <2>5. received \in 0..amount_in
    BY <2>3, TransferTerms
  <2>6. PICK r \in States["MeteoraDLMM"] : held.pool = PoolAccount("MeteoraDLMM", r)
    BY <1>1 DEF HeldOfBins, HeldOf, LbPairs
  <2>7. ASSUME NEW s \in States["MeteoraDLMM"], held.pool = PoolAccount("MeteoraDLMM", s)
        PROVE  /\ held.pool.active_id = s.active /\ held.pool.v_parameters = s.variables
               /\ s.active \in BinIds /\ s.active \in Int /\ s.variables \in References
               /\ w.variables = ReferencesOf(terms, s) /\ w.variables \in References
    <3>1. held.pool.active_id = s.active /\ held.pool.v_parameters = s.variables
      BY <2>7 DEF PoolAccount, LbPair
    <3>2. s.active \in BinIds /\ s.active \in Int /\ s.variables \in References
      BY BinPoolAssumption, BinAssumption DEF BinIds, References
    <3>3. w.variables = ReferencesOf(terms, s)
      BY <2>4, <3>1 DEF ReferencesOf
    <3>4. ReferencesOf(terms, s) \in References
      BY <3>2, BinReferencesAre DEF ReferencesOf
    <3> QED
      BY <3>1, <3>2, <3>3, <3>4
  <2>8. held.arrays \in Seq(BinArrays)
    <3>1. PICK q \in Seq(BinArrays \cup {Missing}) : q = held.arrays
      BY DEF HeldOfBins, HeldOf
    <3>2. PICK n \in Nat : n = Len(q) /\ DOMAIN q = 1..n /\ q = [k \in 1..n |-> q[k]]
      BY <3>1
    <3>3. ASSUME NEW k \in 1..n PROVE q[k] \in BinArrays
      <4>1. q[k] \in BinArrays \cup {Missing} /\ q[k] \in ToSet(q)
        BY <3>1, <3>2 DEF ToSet
      <4> QED
        BY <2>1, <3>1, <4>1
    <3>4. PICK e : e = [k \in 1..n |-> q[k]]
      OBVIOUS
    <3>5. e \in [1..n -> BinArrays]
      BY <3>3, <3>4
    <3>6. e \in Seq(BinArrays)
      BY <3>2, <3>5
    <3> QED
      BY <3>1, <3>2, <3>4, <3>6
  <2>9. w \in BinWalks
    <3>1. 0 \in Amounts
      BY WidthAssumption DEF Amounts, Fits
    <3>2. received \in Nat /\ held.pool.active_id \in BinIds /\ w.variables \in References
      BY <2>5, <2>6, <2>7
    <3> QED
      BY <2>4, <2>8, <3>1, <3>2 DEF BinWalks
  <2>10. w.is = "walking" /\ w.remaining = received /\ received =< amount_in
    BY <2>4, <2>5
  <2>11. next' = "walk"
    BY <1>1, <2>2, <2>10 DEF AfterWalk
  <2>12. HeldOfBins'
    BY <1>1, <2>11, HeldOfBinsKept
  <2>13. WalkOfBins'
    BY <1>1, <2>2, <2>4, <2>9, <2>10, <2>11 DEF WalkOfBins
  <2>14. ASSUME NEW s \in States["MeteoraDLMM"], ReadFrom(s)
         PROVE  WalkOver(w, terms, s, amount_in, down)
    <3>1. held.pool = PoolAccount("MeteoraDLMM", s)
      BY <2>14 DEF ReadFrom, Accounts
    <3>2. PICK g : g = [n \in {0} |-> [remaining |-> received, out |-> 0]]
      OBVIOUS
    <3>3. g[0] = [remaining |-> received, out |-> 0]
      BY <3>2
    <3>4. Trades(terms, s, Received(terms, amount_in, down), down, 0, g)
      <4>1. 0..(0 - 1) = {}
        OBVIOUS
      <4> QED
        BY <2>3, <3>3, <4>1 DEF Trades
    <3>5. w.active_id = BinAt(s, 0, down)
      BY <2>4, <2>7, <3>1 DEF BinAt
    <3>6. g[0] = [remaining |-> w.remaining, out |-> w.calculated]
      BY <2>4, <3>3
    <3>7. held.arrays \in Seq(UsableArrays(s, down))
      BY <1>1, <2>1, <2>14, ReadAreUsable
    <3>8. w.array = Missing /\ w.queue = held.arrays /\ w.variables = ReferencesOf(terms, s)
      BY <2>4, <2>7, <3>1
    <3>9. \E n \in Nat : \E e :
            /\ Trades(terms, s, Received(terms, amount_in, down), down, n, e)
            /\ e[n] = [remaining |-> w.remaining, out |-> w.calculated]
            /\ w.remaining # 0 => w.active_id = BinAt(s, n, down)
      BY <3>4, <3>5, <3>6
    <3> QED
      BY <3>7, <3>8, <3>9 DEF WalkOver
  <2>15. WalkOfRead'
    <3>1. \A s : ReadFrom(s)' <=> ReadFrom(s)
      BY <1>1, ReadKept
    <3> QED
      BY <1>1, <2>2, <2>10, <2>14, <3>1 DEF WalkOfRead
  <2> QED
    BY <2>12, <2>13, <2>15
<1> QED
  BY <1>2, <1>3

LEMMA BinWalk ==
    ASSUME HeldOfBins, WalkOfBins, WalkOfRead, terms \in Terms, terms.dex = "MeteoraDLMM",
           down \in BOOLEAN, amount_in \in Nat, Walk
    PROVE  HeldOfBins' /\ WalkOfBins' /\ WalkOfRead'
<1>1. /\ next = "walk" /\ next' = AfterWalk(walk') /\ UNCHANGED <<terms, down, amount_in, held>>
      /\ walk' = BinLoop(walk, terms.fee, down)
  BY DEF Walk, pvars
<1>2. /\ walk.is = "walking" /\ walk \in BinWalks /\ walk.remaining =< amount_in
      /\ validate_swap_activation(terms.fee, Now, Slot)
  BY <1>1 DEF WalkOfBins
<1>3. PICK w : w = walk'
  OBVIOUS
<1>4. \/ walk.remaining = 0 /\ w.is = "amount"
      \/ w.is = "none"
      \/ w \in BinWalks /\ w.remaining \in 0..walk.remaining
  BY <1>1, <1>2, <1>3, BinLoopKeeps
<1>5. w \in BinWalks => w.is = "walking" /\ w.remaining =< amount_in
  <2>1. walk.remaining \in Nat
    BY <1>2 DEF BinWalks
  <2>2. ASSUME w \in BinWalks PROVE w.is = "walking" /\ w.remaining =< amount_in
    <3>1. w.is = "walking"
      BY <2>2 DEF BinWalks
    <3>2. w.remaining \in 0..walk.remaining
      BY <1>4, <3>1
    <3> QED
      BY <1>2, <2>1, <3>1, <3>2
  <2> QED
    BY <2>2
<1>6. w.is \in {"amount", "none", "walking"} /\ (w.is = "walking" => w \in BinWalks)
  BY <1>4, <1>5
<1>7. next' = IF w.is = "walking" THEN "walk" ELSE IF w.is = "amount" THEN "list" ELSE "none"
  BY <1>1, <1>3 DEF AfterWalk
<1>8. HeldOfBins'
  <2>1. next' \notin {"pool", "extension", "arrays", "begin"} /\ next \notin {"pool", "extension"}
    BY <1>1, <1>7
  <2> QED
    BY <1>1, <2>1, HeldOfBinsKept
<1>9. WalkOfBins'
  BY <1>1, <1>2, <1>3, <1>5, <1>6, <1>7 DEF WalkOfBins
<1>10. ASSUME NEW s \in States["MeteoraDLMM"], ReadFrom(s)
       PROVE  /\ w.is = "walking" => WalkOver(w, terms, s, amount_in, down)
              /\ w.is = "amount" => w.amount_out \in Takes(terms, s, amount_in, down)
  <2>1. WalkOver(walk, terms, s, amount_in, down)
    BY <1>2, <1>10 DEF WalkOfRead
  <2>2. ASSUME w.is = "walking" PROVE WalkOver(w, terms, s, amount_in, down)
    BY <1>1, <1>2, <1>3, <1>6, <2>1, <2>2, WalkGoesOn
  <2>3. ASSUME w.is = "amount" PROVE w.amount_out \in Takes(terms, s, amount_in, down)
    <3>1. walk.remaining = 0
      BY <1>4, <1>5, <2>3
    <3> QED
      BY <1>1, <1>2, <1>3, <2>1, <3>1, WalkOverTakes
  <2> QED
    BY <2>2, <2>3
<1>11. WalkOfRead'
  <2>1. \A s : ReadFrom(s)' <=> ReadFrom(s)
    BY <1>1, ReadKept
  <2> QED
    BY <1>1, <1>3, <1>10, <2>1 DEF WalkOfRead
<1> QED
  BY <1>8, <1>9, <1>11

LEMMA BinList ==
    ASSUME HeldOfBins, WalkOfBins, WalkOfRead, terms.dex = "MeteoraDLMM", UNCHANGED pvars,
           ListPool \/ ListArrays
    PROVE  HeldOfBins' /\ WalkOfBins' /\ WalkOfRead'
<1>1. /\ next \in {"list", "list arrays"} /\ next' \in {"list arrays", "done"}
      /\ UNCHANGED <<terms, down, amount_in, held, walk>>
  <2>1. CASE ListPool
    BY <2>1, Bins DEF ListPool, pvars
  <2>2. CASE ListArrays
    <3>1. PICK read : read = [listed EXCEPT !.extension = cache.extension]
      OBVIOUS
    <3>2. PICK found : found = KeysOf(read, 2)
      OBVIOUS
    <3>3. /\ next = "list arrays" /\ UNCHANGED <<terms, down, amount_in, held>>
          /\ walk' = IF found.is = "panic" THEN Aborted ELSE walk
          /\ next' = IF found.is = "reading" THEN "done" ELSE "none"
      BY <2>2, <3>1, <3>2 DEF ListArrays, pvars
    <3>4. found.is = "reading"
      BY <3>2 DEF KeysOf
    <3> QED
      BY <3>3, <3>4
  <2> QED
    BY <2>1, <2>2
<1>2. HeldOfBins'
  BY <1>1, HeldOfBinsKept
<1>3. WalkOfBins'
  BY <1>1 DEF WalkOfBins
<1>4. WalkOfRead'
  <2>1. \A s : ReadFrom(s)' <=> ReadFrom(s)
    BY <1>1, ReadKept
  <2> QED
    BY <1>1, <2>1 DEF WalkOfRead
<1> QED
  BY <1>2, <1>3, <1>4

LEMMA BinNext == Given /\ BinInv /\ [Next]_vars => BinInv'
<1> SUFFICES ASSUME Given, BinInv, [Next]_vars, terms'.dex = "MeteoraDLMM"
             PROVE  CacheOfBins' /\ HeldOfBins' /\ WalkOfBins' /\ WalkOfRead'
  BY DEF BinInv
<1>0. UNCHANGED pvars
  BY DEF Next, vars, pvars, Move, Update, ReadPool, ReadExtension, ReadArray, ReadOracle, Begin, Walk,
         ListPool, ListArrays
<1>1. UNCHANGED <<terms, down, amount_in>> /\ terms.dex = "MeteoraDLMM"
  BY <1>0 DEF pvars
<1>2. CacheOfBins /\ HeldOfBins /\ WalkOfBins /\ WalkOfRead
  BY <1>1 DEF BinInv
<1>3. /\ terms \in Terms /\ down \in BOOLEAN /\ amount_in \in Nat
      /\ chain \in States["MeteoraDLMM"]
  BY <1>1, StretchAssumption DEF Given
<1>4. UNCHANGED cache => CacheOfBins'
  BY <1>2, CacheOfKept DEF CacheOfBins
<1>5. ASSUME UNCHANGED <<held, next, walk>> PROVE HeldOfBins' /\ WalkOfBins' /\ WalkOfRead'
  <2>2. HeldOfBins'
    BY <1>1, <1>2, <1>5, HeldOfBinsKept
  <2>3. WalkOfBins'
    BY <1>1, <1>2, <1>5 DEF WalkOfBins
  <2>4. \A s : ReadFrom(s)' <=> ReadFrom(s)
    BY <1>1, <1>5, ReadKept
  <2>5. WalkOfRead'
    BY <1>1, <1>2, <1>5, <2>4 DEF WalkOfRead
  <2> QED
    BY <2>2, <2>3, <2>5
<1>6. CASE Move
  BY <1>4, <1>5, <1>6 DEF Move
<1>7. CASE Update
  <2>1. UNCHANGED <<held, next, walk>>
    BY <1>7 DEF Update
  <2>2. CacheOfBins'
    BY <1>1, <1>2, <1>3, <1>7, CacheOfUpdate, BinAccounts DEF CacheOfBins
  <2> QED
    BY <1>5, <2>1, <2>2
<1>8. CASE ReadPool
  BY <1>1, <1>2, <1>4, <1>8, BinReadPool DEF ReadPool
<1>9. CASE ReadExtension
  BY <1>1, <1>2, <1>3, <1>4, <1>9, BinReadExtension DEF ReadExtension
<1>10. CASE ReadArray
  BY <1>1, <1>2, <1>4, <1>10, BinReadArray DEF ReadArray
<1>11. CASE ReadOracle
  BY <1>2, <1>11 DEF ReadOracle, WalkOfBins
<1>12. CASE Begin
  BY <1>1, <1>2, <1>3, <1>4, <1>12, BinBegin DEF Begin
<1>13. CASE Walk
  BY <1>1, <1>2, <1>3, <1>4, <1>13, BinWalk DEF Walk
<1>14. CASE ListPool \/ ListArrays
  <2>1. UNCHANGED cache
    BY <1>14 DEF ListPool, ListArrays
  <2> QED
    BY <1>0, <1>1, <1>2, <1>4, <1>14, <2>1, BinList
<1>15. CASE UNCHANGED vars
  BY <1>4, <1>5, <1>15 DEF vars
<1> QED
  BY <1>6, <1>7, <1>8, <1>9, <1>10, <1>11, <1>12, <1>13, <1>14, <1>15 DEF Next

LEMMA BinSwaps ==
    Given /\ BinInv => (terms.dex = "MeteoraDLMM" /\ walk.is = "amount" => QuoteIsTheSwap)
<1> SUFFICES ASSUME Given, BinInv, terms.dex = "MeteoraDLMM", walk.is = "amount"
             PROVE  QuoteIsTheSwap
  OBVIOUS
<1>1. ASSUME NEW s \in past, ReadFrom(s)
      PROVE  walk.amount_out \in Takes(terms, s, amount_in, down)
  <2>1. s \in States["MeteoraDLMM"] /\ WalkOfRead
    BY DEF Given, BinInv
  <2> QED
    BY <1>1, <2>1 DEF WalkOfRead
<1> QED
  BY <1>1 DEF QuoteIsTheSwap

\* What a DLMM quote returns, when it returns an amount, is what a swap of the pool
\* gives that all its reads are from: no bin is missed, taken twice or charged at
\* another distance, in whichever array it lies (quote and get_amount_out).
THEOREM BinQuotesAreTheSwap ==
    Spec => [](terms.dex = "MeteoraDLMM" /\ walk.is = "amount" => QuoteIsTheSwap)
<1>1. Init => QuoteInv /\ BinInv
  BY QuoteInit, BinInit
<1>2. QuoteInv /\ BinInv /\ [Next]_vars => (QuoteInv /\ BinInv)'
  BY QuoteNext, BinNext DEF QuoteInv
<1>3. QuoteInv /\ BinInv => (terms.dex = "MeteoraDLMM" /\ walk.is = "amount" => QuoteIsTheSwap)
  BY BinSwaps DEF QuoteInv
<1> QED
  BY <1>1, <1>2, <1>3, PTL DEF Spec

-----------------------------------------------------------------------------
(* Amounts and prices of one step of a Raydium pool *)

\* Both of the code's ways to round up are the one.
LEMMA CeilsAre ==
    ASSUME NEW n \in Nat, NEW d \in Nat \ {0}
    PROVE  (n + d - 1) \div d = CeilDiv(n, d) /\ div_rounding_up(n, d) = CeilDiv(n, d)
<1>1. PICK c \in Nat : c = CeilDiv(n, d)
  BY CeilDivFacts
<1>2. n =< d * c /\ d * c < n + d
  BY <1>1, CeilDivFacts
<1>3. d * c = c * d /\ c * d \in Int /\ (c + 1) * d = c * d + d
  BY <1>1, Ordered
<1>4. n + d - 1 \in Int /\ c * d =< n + d - 1 /\ n + d - 1 < (c + 1) * d
  BY <1>2, <1>3
<1>5. (n + d - 1) \div d = c
  BY <1>1, <1>4, Quotient
<1>6. div_rounding_up(n, d) = CeilDiv(n, d)
  <2>1. n % d \in 0..(d - 1) /\ n \div d \in Nat
    BY DivFacts
  <2> QED
    BY <2>1 DEF div_rounding_up, CeilDiv
<1> QED
  BY <1>1, <1>5, <1>6

\* Between two prices lies a number of each token, not less than none.
LEMMA TokensAre ==
    ASSUME NEW lo \in Nat \ {0}, NEW hi \in Nat \ {0}, lo =< hi, NEW L \in Nat, NEW up \in BOOLEAN
    PROVE  /\ get_delta_amount_0_unsigned(lo, hi, L, up) \in Nat
           /\ get_delta_amount_1_unsigned(lo, hi, L, up) \in Nat
<1>1. Q64 \in Nat \ {0}
  BY WidthAssumption
<1>2. PICK w \in Nat : w = hi - lo
  OBVIOUS
<1>3. PICK n \in Nat, m \in Nat : n = (L * Q64) * w /\ m = L * w
  BY <1>1, <1>2
<1>4. PICK c \in Nat : c = CeilDiv(n, hi) /\ mul_div_ceil(L * Q64, w, hi) = c
  BY <1>1, <1>3, CeilsAre, CeilDivFacts DEF mul_div_ceil
<1>5. PICK q \in Nat : q = n \div hi
  BY DivFacts
<1>6. /\ div_rounding_up(c, lo) \in Nat /\ q \div lo \in Nat
      /\ mul_div_ceil(L, w, Q64) \in Nat /\ m \div Q64 \in Nat
  <2>1. div_rounding_up(c, lo) \in Nat
    BY CeilsAre, CeilDivFacts
  <2>2. q \div lo \in Nat /\ m \div Q64 \in Nat
    BY <1>1, DivFacts
  <2>3. mul_div_ceil(L, w, Q64) = CeilDiv(m, Q64) /\ CeilDiv(m, Q64) \in Nat
    BY <1>1, <1>3, CeilsAre, CeilDivFacts DEF mul_div_ceil
  <2> QED
    BY <2>1, <2>2, <2>3
<1> QED
  BY <1>2, <1>3, <1>4, <1>5, <1>6
  DEF get_delta_amount_0_unsigned, get_delta_amount_1_unsigned, mul_div_floor

LEMMA TokensOnTheWay ==
    ASSUME NEW price \in Nat \ {0}, NEW target \in Nat \ {0}, NEW L \in Nat,
           NEW d \in BOOLEAN, OnTheWay(price, target, d)
    PROVE  AmountIn(price, target, L, d) \in Nat /\ AmountOut(price, target, L, d) \in Nat
<1>1. CASE d
  <2>1. target =< price
    BY <1>1 DEF OnTheWay
  <2> QED
    BY <1>1, <2>1, TokensAre DEF AmountIn, AmountOut
<1>2. CASE ~d
  <2>1. price =< target
    BY <1>2 DEF OnTheWay
  <2> QED
    BY <1>2, <2>1, TokensAre DEF AmountIn, AmountOut
<1> QED
  BY <1>1, <1>2

\* What is too little to reach the target moves the price on the way to it.
LEMMA ClmmPriceMoves ==
    ASSUME NEW price \in Nat \ {0}, NEW target \in Nat \ {0}, NEW L \in Nat, NEW x \in Nat,
           NEW d \in BOOLEAN, OnTheWay(price, target, d), x < AmountIn(price, target, L, d)
    PROVE  LET after == get_next_sqrt_price_from_input(price, L, x, d)
           IN  /\ after \in Nat
               /\ OnTheWay(price, after, d) /\ OnTheWay(after, target, d)
<1>1. Q64 \in Nat \ {0}
  BY WidthAssumption
<1>2. CASE d /\ x = 0
  BY <1>2 DEF get_next_sqrt_price_from_input, get_next_sqrt_price_from_amount_0_rounding_up, OnTheWay
<1>3. CASE d /\ x # 0
  <2>1. target =< price
    BY <1>3 DEF OnTheWay
  <2>2. PICK w \in Nat : w = price - target
    BY <2>1
  <2>3. PICK n \in Nat : n = (L * Q64) * w
    BY <1>1, <2>2
  <2>4. PICK c \in Nat : c = CeilDiv(n, price)
    BY CeilDivFacts
  <2>5. AmountIn(price, target, L, d) = CeilDiv(c, target)
    <3>1. mul_div_ceil(L * Q64, w, price) = c
      BY <1>1, <2>2, <2>3, <2>4, CeilsAre DEF mul_div_ceil
    <3>2. div_rounding_up(c, target) = CeilDiv(c, target)
      BY CeilsAre
    <3> QED
      BY <1>3, <2>2, <3>1, <3>2 DEF AmountIn, get_delta_amount_0_unsigned
  <2>6. target * x < c /\ target * x \in Nat
    BY <2>5, BelowCeilDiv
  <2>7. price * (target * x) < n
    BY <2>3, <2>4, <2>6, BelowCeilDiv
  <2>8. (target * price) * x < L * (price - target) * Q64
    <3>1. price * (target * x) = (target * price) * x
      OBVIOUS
    <3>2. (L * Q64) * w = L * w * Q64
      BY <1>1, <2>2
    <3> QED
      BY <2>2, <2>3, <2>7, <3>1, <3>2
  <2>9. CeilDiv(L * price * Q64, (L * Q64) + (price * x)) \in target..price
    BY <1>1, <2>1, <2>8, PriceFalls
  <2>10. PICK m \in Nat : m = (L * Q64) * price /\ m = L * price * Q64
    BY <1>1
  <2>11. PICK e \in Nat \ {0} : e = (L * Q64) + (x * price) /\ e = (L * Q64) + (price * x)
    <3>1. L * Q64 \in Nat /\ x * price \in Nat \ {0} /\ x * price = price * x
      BY <1>1, <1>3
    <3> QED
      BY <3>1
  <2>12. get_next_sqrt_price_from_input(price, L, x, d) = CeilDiv(m, e)
    <3>1. mul_div_ceil(L * Q64, price, e) = CeilDiv(m, e)
      BY <2>10, CeilsAre DEF mul_div_ceil
    <3> QED
      BY <1>3, <2>11, <3>1
      DEF get_next_sqrt_price_from_input, get_next_sqrt_price_from_amount_0_rounding_up
  <2>13. PICK after \in target..price : after = get_next_sqrt_price_from_input(price, L, x, d)
    BY <2>9, <2>10, <2>11, <2>12
  <2>14. after \in Nat /\ target =< after /\ after =< price
    BY <2>1, <2>13
  <2> QED
    BY <1>3, <2>13, <2>14 DEF OnTheWay
<1>4. CASE ~d
  <2>1. price =< target
    BY <1>4 DEF OnTheWay
  <2>2. PICK m \in Nat : m = L * (target - price)
    BY <2>1
  <2>3. AmountIn(price, target, L, d) = CeilDiv(m, Q64)
    BY <1>1, <1>4, <2>2, CeilsAre DEF AmountIn, get_delta_amount_1_unsigned, mul_div_ceil
  <2>4. Q64 * x < L * (target - price)
    BY <1>1, <2>2, <2>3, BelowCeilDiv
  <2>5. price + ((x * Q64) \div L) \in price..target
    BY <1>1, <2>1, <2>4, PriceRises
  <2> QED
    BY <1>4, <2>5
    DEF OnTheWay, get_next_sqrt_price_from_input, get_next_sqrt_price_from_amount_1_rounding_down
<1> QED
  BY <1>2, <1>3, <1>4

\* A step ends between the price and the target, and takes and gives numbers.
LEMMA ClmmStepIs ==
    ASSUME NEW price \in Nat \ {0}, NEW target \in Nat \ {0}, NEW L \in Nat,
           NEW remaining \in Nat, Fits(remaining), NEW rate \in 0..(FeeDenominator - 1),
           NEW d \in BOOLEAN, OnTheWay(price, target, d),
           compute_swap_step(price, target, L, remaining, rate, d).is # "panic"
    PROVE  LET step == compute_swap_step(price, target, L, remaining, rate, d)
           IN  /\ step.price \in Nat
               /\ OnTheWay(price, step.price, d) /\ OnTheWay(step.price, target, d)
               /\ step.amount_in \in Nat /\ step.amount_out \in Nat /\ step.fee_amount \in Nat
<1>1. FeeDenominator \in Nat \ {0} /\ U64 \in Nat \ {0}
  BY SwapAssumption, WidthAssumption
<1>2. PICK less_fee \in 0..remaining :
        less_fee = mul_div_floor(remaining, FeeDenominator - rate, FeeDenominator)
  BY LessFeeWithin DEF try_apply_swap_fee, mul_div_floor
<1>3. PICK needed \in Nat : needed = AmountIn(price, target, L, d)
  BY TokensOnTheWay
<1>4. PICK reached \in BOOLEAN : reached <=> (Fits(needed) /\ less_fee >= needed)
  BY DEF Fits
<1>5. PICK after : after = IF reached THEN target
                           ELSE get_next_sqrt_price_from_input(price, L, less_fee, d)
  OBVIOUS
<1>6. PICK amount_in_ : amount_in_ = IF after # target THEN AmountIn(price, after, L, d)
                                     ELSE IF Fits(needed) THEN needed ELSE 0
  OBVIOUS
<1>7. PICK out : out = AmountOut(price, after, L, d)
  OBVIOUS
<1>8. PICK fee : fee = IF after # target THEN remaining - amount_in_
                       ELSE mul_div_ceil(amount_in_, rate, FeeDenominator - rate)
  OBVIOUS
<1>9. PICK panics : panics = (\/ ~reached /\ L = 0
                              \/ ~Fits(amount_in_) \/ ~Fits(out) \/ fee < 0 \/ ~Fits(fee))
  OBVIOUS
<1>10. compute_swap_step(price, target, L, remaining, rate, d) =
          IF panics THEN [is |-> "panic"]
          ELSE [is |-> "step", price |-> after, amount_in |-> amount_in_,
                amount_out |-> out, fee_amount |-> fee]
  BY <1>2, <1>3, <1>4, <1>5, <1>6, <1>7, <1>8, <1>9 DEF compute_swap_step
<1>11. ~panics
  BY <1>10
<1>12. PICK step : step = compute_swap_step(price, target, L, remaining, rate, d)
  OBVIOUS
<1>13. /\ step.price = after /\ step.amount_in = amount_in_ /\ step.amount_out = out
       /\ step.fee_amount = fee /\ ~(fee < 0)
  BY <1>9, <1>10, <1>11, <1>12
<1>14. ~reached => less_fee < needed
  <2>1. less_fee < U64
    BY <1>1, <1>2 DEF Fits
  <2> QED
    BY <1>1, <1>2, <1>3, <1>4, <2>1 DEF Fits
<1>15. after \in Nat /\ OnTheWay(price, after, d) /\ OnTheWay(after, target, d)
  <2>1. CASE reached
    BY <1>5, <2>1 DEF OnTheWay
  <2>2. CASE ~reached
    <3>1. less_fee \in Nat
      BY <1>2
    <3> QED
      BY <1>3, <1>5, <1>14, <2>2, <3>1, ClmmPriceMoves
  <2> QED
    BY <2>1, <2>2
<1>16. after \in Nat \ {0}
  <2>1. CASE d
    <3>1. target =< after
      BY <1>15, <2>1 DEF OnTheWay
    <3> QED
      BY <1>15, <3>1
  <2>2. CASE ~d
    <3>1. price =< after
      BY <1>15, <2>2 DEF OnTheWay
    <3> QED
      BY <1>15, <3>1
  <2> QED
    BY <2>1, <2>2
<1>17. AmountIn(price, after, L, d) \in Nat /\ out \in Nat
  BY <1>7, <1>15, <1>16, TokensOnTheWay
<1>18. amount_in_ \in Nat
  BY <1>3, <1>6, <1>17
<1>19. fee \in Nat
  <2>1. CASE after # target
    BY <1>8, <1>13, <1>18, <2>1
  <2>2. CASE after = target
    <3>1. PICK left \in Nat \ {0} : left = FeeDenominator - rate
      BY <1>1
    <3>2. PICK n \in Nat : n = amount_in_ * rate
      BY <1>1, <1>18
    <3> QED
      BY <1>8, <2>2, <3>1, <3>2, CeilsAre, CeilDivFacts DEF mul_div_ceil
  <2> QED
    BY <2>1, <2>2
<1> QED
  BY <1>12, <1>13, <1>15, <1>17, <1>18, <1>19

\* The tick of a price is the last one whose price is not above it.
LEMMA TickBelow ==
    ASSUME NEW price \in Int, SqrtPrice[MinTick] =< price
    PROVE  LET u == get_tick_at_sqrt_price(price)
           IN  /\ u \in MinTick..MaxTick /\ SqrtPrice[u] =< price
               /\ u < MaxTick => price < SqrtPrice[u + 1]
               /\ \A t \in MinTick..MaxTick : SqrtPrice[t] =< price => t =< u
<1>1. MinTick \in Int /\ MaxTick \in Int /\ MinTick \in MinTick..MaxTick
  BY TickRange
<1>2. PICK T : T = {t \in MinTick..MaxTick : SqrtPrice[t] =< price}
  OBVIOUS
<1>3. T \subseteq MinTick..MaxTick /\ T # {}
  BY <1>1, <1>2
<1>4. PICK u : u = Max(T)
  OBVIOUS
<1>5. u \in T /\ \A t \in T : t =< u
  BY <1>1, <1>3, <1>4, GreatestOf
<1>6. u < MaxTick => price < SqrtPrice[u + 1]
  <2>1. ASSUME u < MaxTick PROVE price < SqrtPrice[u + 1]
    <3>1. u \in Int /\ u + 1 \in MinTick..MaxTick /\ ~(u + 1 =< u)
      BY <1>1, <1>3, <1>5, <2>1
    <3>2. SqrtPrice[u + 1] \in Nat
      BY <3>1, Prices
    <3>3. ~(SqrtPrice[u + 1] =< price)
      BY <1>2, <1>5, <3>1
    <3> QED
      BY <3>2, <3>3
  <2> QED
    BY <2>1
<1>7. get_tick_at_sqrt_price(price) = u
  BY <1>2, <1>4 DEF get_tick_at_sqrt_price
<1> QED
  BY <1>2, <1>5, <1>6, <1>7

-----------------------------------------------------------------------------
(* The walk of a Raydium pool, from array to array *)

ClmmArrays == {TickArray(s, i) : s \in States["RaydiumCLMM"], i \in TickStarts}

ClmmWalks ==
    [is : {"walking"}, remaining : Amounts, calculated : Amounts,
     price : SqrtPrice[MinTick]..SqrtPrice[MaxTick], tick : (MinTick - 1)..MaxTick,
     liquidity : Nat, matched : BOOLEAN, valid_start : KeysFor(ArrayOrdinals, Width),
     array : ClmmArrays, queue : Seq(ClmmArrays), loop_count : Nat]

\* The price is at its tick and has not passed the limit.
AtItsTick(w, d) ==
    /\ OnTheWay(w.price, SqrtPriceLimit(d), d)
    /\ w.tick >= MinTick => SqrtPrice[w.tick] =< w.price
    /\ w.tick < MaxTick => w.price =< SqrtPrice[w.tick + 1]

\* The walk is in its array, or the array is ahead of it.
InItsArray(w, d) ==
    /\ w.array.start = w.valid_start
    /\ IF d THEN w.valid_start - 1 =< w.tick ELSE w.tick < w.valid_start + Width
    /\ ~w.matched => IF d THEN w.valid_start + Width =< w.tick ELSE w.tick < w.valid_start

\* A walk that was w is now r.
WalksOn(r, w, d) ==
    /\ r \in ClmmWalks /\ AtItsTick(r, d) /\ InItsArray(r, d)
    /\ r.remaining \in 0..w.remaining

\* Arrays of the pool hold ticks of their own stretch.
LEMMA ClmmArrayIs ==
    ASSUME NEW a \in ClmmArrays
    PROVE  /\ DOMAIN a.ticks \subseteq MinTick..MaxTick
           /\ \A t \in DOMAIN a.ticks :
                /\ a.ticks[t] \in Int
                /\ \A n \in ArrayOrdinals :
                     a.start = n * Width => n * Width =< t /\ t < n * Width + Width
<1>1. PICK s \in States["RaydiumCLMM"], i \in TickStarts : a = TickArray(s, i)
  BY DEF ClmmArrays
<1>2. PICK ticks : ticks = [t \in {u \in Initialized(s) : StartOf(u) = i} |-> Net(s, t)]
  OBVIOUS
<1>3. a.ticks = ticks /\ a.start = i
  BY <1>1, <1>2 DEF TickArray
<1>4. Initialized(s) \subseteq MinTick..MaxTick /\ \A t \in Initialized(s) : Net(s, t) \in Int
  BY RaydiumAssumption, ClmmAssumption
<1>5. ASSUME NEW t \in DOMAIN a.ticks
      PROVE  /\ t \in MinTick..MaxTick /\ a.ticks[t] \in Int
             /\ \A n \in ArrayOrdinals :
                  a.start = n * Width => n * Width =< t /\ t < n * Width + Width
  <2>1. t \in Initialized(s) /\ StartOf(t) = i /\ a.ticks[t] = Net(s, t)
    BY <1>2, <1>3
  <2>2. t \in MinTick..MaxTick /\ t \in Int
    BY <1>4, <2>1, TickRange
  <2>3. PICK m \in Int : m = t \div Width
    BY <2>2, WidthIs, Quotient
  <2>4. i = m * Width
    BY <2>1, <2>2, <2>3, ArrayOf DEF StartOf
  <2>5. m * Width =< t /\ t < (m + 1) * Width /\ (m + 1) * Width = m * Width + Width
    BY <2>2, <2>3, WidthIs, Quotient, Ordered
  <2> QED
    BY <1>3, <1>4, <2>1, <2>2, <2>4, <2>5
<1> QED
  BY <1>5

LEMMA LimitIs ==
    ASSUME NEW d \in BOOLEAN
    PROVE  /\ SqrtPriceLimit(d) \in Nat \ {0}
           /\ SqrtPriceLimit(d) \in SqrtPrice[MinTick]..SqrtPrice[MaxTick]
<1>1. MinTick \in MinTick..MaxTick /\ MaxTick \in MinTick..MaxTick /\ MinTick < MaxTick
  BY TickRange
<1>2. /\ SqrtPrice[MinTick] \in Nat \ {0} /\ SqrtPrice[MaxTick] \in Nat \ {0}
      /\ SqrtPrice[MinTick] < SqrtPrice[MaxTick]
  BY <1>1, Prices
<1> QED
  BY <1>2 DEF SqrtPriceLimit

\* Where a step to tick t may go at most.
LEMMA StepTargetIs ==
    ASSUME NEW d \in BOOLEAN, NEW t \in MinTick..MaxTick, NEW price \in Nat,
           OnTheWay(price, SqrtPriceLimit(d), d), OnTheWay(price, SqrtPrice[t], d)
    PROVE  LET target == TargetPrice(SqrtPrice[t], d)
           IN  /\ target \in Nat \ {0} /\ OnTheWay(price, target, d)
               /\ OnTheWay(target, SqrtPriceLimit(d), d) /\ OnTheWay(target, SqrtPrice[t], d)
<1>1. PICK p \in Nat \ {0} : p = SqrtPrice[t]
  BY Prices
<1>2. PICK l \in Nat \ {0} : l = SqrtPriceLimit(d)
  BY LimitIs
<1>3. /\ Max({p, l}) = IF p >= l THEN p ELSE l
      /\ Min({p, l}) = IF p =< l THEN p ELSE l
  BY OfTwo
<1>4. TargetPrice(p, d) = IF d THEN (IF p >= l THEN p ELSE l) ELSE (IF p =< l THEN p ELSE l)
  BY <1>2, <1>3 DEF TargetPrice
<1>5. PICK target : target = TargetPrice(p, d)
  OBVIOUS
<1>6. /\ target \in Nat \ {0} /\ OnTheWay(price, target, d)
      /\ OnTheWay(target, l, d) /\ OnTheWay(target, p, d)
  BY <1>1, <1>2, <1>4, <1>5 DEF OnTheWay
<1> QED
  BY <1>1, <1>2, <1>5, <1>6

\* A step to a tick ahead stays on its way.
LEMMA SwapToKeeps ==
    ASSUME NEW w \in ClmmWalks, NEW rate \in 0..(FeeDenominator - 1), NEW d \in BOOLEAN,
           AtItsTick(w, d), w.array.start = w.valid_start, w.matched,
           w.tick \in MinTick..MaxTick,
           NEW t \in DOMAIN w.array.ticks, IF d THEN t =< w.tick ELSE t > w.tick,
           SwapTo(w, t, rate, d).is # "panic"
    PROVE  WalksOn(SwapTo(w, t, rate, d), w, d)
<1>1. /\ w.remaining \in Nat /\ Fits(w.remaining) /\ w.calculated \in Nat /\ w.liquidity \in Nat
      /\ w.price \in SqrtPrice[MinTick]..SqrtPrice[MaxTick] /\ w.array \in ClmmArrays
      /\ w.loop_count \in Nat
  BY DEF ClmmWalks, Amounts
<1>2. PICK n \in ArrayOrdinals : w.valid_start = n * Width
  BY DEF ClmmWalks, KeysFor
<1>3. n * Width \in Int /\ Width \in Nat \ {0}
  BY <1>2, WidthIs, StartsAt
<1>4. /\ t \in MinTick..MaxTick /\ t \in Int /\ w.array.ticks[t] \in Int
      /\ n * Width =< t /\ t < n * Width + Width
  BY <1>1, <1>2, ClmmArrayIs, TickRange
<1>5. PICK price \in Nat \ {0} : price = w.price
  <2>1. SqrtPrice[MinTick] \in Nat \ {0} /\ SqrtPrice[MaxTick] \in Nat \ {0}
    BY TickRange, Prices
  <2> QED
    BY <1>1, <2>1
<1>6. PICK there \in Nat \ {0} : there = SqrtPrice[t]
  BY <1>4, Prices
<1>7. OnTheWay(price, there, d) /\ OnTheWay(price, SqrtPriceLimit(d), d)
  <2>1. CASE d
    <3>1. SqrtPrice[t] =< SqrtPrice[w.tick] /\ SqrtPrice[w.tick] =< w.price
      BY <1>4, <2>1, Prices, TickRange DEF AtItsTick
    <3>2. SqrtPrice[w.tick] \in Nat
      BY Prices
    <3>3. there =< price
      BY <1>5, <1>6, <3>1, <3>2
    <3> QED
      BY <1>5, <2>1, <3>3 DEF OnTheWay, AtItsTick
  <2>2. CASE ~d
    <3>1. w.tick + 1 \in MinTick..MaxTick /\ w.tick + 1 =< t /\ w.tick < MaxTick
      BY <1>4, <2>2, TickRange
    <3>2. SqrtPrice[w.tick + 1] =< SqrtPrice[t] /\ w.price =< SqrtPrice[w.tick + 1]
      BY <1>4, <3>1, Prices DEF AtItsTick
    <3>3. SqrtPrice[w.tick + 1] \in Nat
      BY <3>1, Prices
    <3>4. price =< there
      BY <1>5, <1>6, <3>2, <3>3
    <3> QED
      BY <1>5, <2>2, <3>4 DEF OnTheWay, AtItsTick
  <2> QED
    BY <2>1, <2>2
<1>8. PICK target \in Nat \ {0} :
        /\ target = TargetPrice(there, d) /\ OnTheWay(price, target, d)
        /\ OnTheWay(target, SqrtPriceLimit(d), d) /\ OnTheWay(target, there, d)
  BY <1>4, <1>6, <1>7, StepTargetIs
<1>9. PICK step : step = compute_swap_step(price, target, w.liquidity, w.remaining, rate, d)
  OBVIOUS
<1>10. PICK net \in Int : net = IF d THEN -w.array.ticks[t] ELSE w.array.ticks[t]
  BY <1>4
<1>11. PICK r : r = SwapTo(w, t, rate, d)
  OBVIOUS
<1>12. /\ step.is # "panic" /\ ~(step.amount_in + step.fee_amount > w.remaining)
       /\ Fits(w.calculated + step.amount_out)
       /\ r = [w EXCEPT
                !.remaining = @ - (step.amount_in + step.fee_amount),
                !.calculated = @ + step.amount_out,
                !.price = step.price,
                !.liquidity = IF step.price = there THEN add_delta(@, net) ELSE @,
                !.tick = IF step.price = there THEN (IF d THEN t - 1 ELSE t)
                         ELSE IF step.price # w.price THEN get_tick_at_sqrt_price(step.price)
                         ELSE @,
                !.loop_count = @ + 1]
  BY <1>5, <1>6, <1>8, <1>9, <1>10, <1>11 DEF SwapTo, get_sqrt_price_at_tick, Aborted
<1>13. /\ step.price \in Nat /\ OnTheWay(price, step.price, d) /\ OnTheWay(step.price, target, d)
       /\ step.amount_in \in Nat /\ step.amount_out \in Nat /\ step.fee_amount \in Nat
  BY <1>1, <1>8, <1>9, <1>12, ClmmStepIs
<1>14. PICK after \in Nat : after = step.price
  BY <1>13
<1>15. /\ OnTheWay(after, SqrtPriceLimit(d), d) /\ OnTheWay(after, there, d)
       /\ after \in SqrtPrice[MinTick]..SqrtPrice[MaxTick]
  <2>1. PICK l \in Nat : l = SqrtPriceLimit(d)
    BY LimitIs
  <2>2. /\ SqrtPrice[MinTick] \in Nat /\ SqrtPrice[MaxTick] \in Nat
        /\ SqrtPrice[MinTick] =< l /\ l =< SqrtPrice[MaxTick]
    BY <2>1, LimitIs, Prices, TickRange
  <2> QED
    BY <1>1, <1>5, <1>8, <1>13, <1>14, <2>1, <2>2 DEF OnTheWay
<1>16. PICK left \in 0..w.remaining : left = w.remaining - (step.amount_in + step.fee_amount)
  BY <1>1, <1>12, <1>13
<1>17. PICK tick : tick = IF after = there THEN (IF d THEN t - 1 ELSE t)
                          ELSE IF after # price THEN get_tick_at_sqrt_price(after)
                          ELSE w.tick
  OBVIOUS
<1>18. /\ tick \in (MinTick - 1)..MaxTick
       /\ tick >= MinTick => SqrtPrice[tick] =< after
       /\ tick < MaxTick => after =< SqrtPrice[tick + 1]
       /\ IF d THEN n * Width - 1 =< tick ELSE tick < n * Width + Width
  <2>1. CASE after = there /\ d
    <3>1. tick = t - 1 /\ tick \in (MinTick - 1)..MaxTick /\ tick + 1 = t
      BY <1>4, <1>17, <2>1, TickRange
    <3>2. tick >= MinTick => SqrtPrice[tick] =< after
      <4>1. ASSUME tick >= MinTick PROVE SqrtPrice[tick] =< SqrtPrice[t]
        <5>1. tick \in MinTick..MaxTick /\ tick =< t
          BY <1>4, <3>1, <4>1, TickRange
        <5> QED
          BY <1>4, <5>1, Prices
      <4> QED
        BY <1>6, <2>1, <4>1
    <3>3. after =< SqrtPrice[tick + 1]
      BY <1>6, <2>1, <3>1
    <3> QED
      BY <1>3, <1>4, <2>1, <3>1, <3>2, <3>3
  <2>2. CASE after = there /\ ~d
    <3>1. tick = t /\ SqrtPrice[tick] =< after
      BY <1>6, <1>17, <2>2
    <3>2. tick < MaxTick => after =< SqrtPrice[tick + 1]
      <4>1. ASSUME tick < MaxTick PROVE SqrtPrice[t] =< SqrtPrice[t + 1]
        <5>1. t + 1 \in MinTick..MaxTick /\ t =< t + 1
          BY <1>4, <3>1, <4>1, TickRange
        <5> QED
          BY <1>4, <5>1, Prices
      <4> QED
        BY <1>6, <2>2, <3>1, <4>1
    <3> QED
      BY <1>3, <1>4, <2>2, <3>1, <3>2, TickRange
  <2>3. CASE after # there /\ after # price
    <3>1. tick = get_tick_at_sqrt_price(after) /\ after \in Int /\ SqrtPrice[MinTick] =< after
      <4>1. SqrtPrice[MinTick] \in Nat /\ SqrtPrice[MaxTick] \in Nat
        BY Prices, TickRange
      <4> QED
        BY <1>15, <1>17, <2>3, <4>1
    <3>2. /\ tick \in MinTick..MaxTick /\ SqrtPrice[tick] =< after
          /\ tick < MaxTick => after < SqrtPrice[tick + 1]
          /\ SqrtPrice[t] =< after => t =< tick
      BY <1>4, <3>1, TickBelow
    <3>3. tick \in (MinTick - 1)..MaxTick /\ tick \in Int
      BY <3>2, TickRange
    <3>4. tick < MaxTick => after =< SqrtPrice[tick + 1]
      <4>1. ASSUME tick < MaxTick PROVE SqrtPrice[tick + 1] \in Nat
        <5>1. tick + 1 \in MinTick..MaxTick
          BY <3>2, <4>1, TickRange
        <5> QED
          BY <5>1, Prices
      <4> QED
        BY <3>2, <4>1
    <3>5. ASSUME d PROVE n * Width - 1 =< tick
      <4>1. SqrtPrice[t] =< after
        BY <1>6, <1>15, <3>5 DEF OnTheWay
      <4> QED
        BY <1>3, <1>4, <3>2, <3>3, <4>1
    <3>6. ASSUME ~d PROVE tick < n * Width + Width
      <4>1. after < there
        BY <1>6, <1>15, <2>3, <3>6 DEF OnTheWay
      <4>2. SqrtPrice[tick] < SqrtPrice[t]
        <5>1. SqrtPrice[tick] \in Nat
          BY <3>2, Prices
        <5> QED
          BY <1>6, <3>2, <4>1, <5>1
      <4>3. tick < t
        BY <1>4, <3>2, <4>2, Prices
      <4> QED
        BY <1>3, <1>4, <3>3, <4>3
    <3> QED
      BY <3>2, <3>3, <3>4, <3>5, <3>6
  <2>4. CASE after # there /\ after = price
    <3>1. tick = w.tick /\ after = w.price
      BY <1>5, <1>17, <2>4
    <3>2. IF d THEN n * Width - 1 =< tick ELSE tick < n * Width + Width
      BY <1>3, <1>4, <3>1, TickRange
    <3>3. tick \in (MinTick - 1)..MaxTick
      BY <3>1, TickRange
    <3> QED
      BY <3>1, <3>2, <3>3 DEF AtItsTick
  <2> QED
    BY <2>1, <2>2, <2>3, <2>4
<1>19. PICK liquidity \in Nat :
          liquidity = IF after = there THEN add_delta(w.liquidity, net) ELSE w.liquidity
  BY <1>1, <1>10 DEF add_delta
<1>20. PICK out \in Amounts : out = w.calculated + step.amount_out
  BY <1>1, <1>12, <1>13 DEF Amounts
<1>21. /\ DOMAIN r = DOMAIN w
       /\ r = [w EXCEPT !.remaining = left, !.calculated = out, !.price = after,
                        !.liquidity = liquidity, !.tick = tick, !.loop_count = w.loop_count + 1]
  BY <1>5, <1>12, <1>14, <1>16, <1>17, <1>19, <1>20
<1>22. left \in Amounts
  BY <1>1, <1>16, WidthAssumption DEF Amounts, Fits
<1>23. r \in ClmmWalks
  <2>1. w.loop_count + 1 \in Nat
    BY <1>1
  <2> QED
    BY <1>15, <1>18, <1>19, <1>20, <1>21, <1>22, <2>1 DEF ClmmWalks
<1>24. /\ r.price = after /\ r.tick = tick /\ r.remaining = left
       /\ r.array = w.array /\ r.valid_start = w.valid_start /\ r.matched = w.matched
  BY <1>21 DEF ClmmWalks
<1>25. AtItsTick(r, d)
  BY <1>15, <1>18, <1>24 DEF AtItsTick
<1>26. InItsArray(r, d)
  BY <1>2, <1>18, <1>24 DEF InItsArray
<1> QED
  BY <1>11, <1>16, <1>23, <1>24, <1>25, <1>26 DEF WalksOn

\* The first tick of an array that is ahead.
LEMMA SwapToFirstKeeps ==
    ASSUME NEW w \in ClmmWalks, NEW rate \in 0..(FeeDenominator - 1), NEW d \in BOOLEAN,
           AtItsTick(w, d), w.array.start = w.valid_start, w.matched,
           w.tick \in MinTick..MaxTick,
           IF d THEN w.valid_start + Width =< w.tick + 1 ELSE w.tick < w.valid_start,
           SwapToFirst(w, rate, d).is # "panic"
    PROVE  WalksOn(SwapToFirst(w, rate, d), w, d)
<1>1. w.array \in ClmmArrays
  BY DEF ClmmWalks
<1>2. PICK n \in ArrayOrdinals : w.valid_start = n * Width
  BY DEF ClmmWalks, KeysFor
<1>3. n * Width \in Int /\ Width \in Nat \ {0} /\ w.tick \in Int
  BY <1>2, WidthIs, StartsAt, TickRange
<1>4. PICK T : T = DOMAIN w.array.ticks
  OBVIOUS
<1>5. /\ T # {} /\ SwapToFirst(w, rate, d) = SwapTo(w, First(w.array.ticks, d), rate, d)
      /\ SwapTo(w, First(w.array.ticks, d), rate, d).is # "panic"
  BY <1>4 DEF SwapToFirst, Aborted
<1>6. PICK t : t = First(w.array.ticks, d)
  OBVIOUS
<1>7. t \in T
  <2>1. T \subseteq MinTick..MaxTick /\ MinTick \in Int /\ MaxTick \in Int
    BY <1>1, <1>4, ClmmArrayIs, TickRange
  <2>2. Max(T) \in T /\ Min(T) \in T
    BY <1>5, <2>1, GreatestOf, LeastOf
  <2> QED
    BY <1>4, <1>6, <2>2 DEF First
<1>8. t \in Int /\ n * Width =< t /\ t < n * Width + Width
  BY <1>1, <1>2, <1>4, <1>7, ClmmArrayIs, TickRange
<1>9. IF d THEN t =< w.tick ELSE t > w.tick
  BY <1>2, <1>3, <1>8
<1> QED
  BY <1>4, <1>5, <1>6, <1>7, <1>9, SwapToKeeps

\* What a walk may become in an iteration.
Onward(r, w, d) == r.is \in {"panic", "none"} \/ WalksOn(r, w, d)

\* The next array that a search through the bitmaps finds is ahead.
LEMMA NextArrayKeeps ==
    ASSUME NEW w \in ClmmWalks, NEW rate \in 0..(FeeDenominator - 1), NEW d \in BOOLEAN,
           AtItsTick(w, d), InItsArray(w, d), w.matched, w.tick \in MinTick..MaxTick,
           NEW A \in SUBSET ArrayOrdinals, NEW pool, NEW x, Names(pool.tick_array_bitmap, x, A)
    PROVE  Onward(NextArray(pool, x, TickSpacing, w, rate, d), w, d)
<1>1. PICK n \in ArrayOrdinals : w.valid_start = n * Width
  BY DEF ClmmWalks, KeysFor
<1>2. /\ n \in Int /\ n * Width \in Int /\ Width \in Nat \ {0} /\ w.tick \in Int
      /\ (n + 1) * Width = n * Width + Width
  BY <1>1, WidthIs, StartsAt, TickRange, ArraysAreInRange, Ordered DEF ArrayOrdinals
<1>3. PICK found : found = next_initialized_tick_array_start_index(
                               pool.tick_array_bitmap, x, w.valid_start, TickSpacing, d)
  OBVIOUS
<1>4. Finds(A, n, d, found)
  BY <1>1, <1>3, NextIsSearch, SearchFinds
<1>5. PICK array, queue : /\ array = IF w.queue # <<>> THEN Head(w.queue) ELSE w.array
                          /\ queue = IF w.queue # <<>> THEN Tail(w.queue) ELSE w.queue
  OBVIOUS
<1>6. PICK v : v = [w EXCEPT !.array = array, !.queue = queue, !.valid_start = found.start]
  OBVIOUS
<1>7. NextArray(pool, x, TickSpacing, w, rate, d) =
        IF found.is \in {"error", "panic"} THEN Aborted
        ELSE IF found.is = "none" \/ array.start # found.start THEN Nothing
        ELSE SwapToFirst(v, rate, d)
  BY <1>3, <1>5, <1>6 DEF NextArray
<1>8. CASE found.is = "found" /\ array.start = found.start /\ SwapToFirst(v, rate, d).is # "panic"
  <2>1. PICK a \in A : NearestOn(A, After(n, d), a, d) /\ found.start = a * Width
    BY <1>4, <1>8 DEF Finds
  <2>2. a \in ArrayOrdinals /\ a \in Int /\ a * Width \in Int /\ (a + 1) * Width = a * Width + Width
    BY <2>1, WidthIs, StartsAt, ArraysAreInRange, Ordered DEF ArrayOrdinals
  <2>3. IF d THEN a * Width + Width =< n * Width ELSE n * Width + Width =< a * Width
    <3>1. IF d THEN a + 1 =< n ELSE n + 1 =< a
      BY <1>2, <2>1, <2>2 DEF NearestOn, OnFrom, After
    <3>2. CASE d
      <4>1. (a + 1) * Width =< n * Width
        BY <1>2, <2>2, <3>1, <3>2, Ordered
      <4> QED
        BY <2>2, <3>2, <4>1
    <3>3. CASE ~d
      <4>1. (n + 1) * Width =< a * Width
        BY <1>2, <2>2, <3>1, <3>3, Ordered
      <4> QED
        BY <1>2, <3>3, <4>1
    <3> QED
      BY <3>2, <3>3
  <2>4. array \in ClmmArrays /\ queue \in Seq(ClmmArrays)
    BY <1>5 DEF ClmmWalks
  <2>5. found.start \in KeysFor(ArrayOrdinals, Width)
    BY <2>1, <2>2 DEF KeysFor
  <2>6. v \in ClmmWalks
    BY <1>6, <2>4, <2>5 DEF ClmmWalks
  <2>7. /\ v.array = array /\ v.valid_start = a * Width /\ v.matched = w.matched
        /\ v.tick = w.tick /\ v.price = w.price /\ v.remaining = w.remaining
    BY <1>6, <2>1 DEF ClmmWalks
  <2>8. AtItsTick(v, d) /\ v.array.start = v.valid_start /\ v.matched /\ v.tick \in MinTick..MaxTick
    BY <1>8, <2>1, <2>7 DEF AtItsTick
  <2>9. IF d THEN v.valid_start + Width =< v.tick + 1 ELSE v.tick < v.valid_start
    BY <1>1, <1>2, <2>2, <2>3, <2>7 DEF InItsArray
  <2>10. WalksOn(SwapToFirst(v, rate, d), v, d)
    BY <1>8, <2>6, <2>8, <2>9, SwapToFirstKeeps
  <2> QED
    BY <1>7, <1>8, <2>7, <2>10 DEF WalksOn, Onward
<1>9. CASE ~(found.is = "found" /\ array.start = found.start /\ SwapToFirst(v, rate, d).is # "panic")
  <2>1. found.is \in {"found", "none", "error", "panic"}
    BY <1>4 DEF Finds
  <2> QED
    BY <1>7, <1>9, <2>1 DEF Onward, Nothing, Aborted
<1> QED
  BY <1>8, <1>9

\* One iteration of the loop.
LEMMA SwapLoopKeeps ==
    ASSUME NEW w \in ClmmWalks, NEW rate \in 0..(FeeDenominator - 1), NEW d \in BOOLEAN,
           AtItsTick(w, d), InItsArray(w, d),
           NEW A \in SUBSET ArrayOrdinals, NEW pool, NEW x, Names(pool.tick_array_bitmap, x, A)
    PROVE  LET r == SwapLoop(pool, x, TickSpacing, w, rate, d)
           IN  r.is = "amount" \/ Onward(r, w, d)
<1>1. PICK r : r = SwapLoop(pool, x, TickSpacing, w, rate, d)
  OBVIOUS
<1>2. PICK ahead : ahead = next_initialized_tick(w.array.start, w.array.ticks, w.tick, TickSpacing, d)
  OBVIOUS
<1>3. r = IF ~LoopGoesOn(w, d) THEN [is |-> "amount", amount_out |-> w.calculated]
          ELSE IF w.loop_count > LoopLimit THEN Nothing
          ELSE IF ahead # {} THEN SwapTo(w, Nearest(ahead, d), rate, d)
          ELSE IF ~w.matched THEN SwapToFirst([w EXCEPT !.matched = TRUE], rate, d)
          ELSE NextArray(pool, x, TickSpacing, w, rate, d)
  BY <1>1, <1>2 DEF SwapLoop
<1>4. CASE ~LoopGoesOn(w, d) \/ w.loop_count > LoopLimit
  BY <1>1, <1>3, <1>4 DEF Onward, Nothing
<1> SUFFICES ASSUME LoopGoesOn(w, d), ~(w.loop_count > LoopLimit), r.is # "panic"
             PROVE  Onward(r, w, d)
  BY <1>1, <1>4 DEF Onward
<1>5. w.tick \in MinTick..MaxTick /\ w.tick \in Int
  BY TickRange DEF LoopGoesOn, ClmmWalks
<1>6. PICK n \in ArrayOrdinals : w.valid_start = n * Width
  BY DEF ClmmWalks, KeysFor
<1>7. n \in Int /\ n * Width \in Int /\ Width \in Nat \ {0} /\ (n + 1) * Width = n * Width + Width
  BY <1>6, WidthIs, StartsAt, ArraysAreInRange, Ordered DEF ArrayOrdinals
<1>8. w.array \in ClmmArrays /\ w.array.start = w.valid_start
  BY DEF ClmmWalks, InItsArray
<1>9. CASE ahead # {}
  <2>1. /\ get_array_start_index(w.tick, TickSpacing) = w.array.start
        /\ ahead = {u \in DOMAIN w.array.ticks : IF d THEN u =< w.tick ELSE u > w.tick}
    BY <1>2, <1>9 DEF next_initialized_tick
  <2>2. ahead \subseteq MinTick..MaxTick /\ MinTick \in Int /\ MaxTick \in Int
    BY <1>8, <2>1, ClmmArrayIs, TickRange
  <2>3. PICK t : t = Nearest(ahead, d)
    OBVIOUS
  <2>4. t \in ahead
    <3>1. Max(ahead) \in ahead /\ Min(ahead) \in ahead
      BY <1>9, <2>2, GreatestOf, LeastOf
    <3> QED
      BY <2>3, <3>1 DEF Nearest
  <2>5. t \in DOMAIN w.array.ticks /\ IF d THEN t =< w.tick ELSE t > w.tick
    BY <2>1, <2>4
  <2>6. n * Width =< w.tick /\ w.tick < n * Width + Width
    <3>1. PICK m \in Int : m = w.tick \div Width
      BY <1>5, WidthIs, Quotient
    <3>2. m * Width = n * Width
      BY <1>5, <1>6, <1>8, <2>1, <3>1, ArrayOf
    <3>3. m * Width =< w.tick /\ w.tick < (m + 1) * Width /\ (m + 1) * Width = m * Width + Width
      BY <1>5, <3>1, WidthIs, Quotient, Ordered
    <3> QED
      BY <1>7, <3>2, <3>3
  <2>7. w.matched
    BY <1>5, <1>6, <1>7, <2>6 DEF InItsArray, ClmmWalks
  <2>8. r = SwapTo(w, t, rate, d)
    BY <1>3, <1>9, <2>3
  <2>9. WalksOn(r, w, d)
    BY <1>5, <1>8, <2>5, <2>7, <2>8, SwapToKeeps
  <2> QED
    BY <2>9 DEF Onward
<1>10. CASE ahead = {} /\ ~w.matched
  <2>1. PICK v : v = [w EXCEPT !.matched = TRUE]
    OBVIOUS
  <2>2. v \in ClmmWalks
    BY <2>1 DEF ClmmWalks
  <2>3. /\ v.array = w.array /\ v.valid_start = w.valid_start /\ v.matched
        /\ v.tick = w.tick /\ v.price = w.price /\ v.remaining = w.remaining
    BY <2>1 DEF ClmmWalks
  <2>4. AtItsTick(v, d) /\ v.array.start = v.valid_start
    BY <1>8, <2>3 DEF AtItsTick
  <2>5. IF d THEN v.valid_start + Width =< v.tick + 1 ELSE v.tick < v.valid_start
    BY <1>5, <1>6, <1>7, <1>10, <2>3 DEF InItsArray
  <2>6. r = SwapToFirst(v, rate, d)
    BY <1>3, <1>10, <2>1
  <2>7. WalksOn(r, v, d)
    BY <1>5, <2>2, <2>3, <2>4, <2>5, <2>6, SwapToFirstKeeps
  <2> QED
    BY <2>3, <2>7 DEF WalksOn, Onward
<1>11. CASE ahead = {} /\ w.matched
  BY <1>3, <1>5, <1>11, NextArrayKeeps
<1> QED
  BY <1>9, <1>10, <1>11

\* Where the walk begins.
LEMMA SwapBegins ==
    ASSUME NEW s \in States["RaydiumCLMM"], NEW r \in States["RaydiumCLMM"], NEW d \in BOOLEAN,
           NEW pool, pool = PoolAccount("RaydiumCLMM", s),
           NEW x, x = ExtensionAccount("RaydiumCLMM", r),
           NEW arrays \in Seq(ClmmArrays), NEW amount \in Amounts,
           FirstHeld(pool.tick_array_bitmap, x, s.tick, d).is = "found" => arrays # <<>>
    PROVE  LET w == BeginSwap(pool, x, TickSpacing, arrays, amount, d)
           IN  \/ w.is = "none"
               \/ /\ w \in ClmmWalks /\ AtItsTick(w, d) /\ InItsArray(w, d)
                  /\ w.remaining = amount
<1>1. PICK w : w = BeginSwap(pool, x, TickSpacing, arrays, amount, d)
  OBVIOUS
<1>2. PICK first : first = get_first_initialized_tick_array(
                               pool.tick_array_bitmap, x, s.tick, TickSpacing, d)
  OBVIOUS
<1>3. /\ pool.tick_current = s.tick /\ pool.sqrt_price_x64 = s.price
      /\ pool.liquidity = LiquidityAt(s, s.tick)
  BY DEF PoolAccount, PoolState
<1>4. /\ s.tick \in MinTick..MaxTick /\ s.price \in SqrtPrice[MinTick]..SqrtPrice[MaxTick]
      /\ SqrtPrice[s.tick] =< s.price /\ LiquidityAt(s, s.tick) \in Nat
      /\ s.tick < MaxTick => s.price =< SqrtPrice[s.tick + 1]
  BY RaydiumAssumption, ClmmAssumption
<1> SUFFICES ASSUME w.is # "none"
             PROVE  /\ w \in ClmmWalks /\ AtItsTick(w, d) /\ InItsArray(w, d)
                    /\ w.remaining = amount
  BY <1>1
<1>5. /\ first.at.is = "found" /\ arrays[1].start = first.at.start
      /\ ~(d /\ SqrtPriceLimit(d) >= s.price) /\ ~(~d /\ SqrtPriceLimit(d) =< s.price)
      /\ w = [is |-> "walking", remaining |-> amount, calculated |-> 0,
              price |-> s.price, tick |-> s.tick, liquidity |-> LiquidityAt(s, s.tick),
              matched |-> first.here, valid_start |-> first.at.start, array |-> arrays[1],
              queue |-> Tail(arrays), loop_count |-> 0]
  BY <1>1, <1>2, <1>3 DEF BeginSwap, Nothing
<1>6. PICK A \in SUBSET ArrayOrdinals : Names(pool.tick_array_bitmap, x, A)
  BY TickBitmapsName
<1>7. PICK n \in Int : n = s.tick \div Width
  BY <1>4, TickRange, WidthIs, Quotient
<1>8. PICK a \in A : /\ NearestOn(A, n, a, d) /\ first.at.start = a * Width /\ first.here = (a = n)
  BY <1>2, <1>4, <1>5, <1>6, <1>7, FirstFinds
<1>9. /\ a \in ArrayOrdinals /\ a \in Int /\ n \in Int /\ a * Width \in Int /\ n * Width \in Int
      /\ Width \in Nat \ {0} /\ s.tick \in Int
      /\ (a + 1) * Width = a * Width + Width /\ (n + 1) * Width = n * Width + Width
  BY <1>4, <1>7, <1>8, WidthIs, TickRange, ArraysAreInRange, Ordered DEF ArrayOrdinals
<1>10. n * Width =< s.tick /\ s.tick < n * Width + Width
  <2>1. n * Width =< s.tick /\ s.tick < (n + 1) * Width
    BY <1>7, <1>9, Quotient
  <2> QED
    BY <1>9, <2>1
<1>11. IF d THEN a =< n ELSE n =< a
  BY <1>8 DEF NearestOn, OnFrom
<1>12. a # n => IF d THEN a * Width + Width =< n * Width ELSE n * Width + Width =< a * Width
  <2>1. ASSUME a # n, d PROVE (a + 1) * Width =< n * Width
    <3>1. a + 1 \in Int /\ a + 1 =< n
      BY <1>9, <1>11, <2>1
    <3> QED
      BY <1>9, <3>1, Ordered
  <2>2. ASSUME a # n, ~d PROVE (n + 1) * Width =< a * Width
    <3>1. n + 1 \in Int /\ n + 1 =< a
      BY <1>9, <1>11, <2>2
    <3> QED
      BY <1>9, <3>1, Ordered
  <2> QED
    BY <1>9, <2>1, <2>2
<1>13. arrays # <<>>
  BY <1>2, <1>5 DEF FirstHeld
<1>14. arrays[1] \in ClmmArrays /\ Tail(arrays) \in Seq(ClmmArrays)
  BY <1>13
<1>15. w \in ClmmWalks
  <2>1. 0 \in Amounts /\ a * Width \in KeysFor(ArrayOrdinals, Width) /\ first.here \in BOOLEAN
    BY <1>8, <1>9, WidthAssumption DEF Amounts, Fits, KeysFor
  <2>2. s.tick \in (MinTick - 1)..MaxTick
    BY <1>4, TickRange
  <2> QED
    BY <1>4, <1>5, <1>8, <1>14, <2>1, <2>2 DEF ClmmWalks
<1>16. AtItsTick(w, d)
  <2>1. PICK l \in Nat : l = SqrtPriceLimit(d)
    BY LimitIs
  <2>2. s.price \in Nat
    <3>1. SqrtPrice[MinTick] \in Nat /\ SqrtPrice[MaxTick] \in Nat
      BY Prices, TickRange
    <3> QED
      BY <1>4, <3>1
  <2>3. OnTheWay(s.price, SqrtPriceLimit(d), d)
    BY <1>5, <2>1, <2>2 DEF OnTheWay
  <2> QED
    BY <1>4, <1>5, <2>3 DEF AtItsTick
<1>17. InItsArray(w, d)
  <2>1. /\ w.array.start = a * Width /\ w.valid_start = a * Width /\ w.tick = s.tick
        /\ w.matched <=> (a = n)
    <3>1. w.array = arrays[1] /\ w.valid_start = first.at.start /\ w.tick = s.tick /\ w.matched = first.here
      BY <1>5
    <3> QED
      BY <1>5, <1>8, <3>1
  <2>2. CASE a = n
    BY <1>9, <1>10, <2>1, <2>2 DEF InItsArray
  <2>3. CASE a # n
    BY <1>9, <1>10, <1>12, <2>1, <2>3 DEF InItsArray
  <2> QED
    BY <2>2, <2>3
<1> QED
  BY <1>5, <1>15, <1>16, <1>17

-----------------------------------------------------------------------------
(* Quotes over Raydium pools *)

PoolStates == {PoolAccount("RaydiumCLMM", s) : s \in States["RaydiumCLMM"]}
TickExtensions == {ExtensionAccount("RaydiumCLMM", s) : s \in States["RaydiumCLMM"]}

CacheOfTicks == CacheOf(PoolStates, TickExtensions, TickStarts, ClmmArrays)
HeldOfTicks == HeldOf(PoolStates, TickExtensions, ClmmArrays)

WalkOfTicks ==
    /\ next \in {"pool", "extension", "arrays", "begin", "walk", "list", "list arrays",
                 "none", "done"}
    /\ walk.is \in {"reading", "walking"} \cup Ended
    /\ next = "walk" <=> walk.is = "walking"
    /\ walk.is = "walking" =>
         /\ walk \in ClmmWalks /\ walk.remaining =< amount_in
         /\ AtItsTick(walk, down) /\ InItsArray(walk, down)

TickInv == terms.dex = "RaydiumCLMM" => CacheOfTicks /\ HeldOfTicks /\ WalkOfTicks

LEMMA TickAccounts ==
    AccountsAre("RaydiumCLMM", PoolStates, TickExtensions, TickStarts, ClmmArrays)
<1>1. HasBitmaps("RaydiumCLMM") /\ HasTicks("RaydiumCLMM") /\ ArrayKeys("RaydiumCLMM") = TickStarts
  BY DEF HasBitmaps, ArrayKeys, HasTicks
<1>2. ASSUME NEW s \in States["RaydiumCLMM"]
      PROVE  LET fresh == Accounts("RaydiumCLMM", s)
             IN  /\ DOMAIN fresh = {"pool", "extension", "oracle", "arrays"}
                 /\ fresh.pool \in PoolStates /\ fresh.extension \in TickExtensions
                 /\ ExtensionAccount("RaydiumCLMM", s) \in TickExtensions
                 /\ DOMAIN fresh.arrays = TickStarts
                 /\ \A i \in TickStarts : /\ fresh.arrays[i] \in ClmmArrays \cup {Missing}
                                          /\ ArrayAccount("RaydiumCLMM", s, i) \in ClmmArrays
  <2>1. \A i \in TickStarts : ArrayAccount("RaydiumCLMM", s, i) \in ClmmArrays
    BY <1>1 DEF ArrayAccount, ClmmArrays
  <2>2. PICK arrays : arrays = [i \in TickStarts |->
            IF i \in Arrays("RaydiumCLMM", s) THEN ArrayAccount("RaydiumCLMM", s, i) ELSE Missing]
    OBVIOUS
  <2>3. PICK oracle : Accounts("RaydiumCLMM", s) =
            [pool |-> PoolAccount("RaydiumCLMM", s), extension |-> Extension("RaydiumCLMM", s),
             oracle |-> oracle, arrays |-> arrays]
    BY <1>1, <2>2 DEF Accounts
  <2>4. /\ PoolAccount("RaydiumCLMM", s) \in PoolStates
        /\ ExtensionAccount("RaydiumCLMM", s) \in TickExtensions
        /\ Extension("RaydiumCLMM", s) \in TickExtensions
    BY DEF PoolStates, TickExtensions, Extension
  <2>5. \A i \in TickStarts : arrays[i] \in ClmmArrays \cup {Missing}
    BY <2>1, <2>2
  <2> QED
    BY <2>1, <2>2, <2>3, <2>4, <2>5
<1> QED
  BY <1>1, <1>2 DEF AccountsAre

\* At most three arrays are named, and one if the first search finds one.
LEMMA FewTickKeys ==
    ASSUME terms.dex = "RaydiumCLMM", down \in BOOLEAN,
           NEW s \in States["RaydiumCLMM"], NEW h, h.pool = PoolAccount("RaydiumCLMM", s),
           h.extension \in TickExtensions
    PROVE  /\ Len(KeysOf(h, 2).keys) \in 0..3
           /\ Len(KeysOf(h, 2).keys) = 0 <=> KeysOf(h, 2).keys = <<>>
           /\ KeysOf(h, 2).is \in {"reading", "none", "panic"}
           /\ FirstHeld(h.pool.tick_array_bitmap, h.extension, s.tick, down).is = "found"
                => KeysOf(h, 2).keys # <<>>
<1>1. PICK r \in States["RaydiumCLMM"] : h.extension = ExtensionAccount("RaydiumCLMM", r)
  BY DEF TickExtensions
<1>2. PICK A \in SUBSET ArrayOrdinals : Names(h.pool.tick_array_bitmap, h.extension, A)
  BY <1>1, TickBitmapsName
<1>3. PICK t \in MinTick..MaxTick : t = s.tick
  BY RaydiumAssumption
<1>4. h.pool.tick_current = t /\ t \in Int
  BY <1>3, TickRange DEF PoolAccount, PoolState
<1>5. PICK n \in Int : n = t \div Width
  BY <1>4, WidthIs, Quotient
<1>6. PICK first, further : /\ first = FirstHeld(h.pool.tick_array_bitmap, h.extension, t, down)
                            /\ further = Further(h.pool.tick_array_bitmap, h.extension, down)
  OBVIOUS
<1>7. PICK V : Tells(A, n, Width, down, Failing, V, first, further)
  BY <1>2, <1>5, <1>6, TicksAreTold
<1>8. PICK keys : keys = Starts(Searches(first, further, 2))
  OBVIOUS
<1>9. KeysOf(h, 2).keys = keys /\ KeysOf(h, 2).is \in {"reading", "none", "panic"}
  BY <1>4, <1>6, <1>8, TickKeysAre DEF KeysOf
<1>10. keys \in Seq(KeysFor(A, Width)) /\ Len(keys) =< 3
  <2>1. A \in SUBSET Int /\ Width \in Nat \ {0}
    BY WidthIs, ArraysAreInRange DEF ArrayOrdinals
  <2> QED
    BY <1>5, <1>7, <1>8, <2>1, SearchesName
<1>11. Len(keys) \in 0..3 /\ (Len(keys) = 0 <=> keys = <<>>)
  <2>1. PICK q \in Seq(KeysFor(A, Width)) : q = keys
    BY <1>10
  <2>2. PICK l \in Nat : l = Len(q)
    OBVIOUS
  <2>3. l =< 3
    BY <1>10, <2>1, <2>2
  <2>4. l \in 0..3
    BY <2>3
  <2>5. Len(q) = 0 <=> q = <<>>
    OBVIOUS
  <2> QED
    BY <2>1, <2>2, <2>4, <2>5
<1>12. ASSUME first.is = "found" PROVE keys # <<>>
  <2>1. first \in V /\ further \in [Int -> V] /\ \A v \in V : IsFound(v) => v.start \in Int
    BY <1>7 DEF Tells
  <2>2. IsFound(first)
    BY <1>12 DEF IsFound
  <2>3. PICK second, third : second = further[first.start] /\ third = further[second.start]
    OBVIOUS
  <2>4. Searches(first, further, 2) = IF ~IsFound(second) THEN <<first, second>>
                                      ELSE <<first, second, third>>
    BY <2>1, <2>2, <2>3, SearchesOfTwo
  <2>5. \/ keys = <<first.start>> \/ keys = <<first.start, second.start>>
        \/ keys = <<first.start, second.start, third.start>>
    BY <1>8, <2>2, <2>4, StartsOfFew
  <2>6. PICK a, b, c : a = first.start /\ b = second.start /\ c = third.start
    OBVIOUS
  <2>7. Len(<<a>>) = 1 /\ Len(<<a, b>>) = 2 /\ Len(<<a, b, c>>) = 3
    OBVIOUS
  <2>8. Len(keys) # 0
    BY <2>5, <2>6, <2>7
  <2> QED
    BY <1>11, <2>8
<1> QED
  BY <1>3, <1>6, <1>9, <1>11, <1>12

LEMMA TickInit == Init => TickInv
<1> SUFFICES ASSUME Init, terms.dex = "RaydiumCLMM"
             PROVE  CacheOfTicks /\ HeldOfTicks /\ WalkOfTicks
  BY DEF TickInv
<1>1. /\ chain \in States["RaydiumCLMM"] /\ cache = Accounts("RaydiumCLMM", chain)
      /\ next = "pool" /\ walk = Idle
  BY DEF Init
<1>2. CacheOfTicks
  BY <1>1, TickAccounts DEF CacheOfTicks, CacheOf, AccountsAre
<1>3. HeldOfTicks
  BY HeldOfInit DEF HeldOfTicks
<1>4. WalkOfTicks
  BY <1>1 DEF WalkOfTicks, Idle
<1> QED
  BY <1>2, <1>3, <1>4

LEMMA TickReadExtension ==
    ASSUME CacheOfTicks, HeldOfTicks, terms.dex = "RaydiumCLMM", down \in BOOLEAN, ReadExtension
    PROVE  HeldOfTicks' /\ WalkOfTicks'
<1>1. ASSUME NEW h, h.pool \in PoolStates, h.extension \in TickExtensions
      PROVE  /\ Len(KeysOf(h, 2).keys) \in 0..3
             /\ Len(KeysOf(h, 2).keys) = 0 <=> KeysOf(h, 2).keys = <<>>
  <2>1. PICK s \in States["RaydiumCLMM"] : h.pool = PoolAccount("RaydiumCLMM", s)
    BY <1>1 DEF PoolStates
  <2> QED
    BY <1>1, <2>1, FewTickKeys
<1>2. ASSUME NEW h, h.pool \in PoolStates, h.extension \in TickExtensions
      PROVE  KeysOf(h, 2).is \in {"reading", "none", "panic"}
  <2>1. PICK s \in States["RaydiumCLMM"] : h.pool = PoolAccount("RaydiumCLMM", s)
    BY <1>2 DEF PoolStates
  <2> QED
    BY <1>2, <2>1, FewTickKeys
<1>3. /\ CacheOf(PoolStates, TickExtensions, TickStarts, ClmmArrays)
      /\ HeldOf(PoolStates, TickExtensions, ClmmArrays)
  BY DEF CacheOfTicks, HeldOfTicks
<1>4. /\ HeldOf(PoolStates, TickExtensions, ClmmArrays)'
      /\ \E found : /\ walk' = [is |-> found.is]
                    /\ \E h : /\ found = KeysOf(h, 2)
                             /\ h.pool \in PoolStates /\ h.extension \in TickExtensions
                    /\ next' = IF found.is # "reading" THEN "none"
                               ELSE IF found.keys # <<>> THEN "arrays" ELSE "begin"
  BY <1>1, <1>3, HeldOfExtension
<1>5. PICK found, h :
        /\ walk' = [is |-> found.is] /\ found = KeysOf(h, 2)
        /\ h.pool \in PoolStates /\ h.extension \in TickExtensions
        /\ next' = IF found.is # "reading" THEN "none"
                   ELSE IF found.keys # <<>> THEN "arrays" ELSE "begin"
  BY <1>4
<1>6. found.is \in {"reading", "none", "panic"}
  BY <1>2, <1>5
<1>7. WalkOfTicks'
  BY <1>5, <1>6 DEF WalkOfTicks, Ended
<1> QED
  BY <1>4, <1>7 DEF HeldOfTicks

LEMMA TickBegin ==
    ASSUME HeldOfTicks, WalkOfTicks, terms.dex = "RaydiumCLMM", down \in BOOLEAN,
           amount_in \in Amounts, Begin
    PROVE  HeldOfTicks' /\ WalkOfTicks'
<1>1. /\ next = "begin" /\ next' = AfterWalk(walk') /\ UNCHANGED <<terms, down, amount_in, held>>
      /\ walk' = IF Missing \in ToSet(held.arrays) THEN Nothing
                 ELSE BeginSwap(held.pool, held.extension, TickSpacing, held.arrays, amount_in, down)
  BY DEF Begin, pvars
<1>2. \/ walk'.is = "none"
      \/ /\ walk' \in ClmmWalks /\ AtItsTick(walk', down) /\ InItsArray(walk', down)
         /\ walk'.remaining = amount_in
  <2>1. CASE Missing \in ToSet(held.arrays)
    BY <1>1, <2>1 DEF Nothing
  <2>2. CASE Missing \notin ToSet(held.arrays)
    <3>1. PICK s \in States["RaydiumCLMM"] : held.pool = PoolAccount("RaydiumCLMM", s)
      BY <1>1 DEF HeldOfTicks, HeldOf, PoolStates
    <3>2. held.extension \in TickExtensions /\ held.keys = KeysOf(held, 2).keys
      BY <1>1 DEF HeldOfTicks, HeldOf
    <3>3. PICK r \in States["RaydiumCLMM"] : held.extension = ExtensionAccount("RaydiumCLMM", r)
      BY <3>2 DEF TickExtensions
    <3>4. held.arrays \in Seq(ClmmArrays)
      <4>1. held.arrays \in Seq(ClmmArrays \cup {Missing})
        BY DEF HeldOfTicks, HeldOf
      <4> QED
        BY <2>2, <4>1, NoneMissing
    <3>5. FirstHeld(held.pool.tick_array_bitmap, held.extension, s.tick, down).is = "found"
            => held.arrays # <<>>
      <4>1. Len(held.arrays) = Len(held.keys)
        BY <1>1 DEF HeldOfTicks, HeldOf
      <4>2. /\ Len(held.keys) = 0 <=> held.keys = <<>>
            /\ FirstHeld(held.pool.tick_array_bitmap, held.extension, s.tick, down).is = "found"
                 => held.keys # <<>>
        BY <3>1, <3>2, FewTickKeys
      <4>3. held.arrays = <<>> => Len(held.arrays) = 0
        OBVIOUS
      <4> QED
        BY <4>1, <4>2, <4>3
    <3>6. PICK w : w = BeginSwap(held.pool, held.extension, TickSpacing, held.arrays, amount_in, down)
      OBVIOUS
    <3>7. \/ w.is = "none"
          \/ /\ w \in ClmmWalks /\ AtItsTick(w, down) /\ InItsArray(w, down)
             /\ w.remaining = amount_in
      BY <3>1, <3>3, <3>4, <3>5, <3>6, SwapBegins
    <3> QED
      BY <1>1, <2>2, <3>6, <3>7
  <2> QED
    BY <2>1, <2>2
<1>3. PICK w : w = walk'
  OBVIOUS
<1>4. w \in ClmmWalks => w.is = "walking"
  BY DEF ClmmWalks
<1>5. next' = IF w.is = "walking" THEN "walk" ELSE IF w.is = "amount" THEN "list" ELSE "none"
  BY <1>1, <1>3 DEF AfterWalk
<1>6. next' \in {"walk", "none"}
  BY <1>2, <1>3, <1>4, <1>5
<1>7. HeldOfTicks'
  BY <1>1, <1>6, HeldOfKept DEF HeldOfTicks
<1>8. w.is = "walking" => /\ w \in ClmmWalks /\ w.remaining =< amount_in
                          /\ AtItsTick(w, down) /\ InItsArray(w, down)
  <2>1. amount_in \in Nat
    BY DEF Amounts
  <2> QED
    BY <1>2, <1>3, <2>1
<1>9. w.is \in {"walking", "none"}
  BY <1>2, <1>3, <1>4
<1>10. WalkOfTicks'
  BY <1>1, <1>3, <1>5, <1>6, <1>8, <1>9 DEF WalkOfTicks, Ended, AtItsTick, InItsArray
<1> QED
  BY <1>7, <1>10

LEMMA TickWalk ==
    ASSUME HeldOfTicks, WalkOfTicks, terms \in Terms, terms.dex = "RaydiumCLMM", down \in BOOLEAN,
           amount_in \in Amounts, Walk
    PROVE  HeldOfTicks' /\ WalkOfTicks'
<1>1. /\ next = "walk" /\ next' = AfterWalk(walk') /\ UNCHANGED <<terms, down, amount_in, held>>
      /\ walk' = SwapLoop(held.pool, held.extension, TickSpacing, walk, terms.fee.rate, down)
  BY DEF Walk, pvars
<1>2. /\ walk \in ClmmWalks /\ walk.remaining =< amount_in
      /\ AtItsTick(walk, down) /\ InItsArray(walk, down)
  BY <1>1 DEF WalkOfTicks
<1>3. PICK rate \in 0..(FeeDenominator - 1) : rate = terms.fee.rate
  BY ClmmAssumption
<1>4. PICK A \in SUBSET ArrayOrdinals : Names(held.pool.tick_array_bitmap, held.extension, A)
  <2>1. held.pool \in PoolStates /\ held.extension \in TickExtensions
    BY <1>1 DEF HeldOfTicks, HeldOf
  <2>2. PICK s \in States["RaydiumCLMM"] : held.pool = PoolAccount("RaydiumCLMM", s)
    BY <2>1 DEF PoolStates
  <2>3. PICK r \in States["RaydiumCLMM"] : held.extension = ExtensionAccount("RaydiumCLMM", r)
    BY <2>1 DEF TickExtensions
  <2> QED
    BY <2>2, <2>3, TickBitmapsName
<1>5. PICK w : w = walk'
  OBVIOUS
<1>6. w.is = "amount" \/ Onward(w, walk, down)
  BY <1>1, <1>2, <1>3, <1>4, <1>5, SwapLoopKeeps
<1>7. /\ w.is \in {"amount", "panic", "none", "walking"}
      /\ w.is = "walking" => WalksOn(w, walk, down)
  BY <1>6 DEF Onward, WalksOn, ClmmWalks
<1>8. w.is = "walking" => /\ w \in ClmmWalks /\ w.remaining =< amount_in
                          /\ AtItsTick(w, down) /\ InItsArray(w, down)
  <2>1. amount_in \in Nat /\ walk.remaining \in Nat
    BY <1>2 DEF Amounts, ClmmWalks
  <2> QED
    BY <1>2, <1>7, <2>1 DEF WalksOn
<1>9. next' = IF w.is = "walking" THEN "walk" ELSE IF w.is = "amount" THEN "list" ELSE "none"
  BY <1>1, <1>5 DEF AfterWalk
<1>10. HeldOfTicks'
  <2>1. next' \notin {"pool", "extension", "arrays", "begin"} /\ next \notin {"pool", "extension"}
    BY <1>1, <1>9
  <2> QED
    BY <1>1, <2>1, HeldOfKept DEF HeldOfTicks
<1>11. WalkOfTicks'
  BY <1>1, <1>5, <1>7, <1>8, <1>9 DEF WalkOfTicks, Ended, AtItsTick, InItsArray
<1> QED
  BY <1>10, <1>11

LEMMA TickList ==
    ASSUME HeldOfTicks, WalkOfTicks, terms.dex = "RaydiumCLMM", UNCHANGED pvars,
           ListPool \/ ListArrays
    PROVE  HeldOfTicks' /\ WalkOfTicks'
<1>1. /\ next \in {"list", "list arrays"} /\ next' \in {"list arrays", "done", "none"}
      /\ UNCHANGED <<terms, down, amount_in, held>>
      /\ UNCHANGED walk \/ walk' = Aborted
  <2>1. CASE ListPool
    BY <2>1 DEF ListPool, pvars, HasBitmaps
  <2>2. CASE ListArrays
    BY <2>2 DEF ListArrays, pvars
  <2> QED
    BY <2>1, <2>2
<1>2. HeldOfTicks'
  BY <1>1, HeldOfKept DEF HeldOfTicks
<1>3. WalkOfTicks'
  <2>1. walk.is # "walking"
    BY <1>1 DEF WalkOfTicks
  <2>2. walk'.is = walk.is \/ walk'.is = "panic"
    <3>1. CASE UNCHANGED walk
      BY <3>1
    <3>2. CASE walk' = Aborted
      BY <3>2 DEF Aborted
    <3> QED
      BY <1>1, <3>1, <3>2
  <2>3. walk.is \in {"reading", "walking"} \cup Ended
    BY DEF WalkOfTicks
  <2>4. walk'.is # "walking" /\ walk'.is \in {"reading", "walking"} \cup Ended
    BY <2>1, <2>2, <2>3 DEF Ended
  <2> QED
    BY <1>1, <2>4 DEF WalkOfTicks
<1> QED
  BY <1>2, <1>3

LEMMA TickNext == Given /\ TickInv /\ [Next]_vars => TickInv'
<1> SUFFICES ASSUME Given, TickInv, [Next]_vars, terms'.dex = "RaydiumCLMM"
             PROVE  CacheOfTicks' /\ HeldOfTicks' /\ WalkOfTicks'
  BY DEF TickInv
<1>0. UNCHANGED pvars
  BY DEF Next, vars, pvars, Move, Update, ReadPool, ReadExtension, ReadArray, ReadOracle, Begin, Walk,
         ListPool, ListArrays
<1>1. UNCHANGED <<terms, down, amount_in>> /\ terms.dex = "RaydiumCLMM" /\ HasBitmaps(terms.dex)
  BY <1>0 DEF pvars, HasBitmaps
<1>2. CacheOfTicks /\ HeldOfTicks /\ WalkOfTicks
  BY <1>1 DEF TickInv
<1>3. terms \in Terms /\ down \in BOOLEAN /\ chain \in States["RaydiumCLMM"] /\ amount_in \in Amounts
  BY <1>1, StretchAssumption, WhirlpoolAssumption DEF Given, Amounts
<1>4. UNCHANGED cache => CacheOfTicks'
  BY <1>2, CacheOfKept DEF CacheOfTicks
<1>5. ASSUME UNCHANGED <<held, next, walk>> PROVE HeldOfTicks' /\ WalkOfTicks'
  <2>1. HeldOfTicks'
    BY <1>1, <1>2, <1>5, HeldOfKept DEF HeldOfTicks
  <2>2. WalkOfTicks'
    BY <1>1, <1>2, <1>5 DEF WalkOfTicks, AtItsTick, InItsArray
  <2> QED
    BY <2>1, <2>2
<1>6. CASE Move
  BY <1>4, <1>5, <1>6 DEF Move
<1>7. CASE Update
  <2>1. UNCHANGED <<held, next, walk>>
    BY <1>7 DEF Update
  <2>2. CacheOfTicks'
    BY <1>1, <1>2, <1>3, <1>7, CacheOfUpdate, TickAccounts DEF CacheOfTicks
  <2> QED
    BY <1>5, <2>1, <2>2
<1>8. CASE ReadPool
  <2>1. HeldOfTicks' /\ next' = "extension" /\ UNCHANGED walk /\ next = "pool" /\ UNCHANGED cache
    BY <1>1, <1>2, <1>8, HeldOfPool DEF HeldOfTicks, CacheOfTicks, ReadPool
  <2>2. WalkOfTicks'
    BY <1>2, <2>1 DEF WalkOfTicks
  <2> QED
    BY <1>4, <2>1, <2>2
<1>9. CASE ReadExtension
  BY <1>1, <1>2, <1>3, <1>4, <1>9, TickReadExtension DEF ReadExtension
<1>10. CASE ReadArray
  <2>1. /\ HeldOfTicks' /\ next' \in {"arrays", "begin"} /\ UNCHANGED walk /\ next = "arrays"
        /\ UNCHANGED cache
    BY <1>1, <1>2, <1>10, HeldOfArray, TickAccounts DEF HeldOfTicks, CacheOfTicks, ReadArray
  <2>2. WalkOfTicks'
    BY <1>2, <2>1 DEF WalkOfTicks
  <2> QED
    BY <1>4, <2>1, <2>2
<1>11. CASE ReadOracle
  BY <1>2, <1>11 DEF ReadOracle, WalkOfTicks
<1>12. CASE Begin
  BY <1>1, <1>2, <1>3, <1>4, <1>12, TickBegin DEF Begin
<1>13. CASE Walk
  BY <1>1, <1>2, <1>3, <1>4, <1>13, TickWalk DEF Walk
<1>14. CASE ListPool \/ ListArrays
  <2>1. UNCHANGED cache
    BY <1>14 DEF ListPool, ListArrays
  <2> QED
    BY <1>0, <1>1, <1>2, <1>4, <1>14, <2>1, TickList
<1>15. CASE UNCHANGED vars
  BY <1>4, <1>5, <1>15 DEF vars
<1> QED
  BY <1>6, <1>7, <1>8, <1>9, <1>10, <1>11, <1>12, <1>13, <1>14, <1>15 DEF Next

-----------------------------------------------------------------------------
(* Types and panics *)

\* A DAMM v2 quote reads no array, and panics over a pool without liquidity only.
PlainInv ==
    /\ moves \in 0..MaxMoves
    /\ terms.dex = "MeteoraDAMMV2" =>
         /\ {"pool", "keys", "arrays"} \subseteq DOMAIN held
         /\ held.keys = <<>> /\ held.arrays = <<>>
         /\ walk.is \in {"reading"} \cup Ended
         /\ walk.is = "panic" => held.pool.liquidity = 0

LEMMA PlainInit == Init => PlainInv
<1> SUFFICES ASSUME Init PROVE PlainInv
  OBVIOUS
<1>1. moves \in 0..MaxMoves
  BY StretchAssumption DEF Init
<1>2. {"pool", "keys", "arrays"} \subseteq DOMAIN held /\ held.keys = <<>> /\ held.arrays = <<>>
  BY DEF Init, Unread
<1>3. walk.is = "reading"
  BY DEF Init, Idle
<1> QED
  BY <1>1, <1>2, <1>3 DEF PlainInv

LEMMA PlainNext == QuoteInv /\ PlainInv /\ [Next]_vars => PlainInv'
<1> SUFFICES ASSUME QuoteInv, PlainInv, [Next]_vars PROVE PlainInv'
  OBVIOUS
<1>0. StretchInv
  BY DEF QuoteInv
<1>1. moves' \in 0..MaxMoves
  <2>1. moves \in 0..MaxMoves /\ MaxMoves \in Nat
    BY StretchAssumption DEF PlainInv
  <2>2. UNCHANGED moves \/ (moves < MaxMoves /\ moves' = moves + 1)
    BY DEF Next, vars, cvars, Move, Update, ReadPool, ReadExtension, ReadArray, ReadOracle,
           Begin, Walk, ListPool, ListArrays
  <2> QED
    BY <2>1, <2>2
<1>2. UNCHANGED pvars
  BY DEF Next, vars, pvars, Move, Update, ReadPool, ReadExtension, ReadArray, ReadOracle, Begin,
         Walk, ListPool, ListArrays
<1> SUFFICES ASSUME terms.dex = "MeteoraDAMMV2"
             PROVE  /\ {"pool", "keys", "arrays"} \subseteq DOMAIN held'
                    /\ held'.keys = <<>> /\ held'.arrays = <<>>
                    /\ walk'.is \in {"reading"} \cup Ended
                    /\ walk'.is = "panic" => held'.pool.liquidity = 0
  BY <1>1, <1>2 DEF PlainInv, pvars
<1>3. /\ next \in {"pool", "begin", "list", "none", "done"}
      /\ next = "pool" => walk.is = "reading"
  BY <1>0 DEF StretchInv
<1>4. CASE UNCHANGED <<held, walk>>
  BY <1>4 DEF PlainInv
<1>5. CASE ReadPool
  <2>1. KeysOfPool(cache.pool) = <<>>
    BY DEF KeysOfPool
  <2>2. /\ held' = [held EXCEPT !.pool = cache.pool, !.keys = <<>>] /\ UNCHANGED walk
        /\ walk.is = "reading"
    BY <1>3, <1>5, <2>1 DEF ReadPool
  <2> QED
    BY <2>2 DEF PlainInv
<1>6. CASE Begin
  <2>1. /\ walk' = QuoteDamm(held.pool, amount_in, terms.fee, Now, Slot, down)
        /\ UNCHANGED held
    BY <1>6 DEF Begin
  <2>2. walk'.is \in Ended /\ (walk'.is = "panic" => held.pool.liquidity = 0)
    BY <2>1 DEF QuoteDamm, Ended
  <2> QED
    BY <2>1, <2>2 DEF PlainInv
<1> QED
  BY <1>3, <1>4, <1>5, <1>6
  DEF Next, vars, Move, Update, ReadExtension, ReadArray, ReadOracle, Walk, ListPool, ListArrays

LEMMA PlainTypes ==
    QuoteInv /\ PlainInv /\ terms.dex = "MeteoraDAMMV2" => TypeOK
<1> SUFFICES ASSUME QuoteInv, PlainInv, terms.dex = "MeteoraDAMMV2" PROVE TypeOK
  OBVIOUS
<1>1. Given /\ StretchInv /\ moves \in 0..MaxMoves
  BY DEF QuoteInv, PlainInv
<1>2. /\ next \in {"pool", "begin", "list", "none", "done"}
      /\ held.keys = <<>> /\ held.arrays = <<>> /\ walk.is \in {"reading"} \cup Ended
  BY <1>1 DEF StretchInv, PlainInv
<1>3. Len(held.arrays) = 0 /\ Len(held.keys) = 0
  BY <1>2
<1>4. /\ walk.is # "walking" /\ walk.is \in {"reading", "walking"} \cup Ended
      /\ Len(held.arrays) =< Len(held.keys) /\ Len(held.keys) =< 3
  BY <1>2, <1>3 DEF Ended
<1> QED
  BY <1>1, <1>2, <1>4 DEF TypeOK, Given

LEMMA WhirlTypes ==
    Given /\ WhirlInv /\ moves \in 0..MaxMoves /\ terms.dex = "OrcaWhirl" => TypeOK
<1> SUFFICES ASSUME Given, WhirlInv, moves \in 0..MaxMoves, terms.dex = "OrcaWhirl" PROVE TypeOK
  OBVIOUS
<1>1. HeldHolds /\ WalkHolds /\ HasTicks(terms.dex)
  BY Whirl DEF WhirlInv
<1>2. Len(held.arrays) =< Len(held.keys) /\ Len(held.keys) =< 3
  <2>1. CASE next = "pool"
    <3>1. held.arrays = <<>> /\ held.keys = <<>>
      BY <1>1, <2>1 DEF HeldHolds
    <3> QED
      BY <3>1
  <2>2. CASE next # "pool"
    <3>1. Len(held.arrays) =< 3 /\ Len(held.keys) = 3
      BY <1>1, <2>2 DEF HeldHolds, ThreeKeys
    <3> QED
      BY <3>1
  <2> QED
    BY <2>1, <2>2
<1>3. ASSUME walk.is = "walking"
      PROVE  /\ walk.remaining \in 0..amount_in /\ Fits(walk.calculated)
             /\ walk.tick \in (MinTick - 1)..MaxTick
             /\ walk.price \in SqrtPrice[MinTick]..SqrtPrice[MaxTick]
  <2>1. walk \in Walks /\ walk.remaining =< amount_in
    BY <1>1, <1>3 DEF WalkHolds, Walked
  <2>2. walk.remaining \in Nat /\ amount_in \in Nat
    BY <2>1, StretchAssumption DEF Walks, Amounts, Given
  <2>3. Fits(walk.calculated)
    BY <2>1 DEF Walks, Amounts
  <2> QED
    BY <2>1, <2>2, <2>3 DEF Walks
<1> QED
  BY <1>1, <1>2, <1>3 DEF TypeOK, Given, WalkHolds, Ended

LEMMA BinTypes ==
    Given /\ BinInv /\ moves \in 0..MaxMoves /\ terms.dex = "MeteoraDLMM" => TypeOK
<1> SUFFICES ASSUME Given, BinInv, moves \in 0..MaxMoves, terms.dex = "MeteoraDLMM"
             PROVE  TypeOK
  OBVIOUS
<1>1. HeldOfBins /\ WalkOfBins /\ ~HasTicks(terms.dex)
  BY DEF BinInv, HasTicks
<1>2. Len(held.arrays) =< Len(held.keys) /\ Len(held.keys) =< 3
  <2>1. Len(held.arrays) =< Len(held.keys) /\ Len(held.keys) \in 0..3
    BY <1>1 DEF HeldOfBins, HeldOf
  <2>2. PICK n : n = Len(held.keys)
    OBVIOUS
  <2>3. n \in 0..3 => n =< 3
    OBVIOUS
  <2> QED
    BY <2>1, <2>2, <2>3
<1>3. ASSUME walk.is = "walking"
      PROVE  /\ walk.remaining \in 0..amount_in /\ Fits(walk.calculated)
             /\ walk.active_id \in (-MaxBin)..MaxBin
  <2>1. walk \in BinWalks /\ walk.remaining =< amount_in
    BY <1>1, <1>3 DEF WalkOfBins
  <2>2. walk.remaining \in Nat /\ amount_in \in Nat
    BY <2>1, StretchAssumption DEF BinWalks, Given
  <2>3. Fits(walk.calculated) /\ walk.active_id \in (-MaxBin)..MaxBin
    BY <2>1 DEF BinWalks, Amounts, BinIds
  <2> QED
    BY <2>1, <2>2, <2>3
<1>4. /\ next \in {"pool", "extension", "arrays", "begin", "walk", "list", "list arrays",
                   "none", "done"}
      /\ walk.is \in {"reading", "walking"} \cup Ended
  BY <1>1 DEF WalkOfBins, Ended
<1> QED
  BY <1>1, <1>2, <1>3, <1>4 DEF TypeOK, Given

LEMMA TickTypes ==
    Given /\ TickInv /\ moves \in 0..MaxMoves /\ terms.dex = "RaydiumCLMM" => TypeOK
<1> SUFFICES ASSUME Given, TickInv, moves \in 0..MaxMoves, terms.dex = "RaydiumCLMM"
             PROVE  TypeOK
  OBVIOUS
<1>1. HeldOfTicks /\ WalkOfTicks /\ HasTicks(terms.dex)
  BY DEF TickInv, HasTicks
<1>2. Len(held.arrays) =< Len(held.keys) /\ Len(held.keys) =< 3
  <2>1. PICK n : n = Len(held.keys)
    OBVIOUS
  <2>2. Len(held.arrays) =< Len(held.keys) /\ n \in 0..3
    BY <1>1, <2>1 DEF HeldOfTicks, HeldOf
  <2>3. n \in 0..3 => n =< 3
    OBVIOUS
  <2> QED
    BY <2>1, <2>2, <2>3
<1>3. ASSUME walk.is = "walking"
      PROVE  /\ walk.remaining \in 0..amount_in /\ Fits(walk.calculated)
             /\ walk.tick \in (MinTick - 1)..MaxTick
             /\ walk.price \in SqrtPrice[MinTick]..SqrtPrice[MaxTick]
  <2>1. walk \in ClmmWalks /\ walk.remaining =< amount_in
    BY <1>1, <1>3 DEF WalkOfTicks
  <2>2. walk.remaining \in Nat /\ amount_in \in Nat /\ Fits(walk.calculated)
    BY <2>1, StretchAssumption DEF ClmmWalks, Amounts, Given
  <2> QED
    BY <2>1, <2>2 DEF ClmmWalks
<1>4. /\ next \in {"pool", "extension", "arrays", "begin", "walk", "list", "list arrays",
                   "none", "done"}
      /\ walk.is \in {"reading", "walking"} \cup Ended
  BY <1>1 DEF WalkOfTicks
<1> QED
  BY <1>1, <1>2, <1>3, <1>4 DEF TypeOK, Given

LEMMA BinsNeverPanic ==
    BinInv /\ terms.dex = "MeteoraDLMM" => walk.is # "panic"
  BY DEF BinInv, WalkOfBins

LEMMA PlainPanics ==
    /\ WhirlInv /\ PlainInv /\ BinInv
    /\ terms.dex \in Dexes \ {"RaydiumCLMM"}
    => PanicsOnlyIfTornOrEmpty
  BY DEF Dexes, WhirlInv, WalkHolds, PlainInv, BinInv, WalkOfBins, PanicsOnlyIfTornOrEmpty

LEMMA QuoteInvariant == Spec => [](QuoteInv /\ WhirlInv /\ BinInv /\ TickInv /\ PlainInv)
<1>1. Init => QuoteInv /\ WhirlInv /\ BinInv /\ TickInv /\ PlainInv
  BY QuoteInit, WhirlInit, BinInit, TickInit, PlainInit
<1>2. QuoteInv /\ WhirlInv /\ BinInv /\ TickInv /\ PlainInv /\ [Next]_vars
        => (QuoteInv /\ WhirlInv /\ BinInv /\ TickInv /\ PlainInv)'
  BY QuoteNext, WhirlNext, BinNext, TickNext, PlainNext DEF QuoteInv
<1> QED
  BY <1>1, <1>2, PTL DEF Spec

\* What a quote of any of the four programs holds and walks is of its type: the walk
\* stays within the ticks, prices and bins there are, takes no more than goes in, and
\* what it counts up fits a u64, whatever is written between the reads.
THEOREM QuotesKeepTheirTypes == Spec => []TypeOK
<1>1. QuoteInv /\ WhirlInv /\ BinInv /\ TickInv /\ PlainInv => TypeOK
  BY PlainTypes, WhirlTypes, BinTypes, TickTypes, TermsAssumption
  DEF QuoteInv, Given, PlainInv, Dexes
<1> QED
  BY <1>1, QuoteInvariant, PTL

\* A quote over a Whirlpool or a DLMM pool never ends the process, and one over a
\* DAMM v2 pool only when the pool was read empty, whatever is written between the
\* reads.
THEOREM PoolsPanicOnlyIfEmpty == Spec => [](terms.dex # "RaydiumCLMM" => PanicsOnlyIfTornOrEmpty)
<1>1. QuoteInv /\ WhirlInv /\ BinInv /\ PlainInv
        => (terms.dex # "RaydiumCLMM" => PanicsOnlyIfTornOrEmpty)
  BY PlainPanics, TermsAssumption DEF QuoteInv, Given, Dexes
<1> QED
  BY <1>1, QuoteInvariant, PTL
=============================================================================
