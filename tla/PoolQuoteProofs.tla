--------------------------- MODULE PoolQuoteProofs ---------------------------
(***************************************************************************)
(* The constant-product quotes for every amount, fee, width and state of   *)
(* the pools, and the hops taken over a cache that changes meanwhile.      *)
(***************************************************************************)
EXTENDS PoolQuote, TLAPS

-----------------------------------------------------------------------------
(* Rounding *)

LEMMA DivFacts ==
    ASSUME NEW n \in Nat, NEW d \in Nat \ {0}
    PROVE  /\ n \div d \in Nat
           /\ n % d \in 0..(d - 1)
           /\ n = d * (n \div d) + (n % d)
           /\ d * (n \div d) =< n
  OBVIOUS

LEMMA Products ==
    ASSUME NEW a \in Int, NEW b \in Int, NEW c \in Nat
    PROVE  /\ a * c = c * a /\ c * a \in Int
           /\ a =< b => c * a =< c * b
           /\ c * a < c * b => a < b
           /\ c # 0 /\ c * a =< c * b => a =< b
           /\ c # 0 /\ a < b => c * a < c * b
  OBVIOUS

\* checked_ceil_div never returns less than half of a fee nor more than twice.
LEMMA CeilDivTwice ==
    ASSUME NEW n \in Nat, NEW d \in Nat \ {0}
    PROVE  /\ CheckedCeilDiv(n, d) \in Nat
           /\ d * CheckedCeilDiv(n, d) =< 2 * n
<1> DEFINE q == n \div d
<1>1. q \in Nat /\ d * q =< n
  BY DivFacts
<1>2. CASE q = 0
  BY <1>2 DEF CheckedCeilDiv
<1>3. CASE q # 0
  <2>1. CheckedCeilDiv(n, d) \in {q, q + 1}
    BY <1>3 DEF CheckedCeilDiv
  <2>2. q + 1 =< 2 * q
    BY <1>1, <1>3
  <2> HIDE DEF q
  <2>3. d * (q + 1) =< d * (2 * q) /\ d * q =< d * (2 * q)
    BY <1>1, <2>2
  <2>4. d * (2 * q) = 2 * (d * q)
    BY <1>1
  <2> QED
    BY <1>1, <2>1, <2>3, <2>4
<1> QED
  BY <1>2, <1>3

\* A fee of at most the whole is at most the amount.
LEMMA CeilDivWithin ==
    ASSUME NEW amount \in Nat, NEW num \in Nat, NEW d \in Nat \ {0}, num =< d
    PROVE  CheckedCeilDiv(amount * num, d) \in 0..amount
<1> DEFINE n == amount * num
           q == n \div d
           r == n % d
<1>1. n \in Nat /\ n =< d * amount
  BY Products
<1>2. q \in Nat /\ r \in 0..(d - 1) /\ n = d * q + r
  BY <1>1, DivFacts
<1>3. CheckedCeilDiv(n, d) =
        IF q = 0 THEN IF 2 * n >= d THEN 1 ELSE 0 ELSE IF r > 0 THEN q + 1 ELSE q
  BY DEF CheckedCeilDiv
<1>4. amount = 0 => n = 0
  OBVIOUS
<1> SUFFICES CheckedCeilDiv(n, d) \in 0..amount
  OBVIOUS
<1> HIDE DEF n, q, r
<1>5. CASE q = 0
  BY <1>1, <1>3, <1>4, <1>5
<1>6. CASE q # 0 /\ r > 0
  <2>1. d * q < d * amount
    BY <1>1, <1>2, <1>6
  <2>2. q < amount
    BY <1>2, <2>1, Products
  <2> QED
    BY <1>2, <1>3, <1>6, <2>2
<1>7. CASE q # 0 /\ r = 0
  <2>1. d * q =< d * amount
    BY <1>1, <1>2, <1>7
  <2>2. q =< amount
    BY <1>2, <2>1, Products
  <2> QED
    BY <1>2, <1>3, <1>7, <2>2
<1> QED
  BY <1>2, <1>5, <1>6, <1>7

USE FeeAssumption, QuoteAssumption

LEMMA TradingFeeWithin ==
    ASSUME NEW t \in CpmmTerms, t.rate =< FeeRateDenominator, NEW amount \in Nat
    PROVE  CpmmTradingFee(t, amount) \in 0..amount
<1> DEFINE d == FeeRateDenominator
           m == amount * t.rate + d - 1
           q == m \div d
<1>1. t.rate \in Nat /\ d \in Nat \ {0}
  BY DEF CpmmTerms
<1>2. amount * t.rate \in Nat /\ amount * t.rate =< d * amount
  BY <1>1, Products
<1>3. m \in Nat /\ m =< d * amount + d - 1
  BY <1>1, <1>2
<1>4. CpmmTradingFee(t, amount) = q
  BY DEF CpmmTradingFee
<1> HIDE DEF d, m
<1>5. m \div d \in Nat /\ d * (m \div d) =< m
  BY <1>1, <1>3, DivFacts
<1>6. d * (amount + 1) = d * amount + d /\ d * amount \in Nat /\ d * q \in Nat
  BY <1>1, <1>5
<1>7. q < amount + 1
  <2>1. d * q < d * (amount + 1)
    BY <1>1, <1>3, <1>5, <1>6
  <2> QED
    BY <1>1, <1>5, <2>1, Products
<1> QED
  BY <1>4, <1>5, <1>7

LEMMA PumpFeesWithin ==
    ASSUME NEW t \in PumpTerms, NEW amount \in Nat,
           2 * (t.lp + t.protocol + t.creator) =< BasisPoints
    PROVE  PumpFees(t, amount) \in 0..amount
<1> DEFINE d == BasisPoints
           a == CheckedCeilDiv(amount * t.lp, d)
           b == CheckedCeilDiv(amount * t.protocol, d)
           c == CheckedCeilDiv(amount * t.creator, d)
           rates == t.lp + t.protocol + t.creator
<1>1. t.lp \in Nat /\ t.protocol \in Nat /\ t.creator \in Nat /\ d \in Nat \ {0}
  BY DEF PumpTerms
<1>2. amount * t.lp \in Nat /\ amount * t.protocol \in Nat /\ amount * t.creator \in Nat
  BY <1>1
<1>3. /\ a \in Nat /\ d * a =< 2 * (amount * t.lp)
      /\ b \in Nat /\ d * b =< 2 * (amount * t.protocol)
      /\ c \in Nat /\ d * c =< 2 * (amount * t.creator)
  BY <1>1, <1>2, CeilDivTwice
<1>4. PumpFees(t, amount) = a + b + c
  BY DEF PumpFees
<1>5. 2 * (amount * t.lp) + 2 * (amount * t.protocol) + 2 * (amount * t.creator)
        = amount * (2 * rates)
  BY <1>1
<1>6. rates \in Nat /\ 2 * rates =< d
  BY <1>1
<1> HIDE DEF a, b, c, d, rates
<1>7. amount * (2 * rates) =< d * amount
  BY <1>1, <1>6
<1>8. d * (a + b + c) =< d * amount
  <2>1. d * (a + b + c) = d * a + d * b + d * c
    BY <1>1, <1>3
  <2>2. d * a \in Nat /\ d * b \in Nat /\ d * c \in Nat
    BY <1>1, <1>3
  <2> DEFINE x == amount * t.lp
             y == amount * t.protocol
             z == amount * t.creator
             w == amount * (2 * rates)
             u == d * amount
  <2>3. /\ x \in Nat /\ y \in Nat /\ z \in Nat
        /\ 2 * x + 2 * y + 2 * z = w /\ w =< u /\ u \in Nat
        /\ d * a =< 2 * x /\ d * b =< 2 * y /\ d * c =< 2 * z
    BY <1>1, <1>2, <1>3, <1>5, <1>7
  <2> SUFFICES d * (a + b + c) =< u
    OBVIOUS
  <2> HIDE DEF x, y, z, w, u
  <2> QED
    BY <2>1, <2>2, <2>3
<1>9. a + b + c =< amount
  BY <1>1, <1>3, <1>8
<1> QED
  BY <1>3, <1>4, <1>9

-----------------------------------------------------------------------------
(* One quote *)

\* v pays no more than reserve y is worth for n more of reserve x.
Pays(v, n, x, y) == x + n # 0 /\ v * (x + n) =< y * n

\* Deducting from the amount in can only make the pool pay less.
LEMMA SwappedPays ==
    ASSUME NEW n \in Nat, NEW a \in 0..n, NEW x \in Nat, NEW y \in Nat
    PROVE  \/ Swapped(a, x, y) = Abort /\ x = 0
           \/ /\ Swapped(a, x, y) \in 0..y
              /\ Pays(Swapped(a, x, y), n, x, y)
<1>1. CASE x + a = 0
  BY <1>1 DEF Swapped
<1>2. CASE x + a # 0
  <2> DEFINE v == (y * a) \div (x + a)
  <2>1. Swapped(a, x, y) = v
    BY <1>2 DEF Swapped
  <2>2. y * a \in Nat /\ x + a \in Nat \ {0}
    BY <1>2
  <2>3. v \in Nat /\ (x + a) * v =< y * a
    BY <2>2, DivFacts
  <2> HIDE DEF v
  <2>4. y * a =< (x + a) * y
    <3>1. a * y =< (x + a) * y
      BY Products
    <3> QED
      BY <3>1, Products
  <2>5. v =< y
    BY <2>2, <2>3, <2>4, Products
  <2>6. Pays(v, n, x, y)
    <3> DEFINE e == n - a
    <3>1. e \in Nat /\ n = a + e
      OBVIOUS
    <3>2. v * e =< y * e
      BY <2>3, <2>5, <3>1, Products
    <3>3. v * (x + n) = (x + a) * v + v * e
      BY <2>3, <3>1
    <3>4. y * n = y * a + y * e
      BY <3>1
    <3>5. (x + a) * v \in Int /\ v * e \in Int /\ y * e \in Int
      BY <2>3, <3>1
    <3> HIDE DEF e
    <3> QED
      BY <2>2, <2>3, <3>2, <3>3, <3>4, <3>5 DEF Pays
  <2> QED
    BY <2>1, <2>3, <2>5, <2>6
<1> QED
  BY <1>1, <1>2

LEMMA PaysLess ==
    ASSUME NEW v \in Nat, NEW w \in 0..v, NEW n \in Nat, NEW x \in Nat, NEW y \in Nat,
           Pays(v, n, x, y)
    PROVE  Pays(w, n, x, y)
<1>1. w * (x + n) =< v * (x + n)
  BY Products
<1> QED
  BY <1>1 DEF Pays

\* What a quote of reserves x and y may be.
GoodQuote(v, n, x, y) ==
    \/ v = NoQuote
    \/ v = Abort /\ x = 0
    \/ v \in 0..y /\ Pays(v, n, x, y)

LEMMA SwappedGood ==
    ASSUME NEW n \in Nat, NEW a \in 0..n, NEW x \in Nat, NEW y \in Nat
    PROVE  GoodQuote(Swapped(a, x, y), n, x, y) /\ Swapped(a, x, y) # NoQuote
<1> DEFINE v == Swapped(a, x, y)
<1>1. \/ v = Abort /\ x = 0
      \/ v \in 0..y /\ Pays(v, n, x, y)
  BY SwappedPays
<1> HIDE DEF v
<1>2. GoodQuote(v, n, x, y) /\ v # NoQuote
  BY <1>1 DEF GoodQuote
<1> QED
  BY <1>2 DEF v

LEMMA TryGood ==
    ASSUME NEW v, NEW n \in Nat, NEW x \in Nat, NEW y \in Nat, GoodQuote(v, n, x, y),
           v # NoQuote
    PROVE  /\ GoodQuote(TryU64(v), n, x, y)
           /\ TryU64(v) \in 0..(U64 - 1) \cup {NoQuote, Abort}
<1>1. CASE v = Abort
  BY <1>1 DEF TryU64, GoodQuote
<1>2. CASE v # Abort
  BY <1>2 DEF TryU64, GoodQuote
<1> QED
  BY <1>1, <1>2

\* Reserves as the quoter of terms t computes them.
Without(t, h, k) ==
    IF t.dex = "RaydiumAMM" THEN (h.vault[k] - h.owed[k]) % U64
    ELSE IF t.dex = "RaydiumCPMM" THEN h.vault[k] - h.owed[k]
    ELSE h.vault[k]

Quotes == 0..(U64 - 1) \cup {NoQuote, Abort}

LEMMA ReadingFacts ==
    ASSUME NEW h \in Readings, NEW k \in Sides
    PROVE  /\ 1 - k \in Sides
           /\ h.vault[k] \in 0..(U64 - 1) /\ h.owed[k] \in 0..(U64 - 1)
  BY DEF Readings, Amounts, Sides

LEMMA AmmGood ==
    ASSUME NEW t \in Terms, t.dex = "RaydiumAMM", NEW h \in Readings, NEW s \in Sides,
           NEW n \in 0..(U64 - 1)
    PROVE  /\ AmmQuote(t, h, s, n) \in Quotes
           /\ GoodQuote(AmmQuote(t, h, s, n), n, Without(t, h, s), Without(t, h, 1 - s))
<1> DEFINE x == Without(t, h, s)
           y == Without(t, h, 1 - s)
           fee == CheckedCeilDiv(n * t.numerator, t.denominator)
<1>1. x \in Nat /\ y \in Nat
  BY ReadingFacts DEF Without
<1>2. t.numerator \in Nat /\ t.denominator \in Nat \ {0} /\ t.numerator =< t.denominator
  BY DEF AmmTerms, CpmmTerms, PumpTerms
<1>3. n \in Nat
  OBVIOUS
<1>4. fee \in 0..n
  BY <1>2, <1>3, CeilDivWithin
<1>5. AmmQuote(t, h, s, n) = TryU64(Swapped(n - fee, x, y))
  BY DEF AmmQuote, Without
<1> HIDE DEF x, y, fee
<1>6. n - fee \in 0..n
  BY <1>3, <1>4
<1>7. GoodQuote(Swapped(n - fee, x, y), n, x, y) /\ Swapped(n - fee, x, y) # NoQuote
  BY <1>1, <1>3, <1>6, SwappedGood
<1>8. TryU64(Swapped(n - fee, x, y)) \in Quotes /\ GoodQuote(TryU64(Swapped(n - fee, x, y)), n, x, y)
  BY <1>1, <1>3, <1>7, TryGood DEF Quotes
<1> QED
  BY <1>5, <1>8 DEF x, y

LEMMA PumpGood ==
    ASSUME NEW t \in Terms, t.dex = "PumpFunAMM", NEW h \in Readings, NEW s \in Sides,
           NEW n \in 0..(U64 - 1)
    PROVE  /\ PumpQuote(t, h, s, n) \in Quotes
           /\ GoodQuote(PumpQuote(t, h, s, n), n, Without(t, h, s), Without(t, h, 1 - s))
<1> DEFINE x == h.vault[s]
           y == h.vault[1 - s]
<1>1. x \in Nat /\ y \in Nat /\ Without(t, h, s) = x /\ Without(t, h, 1 - s) = y
  BY ReadingFacts DEF Without
<1>2. t \in PumpTerms /\ 2 * (t.lp + t.protocol + t.creator) =< BasisPoints
  BY DEF AmmTerms, CpmmTerms, PumpTerms
<1>3. n \in Nat
  OBVIOUS
<1> HIDE DEF x, y
<1>4. CASE s = 0
  <2> DEFINE v == Swapped(n, x, y)
             w == v - PumpFees(t, v)
  <2>1. GoodQuote(v, n, x, y) /\ v # NoQuote
    <3>1. n \in 0..n
      BY <1>3
    <3> QED
      BY <1>1, <1>3, <3>1, SwappedGood
  <2>2. PumpQuote(t, h, s, n) = IF v = Abort THEN Abort ELSE TryU64(w)
    <3>1. 1 - s = 1
      BY <1>4
    <3> QED
      BY <1>4, <3>1 DEF PumpQuote, x, y
  <2> HIDE DEF v
  <2>3. CASE v = Abort
    BY <1>1, <2>1, <2>2, <2>3 DEF GoodQuote, Quotes
  <2>4. CASE v # Abort
    <3>1. v \in 0..y /\ Pays(v, n, x, y)
      BY <2>1, <2>4 DEF GoodQuote
    <3>2. PumpFees(t, v) \in 0..v
      BY <1>1, <1>2, <3>1, PumpFeesWithin
    <3>3. w \in 0..v /\ w \in 0..y
      BY <1>1, <3>1, <3>2
    <3> HIDE DEF w
    <3>4. Pays(w, n, x, y)
      BY <1>1, <1>3, <3>1, <3>3, PaysLess
    <3>5. TryU64(w) \in Quotes /\ GoodQuote(TryU64(w), n, x, y)
      BY <1>1, <1>3, <3>3, <3>4, TryGood DEF GoodQuote, Quotes
    <3> QED
      BY <1>1, <2>2, <2>4, <3>5
  <2> QED
    BY <2>3, <2>4
<1>5. CASE s = 1
  <2> DEFINE v == Swapped(n - PumpFees(t, n), x, y)
  <2>1. PumpFees(t, n) \in 0..n
    BY <1>2, <1>3, PumpFeesWithin
  <2>2. n - PumpFees(t, n) \in 0..n
    BY <1>3, <2>1
  <2>3. GoodQuote(v, n, x, y) /\ v # NoQuote
    BY <1>1, <1>3, <2>2, SwappedGood
  <2>4. PumpQuote(t, h, s, n) = TryU64(v)
    <3>1. 1 - s = 0 /\ s # 0
      BY <1>5
    <3> QED
      BY <1>5, <3>1 DEF PumpQuote, x, y
  <2> HIDE DEF v
  <2>5. TryU64(v) \in Quotes /\ GoodQuote(TryU64(v), n, x, y)
    BY <1>1, <1>3, <2>3, TryGood DEF Quotes
  <2> QED
    BY <1>1, <2>4, <2>5
<1> QED
  BY <1>4, <1>5 DEF Sides

LEMMA ReceivedWithin ==
    ASSUME NEW s \in Sides, NEW n \in 0..(U64 - 1)
    PROVE  Received(s, n) \in 0..n
<1>1. TransferFee(s, n) \in Nat
  OBVIOUS
<1> QED
  BY <1>1 DEF Received

LEMMA CpmmGood ==
    ASSUME NEW t \in Terms, t.dex = "RaydiumCPMM", NEW h \in Readings, NEW s \in Sides,
           NEW n \in 0..(U64 - 1)
    PROVE  /\ CpmmQuote(t, h, s, n) \in Quotes
           /\ (\A k \in Sides : h.owed[k] =< h.vault[k])
                => GoodQuote(CpmmQuote(t, h, s, n), n, Without(t, h, s), Without(t, h, 1 - s))
<1> DEFINE x == Without(t, h, s)
           y == Without(t, h, 1 - s)
           actual == Received(s, n)
           fee == CpmmTradingFee(t, actual)
           v == TryU64(Swapped(actual - fee, x, y))
           sent == TransferFee(1 - s, v)
           overdrawn == \E k \in Sides : h.vault[k] < h.owed[k]
<1>1. CpmmQuote(t, h, s, n) =
        IF overdrawn THEN Abort
        ELSE IF v \notin Nat THEN v
        ELSE IF sent > v THEN NoQuote ELSE v - sent
  <2>1. x = h.vault[s] - h.owed[s] /\ y = h.vault[1 - s] - h.owed[1 - s]
    BY DEF Without
  <2> HIDE DEF x, y
  <2> QED
    BY <2>1 DEF CpmmQuote
<1>2. ~overdrawn => x \in Nat /\ y \in Nat
  <2>1. 1 - s \in Sides
    BY ReadingFacts
  <2>2. \A k \in Sides : /\ h.vault[k] \in Nat /\ h.owed[k] \in Nat
                         /\ Without(t, h, k) = h.vault[k] - h.owed[k]
    BY ReadingFacts DEF Without
  <2>3. ASSUME ~overdrawn, NEW k \in Sides
        PROVE  Without(t, h, k) \in Nat
    <3>1. ~(h.vault[k] < h.owed[k])
      BY <2>3
    <3> QED
      BY <2>2, <3>1
  <2> HIDE DEF overdrawn
  <2>4. ~overdrawn => Without(t, h, s) \in Nat /\ Without(t, h, 1 - s) \in Nat
    BY <2>1, <2>3
  <2> QED
    BY <2>4
<1>3. overdrawn => ~ \A k \in Sides : h.owed[k] =< h.vault[k]
  BY ReadingFacts
<1>4. actual \in 0..n /\ actual \in Nat /\ n \in Nat
  BY ReceivedWithin
<1>5. fee \in 0..actual
  <2>1. t \in CpmmTerms /\ t.rate =< FeeRateDenominator
    BY DEF AmmTerms, CpmmTerms, PumpTerms
  <2> QED
    BY <1>4, <2>1, TradingFeeWithin
<1>6. ASSUME ~overdrawn
      PROVE  GoodQuote(v, n, x, y) /\ v \in Quotes
  <2> HIDE DEF x, y, fee, actual, overdrawn
  <2>1. actual - fee \in 0..n
    BY <1>4, <1>5
  <2>2. GoodQuote(Swapped(actual - fee, x, y), n, x, y) /\ Swapped(actual - fee, x, y) # NoQuote
    BY <1>2, <1>4, <1>6, <2>1, SwappedGood
  <2> QED
    BY <1>2, <1>4, <1>6, <2>2, TryGood DEF Quotes
<1>7. CASE overdrawn
  <2> HIDE DEF overdrawn
  <2> QED
    BY <1>1, <1>3, <1>7 DEF Quotes
<1>8. CASE ~overdrawn /\ v \notin Nat
  <2>1. CpmmQuote(t, h, s, n) = v
    BY <1>1, <1>8
  <2> QED
    BY <1>6, <1>8, <2>1
<1>9. CASE ~overdrawn /\ v \in Nat
  <2> HIDE DEF overdrawn, v, x, y
  <2>1. v \in 0..(U64 - 1) /\ v \in 0..y /\ Pays(v, n, x, y)
    BY <1>6, <1>9 DEF GoodQuote, Quotes
  <2>2. sent \in Nat
    BY <2>1, ReadingFacts
  <2>3. CASE sent > v
    BY <1>1, <1>9, <2>3 DEF GoodQuote, Quotes, x, y
  <2>4. CASE ~(sent > v)
    <3> DEFINE w == v - sent
    <3>1. w \in 0..v /\ w \in 0..(U64 - 1) /\ w \in 0..y
      BY <1>2, <1>9, <2>1, <2>2, <2>4
    <3>2. CpmmQuote(t, h, s, n) = w
      BY <1>1, <1>9, <2>4
    <3> HIDE DEF w
    <3>3. Pays(w, n, x, y)
      BY <1>2, <1>4, <1>9, <2>1, <3>1, PaysLess
    <3>4. GoodQuote(w, n, x, y) /\ w \in Quotes
      BY <3>1, <3>3 DEF GoodQuote, Quotes
    <3> QED
      BY <3>2, <3>4 DEF x, y
  <2> QED
    BY <2>3, <2>4
<1> QED
  BY <1>7, <1>8, <1>9

\* A quote is an amount, nothing or a panic, whatever was read.
LEMMA QuoteType ==
    ASSUME NEW t \in Terms, NEW h \in Readings, NEW s \in Sides, NEW n \in 0..(U64 - 1)
    PROVE  Quote(t, h, s, n) \in Quotes
<1>1. t.dex \in {"RaydiumAMM", "RaydiumCPMM", "PumpFunAMM"}
  BY DEF AmmTerms, CpmmTerms, PumpTerms
<1>2. CASE t.dex = "RaydiumAMM"
  BY <1>2, AmmGood DEF Quote
<1>3. CASE t.dex = "RaydiumCPMM"
  BY <1>3, CpmmGood DEF Quote
<1>4. CASE t.dex = "PumpFunAMM"
  BY <1>4, PumpGood DEF Quote
<1> QED
  BY <1>1, <1>2, <1>3, <1>4

LEMMA LegalFacts ==
    ASSUME NEW t \in Terms, NEW h \in Legal(t)
    PROVE  /\ h \in Readings
           /\ \A k \in Sides : h.owed[k] =< h.vault[k]
           /\ t.dex = "PumpFunAMM" => \A k \in Sides : h.owed[k] = 0
<1>1. PICK f \in [Sides -> Levels] : h = StateOf(f)
  BY DEF Legal
<1>2. \A k \in Sides : /\ f[k][1] \in 0..(U64 - 1) /\ f[k][2] \in 0..(U64 - 1)
                       /\ f[k][1] =< f[k][2]
  OBVIOUS
<1>3. /\ h.owed = [k \in Sides |-> f[k][1]] /\ h.vault = [k \in Sides |-> f[k][2]]
  BY <1>1 DEF StateOf
<1>4. h \in Readings
  BY <1>1, <1>2 DEF StateOf, Readings, Amounts
<1>5. \A k \in Sides : h.owed[k] =< h.vault[k]
  BY <1>2, <1>3
<1> QED
  BY <1>4, <1>5 DEF Legal

\* A quote read from a state of the pool pays no more than the reserves are
\* worth, and panics only without a reserve of the token in.
LEMMA LegalGood ==
    ASSUME NEW t \in Terms, NEW h \in Legal(t), NEW s \in Sides, NEW n \in 0..(U64 - 1)
    PROVE  /\ h.vault[s] - h.owed[s] \in Nat
           /\ h.vault[1 - s] - h.owed[1 - s] \in Nat
           /\ GoodQuote(Quote(t, h, s, n), n,
                        h.vault[s] - h.owed[s], h.vault[1 - s] - h.owed[1 - s])
<1>1. h \in Readings /\ \A k \in Sides : h.owed[k] =< h.vault[k]
  BY LegalFacts
<1>2. ASSUME NEW k \in Sides
      PROVE  h.vault[k] - h.owed[k] \in Nat /\ Without(t, h, k) = h.vault[k] - h.owed[k]
  <2>1. /\ h.vault[k] \in 0..(U64 - 1) /\ h.owed[k] \in 0..(U64 - 1)
        /\ h.owed[k] =< h.vault[k]
        /\ t.dex = "PumpFunAMM" => h.owed[k] = 0
    BY <1>1, ReadingFacts, LegalFacts
  <2>2. t.dex \in {"RaydiumAMM", "RaydiumCPMM", "PumpFunAMM"}
    BY DEF AmmTerms, CpmmTerms, PumpTerms
  <2>3. h.vault[k] - h.owed[k] \in 0..(U64 - 1)
    BY <2>1
  <2>4. (h.vault[k] - h.owed[k]) % U64 = h.vault[k] - h.owed[k]
    BY <2>3
  <2> QED
    BY <2>1, <2>2, <2>3, <2>4 DEF Without
<1>3. s \in Sides /\ 1 - s \in Sides
  BY DEF Sides
<1>4. t.dex \in {"RaydiumAMM", "RaydiumCPMM", "PumpFunAMM"}
  BY DEF AmmTerms, CpmmTerms, PumpTerms
<1>5. GoodQuote(Quote(t, h, s, n), n, Without(t, h, s), Without(t, h, 1 - s))
  <2>1. CASE t.dex = "RaydiumAMM"
    BY <1>1, <2>1, AmmGood DEF Quote
  <2>2. CASE t.dex = "RaydiumCPMM"
    BY <1>1, <2>2, CpmmGood DEF Quote
  <2>3. CASE t.dex = "PumpFunAMM"
    BY <1>1, <2>3, PumpGood DEF Quote
  <2> QED
    BY <1>4, <2>1, <2>2, <2>3
<1> QED
  BY <1>2, <1>3, <1>5

-----------------------------------------------------------------------------
(* The hops *)

\* Every hop done was quoted with what it read and with what the first returned.
QuotedInv ==
    \A h \in Hops : out[h] # Pending =>
        /\ AmountIn(h) \in 0..(U64 - 1)
        /\ out[h] = Quote(terms[path[h]], held[h], SideIn(h), AmountIn(h))

HopInv == TypeOK /\ QuotedInv

LEMMA WithAccountType ==
    ASSUME NEW s \in Readings, NEW r \in Readings, NEW a \in Accounts
    PROVE  WithAccount(s, r, a) \in Readings
<1>1. CASE a = "pool"
  BY <1>1 DEF WithAccount, Readings
<1>2. CASE a = "vault 0"
  BY <1>2 DEF WithAccount, Readings, Amounts, Sides
<1>3. CASE a = "vault 1"
  BY <1>3 DEF WithAccount, Readings, Amounts, Sides
<1> QED
  BY <1>1, <1>2, <1>3 DEF Accounts

LEMMA FirstReadType ==
    ASSUME NEW t
    PROVE  FirstRead(t) \in Accounts
  BY DEF FirstRead, Accounts

LEMMA InitHopInv == Init => HopInv
<1> SUFFICES ASSUME Init
             PROVE  HopInv
  OBVIOUS
<1>1. chain \in [Pools -> Readings]
  BY LegalFacts DEF Init
<1>2. Nothing \in Readings
  BY DEF Nothing, Readings, Amounts
<1>3. TypeOK
  BY <1>1, <1>2, FirstReadType DEF Init, TypeOK, Hops
<1>4. QuotedInv
  BY DEF Init, QuotedInv
<1> QED
  BY <1>3, <1>4 DEF HopInv

LEMMA TypeStep == TypeOK /\ [Next]_vars => TypeOK'
<1> SUFFICES ASSUME TypeOK, [Next]_vars
             PROVE  TypeOK'
  OBVIOUS
<1>1. ASSUME NEW p \in Pools, Move(p)
      PROVE  TypeOK'
  <2>1. PICK s \in Legal(terms[p]) :
          /\ chain' = [chain EXCEPT ![p] = s]
          /\ past' = [past EXCEPT ![p] = @ \cup {s}]
    BY <1>1 DEF Move
  <2>2. s \in Readings
    BY <2>1, LegalFacts DEF TypeOK
  <2>3. moves' \in 0..MaxMoves
    BY <1>1 DEF Move, TypeOK
  <2>4. \A q \in Pools : past'[q] \subseteq Legal(terms[q])
    BY <2>1 DEF TypeOK
  <2> QED
    BY <1>1, <2>1, <2>2, <2>3, <2>4 DEF Move, pvars, qvars, TypeOK
<1>2. ASSUME NEW p \in Pools, NEW a \in Accounts, Update(p, a)
      PROVE  TypeOK'
  <2>1. WithAccount(cache[p], chain[p], a) \in Readings
    BY WithAccountType DEF TypeOK
  <2> QED
    BY <1>2, <2>1 DEF Update, pvars, qvars, TypeOK
<1>3. CASE Read
  <2>1. hop \in Hops /\ next \in Accounts /\ path[hop] \in Pools
    BY <1>3 DEF Read, TypeOK
  <2>2. WithAccount(held[hop], cache[path[hop]], next) \in Readings
    BY <2>1, WithAccountType DEF TypeOK
  <2>3. After(next) \in Accounts \cup {"compute"}
    BY <2>1 DEF After, Accounts
  <2> QED
    BY <1>3, <2>1, <2>2, <2>3 DEF Read, pvars, TypeOK
<1>4. CASE Compute
  <2> DEFINE v == Quote(terms[path[hop]], held[hop], SideIn(hop), AmountIn(hop))
  <2>1. hop \in Hops /\ path[hop] \in Pools /\ terms[path[hop]] \in Terms /\ held[hop] \in Readings
    BY <1>4 DEF Compute, TypeOK
  <2>2. SideIn(hop) \in Sides /\ AmountIn(hop) \in 0..(U64 - 1)
    BY <2>1 DEF SideIn, AmountIn, TypeOK, Hops, Sides
  <2>3. v \in Quotes
    BY <2>1, <2>2, QuoteType
  <2>4. /\ out' = [out EXCEPT ![hop] = v]
        /\ hop' = IF v \in Nat THEN hop + 1 ELSE 3
        /\ next' = FirstRead(terms[path[2]])
        /\ UNCHANGED <<terms, path, side, amount_in, chain, cache, held, past, moves>>
    BY <1>4 DEF Compute, pvars
  <2> HIDE DEF v
  <2>5. next' \in Accounts
    BY <2>4, FirstReadType
  <2>6. hop' \in 1..3 /\ hop' > hop
    BY <2>1, <2>4 DEF Hops
  <2>7. out' \in [Hops -> 0..(U64 - 1) \cup {NoQuote, Abort, Pending}]
    BY <2>1, <2>3, <2>4 DEF TypeOK, Quotes
  <2>8. \A h \in Hops : h >= hop' => out'[h] = Pending
    BY <2>1, <2>4, <2>6 DEF TypeOK, Hops
  <2>9. hop' = 2 => out'[1] \in Nat
    BY <2>1, <2>4, <2>6 DEF TypeOK, Hops
  <2> QED
    BY <2>4, <2>5, <2>6, <2>7, <2>8, <2>9 DEF TypeOK
<1>5. CASE UNCHANGED vars
  BY <1>5 DEF vars, TypeOK
<1> QED
  BY <1>1, <1>2, <1>3, <1>4, <1>5 DEF Next

LEMMA QuotedStep == HopInv /\ [Next]_vars => QuotedInv'
<1> SUFFICES ASSUME TypeOK, QuotedInv, [Next]_vars
             PROVE  QuotedInv'
  BY DEF HopInv
<1>1. ASSUME UNCHANGED <<pvars, out, held>>
      PROVE  QuotedInv'
  BY <1>1 DEF QuotedInv, pvars, AmountIn, SideIn
<1>2. ASSUME NEW p \in Pools, Move(p)
      PROVE  QuotedInv'
  BY <1>1, <1>2 DEF Move, qvars
<1>3. ASSUME NEW p \in Pools, NEW a \in Accounts, Update(p, a)
      PROVE  QuotedInv'
  BY <1>1, <1>3 DEF Update, qvars
<1>4. CASE Read
  <2>1. UNCHANGED <<pvars, out>> /\ hop \in Hops
    BY <1>4 DEF Read
  <2>2. ASSUME NEW h \in Hops, out'[h] # Pending
        PROVE  held'[h] = held[h]
    <3>1. h # hop
      BY <2>1, <2>2 DEF TypeOK
    <3> QED
      BY <1>4, <3>1 DEF Read, TypeOK
  <2> QED
    BY <2>1, <2>2 DEF QuotedInv, pvars, AmountIn, SideIn
<1>5. CASE Compute
  <2>1. /\ hop \in Hops
        /\ out' = [out EXCEPT ![hop] = Quote(terms[path[hop]], held[hop], SideIn(hop), AmountIn(hop))]
        /\ UNCHANGED <<terms, path, side, amount_in, held>>
    BY <1>5 DEF Compute, pvars
  <2>2. AmountIn(hop) \in 0..(U64 - 1)
    BY <2>1 DEF AmountIn, TypeOK, Hops
  <2>3. hop = 2 => out'[1] = out[1]
    BY <2>1 DEF TypeOK, Hops
  <2>4. ASSUME NEW h \in Hops, out'[h] # Pending
        PROVE  /\ AmountIn(h)' = AmountIn(h) /\ SideIn(h)' = SideIn(h)
               /\ AmountIn(h) \in 0..(U64 - 1)
               /\ out'[h] = Quote(terms[path[h]], held[h], SideIn(h), AmountIn(h))
    <3>1. CASE h = hop
      BY <2>1, <2>2, <2>3, <3>1 DEF AmountIn, SideIn, TypeOK, Hops
    <3>2. CASE h # hop
      <4>1. out'[h] = out[h]
        BY <2>1, <3>2 DEF TypeOK
      <4>2. h = 1 /\ hop = 2
        BY <2>1, <2>4, <3>2, <4>1 DEF TypeOK, Hops
      <4> QED
        BY <2>1, <2>4, <4>1, <4>2 DEF QuotedInv, AmountIn, SideIn
    <3> QED
      BY <3>1, <3>2
  <2> QED
    BY <2>1, <2>4 DEF QuotedInv
<1>6. CASE UNCHANGED vars
  BY <1>1, <1>6 DEF vars, pvars
<1> QED
  BY <1>2, <1>3, <1>4, <1>5, <1>6 DEF Next

LEMMA HopInvariant == Spec => []HopInv
<1>1. HopInv /\ [Next]_vars => HopInv'
  BY TypeStep, QuotedStep DEF HopInv
<1> QED
  BY InitHopInv, <1>1, PTL DEF Spec

\* Amounts stay within u64 whatever is read, torn or not, and the accounts of a
\* quote are read in turn.
THEOREM QuoteTypes == Spec => []TypeOK
<1>1. HopInv => TypeOK
  BY DEF HopInv
<1> QED
  BY HopInvariant, <1>1, PTL

\* What the invariant says of a hop read from a state of its pool.
LEMMA UntornGood ==
    ASSUME HopInv, NEW h \in Hops, Untorn(h), out[h] # Pending
    PROVE  /\ ReserveIn(h) \in Nat /\ ReserveOut(h) \in Nat /\ AmountIn(h) \in Nat
           /\ GoodQuote(out[h], AmountIn(h), ReserveIn(h), ReserveOut(h))
<1>1. path[h] \in Pools /\ terms[path[h]] \in Terms /\ SideIn(h) \in Sides
  BY DEF HopInv, TypeOK, SideIn, Sides
<1>2. held[h] \in Legal(terms[path[h]])
  BY <1>1 DEF HopInv, TypeOK, Untorn
<1>3. /\ AmountIn(h) \in 0..(U64 - 1)
      /\ out[h] = Quote(terms[path[h]], held[h], SideIn(h), AmountIn(h))
  BY DEF HopInv, QuotedInv
<1>4. 0..(U64 - 1) \subseteq Nat
  OBVIOUS
<1> QED
  BY <1>1, <1>2, <1>3, <1>4, LegalGood DEF ReserveIn, ReserveOut, Reserve

\* For every fee, width and state: a quote that is not torn never lets the
\* product of the reserves fall.
THEOREM ProductNeverFalls == Spec => []ProductIsKept
<1>1. ASSUME HopInv, NEW h \in Hops, out[h] \in Nat, Untorn(h)
      PROVE  (ReserveIn(h) + AmountIn(h)) * (ReserveOut(h) - out[h])
                >= ReserveIn(h) * ReserveOut(h)
  <2> DEFINE x == ReserveIn(h)
             y == ReserveOut(h)
             n == AmountIn(h)
             v == out[h]
  <2>1. out[h] # Pending
    BY <1>1
  <2>2. /\ x \in Nat /\ y \in Nat /\ n \in Nat /\ v \in Nat
        /\ GoodQuote(v, n, x, y)
    BY <1>1, <2>1, UntornGood
  <2> SUFFICES (x + n) * (y - v) >= x * y
    OBVIOUS
  <2> HIDE DEF x, y, n, v
  <2>3. v * (x + n) =< y * n
    BY <2>2 DEF GoodQuote, Pays
  <2>4. (x + n) * (y - v) = x * y + y * n - v * (x + n)
    BY <2>2
  <2>5. x * y \in Int /\ y * n \in Int /\ v * (x + n) \in Int
    BY <2>2
  <2> QED
    BY <2>3, <2>4, <2>5
<1>2. HopInv => ProductIsKept
  BY <1>1 DEF ProductIsKept
<1> QED
  BY HopInvariant, <1>2, PTL

\* A panic of a quoter needs a torn read or an empty reserve.
THEOREM PanicsHaveACause == Spec => []PanicsOnlyIfTornOrEmpty
<1>1. ASSUME HopInv, NEW h \in Hops, out[h] = Abort, Untorn(h)
      PROVE  ReserveIn(h) = 0
  <2>1. GoodQuote(out[h], AmountIn(h), ReserveIn(h), ReserveOut(h)) /\ ReserveOut(h) \in Nat
    BY <1>1, UntornGood
  <2> QED
    BY <1>1, <2>1 DEF GoodQuote
<1>2. HopInv => PanicsOnlyIfTornOrEmpty
  BY <1>1 DEF PanicsOnlyIfTornOrEmpty
<1> QED
  BY HopInvariant, <1>2, PTL

\* Two payments that return more than went in are made at different prices.
LEMMA GainNeedsGap ==
    ASSUME NEW a \in Nat, NEW v \in Nat, NEW w \in Nat,
           NEW x1 \in Nat, NEW y1 \in Nat, NEW x2 \in Nat, NEW y2 \in Nat,
           Pays(v, a, x1, y1), Pays(w, v, y2, x2), w > a
    PROVE  y1 * x2 > x1 * y2
<1>1. v * (x1 + a) =< y1 * a /\ x1 + a # 0
  BY DEF Pays
<1>2. w * (y2 + v) =< x2 * v /\ y2 + v # 0
  BY DEF Pays
<1>3. (a + 1) * (y2 + v) =< x2 * v
  <2>1. (y2 + v) * (a + 1) =< (y2 + v) * w
    BY Products
  <2>2. (a + 1) * (y2 + v) = (y2 + v) * (a + 1) /\ (y2 + v) * w = w * (y2 + v)
    BY Products
  <2> QED
    BY <1>2, <2>1, <2>2
<1>4. v # 0
  <2>1. SUFFICES ASSUME v = 0
                 PROVE  FALSE
    OBVIOUS
  <2>2. x2 * v = 0
    BY <2>1
  <2>3. (a + 1) * (y2 + v) > 0
    BY <1>2
  <2> QED
    BY <1>3, <2>2, <2>3
<1>5. x2 * v > a * y2 /\ x2 # 0
  <2>1. (a + 1) * (y2 + v) = a * y2 + y2 + a * v + v
    OBVIOUS
  <2>2. a * y2 \in Nat /\ a * v \in Nat
    OBVIOUS
  <2>3. x2 * v > a * y2
    BY <1>3, <1>4, <2>1, <2>2
  <2>4. x2 = 0 => x2 * v = 0
    OBVIOUS
  <2> QED
    BY <2>2, <2>3, <2>4
<1>6. a # 0
  <2>1. SUFFICES ASSUME a = 0
                 PROVE  FALSE
    OBVIOUS
  <2>2. x1 # 0 /\ v * x1 =< 0
    BY <1>1, <2>1
  <2> QED
    BY <1>4, <2>2
<1>7. SUFFICES ASSUME y1 * x2 =< x1 * y2
               PROVE  FALSE
  OBVIOUS
<1> DEFINE p == x2 * v
           q == a * y2
<1>8. x1 * q =< x1 * p
  BY <1>5, Products
<1>9. a * (y1 * x2) =< a * (x1 * y2)
  BY <1>7, Products
<1>10. x2 * (v * (x1 + a)) =< x2 * (y1 * a)
  BY <1>1, Products
<1>11. /\ x1 * q = a * (x1 * y2)
       /\ a * (y1 * x2) = x2 * (y1 * a)
       /\ x2 * (v * (x1 + a)) = x1 * p + a * p
  OBVIOUS
<1>12. p \in Nat \ {0} /\ x1 * p \in Int
  BY <1>5
<1> HIDE DEF p
<1>13. a * p > 0
  BY <1>6, <1>12
<1> QED
  BY <1>8, <1>9, <1>10, <1>11, <1>12, <1>13

\* No rounding, fee, width or direction of a quoter makes up a profit between
\* pools of equal prices.
THEOREM NoPhantoms == Spec => []NoPhantomArbitrage
<1>1. ASSUME HopInv, hop = 3, out[2] \in Nat, out[2] > amount_in, Untorn(1), Untorn(2)
      PROVE  ReserveOut(1) * ReserveOut(2) > ReserveIn(1) * ReserveIn(2)
  <2>1. 1 \in Hops /\ 2 \in Hops /\ out[2] # Pending
    BY <1>1 DEF Hops
  <2>2. out[1] \in Nat /\ out[1] # Pending
    <3>1. AmountIn(2) \in 0..(U64 - 1) /\ AmountIn(2) = out[1]
      BY <1>1, <2>1 DEF HopInv, QuotedInv, AmountIn
    <3> QED
      BY <3>1
  <2>3. /\ amount_in \in Nat
        /\ ReserveIn(1) \in Nat /\ ReserveOut(1) \in Nat
        /\ GoodQuote(out[1], amount_in, ReserveIn(1), ReserveOut(1))
    BY <1>1, <2>1, <2>2, UntornGood DEF AmountIn
  <2>4. /\ ReserveIn(2) \in Nat /\ ReserveOut(2) \in Nat
        /\ GoodQuote(out[2], out[1], ReserveIn(2), ReserveOut(2))
    BY <1>1, <2>1, UntornGood DEF AmountIn
  <2>5. /\ Pays(out[1], amount_in, ReserveIn(1), ReserveOut(1))
        /\ Pays(out[2], out[1], ReserveIn(2), ReserveOut(2))
    BY <1>1, <2>2, <2>3, <2>4 DEF GoodQuote
  <2> QED
    BY <1>1, <2>2, <2>3, <2>4, <2>5, GainNeedsGap
<1>2. HopInv => NoPhantomArbitrage
  BY <1>1 DEF NoPhantomArbitrage
<1> QED
  BY HopInvariant, <1>2, PTL
=============================================================================
