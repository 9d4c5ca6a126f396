---------------------------- MODULE SearchProofs ----------------------------
(***************************************************************************)
(* Proofs about the searches for tick and bin arrays, for every width of   *)
(* the bitmaps and every pool: a search ends, and finds the nearest array  *)
(* that holds anything, through however many bitmaps; so the arrays listed *)
(* for a swap are the ones it may use.  First what is needed of numbers    *)
(* and of recursive functions, then the searches of either program, and    *)
(* last the quote that lists the arrays.                                   *)
(***************************************************************************)
EXTENDS ConcentratedQuote, FiniteSetTheorems, SequenceTheorems, WellFoundedInduction, TLAPS

-----------------------------------------------------------------------------
(* Numbers *)

LEMMA DivFacts ==
    ASSUME NEW n \in Nat, NEW d \in Nat \ {0}
    PROVE  /\ n \div d \in Nat
           /\ n % d \in 0..(d - 1)
           /\ n = d * (n \div d) + (n % d)
           /\ d * (n \div d) =< n
  OBVIOUS

LEMMA Products ==
    ASSUME NEW a \in Int, NEW b \in Int, NEW c \in Nat
    PROVE  /\ a * c = c * a /\ c * a \in Int
           /\ a =< b => c * a =< c * b
           /\ c * a < c * b => a < b
           /\ c # 0 /\ c * a =< c * b => a =< b
  OBVIOUS

\* The least of a set of numbers.
LEMMA LeastNat ==
    ASSUME NEW T, T \subseteq Nat, T # {}
    PROVE  \E x \in T : \A y \in T : x =< y
<1>1. PICK x \in T : \A y \in T : <<y, x>> \notin OpToRel(<, Nat)
  BY WFMin, NatLessThanWellFounded
<1>2. \A y \in T : ~(y < x)
  BY <1>1 DEF OpToRel
<1> QED
  BY <1>2

\* Numbers between two bounds have a greatest and a least one.
LEMMA GreatestOf ==
    ASSUME NEW a \in Int, NEW b \in Int, NEW S, S \subseteq a..b, S # {}
    PROVE  Max(S) \in S /\ \A x \in S : x =< Max(S)
<1> DEFINE T == {b - x : x \in S}
<1>1. T \subseteq Nat /\ T # {}
  OBVIOUS
<1>2. PICK n \in T : \A y \in T : n =< y
  BY <1>1, LeastNat
<1>3. PICK m \in S : n = b - m
  BY <1>2
<1>4. \A x \in S : m >= x
  <2> SUFFICES ASSUME NEW x \in S PROVE m >= x
    OBVIOUS
  <2>1. x \in Int /\ m \in Int
    OBVIOUS
  <2>2. n =< b - x
    BY <1>2
  <2> QED
    BY <1>3, <2>1, <2>2
<1> HIDE DEF T
<1>5. Max(S) \in S /\ \A x \in S : Max(S) >= x
  BY <1>4 DEF Max
<1>6. S \subseteq Int
  OBVIOUS
<1> QED
  BY <1>5, <1>6

LEMMA LeastOf ==
    ASSUME NEW a \in Int, NEW b \in Int, NEW S, S \subseteq a..b, S # {}
    PROVE  Min(S) \in S /\ \A x \in S : Min(S) =< x
<1> DEFINE T == {x - a : x \in S}
<1>1. T \subseteq Nat /\ T # {}
  OBVIOUS
<1>2. PICK n \in T : \A y \in T : n =< y
  BY <1>1, LeastNat
<1>3. PICK m \in S : n = m - a
  BY <1>2
<1>4. \A x \in S : m =< x
  <2> SUFFICES ASSUME NEW x \in S PROVE m =< x
    OBVIOUS
  <2>1. x \in Int /\ m \in Int
    OBVIOUS
  <2>2. n =< x - a
    BY <1>2
  <2> QED
    BY <1>3, <2>1, <2>2
<1> HIDE DEF T
<1> QED
  BY <1>4 DEF Min

\* The greater and the lesser of two numbers, and the nearer on the way.
LEMMA OfTwo ==
    ASSUME NEW a \in Int, NEW b \in Int
    PROVE  /\ Max({a, b}) = IF a >= b THEN a ELSE b
           /\ Min({a, b}) = IF a =< b THEN a ELSE b
<1>1. PICK lo \in Int, hi \in Int :
        /\ lo = (IF a =< b THEN a ELSE b) /\ hi = (IF a >= b THEN a ELSE b)
  OBVIOUS
<1>2. Max({a, b}) = hi
  <2>1. hi \in {a, b} /\ \A y \in {a, b} : hi >= y
    BY <1>1
  <2>2. \A x \in {a, b} : (\A y \in {a, b} : x >= y) => x = hi
    BY <1>1
  <2> QED
    BY <2>1, <2>2 DEF Max
<1>3. Min({a, b}) = lo
  <2>1. lo \in {a, b} /\ \A y \in {a, b} : lo =< y
    BY <1>1
  <2>2. \A x \in {a, b} : (\A y \in {a, b} : x =< y) => x = lo
    BY <1>1
  <2> QED
    BY <2>1, <2>2 DEF Min
<1> QED
  BY <1>1, <1>2, <1>3

LEMMA TickRange == MaxTick \in Nat \ {0} /\ MinTick = -MaxTick /\ MinTick \in Int
  BY BitmapAssumption DEF MinTick

LEMMA Ordered ==
    ASSUME NEW a \in Int, NEW b \in Int, NEW c \in Nat \ {0}
    PROVE  /\ a * c \in Int
           /\ a < b <=> a * c < b * c
           /\ a =< b <=> a * c =< b * c
           /\ (a + 1) * c = a * c + c
<1>1. ASSUME NEW x \in Int, NEW y \in Int, x < y PROVE x * c < y * c
  <2>1. PICK n \in Nat : y = x + 1 + n
    BY <1>1
  <2>2. y * c = x * c + c + n * c /\ n * c \in Nat /\ x * c \in Int
    BY <2>1
  <2> QED
    BY <2>2
<1>2. a * c \in Int /\ b * c \in Int
  OBVIOUS
<1>3. a < b => a * c < b * c
  BY <1>1
<1>4. b < a => b * c < a * c
  BY <1>1
<1> QED
  BY <1>2, <1>3, <1>4

LEMMA Quotient ==
    ASSUME NEW t \in Int, NEW c \in Nat \ {0}
    PROVE  /\ t \div c \in Int
           /\ (t \div c) * c =< t /\ t < ((t \div c) + 1) * c
           /\ \A k \in Int : k * c =< t /\ t < (k + 1) * c => t \div c = k
           /\ t % c = 0 => t = (t \div c) * c
<1>1. PICK q \in Int, r \in 0..(c - 1) : q = t \div c /\ r = t % c /\ t = c * q + r
  OBVIOUS
<1>2. c * q = q * c /\ q * c \in Int /\ (q + 1) * c = q * c + c
  OBVIOUS
<1>3. q * c =< t /\ t < (q + 1) * c
  BY <1>1, <1>2
<1>4. ASSUME NEW k \in Int, k * c =< t, t < (k + 1) * c PROVE q = k
  <2>1. k * c < (q + 1) * c /\ q * c < (k + 1) * c
    <3>1. k * c \in Int /\ (k + 1) * c \in Int /\ (q + 1) * c \in Int
      BY <1>2
    <3> QED
      BY <1>2, <1>3, <1>4, <3>1
  <2>2. k < q + 1 /\ q < k + 1
    <3>1. k \in Int /\ q \in Int /\ k + 1 \in Int /\ q + 1 \in Int
      OBVIOUS
    <3> QED
      BY <2>1, <3>1, Ordered
  <2> QED
    BY <2>2
<1> QED
  BY <1>1, <1>2, <1>3, <1>4

LEMMA MultipleIs ==
    ASSUME NEW k \in Int, NEW c \in Nat \ {0}
    PROVE  (k * c) \div c = k /\ (k * c) % c = 0
<1>1. PICK t \in Int : t = k * c
  OBVIOUS
<1>2. k * c =< t /\ t < (k + 1) * c
  BY <1>1, Ordered
<1>3. t \div c = k
  BY <1>2, Quotient
<1>4. PICK q \in Int, r \in 0..(c - 1) : q = t \div c /\ r = t % c /\ t = c * q + r
  OBVIOUS
<1>5. q = k /\ c * q = k * c
  BY <1>3, <1>4
<1>6. r = 0
  BY <1>1, <1>4, <1>5
<1> QED
  BY <1>1, <1>3, <1>4, <1>6

-----------------------------------------------------------------------------
(* Recursive functions: that there is one *)

\* Values of the function up to n.
PartOf(z, go, n, g) == g[0] = z /\ \A k \in 1..n : g[k] = go[k][g[k - 1]]

TwoParts(S, z, go, n, m, g, h) ==
    /\ z \in S /\ go \in [Nat -> [S -> S]] /\ n \in Nat /\ m \in Nat /\ n =< m
    /\ g \in [0..n -> S] /\ h \in [0..m -> S] /\ PartOf(z, go, n, g) /\ PartOf(z, go, m, h)

LEMMA PartsAgree ==
    ASSUME NEW S, NEW z, NEW go, NEW n, NEW m, NEW g, NEW h, TwoParts(S, z, go, n, m, g, h)
    PROVE  \A k \in 0..n : g[k] = h[k]
<1> USE DEF TwoParts
<1> DEFINE Bad == {k \in 0..n : g[k] # h[k]}
<1> SUFFICES ASSUME Bad # {} PROVE FALSE
  OBVIOUS
<1>1. Bad \subseteq Nat
  OBVIOUS
<1>2. PICK k \in Bad : \A l \in Bad : k =< l
  BY <1>1, LeastNat
<1>3. k # 0
  BY <1>2 DEF PartOf
<1>4. k \in 1..n /\ k \in 1..m /\ k - 1 \in 0..n
  BY <1>2, <1>3
<1>5. g[k - 1] = h[k - 1]
  BY <1>2, <1>4
<1> QED
  BY <1>2, <1>4, <1>5 DEF PartOf

LEMMA PrimitiveRecursion ==
    ASSUME NEW S, NEW z \in S, NEW go \in [Nat -> [S -> S]]
    PROVE  \E f \in [Nat -> S] : f = [n \in Nat |-> IF n = 0 THEN z ELSE go[n][f[n - 1]]]
<1> DEFINE Parts(n) == {g \in [0..n -> S] : PartOf(z, go, n, g)}
           Bad == {n \in Nat : Parts(n) = {}}
<1>1. Bad = {}
  <2> SUFFICES ASSUME Bad # {} PROVE FALSE
    OBVIOUS
  <2>1. Bad \subseteq Nat
    OBVIOUS
  <2> HIDE DEF Bad
  <2>2. PICK n \in Bad : \A m \in Bad : n =< m
    BY <2>1, LeastNat
  <2> USE DEF Bad
  <2>3. n # 0
    <3>1. [k \in 0..0 |-> z] \in Parts(0)
      BY DEF PartOf
    <3> QED
      BY <3>1
  <2>4. n - 1 \in Nat /\ n \in Nat /\ n - 1 \notin Bad
    BY <2>2, <2>3
  <2>5. PICK g \in [0..(n - 1) -> S] : PartOf(z, go, n - 1, g)
    BY <2>4
  <2> DEFINE h == [k \in 0..n |-> IF k = n THEN go[n][g[n - 1]] ELSE g[k]]
  <2>6. h \in [0..n -> S]
    BY <2>4, <2>5
  <2>7. PartOf(z, go, n, h)
    <3>1. h[0] = z
      BY <2>3, <2>4, <2>5 DEF PartOf
    <3>2. ASSUME NEW k \in 1..n PROVE h[k] = go[k][h[k - 1]]
      <4>1. CASE k = n
        BY <2>4, <4>1
      <4>2. CASE k # n
        <5>1. k \in 1..(n - 1) /\ k - 1 \in 0..n /\ k - 1 # n /\ k \in 0..n
          BY <2>4, <4>2
        <5>2. g[k] = go[k][g[k - 1]]
          BY <2>5, <5>1 DEF PartOf
        <5> QED
          BY <4>2, <5>1, <5>2
      <4> QED
        BY <4>1, <4>2
    <3> QED
      BY <3>1, <3>2 DEF PartOf
  <2>8. h \in Parts(n)
    BY <2>6, <2>7
  <2> QED
    BY <2>8
<1>2. ASSUME NEW n \in Nat PROVE (CHOOSE g \in Parts(n) : TRUE) \in Parts(n)
  <2>1. Parts(n) # {}
    BY <1>1
  <2> HIDE DEF Parts
  <2> QED
    BY <2>1
<1> DEFINE G(n) == CHOOSE g \in Parts(n) : TRUE
<1>3. ASSUME NEW n \in Nat PROVE G(n) \in [0..n -> S] /\ PartOf(z, go, n, G(n))
  BY <1>2
<1> HIDE DEF G
<1>4. PICK f : f = [n \in Nat |-> G(n)[n]]
  OBVIOUS
<1>5. f \in [Nat -> S]
  BY <1>3, <1>4
<1>6. ASSUME NEW n \in Nat PROVE f[n] = IF n = 0 THEN z ELSE go[n][f[n - 1]]
  <2>1. CASE n = 0
    BY <1>3, <1>4, <2>1 DEF PartOf
  <2>2. CASE n # 0
    <3>1. n - 1 \in Nat /\ n \in 1..n /\ n - 1 =< n /\ n - 1 \in 0..(n - 1)
      BY <2>2
    <3>2. G(n)[n] = go[n][G(n)[n - 1]]
      BY <1>3, <3>1 DEF PartOf
    <3>3. G(n - 1)[n - 1] = G(n)[n - 1]
      <4>1. PICK g, e : g = G(n - 1) /\ e = G(n)
        OBVIOUS
      <4>2. g \in [0..(n - 1) -> S] /\ PartOf(z, go, n - 1, g)
        BY <1>3, <3>1, <4>1
      <4>3. e \in [0..n -> S] /\ PartOf(z, go, n, e)
        BY <1>3, <3>1, <4>1
      <4>4. TwoParts(S, z, go, n - 1, n, g, e)
        BY <3>1, <4>2, <4>3 DEF TwoParts
      <4>5. \A k \in 0..(n - 1) : g[k] = e[k]
        BY <4>4, PartsAgree
      <4> QED
        BY <3>1, <4>1, <4>5
    <3>4. f[n] = G(n)[n] /\ f[n - 1] = G(n - 1)[n - 1]
      BY <1>4, <3>1
    <3> QED
      BY <2>2, <3>2, <3>3, <3>4
  <2> QED
    BY <2>1, <2>2
<1> DEFINE h == [n \in Nat |-> IF n = 0 THEN z ELSE go[n][f[n - 1]]]
<1>7. \A n \in Nat : f[n] = h[n]
  BY <1>6
<1>8. h \in [Nat -> S]
  <2>1. ASSUME NEW n \in Nat PROVE h[n] \in S
    BY <1>5, <1>6
  <2> QED
    BY <2>1
<1>9. f = h
  <2> HIDE DEF h
  <2> QED
    BY <1>5, <1>7, <1>8
<1> QED
  BY <1>5, <1>9

\* The part of a search that rank is below n.
Below(rank, n) == {i \in Int : rank[i] < n}
Searched(round, D, g) ==
    \A i \in D : g[i] = IF round[i].is = "not found" THEN g[round[i].start] ELSE round[i]
Ends(round, rank) ==
    \A i \in Int : round[i].is = "not found" =>
                      round[i].start \in Int /\ rank[round[i].start] < rank[i]

TwoSearches(R, round, rank, n, m, g, h) ==
    /\ round \in [Int -> R] /\ rank \in [Int -> Nat] /\ Ends(round, rank)
    /\ n \in Nat /\ m \in Nat /\ n =< m
    /\ Searched(round, Below(rank, n), g) /\ Searched(round, Below(rank, m), h)

LEMMA SearchesAgree ==
    ASSUME NEW R, NEW round, NEW rank, NEW n, NEW m, NEW g, NEW h,
           TwoSearches(R, round, rank, n, m, g, h)
    PROVE  \A i \in Below(rank, n) : g[i] = h[i]
<1> USE DEF TwoSearches
<1> DEFINE Bad == {k \in Nat : \E i \in Below(rank, n) : rank[i] = k /\ g[i] # h[i]}
<1>1. Bad = {}
  <2> SUFFICES ASSUME Bad # {} PROVE FALSE
    OBVIOUS
  <2>1. PICK k \in Bad : \A l \in Bad : k =< l
    <3>1. Bad \subseteq Nat
      OBVIOUS
    <3> HIDE DEF Bad
    <3> QED
      BY <3>1, LeastNat
  <2>2. PICK i \in Below(rank, n) : rank[i] = k /\ g[i] # h[i]
    BY <2>1
  <2>3. i \in Int /\ i \in Below(rank, m) /\ rank[i] \in Nat
    BY <2>2 DEF Below
  <2>4. round[i].is = "not found"
    BY <2>2, <2>3 DEF Searched
  <2>5. round[i].start \in Int /\ rank[round[i].start] < rank[i] /\ rank[round[i].start] \in Nat
    BY <2>3, <2>4 DEF Ends
  <2>6. round[i].start \in Below(rank, n)
    BY <2>2, <2>3, <2>5 DEF Below
  <2>7. g[round[i].start] = h[round[i].start]
    BY <2>1, <2>2, <2>5, <2>6
  <2> QED
    BY <2>2, <2>3, <2>4, <2>7 DEF Searched
<1>2. ASSUME NEW i \in Below(rank, n) PROVE rank[i] \in Nat
  BY DEF Below
<1> QED
  BY <1>1, <1>2

LEMMA SearchExists ==
    ASSUME NEW R, NEW round \in [Int -> R], NEW rank \in [Int -> Nat], Ends(round, rank)
    PROVE  \E f : f = [i \in Int |-> IF round[i].is = "not found" THEN f[round[i].start]
                                     ELSE round[i]]
<1> DEFINE Is(n, g) == g \in [Below(rank, n) -> R] /\ Searched(round, Below(rank, n), g)
           Bad == {n \in Nat : ~\E g : Is(n, g)}
<1>1. Bad = {}
  <2> SUFFICES ASSUME Bad # {} PROVE FALSE
    OBVIOUS
  <2>1. PICK n \in Bad : \A l \in Bad : n =< l
    <3>1. Bad \subseteq Nat
      OBVIOUS
    <3> HIDE DEF Bad
    <3> QED
      BY <3>1, LeastNat
  <2>2. n # 0
    <3>1. Below(rank, 0) = {}
      BY DEF Below
    <3>2. Is(0, [i \in {} |-> 0])
      BY <3>1 DEF Searched
    <3> QED
      BY <2>1, <3>2
  <2>3. n \in Nat /\ n - 1 \in Nat /\ n - 1 \notin Bad
    BY <2>1, <2>2
  <2>4. PICK g : Is(n - 1, g)
    BY <2>3
  <2> DEFINE h == [i \in Below(rank, n) |->
                     IF round[i].is = "not found" THEN g[round[i].start] ELSE round[i]]
  <2>5. ASSUME NEW i \in Below(rank, n), round[i].is = "not found"
        PROVE  round[i].start \in Below(rank, n - 1) /\ round[i].start \in Below(rank, n)
    <3>1. i \in Int /\ rank[i] < n /\ rank[i] \in Nat
      BY <2>5 DEF Below
    <3>2. round[i].start \in Int /\ rank[round[i].start] < rank[i] /\ rank[round[i].start] \in Nat
      BY <2>5, <3>1 DEF Ends
    <3> QED
      BY <2>3, <3>1, <3>2 DEF Below
  <2>6. h \in [Below(rank, n) -> R]
    <3>1. ASSUME NEW i \in Below(rank, n) PROVE h[i] \in R
      <4>1. i \in Int /\ round[i] \in R
        BY DEF Below
      <4> QED
        BY <2>4, <2>5, <4>1
    <3> QED
      BY <3>1
  <2>7. ASSUME NEW i \in Below(rank, n), round[i].is = "not found"
        PROVE  h[round[i].start] = g[round[i].start]
    <3>1. round[i].start \in Below(rank, n - 1) /\ round[i].start \in Below(rank, n)
      BY <2>5, <2>7
    <3> QED
      BY <2>4, <3>1 DEF Searched
  <2>8. Searched(round, Below(rank, n), h)
    BY <2>7 DEF Searched
  <2> QED
    BY <2>1, <2>6, <2>8
<1> DEFINE G(n) == CHOOSE g : Is(n, g)
<1>2. ASSUME NEW n \in Nat PROVE Is(n, G(n))
  <2>1. \E g : Is(n, g)
    BY <1>1
  <2> HIDE DEF Is
  <2> QED
    BY <2>1
<1> HIDE DEF G
<1>3. PICK f : f = [i \in Int |-> G(rank[i] + 1)[i]]
  OBVIOUS
<1>4. ASSUME NEW i \in Int
      PROVE  f[i] = IF round[i].is = "not found" THEN f[round[i].start] ELSE round[i]
  <2> DEFINE j == round[i].start
  <2>1. rank[i] \in Nat /\ rank[i] + 1 \in Nat /\ i \in Below(rank, rank[i] + 1)
    BY DEF Below
  <2>2. Searched(round, Below(rank, rank[i] + 1), G(rank[i] + 1))
    BY <1>2, <2>1
  <2>3. f[i] = IF round[i].is = "not found" THEN G(rank[i] + 1)[j] ELSE round[i]
    BY <1>3, <2>1, <2>2 DEF Searched
  <2>4. ASSUME round[i].is = "not found" PROVE f[j] = G(rank[i] + 1)[j]
    <3>0. j \in Int /\ rank[j] < rank[i]
      BY <2>4 DEF Ends
    <3> HIDE DEF j
    <3>1. rank[j] \in Nat /\ rank[j] + 1 \in Nat /\ rank[j] + 1 =< rank[i] + 1
          /\ j \in Below(rank, rank[j] + 1)
      BY <2>1, <3>0 DEF Below
    <3>2. Searched(round, Below(rank, rank[j] + 1), G(rank[j] + 1))
      BY <1>2, <3>1
    <3>3. G(rank[j] + 1)[j] = G(rank[i] + 1)[j]
      <4>1. PICK g, h, n, m : g = G(rank[j] + 1) /\ h = G(rank[i] + 1)
                              /\ n = rank[j] + 1 /\ m = rank[i] + 1
        OBVIOUS
      <4>2. n \in Nat /\ m \in Nat /\ n =< m /\ Searched(round, Below(rank, n), g)
            /\ Searched(round, Below(rank, m), h) /\ j \in Below(rank, n)
        BY <2>1, <2>2, <3>1, <3>2, <4>1
      <4>3. TwoSearches(R, round, rank, n, m, g, h)
        BY <4>2 DEF TwoSearches
      <4>4. \A k \in Below(rank, n) : g[k] = h[k]
        BY <4>3, SearchesAgree
      <4> QED
        BY <4>1, <4>2, <4>4
    <3>4. f[j] = G(rank[j] + 1)[j]
      BY <1>3, <3>0
    <3> QED
      BY <3>3, <3>4
  <2> QED
    BY <2>3, <2>4
<1> DEFINE e == [i \in Int |-> IF round[i].is = "not found" THEN f[round[i].start] ELSE round[i]]
<1>5. DOMAIN f = Int /\ DOMAIN e = Int /\ \A i \in Int : f[i] = e[i]
  BY <1>3, <1>4
<1>6. f = [i \in Int |-> f[i]] /\ e = [i \in Int |-> e[i]]
  BY <1>3
<1>7. f = e
  <2> HIDE DEF e
  <2> QED
    BY <1>5, <1>6
<1> QED
  BY <1>7

\* A search that ends finds what its first round does, or a search from where
\* that leaves off.
LEMMA SearchIs ==
    ASSUME NEW R, NEW round \in [Int -> R], NEW rank \in [Int -> Nat], Ends(round, rank),
           NEW i \in Int
    PROVE  Search(round, i) = IF round[i].is = "not found" THEN Search(round, round[i].start)
                              ELSE round[i]
<1> DEFINE Eq(f) == f = [k \in Int |-> IF round[k].is = "not found" THEN f[round[k].start]
                                       ELSE round[k]]
           F == CHOOSE f : Eq(f)
<1>1. PICK f : f = [k \in Int |-> IF round[k].is = "not found" THEN f[round[k].start]
                                  ELSE round[k]]
  BY SearchExists
<1>2. Eq(f)
  BY <1>1
<1>3. Eq(F)
  <2> HIDE DEF Eq
  <2> QED
    BY <1>2
<1>4. \A k : Search(round, k) = F[k]
  BY DEF Search
<1> HIDE DEF F
<1> QED
  BY <1>3, <1>4

-----------------------------------------------------------------------------
(* Numbers again *)

\* A number of arrays in bitmaps of w: which bitmap, and where in it.
LEMMA Splits ==
    ASSUME NEW m \in Int, NEW c \in Nat \ {0}, NEW w \in Nat \ {0}
    PROVE  /\ w * c \in Nat \ {0}
           /\ (m * c) \div (w * c) = m \div w
           /\ (m * c) % (w * c) = (m % w) * c
           /\ m \div w \in Int /\ m % w \in 0..(w - 1) /\ m = (m \div w) * w + (m % w)
<1>1. PICK q \in Int, r \in 0..(w - 1) : q = m \div w /\ r = m % w /\ m = q * w + r
  OBVIOUS
<1>2. PICK wide \in Nat \ {0} : wide = w * c
  <2>1. 0 * c < w * c /\ w * c \in Int
    <3>1. 0 < w /\ w \in Int /\ 0 \in Int
      OBVIOUS
    <3> QED
      BY <3>1, Ordered
  <2>2. 0 * c = 0
    OBVIOUS
  <2> QED
    BY <2>1, <2>2
<1>3. PICK t \in Int : t = m * c
  OBVIOUS
<1>4. t = q * wide + r * c
  <2>1. t = (q * w + r) * c
    BY <1>1, <1>3
  <2>2. (q * w + r) * c = q * (w * c) + r * c
    OBVIOUS
  <2> QED
    BY <1>2, <2>1, <2>2
<1>5. r * c \in Nat /\ r * c < wide
  <2>1. r * c \in Nat /\ r < w /\ r \in Int /\ w \in Int
    OBVIOUS
  <2>2. r * c < w * c
    BY <2>1, Ordered
  <2> QED
    BY <1>2, <2>1, <2>2
<1>6. (q + 1) * wide = q * wide + wide /\ q * wide \in Int
  BY Ordered
<1>7. t \div wide = q
  BY <1>4, <1>5, <1>6, Quotient
<1>8. PICK u \in Int, v \in 0..(wide - 1) : u = t \div wide /\ v = t % wide /\ t = wide * u + v
  OBVIOUS
<1>9. wide * u = q * wide
  BY <1>7, <1>8
<1>10. t % wide = r * c
  BY <1>4, <1>5, <1>6, <1>8, <1>9
<1> QED
  BY <1>1, <1>2, <1>3, <1>7, <1>10

\* Negation swaps the ends of a stretch of numbers.
LEMMA Negated ==
    ASSUME NEW m \in Int, NEW w \in Nat \ {0}
    PROVE  LET r == (-m) % w IN
             /\ r = 0 => m \div w = -((-m) \div w) /\ m % w = 0
             /\ r # 0 => m \div w = -((-m) \div w) - 1 /\ m % w = w - r
<1>1. PICK n \in Int : n = -m
  OBVIOUS
<1>2. PICK q \in Int, r \in 0..(w - 1) : q = n \div w /\ r = n % w /\ n = w * q + r
  OBVIOUS
<1>3. PICK u \in Int, v \in 0..(w - 1) : u = m \div w /\ v = m % w /\ m = w * u + v
  OBVIOUS
<1>4. ASSUME NEW a \in Int, NEW b \in 0..(w - 1), m = w * a + b PROVE u = a /\ v = b
  <2>1. a * w = w * a /\ a * w \in Int /\ (a + 1) * w = a * w + w
    OBVIOUS
  <2>2. m \div w = a
    BY <1>4, <2>1, Quotient
  <2> QED
    BY <1>3, <1>4, <2>2
<1>5. CASE r = 0
  <2>1. m = w * (-q) + 0
    BY <1>1, <1>2, <1>5
  <2>2. -q \in Int /\ 0 \in 0..(w - 1)
    OBVIOUS
  <2>3. u = -q /\ v = 0
    BY <1>4, <2>1, <2>2
  <2> QED
    BY <1>1, <1>2, <1>3, <1>5, <2>3
<1>6. CASE r # 0
  <2>1. m = w * (-q - 1) + (w - r)
    BY <1>1, <1>2
  <2>2. -q - 1 \in Int /\ w - r \in 0..(w - 1)
    BY <1>6
  <2>3. u = -q - 1 /\ v = w - r
    BY <1>4, <2>1, <2>2
  <2> QED
    BY <1>1, <1>2, <1>3, <1>6, <2>3
<1> QED
  BY <1>5, <1>6

-----------------------------------------------------------------------------
(* Numbers of tick arrays *)

\* Width of a tick array, and the first and the last one there can be.
Width == tick_count(TickSpacing)
FirstArray == MinTick \div Width
LastArray == MaxTick \div Width
ArrayOrdinals == FirstArray..LastArray

\* Ticks lie some way apart.
LEMMA SpacingIs == TickSpacing \in Nat \ {0} /\ TickSpacing \in Int
  BY WhirlpoolAssumption

\* An array is as wide as some ticks.
LEMMA WidthIs ==
    /\ Width \in Nat \ {0}
    /\ BitmapSize * Width \in Nat \ {0}
    /\ max_tick_in_tickarray_bitmap(TickSpacing) = BitmapSize * Width
<1>1. PICK s \in Nat \ {0}, a \in Nat \ {0}, b \in Nat \ {0} :
        s = TickSpacing /\ a = ArraySize /\ b = BitmapSize
  BY SpacingIs, BitmapAssumption
<1>2. 0 * s < a * s /\ a * s \in Int /\ 0 * s = 0
  BY Ordered
<1>3. a * s \in Nat \ {0}
  BY <1>2
<1>4. PICK c \in Nat \ {0} : c = a * s
  BY <1>3
<1>5. b * c \in Nat \ {0}
  <2>1. 0 * c < b * c /\ b * c \in Int /\ 0 * c = 0
    BY Ordered
  <2> QED
    BY <2>1
<1>6. s * a * b = b * c
  BY <1>4
<1> QED
  BY <1>1, <1>3, <1>4, <1>5, <1>6 DEF Width, tick_count, max_tick_in_tickarray_bitmap

\* Numbers of arrays that hold a tick.
LEMMA ArraysAreInRange ==
    /\ FirstArray \in Int /\ LastArray \in Int
    /\ FirstArray * Width =< MinTick /\ MinTick < (FirstArray + 1) * Width
    /\ LastArray * Width =< MaxTick /\ MaxTick < (LastArray + 1) * Width
    /\ FirstArray \in ArrayOrdinals /\ LastArray \in ArrayOrdinals
    /\ (Bitmaps + 1) * BitmapSize \in Nat
    /\ ArrayOrdinals \subseteq -((Bitmaps + 1) * BitmapSize)..((Bitmaps + 1) * BitmapSize - 1)
<1>1. PICK c \in Nat \ {0}, b \in Nat \ {0}, k \in Nat \ {0}, max \in Nat \ {0} :
        c = Width /\ b = BitmapSize /\ k = Bitmaps + 1 /\ max = MaxTick
  BY WidthIs, BitmapAssumption
<1>2. PICK f \in Int, l \in Int : f = (-max) \div c /\ l = max \div c
  BY Quotient
<1>3. f * c =< -max /\ -max < (f + 1) * c /\ l * c =< max /\ max < (l + 1) * c
  BY <1>2, Quotient
<1>4. PICK top \in Nat : top = k * b
  OBVIOUS
<1>5. max < top * c
  <2>1. max < (b * c) * k
    <3>1. max < max_tick_in_tickarray_bitmap(TickSpacing) * (Bitmaps + 1)
      BY <1>1, RaydiumAssumption
    <3> QED
      BY <1>1, <3>1, WidthIs
  <2>2. (b * c) * k = (k * b) * c
    OBVIOUS
  <2> QED
    BY <1>4, <2>1, <2>2
<1>6. l < top
  <2>1. l * c < top * c
    BY <1>3, <1>5
  <2> QED
    BY <2>1, Ordered
<1>7. -top =< f
  <2>1. (-top) * c < (f + 1) * c
    <3>1. (-top) * c = -(top * c)
      OBVIOUS
    <3> QED
      BY <1>3, <1>5, <3>1
  <2>2. -top \in Int /\ f + 1 \in Int
    OBVIOUS
  <2>3. -top < f + 1
    BY <2>1, <2>2, Ordered
  <2> QED
    BY <2>3
<1>8. f =< l
  <2>1. f * c < (l + 1) * c
    BY <1>3
  <2>2. f < l + 1
    BY <2>1, Ordered
  <2> QED
    BY <2>2
<1>9. FirstArray = f /\ LastArray = l
  BY <1>1, <1>2 DEF FirstArray, LastArray, MinTick
<1> QED
  BY <1>1, <1>3, <1>4, <1>6, <1>7, <1>8, <1>9 DEF ArrayOrdinals, MinTick

\* Array m is beyond the bitmap of the pool.
Outward(m) == m < -BitmapSize \/ m >= BitmapSize

\* Bitmap f of the extension, f widths up from zero.
Bitmap(x, f) == IF f < 0 THEN x.negative[-f - 2] ELSE x.positive[f - 1]

\* Where an array starts is a number.
LEMMA StartsAt ==
    ASSUME NEW n \in ArrayOrdinals
    PROVE  check_is_valid_start_index(n * Width, TickSpacing) /\ n * Width \in Int
<1>1. PICK c \in Nat \ {0} : c = Width
  BY WidthIs
<1>2. n \in Int /\ FirstArray =< n /\ n =< LastArray /\ FirstArray \in Int /\ LastArray \in Int
  BY ArraysAreInRange DEF ArrayOrdinals
<1>3. n * c \in Int /\ n * c =< MaxTick
  <2>1. n * c =< LastArray * c /\ n * c \in Int
    BY <1>2, Ordered
  <2>2. LastArray * c =< MaxTick /\ LastArray * c \in Int
    BY <1>1, <1>2, ArraysAreInRange
  <2> QED
    BY <2>1, <2>2, TickRange
<1>4. (n * c) % c = 0
  BY <1>2, MultipleIs
<1>5. CASE n * c < MinTick
  <2>1. n = FirstArray
    <3>1. MinTick < (FirstArray + 1) * c /\ (FirstArray + 1) * c \in Int
      BY <1>1, <1>2, ArraysAreInRange
    <3>2. n * c < (FirstArray + 1) * c
      BY <1>3, <1>5, <3>1, TickRange
    <3>3. n < FirstArray + 1
      BY <1>2, <3>2, Ordered
    <3> QED
      BY <1>2, <3>3
  <2> QED
    BY <1>1, <1>3, <1>5, <2>1, TickRange
       DEF check_is_valid_start_index, check_is_out_of_boundary, get_array_start_index, FirstArray,
           Width
<1>6. CASE n * c >= MinTick
  BY <1>1, <1>3, <1>4, <1>6, TickRange
     DEF check_is_valid_start_index, check_is_out_of_boundary, Width
<1> QED
  BY <1>1, <1>3, <1>5, <1>6, TickRange

\* Starts the search accepts are those of arrays.
LEMMA ValidStarts ==
    ASSUME NEW i \in Int, check_is_valid_start_index(i, TickSpacing)
    PROVE  \E n \in ArrayOrdinals : i = n * Width
<1>1. PICK c \in Nat \ {0} : c = Width
  BY WidthIs
<1>2. FirstArray \in Int /\ LastArray \in Int /\ FirstArray \in ArrayOrdinals
  BY ArraysAreInRange
<1>3. CASE check_is_out_of_boundary(i)
  <2>1. i = FirstArray * Width
    BY <1>3 DEF check_is_valid_start_index, get_array_start_index, FirstArray, Width
  <2> QED
    BY <1>2, <2>1
<1>4. CASE ~check_is_out_of_boundary(i)
  <2>1. i % c = 0 /\ MinTick =< i /\ i =< MaxTick
    BY <1>1, <1>4, TickRange DEF check_is_valid_start_index, check_is_out_of_boundary, Width
  <2>2. PICK n \in Int : n = i \div c /\ i = n * c
    BY <2>1, Quotient
  <2>3. FirstArray < n + 1
    <3>1. FirstArray * c =< MinTick /\ FirstArray * c \in Int
      BY <1>1, <1>2, ArraysAreInRange
    <3>2. FirstArray * c < (n + 1) * c
      <4>1. (n + 1) * c = n * c + c
        BY Ordered
      <4> QED
        BY <2>1, <2>2, <3>1, <4>1, TickRange
    <3>3. n + 1 \in Int
      OBVIOUS
    <3> QED
      BY <1>2, <3>2, <3>3, Ordered
  <2>4. n < LastArray + 1
    <3>1. MaxTick < (LastArray + 1) * c /\ (LastArray + 1) * c \in Int
      BY <1>1, <1>2, ArraysAreInRange
    <3>2. n * c < (LastArray + 1) * c
      BY <2>1, <2>2, <3>1, TickRange
    <3> QED
      BY <1>2, <3>2, Ordered
  <2>5. n \in ArrayOrdinals
    BY <1>2, <2>3, <2>4 DEF ArrayOrdinals
  <2> QED
    BY <1>1, <2>2, <2>5
<1> QED
  BY <1>3, <1>4

\* AbsOf is the distance from zero.
LEMMA DistanceIs ==
    ASSUME NEW n \in Int
    PROVE  AbsOf(n) = IF n < 0 THEN -n ELSE n
  BY DEF AbsOf

\* Where an array is in the extension.
LEMMA InExtension ==
    ASSUME NEW m \in ArrayOrdinals, Outward(m), NEW x
    PROVE  LET f == m \div BitmapSize
               i == m * Width
           IN  /\ get_bitmap(x, i, TickSpacing) = Bitmap(x, f)
               /\ tick_array_offset_in_bitmap(i, TickSpacing) = m % BitmapSize
               /\ get_bitmap_tick_boundary(i, TickSpacing) = (f * BitmapSize) * Width
               /\ f < 0 => -f - 2 \in 0..(Bitmaps - 1)
               /\ f >= 0 => f - 1 \in 0..(Bitmaps - 1)
<1>1. PICK c \in Nat \ {0}, w \in Nat \ {0}, b \in Nat :
        c = Width /\ w = BitmapSize /\ b = Bitmaps
  BY WidthIs, BitmapAssumption
<1>2. PICK wide \in Nat \ {0} :
        wide = w * c /\ wide = max_tick_in_tickarray_bitmap(TickSpacing)
  BY <1>1, WidthIs
<1>3. PICK f \in Int, r \in 0..(w - 1) : f = m \div w /\ r = m % w /\ m = f * w + r
  <2>1. m \in Int
    BY ArraysAreInRange DEF ArrayOrdinals
  <2>2. m \div w \in Int /\ m % w \in 0..(w - 1) /\ m = w * (m \div w) + (m % w)
    BY <2>1
  <2>3. w * (m \div w) = (m \div w) * w
    BY <2>2
  <2> QED
    BY <2>2, <2>3
<1>4. PICK i \in Int : i = m * c
  BY <1>1, StartsAt
<1>5. m \in Int /\ (m < 0 <=> i < 0) /\ (m < 0 <=> f < 0)
  <2>1. m \in Int /\ 0 * c = 0 /\ 0 * w = 0
    BY <1>1, ArraysAreInRange DEF ArrayOrdinals
  <2>2. m < 0 <=> m * c < 0 * c
    BY <2>1, Ordered
  <2>3. f < 0 => f + 1 =< 0 /\ (f + 1) * w =< 0 * w /\ (f + 1) * w = f * w + w
    <3>1. f + 1 \in Int
      OBVIOUS
    <3> QED
      BY <3>1, Ordered
  <2>4. f >= 0 => 0 * w =< f * w
    BY Ordered
  <2> QED
    BY <1>3, <1>4, <2>1, <2>2, <2>3, <2>4
<1>6. (b + 1) * w \in Int /\ -((b + 1) * w) =< m /\ m < (b + 1) * w
  BY <1>1, ArraysAreInRange
<1>7. CASE m >= 0
  <2>1. AbsOf(i) = i /\ AbsOf(i) \div wide = f /\ AbsOf(i) % wide = r * c /\ ~(i < 0)
    <3>1. i \div wide = f /\ i % wide = r * c
      <4>1. (m * c) \div (w * c) = m \div w /\ (m * c) % (w * c) = (m % w) * c
        BY <1>5, Splits, ZenonT(40)
      <4> QED
        BY <1>2, <1>3, <1>4, <4>1
    <3> QED
      BY <1>5, <1>7, <3>1, DistanceIs
  <2>2. (r * c) \div c = r /\ r \in Int
    BY MultipleIs
  <2>3. f >= 1 /\ f =< b
    <3>1. f < 1 => f * w =< 0 * w /\ 0 * w = 0
      <4>1. f < 1 => f =< 0
        OBVIOUS
      <4> QED
        BY <4>1, Ordered
    <3>2. m >= w
      BY <1>1, <1>5, <1>7 DEF Outward
    <3>3. f < b + 1
      <4>1. f * w < (b + 1) * w
        BY <1>3, <1>6
      <4> QED
        BY <4>1, Ordered
    <3> QED
      BY <1>3, <3>1, <3>2, <3>3
  <2>4. get_bitmap_offset(i, TickSpacing) = f - 1
    BY <1>2, <2>1 DEF get_bitmap_offset
  <2>5. get_bitmap(x, i, TickSpacing) = x.positive[f - 1]
    BY <2>1, <2>4 DEF get_bitmap
  <2>6. tick_array_offset_in_bitmap(i, TickSpacing) = r
    BY <1>1, <1>2, <2>1, <2>2 DEF tick_array_offset_in_bitmap, Width
  <2>7. get_bitmap_tick_boundary(i, TickSpacing) = (f * w) * c
    <3>1. wide * f = (f * w) * c
      BY <1>2
    <3> QED
      BY <1>2, <2>1, <3>1 DEF get_bitmap_tick_boundary
  <2> QED
    BY <1>1, <1>3, <1>4, <1>5, <1>7, <2>3, <2>5, <2>6, <2>7 DEF Bitmap
<1>8. CASE m < 0
  <2>1. PICK q \in Int, v \in 0..(w - 1) : q = (-m) \div w /\ v = (-m) % w
    <3>1. -m \in Int
      BY <1>5
    <3> QED
      BY <3>1, Splits
  <2>2. AbsOf(i) \div wide = q /\ AbsOf(i) % wide = v * c /\ i < 0
    <3>1. PICK n \in Int : n = -m
      BY <1>5
    <3>2. (n * c) \div wide = q /\ (n * c) % wide = v * c
      <4>1. (n * c) \div (w * c) = n \div w /\ (n * c) % (w * c) = (n % w) * c
        BY Splits, ZenonT(40)
      <4> QED
        BY <1>2, <2>1, <3>1, <4>1
    <3>3. -i = n * c
      <4>1. (-m) * c = -(m * c)
        BY <1>5
      <4> QED
        BY <1>4, <3>1, <4>1
    <3> QED
      BY <1>5, <1>8, <3>2, <3>3, DistanceIs
  <2>3. (v * c) \div c = v /\ (v * c = 0 <=> v = 0)
    <3>1. v \in Int /\ 0 * c = 0
      OBVIOUS
    <3>2. 0 < v <=> 0 * c < v * c
      BY <3>1, Ordered
    <3> QED
      BY <3>1, <3>2, MultipleIs
  <2>4. /\ v = 0 => f = -q /\ r = 0
        /\ v # 0 => f = -q - 1 /\ r = w - v
    BY <1>3, <1>5, <2>1, Negated
  <2>5. -f - 2 \in 0..(b - 1)
    <3>1. f =< -2
      <4>1. f >= -1 => -1 * w =< f * w
        <5>1. -1 \in Int
          OBVIOUS
        <5> QED
          BY <5>1, Ordered
      <4>2. m < -w
        BY <1>1, <1>5, <1>8 DEF Outward
      <4>3. -1 * w = -w
        OBVIOUS
      <4> QED
        BY <1>3, <4>1, <4>2, <4>3
    <3>2. -(b + 1) < f + 1
      <4>1. -(b + 1) \in Int /\ f + 1 \in Int
        OBVIOUS
      <4>2. (-(b + 1)) * w = -((b + 1) * w) /\ (f + 1) * w = f * w + w
        OBVIOUS
      <4>3. (-(b + 1)) * w < (f + 1) * w
        BY <1>3, <1>6, <4>2
      <4> QED
        BY <4>1, <4>3, Ordered
    <3> QED
      BY <3>1, <3>2
  <2>6. get_bitmap_offset(i, TickSpacing) = -f - 2
    BY <1>2, <2>2, <2>3, <2>4 DEF get_bitmap_offset
  <2>7. get_bitmap(x, i, TickSpacing) = x.negative[-f - 2]
    BY <2>2, <2>6 DEF get_bitmap
  <2>8. tick_array_offset_in_bitmap(i, TickSpacing) = r
    BY <1>1, <1>2, <2>2, <2>3, <2>4 DEF tick_array_offset_in_bitmap, Width
  <2>9. get_bitmap_tick_boundary(i, TickSpacing) = (f * w) * c
    <3>1. CASE v = 0
      <4>1. m = f * w
        BY <1>3, <1>5, <2>4, <3>1
      <4> QED
        BY <1>2, <1>4, <2>2, <2>3, <3>1, <4>1 DEF get_bitmap_tick_boundary
    <3>2. CASE v # 0
      <4>1. (-wide) * (q + 1) = (f * w) * c
        <5>1. q + 1 = -f
          BY <2>4, <3>2
        <5>2. (-wide) * (-f) = f * wide
          OBVIOUS
        <5>3. f * (w * c) = (f * w) * c
          OBVIOUS
        <5> QED
          BY <1>2, <5>1, <5>2, <5>3
      <4> QED
        BY <1>2, <2>2, <2>3, <3>2, <4>1 DEF get_bitmap_tick_boundary
    <3> QED
      BY <3>1, <3>2
  <2> QED
    BY <1>1, <1>3, <1>4, <1>5, <1>8, <2>5, <2>7, <2>8, <2>9 DEF Bitmap
<1> QED
  BY <1>5, <1>7, <1>8

-----------------------------------------------------------------------------
(* In one bitmap *)

\* a is at m or ahead of it; it is the nearest of T that is.
OnFrom(m, a, d) == IF d THEN a =< m ELSE m =< a
After(m, d) == IF d THEN m - 1 ELSE m + 1
NearestOn(T, m, a, d) ==
    a \in T /\ OnFrom(m, a, d) /\ \A b \in T : OnFrom(m, b, d) => OnFrom(a, b, d)

\* ahead has the nearest number of T, moved by k, if there is one.
HasNearest(T, ahead, m, k, d) ==
    \/ ahead = {} /\ \A a \in T : ~OnFrom(m, a, d)
    \/ ahead # {} /\ \E a \in T : NearestOn(T, m, a, d) /\ Nearest(ahead, d) = a + k

\* The nearest one of T, where bits are the numbers of T moved by k.
LEMMA NearestAhead ==
    ASSUME NEW lo \in Int, NEW hi \in Int, NEW T \in SUBSET (lo..hi), NEW m \in Int, NEW k \in Int,
           NEW d \in BOOLEAN, NEW bits, bits = {a + k : a \in T}
    PROVE  HasNearest(T, Ahead(bits, m + k, d), m, k, d)
<1>1. PICK ahead : ahead = Ahead(bits, m + k, d)
  OBVIOUS
<1>2. T \subseteq Int
  OBVIOUS
<1>3. \A y \in ahead : \E a \in T : y = a + k /\ OnFrom(m, a, d)
  BY <1>1, <1>2 DEF Ahead, OnFrom
<1>4. \A a \in T : OnFrom(m, a, d) => a + k \in ahead
  BY <1>1, <1>2 DEF Ahead, OnFrom
<1>5. CASE ahead = {}
  BY <1>1, <1>4, <1>5 DEF HasNearest
<1>6. CASE ahead # {}
  <2>1. lo + k \in Int /\ hi + k \in Int /\ ahead \subseteq (lo + k)..(hi + k)
    BY <1>3
  <2>2. d => Max(ahead) \in ahead /\ \A x \in ahead : x =< Max(ahead)
    BY <1>6, <2>1, GreatestOf
  <2>3. ~d => Min(ahead) \in ahead /\ \A x \in ahead : Min(ahead) =< x
    BY <1>6, <2>1, LeastOf
  <2>4. PICK y \in ahead : y = Nearest(ahead, d) /\ \A x \in ahead : IF d THEN x =< y ELSE y =< x
    BY <2>2, <2>3 DEF Nearest
  <2>5. PICK a \in T : y = a + k /\ OnFrom(m, a, d)
    BY <1>3
  <2>6. ASSUME NEW b \in T, OnFrom(m, b, d) PROVE OnFrom(a, b, d)
    <3>1. b + k \in ahead
      BY <1>4, <2>6
    <3>2. IF d THEN b + k =< y ELSE y =< b + k
      BY <2>4, <3>1
    <3> QED
      BY <1>2, <2>5, <3>2 DEF OnFrom
  <2> QED
    BY <1>1, <1>6, <2>4, <2>5, <2>6 DEF NearestOn, HasNearest
<1> QED
  BY <1>5, <1>6

-----------------------------------------------------------------------------
(* The searches of Raydium *)

\* The bitmaps of a pool and of its extension name the arrays of ordinals A.
Inner(A) == {n \in A : ~Outward(n)}
InBitmap(A, f) == {n \in A : n \div BitmapSize = f}
Names(bits, x, A) ==
    /\ bits = {a + BitmapSize : a \in Inner(A)}
    /\ \A f \in Int :
         f \in 1..Bitmaps \/ f \in (-Bitmaps - 1)..(-2) =>
             Bitmap(x, f) = {a + (-(f * BitmapSize)) : a \in InBitmap(A, f)}

\* Numbers of arrays are numbers.
LEMMA OrdinalsAre ==
    ASSUME NEW n \in ArrayOrdinals
    PROVE  n \in Int /\ FirstArray \in Int /\ LastArray \in Int /\ FirstArray =< n /\ n =< LastArray
  BY ArraysAreInRange DEF ArrayOrdinals

\* Where the next array begins.
LEMMA NextBeyond ==
    ASSUME NEW n \in Int, NEW d \in BOOLEAN
    PROVE  After(n, d) \in Int /\ Beyond(n * Width, TickSpacing, d) = After(n, d) * Width
<1>1. PICK c \in Nat \ {0} : c = Width
  BY WidthIs
<1>2. (n - 1) * c = n * c - c /\ (n + 1) * c = n * c + c
  OBVIOUS
<1> QED
  BY <1>1, <1>2 DEF Beyond, After, Width

\* What the bitmap of the pool says of the arrays after n.
LEMMA InPool ==
    ASSUME NEW n \in ArrayOrdinals, NEW d \in BOOLEAN, NEW A \in SUBSET ArrayOrdinals,
           NEW bits, NEW x, Names(bits, x, A)
    PROVE  LET r == NextInDefault(bits, n * Width, TickSpacing, d)
               m == After(n, d)
               e == IF d THEN -BitmapSize ELSE BitmapSize - 1
           IN  \/ Outward(m) /\ r = NotFound(n * Width)
               \/ /\ ~Outward(m)
                  /\ \E a \in Inner(A) : NearestOn(Inner(A), m, a, d) /\ r = Found(a * Width)
               \/ /\ ~Outward(m)
                  /\ \A a \in Inner(A) : ~OnFrom(m, a, d)
                  /\ r = NotFound(e * Width)
<1>1. PICK c \in Nat \ {0}, b \in Nat \ {0} : c = Width /\ b = BitmapSize
  BY WidthIs, BitmapAssumption
<1>2. n \in Int
  BY OrdinalsAre
<1>3. PICK m \in Int : m = After(n, d) /\ Beyond(n * c, TickSpacing, d) = m * c
  BY <1>1, <1>2, NextBeyond
<1>4. PICK wide \in Int : wide = max_tick_in_tickarray_bitmap(TickSpacing) /\ wide = b * c
  BY <1>1, WidthIs
<1>5. Outward(m) <=> m * c < -wide \/ m * c >= wide
  <2>1. (-b) * c = -wide /\ -b \in Int
    BY <1>4
  <2>2. m < -b <=> m * c < (-b) * c
    BY <2>1, Ordered
  <2>3. m < b <=> m * c < b * c
    BY Ordered
  <2>4. m * c \in Int
    OBVIOUS
  <2> QED
    BY <1>1, <1>4, <2>1, <2>2, <2>3, <2>4 DEF Outward
<1>6. check_is_valid_start_index(n * c, TickSpacing)
  BY <1>1, StartsAt
<1>7. (m * c) \div c = m
  BY MultipleIs
<1>8. PICK ahead : ahead = Ahead(bits, m + b, d)
  OBVIOUS
<1>9. \/ ahead = {} /\ \A a \in Inner(A) : ~OnFrom(m, a, d)
      \/ ahead # {} /\ \E a \in Inner(A) : NearestOn(Inner(A), m, a, d) /\ Nearest(ahead, d) = a + b
  <2>1. bits = {a + b : a \in Inner(A)}
    BY <1>1 DEF Names
  <2>2. PICK lo \in Int, hi \in Int : lo = FirstArray /\ hi = LastArray
    BY ArraysAreInRange
  <2>3. PICK T \in SUBSET (lo..hi) : T = Inner(A)
    BY <2>2 DEF Inner, ArrayOrdinals
  <2>4. HasNearest(T, Ahead(bits, m + b, d), m, b, d)
    <3>1. bits = {a + b : a \in T} /\ b \in Int
      BY <2>1, <2>3
    <3> QED
      BY <3>1, NearestAhead
  <2> QED
    BY <1>8, <2>3, <2>4 DEF HasNearest
<1>10. PICK r : r = NextInDefault(bits, n * c, TickSpacing, d)
  OBVIOUS
<1>11. r = IF Outward(m) THEN NotFound(n * c)
           ELSE IF ahead # {} THEN Found((Nearest(ahead, d) - b) * c)
           ELSE NotFound(IF d THEN -wide ELSE wide - c)
  BY <1>1, <1>3, <1>4, <1>5, <1>6, <1>7, <1>8, <1>10 DEF NextInDefault, Width
<1>12. -wide = (-b) * c /\ wide - c = (b - 1) * c
  BY <1>4
<1>13. ASSUME NEW a \in Inner(A), Nearest(ahead, d) = a + b PROVE Nearest(ahead, d) - b = a
  <2>1. a \in Int
    BY OrdinalsAre DEF Inner
  <2> QED
    BY <1>13, <2>1
<1> QED
  BY <1>1, <1>3, <1>9, <1>10, <1>11, <1>12, <1>13

\* Starts beyond the bitmap of the pool are those of arrays beyond it.
LEMMA OutwardIs ==
    ASSUME NEW m \in Int
    PROVE  LET wide == max_tick_in_tickarray_bitmap(TickSpacing)
           IN  Outward(m) <=> m * Width < -wide \/ m * Width >= wide
<1>1. PICK c \in Nat \ {0}, b \in Nat \ {0} : c = Width /\ b = BitmapSize
  BY WidthIs, BitmapAssumption
<1>2. PICK wide \in Int : wide = max_tick_in_tickarray_bitmap(TickSpacing) /\ wide = b * c
  BY <1>1, WidthIs
<1>3. (-b) * c = -wide /\ -b \in Int
  BY <1>2
<1>4. m < -b <=> m * c < (-b) * c
  BY <1>3, Ordered
<1>5. m < b <=> m * c < b * c
  BY Ordered
<1>6. m * c \in Int
  OBVIOUS
<1> QED
  BY <1>1, <1>2, <1>3, <1>4, <1>5, <1>6 DEF Outward

\* The last array of bitmap f in a direction.
EdgeOf(f, d) == IF d THEN f * BitmapSize ELSE f * BitmapSize + BitmapSize - 1

\* What the extension says of the arrays after k.
LEMMA InExtensionOf ==
    ASSUME NEW k \in Int, NEW d \in BOOLEAN, NEW A \in SUBSET ArrayOrdinals,
           NEW bits, NEW x, Names(bits, x, A)
    PROVE  LET r == next_initialized_tick_array_from_one_bitmap(x, k * Width, TickSpacing, d)
               m == After(k, d)
               f == m \div BitmapSize
           IN  \/ (m < FirstArray \/ m > LastArray) /\ r = NotFound(m * Width)
               \/ m \in ArrayOrdinals /\ r = Error
               \/ /\ m \in ArrayOrdinals /\ Outward(m)
                  /\ \E a \in InBitmap(A, f) :
                       NearestOn(InBitmap(A, f), m, a, d) /\ r = Found(a * Width)
               \/ /\ m \in ArrayOrdinals /\ Outward(m)
                  /\ \A a \in InBitmap(A, f) : ~OnFrom(m, a, d)
                  /\ r = NotFound(EdgeOf(f, d) * Width)
<1>1. PICK c \in Nat \ {0}, b \in Nat \ {0} : c = Width /\ b = BitmapSize
  BY WidthIs, BitmapAssumption
<1>2. PICK m \in Int : m = After(k, d) /\ Beyond(k * c, TickSpacing, d) = m * c
  BY <1>1, NextBeyond
<1>3. PICK first \in Int, last \in Int :
        /\ first = FirstArray /\ last = LastArray
        /\ first * c = get_array_start_index(MinTick, TickSpacing)
        /\ last * c = get_array_start_index(MaxTick, TickSpacing)
  BY <1>1, ArraysAreInRange DEF FirstArray, LastArray, get_array_start_index, Width
<1>4. (m < first <=> m * c < first * c) /\ (m > last <=> m * c > last * c)
  BY Ordered
<1>5. PICK r : r = next_initialized_tick_array_from_one_bitmap(x, k * c, TickSpacing, d)
  OBVIOUS
<1>6. CASE m < first \/ m > last
  <2>1. r = NotFound(m * c)
    BY <1>2, <1>3, <1>4, <1>5, <1>6 DEF next_initialized_tick_array_from_one_bitmap
  <2> QED
    BY <1>1, <1>2, <1>3, <1>5, <1>6, <2>1
<1>7. CASE ~(m < first \/ m > last)
  <2>1. m \in ArrayOrdinals
    BY <1>3, <1>7 DEF ArrayOrdinals
  <2>2. CASE ~HasBitmap(m * c, TickSpacing)
    <3>1. r = Error
      BY <1>2, <1>3, <1>4, <1>5, <1>7, <2>2 DEF next_initialized_tick_array_from_one_bitmap
    <3> QED
      BY <1>1, <1>2, <1>5, <2>1, <3>1
  <2>3. CASE HasBitmap(m * c, TickSpacing)
    <3>1. Outward(m)
      <4>1. PICK wide \in Int : wide = max_tick_in_tickarray_bitmap(TickSpacing)
        BY WidthIs
      <4>2. ~(m * c >= -wide /\ m * c < wide)
        BY <2>3, <4>1 DEF HasBitmap, check_extension_boundary
      <4>3. m * c \in Int
        OBVIOUS
      <4> QED
        BY <1>1, <4>1, <4>2, <4>3, OutwardIs
    <3>2. PICK f \in Int, o \in 0..(b - 1) : f = m \div b /\ o = m % b /\ m = f * b + o
      <4>1. m \div b \in Int /\ m % b \in 0..(b - 1) /\ m = b * (m \div b) + (m % b)
        OBVIOUS
      <4>2. b * (m \div b) = (m \div b) * b
        BY <4>1
      <4> QED
        BY <4>1, <4>2
    <3>3. /\ get_bitmap(x, m * c, TickSpacing) = Bitmap(x, f)
          /\ tick_array_offset_in_bitmap(m * c, TickSpacing) = o
          /\ get_bitmap_tick_boundary(m * c, TickSpacing) = (f * b) * c
          /\ f \in 1..Bitmaps \/ f \in (-Bitmaps - 1)..(-2)
      <4>1. Bitmaps \in Nat
        BY BitmapAssumption
      <4>2. LET g == m \div BitmapSize
                i == m * Width
            IN  /\ get_bitmap(x, i, TickSpacing) = Bitmap(x, g)
                /\ tick_array_offset_in_bitmap(i, TickSpacing) = m % BitmapSize
                /\ get_bitmap_tick_boundary(i, TickSpacing) = (g * BitmapSize) * Width
                /\ g < 0 => -g - 2 \in 0..(Bitmaps - 1)
                /\ g >= 0 => g - 1 \in 0..(Bitmaps - 1)
        BY <2>1, <3>1, InExtension
      <4> QED
        BY <1>1, <3>2, <4>1, <4>2
    <3>4. PICK S : S = InBitmap(A, f)
      OBVIOUS
    <3>5. PICK ahead : ahead = Ahead(Bitmap(x, f), o, d)
      OBVIOUS
    <3>6. HasNearest(S, ahead, m, -(f * b), d)
      <4>1. PICK T \in SUBSET (first..last), g \in Int : T = S /\ g = -(f * b)
        BY <1>3, <3>4 DEF InBitmap, ArrayOrdinals
      <4>2. Bitmap(x, f) = {a + g : a \in T}
        BY <1>1, <3>3, <3>4, <4>1 DEF Names
      <4>3. o = m + g
        BY <3>2, <4>1
      <4>4. HasNearest(T, Ahead(Bitmap(x, f), m + g, d), m, g, d)
        <5>1. PICK row : row = Bitmap(x, f) /\ row = {a + g : a \in T}
          BY <4>2
        <5>2. row = {a + g : a \in T}
          BY <5>1
        <5>3. HasNearest(T, Ahead(row, m + g, d), m, g, d)
          BY <5>2, NearestAhead, Zenon
        <5> QED
          BY <5>1, <5>3
      <4> QED
        BY <3>5, <4>1, <4>3, <4>4
    <3>7. r = IF ahead # {} THEN Found(m * c + ((Nearest(ahead, d) - o) * c))
              ELSE NotFound(IF d THEN (f * b) * c
                            ELSE (f * b) * c + max_tick_in_tickarray_bitmap(TickSpacing) - c)
      BY <1>1, <1>2, <1>3, <1>4, <1>5, <1>7, <2>3, <3>3, <3>5
         DEF next_initialized_tick_array_from_one_bitmap, next_initialized_tick_array_in_bitmap,
             Width
    <3>8. (f * b) * c + max_tick_in_tickarray_bitmap(TickSpacing) - c = (f * b + b - 1) * c
      <4>1. PICK p \in Int, wide \in Int :
              p = f * b /\ wide = b * c /\ wide = max_tick_in_tickarray_bitmap(TickSpacing)
        BY <1>1, WidthIs
      <4>2. (p + b - 1) * c = p * c + b * c - c
        OBVIOUS
      <4> QED
        BY <4>1, <4>2
    <3>9. ASSUME NEW a \in S, Nearest(ahead, d) = a + (-(f * b))
          PROVE  m * c + ((Nearest(ahead, d) - o) * c) = a * c
      <4>1. a \in Int
        BY <3>4, OrdinalsAre DEF InBitmap
      <4>2. PICK g \in Int : g = Nearest(ahead, d) - o
        BY <3>9, <4>1
      <4>3. m + g = a
        BY <3>2, <3>9, <4>1, <4>2
      <4>4. m * c + g * c = (m + g) * c
        OBVIOUS
      <4> QED
        BY <4>2, <4>3, <4>4
    <3>10. CASE ahead = {}
      <4>1. \A a \in S : ~OnFrom(m, a, d)
        BY <3>6, <3>10 DEF HasNearest
      <4>2. r = NotFound(EdgeOf(f, d) * c)
        BY <1>1, <3>7, <3>8, <3>10 DEF EdgeOf
      <4> QED
        BY <1>1, <1>2, <1>5, <2>1, <3>1, <3>2, <3>4, <4>1, <4>2
    <3>11. CASE ahead # {}
      <4>1. PICK a \in S : NearestOn(S, m, a, d) /\ Nearest(ahead, d) = a + (-(f * b))
        BY <3>6, <3>11 DEF HasNearest
      <4>2. r = Found(a * c)
        BY <3>7, <3>9, <3>11, <4>1
      <4> QED
        BY <1>1, <1>2, <1>5, <2>1, <3>1, <3>2, <3>4, <4>1, <4>2
    <3> QED
      BY <3>10, <3>11
  <2> QED
    BY <2>2, <2>3
<1> QED
  BY <1>6, <1>7

\* What a round finds that begins at array n.
RoundFinds(A, n, d, r) ==
    \/ r.is = "found" /\ \E a \in A : NearestOn(A, After(n, d), a, d) /\ r.start = a * Width
    \/ /\ r.is = "not found"
       /\ \E k \in ArrayOrdinals :
            /\ r.start = k * Width /\ OnFrom(After(n, d), k, d)
            /\ \A a \in A : OnFrom(After(n, d), a, d) => OnFrom(After(k, d), a, d)
    \/ r.is = "none" /\ \A a \in A : ~OnFrom(After(n, d), a, d)
    \/ r.is \in {"error", "panic"}

\* A bitmap ends where the next one begins.
LEMMA RowOf ==
    ASSUME NEW m \in Int, NEW d \in BOOLEAN
    PROVE  LET f == m \div BitmapSize
           IN  /\ EdgeOf(f, d) \in Int /\ OnFrom(m, EdgeOf(f, d), d)
               /\ \A a \in Int : a \div BitmapSize # f /\ OnFrom(m, a, d)
                                 => OnFrom(After(EdgeOf(f, d), d), a, d)
               /\ \A a \in Int : a \div BitmapSize = f => OnFrom(a, EdgeOf(f, d), d)
<1>1. PICK b \in Nat \ {0} : b = BitmapSize
  BY BitmapAssumption
<1>2. PICK f \in Int : f = m \div b
  BY Quotient
<1>3. PICK p \in Int : p = f * b
  OBVIOUS
<1>4. p =< m /\ m < p + b
  BY <1>2, <1>3, Quotient, Ordered
<1>5. ASSUME NEW a \in Int
      PROVE  /\ a \div b = f => p =< a /\ a < p + b
             /\ a \div b # f => a < p \/ a >= p + b
  <2>1. PICK g \in Int : g = a \div b
    BY Quotient
  <2>2. g * b =< a /\ a < g * b + b /\ g * b \in Int
    BY <2>1, Quotient, Ordered
  <2>3. (g + 1) * b = g * b + b /\ (f + 1) * b = f * b + b
    OBVIOUS
  <2>4. g < f => (g + 1) * b =< f * b
    <3>1. g < f => g + 1 =< f
      OBVIOUS
    <3> QED
      BY <3>1, Ordered
  <2>5. f < g => (f + 1) * b =< g * b
    <3>1. f < g => f + 1 =< g
      OBVIOUS
    <3> QED
      BY <3>1, Ordered
  <2> QED
    BY <1>3, <2>1, <2>2, <2>3, <2>4, <2>5
<1>6. PICK e \in Int : e = EdgeOf(f, d) /\ e = IF d THEN p ELSE p + b - 1
  BY <1>1, <1>3 DEF EdgeOf
<1>7. OnFrom(m, e, d)
  BY <1>4, <1>6 DEF OnFrom
<1>8. ASSUME NEW a \in Int PROVE a \div b # f /\ OnFrom(m, a, d) => OnFrom(After(e, d), a, d)
  BY <1>4, <1>5, <1>6 DEF OnFrom, After
<1>9. ASSUME NEW a \in Int PROVE a \div b = f => OnFrom(a, e, d)
  BY <1>5, <1>6 DEF OnFrom
<1> QED
  BY <1>1, <1>2, <1>6, <1>7, <1>8, <1>9

\* Where the extension is searched from when the bitmap of the pool has nothing.
LEMMA PoolLeavesOff ==
    ASSUME NEW n \in ArrayOrdinals, NEW d \in BOOLEAN, NEW A \in SUBSET ArrayOrdinals,
           NEW bits, NEW x, Names(bits, x, A)
    PROVE  LET r == NextInDefault(bits, n * Width, TickSpacing, d)
           IN  \/ \E a \in A : NearestOn(A, After(n, d), a, d) /\ r = Found(a * Width)
               \/ \E k \in Int :
                    /\ r = NotFound(k * Width)
                    /\ k = n \/ OnFrom(After(n, d), k, d)
                    /\ After(k, d) >= FirstArray \/ d
                    /\ After(k, d) =< LastArray \/ ~d
                    /\ \A a \in A : OnFrom(After(n, d), a, d) => OnFrom(After(k, d), a, d)
<1>1. PICK b \in Nat \ {0} : b = BitmapSize
  BY BitmapAssumption
<1>2. n \in Int /\ FirstArray \in Int /\ LastArray \in Int /\ FirstArray =< n /\ n =< LastArray
  BY OrdinalsAre
<1>3. PICK m \in Int : m = After(n, d)
  BY <1>2, NextBeyond
<1>4. \A a \in A : a \in Int
  BY OrdinalsAre
<1>5. FirstArray < 0 /\ LastArray >= 0
  <2>1. PICK c \in Nat \ {0} : c = Width
    BY WidthIs
  <2>2. FirstArray * c < 0 * c /\ 0 * c = 0 /\ 0 * c < (LastArray + 1) * c
    <3>1. FirstArray * c =< MinTick /\ MaxTick < (LastArray + 1) * c
      BY <2>1, ArraysAreInRange
    <3>2. FirstArray * c \in Int /\ (LastArray + 1) * c \in Int /\ 0 * c = 0
      BY <1>2
    <3> QED
      BY <3>1, <3>2, TickRange
  <2>3. FirstArray < 0
    BY <1>2, <2>2, Ordered
  <2>4. 0 < LastArray + 1
    <3>1. LastArray + 1 \in Int
      BY <1>2
    <3> QED
      BY <2>2, <3>1, Ordered
  <2> QED
    BY <1>2, <2>3, <2>4
<1>6. PICK r : r = NextInDefault(bits, n * Width, TickSpacing, d)
  OBVIOUS
<1>7. PICK e \in Int : e = IF d THEN -b ELSE b - 1
  OBVIOUS
<1>8. \/ Outward(m) /\ r = NotFound(n * Width)
      \/ /\ ~Outward(m)
         /\ \E a \in Inner(A) : NearestOn(Inner(A), m, a, d) /\ r = Found(a * Width)
      \/ /\ ~Outward(m)
         /\ \A a \in Inner(A) : ~OnFrom(m, a, d)
         /\ r = NotFound(e * Width)
  BY <1>1, <1>3, <1>6, <1>7, InPool
<1>9. CASE Outward(m) /\ r = NotFound(n * Width)
  BY <1>2, <1>3, <1>6, <1>9 DEF After
<1>10. ASSUME ~Outward(m), NEW a \in Inner(A), NearestOn(Inner(A), m, a, d), r = Found(a * Width)
       PROVE  NearestOn(A, m, a, d)
  BY <1>1, <1>4, <1>10 DEF NearestOn, Inner, Outward, OnFrom
<1>11. ASSUME ~Outward(m), \A a \in Inner(A) : ~OnFrom(m, a, d), NEW a \in A, OnFrom(m, a, d)
       PROVE  OnFrom(After(e, d), a, d)
  BY <1>1, <1>4, <1>7, <1>11 DEF Inner, Outward, OnFrom, After
<1>12. ASSUME ~Outward(m)
       PROVE  /\ OnFrom(m, e, d)
              /\ After(e, d) >= FirstArray \/ d
              /\ After(e, d) =< LastArray \/ ~d
  BY <1>1, <1>2, <1>5, <1>7, <1>12 DEF Outward, OnFrom, After
<1> QED
  BY <1>3, <1>6, <1>8, <1>9, <1>10, <1>11, <1>12 DEF Inner

\* One round finds the nearest array of its bitmap, or leaves off behind it.
LEMMA RoundIs ==
    ASSUME NEW n \in ArrayOrdinals, NEW d \in BOOLEAN, NEW A \in SUBSET ArrayOrdinals,
           NEW bits, NEW x, Names(bits, x, A)
    PROVE  RoundFinds(A, n, d, NextInBitmaps(bits, x, n * Width, TickSpacing, d))
<1>1. PICK r, p : /\ r = NextInBitmaps(bits, x, n * Width, TickSpacing, d)
                  /\ p = NextInDefault(bits, n * Width, TickSpacing, d)
  OBVIOUS
<1>2. PICK c \in Nat \ {0} : c = Width
  BY WidthIs
<1>3. n \in Int /\ FirstArray \in Int /\ LastArray \in Int
  BY OrdinalsAre
<1>4. PICK m \in Int : m = After(n, d)
  BY <1>3, NextBeyond
<1>5. \A a \in A : a \in Int /\ FirstArray =< a /\ a =< LastArray
  BY OrdinalsAre
<1>6. ASSUME NEW a \in A, NearestOn(A, m, a, d), p = Found(a * Width)
      PROVE  RoundFinds(A, n, d, r)
  <2>1. r = p
    <3>1. p.is = "found"
      BY <1>6 DEF Found
    <3> QED
      BY <1>1, <3>1, Zenon DEF NextInBitmaps
  <2> QED
    BY <1>4, <1>6, <2>1 DEF RoundFinds, Found
<1>7. ASSUME NEW k \in Int, p = NotFound(k * Width), k = n \/ OnFrom(m, k, d),
             After(k, d) >= FirstArray \/ d, After(k, d) =< LastArray \/ ~d,
             \A a \in A : OnFrom(m, a, d) => OnFrom(After(k, d), a, d)
      PROVE  RoundFinds(A, n, d, r)
  <2>1. PICK e : e = next_initialized_tick_array_from_one_bitmap(x, k * Width, TickSpacing, d)
    OBVIOUS
  <2>2. r = IF e.is = "not found" /\ check_is_out_of_boundary(e.start)
            THEN [e EXCEPT !.is = "none"] ELSE e
    <3>1. p.is = "not found" /\ p.start = k * Width
      BY <1>7 DEF NotFound
    <3>2. p.is \notin {"found", "panic"}
      BY <3>1
    <3> QED
      BY <1>1, <2>1, <3>1, <3>2, Zenon DEF NextInBitmaps
  <2>3. PICK u \in Int : u = After(k, d)
    BY NextBeyond
  <2>4. PICK f \in Int : f = u \div BitmapSize
    BY BitmapAssumption, Quotient
  <2>5. ASSUME NEW a \in Int, OnFrom(u, a, d) PROVE OnFrom(m, a, d)
    BY <1>3, <1>4, <1>7, <2>3, <2>5 DEF OnFrom, After
  <2>6. \/ (u < FirstArray \/ u > LastArray) /\ e = NotFound(u * Width)
        \/ u \in ArrayOrdinals /\ e = Error
        \/ /\ u \in ArrayOrdinals /\ Outward(u)
           /\ \E a \in InBitmap(A, f) :
                NearestOn(InBitmap(A, f), u, a, d) /\ e = Found(a * Width)
        \/ /\ u \in ArrayOrdinals /\ Outward(u)
           /\ \A a \in InBitmap(A, f) : ~OnFrom(u, a, d)
           /\ e = NotFound(EdgeOf(f, d) * Width)
    BY <2>1, <2>3, <2>4, InExtensionOf
  <2>7. PICK g \in Int : g = EdgeOf(f, d)
    BY <2>3, <2>4, RowOf
  <2>8. /\ OnFrom(u, g, d)
        /\ \A a \in Int : a \div BitmapSize # f /\ OnFrom(u, a, d) => OnFrom(After(g, d), a, d)
        /\ \A a \in Int : a \div BitmapSize = f => OnFrom(a, g, d)
    BY <2>3, <2>4, <2>7, RowOf
  <2>9. CASE (u < FirstArray \/ u > LastArray) /\ e = NotFound(u * Width)
    <3>1. ASSUME d PROVE u < FirstArray
      <4>1. After(k, d) =< LastArray
        BY <1>7, <3>1, Zenon
      <4> QED
        BY <1>3, <2>3, <2>9, <4>1
    <3>2. ASSUME ~d PROVE u > LastArray
      <4>1. After(k, d) >= FirstArray
        BY <1>7, <3>2, Zenon
      <4> QED
        BY <1>3, <2>3, <2>9, <4>1
    <3>3. ASSUME NEW a \in A PROVE ~OnFrom(m, a, d)
      <4>1. OnFrom(m, a, d) => OnFrom(u, a, d)
        BY <1>7, <2>3
      <4>2. ~OnFrom(u, a, d)
        BY <1>3, <1>5, <3>1, <3>2 DEF OnFrom
      <4> QED
        BY <4>1, <4>2
    <3>4. check_is_out_of_boundary(u * c)
      <4>1. u < FirstArray => u * c < MinTick
        <5>1. u < FirstArray => u * c < FirstArray * c
          BY <1>3, Ordered
        <5>2. FirstArray * c =< MinTick /\ FirstArray * c \in Int /\ u * c \in Int
          BY <1>2, <1>3, ArraysAreInRange
        <5> QED
          BY <5>1, <5>2, TickRange
      <4>2. u > LastArray => u * c > MaxTick
        <5>1. u > LastArray => (LastArray + 1) * c =< u * c
          <6>1. u > LastArray => LastArray + 1 =< u
            BY <1>3
          <6>2. LastArray + 1 \in Int
            BY <1>3
          <6> QED
            BY <6>1, <6>2, Ordered
        <5>2. MaxTick < (LastArray + 1) * c /\ (LastArray + 1) * c \in Int /\ u * c \in Int
          BY <1>2, <1>3, ArraysAreInRange
        <5> QED
          BY <5>1, <5>2, TickRange
      <4> QED
        BY <2>9, <4>1, <4>2 DEF check_is_out_of_boundary
    <3>5. r.is = "none"
      BY <1>2, <2>2, <2>9, <3>4 DEF NotFound
    <3> QED
      BY <1>4, <3>3, <3>5 DEF RoundFinds
  <2>10. CASE e = Error
    BY <2>2, <2>10 DEF Error, RoundFinds
  <2>11. ASSUME NEW a \in InBitmap(A, f), NearestOn(InBitmap(A, f), u, a, d), e = Found(a * Width)
         PROVE  RoundFinds(A, n, d, r)
    <3>1. r = e
      BY <2>2, <2>11 DEF Found
    <3>2. a \in A /\ a \in Int /\ a \div BitmapSize = f
      BY <1>5 DEF InBitmap
    <3>3. OnFrom(m, a, d)
      BY <2>5, <2>11, <3>2 DEF NearestOn
    <3>4. ASSUME NEW b \in A, OnFrom(m, b, d) PROVE OnFrom(a, b, d)
      <4>1. OnFrom(u, b, d) /\ b \in Int
        BY <1>5, <1>7, <2>3, <3>4
      <4>2. CASE b \div BitmapSize = f
        BY <2>11, <4>1, <4>2 DEF InBitmap, NearestOn
      <4>3. CASE b \div BitmapSize # f
        <5>1. OnFrom(After(g, d), b, d) /\ OnFrom(a, g, d)
          BY <2>8, <3>2, <4>1, <4>3
        <5> QED
          BY <2>7, <3>2, <4>1, <5>1 DEF OnFrom, After
      <4> QED
        BY <4>2, <4>3
    <3>5. NearestOn(A, m, a, d)
      BY <3>2, <3>3, <3>4 DEF NearestOn
    <3> QED
      BY <1>4, <2>11, <3>1, <3>2, <3>5 DEF RoundFinds, Found
  <2>12. ASSUME \A a \in InBitmap(A, f) : ~OnFrom(u, a, d), e = NotFound(g * Width)
         PROVE  RoundFinds(A, n, d, r)
    <3>1. ASSUME NEW a \in A, OnFrom(m, a, d) PROVE OnFrom(After(g, d), a, d)
      <4>1. OnFrom(u, a, d) /\ a \in Int
        BY <1>5, <1>7, <2>3, <3>1
      <4>2. a \div BitmapSize # f
        BY <2>12, <4>1 DEF InBitmap
      <4> QED
        BY <2>8, <4>1, <4>2
    <3>2. OnFrom(m, g, d)
      BY <2>5, <2>8
    <3>3. FirstArray * c \in Int /\ FirstArray * c =< MinTick /\ MinTick < (FirstArray + 1) * c
          /\ LastArray * c \in Int /\ LastArray * c =< MaxTick /\ MaxTick < (LastArray + 1) * c
          /\ (FirstArray + 1) * c \in Int /\ (LastArray + 1) * c \in Int /\ g * c \in Int
      BY <1>2, <1>3, ArraysAreInRange
    <3>4. CASE check_is_out_of_boundary(g * c)
      <4>1. r.is = "none"
        BY <1>2, <2>2, <2>12, <3>4 DEF NotFound
      <4>2. g < FirstArray + 1 \/ g > LastArray
        <5>1. g * c < MinTick \/ g * c > MaxTick
          BY <3>4 DEF check_is_out_of_boundary
        <5>2. g * c < MinTick => g < FirstArray + 1
          <6>1. g * c < MinTick => g * c < (FirstArray + 1) * c
            BY <3>3, TickRange
          <6>2. FirstArray + 1 \in Int
            BY <1>3
          <6> QED
            BY <6>1, <6>2, Ordered
        <5>3. g * c > MaxTick => LastArray * c < g * c
          BY <3>3, TickRange
        <5>4. LastArray * c < g * c => LastArray < g
          BY <1>3, Ordered
        <5> QED
          BY <1>3, <5>1, <5>2, <5>3, <5>4
      <4>3. ASSUME NEW a \in A, OnFrom(m, a, d) PROVE FALSE
        <5>1. OnFrom(After(g, d), a, d)
          BY <3>1, <4>3
        <5>3. a \in Int /\ FirstArray =< a /\ a =< LastArray
          BY <1>5
        <5>4. CASE d
          <6>1. a =< g - 1 /\ g > LastArray
            BY <1>3, <4>2, <5>1, <5>3, <5>4 DEF OnFrom, After
          <6>2. g =< u /\ u =< LastArray
            BY <1>3, <1>7, <2>3, <2>8, <5>4 DEF OnFrom
          <6> QED
            BY <1>3, <6>1, <6>2
        <5>5. CASE ~d
          <6>1. a >= g + 1 /\ g < FirstArray + 1
            BY <1>3, <4>2, <5>1, <5>3, <5>5 DEF OnFrom, After
          <6>2. g >= u
            BY <2>8, <5>5 DEF OnFrom
          <6>3. n >= FirstArray /\ m = n + 1
            BY <1>4, <5>5, OrdinalsAre DEF After
          <6>4. k >= n /\ u = k + 1
            BY <1>3, <1>7, <2>3, <5>5, <6>3 DEF OnFrom, After
          <6> QED
            BY <1>3, <6>1, <6>2, <6>3, <6>4
        <5> QED
          BY <5>4, <5>5
      <4> QED
        BY <1>4, <4>1, <4>3 DEF RoundFinds
    <3>5. CASE ~check_is_out_of_boundary(g * c)
      <4>1. r = e
        BY <1>2, <2>2, <2>12, <3>5 DEF NotFound
      <4>2. MinTick =< g * c /\ g * c =< MaxTick
        BY <3>3, <3>5, TickRange DEF check_is_out_of_boundary
      <4>3. FirstArray * c =< g * c /\ g * c < (LastArray + 1) * c
        BY <3>3, <4>2, TickRange
      <4>4. FirstArray =< g
        BY <1>3, <4>3, Ordered
      <4>5. g < LastArray + 1
        <5>1. LastArray + 1 \in Int
          BY <1>3
        <5> QED
          BY <4>3, <5>1, Ordered
      <4>6. g \in ArrayOrdinals
        BY <1>3, <4>4, <4>5 DEF ArrayOrdinals
      <4> QED
        BY <1>4, <2>12, <3>1, <3>2, <4>1, <4>6 DEF RoundFinds, NotFound
    <3> QED
      BY <3>4, <3>5
  <2> QED
    BY <2>6, <2>7, <2>9, <2>10, <2>11, <2>12
<1>8. \/ \E a \in A : NearestOn(A, m, a, d) /\ p = Found(a * Width)
      \/ \E k \in Int :
           /\ p = NotFound(k * Width)
           /\ k = n \/ OnFrom(m, k, d)
           /\ After(k, d) >= FirstArray \/ d
           /\ After(k, d) =< LastArray \/ ~d
           /\ \A a \in A : OnFrom(m, a, d) => OnFrom(After(k, d), a, d)
  BY <1>1, <1>4, PoolLeavesOff
<1> QED
  BY <1>1, <1>6, <1>7, <1>8

-----------------------------------------------------------------------------
(* From bitmap to bitmap *)

\* Rounds of a search, and how far each is from the last array.
Rounds(bits, x, d) == [i \in Int |-> NextInBitmaps(bits, x, i, TickSpacing, d)]
Rank(d) ==
    [i \in Int |-> IF d THEN IF i >= FirstArray * Width THEN i - (FirstArray * Width) ELSE 0
                   ELSE IF i =< LastArray * Width THEN (LastArray * Width) - i ELSE 0]

\* What a search finds of A that begins after n.
Finds(A, n, d, r) ==
    \/ r.is = "found" /\ \E a \in A : NearestOn(A, After(n, d), a, d) /\ r.start = a * Width
    \/ r.is = "none" /\ \A a \in A : ~OnFrom(After(n, d), a, d)
    \/ r.is \in {"error", "panic"}

\* Fewer rounds can follow from further on.
LEMMA RanksFall ==
    ASSUME NEW d \in BOOLEAN
    PROVE  /\ Rank(d) \in [Int -> Nat]
           /\ \A n \in ArrayOrdinals, k \in ArrayOrdinals :
                OnFrom(After(n, d), k, d) => Rank(d)[k * Width] < Rank(d)[n * Width]
<1>1. PICK c \in Nat \ {0} : c = Width
  BY WidthIs
<1>2. PICK low \in Int, high \in Int : low = FirstArray * c /\ high = LastArray * c
  BY ArraysAreInRange
<1>3. Rank(d) = [i \in Int |-> IF d THEN IF i >= low THEN i - low ELSE 0
                               ELSE IF i =< high THEN high - i ELSE 0]
  BY <1>1, <1>2 DEF Rank
<1>4. Rank(d) \in [Int -> Nat]
  BY <1>3
<1>5. ASSUME NEW n \in ArrayOrdinals, NEW k \in ArrayOrdinals, OnFrom(After(n, d), k, d)
      PROVE  Rank(d)[k * c] < Rank(d)[n * c]
  <2>1. /\ n \in Int /\ k \in Int /\ FirstArray \in Int /\ LastArray \in Int
        /\ FirstArray =< n /\ n =< LastArray /\ FirstArray =< k /\ k =< LastArray
    BY OrdinalsAre
  <2>2. PICK i \in Int, j \in Int : i = n * c /\ j = k * c
    BY <2>1
  <2>3. low =< i /\ i =< high /\ low =< j /\ j =< high
    BY <1>2, <2>1, <2>2, Ordered
  <2>4. CASE d
    <3>1. k < n
      BY <1>5, <2>1, <2>4 DEF OnFrom, After
    <3>2. j < i
      BY <2>1, <2>2, <3>1, Ordered
    <3> QED
      BY <1>3, <2>2, <2>3, <2>4, <3>2
  <2>5. CASE ~d
    <3>1. n < k
      BY <1>5, <2>1, <2>5 DEF OnFrom, After
    <3>2. i < j
      BY <2>1, <2>2, <3>1, Ordered
    <3> QED
      BY <1>3, <2>2, <2>3, <2>5, <3>2
  <2> QED
    BY <2>4, <2>5
<1> QED
  BY <1>1, <1>4, <1>5

\* Every round that finds nothing leads to one of a lower rank.
LEMMA RoundsEnd ==
    ASSUME NEW d \in BOOLEAN, NEW A \in SUBSET ArrayOrdinals, NEW bits, NEW x, Names(bits, x, A)
    PROVE  Ends(Rounds(bits, x, d), Rank(d))
<1> DEFINE round == Rounds(bits, x, d)
<1>1. ASSUME NEW i \in Int, round[i].is = "not found"
      PROVE  round[i].start \in Int /\ Rank(d)[round[i].start] < Rank(d)[i]
  <2>1. PICK r, p : /\ r = round[i] /\ r = NextInBitmaps(bits, x, i, TickSpacing, d)
                    /\ p = NextInDefault(bits, i, TickSpacing, d)
    BY DEF Rounds
  <2>2. check_is_valid_start_index(i, TickSpacing)
    <3> SUFFICES ASSUME ~check_is_valid_start_index(i, TickSpacing) PROVE FALSE
      OBVIOUS
    <3>1. p = Panic
      BY <2>1, Zenon DEF NextInDefault
    <3>2. p.is = "panic"
      BY <3>1 DEF Panic
    <3>3. r = p
      BY <2>1, <3>2, Zenon DEF NextInBitmaps
    <3> QED
      BY <1>1, <2>1, <3>2, <3>3
  <2>3. PICK n \in ArrayOrdinals : i = n * Width
    BY <2>2, ValidStarts
  <2>4. RoundFinds(A, n, d, r)
    BY <2>1, <2>3, RoundIs
  <2>5. PICK k \in ArrayOrdinals : r.start = k * Width /\ OnFrom(After(n, d), k, d)
    BY <1>1, <2>1, <2>4 DEF RoundFinds
  <2>6. k * Width \in Int
    BY StartsAt
  <2> QED
    BY <2>1, <2>3, <2>5, <2>6, RanksFall
<1> QED
  BY <1>1 DEF Ends

\* A search finds the nearest array after where it begins, or that there is none.
LEMMA SearchFinds ==
    ASSUME NEW d \in BOOLEAN, NEW A \in SUBSET ArrayOrdinals, NEW bits, NEW x, Names(bits, x, A),
           NEW n \in ArrayOrdinals
    PROVE  Finds(A, n, d, Search(Rounds(bits, x, d), n * Width))
<1> DEFINE Of(m) == Search(Rounds(bits, x, d), m * Width)
           Bad == {q \in Nat : \E m \in ArrayOrdinals :
                                 Rank(d)[m * Width] = q /\ ~Finds(A, m, d, Of(m))}
<1>1. Bad = {}
  <2> SUFFICES ASSUME Bad # {} PROVE FALSE
    OBVIOUS
  <2>1. PICK q \in Bad : \A p \in Bad : q =< p
    <3>1. Bad \subseteq Nat
      OBVIOUS
    <3> HIDE DEF Bad
    <3> QED
      BY <3>1, LeastNat
  <2>2. PICK m \in ArrayOrdinals : Rank(d)[m * Width] = q /\ ~Finds(A, m, d, Of(m))
    BY <2>1
  <2>3. PICK i \in Int : i = m * Width
    BY StartsAt
  <2>4. PICK r : r = Rounds(bits, x, d)[i] /\ r = NextInBitmaps(bits, x, i, TickSpacing, d)
    BY DEF Rounds
  <2>5. RoundFinds(A, m, d, r)
    BY <2>3, <2>4, RoundIs
  <2>6. Of(m) = IF r.is = "not found" THEN Search(Rounds(bits, x, d), r.start) ELSE r
    <3>1. PICK round, rank, R : round = Rounds(bits, x, d) /\ rank = Rank(d)
                                /\ R = {NextInBitmaps(bits, x, j, TickSpacing, d) : j \in Int}
      OBVIOUS
    <3>2. round \in [Int -> R]
      BY <3>1 DEF Rounds
    <3>3. rank \in [Int -> Nat] /\ Ends(round, rank)
      BY <3>1, RanksFall, RoundsEnd
    <3>4. Search(round, i) = IF round[i].is = "not found" THEN Search(round, round[i].start)
                             ELSE round[i]
      BY <3>2, <3>3, SearchIs
    <3> QED
      BY <2>3, <2>4, <3>1, <3>4
  <2>7. r.is = "not found"
    <3> SUFFICES ASSUME r.is # "not found" PROVE FALSE
      OBVIOUS
    <3>1. Of(m) = r
      BY <2>6
    <3>2. Finds(A, m, d, r)
      BY <2>5 DEF RoundFinds, Finds
    <3> QED
      BY <2>2, <3>1, <3>2
  <2>8. PICK k \in ArrayOrdinals :
          /\ r.start = k * Width /\ OnFrom(After(m, d), k, d)
          /\ \A a \in A : OnFrom(After(m, d), a, d) => OnFrom(After(k, d), a, d)
    BY <2>5, <2>7 DEF RoundFinds
  <2>9. Of(m) = Of(k)
    BY <2>6, <2>7, <2>8
  <2>10. Finds(A, k, d, Of(k))
    <3>1. PICK p \in Nat : p = Rank(d)[k * Width] /\ p < q
      <4>1. k * Width \in Int
        BY StartsAt
      <4> QED
        BY <2>2, <2>8, <4>1, RanksFall
    <3>2. p \notin Bad
      BY <2>1, <3>1
    <3> QED
      BY <3>1, <3>2
  <2>11. ASSUME NEW a \in A, OnFrom(After(k, d), a, d) PROVE OnFrom(After(m, d), a, d)
    <3>1. m \in Int /\ k \in Int /\ a \in Int
      BY OrdinalsAre
    <3> QED
      BY <2>8, <2>11, <3>1 DEF OnFrom, After
  <2>12. \A a \in A : NearestOn(A, After(k, d), a, d) => NearestOn(A, After(m, d), a, d)
    BY <2>8, <2>11 DEF NearestOn
  <2>13. PICK u : u = Of(m) /\ u = Of(k)
    BY <2>9
  <2>14. Finds(A, m, d, u)
    <3>1. Finds(A, k, d, u)
      BY <2>10, <2>13
    <3> QED
      BY <2>8, <2>12, <3>1 DEF Finds
  <2> QED
    BY <2>2, <2>13, <2>14
<1>2. Rank(d)[n * Width] \in Nat
  <2>1. n * Width \in Int
    BY StartsAt
  <2> QED
    BY <2>1, RanksFall
<1>3. Finds(A, n, d, Of(n))
  BY <1>1, <1>2
<1> QED
  BY <1>3

\* The array of a tick.
LEMMA ArrayOf ==
    ASSUME NEW t \in MinTick..MaxTick
    PROVE  /\ t \div Width \in ArrayOrdinals
           /\ get_array_start_index(t, TickSpacing) = (t \div Width) * Width
<1>1. PICK c \in Nat \ {0} : c = Width
  BY WidthIs
<1>2. t \in Int /\ MinTick =< t /\ t =< MaxTick
  BY TickRange
<1>3. PICK n \in Int : n = t \div c /\ n * c =< t /\ t < (n + 1) * c
  BY <1>2, Quotient
<1>4. PICK f \in Int, l \in Int : f = FirstArray /\ l = LastArray
  BY ArraysAreInRange
<1>5. f * c =< MinTick /\ MaxTick < (l + 1) * c
  BY <1>1, <1>4, ArraysAreInRange
<1>6. f < n + 1
  <2>1. f * c < (n + 1) * c
    <3>1. f * c \in Int /\ (n + 1) * c \in Int
      OBVIOUS
    <3> QED
      BY <1>2, <1>3, <1>5, <3>1, TickRange
  <2>2. n + 1 \in Int
    OBVIOUS
  <2> QED
    BY <2>1, <2>2, Ordered
<1>7. n < l + 1
  <2>1. n * c < (l + 1) * c
    <3>1. n * c \in Int /\ (l + 1) * c \in Int
      OBVIOUS
    <3> QED
      BY <1>2, <1>3, <1>5, <3>1, TickRange
  <2>2. l + 1 \in Int
    OBVIOUS
  <2> QED
    BY <2>1, <2>2, Ordered
<1> QED
  BY <1>1, <1>3, <1>4, <1>6, <1>7 DEF ArrayOrdinals, get_array_start_index, Width

\* A further search begins at an array.
LEMMA NextIsSearch ==
    ASSUME NEW n \in ArrayOrdinals, NEW d, NEW bits, NEW x
    PROVE  next_initialized_tick_array_start_index(bits, x, n * Width, TickSpacing, d)
               = Search(Rounds(bits, x, d), n * Width)
<1>1. (n * Width) \div Width = n
  BY OrdinalsAre, WidthIs, MultipleIs
<1>2. get_array_start_index(n * Width, TickSpacing) = n * Width
  BY <1>1 DEF get_array_start_index, Width
<1> QED
  BY <1>2, Zenon DEF next_initialized_tick_array_start_index, Rounds

\* Whether an array is there is looked up in the bitmap that holds its bit.
LEMMA CurrentIs ==
    ASSUME NEW t \in MinTick..MaxTick, NEW A \in SUBSET ArrayOrdinals, NEW bits, NEW x,
           Names(bits, x, A)
    PROVE  LET n == t \div Width
               r == IF is_overflow_default_tickarray_bitmap(t, TickSpacing)
                    THEN check_tick_array_is_initialized(x, n * Width, TickSpacing)
                    ELSE check_current_tick_array_is_initialized(bits, t, TickSpacing)
           IN  \/ r = Error
               \/ n \in A /\ r = Found(n * Width)
               \/ n \notin A /\ r = NotFound(n * Width)
<1>1. PICK c \in Nat \ {0}, b \in Nat \ {0} : c = Width /\ b = BitmapSize
  BY WidthIs, BitmapAssumption
<1>2. PICK n \in ArrayOrdinals : n = t \div c /\ get_array_start_index(t, TickSpacing) = n * c
  BY <1>1, ArrayOf
<1>3. n \in Int
  BY OrdinalsAre
<1>4. ~check_is_out_of_boundary(t)
  BY TickRange DEF check_is_out_of_boundary
<1>5. PICK r : r = IF is_overflow_default_tickarray_bitmap(t, TickSpacing)
                   THEN check_tick_array_is_initialized(x, n * c, TickSpacing)
                   ELSE check_current_tick_array_is_initialized(bits, t, TickSpacing)
  OBVIOUS
<1>6. is_overflow_default_tickarray_bitmap(t, TickSpacing) <=> Outward(n)
  <2>1. PICK wide \in Nat, i \in Int, low \in Int, high \in Int :
          /\ wide = max_tick_in_tickarray_bitmap(TickSpacing) /\ i = n * c
          /\ low = get_array_start_index(MinTick, TickSpacing)
          /\ high = get_array_start_index(MaxTick, TickSpacing)
    <3>1. FirstArray * c \in Int /\ LastArray * c \in Int
      BY ArraysAreInRange
    <3> QED
      BY <1>1, <1>3, <3>1, WidthIs DEF get_array_start_index, FirstArray, LastArray, Width
  <2>2. low =< i /\ i =< high /\ low =< MinTick /\ high =< MaxTick /\ high + c > MaxTick
    <3>1. low = FirstArray * c /\ high = LastArray * c
      BY <1>1, <2>1 DEF get_array_start_index, FirstArray, LastArray, Width
    <3>2. FirstArray * c =< n * c /\ n * c =< LastArray * c
      BY OrdinalsAre, Ordered
    <3>3. LastArray \in Int /\ (LastArray + 1) * c = LastArray * c + c
      BY OrdinalsAre, Ordered
    <3> QED
      BY <1>1, <2>1, <3>1, <3>2, <3>3, ArraysAreInRange
  <2>3. Outward(n) <=> i < -wide \/ i >= wide
    BY <1>1, <1>3, <2>1, OutwardIs
  <2>4. Beyond(high, TickSpacing, FALSE) = high + c
    BY <1>1 DEF Beyond, Width
  <2>5. is_overflow_default_tickarray_bitmap(t, TickSpacing)
          <=> \/ i >= (IF wide > MaxTick THEN high + c ELSE wide)
              \/ i < (IF -wide < MinTick THEN low ELSE -wide)
    BY <1>2, <2>1, <2>4 DEF is_overflow_default_tickarray_bitmap
  <2>6. i < high + c /\ i \in Int /\ ~(i < low)
    BY <2>1, <2>2
  <2>7. -wide < MinTick => i >= -wide
    <3>1. ASSUME -wide < MinTick PROVE i >= -wide
      <4>1. (-b) * c = -wide /\ -b \in Int
        <5>1. wide = b * c
          BY <1>1, <2>1, WidthIs
        <5> QED
          BY <5>1
      <4>2. MinTick < (FirstArray + 1) * c /\ FirstArray \in Int /\ FirstArray + 1 \in Int
            /\ (FirstArray + 1) * c \in Int /\ FirstArray =< n
        BY <1>1, ArraysAreInRange, OrdinalsAre
      <4>3. (-b) * c < (FirstArray + 1) * c
        BY <2>1, <3>1, <4>1, <4>2, TickRange
      <4>4. -b < FirstArray + 1
        BY <4>1, <4>2, <4>3, Ordered
      <4>5. -b =< n
        BY <1>3, <4>1, <4>2, <4>4
      <4> QED
        BY <1>3, <2>1, <4>1, <4>5, Ordered
    <3> QED
      BY <3>1
  <2>8. wide > MaxTick => i < wide
    <3>1. i =< MaxTick
      BY <2>1, <2>2, TickRange
    <3> QED
      BY <2>1, <3>1, TickRange
  <2> QED
    BY <2>1, <2>3, <2>5, <2>6, <2>7, <2>8, TickRange
<1>7. CASE Outward(n)
  <2>1. r = check_tick_array_is_initialized(x, n * c, TickSpacing)
    BY <1>5, <1>6, <1>7
  <2>2. CASE ~HasBitmap(n * c, TickSpacing)
    BY <1>1, <1>2, <1>5, <2>1, <2>2 DEF check_tick_array_is_initialized
  <2>3. CASE HasBitmap(n * c, TickSpacing)
    <3>1. PICK f \in Int, o \in 0..(b - 1) : f = n \div b /\ o = n % b /\ n = f * b + o
      <4>1. n \div b \in Int /\ n % b \in 0..(b - 1) /\ n = b * (n \div b) + (n % b)
        BY <1>3
      <4>2. b * (n \div b) = (n \div b) * b
        BY <4>1
      <4> QED
        BY <4>1, <4>2
    <3>2. /\ get_bitmap(x, n * c, TickSpacing) = Bitmap(x, f)
          /\ tick_array_offset_in_bitmap(n * c, TickSpacing) = o
          /\ f \in 1..Bitmaps \/ f \in (-Bitmaps - 1)..(-2)
      <4>1. Bitmaps \in Nat
        BY BitmapAssumption
      <4>2. LET g == n \div BitmapSize
                i == n * Width
            IN  /\ get_bitmap(x, i, TickSpacing) = Bitmap(x, g)
                /\ tick_array_offset_in_bitmap(i, TickSpacing) = n % BitmapSize
                /\ get_bitmap_tick_boundary(i, TickSpacing) = (g * BitmapSize) * Width
                /\ g < 0 => -g - 2 \in 0..(Bitmaps - 1)
                /\ g >= 0 => g - 1 \in 0..(Bitmaps - 1)
        BY <1>7, InExtension
      <4> QED
        BY <1>1, <3>1, <4>1, <4>2
    <3>3. Bitmap(x, f) = {a + (-(f * b)) : a \in InBitmap(A, f)}
      BY <1>1, <3>2 DEF Names
    <3>4. o \in Bitmap(x, f) <=> n \in A
      <4>1. n + (-(f * b)) = o
        BY <3>1
      <4>2. n \in A => n \in InBitmap(A, f)
        BY <1>1, <3>1 DEF InBitmap
      <4>3. ASSUME NEW a \in InBitmap(A, f), o = a + (-(f * b)) PROVE a \in A /\ a = n
        <5>1. a \in A /\ a \in Int
          BY OrdinalsAre DEF InBitmap
        <5> QED
          BY <1>3, <3>1, <4>1, <4>3, <5>1
      <4> QED
        BY <3>3, <4>1, <4>2, <4>3
    <3>5. r = IF n \in A THEN Found(n * c) ELSE NotFound(n * c)
      BY <2>1, <2>3, <3>2, <3>4 DEF check_tick_array_is_initialized
    <3> QED
      BY <1>1, <1>2, <1>5, <3>5
  <2> QED
    BY <2>2, <2>3
<1>8. CASE ~Outward(n)
  <2>1. n + b \in bits <=> n \in A
    <3>1. bits = {a + b : a \in Inner(A)}
      BY <1>1 DEF Names
    <3>2. \A a \in Inner(A) : a \in A /\ a \in Int
      BY OrdinalsAre DEF Inner
    <3>3. n \in A => n \in Inner(A)
      BY <1>8 DEF Inner
    <3> QED
      BY <1>3, <3>1, <3>2, <3>3
  <2>2. n + b - b = n
    BY <1>3
  <2>3. r = IF n \in A THEN Found(n * c) ELSE NotFound(n * c)
    BY <1>1, <1>2, <1>4, <1>5, <1>6, <1>8, <2>1, <2>2
       DEF check_current_tick_array_is_initialized, Width
  <2> QED
    BY <1>1, <1>2, <1>5, <2>3
<1> QED
  BY <1>7, <1>8

\* The first array a swap may use, at the tick or ahead of it.
LEMMA FirstFinds ==
    ASSUME NEW t \in MinTick..MaxTick, NEW d \in BOOLEAN, NEW A \in SUBSET ArrayOrdinals,
           NEW bits, NEW x, Names(bits, x, A)
    PROVE  LET r == get_first_initialized_tick_array(bits, x, t, TickSpacing, d)
               n == t \div Width
           IN  /\ r.at.is \in {"found", "error", "panic"}
               /\ r.at.is = "found" => \E a \in A : /\ NearestOn(A, n, a, d)
                                                    /\ r.at.start = a * Width
                                                    /\ r.here = (a = n)
<1>1. PICK n \in ArrayOrdinals : n = t \div Width
                                 /\ get_array_start_index(t, TickSpacing) = n * Width
  BY ArrayOf
<1>2. PICK current, next_one, r :
        /\ current = IF is_overflow_default_tickarray_bitmap(t, TickSpacing)
                     THEN check_tick_array_is_initialized(x, n * Width, TickSpacing)
                     ELSE check_current_tick_array_is_initialized(bits, t, TickSpacing)
        /\ next_one = next_initialized_tick_array_start_index(bits, x, n * Width, TickSpacing, d)
        /\ r = get_first_initialized_tick_array(bits, x, t, TickSpacing, d)
  OBVIOUS
<1>3. r = IF current.is # "not found" THEN [here |-> current.is = "found", at |-> current]
          ELSE [here |-> FALSE, at |-> IF next_one.is = "none" THEN Error ELSE next_one]
  BY <1>1, <1>2, Zenon DEF get_first_initialized_tick_array
<1>4. \/ current = Error
      \/ n \in A /\ current = Found(n * Width)
      \/ n \notin A /\ current = NotFound(n * Width)
  BY <1>1, <1>2, CurrentIs
<1>5. Finds(A, n, d, next_one)
  BY <1>2, SearchFinds, NextIsSearch
<1>6. n \in Int /\ \A a \in A : a \in Int
  BY OrdinalsAre
<1>7. CASE current = Error
  <2>1. r.at.is = "error"
    BY <1>3, <1>7 DEF Error
  <2> QED
    BY <1>2, <2>1
<1>8. CASE n \in A /\ current = Found(n * Width)
  <2>1. NearestOn(A, n, n, d)
    BY <1>6, <1>8 DEF NearestOn, OnFrom
  <2>2. r.at.is = "found" /\ r.at.start = n * Width /\ r.here = TRUE
    BY <1>3, <1>8 DEF Found
  <2> QED
    BY <1>1, <1>2, <1>8, <2>1, <2>2
<1>9. CASE n \notin A /\ current = NotFound(n * Width)
  <2>1. r = [here |-> FALSE, at |-> IF next_one.is = "none" THEN Error ELSE next_one]
    BY <1>3, <1>9 DEF NotFound
  <2>2. ASSUME NEW a \in A, NearestOn(A, After(n, d), a, d) PROVE NearestOn(A, n, a, d) /\ a # n
    BY <1>6, <1>9, <2>2 DEF NearestOn, OnFrom, After
  <2>3. CASE next_one.is = "none"
    <3>1. r.at.is = "error"
      BY <2>1, <2>3 DEF Error
    <3> QED
      BY <1>2, <3>1
  <2>4. CASE next_one.is # "none"
    <3>1. r.at = next_one /\ r.here = FALSE
      BY <2>1, <2>4
    <3>2. next_one.is \in {"found", "error", "panic"}
      BY <1>5, <2>4 DEF Finds
    <3>3. ASSUME next_one.is = "found"
          PROVE  \E a \in A : NearestOn(A, n, a, d) /\ next_one.start = a * Width /\ a # n
      <4>1. PICK a \in A : NearestOn(A, After(n, d), a, d) /\ next_one.start = a * Width
        BY <1>5, <3>3 DEF Finds
      <4> QED
        BY <2>2, <4>1
    <3> QED
      BY <1>1, <1>2, <3>1, <3>2, <3>3
  <2> QED
    BY <2>3, <2>4
<1> QED
  BY <1>4, <1>7, <1>8, <1>9

-----------------------------------------------------------------------------
(* Three searches *)

\* Appending to one or two.
LEMMA AppendToFew ==
    ASSUME NEW V, NEW a \in V, NEW b \in V, NEW c \in V
    PROVE  Append(<<a>>, b) = <<a, b>> /\ Append(<<a, b>>, c) = <<a, b, c>>
<1>1. /\ <<a>> \in Seq(V) /\ Len(<<a>>) = 1 /\ <<a>>[1] = a
      /\ <<a, b>> \in Seq(V) /\ Len(<<a, b>>) = 2 /\ <<a, b>>[1] = a /\ <<a, b>>[2] = b
      /\ <<a, b, c>> \in Seq(V) /\ Len(<<a, b, c>>) = 3
      /\ <<a, b, c>>[1] = a /\ <<a, b, c>>[2] = b /\ <<a, b, c>>[3] = c
  OBVIOUS
<1>2. PICK one, two, three : one = <<a>> /\ two = <<a, b>> /\ three = <<a, b, c>>
  OBVIOUS
<1>3. one \in Seq(V) /\ two \in Seq(V) /\ three \in Seq(V)
  BY <1>1, <1>2
<1>4. PICK u, v : u = Append(one, b) /\ v = Append(two, c)
  OBVIOUS
<1>5. u \in Seq(V) /\ Len(u) = 2 /\ u[1] = a /\ u[2] = b
  BY <1>1, <1>2, <1>3, <1>4, AppendProperties
<1>6. v \in Seq(V) /\ Len(v) = 3 /\ v[1] = a /\ v[2] = b /\ v[3] = c
  BY <1>1, <1>2, <1>3, <1>4, AppendProperties
<1>7. u = two
  <2>1. Len(u) = Len(two) /\ \A n \in 1..Len(u) : u[n] = two[n]
    BY <1>1, <1>2, <1>5
  <2> QED
    BY <1>3, <1>5, <2>1, SeqEqual
<1>8. v = three
  <2>1. Len(v) = Len(three) /\ \A n \in 1..Len(v) : v[n] = three[n]
    BY <1>1, <1>2, <1>6
  <2> QED
    BY <1>3, <1>6, <2>1, SeqEqual
<1> QED
  BY <1>2, <1>4, <1>7, <1>8

\* Searches of three arrays at most.
LEMMA SearchesOfTwo ==
    ASSUME NEW V, NEW first \in V, NEW further \in [Int -> V],
           \A v \in V : IsFound(v) => v.start \in Int
    PROVE  LET second == further[first.start]
               third == further[second.start]
           IN  Searches(first, further, 2) =
                   IF ~IsFound(first) THEN <<first>>
                   ELSE IF ~IsFound(second) THEN <<first, second>>
                   ELSE <<first, second, third>>
<1> DEFINE S == {q \in Seq(V) : Len(q) >= 1}
           Longer(q) == IF IsFound(q[Len(q)]) THEN Append(q, further[q[Len(q)].start]) ELSE q
           go == [n \in Nat |-> [q \in S |-> Longer(q)]]
<1>1. ASSUME NEW q \in S PROVE Longer(q) \in S /\ q[Len(q)] \in V
  <2>1. q \in Seq(V) /\ Len(q) \in Nat /\ Len(q) >= 1
    OBVIOUS
  <2>2. q[Len(q)] \in V
    BY <2>1
  <2>3. ASSUME NEW v \in V PROVE Append(q, v) \in Seq(V) /\ Len(Append(q, v)) >= 1
    BY <2>1
  <2> QED
    BY <2>1, <2>2, <2>3
<1>2. go \in [Nat -> [S -> S]]
  <2> HIDE DEF S, Longer
  <2> QED
    BY <1>1
<1>3. <<first>> \in S
  OBVIOUS
<1>4. PICK f \in [Nat -> S] : f = [n \in Nat |-> IF n = 0 THEN <<first>> ELSE go[n][f[n - 1]]]
  <2>1. PICK D, z, g : D = S /\ z = <<first>> /\ g = go
    OBVIOUS
  <2> HIDE DEF S, go
  <2>2. z \in D /\ g \in [Nat -> [D -> D]]
    BY <1>2, <1>3, <2>1
  <2>3. \E e \in [Nat -> D] : e = [n \in Nat |-> IF n = 0 THEN z ELSE g[n][e[n - 1]]]
    BY <2>2, PrimitiveRecursion, SMTT(60)
  <2> QED
    BY <2>1, <2>3
<1> DEFINE Eq(g) == g = [n \in Nat |->
                IF n = 0 THEN <<first>>
                ELSE LET last == g[n - 1][Len(g[n - 1])]
                     IN  IF IsFound(last) THEN Append(g[n - 1], further[last.start])
                         ELSE g[n - 1]]
           F == CHOOSE g : Eq(g)
<1>5. Eq(f)
  <2>1. ASSUME NEW n \in Nat
        PROVE  f[n] = IF n = 0 THEN <<first>>
                      ELSE LET last == f[n - 1][Len(f[n - 1])]
                           IN  IF IsFound(last) THEN Append(f[n - 1], further[last.start])
                               ELSE f[n - 1]
    <3>1. f[n] = IF n = 0 THEN <<first>> ELSE go[n][f[n - 1]]
      <4> HIDE DEF S, go
      <4> QED
        BY <1>4
    <3>2. n # 0 => go[n][f[n - 1]] = Longer(f[n - 1])
      <4>1. n # 0 => f[n - 1] \in S
        <5> HIDE DEF S
        <5>1. n # 0 => n - 1 \in Nat
          OBVIOUS
        <5> QED
          BY <5>1
      <4> HIDE DEF S, Longer
      <4> QED
        BY <4>1
    <3> QED
      BY <3>1, <3>2
  <2> DEFINE e == [n \in Nat |->
                IF n = 0 THEN <<first>>
                ELSE LET last == f[n - 1][Len(f[n - 1])]
                     IN  IF IsFound(last) THEN Append(f[n - 1], further[last.start])
                         ELSE f[n - 1]]
  <2>2. DOMAIN f = Nat /\ DOMAIN e = Nat /\ \A n \in Nat : f[n] = e[n]
    <3> HIDE DEF S, go
    <3> QED
      BY <2>1
  <2>3. f = [n \in Nat |-> f[n]] /\ e = [n \in Nat |-> e[n]]
    <3> HIDE DEF S
    <3> QED
      OBVIOUS
  <2>4. f = e
    <3> HIDE DEF e, S, go
    <3> QED
      BY <2>2, <2>3
  <2> QED
    BY <2>4, Zenon
<1>6. Eq(F)
  <2> HIDE DEF Eq
  <2> QED
    BY <1>5
<1>7. Searches(first, further, 2) = F[2]
  BY Zenon DEF Searches
<1> HIDE DEF F
<1>8. ASSUME NEW n \in Nat \ {0}, NEW q \in S, F[n - 1] = q
      PROVE  F[n] = Longer(q)
  BY <1>6, <1>8
<1>9. F[0] = <<first>>
  BY <1>6
<1>10. F[1] = Longer(<<first>>)
  <2>1. 1 \in Nat \ {0} /\ 1 - 1 = 0
    OBVIOUS
  <2> HIDE DEF S, Longer, Eq
  <2> QED
    BY <1>3, <1>8, <1>9, <2>1
<1>11. F[2] = Longer(F[1])
  <2>1. 2 \in Nat \ {0} /\ 2 - 1 = 1
    OBVIOUS
  <2> HIDE DEF S, Longer, Eq
  <2>2. F[1] \in S
    BY <1>1, <1>3, <1>10
  <2> QED
    BY <1>8, <2>1, <2>2
<1>12. PICK second, third : second = further[first.start] /\ third = further[second.start]
  OBVIOUS
<1>13. ASSUME IsFound(first) PROVE second \in V /\ Longer(<<first>>) = <<first, second>>
  <2>1. second \in V
    BY <1>12, <1>13
  <2>2. Len(<<first>>) = 1 /\ <<first>>[1] = first
    OBVIOUS
  <2>3. Append(<<first>>, second) = <<first, second>>
    BY <2>1, AppendToFew
  <2>4. PICK q : q = <<first>>
    OBVIOUS
  <2>5. Len(q) = 1 /\ q[1] = first
    BY <2>2, <2>4
  <2>6. Longer(q) = Append(q, second)
    BY <1>12, <1>13, <2>5
  <2> QED
    BY <2>1, <2>3, <2>4, <2>6
<1>14. ASSUME ~IsFound(first) PROVE Longer(<<first>>) = <<first>>
  <2>1. PICK q : q = <<first>>
    OBVIOUS
  <2>2. Len(<<first>>) = 1 /\ <<first>>[1] = first
    OBVIOUS
  <2>3. Len(q) = 1 /\ q[1] = first
    BY <2>1, <2>2
  <2>4. Longer(q) = q
    BY <1>14, <2>3
  <2> QED
    BY <2>1, <2>4
<1>15. ASSUME second \in V
       PROVE  Longer(<<first, second>>) =
                  IF IsFound(second) THEN <<first, second, third>> ELSE <<first, second>>
  <2>1. Len(<<first, second>>) = 2 /\ <<first, second>>[2] = second
    OBVIOUS
  <2>2. PICK q : q = <<first, second>>
    OBVIOUS
  <2>3. Len(q) = 2 /\ q[2] = second
    BY <2>1, <2>2
  <2>4. Longer(q) = IF IsFound(second) THEN Append(q, third) ELSE q
    BY <1>12, <2>3
  <2>5. IsFound(second) => third \in V
    BY <1>12, <1>15
  <2>6. IsFound(second) => Append(<<first, second>>, third) = <<first, second, third>>
    BY <1>15, <2>5, AppendToFew
  <2> QED
    BY <2>2, <2>4, <2>6
<1> HIDE DEF Longer, S, Eq
<1> QED
  <2>1. CASE ~IsFound(first)
    BY <1>7, <1>10, <1>11, <1>12, <1>14, <2>1
  <2>2. CASE IsFound(first)
    BY <1>7, <1>10, <1>11, <1>12, <1>13, <1>15, <2>2
  <2> QED
    BY <2>1, <2>2

-----------------------------------------------------------------------------
(* The nearest three *)

\* i comes before j.
Sooner(i, j, d) == IF d THEN i > j ELSE i < j

\* keys are the first three of H at most.
Leads(H, keys, d) ==
    \/ H = {} /\ keys = <<>>
    \/ \E a \in H : H = {a} /\ keys = <<a>>
    \/ \E a \in H, b \in H : H = {a, b} /\ Sooner(a, b, d) /\ keys = <<a, b>>
    \/ \E a \in H, b \in H, c \in H :
         /\ Sooner(a, b, d) /\ Sooner(b, c, d)
         /\ \A h \in H : h \in {a, b, c} \/ Sooner(c, h, d)
         /\ keys = <<a, b, c>>

\* The nearest three of H.
FirstThree(H, d) == {i \in H : Cardinality({j \in H : Sooner(j, i, d)}) < 3}

\* How many there are of up to three.
LEMMA FewAre ==
    /\ ToSet(<<>>) = {}
    /\ \A a : ToSet(<<a>>) = {a}
    /\ \A a, b : ToSet(<<a, b>>) = {a, b}
    /\ \A a, b, c : ToSet(<<a, b, c>>) = {a, b, c}
<1>1. ToSet(<<>>) = {}
  BY DEF ToSet
<1>2. ASSUME NEW a PROVE ToSet(<<a>>) = {a}
  BY DEF ToSet
<1>3. ASSUME NEW a, NEW b PROVE ToSet(<<a, b>>) = {a, b}
  BY DEF ToSet
<1>4. ASSUME NEW a, NEW b, NEW c PROVE ToSet(<<a, b, c>>) = {a, b, c}
  BY DEF ToSet
<1> QED
  BY <1>1, <1>2, <1>3, <1>4

\* They are the ones with less than three before them.
LEMMA FewerThanThree ==
    ASSUME NEW lo \in Int, NEW hi \in Int, NEW H \in SUBSET (lo..hi), NEW keys, NEW d \in BOOLEAN,
           Leads(H, keys, d)
    PROVE  ToSet(keys) = FirstThree(H, d)
<1> DEFINE Before(i) == {j \in H : Sooner(j, i, d)}
<1>1. H \subseteq Int
  OBVIOUS
<1>2. IsFiniteSet(H)
  BY FS_Interval, FS_Subset
<1>3. Cardinality({}) = 0
  BY FS_EmptySet
<1>4. ASSUME NEW a PROVE IsFiniteSet({a}) /\ Cardinality({a}) = 1
  BY FS_Singleton
<1>5. ASSUME NEW a, NEW b, a # b PROVE IsFiniteSet({a, b}) /\ Cardinality({a, b}) = 2
  <2>1. {a, b} = {a} \cup {b}
    OBVIOUS
  <2>2. PICK S : S = {a}
    OBVIOUS
  <2>3. IsFiniteSet(S) /\ Cardinality(S) = 1 /\ b \notin S
    BY <1>4, <1>5, <2>2
  <2>4. IsFiniteSet(S \cup {b}) /\ Cardinality(S \cup {b}) = 2
    BY <2>3, FS_AddElement
  <2> QED
    BY <2>1, <2>2, <2>4
<1>6. ASSUME NEW a, NEW b, NEW c, a # b, a # c, b # c
      PROVE  IsFiniteSet({a, b, c}) /\ Cardinality({a, b, c}) = 3
  <2>1. {a, b, c} = {a, b} \cup {c}
    OBVIOUS
  <2>2. PICK S : S = {a, b}
    OBVIOUS
  <2>3. IsFiniteSet(S) /\ Cardinality(S) = 2 /\ c \notin S
    BY <1>5, <1>6, <2>2
  <2>4. IsFiniteSet(S \cup {c}) /\ Cardinality(S \cup {c}) = 3
    BY <2>3, FS_AddElement
  <2> QED
    BY <2>1, <2>2, <2>4
<1>7. ASSUME H = {}, keys = <<>> PROVE ToSet(keys) = {i \in H : Cardinality(Before(i)) < 3}
  BY <1>7, FewAre
<1>8. ASSUME NEW a \in H, H = {a}, keys = <<a>>
      PROVE  ToSet(keys) = {i \in H : Cardinality(Before(i)) < 3}
  <2>1. Before(a) = {}
    BY <1>1, <1>8 DEF Sooner
  <2>2. Cardinality(Before(a)) < 3
    BY <1>3, <2>1
  <2>3. ToSet(keys) = {a}
    BY <1>8, FewAre
  <2> HIDE DEF Before
  <2> QED
    BY <1>8, <2>2, <2>3
<1>9. ASSUME NEW a \in H, NEW b \in H, H = {a, b}, Sooner(a, b, d), keys = <<a, b>>
      PROVE  ToSet(keys) = {i \in H : Cardinality(Before(i)) < 3}
  <2>1. Before(a) = {} /\ Before(b) = {a}
    BY <1>1, <1>9 DEF Sooner
  <2>2. Cardinality(Before(a)) < 3 /\ Cardinality(Before(b)) < 3
    <3>1. Cardinality(Before(a)) = 0
      BY <1>3, <2>1
    <3>2. Cardinality(Before(b)) = 1
      BY <1>4, <2>1
    <3> HIDE DEF Before
    <3> QED
      BY <3>1, <3>2
  <2>3. ToSet(keys) = {a, b}
    BY <1>9, FewAre
  <2> HIDE DEF Before
  <2> QED
    BY <1>9, <2>2, <2>3
<1>10. ASSUME NEW a \in H, NEW b \in H, NEW c \in H, Sooner(a, b, d), Sooner(b, c, d),
              \A h \in H : h \in {a, b, c} \/ Sooner(c, h, d), keys = <<a, b, c>>
       PROVE  ToSet(keys) = {i \in H : Cardinality(Before(i)) < 3}
  <2>1. a \in Int /\ b \in Int /\ c \in Int
    BY <1>1
  <2>2. Before(a) = {} /\ Before(b) = {a} /\ Before(c) = {a, b}
    <3>1. \A h \in H : h \in {a, b, c} \/ (h \in Int /\ Sooner(c, h, d))
      BY <1>1, <1>10
    <3>2. \A h \in H : /\ ~Sooner(h, a, d)
                       /\ Sooner(h, b, d) <=> h = a
                       /\ Sooner(h, c, d) <=> h = a \/ h = b
      BY <1>10, <2>1, <3>1 DEF Sooner
    <3> QED
      BY <3>2
  <2>3. a # b /\ a # c /\ b # c
    BY <1>10, <2>1 DEF Sooner
  <2>4. Cardinality(Before(a)) < 3 /\ Cardinality(Before(b)) < 3 /\ Cardinality(Before(c)) < 3
    <3>1. Cardinality(Before(a)) = 0
      BY <1>3, <2>2
    <3>2. Cardinality(Before(b)) = 1
      BY <1>4, <2>2
    <3>3. Cardinality(Before(c)) = 2
      BY <1>5, <2>2, <2>3
    <3> HIDE DEF Before
    <3> QED
      BY <3>1, <3>2, <3>3
  <2>5. ASSUME NEW h \in H, h \notin {a, b, c} PROVE ~(Cardinality(Before(h)) < 3)
    <3>1. h \in Int /\ Sooner(c, h, d)
      BY <1>1, <1>10, <2>5
    <3>2. {a, b, c} \subseteq Before(h) /\ Before(h) \subseteq H
      BY <1>10, <2>1, <3>1 DEF Sooner
    <3>3. IsFiniteSet(Before(h))
      BY <1>2, <3>2, FS_Subset
    <3>4. Cardinality({a, b, c}) =< Cardinality(Before(h)) /\ Cardinality(Before(h)) \in Nat
      BY <3>2, <3>3, FS_Subset, FS_CardinalityType
    <3> QED
      BY <1>6, <2>3, <3>4
  <2>6. ToSet(keys) = {a, b, c}
    BY <1>10, FewAre
  <2> HIDE DEF Before
  <2> QED
    BY <1>10, <2>4, <2>5, <2>6
<1> HIDE DEF Before
<1>11. ToSet(keys) = {i \in H : Cardinality(Before(i)) < 3}
  BY <1>7, <1>8, <1>9, <1>10 DEF Leads
<1> QED
  BY <1>11 DEF Before, FirstThree

\* Keys in their order, each once.
InOrder(keys, d) == \A m, n \in DOMAIN keys : m < n => Sooner(keys[m], keys[n], d)

\* The first three are in order.
LEMMA LeadsInOrder ==
    ASSUME NEW H \in SUBSET Int, NEW keys, NEW d \in BOOLEAN, Leads(H, keys, d)
    PROVE  InOrder(keys, d)
<1>1. CASE keys = <<>>
  BY <1>1 DEF InOrder
<1>2. ASSUME NEW a \in H, keys = <<a>> PROVE InOrder(keys, d)
  <2>1. DOMAIN keys = {1}
    BY <1>2
  <2> QED
    BY <2>1 DEF InOrder
<1>3. ASSUME NEW a \in H, NEW b \in H, Sooner(a, b, d), keys = <<a, b>> PROVE InOrder(keys, d)
  <2>1. DOMAIN keys = {1, 2} /\ keys[1] = a /\ keys[2] = b
    BY <1>3
  <2> QED
    BY <1>3, <2>1 DEF InOrder
<1>4. ASSUME NEW a \in H, NEW b \in H, NEW c \in H, Sooner(a, b, d), Sooner(b, c, d),
             keys = <<a, b, c>>
      PROVE  InOrder(keys, d)
  <2>1. DOMAIN keys = {1, 2, 3} /\ keys[1] = a /\ keys[2] = b /\ keys[3] = c
    BY <1>4
  <2>2. Sooner(a, c, d)
    BY <1>4 DEF Sooner
  <2> QED
    BY <1>4, <2>1, <2>2 DEF InOrder
<1> QED
  BY <1>1, <1>2, <1>3, <1>4 DEF Leads

\* Of up to three elements.
LEMMA TuplesAre ==
    /\ \A f : [n \in 1..0 |-> f[n].start] = <<>>
    /\ \A f : [n \in 1..1 |-> f[n].start] = <<f[1].start>>
    /\ \A f : [n \in 1..2 |-> f[n].start] = <<f[1].start, f[2].start>>
    /\ \A f : [n \in 1..3 |-> f[n].start] = <<f[1].start, f[2].start, f[3].start>>
<1>1. \A f : [n \in 1..0 |-> f[n].start] = <<>>
  OBVIOUS
<1>2. \A f : [n \in 1..1 |-> f[n].start] = <<f[1].start>>
  OBVIOUS
<1>3. \A f : [n \in 1..2 |-> f[n].start] = <<f[1].start, f[2].start>>
  OBVIOUS
<1>4. \A f : [n \in 1..3 |-> f[n].start] = <<f[1].start, f[2].start, f[3].start>>
  OBVIOUS
<1> QED
  BY <1>1, <1>2, <1>3, <1>4

\* Starts of up to three searches.
LEMMA StartsOfFew ==
    ASSUME NEW u, NEW v, NEW z
    PROVE  /\ ~IsFound(u) => Starts(<<u>>) = <<>>
           /\ IsFound(u) /\ ~IsFound(v) => Starts(<<u, v>>) = <<u.start>>
           /\ IsFound(u) /\ IsFound(v) /\ ~IsFound(z) => Starts(<<u, v, z>>) = <<u.start, v.start>>
           /\ IsFound(u) /\ IsFound(v) /\ IsFound(z)
                => Starts(<<u, v, z>>) = <<u.start, v.start, z.start>>
<1> DEFINE Hits(q) == {m \in DOMAIN q : IsFound(q[m])}
<1>1. Cardinality({}) = 0 /\ Cardinality(1..1) = 1 /\ Cardinality(1..2) = 2 /\ Cardinality(1..3) = 3
  <2>1. Cardinality({}) = 0
    BY FS_EmptySet
  <2>2. ASSUME NEW n \in 1..3 PROVE Cardinality(1..n) = n
    <3>1. 1 \in Int /\ n \in Int /\ ~(1 > n) /\ n - 1 + 1 = n
      OBVIOUS
    <3> QED
      BY <3>1, FS_Interval
  <2> QED
    BY <2>1, <2>2
<1>2. PICK one, two, three : one = <<u>> /\ two = <<u, v>> /\ three = <<u, v, z>>
  OBVIOUS
<1>3. /\ DOMAIN one = 1..1 /\ one[1] = u
      /\ DOMAIN two = 1..2 /\ two[1] = u /\ two[2] = v
      /\ DOMAIN three = 1..3 /\ three[1] = u /\ three[2] = v /\ three[3] = z
  BY <1>2
<1>4. ASSUME ~IsFound(u) PROVE Starts(one) = <<>>
  <2>1. Hits(one) = {}
    BY <1>3, <1>4
  <2>2. Cardinality(Hits(one)) = 0
    BY <1>1, <2>1
  <2> HIDE DEF Hits
  <2>3. Starts(one) = [n \in 1..0 |-> one[n].start]
    BY <2>2 DEF Starts, Hits
  <2> QED
    BY <2>3, TuplesAre
<1>5. ASSUME IsFound(u), ~IsFound(v) PROVE Starts(two) = <<u.start>>
  <2>1. Hits(two) = 1..1
    BY <1>3, <1>5
  <2>2. Cardinality(Hits(two)) = 1
    BY <1>1, <2>1
  <2> HIDE DEF Hits
  <2>3. Starts(two) = [n \in 1..1 |-> two[n].start]
    BY <2>2 DEF Starts, Hits
  <2>4. Starts(two) = <<two[1].start>>
    BY <2>3, TuplesAre
  <2> QED
    BY <1>3, <2>4
<1>6. ASSUME IsFound(u), IsFound(v), ~IsFound(z) PROVE Starts(three) = <<u.start, v.start>>
  <2>1. Hits(three) = 1..2
    BY <1>3, <1>6
  <2>2. Cardinality(Hits(three)) = 2
    BY <1>1, <2>1
  <2> HIDE DEF Hits
  <2>3. Starts(three) = [n \in 1..2 |-> three[n].start]
    BY <2>2 DEF Starts, Hits
  <2>4. Starts(three) = <<three[1].start, three[2].start>>
    BY <2>3, TuplesAre
  <2> QED
    BY <1>3, <2>4
<1>7. ASSUME IsFound(u), IsFound(v), IsFound(z) PROVE Starts(three) = <<u.start, v.start, z.start>>
  <2>1. Hits(three) = 1..3
    BY <1>3, <1>7
  <2>2. Cardinality(Hits(three)) = 3
    BY <1>1, <2>1
  <2> HIDE DEF Hits
  <2>3. Starts(three) = [n \in 1..3 |-> three[n].start]
    BY <2>2 DEF Starts, Hits
  <2>4. Starts(three) = <<three[1].start, three[2].start, three[3].start>>
    BY <2>3, TuplesAre
  <2> QED
    BY <1>3, <2>4
<1> QED
  BY <1>2, <1>4, <1>5, <1>6, <1>7

\* What a search tells of T from n on, where keys are w times the numbers of T:
\* the nearest one, that there is none, or, if it fails, nothing.
Told(T, n, w, d, fails, v) ==
    IF IsFound(v) THEN \E a \in T : NearestOn(T, n, a, d) /\ v.start = a * w
    ELSE v.is \in fails \/ \A a \in T : ~OnFrom(n, a, d)

\* The searches first and further, with results in V, tell of all of T from n on.
Tells(T, n, w, d, fails, V, first, further) ==
    /\ first \in V /\ further \in [Int -> V]
    /\ \A v \in V : IsFound(v) => v.start \in Int /\ v.is \notin fails
    /\ Told(T, n, w, d, fails, first)
    /\ \A a \in T : Told(T, After(a, d), w, d, fails, further[a * w])

\* Keys of the numbers T, every w; those on from m; those of the numbers from n on.
KeysFor(T, w) == {a * w : a \in T}
From(K, m, d) == {i \in K : OnFrom(m, i, d)}
AheadOf(T, n, w, d) == {a * w : a \in {h \in T : OnFrom(n, h, d)}}

\* Keys are in the order of their numbers.
LEMMA KeysGrow ==
    ASSUME NEW w \in Nat \ {0}, NEW d \in BOOLEAN, NEW a \in Int, NEW b \in Int
    PROVE  /\ Sooner(a, b, d) <=> Sooner(a * w, b * w, d)
           /\ OnFrom(a, b, d) <=> OnFrom(a * w, b * w, d)
<1>1. /\ a < b <=> a * w < b * w
      /\ b < a <=> b * w < a * w
      /\ a =< b <=> a * w =< b * w
      /\ b =< a <=> b * w =< a * w
  BY Ordered
<1> QED
  BY <1>1 DEF Sooner, OnFrom

\* The keys of the numbers on from n are the keys on from that of n.
LEMMA KeysInOrder ==
    ASSUME NEW T \in SUBSET Int, NEW n \in Int, NEW w \in Nat \ {0}, NEW d \in BOOLEAN
    PROVE  AheadOf(T, n, w, d) = From(KeysFor(T, w), n * w, d)
<1>1. ASSUME NEW a \in T PROVE OnFrom(n, a, d) <=> OnFrom(n * w, a * w, d)
  <2>1. a \in Int
    OBVIOUS
  <2> QED
    BY <2>1, KeysGrow
<1> QED
  BY <1>1 DEF AheadOf, From, KeysFor

\* The starts of three searches are the nearest keys.
LEMMA SearchesLead ==
    ASSUME NEW T \in SUBSET Int, NEW n \in Int, NEW w \in Nat \ {0}, NEW d \in BOOLEAN,
           NEW fails, NEW V, NEW first, NEW further, Tells(T, n, w, d, fails, V, first, further)
    PROVE  LET q == Searches(first, further, 2)
           IN  \/ q[Len(q)].is \in fails
               \/ Leads(AheadOf(T, n, w, d), Starts(q), d)
<1> USE DEF Tells
<1>1. PICK second, third, q :
        /\ second = further[first.start] /\ third = further[second.start]
        /\ q = Searches(first, further, 2)
  OBVIOUS
<1>2. q = IF ~IsFound(first) THEN <<first>>
          ELSE IF ~IsFound(second) THEN <<first, second>> ELSE <<first, second, third>>
  <2>1. \A v \in V : IsFound(v) => v.start \in Int
    OBVIOUS
  <2>2. LET s == further[first.start]
            t == further[s.start]
        IN  Searches(first, further, 2) =
                IF ~IsFound(first) THEN <<first>>
                ELSE IF ~IsFound(s) THEN <<first, s>> ELSE <<first, s, t>>
    BY <2>1, SearchesOfTwo
  <2> QED
    BY <1>1, <2>2
<1>0. /\ \A e \in Int, g \in Int : Sooner(e, g, d) <=> Sooner(e * w, g * w, d)
      /\ ~IsFound(first) => Starts(<<first>>) = <<>>
      /\ IsFound(first) /\ ~IsFound(second) => Starts(<<first, second>>) = <<first.start>>
      /\ IsFound(first) /\ IsFound(second) /\ ~IsFound(third)
           => Starts(<<first, second, third>>) = <<first.start, second.start>>
      /\ IsFound(first) /\ IsFound(second) /\ IsFound(third)
           => Starts(<<first, second, third>>) = <<first.start, second.start, third.start>>
  <2>1. \A e \in Int, g \in Int : Sooner(e, g, d) <=> Sooner(e * w, g * w, d)
    BY KeysGrow
  <2>2. /\ ~IsFound(first) => Starts(<<first>>) = <<>>
        /\ IsFound(first) /\ ~IsFound(second) => Starts(<<first, second>>) = <<first.start>>
        /\ IsFound(first) /\ IsFound(second) /\ ~IsFound(third)
             => Starts(<<first, second, third>>) = <<first.start, second.start>>
        /\ IsFound(first) /\ IsFound(second) /\ IsFound(third)
             => Starts(<<first, second, third>>) = <<first.start, second.start, third.start>>
    BY StartsOfFew, Zenon
  <2> QED
    BY <2>1, <2>2
<1>3. PICK H : H = AheadOf(T, n, w, d)
  OBVIOUS
<1>4. ASSUME NEW a \in T, OnFrom(n, a, d) PROVE a * w \in H
  BY <1>3, <1>4 DEF AheadOf
<1>5. ASSUME NEW h \in H PROVE \E a \in T : h = a * w /\ OnFrom(n, a, d)
  BY <1>3 DEF AheadOf
<1>6. CASE ~IsFound(first)
  <2>1. q = <<first>> /\ Starts(q) = <<>>
    BY <1>0, <1>2, <1>6
  <2>2. q[Len(q)] = first
    BY <2>1
  <2>3. first.is \in fails \/ H = {}
    BY <1>5, <1>6 DEF Told
  <2> QED
    BY <1>1, <1>3, <2>1, <2>2, <2>3 DEF Leads
<1>7. CASE IsFound(first)
  <2>1. PICK a \in T : NearestOn(T, n, a, d) /\ first.start = a * w
    BY <1>7 DEF Told
  <2>2. Told(T, After(a, d), w, d, fails, second) /\ OnFrom(n, a, d) /\ a \in Int
    BY <1>1, <2>1 DEF NearestOn
  <2>3. ASSUME NEW b \in T, OnFrom(n, b, d) PROVE b = a \/ OnFrom(After(a, d), b, d)
    <3>1. OnFrom(a, b, d) /\ a \in Int /\ b \in Int
      BY <2>1, <2>3 DEF NearestOn
    <3> QED
      BY <3>1 DEF OnFrom, After
  <2>4. CASE ~IsFound(second)
    <3>1. q = <<first, second>> /\ Starts(q) = <<a * w>>
      BY <1>0, <1>2, <1>7, <2>1, <2>4
    <3>2. q[Len(q)] = second
      BY <3>1
    <3>3. second.is \in fails \/ \A b \in T : ~OnFrom(After(a, d), b, d)
      BY <2>2, <2>4 DEF Told
    <3>4. second.is \in fails \/ H = {a * w}
      BY <1>4, <1>5, <2>2, <2>3, <3>3
    <3> QED
      BY <1>1, <1>3, <3>1, <3>2, <3>4 DEF Leads
  <2>5. CASE IsFound(second)
    <3>1. PICK b \in T : NearestOn(T, After(a, d), b, d) /\ second.start = b * w
      BY <2>2, <2>5 DEF Told
    <3>2. Told(T, After(b, d), w, d, fails, third) /\ OnFrom(After(a, d), b, d) /\ b \in Int
      BY <1>1, <3>1 DEF NearestOn
    <3>3. OnFrom(n, b, d) /\ Sooner(a, b, d)
      BY <2>2, <3>2 DEF OnFrom, After, Sooner
    <3>4. Sooner(a * w, b * w, d)
      BY <1>0, <2>2, <3>2, <3>3
    <3>5. ASSUME NEW c \in T, OnFrom(n, c, d) PROVE c = a \/ c = b \/ OnFrom(After(b, d), c, d)
      <4>1. c = a \/ OnFrom(After(a, d), c, d)
        BY <2>3, <3>5
      <4>2. (c = a \/ OnFrom(b, c, d)) /\ b \in Int /\ c \in Int
        BY <3>1, <4>1 DEF NearestOn
      <4> QED
        BY <4>2 DEF OnFrom, After
    <3>6. a * w \in H /\ b * w \in H
      BY <1>4, <2>2, <3>3
    <3>7. CASE ~IsFound(third)
      <4>1. q = <<first, second, third>> /\ Starts(q) = <<a * w, b * w>>
        BY <1>0, <1>2, <1>7, <2>1, <2>5, <3>1, <3>7
      <4>2. q[Len(q)] = third
        BY <4>1
      <4>3. third.is \in fails \/ \A c \in T : ~OnFrom(After(b, d), c, d)
        BY <3>2, <3>7 DEF Told
      <4>4. third.is \in fails \/ H = {a * w, b * w}
        <5>1. third.is \in fails \/ \A h \in H : h = a * w \/ h = b * w
          BY <1>5, <3>5, <4>3
        <5> QED
          BY <3>6, <5>1
      <4>5. PICK u, v : u = a * w /\ v = b * w
        OBVIOUS
      <4> QED
        BY <1>1, <1>3, <3>4, <3>6, <4>1, <4>2, <4>4, <4>5 DEF Leads
    <3>8. CASE IsFound(third)
      <4>1. PICK c \in T : NearestOn(T, After(b, d), c, d) /\ third.start = c * w
        BY <3>2, <3>8 DEF Told
      <4>2. OnFrom(n, c, d) /\ Sooner(b, c, d) /\ c \in Int
        BY <2>2, <3>2, <3>3, <4>1 DEF NearestOn, OnFrom, After, Sooner
      <4>3. Sooner(b * w, c * w, d) /\ c * w \in H
        BY <1>0, <1>4, <3>2, <4>2
      <4>4. q = <<first, second, third>> /\ Starts(q) = <<a * w, b * w, c * w>>
        BY <1>0, <1>2, <1>7, <2>1, <2>5, <3>1, <3>8, <4>1
      <4>5. ASSUME NEW h \in H PROVE h \in {a * w, b * w, c * w} \/ Sooner(c * w, h, d)
        <5>1. PICK e \in T : h = e * w /\ OnFrom(n, e, d)
          BY <1>5
        <5>2. e = a \/ e = b \/ OnFrom(After(b, d), e, d)
          BY <3>5, <5>1
        <5>3. ASSUME OnFrom(After(b, d), e, d) PROVE e = c \/ Sooner(c, e, d)
          <6>1. OnFrom(c, e, d) /\ e \in Int
            BY <4>1, <5>3 DEF NearestOn
          <6> QED
            BY <4>2, <6>1 DEF OnFrom, Sooner
        <5>4. Sooner(c, e, d) => Sooner(c * w, e * w, d)
          <6>1. e \in Int
            OBVIOUS
          <6> QED
            BY <1>0, <4>2, <6>1
        <5> QED
          BY <5>1, <5>2, <5>3, <5>4
      <4>6. PICK u, v, z : u = a * w /\ v = b * w /\ z = c * w
        OBVIOUS
      <4>7. Starts(q) = <<u, v, z>> /\ u \in H /\ v \in H /\ z \in H
            /\ Sooner(u, v, d) /\ Sooner(v, z, d)
        BY <3>4, <3>6, <4>3, <4>4, <4>6
      <4>8. \A h \in H : h \in {u, v, z} \/ Sooner(z, h, d)
        BY <4>5, <4>6
      <4> QED
        BY <1>1, <1>3, <4>7, <4>8 DEF Leads
    <3> QED
      BY <3>7, <3>8
  <2> QED
    BY <2>4, <2>5
<1> QED
  BY <1>6, <1>7

\* Whatever fails, they are three keys at most.
LEMMA SearchesName ==
    ASSUME NEW T \in SUBSET Int, NEW n \in Int, NEW w \in Nat \ {0}, NEW d \in BOOLEAN,
           NEW fails, NEW V, NEW first, NEW further, Tells(T, n, w, d, fails, V, first, further)
    PROVE  LET keys == Starts(Searches(first, further, 2))
           IN  keys \in Seq(KeysFor(T, w)) /\ Len(keys) =< 3
<1> USE DEF Tells
<1>1. PICK second, third, q, K :
        /\ second = further[first.start] /\ third = further[second.start]
        /\ q = Searches(first, further, 2) /\ K = KeysFor(T, w)
  OBVIOUS
<1>2. q = IF ~IsFound(first) THEN <<first>>
          ELSE IF ~IsFound(second) THEN <<first, second>> ELSE <<first, second, third>>
  <2>1. \A v \in V : IsFound(v) => v.start \in Int
    OBVIOUS
  <2>2. LET s == further[first.start]
            t == further[s.start]
        IN  Searches(first, further, 2) =
                IF ~IsFound(first) THEN <<first>>
                ELSE IF ~IsFound(s) THEN <<first, s>> ELSE <<first, s, t>>
    BY <2>1, SearchesOfTwo
  <2> QED
    BY <1>1, <2>2
<1>3. /\ ~IsFound(first) => Starts(<<first>>) = <<>>
      /\ IsFound(first) /\ ~IsFound(second) => Starts(<<first, second>>) = <<first.start>>
      /\ IsFound(first) /\ IsFound(second) /\ ~IsFound(third)
           => Starts(<<first, second, third>>) = <<first.start, second.start>>
      /\ IsFound(first) /\ IsFound(second) /\ IsFound(third)
           => Starts(<<first, second, third>>) = <<first.start, second.start, third.start>>
  BY StartsOfFew, Zenon
<1>4. ASSUME IsFound(first)
      PROVE  /\ first.start \in K
             /\ IsFound(second) => second.start \in K
             /\ IsFound(second) /\ IsFound(third) => third.start \in K
  <2>1. PICK a \in T : first.start = a * w
    BY <1>4 DEF Told
  <2>2. Told(T, After(a, d), w, d, fails, second)
    BY <1>1, <2>1
  <2>3. ASSUME IsFound(second) PROVE second.start \in K /\ (IsFound(third) => third.start \in K)
    <3>1. PICK b \in T : second.start = b * w
      BY <2>2, <2>3 DEF Told
    <3>2. Told(T, After(b, d), w, d, fails, third)
      BY <1>1, <3>1
    <3>3. ASSUME IsFound(third) PROVE third.start \in K
      <4>1. \E c \in T : third.start = c * w
        BY <3>2, <3>3 DEF Told
      <4> QED
        BY <1>1, <4>1 DEF KeysFor
    <3> QED
      BY <1>1, <3>1, <3>3 DEF KeysFor
  <2> QED
    BY <1>1, <2>1, <2>3 DEF KeysFor
<1>5. PICK keys : keys = Starts(q)
  OBVIOUS
<1>6. \/ keys = <<>>
      \/ \E u \in K : keys = <<u>>
      \/ \E u \in K, v \in K : keys = <<u, v>>
      \/ \E u \in K, v \in K, z \in K : keys = <<u, v, z>>
  <2>1. PICK u, v, z : u = first.start /\ v = second.start /\ z = third.start
    OBVIOUS
  <2>2. \/ ~IsFound(first) /\ keys = <<>>
        \/ IsFound(first) /\ ~IsFound(second) /\ keys = <<u>>
        \/ IsFound(first) /\ IsFound(second) /\ ~IsFound(third) /\ keys = <<u, v>>
        \/ IsFound(first) /\ IsFound(second) /\ IsFound(third) /\ keys = <<u, v, z>>
    BY <1>2, <1>3, <1>5, <2>1
  <2>3. /\ IsFound(first) => u \in K
        /\ IsFound(first) /\ IsFound(second) => v \in K
        /\ IsFound(first) /\ IsFound(second) /\ IsFound(third) => z \in K
    BY <1>4, <2>1
  <2> QED
    BY <2>2, <2>3
<1>7. keys \in Seq(K) /\ Len(keys) =< 3
  <2>1. <<>> \in Seq(K) /\ Len(<<>>) = 0
    OBVIOUS
  <2>2. ASSUME NEW u \in K PROVE <<u>> \in Seq(K) /\ Len(<<u>>) = 1
    OBVIOUS
  <2>3. ASSUME NEW u \in K, NEW v \in K PROVE <<u, v>> \in Seq(K) /\ Len(<<u, v>>) = 2
    OBVIOUS
  <2>4. ASSUME NEW u \in K, NEW v \in K, NEW z \in K
        PROVE  <<u, v, z>> \in Seq(K) /\ Len(<<u, v, z>>) = 3
    OBVIOUS
  <2>5. keys \in Seq(K) /\ (Len(keys) = 0 \/ Len(keys) = 1 \/ Len(keys) = 2 \/ Len(keys) = 3)
    <3>1. CASE keys = <<>>
      BY <2>1, <3>1
    <3>2. CASE \E u \in K : keys = <<u>>
      BY <2>2, <3>2
    <3>3. CASE \E u \in K, v \in K : keys = <<u, v>>
      BY <2>3, <3>3
    <3>4. CASE \E u \in K, v \in K, z \in K : keys = <<u, v, z>>
      <4>1. PICK u \in K, v \in K, z \in K : keys = <<u, v, z>>
        BY <3>4
      <4> QED
        BY <2>4, <4>1
    <3> QED
      BY <1>6, <3>1, <3>2, <3>3, <3>4
  <2>6. PICK l : l = Len(keys)
    OBVIOUS
  <2>7. l =< 3
    BY <2>5, <2>6
  <2> QED
    BY <2>5, <2>6, <2>7
<1> QED
  BY <1>1, <1>5, <1>7

-----------------------------------------------------------------------------
(* What Raydium lists *)

\* A search may begin anywhere; what it finds is where an array begins.
LEMMA FurtherIs ==
    ASSUME NEW i \in Int, NEW d \in BOOLEAN, NEW A \in SUBSET ArrayOrdinals, NEW bits, NEW x,
           Names(bits, x, A)
    PROVE  LET r == next_initialized_tick_array_start_index(bits, x, i, TickSpacing, d)
           IN  IsFound(r) => r.start \in Int
<1>1. PICK c \in Nat \ {0} : c = Width
  BY WidthIs
<1>2. PICK n \in Int : n = i \div c /\ get_array_start_index(i, TickSpacing) = n * c
  <2>1. i \div c \in Int
    BY Quotient
  <2> QED
    BY <1>1, <2>1 DEF get_array_start_index, Width
<1>3. PICK r, round, j :
        /\ r = next_initialized_tick_array_start_index(bits, x, i, TickSpacing, d)
        /\ round = Rounds(bits, x, d) /\ j = n * c /\ j \in Int
  <2>1. n * c \in Int
    OBVIOUS
  <2> QED
    BY <2>1
<1>4. r = Search(round, j)
  BY <1>2, <1>3, Zenon DEF next_initialized_tick_array_start_index, Rounds
<1>5. CASE n \in ArrayOrdinals
  <2>1. Finds(A, n, d, r)
    BY <1>1, <1>3, <1>4, <1>5, SearchFinds
  <2>2. \A a \in A : a * Width \in Int
    BY StartsAt
  <2> QED
    BY <1>3, <2>1, <2>2 DEF Finds, IsFound
<1>6. CASE n \notin ArrayOrdinals
  <2>1. ~check_is_valid_start_index(j, TickSpacing)
    <3> SUFFICES ASSUME check_is_valid_start_index(j, TickSpacing) PROVE FALSE
      OBVIOUS
    <3>1. PICK m \in ArrayOrdinals : j = m * c
      <4>1. j \in Int
        BY <1>3
      <4>2. \E m \in ArrayOrdinals : j = m * Width
        BY <4>1, ValidStarts
      <4> QED
        BY <1>1, <4>2
    <3>2. m \in Int
      BY OrdinalsAre
    <3>3. j \div c = m /\ j \div c = n
      BY <1>3, <3>1, <3>2, MultipleIs
    <3> QED
      BY <1>6, <3>3
  <2>2. PICK p, q : p = NextInDefault(bits, j, TickSpacing, d)
                    /\ q = NextInBitmaps(bits, x, j, TickSpacing, d)
    OBVIOUS
  <2>3. p = Panic /\ p.is = "panic"
    <3>1. p = Panic
      BY <2>1, <2>2, Zenon DEF NextInDefault
    <3> QED
      BY <3>1 DEF Panic
  <2>4. q = p
    BY <2>2, <2>3, Zenon DEF NextInBitmaps
  <2>5. Search(round, j) = IF round[j].is = "not found" THEN Search(round, round[j].start)
                           ELSE round[j]
    <3>1. PICK rank, R : rank = Rank(d) /\ R = {NextInBitmaps(bits, x, k, TickSpacing, d) : k \in Int}
      OBVIOUS
    <3>2. round \in [Int -> R]
      BY <1>3, <3>1 DEF Rounds
    <3>3. rank \in [Int -> Nat] /\ Ends(round, rank)
      BY <1>3, <3>1, RanksFall, RoundsEnd
    <3>4. j \in Int
      BY <1>3
    <3> QED
      BY <3>2, <3>3, <3>4, SearchIs
  <2>6. round[j] = q
    BY <1>3, <2>2 DEF Rounds
  <2>7. r.is = "panic"
    BY <1>4, <2>3, <2>4, <2>5, <2>6
  <2> QED
    BY <1>3, <2>7 DEF IsFound
<1> QED
  BY <1>5, <1>6

\* What the searches of Raydium return, and what ends them.
FirstHeld(bits, x, t, d) == get_first_initialized_tick_array(bits, x, t, TickSpacing, d).at
Further(bits, x, d) ==
    [i \in Int |-> next_initialized_tick_array_start_index(bits, x, i, TickSpacing, d)]
Failing == {"error", "panic"}

\* What the searches of Raydium tell of the arrays.
LEMMA TicksAreTold ==
    ASSUME NEW t \in MinTick..MaxTick, NEW d \in BOOLEAN, NEW A \in SUBSET ArrayOrdinals,
           NEW bits, NEW x, Names(bits, x, A)
    PROVE  \E V : Tells(A, t \div Width, Width, d, Failing, V, FirstHeld(bits, x, t, d),
                        Further(bits, x, d))
<1>1. PICK first, further, n, V :
        /\ first = FirstHeld(bits, x, t, d) /\ further = Further(bits, x, d) /\ n = t \div Width
        /\ V = {first} \cup {further[i] : i \in Int}
  OBVIOUS
<1>2. \A a \in A : a * Width \in Int /\ a \in ArrayOrdinals
  BY StartsAt
<1>3. /\ first.is \in {"found", "error", "panic"}
      /\ first.is = "found" => \E a \in A : NearestOn(A, n, a, d) /\ first.start = a * Width
  <2>1. LET r == get_first_initialized_tick_array(bits, x, t, TickSpacing, d)
            m == t \div Width
        IN  /\ r.at.is \in {"found", "error", "panic"}
            /\ r.at.is = "found" => \E a \in A : /\ NearestOn(A, m, a, d)
                                                 /\ r.at.start = a * Width
                                                 /\ r.here = (a = m)
    BY FirstFinds
  <2> QED
    BY <1>1, <2>1 DEF FirstHeld
<1>4. Told(A, n, Width, d, Failing, first)
  BY <1>3 DEF Told, IsFound, Failing
<1>5. ASSUME NEW a \in A PROVE Told(A, After(a, d), Width, d, Failing, further[a * Width])
  <2>1. a \in ArrayOrdinals /\ a * Width \in Int
    BY <1>2
  <2>2. further[a * Width] = Search(Rounds(bits, x, d), a * Width)
    BY <1>1, <2>1, NextIsSearch DEF Further
  <2>3. Finds(A, a, d, further[a * Width])
    BY <2>1, <2>2, SearchFinds
  <2> QED
    BY <2>3 DEF Finds, Told, IsFound, Failing
<1>6. first \in V /\ further \in [Int -> V]
  BY <1>1 DEF Further
<1>7. ASSUME NEW v \in V, IsFound(v) PROVE v.start \in Int /\ v.is \notin Failing
  <2>1. v.is \notin Failing
    BY <1>7 DEF IsFound, Failing
  <2>2. CASE v = first
    BY <1>2, <1>3, <1>7, <2>1, <2>2 DEF IsFound
  <2>3. CASE \E i \in Int : v = further[i]
    <3>1. PICK i \in Int : v = further[i]
      BY <2>3
    <3>2. v = next_initialized_tick_array_start_index(bits, x, i, TickSpacing, d)
      BY <1>1, <3>1 DEF Further
    <3> QED
      BY <1>7, <2>1, <3>2, FurtherIs
  <2> QED
    BY <1>1, <2>2, <2>3
<1> QED
  BY <1>1, <1>4, <1>5, <1>6, <1>7 DEF Tells

\* Numbers of the arrays of a pool.
Numbers(dex, s) == {Ordinal(dex, key) : key \in Arrays(dex, s)}

\* What bits are set of the arrays.
LEMMA BitsAre ==
    ASSUME NEW dex, NEW s, NEW n, NEW width
    PROVE  BitsFrom(dex, s, n, width) = {a - n : a \in {b \in Numbers(dex, s) : b \in n..(n + width - 1)}}
  BY DEF BitsFrom, Numbers

\* Raydium's arrays are at multiples of their width.
LEMMA TickArraysAre ==
    ASSUME NEW s \in States["RaydiumCLMM"]
    PROVE  /\ Numbers("RaydiumCLMM", s) \subseteq ArrayOrdinals
           /\ Arrays("RaydiumCLMM", s) = KeysFor(Numbers("RaydiumCLMM", s), Width)
<1>1. ASSUME NEW t \in Initialized(s)
      PROVE  /\ t \div Width \in ArrayOrdinals /\ StartOf(t) = (t \div Width) * Width
             /\ Ordinal("RaydiumCLMM", StartOf(t)) = t \div Width
  <2>1. t \in MinTick..MaxTick
    BY RaydiumAssumption
  <2>2. PICK n \in ArrayOrdinals : n = t \div Width
                                   /\ get_array_start_index(t, TickSpacing) = n * Width
    BY <2>1, ArrayOf
  <2>3. (n * Width) \div Width = n
    BY OrdinalsAre, WidthIs, MultipleIs
  <2> QED
    BY <2>2, <2>3 DEF Ordinal, HasTicks, StartOf, Width
<1>2. Arrays("RaydiumCLMM", s) = {StartOf(t) : t \in Initialized(s)}
  BY DEF Arrays, HasTicks
<1>3. ASSUME NEW t \in Initialized(s) PROVE StartOf(t) \in KeysFor(Numbers("RaydiumCLMM", s), Width)
  BY <1>1, <1>2 DEF Numbers, KeysFor
<1>4. ASSUME NEW a \in Numbers("RaydiumCLMM", s)
      PROVE  a \in ArrayOrdinals /\ a * Width \in Arrays("RaydiumCLMM", s)
  <2>1. PICK t \in Initialized(s) : a = Ordinal("RaydiumCLMM", StartOf(t))
    BY <1>2 DEF Numbers
  <2> QED
    BY <1>1, <1>2, <2>1
<1> QED
  BY <1>2, <1>3, <1>4 DEF KeysFor

\* What a pool account and an extension account that may be older or newer name.
Mixed(dex, s, r) ==
    {a \in Numbers(dex, s) : ~Outward(a)} \cup {a \in Numbers(dex, r) : Outward(a)}

\* The accounts of two states name what either has on its side.
LEMMA TickBitmapsName ==
    ASSUME NEW s \in States["RaydiumCLMM"], NEW r \in States["RaydiumCLMM"]
    PROVE  /\ Mixed("RaydiumCLMM", s, r) \subseteq ArrayOrdinals
           /\ Names(PoolAccount("RaydiumCLMM", s).tick_array_bitmap,
                    ExtensionAccount("RaydiumCLMM", r), Mixed("RaydiumCLMM", s, r))
<1> DEFINE dex == "RaydiumCLMM"
<1>1. PICK S, R, A : S = Numbers(dex, s) /\ R = Numbers(dex, r) /\ A = Mixed(dex, s, r)
  OBVIOUS
<1>2. S \subseteq ArrayOrdinals /\ R \subseteq ArrayOrdinals /\ A \subseteq ArrayOrdinals
  BY <1>1, TickArraysAre DEF Mixed
<1>3. \A n \in ArrayOrdinals : n \in Int
  BY OrdinalsAre
<1>4. PICK b \in Nat \ {0}, k \in Nat : b = BitmapSize /\ k = Bitmaps
  BY BitmapAssumption
<1>5. PoolAccount(dex, s).tick_array_bitmap = {a + b : a \in Inner(A)}
  <2>1. PoolAccount(dex, s).tick_array_bitmap = BitsFrom(dex, s, -b, 2 * b)
    BY <1>4 DEF PoolAccount, PoolState
  <2>2. BitsFrom(dex, s, -b, 2 * b) = {a - (-b) : a \in {e \in S : e \in (-b)..(-b + 2 * b - 1)}}
    BY <1>1, BitsAre
  <2>3. {e \in S : e \in (-b)..(-b + 2 * b - 1)} = Inner(A)
    <3>1. ASSUME NEW e \in Int PROVE e \in (-b)..(-b + 2 * b - 1) <=> ~Outward(e)
      BY <1>4 DEF Outward
    <3>2. Inner(A) = {e \in S : ~Outward(e)}
      BY <1>1 DEF Inner, Mixed
    <3> QED
      BY <1>2, <1>3, <3>1, <3>2
  <2>4. \A a \in Inner(A) : a - (-b) = a + b
    BY <1>2, <1>3 DEF Inner
  <2> QED
    BY <2>1, <2>2, <2>3, <2>4
<1>6. ASSUME NEW f \in Int, f \in 1..k \/ f \in (-k - 1)..(-2)
      PROVE  Bitmap(ExtensionAccount(dex, r), f) = {a + (-(f * b)) : a \in InBitmap(A, f)}
  <2>1. PICK n \in Int : n = f * b
    OBVIOUS
  <2>2. Bitmap(ExtensionAccount(dex, r), f) = BitsFrom(dex, r, n, b)
    <3>1. CASE f < 0
      <4>1. -f - 2 \in 0..(k - 1) /\ -(-f - 2 + 2) * b = n
        BY <1>6, <2>1, <3>1
      <4>2. ExtensionAccount(dex, r).negative
              = [h \in 0..(Bitmaps - 1) |-> BitsFrom(dex, r, -(h + 2) * BitmapSize, BitmapSize)]
        BY DEF ExtensionAccount
      <4> QED
        BY <1>4, <3>1, <4>1, <4>2 DEF Bitmap
    <3>2. CASE ~(f < 0)
      <4>1. f - 1 \in 0..(k - 1) /\ (f - 1 + 1) * b = n
        BY <1>6, <2>1, <3>2
      <4>2. ExtensionAccount(dex, r).positive
              = [h \in 0..(Bitmaps - 1) |-> BitsFrom(dex, r, (h + 1) * BitmapSize, BitmapSize)]
        BY DEF ExtensionAccount
      <4> QED
        BY <1>4, <3>2, <4>1, <4>2 DEF Bitmap
    <3> QED
      BY <3>1, <3>2
  <2>3. BitsFrom(dex, r, n, b) = {a - n : a \in {e \in R : e \in n..(n + b - 1)}}
    BY <1>1, BitsAre
  <2>4. {e \in R : e \in n..(n + b - 1)} = InBitmap(A, f)
    <3>1. ASSUME NEW e \in Int PROVE e \in n..(n + b - 1) <=> e \div b = f
      <4>1. (f + 1) * b = n + b
        BY <2>1
      <4>2. PICK q \in Int : q = e \div b /\ q * b =< e /\ e < (q + 1) * b
        BY Quotient
      <4>3. f * b =< e /\ e < (f + 1) * b => e \div b = f
        BY Quotient
      <4> QED
        BY <2>1, <4>1, <4>2, <4>3
    <3>2. ASSUME NEW e \in Int, e \div b = f PROVE Outward(e)
      <4>1. e \in n..(n + b - 1)
        BY <3>1, <3>2
      <4>2. n >= b \/ n =< -(2 * b)
        <5>1. CASE f >= 1
          <6>1. 1 * b =< f * b
            BY <5>1, Ordered
          <6> QED
            BY <2>1, <6>1
        <5>2. CASE f =< -2
          <6>1. f * b =< (-2) * b
            BY <5>2, Ordered
          <6> QED
            BY <2>1, <6>1
        <5> QED
          BY <1>6, <5>1, <5>2
      <4> QED
        BY <1>4, <4>1, <4>2 DEF Outward
    <3>3. ASSUME NEW e \in Int, e \div b = f PROVE e \in A <=> e \in R
      BY <1>1, <3>2, <3>3 DEF Mixed
    <3> QED
      BY <1>2, <1>3, <1>4, <3>1, <3>3 DEF InBitmap
  <2>5. \A a \in InBitmap(A, f) : a - n = a + (-(f * b))
    BY <1>2, <1>3, <2>1 DEF InBitmap
  <2> QED
    BY <2>2, <2>3, <2>4, <2>5
<1> QED
  BY <1>1, <1>2, <1>4, <1>5, <1>6 DEF Names

\* The keys are those of three searches.
LEMMA TickKeysAre ==
    ASSUME NEW h, down \in BOOLEAN, NEW t \in MinTick..MaxTick, h.pool.tick_current = t
    PROVE  LET q == Searches(FirstHeld(h.pool.tick_array_bitmap, h.extension, t, down),
                             Further(h.pool.tick_array_bitmap, h.extension, down), 2)
           IN  /\ TickArrayKeys(h, 2).keys = Starts(q)
               /\ TickArrayKeys(h, 2).is \in {"reading", "none", "panic"}
               /\ q[Len(q)].is \in Failing => TickArrayKeys(h, 2).is # "reading"
<1>1. PICK q : /\ q = Searches(FirstHeld(h.pool.tick_array_bitmap, h.extension, t, down),
                               Further(h.pool.tick_array_bitmap, h.extension, down), 2)
               /\ q = load_cur_and_next_specify_count_tick_array_key(
                          2, h.pool.tick_array_bitmap, h.extension, h.pool.tick_current,
                          TickSpacing, down)
  BY Zenon DEF load_cur_and_next_specify_count_tick_array_key, FirstHeld, Further
<1>2. TickArrayKeys(h, 2) =
          [is |-> IF Len(q) = 1 /\ q[Len(q)].is = "error" THEN "none"
                  ELSE IF q[Len(q)].is \in {"error", "panic"} THEN "panic" ELSE "reading",
           keys |-> Starts(q)]
  BY <1>1, Zenon DEF TickArrayKeys
<1> QED
  BY <1>1, <1>2 DEF Failing

\* Arrays Raydium lists are the ones a swap may use, in order.
LEMMA TickArraysAreUsable ==
    ASSUME NEW s \in States["RaydiumCLMM"], NEW h, down \in BOOLEAN,
           h.pool = PoolAccount("RaydiumCLMM", s),
           h.extension = ExtensionAccount("RaydiumCLMM", s),
           TickArrayKeys(h, 2).is = "reading"
    PROVE  /\ ToSet(TickArrayKeys(h, 2).keys) = Usable("RaydiumCLMM", s, down)
           /\ InOrder(TickArrayKeys(h, 2).keys, down)
<1> DEFINE dex == "RaydiumCLMM"
<1>1. PICK d \in BOOLEAN : d = down
  OBVIOUS
<1>2. PICK bits, x, t, A, n, K :
        /\ bits = h.pool.tick_array_bitmap /\ x = h.extension /\ t = s.tick
        /\ A = Numbers(dex, s) /\ n = t \div Width /\ K = Arrays(dex, s)
  OBVIOUS
<1>3. t \in MinTick..MaxTick /\ h.pool.tick_current = t
  BY <1>2, RaydiumAssumption DEF PoolAccount, PoolState
<1>4. A \subseteq ArrayOrdinals /\ Names(bits, x, A) /\ K = KeysFor(A, Width)
  <2>1. Mixed(dex, s, s) = Numbers(dex, s)
    BY DEF Mixed
  <2>2. /\ Mixed(dex, s, s) \subseteq ArrayOrdinals
        /\ Names(PoolAccount(dex, s).tick_array_bitmap, ExtensionAccount(dex, s), Mixed(dex, s, s))
    BY TickBitmapsName
  <2> QED
    BY <1>2, <2>1, <2>2, TickArraysAre
<1>5. PICK q : q = Searches(FirstHeld(bits, x, t, d), Further(bits, x, d), 2)
  OBVIOUS
<1>6. TickArrayKeys(h, 2).keys = Starts(q) /\ q[Len(q)].is \notin Failing
  <2>1. PICK p : p = Searches(FirstHeld(h.pool.tick_array_bitmap, h.extension, t, down),
                              Further(h.pool.tick_array_bitmap, h.extension, down), 2)
    OBVIOUS
  <2>2. /\ TickArrayKeys(h, 2).keys = Starts(p)
        /\ p[Len(p)].is \in Failing => TickArrayKeys(h, 2).is # "reading"
    BY <1>3, <2>1, TickKeysAre
  <2>3. p = q
    BY <1>1, <1>2, <1>5, <2>1
  <2> QED
    BY <2>2, <2>3
<1>7. n \in ArrayOrdinals /\ n \in Int /\ Current(dex, s) = n * Width
  <2>1. n \in ArrayOrdinals /\ get_array_start_index(t, TickSpacing) = n * Width
    BY <1>2, <1>3, ArrayOf
  <2> QED
    BY <1>2, <2>1, OrdinalsAre DEF Current, HasTicks, StartOf
<1>8. A \subseteq Int
  BY <1>4, OrdinalsAre
<1>9. PICK H : H = AheadOf(A, n, Width, d)
  OBVIOUS
<1>10. Leads(H, Starts(q), d)
  <2>1. \E V : Tells(A, n, Width, d, Failing, V, FirstHeld(bits, x, t, d), Further(bits, x, d))
    BY <1>2, <1>3, <1>4, TicksAreTold
  <2>2. PICK V, first, further :
          /\ first = FirstHeld(bits, x, t, d) /\ further = Further(bits, x, d)
          /\ Tells(A, n, Width, d, Failing, V, first, further)
    BY <2>1
  <2>3. LET p == Searches(first, further, 2)
        IN  \/ p[Len(p)].is \in Failing
            \/ Leads(AheadOf(A, n, Width, d), Starts(p), d)
    BY <1>7, <1>8, <2>2, WidthIs, SearchesLead
  <2> QED
    BY <1>5, <1>6, <1>9, <2>2, <2>3
<1>11. H = From(K, n * Width, d)
  <2>1. PICK w \in Nat \ {0} : w = Width
    BY WidthIs
  <2>2. AheadOf(A, n, w, d) = From(KeysFor(A, w), n * w, d)
    <3>1. A \in SUBSET Int
      BY <1>8
    <3>2. n \in Int
      BY <1>7
    <3> QED
      BY <3>1, <3>2, KeysInOrder
  <2> QED
    BY <1>4, <1>9, <2>1, <2>2
<1>12. PICK lo \in Int, hi \in Int : H \subseteq lo..hi
  <2>1. PICK lo \in Int, hi \in Int : lo = FirstArray * Width /\ hi = LastArray * Width
    <3>1. FirstArray * Width \in Int /\ LastArray * Width \in Int
      BY ArraysAreInRange, StartsAt
    <3> QED
      BY <3>1
  <2>2. ASSUME NEW i \in H PROVE i \in lo..hi
    <3>1. PICK a \in A : i = a * Width
      BY <1>4, <1>11 DEF From, KeysFor
    <3>2. a \in Int /\ FirstArray =< a /\ a =< LastArray /\ FirstArray \in Int /\ LastArray \in Int
      BY <1>4, OrdinalsAre
    <3>3. FirstArray * Width =< a * Width /\ a * Width =< LastArray * Width /\ a * Width \in Int
      BY <3>2, WidthIs, Ordered
    <3> QED
      BY <2>1, <3>1, <3>3
  <2> QED
    BY <2>2
<1>13. ToSet(Starts(q)) = FirstThree(H, d)
  <2>1. PICK keys : keys = Starts(q)
    OBVIOUS
  <2>2. H \in SUBSET (lo..hi)
    BY <1>12
  <2>3. Leads(H, keys, d)
    BY <1>10, <2>1
  <2>4. ToSet(keys) = FirstThree(H, d)
    BY <2>2, <2>3, FewerThanThree
  <2> QED
    BY <2>1, <2>4
<1>14. Usable(dex, s, d) = FirstThree(H, d)
  <2>1. Usable(dex, s, d) =
          LET ahead == {i \in K : IF d THEN i =< n * Width ELSE i >= n * Width}
          IN  {i \in ahead : Cardinality({j \in ahead : IF d THEN j > i ELSE j < i}) < 3}
    BY <1>2, <1>7, Zenon DEF Usable
  <2>2. {i \in K : IF d THEN i =< n * Width ELSE i >= n * Width} = H
    <3>1. \A i \in K : i \in Int
      BY <1>4, StartsAt DEF KeysFor
    <3>2. n * Width \in Int
      BY <1>7, StartsAt
    <3> QED
      BY <1>11, <3>1, <3>2 DEF OnFrom, From
  <2>3. \A i, j : Sooner(j, i, d) <=> (IF d THEN j > i ELSE j < i)
    BY Zenon DEF Sooner
  <2> QED
    BY <2>1, <2>2, <2>3 DEF FirstThree
<1>15. InOrder(Starts(q), d)
  <2>1. PICK keys : keys = Starts(q)
    OBVIOUS
  <2>2. H \in SUBSET Int
    BY <1>12
  <2> QED
    BY <1>10, <2>1, <2>2, LeadsInOrder
<1> QED
  BY <1>1, <1>6, <1>13, <1>14, <1>15

-----------------------------------------------------------------------------
(* DLMM, in one bitmap *)

\* Positions of an extension's side, over its bitmaps.
Positions(side) == UNION {{(k * BitmapSize) + b : b \in side[k]} : k \in DOMAIN side}

\* The bitmaps of a DLMM pool and of its extension name the arrays A.
Above(A) == {a \in A : a >= BitmapSize}
Under(A) == {a \in A : a < -BitmapSize}
BinNames(bits, x, A) ==
    /\ bits = {a + BitmapSize : a \in Inner(A)}
    /\ x = Missing => A = Inner(A)
    /\ x # Missing => /\ Positions(x.positive) = {a + (-BitmapSize) : a \in Above(A)}
                      /\ Positions(x.negative) = {b + (-BitmapSize - 1) : b \in {-a : a \in Under(A)}}

\* Where the bitmaps end.
Top == (Bitmaps + 1) * BitmapSize
Reach == (-Top)..(Top - 1)

\* The bitmap of the pool is below where they end.
LEMMA TopIs == Top \in Nat /\ BitmapSize =< Top /\ BitmapSize * (Bitmaps + 1) = Top
<1>1. PICK b \in Nat \ {0}, k \in Nat \ {0} : b = BitmapSize /\ k = Bitmaps + 1
  BY BitmapAssumption
<1>2. 1 * b =< k * b /\ k * b \in Int /\ 1 * b = b /\ b * k = k * b
  BY Ordered
<1> QED
  BY <1>1, <1>2 DEF Top

\* What is found in the extension, on the side where the search is.
LEMMA SideFinds ==
    ASSUME NEW A \in SUBSET Reach, NEW bits, NEW x, x # Missing, BinNames(bits, x, A),
           NEW n \in Reach, Outward(n), NEW d \in BOOLEAN
    PROVE  LET r == next_bin_array_index_with_liquidity(x, n, d)
               S == IF n > 0 THEN Above(A) ELSE Under(A)
           IN  \/ \E a \in S : NearestOn(S, n, a, d) /\ r = Found(a)
               \/ /\ \A a \in S : ~OnFrom(n, a, d)
                  /\ r = IF (n > 0) = d THEN NotFound(IF n > 0 THEN BitmapSize - 1 ELSE -BitmapSize)
                         ELSE Error
<1>1. PICK b \in Nat \ {0}, top \in Nat :
        b = BitmapSize /\ top = Top /\ b =< top /\ BitmapSize * (Bitmaps + 1) = top
  BY TopIs, BitmapAssumption
<1>2. n \in (-top)..(top - 1) /\ (n >= b \/ n < -b) /\ \A a \in A : a \in (-top)..(top - 1)
  BY <1>1 DEF Reach, Outward
<1>3. PICK r : r = next_bin_array_index_with_liquidity(x, n, d)
  OBVIOUS
<1>4. PICK side, set, from, end, ahead :
        /\ side = IF n < 0 THEN x.negative ELSE x.positive
        /\ set = Positions(side)
        /\ from = bin_array_offset_in_bitmap(n)
        /\ end = IF (n > 0) = d THEN (IF n > 0 THEN b ELSE -b - 1)
                 ELSE (IF n > 0 THEN top - 1 ELSE -(top - 1) - 1)
        /\ ahead = iter_bitmap(x, n, end)
  OBVIOUS
<1>5. r = IF ahead # {} THEN Found(to_bin_array_index(Nearest(ahead, (n > 0) = d), n > 0))
          ELSE IF (n > 0) = d THEN NotFound(IF n > 0 THEN b - 1 ELSE -b) ELSE Error
  BY <1>1, <1>3, <1>4 DEF next_bin_array_index_with_liquidity
<1>6. ahead = IF n = end THEN set \cap {from} ELSE Ahead(set, from, (n < 0) = (n < end))
  <2>1. iter_bitmap(x, n, end) =
          IF n = end
          THEN Positions(IF n < 0 THEN x.negative ELSE x.positive) \cap {bin_array_offset_in_bitmap(n)}
          ELSE Ahead(Positions(IF n < 0 THEN x.negative ELSE x.positive),
                     bin_array_offset_in_bitmap(n), (n < 0) = (n < end))
    BY Zenon DEF iter_bitmap, Positions
  <2> QED
    BY <1>4, <2>1
<1>7. CASE n >= b
  <2>1. n > 0 /\ ~(n < 0) /\ from = n + (-b)
    BY <1>1, <1>2, <1>4, <1>7 DEF bin_array_offset_in_bitmap
  <2>0. end = IF d THEN b ELSE top - 1
    <3>1. (n > 0) = TRUE
      BY <2>1
    <3> QED
      BY <1>4, <3>1
  <2>2. PICK T \in SUBSET ((-top)..(top - 1)) : T = Above(A)
    BY <1>2 DEF Above
  <2>3. set = {a + (-b) : a \in T}
    BY <1>1, <1>4, <2>1, <2>2 DEF BinNames
  <2>4. \A c \in set : c \in Int /\ 0 =< c /\ c =< top - 1 - b
    BY <1>1, <2>2, <2>3 DEF Above
  <2>5. ahead = Ahead(set, n + (-b), d)
    <3>1. CASE d
      <4>1. end = b /\ ~(n < end)
        BY <1>2, <1>7, <2>0, <3>1
      <4>2. CASE n = b
        BY <1>6, <2>1, <2>4, <3>1, <4>1, <4>2 DEF Ahead
      <4>3. CASE n # b
        <5>1. n # end /\ ((n < 0) = (n < end)) = TRUE
          BY <2>1, <4>1, <4>3
        <5> QED
          BY <1>6, <2>1, <3>1, <5>1
      <4> QED
        BY <4>2, <4>3
    <3>2. CASE ~d
      <4>1. end = top - 1
        BY <2>0, <3>2
      <4>2. CASE n = end
        BY <1>6, <2>1, <2>4, <3>2, <4>1, <4>2 DEF Ahead
      <4>3. CASE n # end
        <5>1. n < end
          BY <1>2, <4>1, <4>3
        <5> QED
          BY <1>6, <2>1, <3>2, <4>3, <5>1
      <4> QED
        BY <4>2, <4>3
    <3> QED
      BY <3>1, <3>2
  <2>6. HasNearest(T, Ahead(set, n + (-b), d), n, -b, d)
    <3>1. n \in Int /\ -b \in Int /\ -top \in Int /\ top - 1 \in Int
      BY <1>2
    <3> QED
      BY <2>3, <3>1, NearestAhead
  <2>7. ASSUME NEW a \in T, Nearest(ahead, d) = a + (-b)
        PROVE  to_bin_array_index(Nearest(ahead, d), TRUE) = a
    BY <1>1, <2>7 DEF to_bin_array_index
  <2>8. ((n > 0) = d) = d /\ (n > 0) = TRUE
    BY <2>1
  <2>9. r = IF ahead # {} THEN Found(to_bin_array_index(Nearest(ahead, d), TRUE))
            ELSE IF d THEN NotFound(b - 1) ELSE Error
    BY <1>5, <2>1, <2>8
  <2> QED
    BY <1>1, <1>3, <2>1, <2>2, <2>5, <2>6, <2>7, <2>8, <2>9 DEF HasNearest
<1>8. CASE n < -b
  <2>1. ~(n > 0) /\ n < 0 /\ from = -n + (-b - 1)
    BY <1>1, <1>2, <1>4, <1>8 DEF bin_array_offset_in_bitmap
  <2>0. end = IF d THEN -top ELSE -b - 1
    <3>1. (n > 0) = FALSE /\ -(top - 1) - 1 = -top
      BY <2>1
    <3> QED
      BY <1>4, <3>1
  <2>2. PICK T \in SUBSET ((-top)..top) : T = {-a : a \in Under(A)}
    <3>1. \A a \in Under(A) : -a \in (-top)..top
      BY <1>2 DEF Under
    <3>2. {-a : a \in Under(A)} \in SUBSET ((-top)..top)
      BY <3>1
    <3> QED
      BY <3>2
  <2>3. set = {a + (-b - 1) : a \in T}
    BY <1>1, <1>4, <2>1, <2>2 DEF BinNames
  <2>4. \A c \in set : c \in Int /\ 0 =< c /\ c =< top - 1 - b
    BY <1>1, <1>2, <2>2, <2>3 DEF Under
  <2>5. ahead = Ahead(set, -n + (-b - 1), ~d)
    <3>1. CASE ~d
      <4>1. end = -b - 1 /\ (n < end \/ n = end)
        BY <1>2, <1>8, <2>0, <3>1
      <4>2. CASE n = end
        BY <1>6, <2>1, <2>4, <3>1, <4>1, <4>2 DEF Ahead
      <4>3. CASE n # end
        BY <1>6, <2>1, <3>1, <4>1, <4>3
      <4> QED
        BY <4>2, <4>3
    <3>2. CASE d
      <4>1. end = -top
        BY <2>0, <3>2
      <4>2. CASE n = end
        BY <1>6, <2>1, <2>4, <3>2, <4>1, <4>2 DEF Ahead
      <4>3. CASE n # end
        <5>1. ~(n < end)
          BY <1>2, <4>1, <4>3
        <5> QED
          BY <1>6, <2>1, <3>2, <4>3, <5>1
      <4> QED
        BY <4>2, <4>3
    <3> QED
      BY <3>1, <3>2
  <2>6. HasNearest(T, Ahead(set, -n + (-b - 1), ~d), -n, -b - 1, ~d)
    <3>1. -n \in Int /\ -b - 1 \in Int /\ -top \in Int /\ top \in Int
      BY <1>2
    <3>2. PICK e \in BOOLEAN : e = ~d
      OBVIOUS
    <3>3. HasNearest(T, Ahead(set, -n + (-b - 1), e), -n, -b - 1, e)
      BY <2>3, <3>1, NearestAhead
    <3> QED
      BY <3>2, <3>3
  <2>7. ASSUME NEW a \in T, Nearest(ahead, ~d) = a + (-b - 1)
        PROVE  to_bin_array_index(Nearest(ahead, ~d), FALSE) = -a
    BY <1>1, <2>7 DEF to_bin_array_index
  <2>8. r = IF ahead # {} THEN Found(to_bin_array_index(Nearest(ahead, ~d), FALSE))
            ELSE IF ~d THEN NotFound(-b) ELSE Error
    <3>1. ((n > 0) = d) = ~d /\ (n > 0) = FALSE
      BY <2>1
    <3> QED
      BY <1>5, <2>1, <3>1
  <2>9. ASSUME NEW a \in Under(A)
        PROVE  a \in Int /\ -a \in T /\ (OnFrom(-n, -a, ~d) <=> OnFrom(n, a, d))
    BY <1>2, <2>2 DEF Under, OnFrom
  <2>10. CASE ahead = {}
    <3>1. \A a \in Under(A) : ~OnFrom(n, a, d)
      BY <2>5, <2>6, <2>9, <2>10 DEF HasNearest
    <3> QED
      BY <1>1, <1>3, <2>1, <2>8, <2>10, <3>1
  <2>11. CASE ahead # {}
    <3>1. PICK c \in T : NearestOn(T, -n, c, ~d) /\ Nearest(ahead, ~d) = c + (-b - 1)
      BY <2>5, <2>6, <2>11 DEF HasNearest
    <3>2. PICK a \in Under(A) : c = -a
      BY <2>2
    <3>3. a \in Int /\ -c = a
      BY <2>9, <3>2
    <3>4. r = Found(a)
      BY <2>7, <2>8, <2>11, <3>1, <3>3
    <3>5. OnFrom(n, a, d)
      BY <2>9, <3>1, <3>2 DEF NearestOn
    <3>6. ASSUME NEW e \in Under(A), OnFrom(n, e, d) PROVE OnFrom(a, e, d)
      <4>1. OnFrom(c, -e, ~d)
        BY <2>9, <3>1, <3>6 DEF NearestOn
      <4>2. e \in Int
        BY <2>9
      <4> QED
        BY <3>2, <3>3, <4>1, <4>2 DEF OnFrom
    <3> QED
      BY <1>3, <2>1, <3>4, <3>5, <3>6 DEF NearestOn
  <2> QED
    BY <2>10, <2>11
<1> QED
  BY <1>2, <1>7, <1>8

-----------------------------------------------------------------------------
(* DLMM, from bitmap to bitmap *)

\* Rounds of a search for bin arrays, and how many may follow: the search passes
\* one side of the extension, the pool's bitmap and the other side.
BinRounds(bits, x, d) == [i \in Int |-> NextBinArray(bits, x, i, d)]
Leaving(n, d) == IF d THEN n < -BitmapSize ELSE n >= BitmapSize
BinRank(d) == [i \in Int |-> IF Leaving(i, d) THEN 0 ELSE IF ~Outward(i) THEN 1 ELSE 2]

\* What searches return.
LEMMA SearchKinds ==
    /\ \A k : Found(k).is = "found" /\ Found(k).start = k
    /\ \A k : NotFound(k).is = "not found" /\ NotFound(k).start = k
    /\ Error.is = "error"
  BY DEF Found, NotFound, Error

\* Every round that finds nothing leads to one of a lower rank.
LEMMA BinRoundsEnd ==
    ASSUME NEW bits, NEW x, NEW d \in BOOLEAN
    PROVE  BinRank(d) \in [Int -> Nat] /\ Ends(BinRounds(bits, x, d), BinRank(d))
<1>1. PICK b \in Nat \ {0} : b = BitmapSize
  BY BitmapAssumption
<1>2. BinRank(d) \in [Int -> Nat]
  BY DEF BinRank
<1>3. ASSUME NEW i \in Int, BinRounds(bits, x, d)[i].is = "not found"
      PROVE  /\ BinRounds(bits, x, d)[i].start \in Int
             /\ BinRank(d)[BinRounds(bits, x, d)[i].start] < BinRank(d)[i]
  <2>1. PICK r : r = BinRounds(bits, x, d)[i] /\ r = NextBinArray(bits, x, i, d) /\ r.is = "not found"
    BY <1>3 DEF BinRounds
  <2>2. ASSUME NEW k \in Int, NEW m \in Int
        PROVE  BinRank(d)[m] < BinRank(d)[k] <=>
                   \/ Leaving(m, d) /\ ~Leaving(k, d)
                   \/ ~Leaving(m, d) /\ ~Outward(m) /\ ~Leaving(k, d) /\ Outward(k)
    BY DEF BinRank
  <2>3. is_overflow_default_bin_array_bitmap(i) <=> Outward(i)
    BY <1>1 DEF is_overflow_default_bin_array_bitmap, Outward
  <2>4. CASE ~Outward(i)
    <3>1. r = next_bin_array_index_with_liquidity_internal(bits, i, d)
      BY <2>1, <2>3, <2>4 DEF NextBinArray
    <3>2. r = NotFound(IF d THEN -b - 1 ELSE b)
      <4>1. PICK ahead : r = IF ahead # {} THEN Found(Nearest(ahead, d) - BitmapSize)
                             ELSE NotFound(IF d THEN -BitmapSize - 1 ELSE BitmapSize)
        BY <3>1, Zenon DEF next_bin_array_index_with_liquidity_internal
      <4> QED
        BY <1>1, <2>1, <4>1, SearchKinds
    <3>3. PICK e \in Int : e = (IF d THEN -b - 1 ELSE b) /\ r.start = e
      <4>1. -b - 1 \in Int /\ b \in Int
        OBVIOUS
      <4> QED
        BY <3>2, <4>1, SearchKinds
    <3>4. Leaving(e, d) /\ ~Leaving(i, d)
      BY <1>1, <2>4, <3>3 DEF Leaving, Outward
    <3> QED
      BY <2>1, <2>2, <3>3, <3>4
  <2>5. CASE Outward(i)
    <3>1. r = IF x = Missing THEN Error ELSE next_bin_array_index_with_liquidity(x, i, d)
      BY <2>1, <2>3, <2>5 DEF NextBinArray
    <3>2. r = next_bin_array_index_with_liquidity(x, i, d)
      BY <2>1, <3>1, SearchKinds
    <3>3. (i > 0) = d /\ r = NotFound(IF i > 0 THEN b - 1 ELSE -b)
      <4>1. PICK ahead : r = IF ahead # {}
                             THEN Found(to_bin_array_index(Nearest(ahead, (i > 0) = d), i > 0))
                             ELSE IF (i > 0) = d THEN NotFound(IF i > 0 THEN b - 1 ELSE -b)
                             ELSE Error
        BY <1>1, <3>2 DEF next_bin_array_index_with_liquidity
      <4> QED
        BY <2>1, <4>1, SearchKinds
    <3>4. PICK e \in Int : e = (IF i > 0 THEN b - 1 ELSE -b) /\ r.start = e
      <4>1. b - 1 \in Int /\ -b \in Int
        OBVIOUS
      <4> QED
        BY <3>3, <4>1, SearchKinds
    <3>5. i >= b \/ i < -b
      BY <1>1, <2>5 DEF Outward
    <3>6. ~Leaving(e, d) /\ ~Outward(e) /\ ~Leaving(i, d)
      <4>1. CASE i >= b
        <5>1. d /\ i > 0
          BY <3>3, <4>1
        <5> QED
          BY <1>1, <3>4, <4>1, <5>1 DEF Leaving, Outward
      <4>2. CASE i < -b
        <5>1. ~d /\ ~(i > 0)
          BY <3>3, <4>2
        <5> QED
          BY <1>1, <3>4, <4>2, <5>1 DEF Leaving, Outward
      <4> QED
        BY <3>5, <4>1, <4>2
    <3> QED
      BY <2>1, <2>2, <2>5, <3>4, <3>6
  <2> QED
    BY <2>4, <2>5
<1> QED
  BY <1>2, <1>3 DEF Ends

\* What a search finds is what its first round does, or a search from there.
LEMMA BinSearchIs ==
    ASSUME NEW bits, NEW x, NEW d \in BOOLEAN, NEW i \in Int
    PROVE  LET r == NextBinArray(bits, x, i, d)
           IN  Search(BinRounds(bits, x, d), i) =
                   IF r.is = "not found" THEN Search(BinRounds(bits, x, d), r.start) ELSE r
<1>1. PICK round, rank, R : round = BinRounds(bits, x, d) /\ rank = BinRank(d)
                            /\ R = {NextBinArray(bits, x, k, d) : k \in Int}
  OBVIOUS
<1>2. round \in [Int -> R] /\ round[i] = NextBinArray(bits, x, i, d)
  BY <1>1 DEF BinRounds
<1>3. rank \in [Int -> Nat] /\ Ends(round, rank)
  BY <1>1, BinRoundsEnd
<1>4. Search(round, i) = IF round[i].is = "not found" THEN Search(round, round[i].start)
                         ELSE round[i]
  BY <1>2, <1>3, SearchIs
<1> QED
  BY <1>1, <1>2, <1>4

\* What a search for bin arrays finds of A from n on.
BinFinds(A, n, d, r) ==
    \/ r.is = "found" /\ \E a \in A : NearestOn(A, n, a, d) /\ r.start = a
    \/ r.is = "error" /\ \A a \in A : ~OnFrom(n, a, d)

\* A pool without an extension has nothing beyond its bitmap.
MaySearch(n, x, d) == x = Missing => ~Outward(n) \/ Leaving(n, d)

\* The accounts name the arrays A.
BinNamed(A, bits, x) == A \in SUBSET Reach /\ BinNames(bits, x, A)

\* A round beyond the bitmap of the pool.
LEMMA RoundInExtension ==
    ASSUME NEW n \in Int, Outward(n), NEW bits, NEW x, NEW d \in BOOLEAN
    PROVE  NextBinArray(bits, x, n, d) =
               IF x = Missing THEN Error ELSE next_bin_array_index_with_liquidity(x, n, d)
<1>1. is_overflow_default_bin_array_bitmap(n)
  BY BitmapAssumption DEF is_overflow_default_bin_array_bitmap, Outward
<1> QED
  BY <1>1 DEF NextBinArray

\* On its way out: the last round.
LEMMA LeavingFinds ==
    ASSUME NEW A, NEW bits, NEW x, BinNamed(A, bits, x), NEW d \in BOOLEAN, NEW n \in Reach,
           Leaving(n, d)
    PROVE  BinFinds(A, n, d, Search(BinRounds(bits, x, d), n))
<1>1. PICK b \in Nat \ {0}, top \in Nat : b = BitmapSize /\ top = Top
  BY TopIs, BitmapAssumption
<1>2. n \in Int /\ Outward(n) /\ A \in SUBSET Reach /\ \A a \in A : a \in Int
  BY <1>1 DEF BinNamed, Reach, Leaving, Outward
<1>3. PICK r, S : r = NextBinArray(bits, x, n, d) /\ S = IF n > 0 THEN Above(A) ELSE Under(A)
  OBVIOUS
<1>4. ASSUME NEW a \in A, OnFrom(n, a, d) PROVE a \in S /\ Outward(a)
  BY <1>1, <1>2, <1>3, <1>4 DEF Leaving, OnFrom, Above, Under, Outward
<1>5. r.is # "not found" => Search(BinRounds(bits, x, d), n) = r
  BY <1>2, <1>3, BinSearchIs
<1>6. CASE x = Missing
  <2>1. r = Error
    BY <1>2, <1>3, <1>6, RoundInExtension
  <2>2. \A a \in A : ~Outward(a)
    BY <1>6 DEF BinNamed, BinNames, Inner
  <2> QED
    BY <1>4, <1>5, <2>1, <2>2, SearchKinds DEF BinFinds
<1>7. CASE x # Missing
  <2>1. r = next_bin_array_index_with_liquidity(x, n, d)
    BY <1>2, <1>3, <1>7, RoundInExtension
  <2>2. (n > 0) # d
    BY <1>1, <1>2 DEF Leaving
  <2>3. \/ \E a \in S : NearestOn(S, n, a, d) /\ r = Found(a)
        \/ (\A a \in S : ~OnFrom(n, a, d)) /\ r = Error
    <3>1. LET q == next_bin_array_index_with_liquidity(x, n, d)
              T == IF n > 0 THEN Above(A) ELSE Under(A)
          IN  \/ \E a \in T : NearestOn(T, n, a, d) /\ q = Found(a)
              \/ /\ \A a \in T : ~OnFrom(n, a, d)
                 /\ q = IF (n > 0) = d
                        THEN NotFound(IF n > 0 THEN BitmapSize - 1 ELSE -BitmapSize)
                        ELSE Error
      BY <1>2, <1>7, SideFinds DEF BinNamed
    <3> QED
      BY <1>3, <2>1, <2>2, <3>1
  <2>4. CASE (\A a \in S : ~OnFrom(n, a, d)) /\ r = Error
    BY <1>4, <1>5, <2>4, SearchKinds DEF BinFinds
  <2>5. CASE \E a \in S : NearestOn(S, n, a, d) /\ r = Found(a)
    <3>1. PICK a \in S : NearestOn(S, n, a, d) /\ r = Found(a)
      BY <2>5
    <3>2. a \in A
      BY <1>3 DEF Above, Under
    <3>3. NearestOn(A, n, a, d)
      BY <1>4, <3>1, <3>2 DEF NearestOn
    <3> QED
      BY <1>5, <3>1, <3>2, <3>3, SearchKinds, ZenonT(40) DEF BinFinds
  <2> QED
    BY <2>3, <2>4, <2>5
<1> QED
  BY <1>6, <1>7

\* In the pool's bitmap, and on from it.
LEMMA InnerFinds ==
    ASSUME NEW A, NEW bits, NEW x, BinNamed(A, bits, x), NEW d \in BOOLEAN, NEW n \in Int,
           ~Outward(n)
    PROVE  BinFinds(A, n, d, Search(BinRounds(bits, x, d), n))
<1>1. PICK b \in Nat \ {0}, top \in Nat : b = BitmapSize /\ top = Top /\ b < top
  <2>1. PICK b \in Nat \ {0}, k \in Nat \ {0} : b = BitmapSize /\ k = Bitmaps
    BY BinAssumption, BitmapAssumption
  <2>2. (k + 1) * b = k * b + b /\ 0 * b < k * b /\ k * b \in Int /\ 0 * b = 0
    BY Ordered
  <2>3. Top \in Nat /\ b < Top
    BY <2>1, <2>2 DEF Top
  <2> QED
    BY <2>1, <2>3
<1>2. -b =< n /\ n < b /\ A \in SUBSET Reach /\ \A a \in A : a \in Int
  BY <1>1 DEF BinNamed, Reach, Outward
<1>3. PICK r, ahead, T :
        /\ r = NextBinArray(bits, x, n, d) /\ ahead = Ahead(bits, n + b, d) /\ T = Inner(A)
        /\ T \in SUBSET ((-top)..(top - 1))
  <2>1. Inner(A) \in SUBSET ((-top)..(top - 1))
    BY <1>1, <1>2 DEF Reach, Inner
  <2> QED
    BY <2>1
<1>0. Search(BinRounds(bits, x, d), n) =
          IF r.is = "not found" THEN Search(BinRounds(bits, x, d), r.start) ELSE r
  BY <1>3, BinSearchIs
<1>4. r = IF ahead # {} THEN Found(Nearest(ahead, d) - b) ELSE NotFound(IF d THEN -b - 1 ELSE b)
  <2>1. ~is_overflow_default_bin_array_bitmap(n)
    BY <1>1, <1>2 DEF is_overflow_default_bin_array_bitmap
  <2> QED
    BY <1>1, <1>3, <2>1, Zenon DEF NextBinArray, next_bin_array_index_with_liquidity_internal
<1>5. HasNearest(T, ahead, n, b, d)
  <2>1. bits = {a + b : a \in T}
    BY <1>1, <1>3 DEF BinNamed, BinNames
  <2>2. -top \in Int /\ top - 1 \in Int /\ b \in Int
    OBVIOUS
  <2>3. HasNearest(T, Ahead(bits, n + b, d), n, b, d)
    <3>1. T \in SUBSET ((-top)..(top - 1))
      BY <1>3
    <3> QED
      BY <2>1, <2>2, <3>1, NearestAhead
  <2> QED
    BY <1>3, <2>3
<1>6. ASSUME NEW a \in A, OnFrom(n, a, d) PROVE a \in T \/ Leaving(a, d)
  BY <1>1, <1>2, <1>3, <1>6 DEF Inner, Leaving, OnFrom, Outward
<1>7. CASE ahead # {}
  <2>1. PICK a \in T : NearestOn(T, n, a, d) /\ Nearest(ahead, d) = a + b
    BY <1>5, <1>7 DEF HasNearest
  <2>2. a \in A /\ a \in Int /\ ~Outward(a)
    BY <1>2, <1>3 DEF Inner
  <2>3. r = Found(a)
    <3>1. Nearest(ahead, d) - b = a
      BY <2>1, <2>2
    <3> QED
      BY <1>4, <1>7, <3>1
  <2>4. ASSUME NEW e \in A, OnFrom(n, e, d) PROVE OnFrom(a, e, d)
    <3>1. CASE e \in T
      BY <2>1, <2>4, <3>1 DEF NearestOn
    <3>2. CASE Leaving(e, d)
      BY <1>1, <1>2, <2>2, <3>2 DEF Leaving, OnFrom, Outward
    <3> QED
      BY <1>6, <2>4, <3>1, <3>2
  <2>5. NearestOn(A, n, a, d)
    BY <2>1, <2>2, <2>4 DEF NearestOn
  <2>6. r.is = "found" /\ r.start = a
    BY <2>3, SearchKinds
  <2>7. BinFinds(A, n, d, r)
    BY <2>2, <2>5, <2>6 DEF BinFinds
  <2> QED
    BY <1>0, <2>6, <2>7
<1>8. CASE ahead = {}
  <2>1. PICK e \in Int : e = (IF d THEN -b - 1 ELSE b) /\ r = NotFound(e)
    <3>1. -b - 1 \in Int /\ b \in Int
      OBVIOUS
    <3> QED
      BY <1>4, <1>8, <3>1
  <2>2. e \in Reach /\ Leaving(e, d)
    BY <1>1, <2>1 DEF Reach, Leaving
  <2>3. Search(BinRounds(bits, x, d), n) = Search(BinRounds(bits, x, d), e)
    BY <1>0, <2>1, SearchKinds
  <2>4. BinFinds(A, e, d, Search(BinRounds(bits, x, d), e))
    BY <2>2, LeavingFinds
  <2>5. ASSUME NEW a \in A PROVE OnFrom(n, a, d) <=> OnFrom(e, a, d)
    <3>1. OnFrom(n, a, d) => Leaving(a, d)
      BY <1>5, <1>6, <1>8 DEF HasNearest
    <3>2. Leaving(a, d) => OnFrom(e, a, d)
      BY <1>1, <1>2, <2>1 DEF Leaving, OnFrom
    <3>3. OnFrom(e, a, d) => OnFrom(n, a, d)
      BY <1>1, <1>2, <2>1 DEF OnFrom
    <3> QED
      BY <3>1, <3>2, <3>3
  <2>6. PICK u : u = Search(BinRounds(bits, x, d), n)
    OBVIOUS
  <2>7. BinFinds(A, e, d, u)
    BY <2>3, <2>4, <2>6
  <2>8. BinFinds(A, n, d, u)
    BY <2>5, <2>7 DEF BinFinds, NearestOn
  <2> QED
    BY <2>6, <2>8
<1> QED
  BY <1>7, <1>8

\* From anywhere a search may begin.
LEMMA BinSearchFinds ==
    ASSUME NEW A, NEW bits, NEW x, BinNamed(A, bits, x), NEW d \in BOOLEAN, NEW n \in Reach,
           MaySearch(n, x, d)
    PROVE  BinFinds(A, n, d, Search(BinRounds(bits, x, d), n))
<1>1. PICK b \in Nat \ {0}, top \in Nat : b = BitmapSize /\ top = Top
  BY TopIs, BitmapAssumption
<1>2. n \in Int /\ A \in SUBSET Reach /\ \A a \in A : a \in Int
  BY <1>1 DEF BinNamed, Reach
<1>3. CASE Leaving(n, d) \/ ~Outward(n)
  BY <1>2, <1>3, LeavingFinds, InnerFinds
<1>4. CASE ~Leaving(n, d) /\ Outward(n)
  <2>1. x # Missing
    BY <1>4 DEF MaySearch
  <2>2. PICK r, S : r = NextBinArray(bits, x, n, d) /\ S = IF n > 0 THEN Above(A) ELSE Under(A)
    OBVIOUS
  <2>3. r = next_bin_array_index_with_liquidity(x, n, d)
    BY <1>2, <1>4, <2>1, <2>2, RoundInExtension
  <2>0. Search(BinRounds(bits, x, d), n) =
            IF r.is = "not found" THEN Search(BinRounds(bits, x, d), r.start) ELSE r
    BY <1>2, <2>2, BinSearchIs
  <2>4. (n > 0) = d /\ (d => n >= b) /\ (~d => n < -b)
    BY <1>1, <1>2, <1>4 DEF Leaving, Outward
  <2>5. PICK e \in Int : e = IF d THEN b - 1 ELSE -b
    OBVIOUS
  <2>6. \/ \E a \in S : NearestOn(S, n, a, d) /\ r = Found(a)
        \/ (\A a \in S : ~OnFrom(n, a, d)) /\ r = NotFound(e)
    <3>1. LET q == next_bin_array_index_with_liquidity(x, n, d)
              T == IF n > 0 THEN Above(A) ELSE Under(A)
          IN  \/ \E a \in T : NearestOn(T, n, a, d) /\ q = Found(a)
              \/ /\ \A a \in T : ~OnFrom(n, a, d)
                 /\ q = IF (n > 0) = d
                        THEN NotFound(IF n > 0 THEN BitmapSize - 1 ELSE -BitmapSize)
                        ELSE Error
      BY <1>2, <1>4, <2>1, SideFinds DEF BinNamed
    <3>2. NotFound(IF n > 0 THEN BitmapSize - 1 ELSE -BitmapSize) = NotFound(e)
      BY <1>1, <2>4, <2>5
    <3> QED
      BY <2>2, <2>3, <2>4, <3>1, <3>2
  <2>7. CASE \E a \in S : NearestOn(S, n, a, d) /\ r = Found(a)
    <3>1. PICK a \in S : NearestOn(S, n, a, d) /\ r = Found(a)
      BY <2>7
    <3>2. a \in A /\ (d => a >= b) /\ (~d => a < -b)
      BY <1>1, <2>2, <2>4 DEF Above, Under
    <3>3. ASSUME NEW g \in A, OnFrom(n, g, d) PROVE OnFrom(a, g, d)
      <4>1. CASE g \in S
        BY <3>1, <3>3, <4>1 DEF NearestOn
      <4>2. CASE g \notin S
        <5>1. (d => ~(g >= b)) /\ (~d => ~(g < -b))
          BY <1>1, <2>2, <2>4, <4>2 DEF Above, Under
        <5> QED
          BY <1>2, <3>2, <5>1 DEF OnFrom
      <4> QED
        BY <4>1, <4>2
    <3>4. NearestOn(A, n, a, d)
      BY <3>1, <3>2, <3>3 DEF NearestOn
    <3>5. r.is = "found" /\ r.start = a
      BY <3>1, SearchKinds
    <3>6. BinFinds(A, n, d, r)
      BY <3>2, <3>4, <3>5 DEF BinFinds
    <3> QED
      BY <2>0, <3>5, <3>6
  <2>8. CASE (\A a \in S : ~OnFrom(n, a, d)) /\ r = NotFound(e)
    <3>1. Search(BinRounds(bits, x, d), n) = Search(BinRounds(bits, x, d), e)
      BY <2>0, <2>8, SearchKinds
    <3>2. ~Outward(e)
      BY <1>1, <2>5 DEF Outward
    <3>3. BinFinds(A, e, d, Search(BinRounds(bits, x, d), e))
      BY <3>2, InnerFinds
    <3>4. ASSUME NEW a \in A PROVE OnFrom(n, a, d) <=> OnFrom(e, a, d)
      <4>1. OnFrom(n, a, d) => (d => ~(a >= b)) /\ (~d => ~(a < -b))
        BY <1>1, <2>2, <2>4, <2>8 DEF Above, Under
      <4> QED
        BY <1>2, <2>4, <2>5, <4>1 DEF OnFrom
    <3>5. PICK u : u = Search(BinRounds(bits, x, d), n)
      OBVIOUS
    <3>6. BinFinds(A, e, d, u)
      BY <3>1, <3>3, <3>5
    <3>7. BinFinds(A, n, d, u)
      BY <3>4, <3>6 DEF BinFinds, NearestOn
    <3> QED
      BY <3>5, <3>7
  <2> QED
    BY <2>6, <2>7, <2>8
<1> QED
  BY <1>3, <1>4

\* A search returns what one of its rounds finds.
LEMMA SearchLands ==
    ASSUME NEW R, NEW round \in [Int -> R], NEW rank \in [Int -> Nat], Ends(round, rank),
           NEW i \in Int
    PROVE  \E j \in Int : round[j].is # "not found" /\ Search(round, i) = round[j]
<1> DEFINE Lands(k) == \E j \in Int : round[j].is # "not found" /\ Search(round, k) = round[j]
           Bad == {n \in Nat : \E k \in Int : rank[k] = n /\ ~Lands(k)}
<1>1. Bad = {}
  <2> SUFFICES ASSUME Bad # {} PROVE FALSE
    OBVIOUS
  <2>1. PICK n \in Bad : \A m \in Bad : n =< m
    <3>1. Bad \subseteq Nat
      OBVIOUS
    <3> HIDE DEF Bad
    <3> QED
      BY <3>1, LeastNat
  <2>2. PICK k \in Int : rank[k] = n /\ ~Lands(k)
    BY <2>1
  <2>3. Search(round, k) = IF round[k].is = "not found" THEN Search(round, round[k].start)
                           ELSE round[k]
    BY SearchIs
  <2>4. round[k].is = "not found"
    BY <2>2, <2>3
  <2>5. PICK h \in Int : h = round[k].start /\ rank[h] < n /\ rank[h] \in Nat
    BY <2>2, <2>4 DEF Ends
  <2>6. Lands(h)
    <3>1. rank[h] \notin Bad
      <4>1. ASSUME rank[h] \in Bad PROVE n =< rank[h]
        BY <2>1, <4>1
      <4>2. n \in Nat
        BY <2>1
      <4> HIDE DEF Bad
      <4> QED
        BY <2>5, <4>1, <4>2
    <3>2. ~Lands(h) => rank[h] \in Bad
      <4> HIDE DEF Lands
      <4> QED
        BY <2>5
    <3> QED
      BY <3>1, <3>2
  <2>7. Search(round, k) = Search(round, h)
    BY <2>3, <2>4, <2>5
  <2> QED
    BY <2>2, <2>6, <2>7
<1> HIDE DEF Lands
<1>2. rank[i] \in Nat /\ rank[i] \notin Bad
  BY <1>1
<1>3. Lands(i)
  BY <1>2
<1> QED
  BY <1>3 DEF Lands

\* What is found is a number, wherever the search begins.
LEMMA BinFoundIs ==
    ASSUME NEW A, NEW bits, NEW x, BinNamed(A, bits, x), NEW d \in BOOLEAN, NEW i \in Int,
           IsFound(NextBinArray(bits, x, i, d))
    PROVE  NextBinArray(bits, x, i, d).start \in Int
<1>1. PICK b \in Nat \ {0}, top \in Nat : b = BitmapSize /\ top = Top
  BY TopIs, BitmapAssumption
<1>2. \A a \in A : a \in (-top)..(top - 1)
  BY <1>1 DEF BinNamed, Reach
<1>3. PICK r : r = NextBinArray(bits, x, i, d) /\ r.is = "found"
  BY DEF IsFound
<1>4. ASSUME NEW lo \in Int, NEW hi \in Int, NEW H, H \subseteq lo..hi, H # {}, NEW g \in BOOLEAN
      PROVE  Nearest(H, g) \in Int
  <2>1. CASE g
    <3>1. Max(H) \in H
      BY <1>4, GreatestOf
    <3>2. Nearest(H, g) = Max(H)
      BY <2>1 DEF Nearest
    <3>3. Max(H) \in lo..hi
      BY <1>4, <3>1
    <3> QED
      BY <3>2, <3>3
  <2>2. CASE ~g
    <3>1. Min(H) \in H
      BY <1>4, LeastOf
    <3>2. Nearest(H, g) = Min(H)
      BY <2>2 DEF Nearest
    <3>3. Min(H) \in lo..hi
      BY <1>4, <3>1
    <3> QED
      BY <3>2, <3>3
  <2> QED
    BY <2>1, <2>2
<1>5. CASE ~Outward(i)
  <2>1. ~is_overflow_default_bin_array_bitmap(i)
    BY <1>5, BitmapAssumption DEF is_overflow_default_bin_array_bitmap, Outward
  <2>2. PICK ahead : /\ ahead = Ahead(bits, i + BitmapSize, d)
                     /\ r = IF ahead # {} THEN Found(Nearest(ahead, d) - BitmapSize)
                            ELSE NotFound(IF d THEN -BitmapSize - 1 ELSE BitmapSize)
    BY <1>3, <2>1, Zenon DEF NextBinArray, next_bin_array_index_with_liquidity_internal
  <2>3. ahead # {} /\ r.start = Nearest(ahead, d) - b
    BY <1>1, <1>3, <2>2, SearchKinds
  <2>4. ahead \subseteq (-top + b)..(top - 1 + b)
    <3>1. bits = {a + b : a \in Inner(A)}
      BY <1>1 DEF BinNamed, BinNames
    <3> QED
      BY <1>2, <2>2, <3>1 DEF Ahead, Inner
  <2>5. Nearest(ahead, d) \in Int
    <3>1. -top + b \in Int /\ top - 1 + b \in Int
      OBVIOUS
    <3> QED
      BY <1>4, <2>3, <2>4, <3>1
  <2> QED
    BY <1>3, <2>3, <2>5
<1>6. CASE Outward(i)
  <2>1. r = IF x = Missing THEN Error ELSE next_bin_array_index_with_liquidity(x, i, d)
    BY <1>3, <1>6, RoundInExtension
  <2>2. x # Missing /\ r = next_bin_array_index_with_liquidity(x, i, d)
    BY <1>3, <2>1, SearchKinds
  <2>3. PICK end, ahead, g, p :
          /\ g \in BOOLEAN /\ p \in BOOLEAN
          /\ ahead = iter_bitmap(x, i, end)
          /\ r = IF ahead # {} THEN Found(to_bin_array_index(Nearest(ahead, g), p))
                 ELSE IF g THEN NotFound(IF p THEN BitmapSize - 1 ELSE -BitmapSize)
                 ELSE Error
    <3>3. PICK p \in BOOLEAN : p = (i > 0)
      <4>1. (i > 0) \in BOOLEAN
        OBVIOUS
      <4> QED
        BY <4>1, Zenon
    <3>4. PICK g \in BOOLEAN : g = (p = d)
      <4>1. (p = d) \in BOOLEAN
        OBVIOUS
      <4> QED
        BY <4>1, Zenon
    <3>1. PICK last, end :
            /\ last = (BitmapSize * (Bitmaps + 1)) - 1
            /\ end = IF g THEN (IF p THEN BitmapSize ELSE -BitmapSize - 1)
                     ELSE (IF p THEN last ELSE -last - 1)
      OBVIOUS
    <3>2. next_bin_array_index_with_liquidity(x, i, d) =
            IF iter_bitmap(x, i, end) # {}
            THEN Found(to_bin_array_index(Nearest(iter_bitmap(x, i, end), g), p))
            ELSE IF g THEN NotFound(IF p THEN BitmapSize - 1 ELSE -BitmapSize)
            ELSE Error
      BY <3>1, <3>3, <3>4 DEF next_bin_array_index_with_liquidity
    <3> QED
      BY <2>2, <3>2
  <2>4. ahead # {} /\ r.start = to_bin_array_index(Nearest(ahead, g), p)
    BY <1>3, <2>3, SearchKinds
  <2>5. PICK side : side = (IF i < 0 THEN x.negative ELSE x.positive) /\ ahead \subseteq Positions(side)
    <3>1. iter_bitmap(x, i, end) =
            IF i = end
            THEN Positions(IF i < 0 THEN x.negative ELSE x.positive) \cap {bin_array_offset_in_bitmap(i)}
            ELSE Ahead(Positions(IF i < 0 THEN x.negative ELSE x.positive),
                       bin_array_offset_in_bitmap(i), (i < 0) = (i < end))
      BY Zenon DEF iter_bitmap, Positions
    <3> QED
      BY <2>3, <3>1 DEF Ahead
  <2>6. Positions(side) \subseteq (-top - b - 1)..(top + b)
    <3>1. /\ Positions(x.positive) = {a + (-b) : a \in Above(A)}
          /\ Positions(x.negative) = {e + (-b - 1) : e \in {-a : a \in Under(A)}}
      BY <1>1, <2>2 DEF BinNamed, BinNames
    <3>2. ASSUME NEW a \in A
          PROVE  a + (-b) \in (-top - b - 1)..(top + b) /\ -a + (-b - 1) \in (-top - b - 1)..(top + b)
      BY <1>2
    <3> QED
      BY <2>5, <3>1, <3>2 DEF Above, Under
  <2>7. Nearest(ahead, g) \in Int
    <3>1. PICK lo \in Int, hi \in Int : lo = -top - b - 1 /\ hi = top + b
      OBVIOUS
    <3>2. ahead \subseteq lo..hi
      BY <2>5, <2>6, <3>1
    <3> QED
      BY <1>4, <2>3, <2>4, <3>2
  <2>8. to_bin_array_index(Nearest(ahead, g), p) \in Int
    BY <1>1, <2>7 DEF to_bin_array_index
  <2> QED
    BY <1>3, <2>4, <2>8
<1> QED
  BY <1>5, <1>6

\* The searches behind an array.
FurtherBins(bits, x, d) == [i \in Int |-> Search(BinRounds(bits, x, d), After(i, d))]

\* The keys are those of three searches.
LEMMA BinKeysAre ==
    ASSUME NEW bits, NEW x, NEW active, NEW d
    PROVE  get_bin_array_pubkeys_for_swap(2 + 1, bits, x, active, d) =
               Starts(Searches(Search(BinRounds(bits, x, d), bin_id_to_bin_array_index(active)),
                               FurtherBins(bits, x, d), 2))
<1>1. 2 + 1 - 1 = 2
  OBVIOUS
<1>2. FurtherBins(bits, x, d) =
          [i \in Int |-> Search(BinRounds(bits, x, d), IF d THEN i - 1 ELSE i + 1)]
  BY Zenon DEF FurtherBins, After
<1>3. \A k : get_bin_array_pubkeys_for_swap(k, bits, x, active, d) =
               Starts(Searches(Search(BinRounds(bits, x, d), bin_id_to_bin_array_index(active)),
                               [i \in Int |-> Search(BinRounds(bits, x, d),
                                                     IF d THEN i - 1 ELSE i + 1)], k - 1))
  BY Zenon DEF get_bin_array_pubkeys_for_swap, BinRounds
<1>4. PICK k : k = 2 + 1
  OBVIOUS
<1>5. k - 1 = 2
  BY <1>1, <1>4
<1> QED
  BY <1>2, <1>3, <1>4, <1>5, Zenon

-----------------------------------------------------------------------------
(* What DLMM lists *)

\* The extension reaches beyond every array.
LEMMA IndicesAre ==
    /\ ArrayIndices \subseteq (-(Top - 1))..(Top - 2)
    /\ \A id \in (-MaxBin)..MaxBin : bin_id_to_bin_array_index(id) \in ArrayIndices
<1>1. PICK c \in Nat \ {0}, m \in Nat, top \in Nat :
        c = BinsPerArray /\ m = MaxBin /\ top = Top /\ (m \div c) + 1 < top
  BY BinAssumption, TopIs
<1>2. ASSUME NEW i \in Int
      PROVE  i \div c \in Int /\ (i \div c) * c =< i /\ i < (i \div c + 1) * c
  BY Quotient
<1>3. PICK p \in Int, q \in Int : p = m \div c /\ q = (-m) \div c
  BY <1>2
<1>4. p * c =< m /\ m < (p + 1) * c /\ q * c =< -m /\ -m < (q + 1) * c
  <2>1. -m \in Int /\ m \in Int
    OBVIOUS
  <2> QED
    BY <1>2, <1>3, <2>1
<1>5. -(p + 1) =< q
  <2>1. (-(p + 1)) * c = -((p + 1) * c)
    OBVIOUS
  <2>2. (-(p + 1)) * c < (q + 1) * c
    <3>1. (p + 1) * c \in Int /\ (q + 1) * c \in Int
      OBVIOUS
    <3> QED
      BY <1>4, <2>1, <3>1
  <2>3. -(p + 1) < q + 1
    <3>1. PICK u \in Int, v \in Int : u = -(p + 1) /\ v = q + 1
      OBVIOUS
    <3>2. u < v <=> u * c < v * c
      BY Ordered
    <3> QED
      BY <2>2, <3>1, <3>2
  <2> QED
    BY <2>3
<1>6. ArrayIndices = q..p
  BY <1>1, <1>3 DEF ArrayIndices, bin_id_to_bin_array_index
<1>7. ASSUME NEW id \in (-m)..m PROVE id \div c \in q..p
  <2>1. PICK r \in Int : r = id \div c /\ r * c =< id /\ id < (r + 1) * c
    BY <1>2
  <2>2. (r * c < (p + 1) * c <=> r < p + 1) /\ (q * c < (r + 1) * c <=> q < r + 1)
    <3>1. PICK u \in Int, v \in Int : u = p + 1 /\ v = r + 1
      OBVIOUS
    <3>2. (r * c < u * c <=> r < u) /\ (q * c < v * c <=> q < v)
      BY Ordered
    <3> QED
      BY <3>1, <3>2
  <2>3. r * c \in Int /\ (p + 1) * c \in Int /\ q * c \in Int /\ (r + 1) * c \in Int
    OBVIOUS
  <2> QED
    BY <1>4, <2>1, <2>2, <2>3
<1>8. (q..p) \subseteq (-(top - 1))..(top - 2)
  <2>1. -(top - 1) =< q /\ p =< top - 2
    BY <1>1, <1>3, <1>5
  <2> QED
    BY <2>1
<1>9. \A id \in (-MaxBin)..MaxBin : bin_id_to_bin_array_index(id) \in ArrayIndices
  BY <1>1, <1>6, <1>7 DEF bin_id_to_bin_array_index
<1> QED
  BY <1>1, <1>6, <1>8, <1>9

\* What a search finds is a number.
LEMMA BinSearchNumber ==
    ASSUME NEW A, NEW bits, NEW x, BinNamed(A, bits, x), NEW d \in BOOLEAN, NEW i \in Int,
           IsFound(Search(BinRounds(bits, x, d), i))
    PROVE  Search(BinRounds(bits, x, d), i).start \in Int
<1>1. PICK round, rank, R : round = BinRounds(bits, x, d) /\ rank = BinRank(d)
                            /\ R = {NextBinArray(bits, x, k, d) : k \in Int}
  OBVIOUS
<1>2. round \in [Int -> R]
  BY <1>1 DEF BinRounds
<1>3. rank \in [Int -> Nat] /\ Ends(round, rank)
  BY <1>1, BinRoundsEnd
<1>4. PICK j \in Int : Search(round, i) = round[j]
  BY <1>2, <1>3, SearchLands
<1>5. round[j] = NextBinArray(bits, x, j, d)
  BY <1>1 DEF BinRounds
<1> QED
  BY <1>1, <1>4, <1>5, BinFoundIs

\* What the searches of DLMM tell of the arrays.
LEMMA BinsAreTold ==
    ASSUME NEW A \in SUBSET ArrayIndices, NEW bits, NEW x, BinNamed(A, bits, x),
           NEW d \in BOOLEAN, NEW n \in ArrayIndices, x = Missing => ~Outward(n)
    PROVE  \E V : Tells(A, n, 1, d, {}, V, Search(BinRounds(bits, x, d), n),
                        FurtherBins(bits, x, d))
<1>1. PICK first, further, round, V :
        /\ first = Search(round, n) /\ further = FurtherBins(bits, x, d)
        /\ round = BinRounds(bits, x, d) /\ V = {first} \cup {further[i] : i \in Int}
  OBVIOUS
<1>2. PICK b \in Nat \ {0}, top \in Nat : b = BitmapSize /\ top = Top /\ b =< top
  BY TopIs, BitmapAssumption
<1>3. ASSUME NEW a \in ArrayIndices
      PROVE  a \in Int /\ a \in (-(top - 1))..(top - 2) /\ a \in Reach /\ After(a, d) \in Reach
             /\ After(a, d) \in Int /\ a * 1 = a
  <2>1. a \in Int /\ a \in (-(top - 1))..(top - 2)
    BY <1>2, IndicesAre
  <2> QED
    BY <1>2, <2>1 DEF After, Reach
<1>4. ASSUME NEW m \in Reach, MaySearch(m, x, d)
      PROVE  Told(A, m, 1, d, {}, Search(round, m))
  <2>1. BinFinds(A, m, d, Search(round, m))
    BY <1>1, <1>4, BinSearchFinds
  <2>2. \A a \in A : a * 1 = a
    BY <1>3
  <2> QED
    BY <2>1, <2>2 DEF BinFinds, Told, IsFound
<1>5. Told(A, n, 1, d, {}, first)
  <2>1. MaySearch(n, x, d) /\ n \in Reach
    BY <1>3 DEF MaySearch
  <2> QED
    BY <1>1, <1>4, <2>1
<1>6. ASSUME NEW a \in A PROVE Told(A, After(a, d), 1, d, {}, further[a * 1])
  <2>1. a \in ArrayIndices
    OBVIOUS
  <2>2. further[a * 1] = Search(round, After(a, d))
    BY <1>1, <1>3, <2>1 DEF FurtherBins
  <2>3. MaySearch(After(a, d), x, d)
    <3>1. SUFFICES ASSUME x = Missing PROVE ~Outward(After(a, d)) \/ Leaving(After(a, d), d)
      BY DEF MaySearch
    <3>2. ~Outward(a)
      BY <3>1 DEF BinNamed, BinNames, Inner
    <3> QED
      BY <1>2, <1>3, <2>1, <3>2 DEF Outward, Leaving, After
  <2> QED
    BY <1>3, <1>4, <2>1, <2>2, <2>3
<1>7. first \in V /\ further \in [Int -> V]
  BY <1>1 DEF FurtherBins
<1>8. ASSUME NEW v \in V, IsFound(v) PROVE v.start \in Int /\ v.is \notin {}
  <2>1. PICK i \in Int : v = Search(round, i)
    <3>1. CASE v = first
      BY <1>1, <1>3, <3>1
    <3>2. CASE \E k \in Int : v = further[k]
      <4>1. PICK k \in Int : v = further[k]
        BY <3>2
      <4>2. After(k, d) \in Int
        BY DEF After
      <4> QED
        BY <1>1, <4>1, <4>2 DEF FurtherBins
    <3> QED
      BY <1>1, <3>1, <3>2
  <2> QED
    BY <1>1, <1>8, <2>1, BinSearchNumber
<1> QED
  BY <1>1, <1>5, <1>6, <1>7, <1>8 DEF Tells

\* DLMM's arrays are their own numbers.
LEMMA BinArraysAre ==
    ASSUME NEW s \in States["MeteoraDLMM"]
    PROVE  /\ Numbers("MeteoraDLMM", s) = Arrays("MeteoraDLMM", s)
           /\ Arrays("MeteoraDLMM", s) \subseteq ArrayIndices
           /\ bin_id_to_bin_array_index(s.active) \in ArrayIndices
<1>1. Arrays("MeteoraDLMM", s) = {bin_id_to_bin_array_index(id) : id \in DOMAIN s.bins}
  BY DEF Arrays, HasTicks
<1>2. s.active \in (-MaxBin)..MaxBin /\ \A id \in DOMAIN s.bins : id \in (-MaxBin)..MaxBin
  BY BinPoolAssumption
<1>3. Arrays("MeteoraDLMM", s) \subseteq ArrayIndices
  BY <1>1, <1>2, IndicesAre
<1>4. \A key : Ordinal("MeteoraDLMM", key) = key
  BY DEF Ordinal, HasTicks
<1>5. Numbers("MeteoraDLMM", s) = Arrays("MeteoraDLMM", s)
  BY <1>4 DEF Numbers
<1> QED
  BY <1>2, <1>3, <1>5, IndicesAre

\* Where one bitmap of the extension begins and ends.
LEMMA BitmapOf ==
    ASSUME NEW b \in Nat \ {0}, NEW m \in Nat, NEW top \in Nat, top = (m + 1) * b
    PROVE  /\ \A k \in 0..(m - 1) : k * b \in Int /\ (k + 1) * b = k * b + b /\ (k + 2) * b = k * b + 2 * b
                                    /\ k * b >= 0
           /\ \A a \in b..(top - 1) : \E k \in 0..(m - 1) : k * b + b =< a /\ a < k * b + 2 * b
<1>1. ASSUME NEW k \in 0..(m - 1)
      PROVE  k * b \in Int /\ (k + 1) * b = k * b + b /\ (k + 2) * b = k * b + 2 * b /\ k * b >= 0
  <2>1. k \in Nat /\ 0 =< k
    OBVIOUS
  <2>2. 0 * b =< k * b /\ 0 * b = 0 /\ k * b \in Int
    BY <2>1, Ordered
  <2>3. (k + 1) * b = k * b + b /\ (k + 2) * b = k * b + 2 * b
    OBVIOUS
  <2> QED
    BY <2>2, <2>3
<1>2. ASSUME NEW a \in b..(top - 1)
      PROVE  \E k \in 0..(m - 1) : k * b + b =< a /\ a < k * b + 2 * b
  <2>1. PICK q \in Int : q = a \div b /\ q * b =< a /\ a < (q + 1) * b
    BY Quotient
  <2>2. PICK u \in Int, v \in Int : u = q + 1 /\ v = m + 1
    OBVIOUS
  <2>3. (1 * b < u * b <=> 1 < u) /\ (q * b < v * b <=> q < v) /\ 1 * b = b
    BY Ordered
  <2>4. q * b \in Int /\ u * b \in Int /\ v * b \in Int /\ u * b = (q + 1) * b /\ v * b = top
    BY <2>2
  <2>5. 1 =< q /\ q =< m
    BY <2>1, <2>2, <2>3, <2>4
  <2>6. PICK k \in 0..(m - 1) : k = q - 1
    BY <2>5
  <2>7. q * b = k * b + b /\ u * b = k * b + 2 * b
    <3>1. q = k + 1 /\ u = k + 2
      BY <2>2, <2>6
    <3> QED
      BY <1>1, <3>1
  <2> QED
    BY <2>1, <2>4, <2>7
<1> QED
  BY <1>1, <1>2

\* The sides of an extension account of A.
LEMMA UpwardsName ==
    ASSUME NEW s \in States["MeteoraDLMM"], NEW A, A = Arrays("MeteoraDLMM", s)
    PROVE  Positions(ExtensionAccount("MeteoraDLMM", s).positive) = {a + (-BitmapSize) : a \in Above(A)}
<1>1. PICK b \in Nat \ {0}, m \in Nat, top \in Nat :
        b = BitmapSize /\ m = Bitmaps /\ top = Top /\ top = (m + 1) * b
  BY TopIs, BinAssumption, BitmapAssumption DEF Top
<1>2. ASSUME NEW a \in A PROVE a \in Int /\ a < top
  <2>1. a \in ArrayIndices
    BY BinArraysAre
  <2>2. a \in (-(top - 1))..(top - 2)
    BY <1>1, <2>1, IndicesAre
  <2> QED
    BY <2>2
<1>3. PICK side : side = ExtensionAccount("MeteoraDLMM", s).positive
  OBVIOUS
<1>4. /\ DOMAIN side = 0..(m - 1)
      /\ \A k \in 0..(m - 1) : side[k] = BitsFrom("MeteoraDLMM", s, (k + 1) * b, b)
  BY <1>1, <1>3 DEF ExtensionAccount
<1>5. ASSUME NEW k \in 0..(m - 1), NEW n \in Int, n = k * b
      PROVE  side[k] = {a - (n + b) : a \in {e \in A : e \in (n + b)..(n + b + b - 1)}}
  <2>1. (k + 1) * b = n + b
    BY <1>1, <1>5, BitmapOf
  <2>2. side[k] = BitsFrom("MeteoraDLMM", s, n + b, b)
    BY <1>4, <2>1
  <2>3. Numbers("MeteoraDLMM", s) = A
    BY BinArraysAre
  <2> QED
    BY <2>2, <2>3, BitsAre
<1>6. Positions(side) = UNION {{(k * b) + e : e \in side[k]} : k \in 0..(m - 1)}
  BY <1>1, <1>4 DEF Positions
<1>7. ASSUME NEW p \in Positions(side) PROVE p \in {a + (-b) : a \in Above(A)}
  <2>1. PICK k \in 0..(m - 1) : \E e \in side[k] : p = (k * b) + e
    BY <1>6
  <2>2. PICK n \in Int : n = k * b /\ n >= 0
    BY <1>1, BitmapOf
  <2>3. PICK a \in A : a \in (n + b)..(n + b + b - 1) /\ p = n + (a - (n + b))
    BY <1>5, <2>1, <2>2
  <2>4. p = a + (-b) /\ a >= b
    BY <1>2, <2>2, <2>3
  <2> QED
    BY <1>1, <2>4 DEF Above
<1>8. ASSUME NEW a \in Above(A) PROVE a + (-b) \in Positions(side)
  <2>1. a \in A /\ a \in b..(top - 1)
    BY <1>1, <1>2 DEF Above
  <2>2. PICK k \in 0..(m - 1) : k * b + b =< a /\ a < k * b + 2 * b
    BY <1>1, <2>1, BitmapOf
  <2>3. PICK n \in Int : n = k * b
    BY <1>1, BitmapOf
  <2>4. a - (n + b) \in side[k]
    <3>1. a \in (n + b)..(n + b + b - 1)
      BY <2>1, <2>2, <2>3
    <3> QED
      BY <1>5, <2>1, <2>3, <3>1
  <2>5. a + (-b) = (k * b) + (a - (n + b))
    BY <2>1, <2>3
  <2> QED
    BY <1>6, <2>4, <2>5
<1> QED
  BY <1>1, <1>3, <1>7, <1>8

\* The other side is counted outwards.
LEMMA OutwardsName ==
    ASSUME NEW s \in States["MeteoraDLMM"], NEW A, A = Arrays("MeteoraDLMM", s)
    PROVE  Positions(ExtensionAccount("MeteoraDLMM", s).negative) =
               {e + (-BitmapSize - 1) : e \in {-a : a \in Under(A)}}
<1>1. PICK b \in Nat \ {0}, m \in Nat, top \in Nat :
        b = BitmapSize /\ m = Bitmaps /\ top = Top /\ top = (m + 1) * b
  BY TopIs, BinAssumption, BitmapAssumption DEF Top
<1>2. ASSUME NEW a \in A PROVE a \in Int /\ a >= -(top - 1)
  <2>1. a \in ArrayIndices
    BY BinArraysAre
  <2>2. a \in (-(top - 1))..(top - 2)
    BY <1>1, <2>1, IndicesAre
  <2> QED
    BY <2>2
<1>3. PICK side : side = ExtensionAccount("MeteoraDLMM", s).negative
  OBVIOUS
<1>4. /\ DOMAIN side = 0..(m - 1)
      /\ \A k \in 0..(m - 1) :
           side[k] = {b - 1 - e : e \in BitsFrom("MeteoraDLMM", s, -(k + 2) * b, b)}
  <2>1. PICK below : below = [k \in 0..(Bitmaps - 1) |->
                        BitsFrom("MeteoraDLMM", s, -(k + 2) * BitmapSize, BitmapSize)]
    OBVIOUS
  <2>2. side = [k \in 0..(Bitmaps - 1) |-> {BitmapSize - 1 - e : e \in below[k]}]
    BY <1>3, <2>1 DEF ExtensionAccount
  <2> QED
    BY <1>1, <2>1, <2>2
<1>5. ASSUME NEW k \in 0..(m - 1), NEW n \in Int, n = k * b
      PROVE  side[k] = {b - 1 - (a - (-(n + 2 * b))) :
                           a \in {e \in A : e \in (-(n + 2 * b))..(-(n + 2 * b) + b - 1)}}
  <2>1. -(k + 2) * b = -(n + 2 * b)
    BY <1>5
  <2>2. side[k] = {b - 1 - e : e \in BitsFrom("MeteoraDLMM", s, -(n + 2 * b), b)}
    BY <1>4, <2>1
  <2>3. Numbers("MeteoraDLMM", s) = A
    BY BinArraysAre
  <2>4. PICK l \in Int : l = -(n + 2 * b)
    OBVIOUS
  <2>5. BitsFrom("MeteoraDLMM", s, l, b) = {a - l : a \in {e \in A : e \in l..(l + b - 1)}}
    BY <2>3, BitsAre
  <2>6. side[k] = {b - 1 - (a - l) : a \in {e \in A : e \in l..(l + b - 1)}}
    BY <2>2, <2>4, <2>5
  <2> QED
    BY <2>4, <2>6
<1>6. Positions(side) = UNION {{(k * b) + e : e \in side[k]} : k \in 0..(m - 1)}
  BY <1>1, <1>4 DEF Positions
<1>7. ASSUME NEW p \in Positions(side) PROVE \E a \in Under(A) : p = -a + (-b - 1)
  <2>1. PICK k \in 0..(m - 1) : \E e \in side[k] : p = (k * b) + e
    BY <1>6
  <2>2. PICK n \in Int : n = k * b /\ n >= 0
    BY <1>1, BitmapOf
  <2>3. PICK a \in A : /\ a \in (-(n + 2 * b))..(-(n + 2 * b) + b - 1)
                       /\ p = n + (b - 1 - (a - (-(n + 2 * b))))
    BY <1>5, <2>1, <2>2
  <2>4. p = -a + (-b - 1) /\ a < -b
    BY <1>2, <2>2, <2>3
  <2> QED
    BY <1>1, <2>4 DEF Under
<1>8. ASSUME NEW a \in Under(A) PROVE -a + (-b - 1) \in Positions(side)
  <2>1. a \in A /\ -a - 1 \in b..(top - 1) /\ a \in Int
    BY <1>1, <1>2 DEF Under
  <2>2. PICK k \in 0..(m - 1) : k * b + b =< -a - 1 /\ -a - 1 < k * b + 2 * b
    BY <1>1, <2>1, BitmapOf
  <2>3. PICK n \in Int : n = k * b
    BY <1>1, BitmapOf
  <2>4. b - 1 - (a - (-(n + 2 * b))) \in side[k]
    <3>1. a \in (-(n + 2 * b))..(-(n + 2 * b) + b - 1)
      BY <2>1, <2>2, <2>3
    <3> QED
      BY <1>5, <2>1, <2>3, <3>1
  <2>5. -a + (-b - 1) = (k * b) + (b - 1 - (a - (-(n + 2 * b))))
    BY <2>1, <2>3
  <2> QED
    BY <1>6, <2>4, <2>5
<1>9. {e + (-b - 1) : e \in {-a : a \in Under(A)}} = {-a + (-b - 1) : a \in Under(A)}
  OBVIOUS
<1> QED
  BY <1>1, <1>3, <1>7, <1>8, <1>9

\* What the pool account names, with the extension that is there or one of no bits.
LEMMA BinBitmapsName ==
    ASSUME NEW s \in States["MeteoraDLMM"], NEW x,
           x \in {Extension("MeteoraDLMM", s), ExtensionAccount("MeteoraDLMM", s)}
    PROVE  /\ BinNamed(Arrays("MeteoraDLMM", s),
                       PoolAccount("MeteoraDLMM", s).bin_array_bitmap, x)
           /\ x = Missing => ~Outward(bin_id_to_bin_array_index(s.active))
<1>1. PICK b, top, A :
        /\ b \in Nat \ {0} /\ b = BitmapSize /\ top \in Nat /\ top = Top
        /\ A = Arrays("MeteoraDLMM", s)
  BY TopIs, BitmapAssumption
<1>2. A \subseteq ArrayIndices /\ \A a \in ArrayIndices : a \in Int /\ a \in Reach
  <2>1. \A a \in ArrayIndices : a \in (-(top - 1))..(top - 2)
    BY <1>1, IndicesAre
  <2> QED
    BY <1>1, <2>1, BinArraysAre DEF Reach
<1>3. \A i \in Int : is_overflow_default_bin_array_bitmap(i) <=> Outward(i)
  BY <1>1 DEF is_overflow_default_bin_array_bitmap, Outward
<1>4. PoolAccount("MeteoraDLMM", s).bin_array_bitmap = {a + b : a \in Inner(A)}
  <2>1. PoolAccount("MeteoraDLMM", s).bin_array_bitmap = BitsFrom("MeteoraDLMM", s, -b, 2 * b)
    BY <1>1 DEF PoolAccount, LbPair
  <2>2. BitsFrom("MeteoraDLMM", s, -b, 2 * b)
            = {a - (-b) : a \in {e \in A : e \in (-b)..(-b + 2 * b - 1)}}
    BY <1>1, BitsAre, BinArraysAre
  <2>3. {e \in A : e \in (-b)..(-b + 2 * b - 1)} = Inner(A)
    BY <1>1, <1>2 DEF Inner, Outward
  <2>4. ASSUME NEW a \in Inner(A) PROVE a - (-b) = a + b
    <3>1. a \in Int
      BY <1>2 DEF Inner
    <3> QED
      BY <1>1, <3>1
  <2> QED
    BY <2>1, <2>2, <2>3, <2>4
<1>5. ASSUME x = Missing
      PROVE  A = Inner(A) /\ ~Outward(bin_id_to_bin_array_index(s.active))
  <2>1. x = Extension("MeteoraDLMM", s) /\ ExtensionAccount("MeteoraDLMM", s) # Missing
    BY <1>5, BinPoolAssumption
  <2>2. \A i \in A \cup {bin_id_to_bin_array_index(s.active)} :
            ~is_overflow_default_bin_array_bitmap(i)
    BY <1>1, <1>5, <2>1 DEF Extension
  <2>3. bin_id_to_bin_array_index(s.active) \in Int
    BY <1>2, BinArraysAre
  <2> QED
    BY <1>2, <1>3, <2>2, <2>3 DEF Inner
<1>6. ASSUME x # Missing PROVE x = ExtensionAccount("MeteoraDLMM", s)
  BY <1>6, BinPoolAssumption DEF Extension
<1>7. BinNames(PoolAccount("MeteoraDLMM", s).bin_array_bitmap, x, A)
  <2>1. x # Missing => /\ Positions(x.positive) = {a + (-BitmapSize) : a \in Above(A)}
                       /\ Positions(x.negative) =
                            {e + (-BitmapSize - 1) : e \in {-a : a \in Under(A)}}
    BY <1>1, <1>6, UpwardsName, OutwardsName
  <2> QED
    BY <1>1, <1>4, <1>5, <2>1 DEF BinNames
<1> QED
  BY <1>1, <1>2, <1>5, <1>7 DEF BinNamed

\* The keys DLMM lists are those of three searches.
LEMMA BinKeysOf ==
    ASSUME NEW h, terms.dex = "MeteoraDLMM"
    PROVE  /\ KeysOf(h, 2).is = "reading"
           /\ KeysOf(h, 2).keys =
                Starts(Searches(Search(BinRounds(h.pool.bin_array_bitmap, h.extension, down),
                                       bin_id_to_bin_array_index(h.pool.active_id)),
                                FurtherBins(h.pool.bin_array_bitmap, h.extension, down), 2))
<1>1. KeysOf(h, 2) = [is |-> "reading",
                      keys |-> get_bin_array_pubkeys_for_swap(2 + 1, h.pool.bin_array_bitmap,
                                    h.extension, h.pool.active_id, down)]
  BY Zenon DEF KeysOf
<1> QED
  BY <1>1, BinKeysAre

\* Arrays DLMM lists are the ones a swap may use.
LEMMA BinArraysAreUsable ==
    ASSUME NEW s \in States["MeteoraDLMM"], NEW h, down \in BOOLEAN,
           terms.dex = "MeteoraDLMM",
           h.pool = PoolAccount("MeteoraDLMM", s),
           h.extension \in {Extension("MeteoraDLMM", s), ExtensionAccount("MeteoraDLMM", s)}
    PROVE  /\ ToSet(KeysOf(h, 2).keys) = Usable("MeteoraDLMM", s, down)
           /\ InOrder(KeysOf(h, 2).keys, down)
<1> DEFINE dex == "MeteoraDLMM"
<1>1. PICK d \in BOOLEAN : d = down
  OBVIOUS
<1>2. PICK bits, x, A, n :
        /\ bits = h.pool.bin_array_bitmap /\ x = h.extension
        /\ A = Arrays(dex, s) /\ n = bin_id_to_bin_array_index(s.active)
  OBVIOUS
<1>3. h.pool.active_id = s.active
  BY DEF PoolAccount, LbPair
<1>4. A \subseteq ArrayIndices /\ BinNamed(A, bits, x) /\ (x = Missing => ~Outward(n))
      /\ n \in ArrayIndices
  BY <1>2, BinArraysAre, BinBitmapsName
<1>5. PICK q : q = Searches(Search(BinRounds(bits, x, d), n), FurtherBins(bits, x, d), 2)
  OBVIOUS
<1>6. KeysOf(h, 2).keys = Starts(q)
  <2>1. PICK p : p = Searches(Search(BinRounds(h.pool.bin_array_bitmap, h.extension, down),
                                     bin_id_to_bin_array_index(h.pool.active_id)),
                              FurtherBins(h.pool.bin_array_bitmap, h.extension, down), 2)
    OBVIOUS
  <2>2. KeysOf(h, 2).keys = Starts(p)
    BY <2>1, BinKeysOf
  <2>3. p = q
    BY <1>1, <1>2, <1>3, <1>5, <2>1
  <2> QED
    BY <2>2, <2>3
<1>7. PICK lo \in Int, hi \in Int : ArrayIndices \subseteq lo..hi
  <2>1. PICK lo \in Int, hi \in Int : lo = -(Top - 1) /\ hi = Top - 2
    BY TopIs
  <2> QED
    BY <2>1, IndicesAre
<1>8. A \subseteq Int /\ n \in Int
  <2>1. \A a \in ArrayIndices : a \in Int
    BY <1>7
  <2> QED
    BY <1>4, <2>1
<1>9. PICK H : H = AheadOf(A, n, 1, d)
  OBVIOUS
<1>10. Leads(H, Starts(q), d)
  <2>1. \E V : Tells(A, n, 1, d, {}, V, Search(BinRounds(bits, x, d), n), FurtherBins(bits, x, d))
    <3>1. A \in SUBSET ArrayIndices
      BY <1>4
    <3> QED
      BY <1>4, <3>1, BinsAreTold
  <2>2. PICK V, first, further :
          /\ first = Search(BinRounds(bits, x, d), n) /\ further = FurtherBins(bits, x, d)
          /\ Tells(A, n, 1, d, {}, V, first, further)
    BY <2>1
  <2>3. LET p == Searches(first, further, 2)
        IN  \/ p[Len(p)].is \in {}
            \/ Leads(AheadOf(A, n, 1, d), Starts(p), d)
    <3>1. A \in SUBSET Int /\ 1 \in Nat \ {0}
      BY <1>8
    <3> QED
      BY <1>8, <2>2, <3>1, SearchesLead
  <2> QED
    BY <1>5, <1>9, <2>2, <2>3
<1>11. H = {i \in A : OnFrom(n, i, d)}
  <2>1. \A i \in A : i * 1 = i
    BY <1>8
  <2> QED
    BY <1>9, <2>1 DEF AheadOf
<1>12. ToSet(Starts(q)) = FirstThree(H, d)
  <2>1. PICK keys : keys = Starts(q)
    OBVIOUS
  <2>2. H \in SUBSET (lo..hi)
    BY <1>4, <1>7, <1>11
  <2>3. Leads(H, keys, d)
    BY <1>10, <2>1
  <2>4. ToSet(keys) = FirstThree(H, d)
    BY <2>2, <2>3, FewerThanThree
  <2> QED
    BY <2>1, <2>4
<1>13. Usable(dex, s, d) = FirstThree(H, d)
  <2>0. Current(dex, s) = n
    BY <1>2 DEF Current, HasTicks
  <2>1. Usable(dex, s, d) =
          LET ahead == {i \in A : IF d THEN i =< n ELSE i >= n}
          IN  {i \in ahead : Cardinality({j \in ahead : IF d THEN j > i ELSE j < i}) < 3}
    BY <1>2, <2>0, Zenon DEF Usable
  <2>2. {i \in A : IF d THEN i =< n ELSE i >= n} = H
    <3>1. \A i \in A : i \in Int
      BY <1>8
    <3> QED
      BY <1>8, <1>11, <3>1 DEF OnFrom
  <2>3. \A i, j : Sooner(j, i, d) <=> (IF d THEN j > i ELSE j < i)
    BY Zenon DEF Sooner
  <2> QED
    BY <2>1, <2>2, <2>3 DEF FirstThree
<1>14. InOrder(Starts(q), d)
  <2>1. PICK keys : keys = Starts(q)
    OBVIOUS
  <2>2. H \in SUBSET Int
    BY <1>8, <1>11
  <2> QED
    BY <1>10, <2>1, <2>2, LeadsInOrder
<1> QED
  BY <1>1, <1>6, <1>12, <1>13, <1>14

-----------------------------------------------------------------------------
(* Orca's arrays *)

\* Ticks are counted by the spacing and then by the size of an array, or at once.
LEMMA DividedTwice ==
    ASSUME NEW t \in Int, NEW s \in Nat \ {0}, NEW size \in Nat \ {0}
    PROVE  ((t \div s) \div size) * s * size = (t \div (size * s)) * (size * s)
<1>1. PICK a \in Int : a = t \div s /\ a * s =< t /\ t < (a + 1) * s
  BY Quotient
<1>2. PICK q \in Int : q = a \div size /\ q * size =< a /\ a < (q + 1) * size
  BY Quotient
<1>3. PICK w \in Nat \ {0} : w = size * s
  <2>1. size * s \in Nat \ {0}
    BY Products
  <2> QED
    BY <2>1
<1>4. PICK low \in Int, high \in Int : low = q * size /\ high = (q + 1) * size
  OBVIOUS
<1>5. low * s =< t /\ t < high * s
  <2>1. low * s =< a * s /\ low * s \in Int /\ a * s \in Int
    BY <1>2, <1>4, Ordered
  <2>2. a + 1 =< high /\ a + 1 \in Int
    BY <1>2, <1>4
  <2>3. (a + 1) * s =< high * s /\ (a + 1) * s \in Int /\ high * s \in Int
    BY <2>2, Ordered
  <2> QED
    BY <1>1, <2>1, <2>3
<1>6. low * s = q * w /\ high * s = (q + 1) * w
  BY <1>3, <1>4
<1>7. t \div w = q
  BY <1>5, <1>6, Quotient
<1>8. q * s * size = q * w
  BY <1>3
<1> QED
  BY <1>1, <1>2, <1>3, <1>7, <1>8

\* Arrays of an Orca pool are the ones a swap may use, in order, and listed in
\* the reverse of it.
LEMMA RowIsUsable ==
    ASSUME NEW s \in States["OrcaWhirl"], NEW keys, down \in BOOLEAN,
           keys = get_tick_arrays_or_default(s.tick, TickSpacing, down)
    PROVE  /\ ToSet(keys) = Usable("OrcaWhirl", s, down)
           /\ ToSet(Reverse(keys)) = Usable("OrcaWhirl", s, down)
           /\ InOrder(Reverse(keys), ~down)
<1>1. PICK t \in Int, d \in BOOLEAN : t = s.tick /\ d = down
  <2>1. s.tick \in (MinTick - 1)..MaxTick
    BY WhirlpoolAssumption
  <2> QED
    BY <2>1, TickRange
<1>2. PICK c \in Nat \ {0}, w \in Nat \ {0} : c = TickSpacing /\ w = Width
  BY SpacingIs, WidthIs
<1>3. PICK n \in Int : n = t \div w
  BY Quotient
<1>4. PICK i \in Int : i = n * w
  OBVIOUS
<1>5. Current("OrcaWhirl", s) = i
  <2>1. Current("OrcaWhirl", s) = StartOf(s.tick)
    BY DEF Current, HasTicks
  <2>2. StartOf(s.tick) = (s.tick \div Width) * Width
    BY Zenon DEF StartOf, get_array_start_index, Width
  <2>3. (s.tick \div Width) * Width = (t \div w) * w
    BY <1>1, <1>2, Zenon
  <2> QED
    BY <1>3, <1>4, <2>1, <2>2, <2>3
<1>6. PICK j \in Int, k \in Int :
        j = (IF d THEN i - w ELSE i + w) /\ k = (IF d THEN i - 2 * w ELSE i + 2 * w)
  <2>1. PICK a \in Int, b \in Int : a = i - w /\ b = i - 2 * w
    OBVIOUS
  <2>2. PICK a1 \in Int, b1 \in Int : a1 = i + w /\ b1 = i + 2 * w
    OBVIOUS
  <2>3. CASE d
    BY <2>1, <2>3
  <2>4. CASE ~d
    BY <2>2, <2>4
  <2> QED
    BY <2>3, <2>4
<1>7. keys = <<i, j, k>>
  <2>1. PICK size \in Nat \ {0} : size = ArraySize
    BY BitmapAssumption
  <2>2. w = size * c
    BY <1>2, <2>1 DEF Width, tick_count
  <2>3. get_tick_array_start_tick_index(t, TickSpacing) = i
    <3>1. ((t \div c) \div size) * c * size = (t \div w) * w
      BY <2>2, DividedTwice
    <3> QED
      BY <1>2, <1>3, <1>4, <2>1, <3>1 DEF get_tick_array_start_tick_index
  <2>4. c * size = w
    BY <2>2
  <2>5. i + (-w) = i - w /\ i + (2 * (-w)) = i - 2 * w
    OBVIOUS
  <2>6. get_tick_arrays_or_default(t, TickSpacing, d) =
          LET offset == IF d THEN -w ELSE w IN <<i, i + offset, i + (2 * offset)>>
    BY <1>2, <2>1, <2>3, <2>4 DEF get_tick_arrays_or_default
  <2>7. CASE d
    BY <1>1, <1>6, <2>5, <2>6, <2>7
  <2>8. CASE ~d
    BY <1>1, <1>6, <2>6, <2>8
  <2> QED
    BY <2>7, <2>8
<1>8. Usable("OrcaWhirl", s, d) = {i, j, k}
  <2>1. Usable("OrcaWhirl", s, d) = {i + (m * w) : m \in IF d THEN -2..0 ELSE 0..2}
    BY <1>2, <1>5 DEF Usable, Width
  <2>2. CASE d
    <3>1. -2..0 = {-2, -1, 0}
      OBVIOUS
    <3>2. i + ((-2) * w) = k /\ i + ((-1) * w) = j /\ i + (0 * w) = i
      BY <1>6, <2>2
    <3>3. {i + (m * w) : m \in {-2, -1, 0}} = {i + ((-2) * w), i + ((-1) * w), i + (0 * w)}
      OBVIOUS
    <3> QED
      BY <2>1, <2>2, <3>1, <3>2, <3>3
  <2>3. CASE ~d
    <3>1. 0..2 = {0, 1, 2}
      OBVIOUS
    <3>2. i + (2 * w) = k /\ i + (1 * w) = j /\ i + (0 * w) = i
      BY <1>6, <2>3
    <3>3. {i + (m * w) : m \in {0, 1, 2}} = {i + (0 * w), i + (1 * w), i + (2 * w)}
      OBVIOUS
    <3> QED
      BY <2>1, <2>3, <3>1, <3>2, <3>3
  <2> QED
    BY <2>2, <2>3
<1>9. Reverse(keys) = <<k, j, i>>
  <2>1. Len(keys) = 3 /\ keys[1] = i /\ keys[2] = j /\ keys[3] = k
    BY <1>7
  <2>2. Reverse(keys) = [m \in 1..3 |-> keys[(3 - m) + 1]]
    BY <2>1 DEF Reverse
  <2>3. [m \in 1..3 |-> keys[(3 - m) + 1]] = <<keys[3], keys[2], keys[1]>>
    OBVIOUS
  <2> QED
    BY <2>1, <2>2, <2>3
<1>10. ToSet(keys) = {i, j, k} /\ ToSet(Reverse(keys)) = {i, j, k}
  <2>1. ToSet(<<i, j, k>>) = {i, j, k} /\ ToSet(<<k, j, i>>) = {k, j, i}
    BY FewAre
  <2> QED
    BY <1>7, <1>9, <2>1
<1>11. InOrder(Reverse(keys), ~d)
  <2>1. Sooner(k, j, ~d) /\ Sooner(j, i, ~d) /\ Sooner(k, i, ~d)
    <3>1. CASE d
      BY <1>6, <3>1 DEF Sooner
    <3>2. CASE ~d
      BY <1>6, <3>2 DEF Sooner
    <3> QED
      BY <3>1, <3>2
  <2>2. PICK e : e = Reverse(keys) /\ DOMAIN e = {1, 2, 3} /\ e[1] = k /\ e[2] = j /\ e[3] = i
    BY <1>9
  <2> QED
    BY <2>1, <2>2 DEF InOrder
<1> QED
  BY <1>1, <1>8, <1>10, <1>11

-----------------------------------------------------------------------------
(* The quote *)

\* What is read of a pool, and what is listed, is what the bitmaps or Orca's pool
\* name.
ReadInv ==
    /\ DOMAIN held = DOMAIN Unread
    /\ next = "extension" => HasBitmaps(terms.dex)
    /\ next \notin {"pool", "extension", "none"} =>
         IF HasBitmaps(terms.dex)
         THEN KeysOf(held, 2).is = "reading" /\ held.keys = KeysOf(held, 2).keys
         ELSE held.keys = KeysOfPool(held.pool)

ListInv ==
    /\ down \in BOOLEAN /\ terms.dex \in Dexes
    /\ past \subseteq States[terms.dex]
    /\ chain \in States[terms.dex]
    /\ DOMAIN listed = DOMAIN Unread
    /\ next = "list arrays" => HasBitmaps(terms.dex)
    /\ next = "done" =>
         IF HasBitmaps(terms.dex)
         THEN KeysOf(listed, 2).is = "reading" /\ listed.keys = KeysOf(listed, 2).keys
         ELSE listed.keys = Reverse(KeysOfPool(listed.pool))

\* Fields of what is read.
LEMMA UnreadIs == DOMAIN Unread = {"pool", "extension", "oracle", "keys", "arrays"}
  BY DEF Unread

\* Keys depend on the pool and its extension only.
LEMMA KeysOfThese ==
    ASSUME NEW h, NEW g, h.pool = g.pool, h.extension = g.extension
    PROVE  KeysOf(h, 2) = KeysOf(g, 2)
<1>1. TickArrayKeys(h, 2) = TickArrayKeys(g, 2)
  BY Zenon DEF TickArrayKeys
<1> QED
  BY <1>1, Zenon DEF KeysOf

\* It holds before anything is listed.
LEMMA ListInit == Init => ListInv /\ ReadInv
<1> SUFFICES ASSUME Init PROVE ListInv /\ ReadInv
  OBVIOUS
<1>1. down \in BOOLEAN /\ terms.dex \in Dexes /\ chain \in States[terms.dex] /\ past = {chain}
      /\ listed = Unread /\ held = Unread /\ next = "pool"
  BY TermsAssumption DEF Init
<1> QED
  BY <1>1 DEF ListInv, ReadInv

\* Every step keeps what is read.
LEMMA ReadStep == ReadInv /\ [Next]_vars => ReadInv'
<1> SUFFICES ASSUME ReadInv, [Next]_vars PROVE ReadInv'
  OBVIOUS
<1> USE DEF pvars, cvars
<1>1. CASE UNCHANGED vars \/ Move \/ Update
  <2>1. UNCHANGED <<terms, down, held, next>>
    BY <1>1 DEF vars, Move, Update
  <2> QED
    BY <2>1 DEF ReadInv, KeysOf, TickArrayKeys, KeysOfPool
<1>2. CASE ReadPool
  <2>1. /\ UNCHANGED <<terms, down>>
        /\ held' = [held EXCEPT !.pool = cache.pool, !.keys = KeysOfPool(cache.pool)]
        /\ HasBitmaps(terms.dex) => next' = "extension"
        /\ ~HasBitmaps(terms.dex) => next' \in {"arrays", "begin"}
    BY <1>2 DEF ReadPool
  <2>2. DOMAIN held' = DOMAIN Unread /\ held'.pool = cache.pool
        /\ held'.keys = KeysOfPool(cache.pool)
    BY <2>1, UnreadIs DEF ReadInv
  <2>3. KeysOfPool(held.pool)' = KeysOfPool(cache.pool)
    BY <2>1, <2>2 DEF KeysOfPool
  <2>4. HasBitmaps(terms.dex)' = HasBitmaps(terms.dex)
    BY <2>1
  <2>5. CASE HasBitmaps(terms.dex)
    BY <2>1, <2>2, <2>4, <2>5 DEF ReadInv
  <2>6. CASE ~HasBitmaps(terms.dex)
    BY <2>1, <2>2, <2>3, <2>4, <2>6 DEF ReadInv
  <2> QED
    BY <2>5, <2>6
<1>3. CASE ReadExtension
  <2>1. PICK read, found :
          /\ read = [held EXCEPT !.extension = cache.extension] /\ found = KeysOf(read, 2)
          /\ held' = [read EXCEPT !.keys = found.keys]
          /\ next = "extension"
          /\ next' = IF found.is # "reading" THEN "none"
                     ELSE IF found.keys # <<>> THEN "arrays" ELSE "begin"
          /\ UNCHANGED <<terms, down>>
    BY <1>3 DEF ReadExtension
  <2>2. /\ UNCHANGED <<terms, down>> /\ next' \in {"none", "arrays", "begin"}
        /\ next' # "none" => found.is = "reading"
    BY <2>1
  <2>3. PICK g : g = held'
    OBVIOUS
  <2>4. DOMAIN g = DOMAIN Unread /\ g.pool = read.pool /\ g.extension = read.extension
        /\ g.keys = found.keys
    BY <2>1, <2>3, UnreadIs DEF ReadInv
  <2>5. KeysOf(held, 2)' = KeysOf(g, 2)
    BY <2>2, <2>3 DEF KeysOf, TickArrayKeys
  <2>6. KeysOf(g, 2) = found
    BY <2>1, <2>4, KeysOfThese
  <2>7. HasBitmaps(terms.dex)
    BY <2>1 DEF ReadInv
  <2> QED
    BY <2>2, <2>3, <2>4, <2>5, <2>6, <2>7 DEF ReadInv
<1>4. CASE ReadArray \/ ReadOracle
  <2>1. PICK g : g = held'
    OBVIOUS
  <2>2. /\ UNCHANGED <<terms, down>> /\ next \in {"arrays", "oracle"}
        /\ next' \in {"arrays", "oracle", "begin"}
    BY <1>4 DEF ReadArray, ReadOracle
  <2>3. DOMAIN g = DOMAIN Unread /\ g.pool = held.pool /\ g.extension = held.extension
        /\ g.keys = held.keys
    <3>1. CASE ReadArray
      <4>1. PICK arrays : g = [held EXCEPT !.arrays = arrays]
        BY <2>1, <3>1 DEF ReadArray
      <4> QED
        BY <4>1, UnreadIs DEF ReadInv
    <3>2. CASE ReadOracle
      <4>1. g = [held EXCEPT !.oracle = cache.oracle]
        BY <2>1, <3>2 DEF ReadOracle
      <4> QED
        BY <4>1, UnreadIs DEF ReadInv
    <3> QED
      BY <1>4, <3>1, <3>2
  <2>4. KeysOf(held, 2)' = KeysOf(g, 2)
    BY <2>1, <2>2 DEF KeysOf, TickArrayKeys
  <2>5. KeysOf(g, 2) = KeysOf(held, 2)
    BY <2>3, KeysOfThese
  <2>6. KeysOfPool(held.pool)' = KeysOfPool(held.pool)
    BY <2>1, <2>2, <2>3 DEF KeysOfPool
  <2> QED
    BY <2>1, <2>2, <2>3, <2>4, <2>5, <2>6 DEF ReadInv
<1>5. CASE Begin \/ Walk \/ ListPool \/ ListArrays
  <2>1. UNCHANGED <<terms, down, held>> /\ next \notin {"pool", "extension", "none"}
    BY <1>5 DEF Begin, Walk, ListPool, ListArrays
  <2>2. next' # "extension"
    BY <1>5 DEF Begin, Walk, ListPool, ListArrays, AfterWalk
  <2>3. KeysOf(held, 2)' = KeysOf(held, 2) /\ KeysOfPool(held.pool)' = KeysOfPool(held.pool)
    BY <2>1 DEF KeysOf, TickArrayKeys, KeysOfPool
  <2> QED
    BY <2>1, <2>2, <2>3 DEF ReadInv
<1> QED
  BY <1>1, <1>2, <1>3, <1>4, <1>5 DEF Next

\* Every step keeps what is listed.
LEMMA ListStep == ListInv /\ [Next]_vars => ListInv'
<1> SUFFICES ASSUME ListInv, [Next]_vars PROVE ListInv'
  OBVIOUS
<1> USE DEF pvars, cvars
<1>1. \A h : \A g : h.pool = g.pool /\ h.extension = g.extension => KeysOf(h, 2) = KeysOf(g, 2)
  BY KeysOfThese
<1>2. CASE UNCHANGED vars
  BY <1>2 DEF ListInv, vars, KeysOf, TickArrayKeys, KeysOfPool
<1>3. CASE Move
  <2>1. /\ UNCHANGED <<terms, down, listed, next>> /\ next # "done"
        /\ chain' \in States[terms.dex] /\ past' = past \cup {chain'}
    BY <1>3 DEF Move, Reading
  <2> QED
    BY <2>1 DEF ListInv
<1>4. CASE Update
  BY <1>4 DEF Update, ListInv, Reading
<1>5. CASE ReadPool \/ ReadExtension \/ ReadArray \/ ReadOracle
  <2>1. UNCHANGED <<terms, down, listed, chain, past>> /\ next' \notin {"done", "list arrays"}
    BY <1>5 DEF ReadPool, ReadExtension, ReadArray, ReadOracle
  <2> QED
    BY <2>1 DEF ListInv
<1>6. CASE Begin \/ Walk
  <2>1. UNCHANGED <<terms, down, listed, chain, past>> /\ next' = AfterWalk(walk')
    BY <1>6 DEF Begin, Walk
  <2> QED
    BY <2>1 DEF ListInv, AfterWalk
<1>7. CASE ListPool
  <2>1. /\ UNCHANGED <<terms, down, chain, past>>
        /\ listed' = [listed EXCEPT !.pool = cache.pool,
                                    !.keys = Reverse(KeysOfPool(cache.pool))]
        /\ next' = IF HasBitmaps(terms.dex) THEN "list arrays" ELSE "done"
    BY <1>7 DEF ListPool
  <2>2. DOMAIN listed' = DOMAIN Unread /\ listed'.pool = cache.pool
        /\ listed'.keys = Reverse(KeysOfPool(cache.pool))
    BY <2>1, UnreadIs DEF ListInv
  <2>3. KeysOfPool(listed.pool)' = KeysOfPool(cache.pool)
    <3>1. UNCHANGED <<terms, down>>
      BY <2>1
    <3> QED
      BY <2>2, <3>1 DEF KeysOfPool
  <2>4. /\ UNCHANGED <<terms, down, chain, past>>
        /\ next' = "done" => ~HasBitmaps(terms.dex)
        /\ next' = "list arrays" => HasBitmaps(terms.dex)
    BY <2>1
  <2> QED
    BY <2>2, <2>3, <2>4 DEF ListInv
<1>8. CASE ListArrays
  <2>1. PICK read, found :
          /\ read = [listed EXCEPT !.extension = cache.extension] /\ found = KeysOf(read, 2)
          /\ listed' = [read EXCEPT !.keys = found.keys]
          /\ next = "list arrays" /\ next' = IF found.is = "reading" THEN "done" ELSE "none"
          /\ UNCHANGED <<terms, down, chain, past>>
    BY <1>8 DEF ListArrays
  <2>2. UNCHANGED <<terms, down, chain, past>> /\ (next' = "done" => found.is = "reading")
    BY <2>1
  <2>3. PICK g : g = listed'
    OBVIOUS
  <2>4. DOMAIN g = DOMAIN Unread /\ g.pool = read.pool /\ g.extension = read.extension
        /\ g.keys = found.keys
    BY <2>1, <2>3, UnreadIs DEF ListInv
  <2>5. KeysOf(listed, 2)' = KeysOf(g, 2)
    BY <2>2, <2>3 DEF KeysOf, TickArrayKeys
  <2>6. KeysOf(g, 2) = found
    BY <2>1, <2>4, KeysOfThese
  <2>7. HasBitmaps(terms.dex) /\ next' # "list arrays"
    BY <2>1 DEF ListInv
  <2> QED
    BY <2>2, <2>3, <2>4, <2>5, <2>6, <2>7 DEF ListInv
<1> QED
  BY <1>2, <1>3, <1>4, <1>5, <1>6, <1>7, <1>8 DEF Next

\* Keys that bitmaps name are the arrays a swap may use, in order.
LEMMA NamedAreUsable ==
    ASSUME NEW h, NEW s \in States[terms.dex], down \in BOOLEAN, HasBitmaps(terms.dex),
           h.pool = PoolAccount(terms.dex, s), ExtensionOf(h.extension, s),
           KeysOf(h, 2).is = "reading", h.keys = KeysOf(h, 2).keys
    PROVE  ToSet(h.keys) = Usable(terms.dex, s, down) /\ InOrder(h.keys, down)
<1>1. CASE terms.dex = "RaydiumCLMM"
  <2>1. KeysOf(h, 2) = TickArrayKeys(h, 2)
    BY <1>1 DEF KeysOf
  <2>2. h.extension = ExtensionAccount("RaydiumCLMM", s)
    BY <1>1 DEF ExtensionOf, Extension
  <2> QED
    BY <1>1, <2>1, <2>2, TickArraysAreUsable
<1>2. CASE terms.dex = "MeteoraDLMM"
  <2>1. h.extension \in {Extension("MeteoraDLMM", s), ExtensionAccount("MeteoraDLMM", s)}
    BY <1>2 DEF ExtensionOf
  <2> QED
    BY <1>2, <2>1, BinArraysAreUsable
<1> QED
  BY <1>1, <1>2 DEF HasBitmaps

\* Then the listed arrays are the ones a swap may use, in order, and those the
\* quote read if it read the same state.
LEMMA ListIsUsable == ListInv /\ ReadInv => ArraysAreListed
<1> DEFINE descending == IF terms.dex = "OrcaWhirl" THEN ~down ELSE down
           keys == listed.keys
<1> SUFFICES ASSUME ListInv, ReadInv, next = "done", NEW s \in past,
                    listed.pool = PoolAccount(terms.dex, s), ExtensionOf(listed.extension, s),
                    terms.dex # "MeteoraDAMMV2"
             PROVE  /\ ToSet(keys) = Usable(terms.dex, s, down)
                    /\ \A m, n \in DOMAIN keys :
                         m < n => IF descending THEN keys[m] > keys[n] ELSE keys[m] < keys[n]
                    /\ ReadFrom(s) => ToSet(held.keys) = ToSet(keys)
  BY Zenon DEF ArraysAreListed
<1>1. s \in States[terms.dex] /\ down \in BOOLEAN
  BY DEF ListInv
<1>2. ReadFrom(s) => held.pool = PoolAccount(terms.dex, s) /\ ExtensionOf(held.extension, s)
  BY DEF ReadFrom, Accounts
<1>3. ToSet(keys) = Usable(terms.dex, s, down) /\ InOrder(keys, descending)
      /\ (ReadFrom(s) => ToSet(held.keys) = Usable(terms.dex, s, down))
  <2>1. CASE HasBitmaps(terms.dex)
    <3>1. KeysOf(listed, 2).is = "reading" /\ listed.keys = KeysOf(listed, 2).keys
      BY <2>1 DEF ListInv
    <3>2. KeysOf(held, 2).is = "reading" /\ held.keys = KeysOf(held, 2).keys
      BY <2>1 DEF ReadInv
    <3>3. descending = down
      BY <2>1 DEF HasBitmaps
    <3>4. ToSet(keys) = Usable(terms.dex, s, down) /\ InOrder(keys, down)
      BY <1>1, <2>1, <3>1, NamedAreUsable
    <3>5. ReadFrom(s) => ToSet(held.keys) = Usable(terms.dex, s, down)
      BY <1>1, <1>2, <2>1, <3>2, NamedAreUsable
    <3> QED
      BY <3>3, <3>4, <3>5
  <2>2. CASE terms.dex = "OrcaWhirl"
    <3>1. keys = Reverse(KeysOfPool(listed.pool)) /\ held.keys = KeysOfPool(held.pool)
      BY <2>2 DEF ListInv, ReadInv, HasBitmaps
    <3>2. PoolAccount(terms.dex, s).tick_current_index = s.tick
      BY <2>2 DEF PoolAccount, Whirlpool
    <3>3. PICK row : row = get_tick_arrays_or_default(s.tick, TickSpacing, down)
      OBVIOUS
    <3>4. KeysOfPool(PoolAccount(terms.dex, s)) = row
      BY <2>2, <3>2, <3>3 DEF KeysOfPool
    <3>5. /\ ToSet(row) = Usable("OrcaWhirl", s, down)
          /\ ToSet(Reverse(row)) = Usable("OrcaWhirl", s, down)
          /\ InOrder(Reverse(row), ~down)
      BY <1>1, <2>2, <3>3, RowIsUsable
    <3>6. keys = Reverse(row) /\ (ReadFrom(s) => held.keys = row)
      BY <1>2, <3>1, <3>4
    <3>7. descending = ~down
      BY <2>2
    <3> QED
      BY <2>2, <3>5, <3>6, <3>7
  <2>3. terms.dex \in Dexes
    BY <1>1, <2>1, <2>2 DEF ListInv
  <2> QED
    BY <2>1, <2>2, <2>3 DEF Dexes, HasBitmaps
<1>4. \A m, n \in DOMAIN keys :
        m < n => IF descending THEN keys[m] > keys[n] ELSE keys[m] < keys[n]
  BY <1>3 DEF InOrder, Sooner
<1> QED
  BY <1>3, <1>4

\* The accounts listed for the swap of any pool are the arrays a swap of that
\* pool may use: none that holds a position or a bin is left out, none is added
\* and none is listed twice, nearest first or, of Orca's, farthest first; and they
\* are the arrays the quote read if it read the same state of the pool, for every
\* width of the bitmaps and every set of states (convert_to_instruction_material).
THEOREM SwapArraysAreListed == Spec => []ArraysAreListed
<1>1. Init => ListInv /\ ReadInv
  BY ListInit
<1>2. ListInv /\ ReadInv /\ [Next]_vars => (ListInv /\ ReadInv)'
  BY ListStep, ReadStep
<1>3. ListInv /\ ReadInv => ArraysAreListed
  BY ListIsUsable
<1> QED
  BY <1>1, <1>2, <1>3, PTL DEF Spec
=============================================================================
