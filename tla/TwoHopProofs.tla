---------------------------- MODULE TwoHopProofs ----------------------------
(***************************************************************************)
(* The search for every set of pools, every quoting function, every price  *)
(* and every number of concurrent cache writes: types, the floor on the    *)
(* profit of a route, and that every profit was real.                      *)
(***************************************************************************)
EXTENDS TwoHop, FiniteSetTheorems, WellFoundedInduction, TLAPS

USE RoutesAssumption, SearchAssumption

\* The first hops taken during the search were quoted over data its pool had.
OutReal ==
    phase # "idle" =>
        \A h \in Candidates(pool) :
            out[h] # Pending =>
                \E d \in window[h.first.pool] :
                    out[h] = Quote(d, h.first.swap_direction, AmountIn)

\* What the phases guarantee about the candidates.
PhaseInv ==
    /\ phase # "idle" => \A p \in Pools : cache[p] \in window[p]
    /\ phase = "positive" => \A h \in Positive(pool) : out[h] \in Nat
    /\ phase = "reverse" => \A h \in Positive(pool) : profit[h] # Pending

SearchInv == TypeOK /\ OutReal /\ PhaseInv /\ ProfitsWereReal

-----------------------------------------------------------------------------
(* Facts about routes *)

LEMMA PathFacts ==
    ASSUME NEW h \in Paths
    PROVE  /\ h.first \in Edges /\ h.second \in Edges
           /\ h.first.pool \in Pools /\ h.second.pool \in Pools
           /\ h.first.swap_direction \in BOOLEAN /\ h.second.swap_direction \in BOOLEAN
           /\ IsPath(h.first, h.second)
  BY DEF Paths, Edges

LEMMA CandidateFacts ==
    ASSUME NEW p, NEW h \in Candidates(p)
    PROVE  /\ h \in Paths
           /\ MintIn(h.first) = ArbMint
           /\ h \in Positive(p) \/ h \in Reverse(p)
  BY DEF Candidates, Graph, Positive, Reverse

LEMMA GroupFacts ==
    ASSUME NEW p
    PROVE  /\ Positive(p) \subseteq Candidates(p)
           /\ Reverse(p) \subseteq Candidates(p)
           /\ Positive(p) \cap Reverse(p) = {}
  BY DEF Positive, Reverse

\* The positive paths of a pool leave it by the same edge.
LEMMA SharedEdge ==
    ASSUME NEW p \in Pools, NEW h \in Positive(p), NEW k \in Positive(p)
    PROVE  h.first = k.first
<1>1. h \in Paths /\ k \in Paths /\ h.first.pool = p /\ k.first.pool = p
  BY DEF Positive, Candidates, Graph
<1>2. MintIn(h.first) = MintIn(k.first)
  BY DEF Positive, Candidates
<1>3. h.first \in Edges /\ k.first \in Edges
  BY <1>1, PathFacts
<1>4. h.first.swap_direction = k.first.swap_direction
  BY <1>1, <1>2, <1>3 DEF MintIn, Edges
<1> QED
  BY <1>1, <1>3, <1>4 DEF Edges

LEMMA ProfitRange ==
    ASSUME NEW y
    PROVE  /\ CalculateProfit(y) \in Nat \cup {NoRoute}
           /\ CalculateProfit(y) # Pending
           /\ CalculateProfit(y) # NoRoute => CalculateProfit(y) >= MinProfit
  BY DEF CalculateProfit

LEMMA GainRange ==
    ASSUME NEW h, NEW d, NEW e
    PROVE  /\ Gain(h, d, e) \in Nat \cup {NoRoute}
           /\ Gain(h, d, e) # Pending
           /\ Gain(h, d, e) # NoRoute => Gain(h, d, e) >= MinProfit
  BY ProfitRange DEF Gain

LEMMA FirstQuote ==
    ASSUME NEW d \in Data, NEW forward \in BOOLEAN
    PROVE  Quote(d, forward, AmountIn) \in Nat \cup {NoQuote}
  BY QuoteAssumption

LEMMA DataFact ==
    ASSUME NEW p \in Pools, NEW d \in DataOf[p]
    PROVE  d \in Data
  BY DEF Data

LEMMA BestFacts ==
    ASSUME TypeOK, NEW h \in Choices
    PROVE  /\ h \in Candidates(pool)
           /\ profit[h] # NoRoute
  BY GroupFacts DEF Choices, Best

-----------------------------------------------------------------------------
(* The invariant *)

LEMMA SearchInit == Init => SearchInv
  BY DEF Init, SearchInv, TypeOK, Phases, OutReal, PhaseInv, ProfitsWereReal

LEMMA SearchStepInv == SearchInv /\ [Next]_vars => SearchInv'
<1> SUFFICES ASSUME SearchInv, [Next]_vars PROVE SearchInv'
  OBVIOUS
<1> USE DEF SearchInv
<1>1. ASSUME NEW p \in Pools, NEW d \in DataOf[p], CacheWrite(p, d)
      PROVE  SearchInv'
  <2>1. d \in Data
    BY DataFact
  <2>2. TypeOK'
    BY <1>1, <2>1 DEF CacheWrite, TypeOK, qvars, Phases
  <2>3. \A q \in Pools : window[q] \subseteq window'[q]
    BY <1>1 DEF CacheWrite, TypeOK
  <2>4. OutReal'
    BY <1>1, <2>3, CandidateFacts, PathFacts DEF CacheWrite, OutReal, qvars
  <2>5. PhaseInv'
    BY <1>1 DEF CacheWrite, PhaseInv, TypeOK, qvars
  <2>6. ProfitsWereReal'
    <3> SUFFICES ASSUME NEW h \in Candidates(pool), profit[h] # Pending
                 PROVE  \E a \in window'[h.first.pool], b \in window'[h.second.pool] :
                            profit[h] = Gain(h, a, b)
      BY <1>1 DEF CacheWrite, ProfitsWereReal, qvars
    <3> QED
      BY <1>1, <2>3, CandidateFacts, PathFacts DEF CacheWrite, ProfitsWereReal
  <2> QED
    BY <2>2, <2>4, <2>5, <2>6
<1>2. ASSUME NEW w \in Wallets \cup {Unknown}, WalletChange(w)
      PROVE  SearchInv'
  BY <1>2 DEF WalletChange, TypeOK, OutReal, PhaseInv, ProfitsWereReal, qvars, Phases
<1>3. ASSUME NEW p \in Pools, StartSearch(p)
      PROVE  SearchInv'
  <2>1. TypeOK'
    BY <1>3 DEF StartSearch, TypeOK, Phases
  <2>2. \A h \in Candidates(p) : out'[h] = Pending /\ profit'[h] = Pending
    BY <1>3, CandidateFacts DEF StartSearch
  <2>3. phase' = "reverse" => Positive(p) = {}
    BY <1>3 DEF StartSearch
  <2>4. PhaseInv'
    BY <1>3, <2>3 DEF StartSearch, PhaseInv
  <2> QED
    BY <1>3, <2>1, <2>2, <2>4 DEF StartSearch, OutReal, ProfitsWereReal
<1>4. ASSUME NEW p \in Pools, DeclineSearch(p)
      PROVE  SearchInv'
  BY <1>4 DEF DeclineSearch, TypeOK, OutReal, PhaseInv, ProfitsWereReal, qvars, Phases
<1>5. CASE QuoteShared
  <2>1. PICK h \in Positive(pool) :
          /\ out' = [k \in Paths |-> IF k \in Positive(pool) THEN FirstHop(h) ELSE out[k]]
          /\ profit' = [k \in Paths |-> IF k \in Positive(pool) /\ FirstHop(h) = NoQuote
                                          THEN NoRoute ELSE profit[k]]
          /\ phase' = IF FirstHop(h) = NoQuote THEN "reverse" ELSE "positive"
    BY <1>5 DEF QuoteShared
  <2>2. phase = "shared" /\ UNCHANGED <<cache, wallet, pool, answer, window, writes>>
    BY <1>5 DEF QuoteShared
  <2>3. h \in Paths /\ h.first.pool = pool /\ h.first.pool \in Pools
    BY GroupFacts, CandidateFacts, PathFacts DEF Positive
  <2>4. FirstHop(h) \in Nat \cup {NoQuote} /\ FirstHop(h) # Pending
    <3>1. cache[h.first.pool] \in Data /\ h.first.swap_direction \in BOOLEAN
      BY <2>3, PathFacts DEF TypeOK
    <3> QED
      BY <3>1, FirstQuote DEF FirstHop
  <2>5. Positive(pool) \subseteq Paths
    BY GroupFacts, CandidateFacts
  <2>6. TypeOK'
    <3>1. out' \in [Paths -> Nat \cup {Pending, NoQuote}]
      BY <2>1, <2>4 DEF TypeOK
    <3>2. profit' \in [Paths -> Nat \cup {Pending, NoRoute}]
      BY <2>1 DEF TypeOK
    <3>3. phase' = "positive" => \A k, m \in Positive(pool) : out'[k] = out'[m] /\ out'[k] \in Nat
      BY <2>1, <2>4, <2>5
    <3> QED
      BY <3>1, <3>2, <3>3, <2>1, <2>2 DEF TypeOK, Phases
  <2>7. \A k \in Positive(pool) : k.first = h.first
    BY SharedEdge DEF TypeOK
  <2>8. cache[pool] \in window[pool]
    BY <2>2 DEF PhaseInv, TypeOK
  <2>9. OutReal'
    <3> SUFFICES ASSUME NEW k \in Candidates(pool), out'[k] # Pending
                 PROVE  \E d \in window[k.first.pool] :
                            out'[k] = Quote(d, k.first.swap_direction, AmountIn)
      BY <2>2 DEF OutReal
    <3>1. CASE k \in Positive(pool)
      BY <3>1, <2>1, <2>3, <2>5, <2>7, <2>8 DEF FirstHop
    <3>2. CASE k \notin Positive(pool)
      BY <3>2, <2>1, <2>2, CandidateFacts DEF OutReal
    <3> QED
      BY <3>1, <3>2
  <2>10. PhaseInv'
    BY <2>1, <2>2, <2>4, <2>5 DEF PhaseInv
  <2>11. ProfitsWereReal'
    <3> SUFFICES ASSUME NEW k \in Candidates(pool), profit'[k] # Pending
                 PROVE  \E d \in window[k.first.pool], e \in window[k.second.pool] :
                            profit'[k] = Gain(k, d, e)
      BY <2>2 DEF ProfitsWereReal
    <3>1. k \in Paths
      BY CandidateFacts
    <3>2. CASE k \in Positive(pool) /\ FirstHop(h) = NoQuote
      <4>1. profit'[k] = NoRoute
        BY <3>2, <3>1, <2>1
      <4>2. Gain(k, cache[pool], cache[k.second.pool]) = NoRoute
        BY <3>2, <2>3, <2>7 DEF Gain, FirstHop, CalculateProfit
      <4>3. cache[k.second.pool] \in window[k.second.pool]
        BY <3>1, <2>2, PathFacts DEF PhaseInv
      <4>4. k.first.pool = pool
        BY <3>2, <2>3, <2>7
      <4> QED
        BY <4>1, <4>2, <4>3, <4>4, <2>8
    <3>3. CASE ~(k \in Positive(pool) /\ FirstHop(h) = NoQuote)
      BY <3>3, <3>1, <2>1, <2>2 DEF ProfitsWereReal
    <3> QED
      BY <3>2, <3>3
  <2> QED
    BY <2>6, <2>9, <2>10, <2>11
<1>6. ASSUME NEW h \in Candidates(pool), out[h] \notin {Pending, NoQuote},
             phase # "idle", profit' = [profit EXCEPT ![h] = SecondHop(h)],
             UNCHANGED <<cache, wallet, phase, pool, out, answer, window, writes>>
      PROVE  SearchInv'
  <2>1. h \in Paths /\ h.first.pool \in Pools /\ h.second.pool \in Pools
    BY CandidateFacts, PathFacts
  <2>2. SecondHop(h) \in Nat \cup {NoRoute} /\ SecondHop(h) # Pending
    BY ProfitRange DEF SecondHop
  <2>3. TypeOK'
    BY <1>6, <2>1, <2>2 DEF TypeOK, Phases
  <2>4. OutReal'
    BY <1>6 DEF OutReal
  <2>5. PhaseInv'
    BY <1>6, <2>1, <2>2, GroupFacts, CandidateFacts DEF PhaseInv, TypeOK
  <2>6. PICK d \in window[h.first.pool] : out[h] = Quote(d, h.first.swap_direction, AmountIn)
    BY <1>6 DEF OutReal
  <2>7. SecondHop(h) = Gain(h, d, cache[h.second.pool])
    BY <1>6, <2>6 DEF SecondHop, Gain
  <2>8. cache[h.second.pool] \in window[h.second.pool]
    BY <1>6, <2>1 DEF PhaseInv
  <2>9. ProfitsWereReal'
    <3> SUFFICES ASSUME NEW k \in Candidates(pool), profit'[k] # Pending
                 PROVE  \E a \in window[k.first.pool], b \in window[k.second.pool] :
                            profit'[k] = Gain(k, a, b)
      BY <1>6 DEF ProfitsWereReal
    <3>1. CASE k = h
      BY <3>1, <1>6, <2>1, <2>6, <2>7, <2>8 DEF TypeOK
    <3>2. CASE k # h
      BY <3>2, <1>6, CandidateFacts DEF ProfitsWereReal, TypeOK
    <3> QED
      BY <3>1, <3>2
  <2> QED
    BY <2>3, <2>4, <2>5, <2>9
<1>7. ASSUME NEW h \in Paths, QuotePositive(h)
      PROVE  SearchInv'
  BY <1>6, <1>7, GroupFacts DEF QuotePositive, PhaseInv
<1>8. CASE PositiveDone
  BY <1>8 DEF PositiveDone, TypeOK, OutReal, PhaseInv, ProfitsWereReal, qvars, Phases
<1>9. ASSUME NEW h \in Paths, QuoteReverseFirst(h)
      PROVE  SearchInv'
  <2>1. h \in Candidates(pool) /\ h \notin Positive(pool)
    BY <1>9, GroupFacts DEF QuoteReverseFirst
  <2>2. h.first.pool \in Pools /\ h.second.pool \in Pools /\ h.first.swap_direction \in BOOLEAN
    BY PathFacts
  <2>3. FirstHop(h) \in Nat \cup {NoQuote} /\ FirstHop(h) # Pending
    BY <2>2, FirstQuote DEF FirstHop, TypeOK
  <2>4. cache[h.first.pool] \in window[h.first.pool]
           /\ cache[h.second.pool] \in window[h.second.pool]
    BY <1>9, <2>2 DEF QuoteReverseFirst, PhaseInv
  <2>5. TypeOK'
    BY <1>9, <2>3 DEF QuoteReverseFirst, TypeOK, Phases
  <2>6. OutReal'
    <3> SUFFICES ASSUME NEW k \in Candidates(pool), out'[k] # Pending
                 PROVE  \E d \in window[k.first.pool] :
                            out'[k] = Quote(d, k.first.swap_direction, AmountIn)
      BY <1>9 DEF QuoteReverseFirst, OutReal
    <3>1. CASE k = h
      BY <3>1, <1>9, <2>4 DEF QuoteReverseFirst, TypeOK, FirstHop
    <3>2. CASE k # h
      BY <3>2, <1>9, CandidateFacts DEF QuoteReverseFirst, TypeOK, OutReal
    <3> QED
      BY <3>1, <3>2
  <2>7. PhaseInv'
    BY <1>9, <2>1, GroupFacts, CandidateFacts DEF QuoteReverseFirst, PhaseInv, TypeOK
  <2>8. ProfitsWereReal'
    <3> SUFFICES ASSUME NEW k \in Candidates(pool), profit'[k] # Pending
                 PROVE  \E a \in window[k.first.pool], b \in window[k.second.pool] :
                            profit'[k] = Gain(k, a, b)
      BY <1>9 DEF QuoteReverseFirst, ProfitsWereReal
    <3>1. CASE k = h /\ FirstHop(h) = NoQuote
      <4>1. Gain(k, cache[k.first.pool], cache[k.second.pool]) = NoRoute
        BY <3>1 DEF Gain, FirstHop, CalculateProfit
      <4>2. profit'[k] = NoRoute
        BY <3>1, <1>9 DEF QuoteReverseFirst, TypeOK
      <4> QED
        BY <3>1, <4>1, <4>2, <2>4
    <3>2. CASE ~(k = h /\ FirstHop(h) = NoQuote)
      BY <3>2, <1>9, CandidateFacts DEF QuoteReverseFirst, TypeOK, ProfitsWereReal
    <3> QED
      BY <3>1, <3>2
  <2> QED
    BY <2>5, <2>6, <2>7, <2>8
<1>10. ASSUME NEW h \in Paths, QuoteReverseSecond(h)
       PROVE  SearchInv'
  BY <1>6, <1>10, GroupFacts DEF QuoteReverseSecond
<1>11. CASE Finish
  <2>1. answer' \in {NoRoute} \cup [path : Paths, profit : Nat]
    <3>1. CASE Choices = {} /\ answer' = NoRoute
      BY <3>1
    <3>2. ASSUME NEW h \in Choices, answer' = [path |-> h, profit |-> profit[h]]
          PROVE  answer' \in [path : Paths, profit : Nat]
      <4>1. h \in Candidates(pool) /\ h \in Paths /\ profit[h] # NoRoute
        BY <3>2, BestFacts, CandidateFacts
      <4>2. profit[h] # Pending
        BY <1>11, <4>1, CandidateFacts DEF Finish, PhaseInv
      <4> QED
        BY <3>2, <4>1, <4>2 DEF TypeOK
    <3> QED
      BY <1>11, <3>1, <3>2 DEF Finish
  <2> QED
    BY <1>11, <2>1 DEF Finish, TypeOK, OutReal, PhaseInv, ProfitsWereReal, qvars, Phases
<1>12. CASE UNCHANGED vars
  BY <1>12 DEF vars, qvars, TypeOK, OutReal, PhaseInv, ProfitsWereReal, Phases
<1> QED
  BY <1>1, <1>2, <1>3, <1>4, <1>5, <1>7, <1>8, <1>9, <1>10, <1>11, <1>12 DEF Next, SearchStep

\* SearchInv holds in every reachable state.
THEOREM SearchInvariant == Spec => []SearchInv
<1>1. Init => SearchInv
  BY SearchInit
<1>2. SearchInv /\ [Next]_vars => SearchInv'
  BY SearchStepInv
<1> QED
  BY <1>1, <1>2, PTL DEF Spec

\* Types of the search's variables, and the common quote of the positive paths
\* (find_best_hop_path, normal_quote), for every set of pools and quoting
\* function.
THEOREM SearchTypes == Spec => []TypeOK
<1>1. SearchInv => TypeOK
  BY DEF SearchInv
<1> QED
  BY <1>1, SearchInvariant, PTL

\* Every profit normal_quote compares was the profit of its path for data both
\* pools had since the search began, whatever the processors write meanwhile.
THEOREM ProfitsReal == Spec => []ProfitsWereReal
<1>1. SearchInv => ProfitsWereReal
  BY DEF SearchInv
<1> QED
  BY <1>1, SearchInvariant, PTL

LEMMA FloorStep ==
    ASSUME SearchInv, ProfitFloor, [Next]_vars
    PROVE  ProfitFloor'
<1> USE DEF SearchInv
<1> SUFFICES ASSUME phase' = "idle", answer' # NoRoute
             PROVE  /\ answer'.path \in Candidates(pool')
                    /\ MintOut(answer'.path.second) = ArbMint
                    /\ answer'.path.first.pool # answer'.path.second.pool
                    /\ answer'.profit >= MinProfit
  BY DEF ProfitFloor
<1>1. CASE Finish
  <2>1. PICK h \in Choices : answer' = [path |-> h, profit |-> profit[h]]
    BY <1>1 DEF Finish
  <2>2. h \in Candidates(pool) /\ h \in Paths /\ profit[h] # NoRoute
    BY <2>1, BestFacts, CandidateFacts
  <2>3. profit[h] # Pending
    BY <1>1, <2>2, CandidateFacts DEF Finish, PhaseInv
  <2>4. PICK d, e : profit[h] = Gain(h, d, e)
    BY <1>1, <2>2, <2>3 DEF Finish, ProfitsWereReal
  <2>5. profit[h] >= MinProfit
    BY <2>2, <2>4, GainRange
  <2>6. IsPath(h.first, h.second) /\ MintIn(h.first) = ArbMint
    BY <2>2, PathFacts, CandidateFacts
  <2> QED
    BY <1>1, <2>1, <2>2, <2>5, <2>6 DEF Finish, IsPath
<1>2. CASE ~Finish
  <2>1. phase = "idle" /\ answer' = answer /\ pool' = pool
    <3>1. ASSUME NEW p \in Pools, NEW d \in DataOf[p], CacheWrite(p, d)
          PROVE  phase = "idle" /\ answer' = answer /\ pool' = pool
      BY <3>1 DEF CacheWrite
    <3>2. ASSUME NEW w, WalletChange(w)
          PROVE  phase = "idle" /\ answer' = answer /\ pool' = pool
      BY <3>2 DEF WalletChange
    <3>3. ASSUME NEW p \in Pools, StartSearch(p)
          PROVE  phase = "idle" /\ answer' = answer /\ pool' = pool
      BY <3>3 DEF StartSearch
    <3>4. ASSUME NEW p \in Pools, DeclineSearch(p)
          PROVE  phase = "idle" /\ answer' = answer /\ pool' = pool
      BY <3>4 DEF DeclineSearch
    <3>5. CASE QuoteShared
      BY <3>5 DEF QuoteShared
    <3>6. CASE PositiveDone
      BY <3>6 DEF PositiveDone
    <3>7. ASSUME NEW h \in Paths, QuotePositive(h) \/ QuoteReverseFirst(h) \/ QuoteReverseSecond(h)
          PROVE  phase = "idle" /\ answer' = answer /\ pool' = pool
      BY <3>7 DEF QuotePositive, QuoteReverseFirst, QuoteReverseSecond
    <3>8. CASE UNCHANGED vars
      BY <3>8 DEF vars
    <3> QED
      BY <1>2, <3>1, <3>2, <3>3, <3>4, <3>5, <3>6, <3>7, <3>8 DEF Next, SearchStep
  <2> QED
    BY <2>1 DEF ProfitFloor
<1> QED
  BY <1>1, <1>2

\* An Arb is only ever given a cycle through the triggering pool that starts
\* and ends in its own mint and earns at least --arb-min-profit.
THEOREM RoutesEarn == Spec => []ProfitFloor
<1>1. Init => ProfitFloor
  BY DEF Init, ProfitFloor
<1>2. SearchInv /\ ProfitFloor /\ [Next]_vars => ProfitFloor'
  BY FloorStep
<1> QED
  BY <1>1, <1>2, SearchInvariant, PTL DEF Spec

-----------------------------------------------------------------------------
(* A best candidate exists *)

\* A set of numbers has a least one.
LEMMA LeastNat ==
    ASSUME NEW T, T \subseteq Nat, T # {}
    PROVE  \E x \in T : \A y \in T : x <= y
<1>1. PICK x \in T : \A y \in T : <<y, x>> \notin OpToRel(<, Nat)
  BY WFMin, NatLessThanWellFounded
<1>2. \A y \in T : ~(y < x)
  BY <1>1 DEF OpToRel
<1> QED
  BY <1>2

\* Among finitely many one has the greatest value.
LEMMA GreatestValue ==
    ASSUME NEW S, IsFiniteSet(S), S # {}, NEW v, \A x \in S : v[x] \in Nat
    PROVE  \E m \in S : \A x \in S : v[x] <= v[m]
<1>1. PICK n \in Nat : ExistsSurjection(1..n, S)
  BY FS_NatSurjection
<1>2. PICK f \in Surjection(1..n, S) : TRUE
  BY <1>1 DEF ExistsSurjection
<1>3. f \in [1..n -> S] /\ \A x \in S : \E i \in 1..n : f[i] = x
  BY <1>2 DEF Surjection
<1> DEFINE Tops(k) == \E m \in S : \A i \in 1..k : v[f[i]] <= v[m]
           bad == {k \in 0..n : ~Tops(k)}
<1>4. bad = {}
  <2> SUFFICES ASSUME bad # {} PROVE FALSE
    OBVIOUS
  <2>1. bad \subseteq Nat
    OBVIOUS
  <2>2. PICK k \in bad : \A l \in bad : k <= l
    BY <2>1, LeastNat
  <2>3. CASE k = 0
    BY <2>3
  <2>4. CASE k # 0
    <3>0. PICK l : l = k - 1
      OBVIOUS
    <3>1. l \in 0..n /\ k \in 1..n /\ k = l + 1 /\ ~(k <= l)
      BY <2>2, <2>4, <3>0
    <3>2. PICK m \in S : \A i \in 1..(k - 1) : v[f[i]] <= v[m]
      <4>1. l \notin bad
        BY <2>2, <3>1
      <4>2. Tops(l)
        BY <3>1, <4>1
      <4> QED
        BY <3>0, <4>2
    <3>3. f[k] \in S /\ v[f[k]] \in Nat /\ v[m] \in Nat /\ \A i \in 1..n : v[f[i]] \in Nat
      BY <1>3, <3>1
    <3>4. \A i \in 1..k : i \in 1..(k - 1) \/ i = k
      BY <3>1
    <3>5. CASE v[f[k]] <= v[m]
      <4>1. \A i \in 1..k : v[f[i]] <= v[m]
        BY <3>2, <3>4, <3>5
      <4>2. Tops(k)
        BY <4>1
      <4> QED
        BY <4>2
    <3>6. CASE v[m] <= v[f[k]]
      <4>1. \A i \in 1..k : v[f[i]] <= v[f[k]]
        BY <3>1, <3>2, <3>3, <3>4, <3>6, SMTT(30)
      <4>2. Tops(k)
        BY <3>3, <4>1
      <4> QED
        BY <4>2
    <3> QED
      BY <3>3, <3>5, <3>6
  <2> QED
    BY <2>3, <2>4
<1>5. Tops(n)
  BY <1>4
<1> QED
  BY <1>3, <1>5

LEMMA FinitePaths == IsFiniteSet(Pools) => IsFiniteSet(Paths)
<1> SUFFICES ASSUME IsFiniteSet(Pools) PROVE IsFiniteSet(Paths)
  OBVIOUS
<1>1. IsFiniteSet(BOOLEAN)
  <2>1. IsFiniteSet({TRUE} \cup {FALSE})
    BY FS_Singleton, FS_AddElement
  <2>2. BOOLEAN = {TRUE} \cup {FALSE}
    OBVIOUS
  <2> QED
    BY <2>1, <2>2
<1>2. IsFiniteSet(Edges)
  <2> DEFINE f == [c \in Pools \X BOOLEAN |-> [pool |-> c[1], swap_direction |-> c[2]]]
  <2>1. IsFiniteSet(Pools \X BOOLEAN)
    BY <1>1, FS_Product
  <2>2. f \in Surjection(Pools \X BOOLEAN, Edges)
    <3>1. f \in [Pools \X BOOLEAN -> Edges]
      BY DEF Edges
    <3>2. \A e \in Edges : <<e.pool, e.swap_direction>> \in Pools \X BOOLEAN
                           /\ f[<<e.pool, e.swap_direction>>] = e
      BY DEF Edges
    <3> QED
      BY <3>1, <3>2 DEF Surjection
  <2> QED
    BY <2>1, <2>2, FS_Surjection
<1>3. IsFiniteSet([first : Edges, second : Edges])
  <2> DEFINE f == [c \in Edges \X Edges |-> [first |-> c[1], second |-> c[2]]]
  <2>1. IsFiniteSet(Edges \X Edges)
    BY <1>2, FS_Product
  <2>2. f \in Surjection(Edges \X Edges, [first : Edges, second : Edges])
    <3>1. f \in [Edges \X Edges -> [first : Edges, second : Edges]]
      OBVIOUS
    <3>2. \A h \in [first : Edges, second : Edges] :
             <<h.first, h.second>> \in Edges \X Edges /\ f[<<h.first, h.second>>] = h
      OBVIOUS
    <3> QED
      BY <3>1, <3>2 DEF Surjection
  <2> QED
    BY <2>1, <2>2, FS_Surjection
<1>4. Paths \in SUBSET [first : Edges, second : Edges]
  BY DEF Paths
<1> QED
  BY <1>3, <1>4, FS_Subset

\* A group with a profit in it has a best path.
LEMMA BestExists ==
    ASSUME IsFiniteSet(Pools), TypeOK, NEW group, group \subseteq Paths,
           \A h \in group : profit[h] # Pending,
           NEW k \in group, profit[k] # NoRoute
    PROVE  \E h \in Best(group) : profit[k] <= profit[h]
<1> DEFINE earning == {h \in group : profit[h] # NoRoute}
<1>1. earning \in SUBSET Paths /\ k \in earning
  OBVIOUS
<1>2. IsFiniteSet(earning)
  BY <1>1, FinitePaths, FS_Subset
<1>3. \A h \in earning : profit[h] \in Nat
  BY DEF TypeOK
<1>4. PICK m \in earning : \A h \in earning : profit[h] <= profit[m]
  BY <1>1, <1>2, <1>3, GreatestValue
<1>5. m \in Best(group)
  BY <1>4 DEF Best
<1> QED
  BY <1>1, <1>4, <1>5

-----------------------------------------------------------------------------
(* The search implements BestRoute *)

LEMMA SameOutcomes ==
    ASSUME NEW h \in Paths, NEW d \in window[h.first.pool], NEW e \in window[h.second.pool]
    PROVE  Gain(h, d, e) \in Route!Outcomes(h)
  BY DEF Route!Outcomes, Route!Gain, Gain, Route!CalculateProfit, CalculateProfit

LEMMA SameCandidates == \A p : Route!Candidates(p) = Candidates(p)
  BY DEF Route!Candidates, Candidates, Route!Graph, Graph, Route!Paths, Paths, Route!Edges, Edges,
         Route!IsPath, IsPath, Route!MintIn, MintIn, Route!MintOut, MintOut

\* The last step answers with a best of the outcomes each path had.
LEMMA FinishAnswers ==
    ASSUME IsFiniteSet(Pools), SearchInv, Finish
    PROVE  Route!Answer
<1> USE DEF SearchInv
<1> DEFINE positive == Best(Positive(pool))
           reverse == Best(Reverse(pool))
<1>1. phase = "reverse" /\ phase' = "idle" /\ UNCHANGED <<cache, wallet, pool, window>>
  BY DEF Finish
<1>2. /\ Positive(pool) \subseteq Paths /\ Reverse(pool) \subseteq Paths
      /\ \A h \in Positive(pool) \cup Reverse(pool) : profit[h] # Pending
  BY GroupFacts, CandidateFacts DEF Finish, PhaseInv
<1>3. \A k \in Candidates(pool) : profit[k] \in Route!Outcomes(k)
  <2> SUFFICES ASSUME NEW k \in Candidates(pool) PROVE profit[k] \in Route!Outcomes(k)
    OBVIOUS
  <2>1. k \in Paths /\ profit[k] # Pending
    BY <1>2, CandidateFacts
  <2>2. PICK d \in window[k.first.pool], e \in window[k.second.pool] : profit[k] = Gain(k, d, e)
    BY <1>1, <2>1 DEF ProfitsWereReal
  <2> QED
    BY <2>1, <2>2, SameOutcomes
<1>4. \A k \in Positive(pool) : profit[k] # NoRoute => \E h \in positive : profit[k] <= profit[h]
  BY <1>2, BestExists
<1>5. \A k \in Reverse(pool) : profit[k] # NoRoute => \E h \in reverse : profit[k] <= profit[h]
  BY <1>2, BestExists
<1>6. /\ positive \subseteq Positive(pool) /\ reverse \subseteq Reverse(pool)
      /\ \A h \in positive \cup reverse : profit[h] \in Nat
  BY <1>2 DEF Best, TypeOK
<1>7. /\ \A h, k \in positive : profit[h] = profit[k]
      /\ \A h, k \in reverse : profit[h] = profit[k]
  <2>1. \A h, k \in positive : profit[h] <= profit[k]
    BY DEF Best
  <2>2. \A h, k \in reverse : profit[h] <= profit[k]
    BY DEF Best
  <2> QED
    BY <1>6, <2>1, <2>2
<1>8. \A k \in Candidates(pool) : k \in Positive(pool) \/ k \in Reverse(pool)
  BY CandidateFacts
<1>9. Choices = IF positive # {} /\ \A h \in positive, k \in reverse : profit[h] >= profit[k]
                  THEN positive ELSE reverse
  BY DEF Choices
<1>10. \A k \in Candidates(pool) : profit[k] \in Nat \cup {NoRoute}
  <2> SUFFICES ASSUME NEW k \in Candidates(pool) PROVE profit[k] \in Nat \cup {NoRoute}
    OBVIOUS
  <2>1. k \in Paths /\ profit[k] # Pending
    BY <1>2, CandidateFacts
  <2> QED
    BY <2>1 DEF TypeOK
<1> HIDE DEF positive, reverse
<1>11. CASE Choices = {} /\ answer' = NoRoute
  <2>1. positive = {} /\ reverse = {}
    BY <1>9, <1>11
  <2>2. \A k \in Candidates(pool) : profit[k] = NoRoute
    BY <1>4, <1>5, <1>8, <2>1
  <2>3. \A k \in Route!Candidates(pool) : NoRoute \in Route!Outcomes(k)
    BY <1>3, <2>2, SameCandidates
  <2> QED
    BY <1>1, <1>11, <2>3 DEF Route!Answer
<1>12. ASSUME NEW h \in Choices, answer' = [path |-> h, profit |-> profit[h]]
       PROVE  Route!Answer
  <2>1. h \in positive \cup reverse /\ h \in Candidates(pool) /\ profit[h] \in Nat
    BY <1>6, <1>9, <1>12, GroupFacts
  <2>2. \A k \in Candidates(pool) : profit[k] # NoRoute => profit[k] <= profit[h]
    <3> SUFFICES ASSUME NEW k \in Candidates(pool), profit[k] # NoRoute
                 PROVE  profit[k] <= profit[h]
      OBVIOUS
    <3>1. profit[k] \in Nat
      BY <1>10
    <3>2. CASE k \in Positive(pool)
      <4>1. PICK m \in positive : profit[k] <= profit[m]
        BY <1>4, <3>2
      <4>2. CASE h \in positive
        BY <1>7, <4>1, <4>2
      <4>3. CASE h \notin positive
        <5>1. h \in reverse /\ positive # {}
          BY <2>1, <4>1, <4>3
        <5>2. PICK p \in positive, r \in reverse : ~(profit[p] >= profit[r])
          BY <1>9, <1>12, <4>3, <5>1
        <5>3. profit[p] = profit[m] /\ profit[r] = profit[h]
          BY <1>7, <5>1
        <5> QED
          BY <1>6, <2>1, <3>1, <4>1, <5>2, <5>3
      <4> QED
        BY <4>2, <4>3
    <3>3. CASE k \in Reverse(pool)
      <4>1. PICK m \in reverse : profit[k] <= profit[m]
        BY <1>5, <3>3
      <4>2. CASE h \in reverse
        BY <1>7, <4>1, <4>2
      <4>3. CASE h \notin reverse
        <5>1. h \in positive /\ profit[h] >= profit[m]
          BY <1>9, <1>12, <2>1, <4>1, <4>3
        <5> QED
          BY <1>6, <2>1, <3>1, <4>1, <5>1
      <4> QED
        BY <4>2, <4>3
    <3> QED
      BY <1>8, <3>2, <3>3
  <2>3. \A k \in Route!Candidates(pool) : Route!NoBetter(k, profit[h])
    BY <1>3, <2>2, SameCandidates DEF Route!NoBetter
  <2>4. h \in Route!Candidates(pool) /\ profit[h] \in Route!Outcomes(h) \ {NoRoute}
    BY <1>3, <2>1, SameCandidates
  <2> QED
    BY <1>1, <1>12, <2>3, <2>4 DEF Route!Answer
<1> QED
  BY <1>11, <1>12 DEF Finish

\* Every step of a search is one of BestRoute or leaves its state alone.
LEMMA StepRefines ==
    ASSUME IsFiniteSet(Pools), SearchInv, [Next]_vars
    PROVE  [Route!Next]_(Route!vars)
<1>1. ASSUME NEW p \in Pools, NEW d \in DataOf[p], CacheWrite(p, d)
      PROVE  Route!Write(p, d)
  BY <1>1 DEF CacheWrite, Route!Write, SearchInv, TypeOK
<1>2. ASSUME NEW w \in Wallets \cup {Unknown}, WalletChange(w)
      PROVE  Route!WalletChange
  BY <1>2 DEF WalletChange, Route!WalletChange
<1>3. Route!Affordable <=> Affordable
  BY DEF Route!Affordable, Affordable
<1>4. ASSUME NEW p \in Pools, StartSearch(p)
      PROVE  Route!Begin(p)
  BY <1>3, <1>4, SameCandidates DEF StartSearch, Route!Begin
<1>5. ASSUME NEW p \in Pools, DeclineSearch(p)
      PROVE  Route!Decline(p)
  BY <1>3, <1>5, SameCandidates DEF DeclineSearch, Route!Decline
<1>6. ASSUME \/ QuoteShared \/ PositiveDone
             \/ \E h \in Paths : QuotePositive(h) \/ QuoteReverseFirst(h) \/ QuoteReverseSecond(h)
      PROVE  UNCHANGED Route!vars
  <2>1. /\ UNCHANGED <<cache, wallet, pool, window, answer>>
        /\ phase # "idle" /\ phase' # "idle"
    BY <1>6 DEF QuoteShared, PositiveDone, QuotePositive, QuoteReverseFirst, QuoteReverseSecond, qvars
  <2> QED
    BY <2>1 DEF Route!vars
<1>7. ASSUME UNCHANGED vars PROVE UNCHANGED Route!vars
  BY <1>7 DEF vars, Route!vars
<1>8. CASE Finish
  BY <1>8, FinishAnswers DEF Route!Next
<1> QED
  BY <1>1, <1>2, <1>4, <1>5, <1>6, <1>7, <1>8 DEF Next, SearchStep, Route!Next

\* With finitely many pools, whatever they are, however they quote and however
\* often the cache changes meanwhile, a search of find_best_hop_path answers
\* with a best route of those its two groups had, and with none only if each
\* path had nothing to gain: the safety part of BestRoute.
THEOREM SearchesAreBest ==
    ASSUME IsFiniteSet(Pools)
    PROVE  Spec => Route!Init /\ [][Route!Next]_(Route!vars)
<1>1. Init => Route!Init
  BY DEF Init, Route!Init, Route!Data, Data
<1>2. SearchInv /\ [Next]_vars => [Route!Next]_(Route!vars)
  BY StepRefines
<1> QED
  BY <1>1, <1>2, SearchInvariant, PTL DEF Spec
=============================================================================
