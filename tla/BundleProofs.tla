----------------------------- MODULE BundleProofs -----------------------------
(***************************************************************************)
(* The money of the wallet for every number of Arbs, token accounts, url   *)
(* groups, bundles, failures and blocks: no landed bundle makes the wallet *)
(* poorer, every bundle has its token accounts, and the share one trade    *)
(* may use covers the amount of every bundle on its way.                   *)
(***************************************************************************)
EXTENDS Bundle, SequenceTheorems, FiniteSetTheorems, TLAPS

USE BundleAssumption

\* A bundle insists on the amount, the tip it pays and the fee, and has its
\* token accounts.
Sound(b) ==
    /\ b.quotedOut = AmountIn + b.tip + Fee
    /\ b.atas \subseteq onchain \cup b.creates

\* What the wallet map and its refresh under way may show: accounts that exist
\* and amounts that, but for the rent, the wallet still has.
MapInv ==
    /\ known \subseteq onchain
    /\ \A a \in Atas : fetched[a] = "found" => a \in onchain
    /\ amount <= tokens + Rent
    /\ seen <= tokens + Rent

\* The share of these lamports covers the amount of a trade.
Covers(lamports) == lamports * Numerator >= AmountIn * Denominator

\* The share covers the amount of an Arb past the search, and of a bundle sent.
JobInv ==
    /\ \A r \in Arbs : apc[r] \in {"tip", "swap", "sign", "send"} => Covers(tokens + Rent)
    /\ \A r \in Arbs : apc[r] \in {"sign", "send"} => Sound(job[r])
    /\ \A b \in bundles : Covers(tokens + Rent) /\ Sound(b)

MoneyInv == TypeOK /\ MapInv /\ JobInv

-----------------------------------------------------------------------------
(* Arithmetic *)

\* What the check of the search says of the cached amount.
LEMMA ShareIs ==
    ASSUME NEW x \in Nat, (x * Numerator) \div Denominator >= AmountIn
    PROVE  Covers(x)
<1>1. x * Numerator \in Nat
  OBVIOUS
<1> QED
  BY <1>1 DEF Covers

\* The share of more lamports covers what the share of fewer covers.
LEMMA ShareGrows ==
    ASSUME NEW x \in Nat, NEW y \in Nat, x <= y, Covers(x)
    PROVE  Covers(y)
<1>1. PICK k \in Nat : y = x + k
  BY y - x \in Nat
<1>2. y * Numerator = x * Numerator + k * Numerator
  BY <1>1
<1>3. /\ x * Numerator \in Nat /\ k * Numerator \in Nat /\ y * Numerator \in Nat
      /\ AmountIn * Denominator \in Nat
  OBVIOUS
<1> QED
  BY <1>2, <1>3 DEF Covers

\* So it goes on covering while tokens come in.
LEMMA LamportsGrow ==
    ASSUME NEW t \in Nat, NEW t2 \in Nat, t2 >= t, Covers(t + Rent)
    PROVE  Covers(t2 + Rent)
<1>1. Rent \in Nat
  OBVIOUS
<1>2. t + Rent \in Nat /\ t2 + Rent \in Nat /\ t + Rent <= t2 + Rent
  BY <1>1
<1> QED
  BY <1>2, ShareGrows

\* Creating accounts moves their rent within the wallet.
LEMMA RentMoves ==
    ASSUME onchain \subseteq Atas, NEW created \in SUBSET Atas, created \cap onchain = {}
    PROVE  /\ Cardinality(created) \in Nat
           /\ Rent * Cardinality(created) \in Nat
           /\ Rent * Cardinality(onchain \cup created)
                = Rent * Cardinality(onchain) + Rent * Cardinality(created)
           /\ Rent * Cardinality(onchain) \in Nat
<1>1. IsFiniteSet(onchain) /\ IsFiniteSet(created)
  BY FS_Subset
<1>2. Cardinality(onchain) \in Nat /\ Cardinality(created) \in Nat
  BY <1>1, FS_CardinalityType
<1>3. Cardinality(onchain \cap created) = 0
  BY FS_EmptySet
<1>4. Cardinality(onchain \cup created) = Cardinality(onchain) + Cardinality(created)
  <2>1. Cardinality(onchain \cup created)
          = Cardinality(onchain) + Cardinality(created) - Cardinality(onchain \cap created)
    BY <1>1, FS_Union, Zenon
  <2> QED
    BY <2>1, <1>2, <1>3
<1>5. \A m, n \in Nat : Rent * (m + n) = Rent * m + Rent * n /\ Rent * m \in Nat
  OBVIOUS
<1> QED
  BY <1>2, <1>4, <1>5

\* A swap that returns at least the quoted output does not cost tokens.
LEMMA SwapPays ==
    ASSUME NEW t \in Nat, NEW tipped \in Nat, NEW extra \in 0..MaxExtra, NEW quoted,
           quoted = AmountIn + tipped + Fee
    PROVE  /\ t - AmountIn + quoted + extra \in Nat
           /\ t - AmountIn + quoted + extra >= t + tipped + Fee
<1>1. extra \in Nat
  OBVIOUS
<1>2. AmountIn \in Nat /\ Fee \in Nat
  OBVIOUS
<1> QED
  BY <1>1, <1>2

LEMMA WealthSum ==
    ASSUME NEW t \in Nat, NEW t2 \in Nat, NEW n \in Nat, NEW tipped \in Nat, NEW fee \in Nat,
           NEW rents \in Nat, NEW held \in Nat, t2 >= t + tipped + fee
    PROVE  t2 + (n - (tipped + fee + rents)) + (held + rents) >= t + n + held
  OBVIOUS

LEMMA BoundKept ==
    ASSUME NEW a \in Nat, NEW t \in Nat, NEW t2 \in Nat, t2 >= t, a =< t + Rent
    PROVE  a =< t2 + Rent
<1>1. Rent \in Nat
  OBVIOUS
<1> QED
  BY <1>1

LEMMA CostCovered ==
    ASSUME NEW n \in Nat, NEW tipped \in Nat, NEW rents \in Nat, n >= tipped + Fee + rents
    PROVE  n - (tipped + Fee + rents) \in Nat
<1>1. Fee \in Nat
  OBVIOUS
<1> QED
  BY <1>1

\* The url group picked exists.
LEMMA GroupExists ==
    ASSUME counter \in Nat
    PROVE  NextGroup \in DOMAIN UrlGroups /\ UrlGroups[NextGroup] \subseteq UNION ToSet(UrlGroups)
<1>1. Len(UrlGroups) \in Nat \ {0} /\ DOMAIN UrlGroups = 1..Len(UrlGroups)
  BY LenProperties
<1>2. counter % Len(UrlGroups) \in 0..(Len(UrlGroups) - 1)
  BY <1>1
<1>3. NextGroup \in DOMAIN UrlGroups
  BY <1>1, <1>2 DEF NextGroup
<1>4. UrlGroups[NextGroup] \in ToSet(UrlGroups)
  BY <1>3 DEF ToSet
<1> QED
  BY <1>3, <1>4

-----------------------------------------------------------------------------
(* The invariant *)

\* While tokens and accounts only grow, what was paid for stays paid for.
LEMMA JobsKept ==
    ASSUME TypeOK, JobInv, tokens' \in Nat, tokens' >= tokens, onchain \subseteq onchain',
           apc' = apc, job' = job, bundles' \subseteq bundles
    PROVE  JobInv'
<1>1. Covers(tokens + Rent) => Covers(tokens' + Rent)
  BY LamportsGrow DEF TypeOK
<1>2. ASSUME NEW r \in Arbs, Sound(job[r]) PROVE Sound(job[r])'
  BY <1>2, Zenon DEF Sound
<1>3. ASSUME NEW b \in bundles, Sound(b) PROVE Sound(b)'
  BY <1>3, Zenon DEF Sound
<1>4. \A r \in Arbs : apc'[r] \in {"tip", "swap", "sign", "send"} => Covers(tokens' + Rent)
  BY <1>1 DEF JobInv
<1>5. \A r \in Arbs : apc'[r] \in {"sign", "send"} => Sound(job[r])'
  BY <1>2 DEF JobInv
<1>6. \A b \in bundles' : Covers(tokens' + Rent) /\ Sound(b)'
  BY <1>1, <1>3 DEF JobInv
<1> QED
  BY <1>4, <1>5, <1>6 DEF JobInv, Covers

LEMMA MoneyInit == Init => MoneyInv
<1> SUFFICES ASSUME Init PROVE MoneyInv
  OBVIOUS
<1>1. tip \in Nat /\ tokens \in Nat /\ NoJob \in Jobs
  BY DEF Init, NoJob, Jobs
<1>2. TypeOK
  BY <1>1 DEF Init, TypeOK, Steps, Lamports
<1>3. MapInv /\ JobInv
  BY <1>1 DEF Init, MapInv, JobInv, Lamports
<1> QED
  BY <1>2, <1>3 DEF MoneyInv

LEMMA MoneyStep == MoneyInv /\ [Next]_vars => MoneyInv'
<1> SUFFICES ASSUME MoneyInv, [Next]_vars PROVE MoneyInv'
  OBVIOUS
<1> USE DEF MoneyInv
<1>1. ASSUME NEW a \in Atas, WalletFetch(a) PROVE MoneyInv'
  <2>1. TypeOK'
    <3>0. /\ fetched \in [Atas -> {"todo", "found", "none"}]
          /\ seen \in Nat /\ failures \in 0..MaxFailures
          /\ MaxFailures \in Nat /\ Lamports \in Nat
      BY DEF TypeOK, Lamports
    <3>1. /\ fetched' \in [Atas -> {"todo", "found", "none"}]
          /\ seen' \in Nat /\ failures' \in 0..MaxFailures
      <4> HIDE DEF MoneyInv
      <4> QED
        BY <1>1, <3>0 DEF WalletFetch
    <3>2. UNCHANGED <<tokens, native, onchain, height, known, amount, tip, hash, apc, job,
                      counter, waiting, responses, reported, bundles, sent>>
      BY <1>1 DEF WalletFetch, chain, posting
    <3> QED
      BY <3>1, <3>2, SMTT(30) DEF TypeOK
  <2>2. MapInv'
    BY <1>1, SMTT(30) DEF WalletFetch, TypeOK, MapInv, chain, posting, Lamports
  <2>3. JobInv'
    BY <1>1, JobsKept DEF WalletFetch, chain, posting, TypeOK
  <2> QED
    BY <2>1, <2>2, <2>3
<1>2. CASE WalletReplace
  <2>1. TypeOK'
    BY <1>2 DEF WalletReplace, TypeOK, chain, posting
  <2>2. MapInv'
    BY <1>2 DEF WalletReplace, TypeOK, MapInv, chain, posting
  <2>3. JobInv'
    BY <1>2, JobsKept DEF WalletReplace, chain, posting, TypeOK
  <2> QED
    BY <2>1, <2>2, <2>3
<1>3. ASSUME NEW t \in Tips, TipRefresh(t) PROVE MoneyInv'
  <2>1. TypeOK' /\ MapInv'
    <3>1. TypeOK'
      BY <1>3, SMTT(30) DEF TipRefresh, TypeOK, chain, posting
    <3>2. MapInv'
      BY <1>3, SMTT(30) DEF TipRefresh, TypeOK, MapInv, chain, posting
    <3> QED
      BY <3>1, <3>2
  <2>2. JobInv'
    BY <1>3, JobsKept DEF TipRefresh, chain, posting, TypeOK
  <2> QED
    BY <2>1, <2>2
<1>4. CASE BlockhashRefresh
  <2>1. TypeOK' /\ MapInv'
    <3>1. TypeOK'
      BY <1>4, SMTT(30) DEF BlockhashRefresh, TypeOK, chain, posting
    <3>2. MapInv'
      BY <1>4, SMTT(30) DEF BlockhashRefresh, TypeOK, MapInv, chain, posting
    <3> QED
      BY <3>1, <3>2
  <2>2. JobInv'
    BY <1>4, JobsKept DEF BlockhashRefresh, chain, posting, TypeOK
  <2> QED
    BY <2>1, <2>2
<1>5. ASSUME NEW r \in Arbs, NEW atas \in SUBSET Atas, RouteFound(r, atas) PROVE MoneyInv'
  <2>1. [NoJob EXCEPT !.atas = atas] \in Jobs
    BY DEF NoJob, Jobs
  <2>2. TypeOK' /\ MapInv'
    <3>1. TypeOK'
      BY <1>5, <2>1, SMTT(30) DEF RouteFound, TypeOK, chain, cached, posting, Steps
    <3>2. MapInv'
      BY <1>5, <2>1, SMTT(30) DEF RouteFound, TypeOK, MapInv, chain, cached, posting, Steps
    <3> QED
      BY <3>1, <3>2
  <2>3. Covers(tokens + Rent)
    <3>1. Covers(amount)
      BY <1>5, ShareIs DEF RouteFound, Affordable, TypeOK
    <3>2. amount \in Nat /\ tokens + Rent \in Nat /\ amount <= tokens + Rent
      BY DEF MapInv, TypeOK
    <3> QED
      BY <3>1, <3>2, ShareGrows
  <2>4. JobInv'
    BY <1>5, <2>3 DEF RouteFound, JobInv, Sound, Covers, TypeOK, chain, posting
  <2> QED
    BY <2>2, <2>4
<1>6. ASSUME NEW r \in Arbs, ReadTip(r) PROVE MoneyInv'
  <2>1. job'[r] \in Jobs
    <3>1. job[r] \in Jobs /\ tip \in Nat /\ job'[r] = [job[r] EXCEPT !.tip = tip]
      BY <1>6 DEF ReadTip, TypeOK
    <3> QED
      BY <3>1 DEF Jobs
  <2>2. TypeOK' /\ MapInv'
    <3>1. TypeOK'
      BY <1>6, <2>1, SMTT(30) DEF ReadTip, TypeOK, chain, cached, posting, Steps
    <3>2. MapInv'
      BY <1>6, <2>1, SMTT(30) DEF ReadTip, TypeOK, MapInv, chain, cached, posting, Steps
    <3> QED
      BY <3>1, <3>2
  <2>3. JobInv'
    BY <1>6 DEF ReadTip, JobInv, Sound, Covers, TypeOK, chain, posting
  <2> QED
    BY <2>2, <2>3
<1>7. ASSUME NEW r \in Arbs, BuildSwap(r) PROVE MoneyInv'
  <2>1. CASE /\ job' = [job EXCEPT ![r].creates = job[r].atas \ known,
                                   ![r].quotedOut = QuotedOut(r)]
             /\ apc' = [apc EXCEPT ![r] = "sign"]
             /\ UNCHANGED reported
    <3>1. /\ job[r] \in Jobs
          /\ job'[r] = [job[r] EXCEPT !.creates = job[r].atas \ known, !.quotedOut = QuotedOut(r)]
          /\ \A q \in Arbs \ {r} : job'[q] = job[q]
      BY <2>1 DEF TypeOK
    <3>2. QuotedOut(r) \in Nat
      <4> HIDE DEF MoneyInv
      <4>1. job[r].tip \in Nat
        BY <3>1 DEF Jobs
      <4>2. AmountIn \in Nat /\ Fee \in Nat
        OBVIOUS
      <4> QED
        BY <4>1, <4>2, SMTT(30) DEF QuotedOut
    <3>3. job'[r] \in Jobs
      BY <3>1, <3>2 DEF Jobs
    <3>4. job' \in [Arbs -> Jobs]
      BY <2>1, <3>1, <3>3 DEF TypeOK
    <3>5. Sound(job'[r])
      BY <3>1 DEF Sound, QuotedOut, Jobs, MapInv
    <3>6. TypeOK' /\ MapInv'
      <4>1. TypeOK'
        BY <1>7, <2>1, <3>4, SMTT(30) DEF BuildSwap, TypeOK, chain, cached, Steps
      <4>2. MapInv'
        BY <1>7, <2>1, <3>4, SMTT(30) DEF BuildSwap, TypeOK, MapInv, chain, cached, Steps
      <4> QED
        BY <4>1, <4>2
    <3>7. JobInv'
      BY <1>7, <2>1, <3>1, <3>5 DEF BuildSwap, JobInv, Sound, Covers, TypeOK, chain
    <3> QED
      BY <3>6, <3>7
  <2>2. CASE /\ apc' = [apc EXCEPT ![r] = "idle"]
             /\ reported' = [reported EXCEPT ![r] = "failed"]
             /\ job' = [job EXCEPT ![r] = NoJob]
    <3>1. NoJob \in Jobs
      BY DEF NoJob, Jobs
    <3>2. TypeOK' /\ MapInv'
      <4>1. TypeOK'
        BY <1>7, <2>2, <3>1, SMTT(30) DEF BuildSwap, TypeOK, chain, cached, Steps
      <4>2. MapInv'
        BY <1>7, <2>2, <3>1, SMTT(30) DEF BuildSwap, TypeOK, MapInv, chain, cached, Steps
      <4> QED
        BY <4>1, <4>2
    <3>3. JobInv'
      BY <1>7, <2>2 DEF BuildSwap, JobInv, Sound, Covers, TypeOK, chain
    <3> QED
      BY <3>2, <3>3
  <2> QED
    BY <1>7, <2>1, <2>2 DEF BuildSwap
<1>8. ASSUME NEW r \in Arbs, Sign(r) PROVE MoneyInv'
  <2>1. CASE /\ job' = [job EXCEPT ![r].hash = hash]
             /\ apc' = [apc EXCEPT ![r] = "send"]
             /\ UNCHANGED reported
    <3>1. /\ job'[r] \in Jobs
          /\ job'[r].atas = job[r].atas /\ job'[r].creates = job[r].creates
          /\ job'[r].tip = job[r].tip /\ job'[r].quotedOut = job[r].quotedOut
          /\ \A q \in Arbs \ {r} : job'[q] = job[q]
      <4>1. /\ job[r] \in Jobs /\ hash \in Nat /\ job'[r] = [job[r] EXCEPT !.hash = hash]
            /\ \A q \in Arbs \ {r} : job'[q] = job[q]
        BY <2>1 DEF TypeOK
      <4> QED
        BY <4>1 DEF Jobs
    <3>2. TypeOK'
      BY <1>8, <2>1, <3>1, SMTT(30) DEF Sign, TypeOK, chain, cached, Steps
    <3>3. MapInv'
      BY <1>8, SMTT(30) DEF Sign, TypeOK, MapInv, chain, cached
    <3>4. Sound(job'[r])
      BY <1>8, <3>1 DEF Sign, JobInv, Sound
    <3>5. JobInv'
      BY <1>8, <2>1, <3>1, <3>4 DEF Sign, JobInv, Sound, Covers, TypeOK, chain
    <3> QED
      BY <3>2, <3>3, <3>5
  <2>2. CASE /\ apc' = [apc EXCEPT ![r] = "idle"]
             /\ reported' = [reported EXCEPT ![r] = "failed"]
             /\ job' = [job EXCEPT ![r] = NoJob]
    <3>1. NoJob \in Jobs
      BY DEF NoJob, Jobs
    <3>2. TypeOK'
      BY <1>8, <2>2, <3>1, SMTT(30) DEF Sign, TypeOK, chain, cached, Steps
    <3>3. MapInv'
      BY <1>8, SMTT(30) DEF Sign, TypeOK, MapInv, chain, cached
    <3>4. JobInv'
      BY <1>8, <2>2 DEF Sign, JobInv, Sound, Covers, TypeOK, chain
    <3> QED
      BY <3>2, <3>3, <3>4
  <2> QED
    BY <1>8, <2>1, <2>2 DEF Sign
<1>9. ASSUME NEW r \in Arbs, Send(r) PROVE MoneyInv'
  <2>1. NextGroup \in DOMAIN UrlGroups /\ UrlGroups[NextGroup] \subseteq UNION ToSet(UrlGroups)
    BY GroupExists DEF TypeOK
  <2>2. NoJob \in Jobs /\ <<>> \in Seq({"id", "error"})
    BY DEF NoJob, Jobs
  <2>3. TypeOK'
    BY <1>9, <2>1, <2>2 DEF Send, TypeOK, chain, cached, Steps
  <2>4. MapInv'
    BY <1>9 DEF Send, MapInv, chain, cached
  <2>5. JobInv'
    BY <1>9 DEF Send, JobInv, Sound, Covers, TypeOK, chain
  <2> QED
    BY <2>3, <2>4, <2>5
<1>10. ASSUME NEW r \in Arbs, NEW url \in waiting[r], NEW response \in {"id", "error"},
              Respond(r, url, response)
       PROVE  MoneyInv'
  <2>1. Append(responses[r], response) \in Seq({"id", "error"})
    BY AppendProperties DEF TypeOK
  <2>2. TypeOK'
    BY <1>10, <2>1 DEF Respond, TypeOK, chain, cached
  <2>3. MapInv'
    BY <1>10 DEF Respond, MapInv, chain, cached
  <2>4. JobInv'
    BY <1>10, JobsKept DEF Respond, chain, TypeOK
  <2> QED
    BY <2>2, <2>3, <2>4
<1>11. ASSUME NEW r \in Arbs, Report(r) PROVE MoneyInv'
  <2>1. TypeOK' /\ MapInv'
    <3>1. TypeOK'
      BY <1>11, SMTT(30) DEF Report, TypeOK, Reported, chain, cached, Steps
    <3>2. MapInv'
      BY <1>11, SMTT(30) DEF Report, TypeOK, MapInv, Reported, chain, cached, Steps
    <3> QED
      BY <3>1, <3>2
  <2>2. JobInv'
    BY <1>11 DEF Report, JobInv, Sound, Covers, TypeOK, chain
  <2> QED
    BY <2>1, <2>2
<1>12. CASE NewBlock
  <2>1. TypeOK' /\ MapInv'
    <3>1. TypeOK'
      BY <1>12, SMTT(30) DEF NewBlock, TypeOK, cached, posting
    <3>2. MapInv'
      BY <1>12, SMTT(30) DEF NewBlock, TypeOK, MapInv, cached, posting
    <3> QED
      BY <3>1, <3>2
  <2>2. JobInv'
    BY <1>12, JobsKept DEF NewBlock, cached, posting, TypeOK
  <2> QED
    BY <2>1, <2>2
<1>13. ASSUME NEW b \in bundles, NEW extra \in 0..MaxExtra, Land(b, extra) PROVE MoneyInv'
  <2> DEFINE created == b.creates \ onchain
  <2>1. b.tip \in Nat /\ b.quotedOut = AmountIn + b.tip + Fee /\ created \in SUBSET Atas
    BY DEF TypeOK, JobInv, Sound, Jobs
  <2>2. Rent * Cardinality(created) \in Nat
    BY <2>1, RentMoves DEF TypeOK
  <2>9. /\ native >= b.tip + Fee + Rent * Cardinality(created)
        /\ native' = native - (b.tip + Fee + Rent * Cardinality(created))
        /\ tokens' = tokens - AmountIn + b.quotedOut + extra
    BY <1>13 DEF Land
  <2>3. native' \in Nat
    <3> HIDE DEF created
    <3>1. native \in Nat
      BY DEF TypeOK
    <3> QED
      BY <3>1, <2>1, <2>2, <2>9, CostCovered
  <2>4. tokens' \in Nat /\ tokens' >= tokens
    <3>1. tokens \in Nat
      BY DEF TypeOK
    <3>2. tokens' \in Nat /\ tokens' >= tokens + b.tip + Fee
      BY <3>1, <2>1, <2>9, SwapPays
    <3>3. Fee \in Nat
      OBVIOUS
    <3> QED
      BY <3>1, <3>2, <3>3, <2>1, SMTT(30)
  <2>5. onchain' = onchain \cup created /\ bundles' \subseteq bundles
    BY <1>13 DEF Land
  <2>6. TypeOK'
    BY <1>13, <2>1, <2>3, <2>4, <2>5 DEF Land, TypeOK, cached
  <2>7. MapInv'
    <3>1. UNCHANGED <<known, fetched, amount, seen>>
      BY <1>13 DEF Land, cached
    <3>2. tokens \in Nat /\ amount \in Nat /\ seen \in Nat
      BY DEF TypeOK
    <3>3. amount =< tokens' + Rent /\ seen =< tokens' + Rent
      <4>1. amount =< tokens + Rent /\ seen =< tokens + Rent
        BY DEF MapInv
      <4> HIDE DEF MoneyInv
      <4> QED
        BY <2>4, <3>2, <4>1, BoundKept
    <3> QED
      BY <2>5, <3>1, <3>3 DEF MapInv
  <2>8. JobInv'
    BY <1>13, <2>4, <2>5, JobsKept DEF Land, cached
  <2> QED
    BY <2>6, <2>7, <2>8
<1>14. CASE UNCHANGED vars
  <2>1. TypeOK' /\ MapInv'
    <3>1. TypeOK'
      BY <1>14, SMTT(30) DEF vars, TypeOK
    <3>2. MapInv'
      BY <1>14, SMTT(30) DEF vars, TypeOK, MapInv
    <3> QED
      BY <3>1, <3>2
  <2>2. JobInv'
    BY <1>14, JobsKept DEF vars, TypeOK
  <2> QED
    BY <2>1, <2>2
<1> QED
  BY <1>1, <1>2, <1>3, <1>4, <1>5, <1>6, <1>7, <1>8, <1>9, <1>10, <1>11, <1>12, <1>13, <1>14
     DEF Next, WalletTask, ArbStep

\* MoneyInv holds in every reachable state.
THEOREM MoneyInvariant == Spec => []MoneyInv
<1>1. Init => MoneyInv
  BY MoneyInit
<1>2. MoneyInv /\ [Next]_vars => MoneyInv'
  BY MoneyStep
<1> QED
  BY <1>1, <1>2, PTL DEF Spec

\* Types of the variables, for any number of Arbs and url groups; an Arb waits
\* for regions only while it is posting.
THEOREM BundleTypes == Spec => []TypeOK
<1>1. MoneyInv => TypeOK
  BY DEF MoneyInv
<1> QED
  BY <1>1, MoneyInvariant, PTL

\* remove_already_ata never leaves out an account a bundle needs, however the
\* wallet map is refreshed.
THEOREM AtasAlwaysReady == Spec => []AtasReady
<1>1. MoneyInv => AtasReady
  BY DEF MoneyInv, JobInv, Sound, AtasReady
<1> QED
  BY <1>1, MoneyInvariant, PTL

\* For every share and amount: what trigger_quote checked of the cached lamports
\* is still true of the account's while the bundle is on its way.
THEOREM ShareKeepsCovering == Spec => []ShareStillCovers
<1>1. MoneyInv => ShareStillCovers
  BY DEF MoneyInv, JobInv, Covers, Lamports, ShareStillCovers
<1> QED
  BY <1>1, MoneyInvariant, PTL

LEMMA WealthStep == MoneyInv /\ [Next]_vars => [Wealth' >= Wealth]_vars
<1> SUFFICES ASSUME MoneyInv, [Next]_vars, vars' # vars PROVE Wealth' >= Wealth
  OBVIOUS
<1>1. Wealth \in Int
  <2>1. Rent * Cardinality(onchain) \in Nat
    <3>1. onchain \subseteq Atas /\ {} \in SUBSET Atas /\ {} \cap onchain = {}
      BY DEF MoneyInv, TypeOK
    <3> QED
      BY <3>1, RentMoves
  <2> QED
    BY <2>1 DEF Wealth, MoneyInv, TypeOK
<1>2. ASSUME NEW b \in bundles, NEW extra \in 0..MaxExtra, Land(b, extra)
      PROVE  Wealth' >= Wealth
  <2> DEFINE created == b.creates \ onchain
  <2>1. b.tip \in Nat /\ b.quotedOut = AmountIn + b.tip + Fee /\ created \in SUBSET Atas
    BY DEF MoneyInv, TypeOK, JobInv, Sound, Jobs
  <2>2. /\ Rent * Cardinality(created) \in Nat
        /\ Rent * Cardinality(onchain \cup created)
             = Rent * Cardinality(onchain) + Rent * Cardinality(created)
        /\ Rent * Cardinality(onchain) \in Nat
    BY <2>1, RentMoves DEF MoneyInv, TypeOK
  <2>3. /\ tokens' = tokens - AmountIn + b.quotedOut + extra
        /\ native' = native - (b.tip + Fee + Rent * Cardinality(created))
        /\ onchain' = onchain \cup created
    BY <1>2 DEF Land
  <2> HIDE DEF created
  <2>4. Rent * Cardinality(onchain') = Rent * Cardinality(onchain) + Rent * Cardinality(created)
    BY <2>2, <2>3
  <2>5. Rent * Cardinality(onchain') \in Nat
    BY <2>2, <2>4
  <2>6. tokens \in Nat /\ native \in Nat
    BY DEF MoneyInv, TypeOK
  <2>7. tokens' \in Nat /\ tokens' >= tokens + b.tip + Fee
    BY <2>6, <2>1, <2>3, SwapPays
  <2>8. Fee \in Nat
    OBVIOUS
  <2>9. Wealth' = tokens' + (native - (b.tip + Fee + Rent * Cardinality(created)))
                    + (Rent * Cardinality(onchain) + Rent * Cardinality(created))
    BY <2>3, <2>4 DEF Wealth
  <2>10. Wealth = tokens + native + Rent * Cardinality(onchain)
    BY DEF Wealth
  <2> QED
    BY <2>1, <2>2, <2>6, <2>7, <2>8, <2>9, <2>10, WealthSum
<1>3. CASE ~(\E b \in bundles, extra \in 0..MaxExtra : Land(b, extra))
  <2>1. tokens' = tokens /\ native' = native /\ onchain' = onchain
    <3>1. CASE WalletTask
      BY <3>1 DEF WalletTask, WalletFetch, WalletReplace, chain
    <3>2. ASSUME NEW t \in Tips, TipRefresh(t)
          PROVE  tokens' = tokens /\ native' = native /\ onchain' = onchain
      BY <3>2 DEF TipRefresh, chain
    <3>3. CASE BlockhashRefresh
      BY <3>3 DEF BlockhashRefresh, chain
    <3>4. ASSUME NEW r \in Arbs, NEW atas, RouteFound(r, atas)
          PROVE  tokens' = tokens /\ native' = native /\ onchain' = onchain
      BY <3>4 DEF RouteFound, chain
    <3>5. ASSUME NEW r \in Arbs, ArbStep(r)
          PROVE  tokens' = tokens /\ native' = native /\ onchain' = onchain
      BY <3>5 DEF ArbStep, ReadTip, BuildSwap, Sign, Send, Respond, Report, chain
    <3>6. CASE NewBlock
      BY <3>6 DEF NewBlock
    <3> QED
      BY <1>3, <3>1, <3>2, <3>3, <3>4, <3>5, <3>6 DEF Next, vars
  <2> QED
    BY <1>1, <2>1 DEF Wealth
<1> QED
  BY <1>2, <1>3

\* create_jito_bundle never loses money: what a landed bundle brings in covers
\* what it costs, for every tip, fee, rent and interleaving.
THEOREM WealthIsSafe == Spec => WealthNeverFalls
<1>1. MoneyInv /\ [Next]_vars => [Wealth' >= Wealth]_vars
  BY WealthStep
<1> QED
  BY <1>1, MoneyInvariant, PTL DEF Spec, WealthNeverFalls

LEMMA ReportStep ==
    ASSUME TypeOK, AcceptedIsReported, [Next]_vars
    PROVE  AcceptedIsReported'
<1> SUFFICES ASSUME NEW r \in Arbs, apc'[r] = "idle", reported'[r] # "failed",
                    "id" \in ToSet(responses'[r])
             PROVE  reported'[r] = "id"
  BY DEF AcceptedIsReported
<1>1. /\ apc \in [Arbs -> Steps] /\ reported \in [Arbs -> {"nothing", "failed", "id", "error"}]
      /\ DOMAIN responses = Arbs
  BY DEF TypeOK
<1>2. CASE apc[r] = "idle" /\ responses'[r] = responses[r] /\ reported'[r] = reported[r]
  BY <1>2 DEF AcceptedIsReported
<1>3. CASE Report(r)
  BY <1>1, <1>3 DEF Report, Reported
<1>4. CASE BuildSwap(r) \/ Sign(r)
  BY <1>1, <1>4 DEF BuildSwap, Sign
<1>5. CASE ~(apc[r] = "idle" /\ responses'[r] = responses[r] /\ reported'[r] = reported[r])
  <2>1. ASSUME NEW q \in Arbs, ArbStep(q) PROVE Report(r) \/ BuildSwap(r) \/ Sign(r)
    <3>1. CASE ReadTip(q)
      BY <1>1, <1>5, <3>1 DEF ReadTip, posting
    <3>2. CASE BuildSwap(q)
      BY <1>1, <1>5, <3>2 DEF BuildSwap
    <3>3. CASE Sign(q)
      BY <1>1, <1>5, <3>3 DEF Sign
    <3>4. CASE Send(q)
      BY <1>1, <1>5, <3>4 DEF Send
    <3>5. ASSUME NEW url \in waiting[q], NEW response \in {"id", "error"},
                 Respond(q, url, response)
          PROVE  Report(r)
      BY <1>1, <1>5, <3>5 DEF Respond
    <3>6. CASE Report(q)
      BY <1>1, <1>5, <3>6 DEF Report
    <3> QED
      BY <2>1, <3>1, <3>2, <3>3, <3>4, <3>5, <3>6 DEF ArbStep
  <2>2. ASSUME NEW q \in Arbs, NEW atas \in SUBSET Atas, RouteFound(q, atas) PROVE FALSE
    BY <1>1, <1>5, <2>2 DEF RouteFound, posting
  <2>3. ASSUME \/ WalletTask \/ (\E t \in Tips : TipRefresh(t)) \/ BlockhashRefresh \/ NewBlock
               \/ (\E b \in bundles, extra \in 0..MaxExtra : Land(b, extra)) \/ UNCHANGED vars
        PROVE  FALSE
    <3>1. UNCHANGED <<apc, responses, reported>>
      BY <2>3 DEF WalletTask, WalletFetch, WalletReplace, TipRefresh, BlockhashRefresh, NewBlock,
                  Land, posting, vars
    <3> QED
      BY <1>5, <3>1
  <2> QED
    BY <1>3, <1>4, <2>1, <2>2, <2>3 DEF Next
<1> QED
  BY <1>2, <1>5

\* However the regions answer, in which order and how many of them not at all, a
\* bundle one of them accepted is reported with its id (JitoExecutor::execute).
THEOREM AcceptanceIsReported == Spec => []AcceptedIsReported
<1>1. Init => AcceptedIsReported
  <2>1. ToSet(<<>>) = {}
    BY EmptySeq, LenProperties DEF ToSet
  <2> QED
    BY <2>1 DEF Init, AcceptedIsReported
<1>2. TypeOK /\ AcceptedIsReported /\ [Next]_vars => AcceptedIsReported'
  BY ReportStep
<1> QED
  BY <1>1, <1>2, BundleTypes, PTL DEF Spec
=============================================================================
