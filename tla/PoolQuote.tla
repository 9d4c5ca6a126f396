------------------------------ MODULE PoolQuote ------------------------------
(***************************************************************************)
(* The two hops of a path over constant-product pools, account by account. *)
(* A quote gets the pool, then one vault, then the other from the cache.   *)
(* On chain one transaction writes them together, but their updates are    *)
(* cached one by one, so that a quote may be torn: read from no state the  *)
(* pool ever had.                                                          *)
(*                                                                         *)
(* Both pools list the two mints in the same order.                        *)
(***************************************************************************)
EXTENDS ConstantProduct

CONSTANTS
    Pools,
    Levels,         \* what a side may owe and hold: a set of <<owed, vault>>
    AmountsIn,      \* amounts a search may begin with
    Pending,        \* a hop that has not been quoted
    MaxMoves        \* bound on the transactions that write a pool

ASSUME QuoteAssumption ==
    /\ Levels \subseteq (0..(U64 - 1)) \X (0..(U64 - 1))
    /\ \A l \in Levels : l[1] =< l[2]
    /\ AmountsIn \subseteq 0..(U64 - 1)
    /\ Pending \notin Nat \cup {NoQuote, Abort}
    /\ MaxMoves \in Nat

Hops == {1, 2}
Accounts == {"pool", "vault 0", "vault 1"}

\* What a pool's accounts may say, whatever they are read from.
Amounts == [Sides -> 0..(U64 - 1)]
Readings == [owed : Amounts, vault : Amounts]

StateOf(f) == [owed |-> [k \in Sides |-> f[k][1]], vault |-> [k \in Sides |-> f[k][2]]]

\* States of a pool on chain: it never owes more than its vaults hold, and
\* PumpFun pays its fees in the swap.
Legal(t) ==
    {s \in {StateOf(f) : f \in [Sides -> Levels]} :
        t.dex = "PumpFunAMM" => \A k \in Sides : s.owed[k] = 0}

VARIABLES
    terms,          \* per pool, its static data
    chain,          \* per pool, its state on chain
    cache,          \* per pool, its accounts in the dynamic cache
    path,           \* per hop, its pool
    side,           \* side swapped in by the first hop
    amount_in,      \* amount swapped in by the first hop
    hop,            \* hop being quoted; 3 once both are
    next,           \* account its quote reads next, or "compute"
    held,           \* per hop, what its quote has read
    out,            \* per hop, what its quote returned
    past,           \* history: per pool, its states on chain so far
    moves           \* history: transactions that wrote a pool

pvars == <<terms, path, side, amount_in>>
qvars == <<hop, next, held, out>>
vars == <<terms, chain, cache, path, side, amount_in, hop, next, held, out, past, moves>>

Nothing == [owed |-> [k \in Sides |-> 0], vault |-> [k \in Sides |-> 0]]

\* The static data of PumpFun holds all its quoter needs of the pool account.
FirstRead(t) == IF t.dex = "PumpFunAMM" THEN "vault 0" ELSE "pool"

Init ==
    /\ terms \in [Pools -> Terms]
    /\ chain \in [Pools -> {StateOf(f) : f \in [Sides -> Levels]}]
    /\ \A p \in Pools : chain[p] \in Legal(terms[p])
    /\ cache = chain
    /\ path \in {f \in [Hops -> Pools] : f[1] # f[2]}
    /\ side \in Sides
    /\ amount_in \in AmountsIn
    /\ hop = 1
    /\ next = FirstRead(terms[path[1]])
    /\ held = [h \in Hops |-> Nothing]
    /\ out = [h \in Hops |-> Pending]
    /\ past = [p \in Pools |-> {chain[p]}]
    /\ moves = 0

\* The process has not been ended by a panic.
Alive == \A h \in Hops : out[h] # Abort

SideIn(h) == IF h = 1 THEN side ELSE 1 - side
AmountIn(h) == IF h = 1 THEN amount_in ELSE out[1]

-----------------------------------------------------------------------------
(* Chain and processors *)

\* A swap, a deposit, a withdrawal or a collection of fees.
Move(p) ==
    /\ moves < MaxMoves
    /\ \E s \in Legal(terms[p]) \ {chain[p]} :
         /\ chain' = [chain EXCEPT ![p] = s]
         /\ past' = [past EXCEPT ![p] = @ \cup {s}]
    /\ moves' = moves + 1
    /\ UNCHANGED <<pvars, cache, qvars>>

\* What account a of pool p holds in r, put into s.
WithAccount(s, r, a) ==
    CASE a = "pool" -> [s EXCEPT !.owed = r.owed]
      [] a = "vault 0" -> [s EXCEPT !.vault[0] = r.vault[0]]
      [] a = "vault 1" -> [s EXCEPT !.vault[1] = r.vault[1]]

\* update_cache of one account.
Update(p, a) ==
    /\ cache' = [cache EXCEPT ![p] = WithAccount(@, chain[p], a)]
    /\ cache' # cache
    /\ UNCHANGED <<pvars, chain, qvars, past, moves>>

-----------------------------------------------------------------------------
(* The quotes *)

After(a) ==
    CASE a = "pool" -> "vault 0"
      [] a = "vault 0" -> "vault 1"
      [] a = "vault 1" -> "compute"

\* get_account_data of one account.
Read ==
    /\ hop \in Hops
    /\ next \in Accounts
    /\ held' = [held EXCEPT ![hop] = WithAccount(@, cache[path[hop]], next)]
    /\ next' = After(next)
    /\ UNCHANGED <<pvars, chain, cache, hop, out, past, moves>>

\* Mutant of Compute: the second hop is begun before the first has returned.
ComputeEarly ==
    /\ hop \in Hops
    /\ next = "compute"
    /\ hop' = hop + 1
    /\ out' = IF hop = 1 THEN out
              ELSE [out EXCEPT ![2] = Quote(terms[path[2]], held[2], 1 - side, AmountIn(2))]
    /\ next' = FirstRead(terms[path[2]])
    /\ UNCHANGED <<pvars, chain, cache, held, past, moves>>

\* The second hop is quoted with what the first one returned, if anything.
Compute ==
    /\ hop \in Hops
    /\ next = "compute"
    /\ LET amount_out == Quote(terms[path[hop]], held[hop], SideIn(hop), AmountIn(hop))
       IN  /\ out' = [out EXCEPT ![hop] = amount_out]
           /\ hop' = IF amount_out \in Nat THEN hop + 1 ELSE 3
    /\ next' = FirstRead(terms[path[2]])
    /\ UNCHANGED <<pvars, chain, cache, held, past, moves>>

Next ==
    /\ Alive
    /\ \/ \E p \in Pools : Move(p)
       \/ \E p \in Pools, a \in Accounts : Update(p, a)
       \/ Read
       \/ Compute

Spec == Init /\ [][Next]_vars

-----------------------------------------------------------------------------
(* Properties *)

\* Amounts are u64 and the accounts of a quote are read in turn.
TypeOK ==
    /\ terms \in [Pools -> Terms]
    /\ chain \in [Pools -> Readings]
    /\ \A p \in Pools : chain[p] \in Legal(terms[p])
    /\ cache \in [Pools -> Readings]
    /\ path \in [Hops -> Pools] /\ path[1] # path[2]
    /\ side \in Sides
    /\ amount_in \in 0..(U64 - 1)
    /\ hop \in 1..3
    /\ next \in Accounts \cup {"compute"}
    /\ held \in [Hops -> Readings]
    /\ out \in [Hops -> 0..(U64 - 1) \cup {NoQuote, Abort, Pending}]
    /\ hop = 2 => out[1] \in Nat
    /\ \A h \in Hops : h >= hop => out[h] = Pending
    /\ past \in [Pools -> SUBSET Readings]
    /\ \A p \in Pools : past[p] \subseteq Legal(terms[p])
    /\ moves \in 0..MaxMoves

\* What was read for a hop is a state its pool had on chain.
Untorn(h) == held[h] \in past[path[h]]

Reserve(h, k) == held[h].vault[k] - held[h].owed[k]
ReserveIn(h) == Reserve(h, SideIn(h))
ReserveOut(h) == Reserve(h, 1 - SideIn(h))

\* "Constant product swap ensures x * y = constant": a quote that is not torn
\* leaves the product of the reserves at least what it was, whatever the fees
\* and roundings.
ProductIsKept ==
    \A h \in Hops :
        out[h] \in Nat /\ Untorn(h) =>
            (ReserveIn(h) + AmountIn(h)) * (ReserveOut(h) - out[h])
                >= ReserveIn(h) * ReserveOut(h)

\* The process is ended by a panic in a quoter only over a torn read or a pool
\* with nothing to swap against.
PanicsOnlyIfTornOrEmpty ==
    \A h \in Hops : out[h] = Abort /\ Untorn(h) => ReserveIn(h) = 0

\* Two hops return more than went in only if the first pool pays more for the
\* token in than the second one: no rounding, fee or wrong side makes up a
\* profit between pools of equal prices.
NoPhantomArbitrage ==
    /\ hop = 3 /\ out[2] \in Nat /\ out[2] > amount_in
    /\ Untorn(1) /\ Untorn(2)
    => ReserveOut(1) * ReserveOut(2) > ReserveIn(1) * ReserveIn(2)

=============================================================================
