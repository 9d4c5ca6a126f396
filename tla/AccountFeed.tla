---------------------------- MODULE AccountFeed ----------------------------
(***************************************************************************)
(* What the stream's messages mean to the bot.  init_account_relations     *)
(* turns the dex json into a map from accounts to pools; with it an        *)
(* account update that is subscribed to is classified, sliced and put into  *)
(* the dynamic cache, and the token balances of a transaction are turned   *)
(* into the vault changes that start a search.                             *)
(***************************************************************************)
EXTENDS Integers, Sequences, FiniteSets

CONSTANTS
    Pools,          \* pools on chain
    Deployments,    \* the DEXes the pools may belong to: functions from Pools
    RoleLists,      \* what a DEX may list of an entry for the subscription: roles
    KeyLists,       \* account keys of the transactions
    Pairs,          \* balances an account may have before and after one
    Absent,         \* no entry in the list of balances
    Unset,          \* an entry without ui_token_amount
    Grain,          \* raw amounts that share one f64 ui amount
    None,
    MaxMessages     \* bound on the messages handled

Dexes == {"MeteoraDLMM", "MeteoraDAMMV2", "OrcaWhirl", "PumpFunAMM",
          "RaydiumAMM", "RaydiumCLMM", "RaydiumCPMM"}

\* The account a DEX derives from the pool, and the arrays it keeps per pool.
ExtraType == [d \in {"MeteoraDLMM", "OrcaWhirl", "RaydiumCLMM"} |->
                CASE d = "MeteoraDLMM" -> "BinArrayBitmap"
                  [] d = "OrcaWhirl" -> "Oracle"
                  [] d = "RaydiumCLMM" -> "TickArrayBitmap"]

ArrayType == [d \in {"MeteoraDLMM", "OrcaWhirl", "RaydiumCLMM"} |->
                IF d = "MeteoraDLMM" THEN "BinArray" ELSE "TickArray"]

Roles == {"pool", "vault_a", "vault_b", "config", "extra", "arrays"}
Clock == <<"clock", None>>
Accounts == (Roles \X Pools) \cup {Clock}

Amounts == Nat \cup {Absent, Unset}

\* BalanceChangeInfo.
Changes == [dex_type : Dexes, pool_id : Pools, account_index : Nat, vault_account : Accounts,
            post_account : Nat, change_value : Int]

\* The last three conjuncts only keep apart what the model gives a name of its own.
ASSUME FeedAssumption ==
    /\ Deployments \subseteq [Pools -> Dexes]
    /\ RoleLists \subseteq SUBSET (Roles \cup {"clock"})
    /\ KeyLists \subseteq Seq(Accounts)
    /\ Pairs \subseteq Amounts \X Amounts
    /\ Grain \in Nat \ {0}
    /\ MaxMessages \in Nat
    /\ {Absent, Unset} \cap Nat = {}
    /\ Absent # Unset
    /\ None \notin Changes

VARIABLES
    dex,            \* on chain, the DEX of each pool
    version,        \* on chain, how often each account was written; 0: does not exist
    json,           \* the dex json after the snapshot
    subscribed,     \* GRPC_SUBSCRIBED_ACCOUNTS
    status,         \* "start", "ready" or "failed"
    relation,       \* ACCOUNT_RELATION_CACHE
    supplementary,  \* SUPPLEMENTARY_ACCOUNT_RELATION_CACHE
    dynamic,        \* dynamic_account_cache: layout and version of what was sliced,
                    \* and whether it is whole or ends in uninitialised bytes
    messages,       \* number of messages handled
    tx,             \* the transaction an Arb handled last, or None
    changes,        \* the balance changes it collected
    searched        \* the pool it searched for, or None

arb == <<tx, changes, searched>>
vars == <<dex, version, json, subscribed, status, relation, supplementary, dynamic,
          messages, arb>>

\* The fee configuration is an account of its own; the model gives each pool one.
Exists(p) ==
    {"pool", "vault_a", "vault_b"}
    \cup (IF dex[p] \in {"RaydiumCLMM", "RaydiumCPMM"} THEN {"config"} ELSE {})
    \cup (IF dex[p] \in DOMAIN ExtraType THEN {"extra", "arrays"} ELSE {})

\* What the quoter of DEX d reads from the dynamic cache for a pool with these
\* vaults, and as which type.  PumpFun's pool, fee configurations and the mints
\* are only read from the static cache, which nothing changes after the start.
QuoteReads(d, p, vaults) ==
    LET pool == IF d = "PumpFunAMM" THEN {} ELSE {<<<<"pool", p>>, <<d, "Pool">>>>}
        amounts == IF d \in {"RaydiumAMM", "RaydiumCPMM", "PumpFunAMM"}
                     THEN {<<v, <<d, "MintVault">>>> : v \in vaults} ELSE {}
        derived == IF d \in DOMAIN ExtraType
                     THEN {<<<<"extra", p>>, <<d, ExtraType[d]>>>>,
                           <<<<"arrays", p>>, <<d, ArrayType[d]>>>>} ELSE {}
        clock == IF d \in {"RaydiumCPMM", "MeteoraDLMM", "MeteoraDAMMV2", "OrcaWhirl"}
                   THEN {<<Clock, <<None, "Clock">>>>} ELSE {}
    IN  pool \cup amounts \cup derived \cup clock

Vaults(p) == {<<"vault_a", p>>, <<"vault_b", p>>}

\* The snapshot reads the vaults the json names.
SnapshotReads(e) == QuoteReads(e.owner, e.pool, {e.vault_a, e.vault_b})

\* An entry of the json may name the wrong vault.
Entry(p, claim) == [pool |-> p, owner |-> dex[p],
                    vault_a |-> <<"vault_a", claim>>, vault_b |-> <<"vault_b", p>>]

AccountOf(e, role) == CASE role = "vault_a" -> e.vault_a
                        [] role = "vault_b" -> e.vault_b
                        [] role = "clock" -> Clock
                        [] OTHER -> <<role, e.pool>>

-----------------------------------------------------------------------------
(* Slices *)

\* Per type a slicer accepts from the subscription, the end of its last interval.
MeteoraDLMMSlices ==
    [Pool |-> 584 + 128, BinArrayBitmap |-> 8 + 1568, BinArray |-> 56 + 69 * 144 + 32]
MeteoraDAMMV2Slices == [Pool |-> 481 + 1]
OrcaWhirlSlices == [Pool |-> 81 + 4, Oracle |-> 106 + 4, TickArray |-> 9956 + 32]
PumpFunAMMSlices == [MintVault |-> 64 + 8]
RaydiumAMMSlices == [Pool |-> 200 + 8, MintVault |-> 64 + 8]
RaydiumCLMMSlices ==
    [Pool |-> 1088 + 8, TickArrayBitmap |-> 1832, TickArray |-> 44 + 59 * 168 + 36]
RaydiumCPMMSlices == [Pool |-> 365 + 8, MintVault |-> 64 + 8]

SliceEnds ==
    [MeteoraDLMM |-> MeteoraDLMMSlices, MeteoraDAMMV2 |-> MeteoraDAMMV2Slices,
     OrcaWhirl |-> OrcaWhirlSlices, PumpFunAMM |-> PumpFunAMMSlices,
     RaydiumAMM |-> RaydiumAMMSlices, RaydiumCLMM |-> RaydiumCLMMSlices,
     RaydiumCPMM |-> RaydiumCPMMSlices]

Sliceable == UNION {{<<d, t>> : t \in DOMAIN SliceEnds[d]} : d \in Dexes}

\* Lengths of the accounts, with their discriminator where they have one.
MeteoraDLMMSizes == [pool |-> 8 + 896, extra |-> 8 + 32 + 2 * 12 * 64, arrays |-> 56 + 70 * 144]
MeteoraDAMMV2Sizes == [pool |-> 8 + 1104]
OrcaWhirlSizes == [pool |-> 269 + 3 * 128, extra |-> 8 + 118 + 128, arrays |-> 12 + 88 * 113 + 32]
RaydiumAMMSizes == [pool |-> 752]
RaydiumCLMMSizes ==
    [pool |-> 1096 + 56 * 8, extra |-> 8 + 32 + 2 * 14 * 64, arrays |-> 44 + 60 * 168 + 116]
RaydiumCPMMSizes == [pool |-> 389 + 31 * 8]

Sizes ==
    [MeteoraDLMM |-> MeteoraDLMMSizes, MeteoraDAMMV2 |-> MeteoraDAMMV2Sizes,
     OrcaWhirl |-> OrcaWhirlSizes, RaydiumAMM |-> RaydiumAMMSizes,
     RaydiumCLMM |-> RaydiumCLMMSizes, RaydiumCPMM |-> RaydiumCPMMSizes]

Size(k) == CASE k[1] \in {"vault_a", "vault_b"} -> 165
             [] k[1] = "config" -> 117
             [] OTHER -> Sizes[dex[k[2]]][k[1]]

\* An interval that ends beyond the account is skipped, and what was not copied
\* is left uninitialised; the clock is cached as it is.
Whole(k, layout) == k = Clock \/ SliceEnds[layout[1]][layout[2]] =< Size(k)

SliceOf(k, layout, n) == [layout |-> layout, version |-> n, whole |-> Whole(k, layout)]

-----------------------------------------------------------------------------
\* Bitmap extensions, oracles and arrays may be created later, except that a
\* RaydiumCLMM pool without its bitmap extension does not pass the snapshot.
\* The subscriber of a DEX lists accounts of its entries, or nothing; an empty
\* subscription is an error.  The filters sent to the node let through what is
\* listed: a subscriber names their owners along with the accounts.
Init ==
    /\ dex \in Deployments
    /\ \E created \in BOOLEAN :
         version = [k \in Accounts |->
            IF k = Clock THEN 1
            ELSE IF k[1] \notin Exists(k[2]) THEN 0
            ELSE IF k[1] = "arrays" \/ (k[1] = "extra" /\ dex[k[2]] # "RaydiumCLMM")
                   THEN IF created THEN 1 ELSE 0
            ELSE 1]
    /\ \E listed \in SUBSET Pools : \E claim \in [listed -> Pools] :
         json = {Entry(p, claim[p]) : p \in listed}
    /\ json # {}
    /\ \E list \in [json -> RoleLists] :
         subscribed = UNION {{AccountOf(e, role) : role \in list[e]} : e \in json}
    /\ subscribed # {}
    /\ status = "start"
    /\ relation = <<>> /\ supplementary = <<>>
    /\ LET reads == UNION {SnapshotReads(e) : e \in json}
       IN  dynamic = [k \in {r[1] : r \in reads} \cap {a \in Accounts : version[a] > 0} |->
                        SliceOf(k, (CHOOSE r \in reads : r[1] = k)[2], 1)]
    /\ messages = 0
    /\ tx = None /\ changes = <<>> /\ searched = None

-----------------------------------------------------------------------------
(* Account relations *)

AccountInfo(e, type, key) ==
    [dex_type |-> e.owner, account_type |-> type, account_key |-> key, pool_id |-> e.pool]

GetAccountInfo(e) ==
    {AccountInfo(e, "Pool", <<"pool", e.pool>>),
     AccountInfo(e, "MintVault", e.vault_a),
     AccountInfo(e, "MintVault", e.vault_b)}
    \cup {AccountInfo(e, ExtraType[d], <<"extra", e.pool>>) : d \in {e.owner} \cap DOMAIN ExtraType}

Relations == UNION {GetAccountInfo(e) : e \in json}

Keys == {r.account_key : r \in Relations}

\* Two different relations for one account.
Duplicated == \E r, s \in Relations : r.account_key = s.account_key /\ r # s

SetRelations ==
    /\ status' = "ready"
    /\ relation' = [k \in Keys |-> CHOOSE r \in Relations : r.account_key = k]
    /\ supplementary' = [d \in {e.owner : e \in json} \cap DOMAIN ArrayType |-> ArrayType[d]]

\* Mutant of InitAccountRelations: an insert that replaces a relation is accepted.
InitAccountRelationsReplacing ==
    /\ status = "start"
    /\ SetRelations
    /\ UNCHANGED <<dex, version, json, subscribed, dynamic, messages, arb>>

InitAccountRelations ==
    /\ status = "start"
    /\ IF Duplicated THEN status' = "failed" /\ UNCHANGED <<relation, supplementary>>
                     ELSE SetRelations
    /\ UNCHANGED <<dex, version, json, subscribed, dynamic, messages, arb>>

-----------------------------------------------------------------------------
(* Account updates *)

\* The program that owns an account.
Owner(k) == CASE k = Clock -> "sysvar"
              [] k[1] \in {"vault_a", "vault_b"} -> "spl_token"
              [] OTHER -> dex[k[2]]

\* DexType::try_from takes the token program for RaydiumAMM.
TryFrom(owner) == IF owner = "spl_token" THEN "RaydiumAMM"
                  ELSE IF owner \in Dexes THEN owner ELSE None

\* Mutant of GetDexTypeAndAccountType: the owner's supplementary type comes first.
SupplementaryFirst(k) ==
    IF TryFrom(Owner(k)) \in DOMAIN supplementary
      THEN <<TryFrom(Owner(k)), supplementary[TryFrom(Owner(k))]>>
    ELSE IF k \in DOMAIN relation THEN <<relation[k].dex_type, relation[k].account_type>>
    ELSE None

GetDexTypeAndAccountType(k) ==
    IF k \in DOMAIN relation THEN <<relation[k].dex_type, relation[k].account_type>>
    ELSE IF TryFrom(Owner(k)) \in DOMAIN supplementary
      THEN <<TryFrom(Owner(k)), supplementary[TryFrom(Owner(k))]>>
    ELSE None

\* The layout an update is cached in; the clock is cached whole.
Slice(k) == IF k = Clock THEN <<None, "Clock">> ELSE GetDexTypeAndAccountType(k)

Cached(k) == k = Clock \/ Slice(k) \in Sliceable

Put(k, entry) == [a \in DOMAIN dynamic \cup {k} |-> IF a = k THEN entry ELSE dynamic[a]]

\* Updates of other accounts do not reach the processors.
Forwarded(k) == k \in subscribed

\* Mutant of UpdateCache: an update that no rule slices is cached all the same.
UpdateCacheUnsliced(k) ==
    /\ status = "ready" /\ messages < MaxMessages
    /\ version' = [version EXCEPT ![k] = @ + 1]
    /\ messages' = messages + 1
    /\ dynamic' = IF Forwarded(k)
                    THEN Put(k, [layout |-> Slice(k), version |-> version[k] + 1, whole |-> TRUE])
                    ELSE dynamic
    /\ UNCHANGED <<dex, json, subscribed, status, relation, supplementary, arb>>

\* An account is written (or created) on chain and its update is handled; one of
\* an account that is not subscribed to, or that cannot be classified or sliced,
\* is dropped.
UpdateCache(k) ==
    /\ status = "ready" /\ messages < MaxMessages
    /\ version' = [version EXCEPT ![k] = @ + 1]
    /\ messages' = messages + 1
    /\ dynamic' = IF Forwarded(k) /\ Cached(k)
                    THEN Put(k, SliceOf(k, Slice(k), version[k] + 1)) ELSE dynamic
    /\ UNCHANGED <<dex, json, subscribed, status, relation, supplementary, arb>>

-----------------------------------------------------------------------------
(* Transactions: BalanceChangeInfo *)

\* Amounts of one grain cannot be told apart as f64.
UiAmount(a) == (a \div Grain) * Grain

\* A set of numbers in ascending order, and the elements of s at the positions P.
InOrder(P) ==
    [n \in 1..Cardinality(P) |-> CHOOSE i \in P : Cardinality({j \in P : j <= i}) = n]

At(s, P) == LET order == InOrder(P) IN [n \in 1..Cardinality(P) |-> s[order[n]]]

\* pre_token_balances (side 1) and post_token_balances (side 2): the node lists
\* the token accounts in the order of their indices.
TokenBalances(t, side) ==
    At([i \in DOMAIN t.keys |-> [account_index |-> i, amount |-> t.amounts[i][side]]],
       {i \in DOMAIN t.keys : t.amounts[i][side] # Absent})

Indices(balances) == {balances[i].account_index : i \in DOMAIN balances}

OnlyIn(balances, indices) ==
    At(balances, {n \in DOMAIN balances : balances[n].account_index \in indices})

\* filter_map for the two constructors, which answer None or a change.
Some(candidates) == At(candidates, {n \in DOMAIN candidates : candidates[n] # None})

Info(t, i, post, change) ==
    [dex_type |-> relation[t.keys[i]].dex_type, pool_id |-> relation[t.keys[i]].pool_id,
     account_index |-> i, vault_account |-> t.keys[i],
     post_account |-> post, change_value |-> change]

New(t, pre, post) ==
    LET i == pre.account_index
    IN  IF pre.amount = Unset \/ post.amount = Unset THEN None
        ELSE IF UiAmount(pre.amount) = UiAmount(post.amount) THEN None
        ELSE IF t.keys[i] \notin DOMAIN relation THEN None
        ELSE Info(t, i, post.amount, UiAmount(post.amount) - UiAmount(pre.amount))

NewFromOne(t, one, is_pre) ==
    LET i == one.account_index
    IN  IF one.amount = Unset \/ t.keys[i] \notin DOMAIN relation THEN None
        ELSE IF is_pre THEN Info(t, i, 0, -UiAmount(one.amount))
        ELSE Info(t, i, one.amount, UiAmount(one.amount))

\* Mutant of Pairwise: only the list before the transaction is filtered.
PairwisePreOnly(t, pre_balances, post_balances) ==
    LET pre == OnlyIn(pre_balances, Indices(post_balances))
    IN  Some([n \in DOMAIN pre |-> New(t, pre[n], post_balances[n])])

\* Accounts in both lists, paired by position.
Pairwise(t, pre_balances, post_balances) ==
    LET pre == OnlyIn(pre_balances, Indices(post_balances))
        post == OnlyIn(post_balances, Indices(pre_balances))
    IN  Some([n \in DOMAIN pre |-> New(t, pre[n], post[n])])

\* Accounts in one of the lists.
OneSided(t, mine, others, is_pre) ==
    LET ones == OnlyIn(mine, Indices(mine) \ Indices(others))
    IN  Some([n \in DOMAIN ones |-> NewFromOne(t, ones[n], is_pre)])

\* Mutant of Collect: accounts the transaction opens are left out.
CollectWithoutOpened(t) ==
    LET pre == TokenBalances(t, 1)
        post == TokenBalances(t, 2)
    IN  IF subscribed \cap {t.keys[i] : i \in DOMAIN t.keys} = {} THEN <<>>
        ELSE Pairwise(t, pre, post) \o OneSided(t, pre, post, TRUE)

Collect(t) ==
    LET pre == TokenBalances(t, 1)
        post == TokenBalances(t, 2)
    IN  IF subscribed \cap {t.keys[i] : i \in DOMAIN t.keys} = {} THEN <<>>
        ELSE Pairwise(t, pre, post)
                \o OneSided(t, pre, post, TRUE) \o OneSided(t, post, pre, FALSE)

\* An Arb collects the changes and searches for the pool of the first one.  The
\* wallet's share, which may decline the search, is checked in TwoHop.
HandleTransaction(t) ==
    /\ status = "ready" /\ messages < MaxMessages
    /\ messages' = messages + 1
    /\ tx' = t
    /\ changes' = Collect(t)
    /\ searched' = IF changes' = <<>> THEN None ELSE Head(changes').pool_id
    /\ UNCHANGED <<dex, version, json, subscribed, status, relation, supplementary, dynamic>>

\* Only token accounts have balances; the model's are the vaults.
Transactions ==
    UNION {{[keys |-> keys, amounts |-> amounts] :
              amounts \in {f \in [1..Len(keys) -> Pairs \cup {<<Absent, Absent>>}] :
                 \A i \in 1..Len(keys) :
                    f[i] \in IF keys[i][1] \in {"vault_a", "vault_b"}
                               THEN Pairs ELSE {<<Absent, Absent>>}}} : keys \in KeyLists}

Written == {k \in Accounts : IF k = Clock THEN TRUE ELSE k[1] \in Exists(k[2])}

Next ==
    \/ InitAccountRelations
    \/ \E k \in Written : UpdateCache(k)
    \/ \E t \in Transactions : HandleTransaction(t)

Spec == Init /\ [][Next]_vars

-----------------------------------------------------------------------------
(* Properties *)

Entries == [pool : Pools, owner : Dexes, vault_a : Accounts, vault_b : Accounts]

Types == {"Pool", "MintVault", "TickArray", "TickArrayBitmap", "BinArray", "BinArrayBitmap",
          "Oracle"}

Infos == [dex_type : Dexes, account_type : Types, account_key : Accounts, pool_id : Pools]

Layouts == Sliceable \cup {<<None, "Clock">>}

\* Types of the variables; what is cached is always in a layout some rule makes.
TypeOK ==
    /\ dex \in [Pools -> Dexes]
    /\ version \in [Accounts -> Nat]
    /\ json \in SUBSET Entries
    /\ subscribed \subseteq Accounts
    /\ status \in {"start", "ready", "failed"}
    /\ DOMAIN relation \subseteq Accounts
    /\ \A k \in DOMAIN relation : relation[k] \in Infos /\ relation[k].account_key = k
    /\ DOMAIN supplementary \subseteq DOMAIN ArrayType
    /\ \A d \in DOMAIN supplementary : supplementary[d] = ArrayType[d]
    /\ DOMAIN dynamic \subseteq Accounts
    /\ \A k \in DOMAIN dynamic : dynamic[k] \in [layout : Layouts, version : Nat, whole : BOOLEAN]
    /\ messages \in 0..MaxMessages
    /\ searched \in Pools \cup {None}

\* The entry names the vaults the pool has on chain.
Truthful(e) == {e.vault_a, e.vault_b} = Vaults(e.pool)

\* Once the bot runs, the vaults of every pool listed with its own vaults are
\* followed as that pool's, whatever the other entries of the dex json claim.
VaultsFollowed ==
    status = "ready" =>
      \A e \in json : Truthful(e) =>
        \A v \in Vaults(e.pool) :
          v \in DOMAIN relation /\ relation[v].pool_id = e.pool /\ relation[v].dex_type = e.owner

\* What a quote reads from the dynamic cache for such a pool is in the layout the
\* quote reads it in, with no byte uninitialised, whichever accounts of whichever
\* entries are listed for the subscription: in the last version if the account is
\* subscribed to, also when it was created after the start, and in the snapshot's
\* for ever if it is not.
QuotesReadWhatIsFollowed ==
    status = "ready" =>
      \A e \in json : Truthful(e) =>
        \A r \in QuoteReads(e.owner, e.pool, Vaults(e.pool)) :
          /\ r[1] \in subscribed /\ version[r[1]] > 0 => r[1] \in DOMAIN dynamic
          /\ r[1] \in DOMAIN dynamic =>
               dynamic[r[1]] = [layout |-> r[2], whole |-> TRUE,
                                version |-> IF r[1] \in subscribed THEN version[r[1]] ELSE 1]

\* An account of the transaction whose balance it changed, as far as f64 shows.
Changed(i) ==
    LET pre == tx.amounts[i][1]
        post == tx.amounts[i][2]
    IN  /\ Unset \notin {pre, post}
        /\ pre # post
        /\ Absent \in {pre, post} \/ UiAmount(pre) # UiAmount(post)

\* Listed pools with a vault among them.
Touched == {e.pool : e \in {f \in json :
              \E i \in DOMAIN tx.keys : tx.keys[i] \in Vaults(f.pool) /\ Changed(i)}}

Balance(a) == IF a = Absent THEN 0 ELSE UiAmount(a)

EntryAccounts(e) == {<<"pool", e.pool>>, e.vault_a, e.vault_b}

Followed(i) == \E e \in json : tx.keys[i] \in EntryAccounts(e)

Filtered == subscribed \cap {tx.keys[i] : i \in DOMAIN tx.keys} = {}

\* The changes an Arb collects are the changed balances of the followed accounts
\* in its transaction, each exactly once and with the right difference.
ChangesAreTheTransactions ==
    tx # None =>
      LET expected == IF Filtered THEN {} ELSE {i \in DOMAIN tx.keys : Changed(i) /\ Followed(i)}
      IN  /\ {<<changes[n].vault_account, changes[n].change_value>> : n \in DOMAIN changes}
               = {<<tx.keys[i], Balance(tx.amounts[i][2]) - Balance(tx.amounts[i][1])>> :
                    i \in expected}
          /\ Len(changes) = Cardinality(expected)

\* With a dex json that names the right vaults, a transaction that changes a
\* listed pool's vault and passes the filter starts a search, for a pool it
\* changed; no other transaction does.
SwapsAreSearched ==
    tx # None /\ (\A e \in json : Truthful(e)) =>
      IF Filtered \/ Touched = {} THEN searched = None ELSE searched \in Touched
=============================================================================
