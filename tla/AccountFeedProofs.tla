------------------------- MODULE AccountFeedProofs -------------------------
(***************************************************************************)
(* For any pools, deployments and transactions: the vaults of a truthfully *)
(* listed pool are followed, its quotes read the last version of what is   *)
(* subscribed to, what an Arb collects from a transaction are its changes, *)
(* and it searches for a pool the transaction changed.                     *)
(***************************************************************************)
EXTENDS AccountFeed, FiniteSetTheorems, FunctionTheorems, SequenceTheorems, TLAPS

\* Entries of the dex json name the DEX their pool has on chain, and a vault.
JsonInv ==
    /\ dex \in [Pools -> Dexes]
    /\ \A e \in json :
         /\ e \in [pool : Pools, owner : Dexes, vault_a : {"vault_a"} \X Pools,
                   vault_b : {"vault_b"} \X Pools]
         /\ e.owner = dex[e.pool]

\* The relations an Arb and a processor use are those of the dex json.
RelationInv ==
    status = "ready" =>
      /\ ~Duplicated
      /\ DOMAIN relation = Keys
      /\ \A k \in Keys : relation[k] \in Relations /\ relation[k].account_key = k
      /\ DOMAIN supplementary = {e.owner : e \in json} \cap DOMAIN ArrayType
      /\ \A d \in DOMAIN supplementary : supplementary[d] = ArrayType[d]

\* The version an account is cached in: the last, or the snapshot's.
CachedVersion(k) == IF k \in subscribed THEN version[k] ELSE 1

\* A read that is served by a whole slice of that version.
Served(r) ==
    /\ r[1] \in subscribed /\ version[r[1]] > 0 => r[1] \in DOMAIN dynamic
    /\ r[1] \in DOMAIN dynamic =>
         dynamic[r[1]] = [layout |-> r[2], whole |-> TRUE, version |-> CachedVersion(r[1])]

ReadsOf(e) == QuoteReads(e.owner, e.pool, Vaults(e.pool))

\* Until the relations are checked a second entry may claim a vault.
CacheInv ==
    /\ version \in [Accounts -> Nat]
    /\ ~Duplicated => \A e \in json : Truthful(e) => \A r \in ReadsOf(e) : Served(r)

FeedInv == JsonInv /\ RelationInv /\ CacheInv

-----------------------------------------------------------------------------
(* Lemmas *)

\* The tables of derived accounts.
LEMMA Tables ==
    /\ DOMAIN ExtraType = {"MeteoraDLMM", "OrcaWhirl", "RaydiumCLMM"}
    /\ DOMAIN ArrayType = {"MeteoraDLMM", "OrcaWhirl", "RaydiumCLMM"}
    /\ ExtraType["MeteoraDLMM"] = "BinArrayBitmap"
    /\ ExtraType["OrcaWhirl"] = "Oracle"
    /\ ExtraType["RaydiumCLMM"] = "TickArrayBitmap"
    /\ ArrayType["MeteoraDLMM"] = "BinArray"
    /\ ArrayType["OrcaWhirl"] = "TickArray"
    /\ ArrayType["RaydiumCLMM"] = "TickArray"
BY DEF ExtraType, ArrayType

\* The account types each DEX slices, and that no slice ends beyond its account.
LEMMA Slices ==
    /\ \A d \in Dexes \ {"PumpFunAMM"} :
         "Pool" \in DOMAIN SliceEnds[d] /\ SliceEnds[d]["Pool"] =< Sizes[d]["pool"]
    /\ \A d \in {"RaydiumAMM", "RaydiumCPMM", "PumpFunAMM"} :
         "MintVault" \in DOMAIN SliceEnds[d] /\ SliceEnds[d]["MintVault"] =< 165
    /\ \A d \in DOMAIN ExtraType :
         /\ ExtraType[d] \in DOMAIN SliceEnds[d]
         /\ SliceEnds[d][ExtraType[d]] =< Sizes[d]["extra"]
         /\ ArrayType[d] \in DOMAIN SliceEnds[d]
         /\ SliceEnds[d][ArrayType[d]] =< Sizes[d]["arrays"]
<1> USE DEF SliceEnds, Sizes
<1>1. /\ "Pool" \in DOMAIN SliceEnds["MeteoraDLMM"]
      /\ SliceEnds["MeteoraDLMM"]["Pool"] =< Sizes["MeteoraDLMM"]["pool"]
      /\ "BinArrayBitmap" \in DOMAIN SliceEnds["MeteoraDLMM"]
      /\ SliceEnds["MeteoraDLMM"]["BinArrayBitmap"] =< Sizes["MeteoraDLMM"]["extra"]
      /\ "BinArray" \in DOMAIN SliceEnds["MeteoraDLMM"]
      /\ SliceEnds["MeteoraDLMM"]["BinArray"] =< Sizes["MeteoraDLMM"]["arrays"]
  BY DEF MeteoraDLMMSlices, MeteoraDLMMSizes
<1>2. /\ "Pool" \in DOMAIN SliceEnds["MeteoraDAMMV2"]
      /\ SliceEnds["MeteoraDAMMV2"]["Pool"] =< Sizes["MeteoraDAMMV2"]["pool"]
  BY DEF MeteoraDAMMV2Slices, MeteoraDAMMV2Sizes
<1>3. /\ "Pool" \in DOMAIN SliceEnds["OrcaWhirl"]
      /\ SliceEnds["OrcaWhirl"]["Pool"] =< Sizes["OrcaWhirl"]["pool"]
      /\ "Oracle" \in DOMAIN SliceEnds["OrcaWhirl"]
      /\ SliceEnds["OrcaWhirl"]["Oracle"] =< Sizes["OrcaWhirl"]["extra"]
      /\ "TickArray" \in DOMAIN SliceEnds["OrcaWhirl"]
      /\ SliceEnds["OrcaWhirl"]["TickArray"] =< Sizes["OrcaWhirl"]["arrays"]
  BY DEF OrcaWhirlSlices, OrcaWhirlSizes
<1>4. /\ "MintVault" \in DOMAIN SliceEnds["PumpFunAMM"]
      /\ SliceEnds["PumpFunAMM"]["MintVault"] =< 165
  BY DEF PumpFunAMMSlices
<1>5. /\ "Pool" \in DOMAIN SliceEnds["RaydiumAMM"]
      /\ SliceEnds["RaydiumAMM"]["Pool"] =< Sizes["RaydiumAMM"]["pool"]
      /\ "MintVault" \in DOMAIN SliceEnds["RaydiumAMM"]
      /\ SliceEnds["RaydiumAMM"]["MintVault"] =< 165
  BY DEF RaydiumAMMSlices, RaydiumAMMSizes
<1>6. /\ "Pool" \in DOMAIN SliceEnds["RaydiumCLMM"]
      /\ SliceEnds["RaydiumCLMM"]["Pool"] =< Sizes["RaydiumCLMM"]["pool"]
      /\ "TickArrayBitmap" \in DOMAIN SliceEnds["RaydiumCLMM"]
      /\ SliceEnds["RaydiumCLMM"]["TickArrayBitmap"] =< Sizes["RaydiumCLMM"]["extra"]
      /\ "TickArray" \in DOMAIN SliceEnds["RaydiumCLMM"]
      /\ SliceEnds["RaydiumCLMM"]["TickArray"] =< Sizes["RaydiumCLMM"]["arrays"]
  BY DEF RaydiumCLMMSlices, RaydiumCLMMSizes
<1>7. /\ "Pool" \in DOMAIN SliceEnds["RaydiumCPMM"]
      /\ SliceEnds["RaydiumCPMM"]["Pool"] =< Sizes["RaydiumCPMM"]["pool"]
      /\ "MintVault" \in DOMAIN SliceEnds["RaydiumCPMM"]
      /\ SliceEnds["RaydiumCPMM"]["MintVault"] =< 165
  BY DEF RaydiumCPMMSlices, RaydiumCPMMSizes
<1> HIDE DEF SliceEnds, Sizes
<1>8. \A d \in Dexes \ {"PumpFunAMM"} :
        "Pool" \in DOMAIN SliceEnds[d] /\ SliceEnds[d]["Pool"] =< Sizes[d]["pool"]
  BY <1>1, <1>2, <1>3, <1>5, <1>6, <1>7 DEF Dexes
<1>9. \A d \in {"RaydiumAMM", "RaydiumCPMM", "PumpFunAMM"} :
        "MintVault" \in DOMAIN SliceEnds[d] /\ SliceEnds[d]["MintVault"] =< 165
  BY <1>4, <1>5, <1>7
<1>10. ASSUME NEW d \in DOMAIN ExtraType
       PROVE  /\ ExtraType[d] \in DOMAIN SliceEnds[d]
              /\ SliceEnds[d][ExtraType[d]] =< Sizes[d]["extra"]
              /\ ArrayType[d] \in DOMAIN SliceEnds[d]
              /\ SliceEnds[d][ArrayType[d]] =< Sizes[d]["arrays"]
  <2>1. d = "MeteoraDLMM" \/ d = "OrcaWhirl" \/ d = "RaydiumCLMM"
    BY Tables
  <2>2. CASE d = "MeteoraDLMM"
    BY <1>1, <2>2, Tables
  <2>3. CASE d = "OrcaWhirl"
    BY <1>3, <2>3, Tables
  <2>4. CASE d = "RaydiumCLMM"
    BY <1>6, <2>4, Tables
  <2> QED
    BY <2>1, <2>2, <2>3, <2>4
<1> QED
  BY <1>8, <1>9, <1>10

\* A layout of the table is one its slicer accepts.
LEMMA InTable ==
    ASSUME NEW d \in Dexes, NEW t \in DOMAIN SliceEnds[d]
    PROVE  <<d, t>> \in Sliceable
BY DEF Sliceable

\* Two relations of one account are the same unless the start fails.
LEMMA OneRelation ==
    ASSUME ~Duplicated, NEW r \in Relations, NEW s \in Relations,
           r.account_key = s.account_key
    PROVE  r = s
BY DEF Duplicated

\* The relations of an entry.
LEMMA EntryRelations ==
    ASSUME NEW e \in json
    PROVE  /\ AccountInfo(e, "Pool", <<"pool", e.pool>>) \in Relations
           /\ AccountInfo(e, "MintVault", e.vault_a) \in Relations
           /\ AccountInfo(e, "MintVault", e.vault_b) \in Relations
           /\ e.owner \in DOMAIN ExtraType =>
                AccountInfo(e, ExtraType[e.owner], <<"extra", e.pool>>) \in Relations
<1>1. GetAccountInfo(e) \subseteq Relations
  BY DEF Relations
<1>2. /\ AccountInfo(e, "Pool", <<"pool", e.pool>>) \in GetAccountInfo(e)
      /\ AccountInfo(e, "MintVault", e.vault_a) \in GetAccountInfo(e)
      /\ AccountInfo(e, "MintVault", e.vault_b) \in GetAccountInfo(e)
  BY DEF GetAccountInfo
<1>3. ASSUME e.owner \in DOMAIN ExtraType
      PROVE  AccountInfo(e, ExtraType[e.owner], <<"extra", e.pool>>) \in GetAccountInfo(e)
  BY <1>3, Zenon DEF GetAccountInfo
<1> QED
  BY <1>1, <1>2, <1>3

\* What an entry's relation says of its account.
LEMMA InfoFields ==
    ASSUME NEW e, NEW t, NEW k
    PROVE  /\ AccountInfo(e, t, k).dex_type = e.owner
           /\ AccountInfo(e, t, k).account_type = t
           /\ AccountInfo(e, t, k).account_key = k
           /\ AccountInfo(e, t, k).pool_id = e.pool
BY DEF AccountInfo

\* A relation is looked up under its account.
LEMMA LookUp ==
    ASSUME RelationInv, status = "ready", NEW r \in Relations
    PROVE  /\ r.account_key \in DOMAIN relation
           /\ relation[r.account_key] = r
<1>1. r.account_key \in Keys
  BY DEF Keys
<1>2. relation[r.account_key] \in Relations /\ relation[r.account_key].account_key = r.account_key
  BY <1>1 DEF RelationInv
<1> QED
  BY <1>1, <1>2, OneRelation DEF RelationInv

\* Arrays have no relation of their own.
LEMMA NoArrayRelation ==
    ASSUME JsonInv, NEW r \in Relations
    PROVE  r.account_key[1] # "arrays"
<1>1. PICK e \in json : r \in GetAccountInfo(e)
  BY DEF Relations
<1>2. e \in [pool : Pools, owner : Dexes, vault_a : {"vault_a"} \X Pools,
             vault_b : {"vault_b"} \X Pools]
  BY DEF JsonInv
<1>3. e.vault_a[1] = "vault_a" /\ e.vault_b[1] = "vault_b"
  BY <1>2
<1>4. \/ r.account_key = <<"pool", e.pool>>
      \/ r.account_key = e.vault_a
      \/ r.account_key = e.vault_b
      \/ r.account_key = <<"extra", e.pool>>
  BY <1>1, InfoFields DEF GetAccountInfo
<1> QED
  BY <1>3, <1>4

\* The kinds of reads of a quoter.
LEMMA ReadKinds ==
    ASSUME NEW d, NEW p, NEW vaults, NEW r \in QuoteReads(d, p, vaults)
    PROVE  \/ r[1] = <<"pool", p>> /\ r[2] = <<d, "Pool">> /\ d # "PumpFunAMM"
           \/ /\ r[1] \in vaults /\ r[2] = <<d, "MintVault">>
              /\ d \in {"RaydiumAMM", "RaydiumCPMM", "PumpFunAMM"}
           \/ r[1] = <<"extra", p>> /\ r[2] = <<d, ExtraType[d]>> /\ d \in DOMAIN ExtraType
           \/ r[1] = <<"arrays", p>> /\ r[2] = <<d, ArrayType[d]>> /\ d \in DOMAIN ExtraType
           \/ r[1] = Clock /\ r[2] = <<None, "Clock">>
BY DEF QuoteReads

\* The vaults of a truthful entry.
LEMMA OwnVaults ==
    ASSUME NEW e \in json, Truthful(e), NEW v \in Vaults(e.pool)
    PROVE  AccountInfo(e, "MintVault", v) \in Relations
<1>1. v = e.vault_a \/ v = e.vault_b
  BY DEF Truthful
<1> QED
  BY <1>1, EntryRelations

\* The clock is no account of a pool.
LEMMA ClockApart == \A role, p : role \in Roles => <<role, p>> # Clock
BY DEF Clock, Roles

\* Every read is classified and sliced as what it is read as.
LEMMA ReadsAreSliced ==
    ASSUME JsonInv, RelationInv, status = "ready",
           NEW e \in json, Truthful(e), NEW r \in ReadsOf(e)
    PROVE  Cached(r[1]) /\ Slice(r[1]) = r[2]
<1> USE DEF ReadsOf
<1>0. e.owner \in Dexes /\ e.pool \in Pools /\ e.owner = dex[e.pool]
  BY DEF JsonInv
<1>1. ASSUME NEW type, NEW k, AccountInfo(e, type, k) \in Relations, k # Clock
      PROVE  Slice(k) = <<e.owner, type>>
  <2>1. k \in DOMAIN relation /\ relation[k] = AccountInfo(e, type, k)
    BY <1>1, LookUp, InfoFields
  <2> QED
    BY <1>1, <2>1, InfoFields DEF Slice, GetDexTypeAndAccountType
<1>2. CASE r[1] = <<"pool", e.pool>> /\ r[2] = <<e.owner, "Pool">> /\ e.owner # "PumpFunAMM"
  <2>1. Slice(r[1]) = r[2]
    <3>1. AccountInfo(e, "Pool", <<"pool", e.pool>>) \in Relations
      BY <1>2, EntryRelations
    <3>2. <<"pool", e.pool>> # Clock
      BY <1>2, ClockApart DEF Roles
    <3>3. Slice(<<"pool", e.pool>>) = <<e.owner, "Pool">>
      BY <1>1, <3>1, <3>2
    <3> QED
      BY <1>2, <3>3
  <2>2. r[2] \in Sliceable
    BY <1>0, <1>2, Slices, InTable
  <2> QED
    BY <2>1, <2>2 DEF Cached
<1>3. CASE /\ r[1] \in Vaults(e.pool) /\ r[2] = <<e.owner, "MintVault">>
           /\ e.owner \in {"RaydiumAMM", "RaydiumCPMM", "PumpFunAMM"}
  <2>1. Slice(r[1]) = r[2]
    <3>1. AccountInfo(e, "MintVault", r[1]) \in Relations
      BY <1>3, OwnVaults
    <3>2. r[1] # Clock
      BY <1>3, ClockApart DEF Roles, Vaults
    <3>3. Slice(r[1]) = <<e.owner, "MintVault">>
      BY <1>1, <3>1, <3>2
    <3> QED
      BY <1>3, <3>3
  <2>2. r[2] \in Sliceable
    BY <1>0, <1>3, Slices, InTable
  <2> QED
    BY <2>1, <2>2 DEF Cached
<1>4. CASE /\ r[1] = <<"extra", e.pool>> /\ r[2] = <<e.owner, ExtraType[e.owner]>>
           /\ e.owner \in DOMAIN ExtraType
  <2>1. Slice(r[1]) = r[2]
    <3>1. AccountInfo(e, ExtraType[e.owner], <<"extra", e.pool>>) \in Relations
      BY <1>4, EntryRelations
    <3>2. <<"extra", e.pool>> # Clock
      BY <1>4, ClockApart DEF Roles
    <3>3. Slice(<<"extra", e.pool>>) = <<e.owner, ExtraType[e.owner]>>
      BY <1>1, <3>1, <3>2
    <3> QED
      BY <1>4, <3>3
  <2>2. r[2] \in Sliceable
    BY <1>0, <1>4, Slices, InTable
  <2> QED
    BY <2>1, <2>2 DEF Cached
<1>5. CASE /\ r[1] = <<"arrays", e.pool>> /\ r[2] = <<e.owner, ArrayType[e.owner]>>
           /\ e.owner \in DOMAIN ExtraType
  <2>1. r[1] # Clock
    BY <1>5, ClockApart DEF Roles
  <2>2. r[1] \notin DOMAIN relation
    <3>1. DOMAIN relation = Keys
      BY DEF RelationInv
    <3>2. ASSUME r[1] \in Keys PROVE FALSE
      <4>1. PICK s \in Relations : s.account_key = r[1]
        BY <3>2 DEF Keys
      <4>2. r[1][1] = "arrays"
        BY <1>5
      <4> QED
        BY <4>1, <4>2, NoArrayRelation
    <3> QED
      BY <3>1, <3>2
  <2>3. Owner(r[1]) = e.owner
    BY <1>0, <1>5, <2>1 DEF Owner
  <2>4. TryFrom(Owner(r[1])) = e.owner
    BY <1>0, <2>3 DEF TryFrom, Dexes
  <2>5. e.owner \in DOMAIN supplementary /\ supplementary[e.owner] = ArrayType[e.owner]
    BY <1>5, Tables DEF RelationInv
  <2>6. Slice(r[1]) = r[2]
    BY <1>5, <2>1, <2>2, <2>4, <2>5 DEF Slice, GetDexTypeAndAccountType
  <2>7. r[2] \in Sliceable
    BY <1>0, <1>5, Slices, InTable
  <2> QED
    BY <2>6, <2>7 DEF Cached
<1>6. CASE r[1] = Clock /\ r[2] = <<None, "Clock">>
  BY <1>6 DEF Slice, Cached
<1> QED
  BY <1>2, <1>3, <1>4, <1>5, <1>6, ReadKinds

\* No read of a truthful entry is of a slice that ends beyond the account.
LEMMA ReadsAreWhole ==
    ASSUME JsonInv, NEW e \in json, Truthful(e), NEW r \in ReadsOf(e)
    PROVE  Whole(r[1], r[2]) = TRUE
<1> USE DEF ReadsOf
<1>0. e.owner \in Dexes /\ e.owner = dex[e.pool]
  BY DEF JsonInv
<1>1. CASE r[1] = <<"pool", e.pool>> /\ r[2] = <<e.owner, "Pool">> /\ e.owner # "PumpFunAMM"
  <2>1. Size(r[1]) = Sizes[e.owner]["pool"]
    BY <1>0, <1>1 DEF Size
  <2> QED
    BY <1>0, <1>1, <2>1, Slices DEF Whole
<1>2. CASE /\ r[1] \in Vaults(e.pool) /\ r[2] = <<e.owner, "MintVault">>
           /\ e.owner \in {"RaydiumAMM", "RaydiumCPMM", "PumpFunAMM"}
  <2>1. r[1][1] \in {"vault_a", "vault_b"}
    BY <1>2 DEF Vaults
  <2>2. Size(r[1]) = 165
    BY <2>1 DEF Size
  <2> QED
    BY <1>2, <2>2, Slices DEF Whole
<1>3. CASE /\ r[1] = <<"extra", e.pool>> /\ r[2] = <<e.owner, ExtraType[e.owner]>>
           /\ e.owner \in DOMAIN ExtraType
  <2>1. Size(r[1]) = Sizes[e.owner]["extra"]
    BY <1>0, <1>3 DEF Size
  <2> QED
    BY <1>3, <2>1, Slices DEF Whole
<1>4. CASE /\ r[1] = <<"arrays", e.pool>> /\ r[2] = <<e.owner, ArrayType[e.owner]>>
           /\ e.owner \in DOMAIN ExtraType
  <2>1. Size(r[1]) = Sizes[e.owner]["arrays"]
    BY <1>0, <1>4 DEF Size
  <2> QED
    BY <1>4, <2>1, Slices DEF Whole
<1>5. CASE r[1] = Clock
  BY <1>5 DEF Whole
<1>6. \/ r[1] = <<"pool", e.pool>> /\ r[2] = <<e.owner, "Pool">> /\ e.owner # "PumpFunAMM"
      \/ /\ r[1] \in Vaults(e.pool) /\ r[2] = <<e.owner, "MintVault">>
         /\ e.owner \in {"RaydiumAMM", "RaydiumCPMM", "PumpFunAMM"}
      \/ r[1] = <<"extra", e.pool>> /\ r[2] = <<e.owner, ExtraType[e.owner]>>
         /\ e.owner \in DOMAIN ExtraType
      \/ r[1] = <<"arrays", e.pool>> /\ r[2] = <<e.owner, ArrayType[e.owner]>>
         /\ e.owner \in DOMAIN ExtraType
      \/ r[1] = Clock
  BY ReadKinds
<1> QED
  BY <1>1, <1>2, <1>3, <1>4, <1>5, <1>6, Zenon

\* Of one account, a truthful entry and any entry read the same type.
LEMMA OneType ==
    ASSUME JsonInv, ~Duplicated,
           NEW e \in json, Truthful(e), NEW r \in ReadsOf(e),
           NEW f \in json, NEW s \in SnapshotReads(f), r[1] = s[1]
    PROVE  r[2] = s[2]
<1> USE DEF ReadsOf, SnapshotReads
<1>0. e.owner = dex[e.pool] /\ f.owner = dex[f.pool]
  BY DEF JsonInv
<1>1. f.vault_a[1] = "vault_a" /\ f.vault_b[1] = "vault_b" /\ Clock[1] = "clock"
  BY DEF JsonInv, Clock
<1>2. \A v \in Vaults(e.pool) : v[1] \in {"vault_a", "vault_b"}
  BY DEF Vaults
<1>3. \/ s[1] = <<"pool", f.pool>> /\ s[2] = <<f.owner, "Pool">>
      \/ s[1] \in {f.vault_a, f.vault_b} /\ s[2] = <<f.owner, "MintVault">>
      \/ s[1] = <<"extra", f.pool>> /\ s[2] = <<f.owner, ExtraType[f.owner]>>
      \/ s[1] = <<"arrays", f.pool>> /\ s[2] = <<f.owner, ArrayType[f.owner]>>
      \/ s[1] = Clock /\ s[2] = <<None, "Clock">>
  BY ReadKinds
<1> DEFINE role == s[1][1]
<1>4. /\ s[1] = <<"pool", f.pool>> => role = "pool"
      /\ s[1] \in {f.vault_a, f.vault_b} => role \in {"vault_a", "vault_b"}
      /\ s[1] = <<"extra", f.pool>> => role = "extra"
      /\ s[1] = <<"arrays", f.pool>> => role = "arrays"
      /\ s[1] = Clock => role = "clock"
  <2>1. s[1] = <<"pool", f.pool>> => role = "pool"
    OBVIOUS
  <2>2. s[1] \in {f.vault_a, f.vault_b} => role \in {"vault_a", "vault_b"}
    BY <1>1
  <2>3. s[1] = <<"extra", f.pool>> => role = "extra"
    OBVIOUS
  <2>4. s[1] = <<"arrays", f.pool>> => role = "arrays"
    OBVIOUS
  <2>5. s[1] = Clock => role = "clock"
    BY <1>1
  <2> QED
    BY <2>1, <2>2, <2>3, <2>4, <2>5
<1> HIDE DEF role
<1>5. CASE r[1] \in Vaults(e.pool) /\ r[2] = <<e.owner, "MintVault">>
  <2>0. role \in {"vault_a", "vault_b"}
    BY <1>2, <1>5 DEF role
  <2>1. s[1] \in {f.vault_a, f.vault_b} /\ s[2] = <<f.owner, "MintVault">>
    BY <1>3, <1>4, <2>0
  <2>2. AccountInfo(e, "MintVault", r[1]) \in Relations
    BY <1>5, OwnVaults
  <2>3. AccountInfo(f, "MintVault", s[1]) \in Relations
    BY <2>1, EntryRelations
  <2>4. AccountInfo(e, "MintVault", r[1]) = AccountInfo(f, "MintVault", s[1])
    BY <2>2, <2>3, OneRelation, InfoFields
  <2>5. e.owner = f.owner
    BY <2>4, InfoFields
  <2> QED
    BY <1>5, <2>1, <2>5
<1>6. CASE r[1] = Clock /\ r[2] = <<None, "Clock">>
  <2>1. role = "clock"
    BY <1>1, <1>6 DEF role
  <2>2. s[2] = <<None, "Clock">>
    BY <1>3, <1>4, <2>1
  <2> QED
    BY <1>6, <2>2
<1>7. CASE r[1] = <<"pool", e.pool>> /\ r[2] = <<e.owner, "Pool">>
  <2>1. role = "pool" /\ s[1][2] = e.pool
    BY <1>7 DEF role
  <2>2. s[1] = <<"pool", f.pool>> /\ s[2] = <<f.owner, "Pool">>
    BY <1>3, <1>4, <2>1
  <2>3. s[1][2] = f.pool
    BY <2>2
  <2>4. e.owner = f.owner
    BY <1>0, <2>1, <2>3
  <2> QED
    BY <1>7, <2>2, <2>4
<1>8. CASE r[1] = <<"extra", e.pool>> /\ r[2] = <<e.owner, ExtraType[e.owner]>>
  <2>1. role = "extra" /\ s[1][2] = e.pool
    BY <1>8 DEF role
  <2>2. s[1] = <<"extra", f.pool>> /\ s[2] = <<f.owner, ExtraType[f.owner]>>
    BY <1>3, <1>4, <2>1
  <2>3. s[1][2] = f.pool
    BY <2>2
  <2>4. e.owner = f.owner
    BY <1>0, <2>1, <2>3
  <2> QED
    BY <1>8, <2>2, <2>4
<1>9. CASE r[1] = <<"arrays", e.pool>> /\ r[2] = <<e.owner, ArrayType[e.owner]>>
  <2>1. role = "arrays" /\ s[1][2] = e.pool
    BY <1>9 DEF role
  <2>2. s[1] = <<"arrays", f.pool>> /\ s[2] = <<f.owner, ArrayType[f.owner]>>
    BY <1>3, <1>4, <2>1
  <2>3. s[1][2] = f.pool
    BY <2>2
  <2>4. e.owner = f.owner
    BY <1>0, <2>1, <2>3
  <2> QED
    BY <1>9, <2>2, <2>4
<1> QED
  BY <1>5, <1>6, <1>7, <1>8, <1>9, ReadKinds

\* A truthful entry's snapshot covers what its quotes read.
LEMMA SnapshotCovers ==
    ASSUME NEW e \in json, Truthful(e)
    PROVE  ReadsOf(e) = SnapshotReads(e)
BY DEF ReadsOf, SnapshotReads, Truthful

\* Reads are of accounts of the chain.
LEMMA ReadsInAccounts ==
    ASSUME JsonInv, NEW e \in json, NEW r \in ReadsOf(e)
    PROVE  r[1] \in Accounts
<1>1. e.pool \in Pools
  BY DEF JsonInv
<1>2. \A role \in Roles : <<role, e.pool>> \in Accounts
  BY <1>1 DEF Accounts
<1>3. Clock \in Accounts
  BY DEF Accounts
<1>4. \/ r[1] = <<"pool", e.pool>> \/ r[1] \in Vaults(e.pool) \/ r[1] = <<"extra", e.pool>>
      \/ r[1] = <<"arrays", e.pool>> \/ r[1] = Clock
  BY ReadKinds DEF ReadsOf
<1> QED
  BY <1>2, <1>3, <1>4 DEF Vaults, Roles

-----------------------------------------------------------------------------
(* The invariant *)

\* The snapshot's cache serves every read before the relations are set.
THEOREM InitInv == Init => FeedInv
<1> SUFFICES ASSUME Init PROVE FeedInv
  OBVIOUS
<1>1. dex \in [Pools -> Dexes]
  BY FeedAssumption DEF Init
<1>2. PICK listed \in SUBSET Pools : \E claim \in [listed -> Pools] :
        json = {Entry(p, claim[p]) : p \in listed}
  BY DEF Init
<1>3. PICK claim \in [listed -> Pools] : json = {Entry(p, claim[p]) : p \in listed}
  BY <1>2
<1>4. JsonInv
  <2> SUFFICES ASSUME NEW e \in json
               PROVE  /\ e \in [pool : Pools, owner : Dexes, vault_a : {"vault_a"} \X Pools,
                                vault_b : {"vault_b"} \X Pools]
                      /\ e.owner = dex[e.pool]
    BY <1>1 DEF JsonInv
  <2>1. PICK p \in listed : e = Entry(p, claim[p])
    BY <1>3
  <2> QED
    BY <1>1, <2>1 DEF Entry
<1>5. RelationInv
  BY DEF Init, RelationInv
<1>6. version \in [Accounts -> Nat]
  <2>1. PICK created \in BOOLEAN :
         version = [k \in Accounts |->
            IF k = Clock THEN 1
            ELSE IF k[1] \notin Exists(k[2]) THEN 0
            ELSE IF k[1] = "arrays" \/ (k[1] = "extra" /\ dex[k[2]] # "RaydiumCLMM")
                   THEN IF created THEN 1 ELSE 0
            ELSE 1]
    BY DEF Init
  <2> QED
    BY <2>1
<1>7. \A k \in Accounts : version[k] > 0 => version[k] = 1
  BY DEF Init
<1>8. ASSUME ~Duplicated, NEW e \in json, Truthful(e), NEW r \in ReadsOf(e)
      PROVE  Served(r)
  <2> DEFINE reads == UNION {SnapshotReads(f) : f \in json}
  <2>1. r[1] \in Accounts
    BY <1>4, ReadsInAccounts
  <2>2. r \in reads
    BY <1>8, SnapshotCovers
  <2> DEFINE chosen == CHOOSE x \in reads : x[1] = r[1]
  <2>4. chosen \in reads /\ chosen[1] = r[1]
    BY <2>2
  <2>5. PICK f \in json : chosen \in SnapshotReads(f)
    BY <2>4
  <2>6. chosen[2] = r[2]
    BY <1>4, <1>8, <2>4, <2>5, OneType
  <2>7. dynamic = [k \in {x[1] : x \in reads} \cap {a \in Accounts : version[a] > 0} |->
                     SliceOf(k, (CHOOSE x \in reads : x[1] = k)[2], 1)]
    BY DEF Init
  <2>8. r[1] \in DOMAIN dynamic <=> version[r[1]] > 0
    BY <2>1, <2>2, <2>7
  <2>9. CASE r[1] \in DOMAIN dynamic
    <3>1. dynamic[r[1]] = SliceOf(r[1], r[2], 1)
      BY <2>6, <2>7, <2>9
    <3>2. dynamic[r[1]] = [layout |-> r[2], version |-> 1, whole |-> TRUE]
      BY <1>4, <1>8, <3>1, ReadsAreWhole DEF SliceOf
    <3>3. CachedVersion(r[1]) = 1
      BY <1>7, <2>1, <2>8, <2>9 DEF CachedVersion
    <3> QED
      BY <2>9, <3>2, <3>3 DEF Served
  <2>10. CASE r[1] \notin DOMAIN dynamic
    BY <2>8, <2>10 DEF Served
  <2> QED
    BY <2>9, <2>10
<1> QED
  BY <1>4, <1>5, <1>6, <1>8 DEF FeedInv, CacheInv

\* InitAccountRelations leaves the relations of the json, or fails.
LEMMA RelationsStep ==
    ASSUME FeedInv, InitAccountRelations
    PROVE  FeedInv'
<1>1. UNCHANGED <<dex, version, json, subscribed, dynamic>>
  BY DEF InitAccountRelations
<1>2. JsonInv'
  BY <1>1 DEF FeedInv, JsonInv
<1>3. Relations' = Relations /\ Keys' = Keys /\ (Duplicated' <=> Duplicated)
  BY <1>1 DEF Relations, Keys, Duplicated, GetAccountInfo, AccountInfo
<1>4. RelationInv'
  <2>1. CASE Duplicated
    BY <2>1 DEF InitAccountRelations, RelationInv
  <2>2. CASE ~Duplicated
    <3>1. SetRelations
      BY <2>2 DEF InitAccountRelations
    <3>2. \A k \in Keys : \E r \in Relations : r.account_key = k
      BY DEF Keys
    <3>3. DOMAIN relation' = Keys
      BY <3>1 DEF SetRelations
    <3>4. \A k \in Keys : relation'[k] \in Relations /\ relation'[k].account_key = k
      BY <3>1, <3>2 DEF SetRelations
    <3>5. /\ DOMAIN supplementary' = {e.owner : e \in json} \cap DOMAIN ArrayType
          /\ \A d \in DOMAIN supplementary' : supplementary'[d] = ArrayType[d]
      BY <3>1 DEF SetRelations
    <3>6. {e.owner : e \in json'} = {e.owner : e \in json}
      BY <1>1
    <3> QED
      BY <1>3, <2>2, <3>3, <3>4, <3>5, <3>6 DEF RelationInv
  <2> QED
    BY <2>1, <2>2
<1>5. CacheInv'
  BY <1>1, <1>3 DEF FeedInv, CacheInv, Served, CachedVersion, ReadsOf, Truthful,
                         QuoteReads, Vaults
<1> QED
  BY <1>2, <1>4, <1>5 DEF FeedInv

\* A handled update keeps every read served: the account's own reads get its new
\* version in their layout, and no other account's entry changes.
LEMMA UpdateStep ==
    ASSUME FeedInv, NEW k \in Accounts, UpdateCache(k)
    PROVE  FeedInv'
<1>1. UNCHANGED <<dex, json, subscribed, status, relation, supplementary>>
  BY DEF UpdateCache
<1>2. JsonInv'
  BY <1>1 DEF FeedInv, JsonInv
<1>3. Relations' = Relations /\ Keys' = Keys /\ (Duplicated' <=> Duplicated)
  BY <1>1 DEF Relations, Keys, Duplicated, GetAccountInfo, AccountInfo
<1>4. RelationInv'
  BY <1>1, <1>3 DEF FeedInv, RelationInv
<1>5. version' \in [Accounts -> Nat] /\ version' = [version EXCEPT ![k] = @ + 1]
  BY DEF FeedInv, CacheInv, UpdateCache
<1>6. ASSUME ~Duplicated, NEW e \in json, Truthful(e), NEW r \in ReadsOf(e)
      PROVE  Served(r)'
  <2>0. r[1] \in Accounts
    BY <1>6, ReadsInAccounts DEF FeedInv
  <2>1. CASE r[1] = k /\ k \in subscribed
    <3>1. Cached(k) /\ Slice(k) = r[2]
      BY <1>6, <2>1, ReadsAreSliced DEF FeedInv, UpdateCache
    <3>2. dynamic' = Put(k, [layout |-> r[2], version |-> version[k] + 1, whole |-> TRUE])
      <4>1. Whole(k, r[2]) = TRUE
        BY <1>6, <2>1, ReadsAreWhole DEF FeedInv
      <4> QED
        BY <2>1, <3>1, <4>1 DEF UpdateCache, Forwarded, SliceOf
    <3>3. /\ k \in DOMAIN dynamic'
          /\ dynamic'[k] = [layout |-> r[2], version |-> version[k] + 1, whole |-> TRUE]
      BY <3>2 DEF Put
    <3>4. CachedVersion(k)' = version[k] + 1
      BY <1>1, <1>5, <2>1 DEF FeedInv, CacheInv, CachedVersion
    <3> QED
      BY <2>1, <3>3, <3>4 DEF Served
  <2>2. CASE r[1] = k /\ k \notin subscribed
    <3>1. dynamic' = dynamic
      BY <2>2 DEF UpdateCache, Forwarded
    <3>2. Served(r)
      BY <1>6 DEF FeedInv, CacheInv
    <3>3. CachedVersion(k)' = 1 /\ CachedVersion(k) = 1
      BY <1>1, <2>2 DEF CachedVersion
    <3> QED
      BY <1>1, <2>2, <3>1, <3>2, <3>3 DEF Served
  <2>3. CASE r[1] # k
    <3>1. version'[r[1]] = version[r[1]] /\ CachedVersion(r[1])' = CachedVersion(r[1])
      BY <1>1, <1>5, <2>0, <2>3 DEF FeedInv, CacheInv, CachedVersion
    <3>2. Served(r)
      BY <1>6 DEF FeedInv, CacheInv
    <3>3. /\ r[1] \in DOMAIN dynamic' <=> r[1] \in DOMAIN dynamic
          /\ r[1] \in DOMAIN dynamic => dynamic'[r[1]] = dynamic[r[1]]
      BY <2>3 DEF UpdateCache, Put
    <3> QED
      BY <1>1, <3>1, <3>2, <3>3 DEF Served
  <2> QED
    BY <2>1, <2>2, <2>3
<1>7. CacheInv'
  BY <1>1, <1>3, <1>5, <1>6
     DEF CacheInv, Served, CachedVersion, ReadsOf, Truthful, QuoteReads, Vaults
<1> QED
  BY <1>2, <1>4, <1>7 DEF FeedInv

\* A step that touches neither the chain nor what the invariant reads.
LEMMA OtherStep ==
    ASSUME FeedInv,
           UNCHANGED <<dex, version, json, subscribed, status, relation, supplementary, dynamic>>
    PROVE  FeedInv'
<1>1. Relations' = Relations /\ Keys' = Keys /\ (Duplicated' <=> Duplicated)
  BY DEF Relations, Keys, Duplicated, GetAccountInfo, AccountInfo
<1>2. JsonInv' /\ RelationInv'
  BY <1>1 DEF FeedInv, JsonInv, RelationInv
<1>3. CacheInv'
  BY <1>1 DEF FeedInv, CacheInv, Served, CachedVersion, ReadsOf, Truthful,
                         QuoteReads, Vaults
<1> QED
  BY <1>2, <1>3 DEF FeedInv

\* Every step of the feed, handled messages included, keeps the invariant.
THEOREM Inductive == Spec => []FeedInv
<1>1. FeedInv /\ [Next]_vars => FeedInv'
  <2> SUFFICES ASSUME FeedInv, [Next]_vars PROVE FeedInv'
    OBVIOUS
  <2>1. CASE InitAccountRelations
    BY <2>1, RelationsStep
  <2>2. ASSUME NEW k \in Written, UpdateCache(k) PROVE FeedInv'
    BY <2>2, UpdateStep DEF Written
  <2>3. ASSUME NEW t \in Transactions, HandleTransaction(t) PROVE FeedInv'
    BY <2>3, OtherStep DEF HandleTransaction
  <2>4. CASE UNCHANGED vars
    BY <2>4, OtherStep DEF vars
  <2> QED
    BY <2>1, <2>2, <2>3, <2>4 DEF Next
<1> QED
  BY <1>1, InitInv, PTL DEF Spec

-----------------------------------------------------------------------------
(* What is followed and what is read *)

\* Whatever other entries claim, the vaults of a truthfully listed pool are
\* followed as that pool's as soon as init_account_relations has succeeded.
THEOREM VaultsAreFollowed == Spec => []VaultsFollowed
<1>1. FeedInv => VaultsFollowed
  <2> SUFFICES ASSUME FeedInv, status = "ready", NEW e \in json, Truthful(e),
                      NEW v \in Vaults(e.pool)
               PROVE  /\ v \in DOMAIN relation
                      /\ relation[v].pool_id = e.pool /\ relation[v].dex_type = e.owner
    BY DEF VaultsFollowed
  <2>1. AccountInfo(e, "MintVault", v) \in Relations
    BY OwnVaults
  <2>2. v \in DOMAIN relation /\ relation[v] = AccountInfo(e, "MintVault", v)
    BY <2>1, LookUp, InfoFields DEF FeedInv
  <2> QED
    BY <2>2, InfoFields
<1> QED
  BY <1>1, Inductive, PTL

\* For every DEX and any number of pools: each account a quote of a truthfully
\* listed pool reads from the dynamic cache is in the layout it is read in; it is
\* there in its last version if it is subscribed to, and keeps the snapshot's if
\* it is not, whatever the subscribers list.
THEOREM QuotesReadTheSubscribed == Spec => []QuotesReadWhatIsFollowed
<1>1. FeedInv => QuotesReadWhatIsFollowed
  BY DEF FeedInv, RelationInv, CacheInv, QuotesReadWhatIsFollowed, Served, CachedVersion, ReadsOf
<1> QED
  BY <1>1, Inductive, PTL

-----------------------------------------------------------------------------
(* Sets of numbers in ascending order *)

Rank(P, i) == Cardinality({j \in P : j <= i})

\* The rank counts, so it is injective and takes every value up to the size.
LEMMA Ranks ==
    ASSUME NEW N \in Nat, NEW P \in SUBSET (1..N)
    PROVE  /\ IsFiniteSet(P) /\ Cardinality(P) \in Nat
           /\ \A i \in P : Rank(P, i) \in 1..Cardinality(P)
           /\ \A i, k \in P : i < k => Rank(P, i) < Rank(P, k)
           /\ \A n \in 1..Cardinality(P) : \E i \in P : Rank(P, i) = n
<1>0. \A i \in P : i \in Int
  OBVIOUS
<1>1. IsFiniteSet(1..N) /\ IsFiniteSet(P) /\ Cardinality(P) \in Nat
  <2>1. IsFiniteSet(1..N)
    BY FS_Interval
  <2>2. IsFiniteSet(P)
    BY <2>1, FS_Subset
  <2> QED
    BY <2>1, <2>2, FS_CardinalityType
<1> DEFINE Upto(i) == {j \in P : j <= i}
<1>2. \A i \in P : /\ Upto(i) \in SUBSET P /\ IsFiniteSet(Upto(i))
                   /\ Cardinality(Upto(i)) \in Nat /\ Cardinality(Upto(i)) <= Cardinality(P)
  <2> SUFFICES ASSUME NEW i \in P
               PROVE  /\ Upto(i) \in SUBSET P /\ IsFiniteSet(Upto(i))
                      /\ Cardinality(Upto(i)) \in Nat /\ Cardinality(Upto(i)) <= Cardinality(P)
    OBVIOUS
  <2>1. Upto(i) \in SUBSET P
    OBVIOUS
  <2> HIDE DEF Upto
  <2> QED
    BY <1>1, <2>1, FS_Subset, FS_CardinalityType
<1>3. \A i \in P : Cardinality(Upto(i)) # 0
  <2> SUFFICES ASSUME NEW i \in P PROVE Upto(i) # {}
    BY <1>2, FS_EmptySet
  <2> QED
    OBVIOUS
<1>4. \A i, k \in P : i < k => Cardinality(Upto(i)) < Cardinality(Upto(k))
  <2> SUFFICES ASSUME NEW i \in P, NEW k \in P, i < k
               PROVE  Cardinality(Upto(i)) < Cardinality(Upto(k))
    OBVIOUS
  <2>1. Upto(i) \in SUBSET Upto(k) /\ k \in Upto(k) /\ k \notin Upto(i)
    <3>1. i \in Int /\ k \in Int
      BY <1>0
    <3>2. ASSUME NEW j \in P, j <= i PROVE j <= k
      <4>1. j \in Int
        BY <1>0
      <4> QED
        BY <3>1, <3>2, <4>1
    <3>3. k <= k /\ ~(k <= i)
      BY <3>1
    <3> QED
      BY <3>2, <3>3
  <2> HIDE DEF Upto
  <2>2. Cardinality(Upto(i)) <= Cardinality(Upto(k)) /\ Cardinality(Upto(i)) # Cardinality(Upto(k))
    BY <1>2, <2>1, FS_Subset
  <2> QED
    BY <1>2, <2>2
<1>5. \A i \in P : Cardinality(Upto(i)) \in 1..Cardinality(P)
  BY <1>1, <1>2, <1>3
<1> HIDE DEF Upto
<1>6. \A n \in 1..Cardinality(P) : \E i \in P : Cardinality(Upto(i)) = n
  <2> DEFINE f == [i \in P |-> Cardinality(Upto(i))]
  <2>1. f \in [P -> 1..Cardinality(P)]
    BY <1>5
  <2>2. \A i, k \in P : f[i] = f[k] => i = k
    <3> SUFFICES ASSUME NEW i \in P, NEW k \in P, f[i] = f[k] PROVE i = k
      OBVIOUS
    <3>1. Cardinality(Upto(i)) = Cardinality(Upto(k)) /\ i \in Int /\ k \in Int
      OBVIOUS
    <3>2. ~(i < k) /\ ~(k < i)
      BY <1>2, <1>4, <3>1
    <3> QED
      BY <3>1, <3>2
  <2>3. f \in Injection(P, 1..Cardinality(P))
    BY <2>1, <2>2 DEF Injection, IsInjective
  <2>4. IsFiniteSet(1..Cardinality(P)) /\ Cardinality(1..Cardinality(P)) = Cardinality(P)
    BY <1>1, FS_Interval
  <2>5. f \in Surjection(P, 1..Cardinality(P))
    BY <2>3, <2>4, FS_Injection
  <2> QED
    BY <2>5 DEF Surjection
<1> QED
  BY <1>1, <1>4, <1>5, <1>6 DEF Rank, Upto

\* InOrder lists every element of the set, in ascending order.
LEMMA InOrderLists ==
    ASSUME NEW N \in Nat, NEW P \in SUBSET (1..N)
    PROVE  /\ InOrder(P) \in [1..Cardinality(P) -> P]
           /\ \A n \in 1..Cardinality(P) : Rank(P, InOrder(P)[n]) = n
           /\ \A m, n \in 1..Cardinality(P) : m < n => InOrder(P)[m] < InOrder(P)[n]
           /\ \A i \in P : \E n \in 1..Cardinality(P) : InOrder(P)[n] = i
<1> DEFINE q == InOrder(P)
<1>0. \A i \in P : i \in Int
  OBVIOUS
<1>1. /\ Cardinality(P) \in Nat
      /\ \A i \in P : Rank(P, i) \in 1..Cardinality(P)
      /\ \A i, k \in P : i < k => Rank(P, i) < Rank(P, k)
      /\ \A n \in 1..Cardinality(P) : \E i \in P : Rank(P, i) = n
  BY Ranks
<1>2. q = [n \in 1..Cardinality(P) |-> CHOOSE i \in P : Rank(P, i) = n]
  BY DEF InOrder, Rank
<1>3. \A n \in 1..Cardinality(P) : q[n] \in P /\ Rank(P, q[n]) = n
  BY <1>1, <1>2
<1>4. q \in [1..Cardinality(P) -> P]
  BY <1>2, <1>3
<1> HIDE DEF q
<1>5. \A i, k \in P : Rank(P, i) = Rank(P, k) => i = k
  <2> SUFFICES ASSUME NEW i \in P, NEW k \in P, Rank(P, i) = Rank(P, k) PROVE i = k
    OBVIOUS
  <2>1. i \in Int /\ k \in Int /\ Rank(P, i) \in Int
    BY <1>1
  <2>2. ~(i < k) /\ ~(k < i)
    BY <1>1, <2>1
  <2> QED
    BY <2>1, <2>2
<1>6. \A m, n \in 1..Cardinality(P) : m < n => q[m] < q[n]
  <2> SUFFICES ASSUME NEW m \in 1..Cardinality(P), NEW n \in 1..Cardinality(P), m < n,
                      ~(q[m] < q[n])
               PROVE  FALSE
    OBVIOUS
  <2>1. q[m] \in P /\ q[n] \in P /\ Rank(P, q[m]) = m /\ Rank(P, q[n]) = n
    BY <1>3
  <2>2. q[m] \in Int /\ q[n] \in Int
    BY <1>0, <2>1
  <2>3. q[n] < q[m] \/ q[n] = q[m]
    BY <2>2
  <2>4. n < m \/ n = m
    BY <1>1, <2>1, <2>3
  <2> QED
    BY <2>4
<1>7. \A i \in P : \E n \in 1..Cardinality(P) : q[n] = i
  BY <1>1, <1>3, <1>5
<1> QED
  BY <1>3, <1>4, <1>6, <1>7 DEF q

\* There is only one way to list a set of numbers in ascending order.
LEMMA OneOrder ==
    ASSUME NEW N \in Nat, NEW P \in SUBSET (1..N), NEW M \in Nat, NEW s \in [1..M -> P],
           \A m, n \in 1..M : m < n => s[m] < s[n],
           \A i \in P : \E n \in 1..M : s[n] = i
    PROVE  M = Cardinality(P) /\ s = InOrder(P)
<1>0. /\ \A i \in P : i \in Int
      /\ \A m \in 1..M : s[m] \in P /\ s[m] \in Int
  <2>1. \A i \in P : i \in Int
    OBVIOUS
  <2>2. \A m \in 1..M : s[m] \in P
    OBVIOUS
  <2> QED
    BY <2>1, <2>2
<1>1. \A m, n \in 1..M : s[m] = s[n] => m = n
  <2> SUFFICES ASSUME NEW m \in 1..M, NEW n \in 1..M, s[m] = s[n] PROVE m = n
    OBVIOUS
  <2>1. s[m] \in Int /\ s[n] \in Int
    BY <1>0
  <2>2. ~(m < n) /\ ~(n < m)
    BY <2>1
  <2> QED
    BY <2>2
<1>2. s \in Bijection(1..M, P)
  BY <1>1 DEF Bijection, Injection, Surjection, IsInjective
<1>3. M = Cardinality(P)
  <2>1. IsFiniteSet(1..M) /\ Cardinality(1..M) = M
    BY FS_Interval
  <2>2. ExistsBijection(1..M, P)
    BY <1>2 DEF ExistsBijection
  <2> QED
    BY <2>1, <2>2, FS_Bijection
<1>4. ASSUME NEW n \in 1..M PROVE Rank(P, s[n]) = n
  <2> DEFINE below == {j \in P : j <= s[n]}
             f == [m \in 1..n |-> s[m]]
  <2>1. \A m \in 1..n : m \in 1..M /\ s[m] \in below
    <3> SUFFICES ASSUME NEW m \in 1..n PROVE m \in 1..M /\ s[m] \in below
      OBVIOUS
    <3>1. m \in 1..M /\ (m < n \/ m = n)
      OBVIOUS
    <3>2. s[m] \in P /\ s[m] \in Int /\ s[n] \in Int
      BY <1>0, <3>1
    <3>3. s[m] < s[n] \/ s[m] = s[n]
      BY <3>1
    <3> QED
      BY <3>1, <3>2, <3>3
  <2>2. \A j \in below : \E m \in 1..n : s[m] = j
    <3> SUFFICES ASSUME NEW j \in below PROVE \E m \in 1..n : s[m] = j
      OBVIOUS
    <3>1. PICK m \in 1..M : s[m] = j
      OBVIOUS
    <3>2. s[m] <= s[n] /\ s[m] \in Int /\ s[n] \in Int
      BY <1>0, <3>1
    <3>3. ~(n < m)
      BY <3>2
    <3> QED
      BY <3>1, <3>3
  <2>3. f \in Bijection(1..n, below)
    <3>1. f \in [1..n -> below]
      BY <2>1
    <3>2. \A a, b \in 1..n : f[a] = f[b] => a = b
      BY <1>1, <2>1
    <3>3. \A j \in below : \E m \in 1..n : f[m] = j
      BY <2>2
    <3> HIDE DEF f, below
    <3> QED
      BY <3>1, <3>2, <3>3 DEF Bijection, Injection, Surjection, IsInjective
  <2> HIDE DEF f, below
  <2>4. IsFiniteSet(1..n) /\ Cardinality(1..n) = n
    BY FS_Interval
  <2>5. ExistsBijection(1..n, below)
    BY <2>3 DEF ExistsBijection
  <2>6. Cardinality(below) = n
    BY <2>4, <2>5, FS_Bijection, SMTT(30)
  <2> QED
    BY <2>6 DEF Rank, below
<1>5. ASSUME NEW n \in 1..M PROVE s[n] = InOrder(P)[n]
  <2>1. InOrder(P)[n] \in P /\ Rank(P, InOrder(P)[n]) = n /\ s[n] \in P /\ Rank(P, s[n]) = n
    BY <1>3, <1>4, InOrderLists
  <2>2. s[n] \in Int /\ InOrder(P)[n] \in Int
    BY <1>0, <2>1
  <2>3. \A i, k \in P : i < k => Rank(P, i) < Rank(P, k)
    BY Ranks
  <2>4. ~(s[n] < InOrder(P)[n]) /\ ~(InOrder(P)[n] < s[n])
    <3>1. ~(n < n)
      OBVIOUS
    <3> QED
      BY <2>1, <2>3, <3>1
  <2> QED
    BY <2>2, <2>4
<1>6. InOrder(P) \in [1..M -> P]
  BY <1>3, InOrderLists
<1> QED
  BY <1>3, <1>5, <1>6

\* Positions among the elements listed, as positions among all.
Among(P, S) == {InOrder(P)[n] : n \in S}

\* Elements picked from those picked before are those of the positions left.
LEMMA AtAt ==
    ASSUME NEW N \in Nat, NEW P \in SUBSET (1..N), NEW s, NEW S \in SUBSET (1..Cardinality(P))
    PROVE  At(At(s, P), S) = At(s, Among(P, S))
<1> DEFINE q == InOrder(P)
           J == {q[n] : n \in S}
           o == InOrder(S)
           c == [n \in 1..Cardinality(S) |-> q[o[n]]]
<1>1. /\ Cardinality(P) \in Nat
      /\ q \in [1..Cardinality(P) -> P]
      /\ \A m, n \in 1..Cardinality(P) : m < n => q[m] < q[n]
  BY Ranks, InOrderLists
<1>2. /\ Cardinality(S) \in Nat
      /\ o \in [1..Cardinality(S) -> S]
      /\ \A m, n \in 1..Cardinality(S) : m < n => o[m] < o[n]
      /\ \A i \in S : \E n \in 1..Cardinality(S) : o[n] = i
  BY <1>1, Ranks, InOrderLists
<1> HIDE DEF q, o
<1>3. J \in SUBSET (1..N)
  BY <1>1
<1>4. c \in [1..Cardinality(S) -> J]
  BY <1>2
<1>5. \A m, n \in 1..Cardinality(S) : m < n => c[m] < c[n]
  BY <1>1, <1>2
<1>6. \A i \in J : \E n \in 1..Cardinality(S) : c[n] = i
  BY <1>2
<1> HIDE DEF c, J
<1>7. Cardinality(S) = Cardinality(J) /\ c = InOrder(J)
  BY <1>2, <1>3, <1>4, <1>5, <1>6, OneOrder
<1>8. At(At(s, P), S) = [n \in 1..Cardinality(S) |-> s[q[o[n]]]]
  <2>1. At(s, P) = [n \in 1..Cardinality(P) |-> s[q[n]]]
    BY DEF At, q
  <2>2. At(At(s, P), S) = [n \in 1..Cardinality(S) |-> At(s, P)[o[n]]]
    BY DEF At, o
  <2>3. \A n \in 1..Cardinality(S) : At(s, P)[o[n]] = s[q[o[n]]]
    BY <1>2, <2>1
  <2> QED
    BY <2>2, <2>3
<1>9. At(s, J) = [n \in 1..Cardinality(S) |-> s[c[n]]]
  BY <1>7 DEF At
<1>10. \A n \in 1..Cardinality(S) : c[n] = q[o[n]]
  BY DEF c
<1> QED
  BY <1>8, <1>9, <1>10 DEF J, q, Among

\* What a list picked by positions holds.
LEMMA AtLists ==
    ASSUME NEW N \in Nat, NEW P \in SUBSET (1..N), NEW s, NEW T
    PROVE  /\ Cardinality(P) \in Nat
           /\ DOMAIN At(s, P) = 1..Cardinality(P)
           /\ \A n \in 1..Cardinality(P) : InOrder(P)[n] \in P /\ At(s, P)[n] = s[InOrder(P)[n]]
           /\ \A i \in P : \E n \in 1..Cardinality(P) : InOrder(P)[n] = i
           /\ (\A i \in P : s[i] \in T)
                => At(s, P) \in Seq(T) /\ Len(At(s, P)) = Cardinality(P)
<1>1. /\ Cardinality(P) \in Nat
      /\ InOrder(P) \in [1..Cardinality(P) -> P]
      /\ \A i \in P : \E n \in 1..Cardinality(P) : InOrder(P)[n] = i
  BY Ranks, InOrderLists
<1>2. At(s, P) = [n \in 1..Cardinality(P) |-> s[InOrder(P)[n]]]
  BY DEF At
<1>3. ASSUME \A i \in P : s[i] \in T
      PROVE  At(s, P) \in Seq(T) /\ Len(At(s, P)) = Cardinality(P)
  <2>1. At(s, P) \in [1..Cardinality(P) -> T]
    BY <1>1, <1>2, <1>3
  <2> QED
    BY <1>1, <2>1
<1>4. \A n \in 1..Cardinality(P) : InOrder(P)[n] \in P
  BY <1>1
<1> QED
  BY <1>1, <1>2, <1>3, <1>4

\* filter_map keeps the positions that have an answer.
LEMMA SomeIs ==
    ASSUME NEW N \in Nat, NEW P \in SUBSET (1..N), NEW s
    PROVE  Some(At(s, P)) = At(s, {i \in P : s[i] # None})
<1> DEFINE q == InOrder(P)
           S == {n \in DOMAIN At(s, P) : At(s, P)[n] # None}
<1>1. /\ q \in [1..Cardinality(P) -> P]
      /\ \A i \in P : \E n \in 1..Cardinality(P) : q[n] = i
  BY InOrderLists
<1>2. At(s, P) = [n \in 1..Cardinality(P) |-> s[q[n]]]
  BY DEF At
<1> HIDE DEF q
<1>3. S = {n \in 1..Cardinality(P) : s[q[n]] # None}
  BY <1>2
<1>4. {q[n] : n \in S} = {i \in P : s[i] # None}
  <2>1. ASSUME NEW n \in S PROVE q[n] \in {i \in P : s[i] # None}
    BY <1>1, <1>3
  <2>2. ASSUME NEW i \in P, s[i] # None PROVE \E n \in S : q[n] = i
    BY <1>1, <1>3, <2>2
  <2> HIDE DEF S
  <2> QED
    BY <2>1, <2>2
<1>5. S \in SUBSET (1..Cardinality(P))
  BY <1>3
<1>6. Some(At(s, P)) = At(At(s, P), S)
  BY DEF Some
<1> HIDE DEF S
<1>7. Some(At(s, P)) = At(s, Among(P, S))
  BY <1>5, <1>6, AtAt, Zenon
<1> QED
  BY <1>4, <1>7 DEF q, Among

\* A list filtered by account index keeps the rows of those indices.
LEMMA Filtering ==
    ASSUME NEW N \in Nat, NEW P \in SUBSET (1..N), NEW s, NEW indices
    PROVE  (\A i \in P : s[i].account_index = i)
             => /\ Indices(At(s, P)) = P
                /\ OnlyIn(At(s, P), indices) = At(s, P \cap indices)
<1> DEFINE q == InOrder(P)
           c == Cardinality(P)
           b == At(s, P)
           S == {n \in DOMAIN b : b[n].account_index \in indices}
<1>1. /\ q \in [1..c -> P]
      /\ \A i \in P : \E n \in 1..c : q[n] = i
  BY InOrderLists
<1>2. b = [n \in 1..c |-> s[q[n]]]
  BY DEF At
<1> HIDE DEF q, b, c
<1>0. SUFFICES ASSUME \A i \in P : s[i].account_index = i
             PROVE  Indices(b) = P /\ OnlyIn(b, indices) = At(s, P \cap indices)
  BY DEF b
<1>3. DOMAIN b = 1..c /\ \A n \in 1..c : b[n].account_index = q[n]
  <2>1. \A n \in 1..c : q[n] \in P
    BY <1>1
  <2>2. \A n \in 1..c : b[n] = s[q[n]]
    BY <1>2
  <2>3. \A n \in 1..c : s[q[n]].account_index = q[n]
    BY <1>0, <2>1
  <2> QED
    BY <1>2, <2>2, <2>3
<1>4. Indices(b) = P
  <2>1. Indices(b) = {q[n] : n \in 1..c}
    BY <1>3 DEF Indices
  <2> QED
    BY <1>1, <2>1
<1>5. {q[n] : n \in S} = P \cap indices
  <2>1. S = {n \in 1..c : q[n] \in indices}
    BY <1>3
  <2> QED
    BY <1>1, <2>1
<1>6. S \in SUBSET (1..c)
  BY <1>3
<1>7. OnlyIn(b, indices) = At(b, S)
  BY DEF OnlyIn
<1> HIDE DEF S
<1>8. At(b, S) = At(s, Among(P, S))
  BY <1>6, AtAt, Zenon DEF b, c
<1> QED
  BY <1>4, <1>5, <1>7, <1>8 DEF q, b, c, Among

\* What is picked by positions depends on what is there only.
LEMMA AtAgrees ==
    ASSUME NEW N \in Nat, NEW P \in SUBSET (1..N), NEW s, NEW r
    PROVE  (\A i \in P : s[i] = r[i]) => At(s, P) = At(r, P)
<1>1. InOrder(P) \in [1..Cardinality(P) -> P]
  BY InOrderLists
<1>2. /\ At(s, P) = [n \in 1..Cardinality(P) |-> s[InOrder(P)[n]]]
      /\ At(r, P) = [n \in 1..Cardinality(P) |-> r[InOrder(P)[n]]]
  BY DEF At
<1>3. \A n \in 1..Cardinality(P) : InOrder(P)[n] \in P
  BY <1>1
<1> QED
  BY <1>2, <1>3

\* A list that holds s[i] once for each i of P.
Lists(list, s, P, T) ==
    /\ list \in Seq(T) /\ Len(list) = Cardinality(P)
    /\ \A n \in 1..Len(list) : \E i \in P : list[n] = s[i]
    /\ \A i \in P : \E n \in 1..Len(list) : list[n] = s[i]

\* Picking the positions P of s is such a list.
LEMMA AtIsList ==
    ASSUME NEW N \in Nat, NEW P \in SUBSET (1..N), NEW s, NEW T
    PROVE  (\A i \in P : s[i] \in T) => Lists(At(s, P), s, P, T)
<1>1. /\ \A n \in 1..Cardinality(P) : InOrder(P)[n] \in P /\ At(s, P)[n] = s[InOrder(P)[n]]
      /\ \A i \in P : \E n \in 1..Cardinality(P) : InOrder(P)[n] = i
      /\ (\A i \in P : s[i] \in T)
           => At(s, P) \in Seq(T) /\ Len(At(s, P)) = Cardinality(P)
  <2>1. \A n \in 1..Cardinality(P) : InOrder(P)[n] \in P /\ At(s, P)[n] = s[InOrder(P)[n]]
    <3>1. InOrder(P) \in [1..Cardinality(P) -> P]
      BY InOrderLists
    <3> QED
      BY <3>1 DEF At
  <2>2. \A i \in P : \E n \in 1..Cardinality(P) : InOrder(P)[n] = i
    BY AtLists
  <2>3. (\A i \in P : s[i] \in T)
           => At(s, P) \in Seq(T) /\ Len(At(s, P)) = Cardinality(P)
    BY AtLists
  <2> QED
    BY <2>1, <2>2, <2>3
<1>2. ASSUME \A i \in P : s[i] \in T PROVE Lists(At(s, P), s, P, T)
  <2>1. At(s, P) \in Seq(T) /\ Len(At(s, P)) = Cardinality(P)
    BY <1>1, <1>2
  <2>2. \A n \in 1..Len(At(s, P)) : \E i \in P : At(s, P)[n] = s[i]
    BY <1>1, <2>1
  <2>3. \A i \in P : \E n \in 1..Len(At(s, P)) : At(s, P)[n] = s[i]
    BY <1>1, <2>1
  <2> QED
    BY <2>1, <2>2, <2>3 DEF Lists
<1> QED
  BY <1>2

\* Lists of disjoint positions, one after the other.
LEMMA Joined ==
    ASSUME NEW N \in Nat, NEW A \in SUBSET (1..N), NEW B \in SUBSET (1..N), A \cap B = {},
           NEW s, NEW T, NEW l, NEW m, Lists(l, s, A, T), Lists(m, s, B, T)
    PROVE  Lists(l \o m, s, A \cup B, T)
<1>1. l \in Seq(T) /\ m \in Seq(T) /\ Len(l) = Cardinality(A) /\ Len(m) = Cardinality(B)
  BY DEF Lists
<1>2. /\ Len(l) \in Nat /\ Len(m) \in Nat
      /\ l \o m \in Seq(T) /\ Len(l \o m) = Len(l) + Len(m)
      /\ \A i \in 1 .. Len(l) + Len(m) :
           (l \o m)[i] = IF i <= Len(l) THEN l[i] ELSE m[i - Len(l)]
  BY <1>1, ConcatProperties, LenProperties
<1>3. Cardinality(A \cup B) = Cardinality(A) + Cardinality(B)
  <2>1. IsFiniteSet(A) /\ IsFiniteSet(B)
    BY Ranks
  <2>2. /\ Cardinality(A \cup B) = Cardinality(A) + Cardinality(B) - Cardinality(A \cap B)
        /\ Cardinality(A \cap B) = 0
    <3>1. Cardinality(A \cup B) = Cardinality(A) + Cardinality(B) - Cardinality(A \cap B)
      BY <2>1, FS_Union
    <3>2. Cardinality({}) = 0
      BY FS_EmptySet
    <3> QED
      BY <3>1, <3>2
  <2>3. Cardinality(A) \in Nat /\ Cardinality(B) \in Nat
    BY Ranks
  <2> QED
    BY <2>2, <2>3
<1>4. ASSUME NEW n \in 1..Len(l \o m) PROVE \E i \in A \cup B : (l \o m)[n] = s[i]
  <2>1. CASE n <= Len(l)
    <3>1. (l \o m)[n] = l[n] /\ n \in 1..Len(l)
      BY <1>2, <2>1
    <3> QED
      BY <3>1 DEF Lists
  <2>2. CASE ~(n <= Len(l))
    <3>1. (l \o m)[n] = m[n - Len(l)] /\ n - Len(l) \in 1..Len(m)
      BY <1>2, <2>2
    <3>2. PICK i \in B : m[n - Len(l)] = s[i]
      BY <3>1 DEF Lists
    <3> QED
      BY <3>1, <3>2
  <2> QED
    BY <2>1, <2>2
<1>5. ASSUME NEW i \in A \cup B PROVE \E n \in 1..Len(l \o m) : (l \o m)[n] = s[i]
  <2>1. CASE i \in A
    <3>1. PICK n \in 1..Len(l) : l[n] = s[i]
      BY <2>1 DEF Lists
    <3>2. n \in 1..Len(l \o m) /\ (l \o m)[n] = l[n]
      BY <1>2
    <3> QED
      BY <3>1, <3>2
  <2>2. CASE i \in B
    <3>1. PICK n \in 1..Len(m) : m[n] = s[i]
      BY <2>2 DEF Lists
    <3>2. Len(l) + n \in 1..Len(l \o m) /\ ~(Len(l) + n <= Len(l)) /\ (Len(l) + n) - Len(l) = n
      BY <1>2
    <3>3. (l \o m)[Len(l) + n] = m[n]
      BY <1>2, <3>2
    <3> QED
      BY <3>1, <3>2, <3>3
  <2> QED
    BY <2>1, <2>2
<1> QED
  BY <1>1, <1>2, <1>3, <1>4, <1>5 DEF Lists

-----------------------------------------------------------------------------
(* The changes of a transaction *)

Listed(t, side) == {i \in DOMAIN t.keys : t.amounts[i][side] # Absent}

Rows(t, side) == [i \in DOMAIN t.keys |-> [account_index |-> i, amount |-> t.amounts[i][side]]]

\* Types of a transaction; only vaults have balances.
LEMMA TransactionType ==
    ASSUME NEW t \in Transactions
    PROVE  /\ DOMAIN t.keys = 1..Len(t.keys) /\ Len(t.keys) \in Nat
           /\ \A i \in DOMAIN t.keys :
                /\ t.keys[i] \in Accounts
                /\ t.amounts[i][1] \in Amounts /\ t.amounts[i][2] \in Amounts
                /\ t.amounts[i][1] # Absent \/ t.amounts[i][2] # Absent
                     => t.keys[i][1] \in {"vault_a", "vault_b"}
<1> DEFINE Balances(keys) == {f \in [1..Len(keys) -> Pairs \cup {<<Absent, Absent>>}] :
                 \A i \in 1..Len(keys) :
                    f[i] \in IF keys[i][1] \in {"vault_a", "vault_b"}
                               THEN Pairs ELSE {<<Absent, Absent>>}}
<1>0. PICK keys \in KeyLists : t \in {[keys |-> keys, amounts |-> f] : f \in Balances(keys)}
  BY DEF Transactions
<1>1. PICK f \in Balances(keys) : t = [keys |-> keys, amounts |-> f]
  BY <1>0
<1>2. keys \in Seq(Accounts)
  BY FeedAssumption
<1>3. /\ DOMAIN keys = 1..Len(keys) /\ Len(keys) \in Nat
      /\ \A i \in 1..Len(keys) : keys[i] \in Accounts
  BY <1>2, LenProperties, ElementOfSeq
<1>4. \A p \in Pairs : p[1] \in Amounts /\ p[2] \in Amounts
  BY FeedAssumption
<1>5. \A i \in 1..Len(keys) :
        /\ f[i][1] \in Amounts /\ f[i][2] \in Amounts
        /\ keys[i][1] \notin {"vault_a", "vault_b"} => f[i] = <<Absent, Absent>>
  BY <1>1, <1>4 DEF Amounts
<1> QED
  BY <1>1, <1>3, <1>5

\* A filtered list has the rows of the accounts it is filtered by.
LEMMA OnlyInIs ==
    ASSUME NEW t \in Transactions, NEW side \in {1, 2}, NEW indices
    PROVE  /\ Indices(TokenBalances(t, side)) = Listed(t, side)
           /\ OnlyIn(TokenBalances(t, side), indices)
                = At(Rows(t, side), Listed(t, side) \cap indices)
<1>1. Len(t.keys) \in Nat /\ DOMAIN t.keys = 1..Len(t.keys)
  BY TransactionType
<1>2. Listed(t, side) \in SUBSET (1..Len(t.keys))
  BY <1>1 DEF Listed
<1>3. TokenBalances(t, side) = At(Rows(t, side), Listed(t, side))
  BY DEF TokenBalances, Rows, Listed
<1>4. \A i \in Listed(t, side) : Rows(t, side)[i].account_index = i
  BY DEF Rows, Listed
<1> DEFINE s == Rows(t, side)
           P == Listed(t, side)
<1> HIDE DEF s, P
<1>5. Indices(At(s, P)) = P /\ OnlyIn(At(s, P), indices) = At(s, P \cap indices)
  <2>1. \A N \in Nat : P \in SUBSET (1..N) =>
          Indices(At(s, P)) = P /\ OnlyIn(At(s, P), indices) = At(s, P \cap indices)
    BY <1>4, Filtering DEF s, P
  <2> QED
    BY <1>1, <1>2, <2>1, Zenon DEF P
<1> QED
  BY <1>3, <1>5 DEF s, P

\* The candidates for the accounts in both lists, and in one list, by account.
Both(t) == [i \in DOMAIN t.keys |-> New(t, Rows(t, 1)[i], Rows(t, 2)[i])]

One(t, side, is_pre) == [i \in DOMAIN t.keys |-> NewFromOne(t, Rows(t, side)[i], is_pre)]

\* Filtered by each other's accounts, both lists hold the same accounts at the
\* same positions.
LEMMA PairwiseIs ==
    ASSUME NEW t \in Transactions
    PROVE  Pairwise(t, TokenBalances(t, 1), TokenBalances(t, 2))
             = At(Both(t), {i \in Listed(t, 1) \cap Listed(t, 2) : Both(t)[i] # None})
<1> DEFINE N == Len(t.keys)
           P == Listed(t, 1) \cap Listed(t, 2)
           c == Cardinality(P)
           q == InOrder(P)
           pre == OnlyIn(TokenBalances(t, 1), Indices(TokenBalances(t, 2)))
           post == OnlyIn(TokenBalances(t, 2), Indices(TokenBalances(t, 1)))
<1>1. N \in Nat /\ DOMAIN t.keys = 1..N
  BY TransactionType
<1>2. P \in SUBSET (1..N)
  BY <1>1 DEF Listed
<1>3. pre = At(Rows(t, 1), P) /\ post = At(Rows(t, 2), P)
  <2>1. Listed(t, 2) \cap Listed(t, 1) = P
    OBVIOUS
  <2> HIDE DEF P
  <2>2. /\ Indices(TokenBalances(t, 1)) = Listed(t, 1)
        /\ Indices(TokenBalances(t, 2)) = Listed(t, 2)
    BY OnlyInIs
  <2>3. /\ OnlyIn(TokenBalances(t, 1), Listed(t, 2)) = At(Rows(t, 1), P)
        /\ OnlyIn(TokenBalances(t, 2), Listed(t, 1)) = At(Rows(t, 2), P)
    BY <2>1, OnlyInIs DEF P
  <2> QED
    BY <2>2, <2>3
<1> HIDE DEF N, P, pre, post
<1>4. q \in [1..c -> P]
  <2>1. \A M \in Nat : P \in SUBSET (1..M) => q \in [1..c -> P]
    BY InOrderLists
  <2> QED
    BY <1>1, <1>2, <2>1, Zenon
<1>5. /\ pre = [n \in 1..c |-> Rows(t, 1)[q[n]]]
      /\ post = [n \in 1..c |-> Rows(t, 2)[q[n]]]
      /\ At(Both(t), P) = [n \in 1..c |-> Both(t)[q[n]]]
  BY <1>3 DEF At
<1> HIDE DEF q, c
<1>6. \A n \in 1..c : q[n] \in DOMAIN t.keys
  BY <1>1, <1>2, <1>4
<1>7. \A n \in 1..c : New(t, pre[n], post[n]) = Both(t)[q[n]]
  BY <1>5, <1>6 DEF Both
<1>8. [n \in DOMAIN pre |-> New(t, pre[n], post[n])] = At(Both(t), P)
  BY <1>5, <1>7
<1>9. Pairwise(t, TokenBalances(t, 1), TokenBalances(t, 2)) = Some(At(Both(t), P))
  BY <1>8 DEF Pairwise, pre, post
<1>10. Some(At(Both(t), P)) = At(Both(t), {i \in P : Both(t)[i] # None})
  <2>1. \A M \in Nat : P \in SUBSET (1..M) =>
          Some(At(Both(t), P)) = At(Both(t), {i \in P : Both(t)[i] # None})
    BY SomeIs
  <2> QED
    BY <1>1, <1>2, <2>1, Zenon
<1> QED
  BY <1>9, <1>10 DEF P

\* Filtered by what the other list lacks, a list holds the accounts in it alone.
LEMMA OneSidedIs ==
    ASSUME NEW t \in Transactions, NEW side \in {1, 2}, NEW other \in {1, 2}, NEW is_pre
    PROVE  OneSided(t, TokenBalances(t, side), TokenBalances(t, other), is_pre)
             = At(One(t, side, is_pre),
                  {i \in Listed(t, side) \ Listed(t, other) : One(t, side, is_pre)[i] # None})
<1> DEFINE N == Len(t.keys)
           P == Listed(t, side) \ Listed(t, other)
           c == Cardinality(P)
           q == InOrder(P)
           s == One(t, side, is_pre)
           mine == TokenBalances(t, side)
           others == TokenBalances(t, other)
           ones == OnlyIn(mine, Indices(mine) \ Indices(others))
<1>1. N \in Nat /\ DOMAIN t.keys = 1..N
  BY TransactionType
<1>2. P \in SUBSET (1..N)
  BY <1>1 DEF Listed
<1>3. ones = At(Rows(t, side), P)
  <2>1. Listed(t, side) \cap (Listed(t, side) \ Listed(t, other)) = P
    OBVIOUS
  <2>2. Indices(mine) = Listed(t, side) /\ Indices(others) = Listed(t, other)
    BY OnlyInIs
  <2>3. OnlyIn(mine, Listed(t, side) \ Listed(t, other))
          = At(Rows(t, side), Listed(t, side) \cap (Listed(t, side) \ Listed(t, other)))
    BY OnlyInIs
  <2> QED
    BY <2>1, <2>2, <2>3
<1> HIDE DEF N, P, ones, s
<1>4. q \in [1..c -> P]
  <2>1. \A M \in Nat : P \in SUBSET (1..M) => q \in [1..c -> P]
    BY InOrderLists
  <2> QED
    BY <1>1, <1>2, <2>1, Zenon
<1>5. /\ ones = [n \in 1..c |-> Rows(t, side)[q[n]]]
      /\ At(s, P) = [n \in 1..c |-> s[q[n]]]
  BY <1>3 DEF At
<1> HIDE DEF q, c
<1>6. \A n \in 1..c : q[n] \in DOMAIN t.keys
  BY <1>1, <1>2, <1>4
<1>7. \A n \in 1..c : NewFromOne(t, ones[n], is_pre) = s[q[n]]
  BY <1>5, <1>6 DEF One, s
<1>8. [n \in DOMAIN ones |-> NewFromOne(t, ones[n], is_pre)] = At(s, P)
  BY <1>5, <1>7
<1>9. OneSided(t, mine, others, is_pre) = Some(At(s, P))
  BY <1>8 DEF OneSided, ones
<1>10. Some(At(s, P)) = At(s, {i \in P : s[i] # None})
  <2>1. \A M \in Nat : P \in SUBSET (1..M) => Some(At(s, P)) = At(s, {i \in P : s[i] # None})
    BY SomeIs
  <2> QED
    BY <1>1, <1>2, <2>1, Zenon
<1> QED
  BY <1>9, <1>10 DEF P, s

\* The relations of the json are of its pools' accounts.
LEMMA RelationTypes ==
    ASSUME JsonInv, NEW r \in Relations
    PROVE  /\ r \in Infos
           /\ \E e \in json :
                /\ r.dex_type = e.owner /\ r.pool_id = e.pool
                /\ r.account_key \in {<<"pool", e.pool>>, e.vault_a, e.vault_b, <<"extra", e.pool>>}
<1>1. PICK e \in json : r \in GetAccountInfo(e)
  BY DEF Relations
<1>2. e.pool \in Pools /\ e.owner \in Dexes
      /\ e.vault_a \in {"vault_a"} \X Pools /\ e.vault_b \in {"vault_b"} \X Pools
  BY DEF JsonInv
<1>3. PICK type, key : r = AccountInfo(e, type, key) /\ type \in Types
        /\ key \in {<<"pool", e.pool>>, e.vault_a, e.vault_b, <<"extra", e.pool>>}
  <2>1. \A d \in DOMAIN ExtraType : ExtraType[d] \in Types
    BY Tables DEF Types
  <2> QED
    BY <1>1, <2>1 DEF GetAccountInfo, Types
<1>4. /\ <<"pool", e.pool>> \in Accounts /\ <<"extra", e.pool>> \in Accounts
      /\ e.vault_a \in Accounts /\ e.vault_b \in Accounts
  BY <1>2 DEF Accounts, Roles
<1>5. r \in Infos
  BY <1>2, <1>3, <1>4 DEF AccountInfo, Infos
<1> QED
  BY <1>3, <1>5, InfoFields

\* A vault is followed for the entries that name it.
LEMMA VaultKeys ==
    ASSUME JsonInv, NEW k, k[1] \in {"vault_a", "vault_b"}
    PROVE  k \in Keys <=> \E e \in json : k \in EntryAccounts(e)
<1>1. ASSUME k \in Keys PROVE \E e \in json : k \in EntryAccounts(e)
  <2>1. PICK r \in Relations : k = r.account_key
    BY <1>1 DEF Keys
  <2>2. PICK e \in json : k \in {<<"pool", e.pool>>, e.vault_a, e.vault_b, <<"extra", e.pool>>}
    BY <2>1, RelationTypes
  <2>3. k # <<"pool", e.pool>> /\ k # <<"extra", e.pool>>
    OBVIOUS
  <2> QED
    BY <2>2, <2>3 DEF EntryAccounts
<1>2. ASSUME NEW e \in json, k \in EntryAccounts(e) PROVE k \in Keys
  <2>1. k # <<"pool", e.pool>>
    OBVIOUS
  <2>2. k = e.vault_a \/ k = e.vault_b
    BY <1>2, <2>1 DEF EntryAccounts
  <2>3. AccountInfo(e, "MintVault", k) \in Relations
    BY <2>2, EntryRelations
  <2> QED
    BY <2>3, InfoFields DEF Keys
<1> QED
  BY <1>1, <1>2

\* What f64 shows of an amount is an integer.
LEMMA UiType == \A a \in Nat : UiAmount(a) \in Int
<1> SUFFICES ASSUME NEW a \in Nat PROVE UiAmount(a) \in Int
  OBVIOUS
<1>1. Grain \in Nat /\ Grain > 0
  BY FeedAssumption
<1>2. a \div Grain \in Int
  BY <1>1
<1>3. \A x, y \in Int : x * y \in Int
  OBVIOUS
<1> QED
  BY <1>1, <1>2, <1>3 DEF UiAmount

\* What a transaction does to an account's balance, as in Changed.
ChangedIn(t, i) ==
    LET pre == t.amounts[i][1]
        post == t.amounts[i][2]
    IN  /\ Unset \notin {pre, post}
        /\ pre # post
        /\ Absent \in {pre, post} \/ UiAmount(pre) # UiAmount(post)

Moved(t) == {i \in DOMAIN t.keys : ChangedIn(t, i) /\ t.keys[i] \in DOMAIN relation}

Change(t, i) ==
    Info(t, i, IF t.amounts[i][2] = Absent THEN 0 ELSE t.amounts[i][2],
         Balance(t.amounts[i][2]) - Balance(t.amounts[i][1]))

\* A change of a running bot is a BalanceChangeInfo.
LEMMA ChangeType ==
    ASSUME JsonInv, RelationInv, status = "ready", NEW t \in Transactions, NEW i \in Moved(t)
    PROVE  Change(t, i) \in Changes /\ Change(t, i) # None
<1> DEFINE pre == t.amounts[i][1]
           post == t.amounts[i][2]
           r == relation[t.keys[i]]
<1>1. /\ i \in Nat /\ t.keys[i] \in Accounts /\ pre \in Amounts /\ post \in Amounts
      /\ pre # Unset /\ post # Unset /\ t.keys[i] \in DOMAIN relation
  <2>1. i \in DOMAIN t.keys /\ ChangedIn(t, i) /\ t.keys[i] \in DOMAIN relation
    BY DEF Moved
  <2>2. i \in Nat
    <3>1. DOMAIN t.keys = 1..Len(t.keys)
      BY TransactionType
    <3> QED
      BY <2>1, <3>1
  <2>3. t.keys[i] \in Accounts /\ pre \in Amounts /\ post \in Amounts
    BY <2>1, TransactionType
  <2> QED
    BY <2>1, <2>2, <2>3 DEF ChangedIn
<1>2. r \in Infos
  BY <1>1, RelationTypes DEF RelationInv
<1>3. r.dex_type \in Dexes /\ r.pool_id \in Pools
  BY <1>2 DEF Infos
<1>4. Balance(pre) \in Int /\ Balance(post) \in Int
  BY <1>1, UiType DEF Balance, Amounts
<1>5. (IF post = Absent THEN 0 ELSE post) \in Nat
  BY <1>1 DEF Amounts
<1> HIDE DEF pre, post, r
<1>6. Change(t, i) = [dex_type |-> r.dex_type, pool_id |-> r.pool_id, account_index |-> i,
                      vault_account |-> t.keys[i],
                      post_account |-> IF post = Absent THEN 0 ELSE post,
                      change_value |-> Balance(post) - Balance(pre)]
  BY DEF Change, Info, r, pre, post
<1>7. Balance(post) - Balance(pre) \in Int
  BY <1>4
<1>8. Change(t, i) \in Changes
  BY <1>1, <1>3, <1>5, <1>6, <1>7 DEF Changes
<1> QED
  BY <1>8, FeedAssumption

\* The two constructors answer a change for exactly the accounts whose balance
\* the transaction changed, and the same one.
LEMMA Candidates ==
    ASSUME JsonInv, RelationInv, status = "ready", NEW t \in Transactions
    PROVE  /\ \A i \in Listed(t, 1) \cap Listed(t, 2) :
                /\ Both(t)[i] # None <=> i \in Moved(t)
                /\ i \in Moved(t) => Both(t)[i] = Change(t, i)
           /\ \A i \in Listed(t, 1) \ Listed(t, 2) :
                /\ One(t, 1, TRUE)[i] # None <=> i \in Moved(t)
                /\ i \in Moved(t) => One(t, 1, TRUE)[i] = Change(t, i)
           /\ \A i \in Listed(t, 2) \ Listed(t, 1) :
                /\ One(t, 2, FALSE)[i] # None <=> i \in Moved(t)
                /\ i \in Moved(t) => One(t, 2, FALSE)[i] = Change(t, i)
           /\ Moved(t) \subseteq Listed(t, 1) \cup Listed(t, 2)
<1>0. \A i \in Moved(t) : Change(t, i) # None
  BY ChangeType
<1>1. ASSUME NEW i \in Listed(t, 1) \cap Listed(t, 2)
      PROVE  /\ Both(t)[i] # None <=> i \in Moved(t)
             /\ i \in Moved(t) => Both(t)[i] = Change(t, i)
  <2> DEFINE pre == t.amounts[i][1]
             post == t.amounts[i][2]
  <2>1. i \in DOMAIN t.keys /\ pre # Absent /\ post # Absent
    BY DEF Listed
  <2>2. i \in Moved(t) <=>
          /\ pre # Unset /\ post # Unset /\ UiAmount(pre) # UiAmount(post)
          /\ t.keys[i] \in DOMAIN relation
    BY <2>1 DEF Moved, ChangedIn
  <2>3. Change(t, i) = Info(t, i, post, UiAmount(post) - UiAmount(pre))
    BY <2>1 DEF Change, Balance
  <2>4. Both(t)[i] = IF i \in Moved(t) THEN Change(t, i) ELSE None
    <3>1. Rows(t, 1)[i] = [account_index |-> i, amount |-> pre]
          /\ Rows(t, 2)[i] = [account_index |-> i, amount |-> post]
      BY <2>1 DEF Rows
    <3>2. Both(t)[i] = New(t, [account_index |-> i, amount |-> pre],
                              [account_index |-> i, amount |-> post])
      BY <2>1, <3>1 DEF Both
    <3> HIDE DEF pre, post
    <3> QED
      BY <2>2, <2>3, <3>2 DEF New
  <2> QED
    BY <1>0, <2>4
<1>2. ASSUME NEW i \in Listed(t, 1) \ Listed(t, 2)
      PROVE  /\ One(t, 1, TRUE)[i] # None <=> i \in Moved(t)
             /\ i \in Moved(t) => One(t, 1, TRUE)[i] = Change(t, i)
  <2> DEFINE pre == t.amounts[i][1]
             post == t.amounts[i][2]
  <2>1. i \in DOMAIN t.keys /\ pre # Absent /\ post = Absent
    BY DEF Listed
  <2>2. i \in Moved(t) <=> pre # Unset /\ t.keys[i] \in DOMAIN relation
    BY <2>1, FeedAssumption DEF Moved, ChangedIn
  <2>3. Change(t, i) = Info(t, i, 0, 0 - UiAmount(pre))
    BY <2>1 DEF Change, Balance
  <2>4. pre # Unset => 0 - UiAmount(pre) = -UiAmount(pre)
    <3>1. pre \in Amounts
      BY <2>1, TransactionType
    <3>2. pre # Unset => UiAmount(pre) \in Int
      BY <2>1, <3>1, UiType DEF Amounts
    <3> QED
      BY <3>2
  <2>5. One(t, 1, TRUE)[i] = IF i \in Moved(t) THEN Change(t, i) ELSE None
    <3>1. Rows(t, 1)[i] = [account_index |-> i, amount |-> pre]
      BY <2>1 DEF Rows
    <3>2. One(t, 1, TRUE)[i] = NewFromOne(t, [account_index |-> i, amount |-> pre], TRUE)
      BY <2>1, <3>1 DEF One
    <3> HIDE DEF pre, post
    <3> QED
      BY <2>2, <2>3, <2>4, <3>2 DEF NewFromOne
  <2> QED
    BY <1>0, <2>5
<1>3. ASSUME NEW i \in Listed(t, 2) \ Listed(t, 1)
      PROVE  /\ One(t, 2, FALSE)[i] # None <=> i \in Moved(t)
             /\ i \in Moved(t) => One(t, 2, FALSE)[i] = Change(t, i)
  <2> DEFINE pre == t.amounts[i][1]
             post == t.amounts[i][2]
  <2>1. i \in DOMAIN t.keys /\ pre = Absent /\ post # Absent
    BY DEF Listed
  <2>2. i \in Moved(t) <=> post # Unset /\ t.keys[i] \in DOMAIN relation
    BY <2>1, FeedAssumption DEF Moved, ChangedIn
  <2>3. Change(t, i) = Info(t, i, post, UiAmount(post) - 0)
    BY <2>1 DEF Change, Balance
  <2>4. post # Unset => UiAmount(post) - 0 = UiAmount(post)
    <3>1. post \in Amounts
      BY <2>1, TransactionType
    <3>2. post # Unset => UiAmount(post) \in Int
      BY <2>1, <3>1, UiType DEF Amounts
    <3> QED
      BY <3>2
  <2>5. One(t, 2, FALSE)[i] = IF i \in Moved(t) THEN Change(t, i) ELSE None
    <3>1. Rows(t, 2)[i] = [account_index |-> i, amount |-> post]
      BY <2>1 DEF Rows
    <3>2. One(t, 2, FALSE)[i] = NewFromOne(t, [account_index |-> i, amount |-> post], FALSE)
      BY <2>1, <3>1 DEF One
    <3> HIDE DEF pre, post
    <3> QED
      BY <2>2, <2>3, <2>4, <3>2 DEF NewFromOne
  <2> QED
    BY <1>0, <2>5
<1>4. Moved(t) \subseteq Listed(t, 1) \cup Listed(t, 2)
  BY DEF Moved, ChangedIn, Listed
<1> QED
  BY <1>1, <1>2, <1>3, <1>4

FilteredIn(t) == subscribed \cap {t.keys[i] : i \in DOMAIN t.keys} = {}

Expected(t) == IF FilteredIn(t) THEN {} ELSE Moved(t)

\* What an Arb collects: each change once, whatever lists it was found in.
LEMMA CollectIs ==
    ASSUME JsonInv, RelationInv, status = "ready", NEW t \in Transactions
    PROVE  Lists(Collect(t), [i \in DOMAIN t.keys |-> Change(t, i)], Expected(t), Changes)
<1> DEFINE s == [i \in DOMAIN t.keys |-> Change(t, i)]
           A == Moved(t) \cap (Listed(t, 1) \cap Listed(t, 2))
           B == Moved(t) \cap (Listed(t, 1) \ Listed(t, 2))
           C == Moved(t) \cap (Listed(t, 2) \ Listed(t, 1))
           N == Len(t.keys)
<1>1. N \in Nat /\ DOMAIN t.keys = 1..N
  BY TransactionType
<1>2. A \in SUBSET (1..N) /\ B \in SUBSET (1..N) /\ C \in SUBSET (1..N)
  BY <1>1 DEF Moved
<1>3. \A i \in Moved(t) : s[i] \in Changes
  BY ChangeType DEF Moved
<1>4. /\ \A i \in A : Both(t)[i] = s[i]
      /\ \A i \in B : One(t, 1, TRUE)[i] = s[i]
      /\ \A i \in C : One(t, 2, FALSE)[i] = s[i]
  BY Candidates DEF Moved
<1>5. /\ {i \in Listed(t, 1) \cap Listed(t, 2) : Both(t)[i] # None} = A
      /\ {i \in Listed(t, 1) \ Listed(t, 2) : One(t, 1, TRUE)[i] # None} = B
      /\ {i \in Listed(t, 2) \ Listed(t, 1) : One(t, 2, FALSE)[i] # None} = C
  BY Candidates
<1>6. A \cap B = {} /\ (A \cup B) \cap C = {} /\ (A \cup B) \cup C = Moved(t)
  BY Candidates
<1>7. /\ Pairwise(t, TokenBalances(t, 1), TokenBalances(t, 2)) = At(Both(t), A)
      /\ OneSided(t, TokenBalances(t, 1), TokenBalances(t, 2), TRUE) = At(One(t, 1, TRUE), B)
      /\ OneSided(t, TokenBalances(t, 2), TokenBalances(t, 1), FALSE) = At(One(t, 2, FALSE), C)
  <2> HIDE DEF A, B, C, N, s
  <2>1. Pairwise(t, TokenBalances(t, 1), TokenBalances(t, 2)) = At(Both(t), A)
    BY <1>5, PairwiseIs
  <2>0. \A is_pre :
          /\ OneSided(t, TokenBalances(t, 1), TokenBalances(t, 2), is_pre)
               = At(One(t, 1, is_pre),
                    {i \in Listed(t, 1) \ Listed(t, 2) : One(t, 1, is_pre)[i] # None})
          /\ OneSided(t, TokenBalances(t, 2), TokenBalances(t, 1), is_pre)
               = At(One(t, 2, is_pre),
                    {i \in Listed(t, 2) \ Listed(t, 1) : One(t, 2, is_pre)[i] # None})
    BY OneSidedIs
  <2>2. OneSided(t, TokenBalances(t, 1), TokenBalances(t, 2), TRUE) = At(One(t, 1, TRUE), B)
    BY <1>5, <2>0, Zenon
  <2>3. OneSided(t, TokenBalances(t, 2), TokenBalances(t, 1), FALSE) = At(One(t, 2, FALSE), C)
    BY <1>5, <2>0, Zenon
  <2> QED
    BY <2>1, <2>2, <2>3
<1> HIDE DEF A, B, C, N, s
<1>8. /\ At(Both(t), A) = At(s, A)
      /\ At(One(t, 1, TRUE), B) = At(s, B)
      /\ At(One(t, 2, FALSE), C) = At(s, C)
  BY <1>1, <1>2, <1>4, AtAgrees
<1>9. /\ Lists(At(s, A), s, A, Changes)
      /\ Lists(At(s, B), s, B, Changes)
      /\ Lists(At(s, C), s, C, Changes)
  BY <1>1, <1>2, <1>3, <1>6, AtIsList
<1>10. Lists((At(s, A) \o At(s, B)) \o At(s, C), s, Moved(t), Changes)
  <2>1. Lists(At(s, A) \o At(s, B), s, A \cup B, Changes)
    BY <1>1, <1>2, <1>6, <1>9, Joined
  <2>2. A \cup B \in SUBSET (1..N)
    BY <1>2
  <2>3. Lists((At(s, A) \o At(s, B)) \o At(s, C), s, (A \cup B) \cup C, Changes)
    BY <1>1, <1>2, <1>6, <1>9, <2>1, <2>2, Joined
  <2> QED
    BY <1>6, <2>3
<1>11. CASE FilteredIn(t)
  <2>1. Collect(t) = <<>> /\ Expected(t) = {}
    BY <1>11 DEF Collect, Expected, FilteredIn
  <2>2. Cardinality({}) = 0
    BY FS_EmptySet
  <2>3. <<>> \in Seq(Changes) /\ Len(<<>>) = 0
    OBVIOUS
  <2> QED
    BY <2>1, <2>2, <2>3 DEF Lists
<1>12. CASE ~FilteredIn(t)
  <2>1. Collect(t) = (At(s, A) \o At(s, B)) \o At(s, C)
    BY <1>7, <1>8, <1>12 DEF Collect, FilteredIn
  <2>2. Expected(t) = Moved(t)
    BY <1>12 DEF Expected
  <2> QED
    BY <1>10, <2>1, <2>2 DEF s
<1> QED
  BY <1>11, <1>12

\* With a running bot an account whose balance a transaction changed is a vault,
\* and it has a relation exactly if some entry names it.
LEMMA MovedIs ==
    ASSUME JsonInv, RelationInv, status = "ready", NEW t \in Transactions
    PROVE  /\ \A i \in DOMAIN t.keys : ChangedIn(t, i) => t.keys[i][1] \in {"vault_a", "vault_b"}
           /\ Moved(t) = {i \in DOMAIN t.keys :
                ChangedIn(t, i) /\ \E e \in json : t.keys[i] \in EntryAccounts(e)}
<1>1. ASSUME NEW i \in DOMAIN t.keys, ChangedIn(t, i)
      PROVE  t.keys[i][1] \in {"vault_a", "vault_b"}
  <2>1. t.amounts[i][1] # Absent \/ t.amounts[i][2] # Absent
    BY <1>1 DEF ChangedIn
  <2> QED
    BY <2>1, TransactionType
<1>2. DOMAIN relation = Keys
  BY DEF RelationInv
<1>3. ASSUME NEW i \in DOMAIN t.keys, ChangedIn(t, i)
      PROVE  t.keys[i] \in Keys <=> \E e \in json : t.keys[i] \in EntryAccounts(e)
  <2> DEFINE k == t.keys[i]
  <2>1. k[1] \in {"vault_a", "vault_b"}
    BY <1>1, <1>3
  <2> HIDE DEF k
  <2>2. k \in Keys <=> \E e \in json : k \in EntryAccounts(e)
    BY <2>1, VaultKeys
  <2> QED
    BY <2>2 DEF k
<1> QED
  BY <1>1, <1>2, <1>3 DEF Moved

\* The collected list is the transaction's.
LEMMA HandledIs ==
    ASSUME JsonInv, RelationInv, NEW t \in Transactions, HandleTransaction(t)
    PROVE  ChangesAreTheTransactions'
<1>1. /\ status = "ready" /\ tx' = t /\ changes' = Collect(t)
      /\ json' = json /\ subscribed' = subscribed
  BY DEF HandleTransaction
<1>2. Lists(Collect(t), [i \in DOMAIN t.keys |-> Change(t, i)], Expected(t), Changes)
  BY <1>1, CollectIs
<1> DEFINE s == [i \in DOMAIN t.keys |-> Change(t, i)]
           l == Collect(t)
           value(i) == <<t.keys[i], Balance(t.amounts[i][2]) - Balance(t.amounts[i][1])>>
<1>3. /\ l \in Seq(Changes) /\ Len(l) = Cardinality(Expected(t))
      /\ \A n \in 1..Len(l) : \E i \in Expected(t) : l[n] = s[i]
      /\ \A i \in Expected(t) : \E n \in 1..Len(l) : l[n] = s[i]
  BY <1>2 DEF Lists
<1>4. DOMAIN l = 1..Len(l)
  BY <1>3, LenProperties
<1>5. \A i \in Expected(t) : <<s[i].vault_account, s[i].change_value>> = value(i)
  BY DEF Expected, Moved, Change, Info
<1> HIDE DEF s, l, value
<1>6. {<<l[n].vault_account, l[n].change_value>> : n \in DOMAIN l} = {value(i) : i \in Expected(t)}
  <2>1. ASSUME NEW n \in DOMAIN l
        PROVE  \E i \in Expected(t) : <<l[n].vault_account, l[n].change_value>> = value(i)
    <3>1. PICK i \in Expected(t) : l[n] = s[i]
      BY <1>3, <1>4
    <3> QED
      BY <1>5, <3>1
  <2>2. ASSUME NEW i \in Expected(t)
        PROVE  \E n \in DOMAIN l : <<l[n].vault_account, l[n].change_value>> = value(i)
    <3>1. PICK n \in 1..Len(l) : l[n] = s[i]
      BY <1>3
    <3> QED
      BY <1>4, <1>5, <3>1
  <2> QED
    BY <2>1, <2>2
<1>7. Expected(t) = (IF Filtered THEN {} ELSE {i \in DOMAIN tx.keys : Changed(i) /\ Followed(i)})'
  <2>1. Filtered' <=> FilteredIn(t)
    BY <1>1 DEF Filtered, FilteredIn
  <2>2. \A i : Changed(i)' <=> ChangedIn(t, i)
    BY <1>1 DEF Changed, ChangedIn
  <2>3. \A i : Followed(i)' <=> \E e \in json : t.keys[i] \in EntryAccounts(e)
    BY <1>1 DEF Followed, EntryAccounts
  <2>4. Moved(t) = {i \in DOMAIN t.keys :
          ChangedIn(t, i) /\ \E e \in json : t.keys[i] \in EntryAccounts(e)}
    BY <1>1, MovedIs
  <2> QED
    BY <1>1, <2>1, <2>2, <2>3, <2>4 DEF Expected
<1>8. /\ {<<changes'[n].vault_account, changes'[n].change_value>> : n \in DOMAIN changes'}
           = {value(i) : i \in Expected(t)}
      /\ Len(changes') = Cardinality(Expected(t))
  BY <1>1, <1>3, <1>6 DEF l
<1>9. (\A i \in DOMAIN t.keys :
         <<tx.keys[i], Balance(tx.amounts[i][2]) - Balance(tx.amounts[i][1])>> = value(i))'
  BY <1>1 DEF value, Balance, UiAmount
<1> HIDE DEF value
<1>10. Expected(t) \subseteq DOMAIN t.keys
  BY DEF Expected, Moved
<1> QED
  BY <1>7, <1>8, <1>9, <1>10 DEF ChangesAreTheTransactions

\* The first change is of a vault of the pool searched for.
LEMMA SearchedIs ==
    ASSUME JsonInv, RelationInv, NEW t \in Transactions, HandleTransaction(t)
    PROVE  SwapsAreSearched' /\ searched' \in Pools \cup {None}
<1>1. /\ status = "ready" /\ tx' = t /\ changes' = Collect(t)
      /\ json' = json /\ subscribed' = subscribed
      /\ searched' = IF changes' = <<>> THEN None ELSE Head(changes').pool_id
  BY DEF HandleTransaction
<1> DEFINE s == [i \in DOMAIN t.keys |-> Change(t, i)]
           l == Collect(t)
<1>2. /\ l \in Seq(Changes) /\ Len(l) = Cardinality(Expected(t))
      /\ \A n \in 1..Len(l) : \E i \in Expected(t) : l[n] = s[i]
      /\ \A i \in Expected(t) : \E n \in 1..Len(l) : l[n] = s[i]
  BY <1>1, CollectIs DEF Lists
<1>3. \A i \in Expected(t) : s[i] = Change(t, i)
  BY DEF Expected, Moved
<1>4. /\ Filtered' <=> FilteredIn(t)
      /\ \A i : Changed(i)' <=> ChangedIn(t, i)
  BY <1>1 DEF Filtered, FilteredIn, Changed, ChangedIn
<1>5. Touched' = {e.pool : e \in {f \in json :
                    \E i \in DOMAIN t.keys : t.keys[i] \in Vaults(f.pool) /\ ChangedIn(t, i)}}
  BY <1>1, <1>4 DEF Touched, Vaults
<1>6. /\ \A i \in DOMAIN t.keys : ChangedIn(t, i) => t.keys[i][1] \in {"vault_a", "vault_b"}
      /\ Moved(t) = {i \in DOMAIN t.keys :
           ChangedIn(t, i) /\ \E e \in json : t.keys[i] \in EntryAccounts(e)}
  BY <1>1, MovedIs
<1>7. (\A e \in json : Truthful(e))' <=> \A e \in json : Truthful(e)
  BY <1>1 DEF Truthful, Vaults
<1> HIDE DEF s, l
<1>8. CASE l = <<>>
  <2>1. searched' = None
    BY <1>1, <1>8 DEF l
  <2>2. Expected(t) = {}
    BY <1>2, <1>8
  <2>3. ASSUME \A e \in json : Truthful(e), ~FilteredIn(t) PROVE Touched' = {}
    <3>1. Moved(t) = {}
      BY <2>2, <2>3 DEF Expected
    <3>2. ASSUME NEW e \in json, NEW i \in DOMAIN t.keys,
                 t.keys[i] \in Vaults(e.pool), ChangedIn(t, i)
          PROVE  FALSE
      <4>1. t.keys[i] \in EntryAccounts(e)
        BY <2>3, <3>2 DEF Truthful, EntryAccounts
      <4> QED
        BY <1>6, <3>1, <3>2, <4>1
    <3> QED
      BY <1>5, <3>2
  <2> QED
    BY <1>4, <1>7, <2>1, <2>3 DEF SwapsAreSearched
<1>9. CASE l # <<>>
  <2>1. Len(l) # 0 /\ Len(l) \in Nat /\ Head(l) = l[1]
    BY <1>2, <1>9, EmptySeq, LenProperties
  <2>2. PICK i \in Expected(t) : l[1] = Change(t, i)
    BY <1>2, <1>3, <2>1
  <2>3. /\ ~FilteredIn(t) /\ i \in Moved(t) /\ i \in DOMAIN t.keys
        /\ ChangedIn(t, i) /\ t.keys[i] \in DOMAIN relation
    BY DEF Expected, Moved
  <2>4. searched' = relation[t.keys[i]].pool_id
    BY <1>1, <1>9, <2>1, <2>2 DEF l, Change, Info
  <2> DEFINE k == t.keys[i]
  <2>5. relation[k] \in Relations /\ relation[k].account_key = k
    BY <1>1, <2>3 DEF RelationInv
  <2>6. k[1] \in {"vault_a", "vault_b"}
    BY <1>6, <2>3
  <2> HIDE DEF k
  <2>7. PICK e \in json :
          /\ relation[k].pool_id = e.pool
          /\ k \in {<<"pool", e.pool>>, e.vault_a, e.vault_b, <<"extra", e.pool>>}
    BY <2>5, RelationTypes
  <2>8. e.pool \in Pools
    BY DEF JsonInv
  <2>9. ASSUME \A f \in json : Truthful(f) PROVE e.pool \in Touched'
    <3>1. k \in {e.vault_a, e.vault_b}
      BY <2>6, <2>7
    <3>2. k \in Vaults(e.pool)
      BY <2>9, <3>1 DEF Truthful
    <3> QED
      BY <1>5, <2>3, <3>2 DEF k
  <2> QED
    BY <1>4, <1>7, <2>3, <2>4, <2>7, <2>8, <2>9 DEF SwapsAreSearched, k
<1> QED
  BY <1>8, <1>9

\* No step but a handled transaction touches what these two read.
LEMMA ArbUntouched ==
    ASSUME UNCHANGED <<json, subscribed, arb>>
    PROVE  /\ ChangesAreTheTransactions => ChangesAreTheTransactions'
           /\ SwapsAreSearched => SwapsAreSearched'
<1>1. UNCHANGED <<json, subscribed, tx, changes, searched>>
  BY DEF arb
<1>2. /\ Filtered' <=> Filtered
      /\ \A i : (Changed(i)' <=> Changed(i)) /\ (Followed(i)' <=> Followed(i))
  BY <1>1 DEF Filtered, Changed, Followed, EntryAccounts
<1>3. Touched' = Touched /\ ((\A e \in json : Truthful(e))' <=> \A e \in json : Truthful(e))
  BY <1>1, <1>2 DEF Touched, Truthful, Vaults
<1>4. SwapsAreSearched => SwapsAreSearched'
  BY <1>1, <1>2, <1>3 DEF SwapsAreSearched
<1>5. ChangesAreTheTransactions => ChangesAreTheTransactions'
  <2> DEFINE E == IF Filtered THEN {} ELSE {i \in DOMAIN tx.keys : Changed(i) /\ Followed(i)}
             value(i) == <<tx.keys[i], Balance(tx.amounts[i][2]) - Balance(tx.amounts[i][1])>>
             found == {<<changes[n].vault_account, changes[n].change_value>> : n \in DOMAIN changes}
  <2>1. E' = E /\ found' = found
    BY <1>1, <1>2
  <2>2. \A i : value(i)' = value(i)
    BY <1>1 DEF Balance, UiAmount
  <2>3. ChangesAreTheTransactions <=>
          (tx # None => found = {value(i) : i \in E} /\ Len(changes) = Cardinality(E))
    BY DEF ChangesAreTheTransactions
  <2>4. ChangesAreTheTransactions' <=>
          (tx' # None => found' = {value(i)' : i \in E'} /\ Len(changes') = Cardinality(E'))
    BY DEF ChangesAreTheTransactions
  <2> HIDE DEF E, value, found
  <2>5. {value(i)' : i \in E} = {value(i) : i \in E}
    BY <2>2
  <2> QED
    BY <1>1, <2>1, <2>3, <2>4, <2>5
<1> QED
  BY <1>4, <1>5

\* What an Arb collects from a transaction are its changes, each exactly once.
THEOREM ChangesAreRight == Spec => []ChangesAreTheTransactions
<1>1. Init => ChangesAreTheTransactions
  BY DEF Init, ChangesAreTheTransactions
<1>2. FeedInv /\ ChangesAreTheTransactions /\ [Next]_vars => ChangesAreTheTransactions'
  <2> SUFFICES ASSUME FeedInv, ChangesAreTheTransactions, [Next]_vars
               PROVE  ChangesAreTheTransactions'
    OBVIOUS
  <2>1. CASE InitAccountRelations
    BY <2>1, ArbUntouched DEF InitAccountRelations
  <2>2. ASSUME NEW k \in Written, UpdateCache(k) PROVE ChangesAreTheTransactions'
    BY <2>2, ArbUntouched DEF UpdateCache
  <2>3. ASSUME NEW t \in Transactions, HandleTransaction(t) PROVE ChangesAreTheTransactions'
    BY <2>3, HandledIs DEF FeedInv
  <2>4. CASE UNCHANGED vars
    BY <2>4, ArbUntouched DEF vars
  <2> QED
    BY <2>1, <2>2, <2>3, <2>4 DEF Next
<1> QED
  BY <1>1, <1>2, Inductive, PTL DEF Spec

\* With truthful entries a transaction starts a search exactly if it passes the
\* filter and changed a vault of a listed pool, and for such a pool.
THEOREM SearchesAreForTouchedPools == Spec => []SwapsAreSearched
<1>1. Init => SwapsAreSearched
  BY DEF Init, SwapsAreSearched
<1>2. FeedInv /\ SwapsAreSearched /\ [Next]_vars => SwapsAreSearched'
  <2> SUFFICES ASSUME FeedInv, SwapsAreSearched, [Next]_vars PROVE SwapsAreSearched'
    OBVIOUS
  <2>1. CASE InitAccountRelations
    BY <2>1, ArbUntouched DEF InitAccountRelations
  <2>2. ASSUME NEW k \in Written, UpdateCache(k) PROVE SwapsAreSearched'
    BY <2>2, ArbUntouched DEF UpdateCache
  <2>3. ASSUME NEW t \in Transactions, HandleTransaction(t) PROVE SwapsAreSearched'
    BY <2>3, SearchedIs DEF FeedInv
  <2>4. CASE UNCHANGED vars
    BY <2>4, ArbUntouched DEF vars
  <2> QED
    BY <2>1, <2>2, <2>3, <2>4 DEF Next
<1> QED
  BY <1>1, <1>2, Inductive, PTL DEF Spec

-----------------------------------------------------------------------------
(* Types *)

\* What the types add to the invariant.
TypesInv ==
    /\ subscribed \subseteq Accounts
    /\ status \in {"start", "ready", "failed"}
    /\ status # "ready" => relation = <<>> /\ supplementary = <<>>
    /\ DOMAIN dynamic \subseteq Accounts
    /\ \A k \in DOMAIN dynamic : dynamic[k] \in [layout : Layouts, version : Nat, whole : BOOLEAN]
    /\ messages \in 0..MaxMessages
    /\ searched \in Pools \cup {None}

\* A read asks for a layout some rule makes.
LEMMA ReadLayouts ==
    ASSUME NEW d \in Dexes, NEW p, NEW vaults, NEW r \in QuoteReads(d, p, vaults)
    PROVE  r[2] \in Layouts
<1>1. CASE r[2] = <<d, "Pool">> /\ d # "PumpFunAMM"
  BY <1>1, Slices, InTable DEF Layouts
<1>2. CASE r[2] = <<d, "MintVault">> /\ d \in {"RaydiumAMM", "RaydiumCPMM", "PumpFunAMM"}
  BY <1>2, Slices, InTable DEF Layouts
<1>3. CASE d \in DOMAIN ExtraType /\ r[2] \in {<<d, ExtraType[d]>>, <<d, ArrayType[d]>>}
  BY <1>3, Slices, InTable DEF Layouts
<1>4. CASE r[2] = <<None, "Clock">>
  BY <1>4 DEF Layouts
<1> QED
  BY <1>1, <1>2, <1>3, <1>4, ReadKinds

\* A slice in such a layout is an entry of the cache.
LEMMA SliceType ==
    ASSUME NEW k, NEW layout \in Layouts, NEW n \in Nat
    PROVE  SliceOf(k, layout, n) \in [layout : Layouts, version : Nat, whole : BOOLEAN]
<1>1. Whole(k, layout) \in BOOLEAN
  BY Zenon DEF Whole
<1> QED
  BY <1>1, Zenon DEF SliceOf

\* The initial states have the types.
LEMMA InitTypes == ASSUME Init PROVE TypesInv
<1>1. JsonInv /\ version \in [Accounts -> Nat]
  BY InitInv DEF FeedInv, CacheInv
<1>2. subscribed \subseteq Accounts
  <2>1. PICK list \in [json -> RoleLists] :
          subscribed = UNION {{AccountOf(e, role) : role \in list[e]} : e \in json}
    BY DEF Init
  <2>2. ASSUME NEW e \in json, NEW role \in list[e] PROVE AccountOf(e, role) \in Accounts
    <3>1. /\ e.pool \in Pools
          /\ e.vault_a \in {"vault_a"} \X Pools /\ e.vault_b \in {"vault_b"} \X Pools
      BY <1>1 DEF JsonInv
    <3>2. list[e] \in RoleLists /\ RoleLists \subseteq SUBSET (Roles \cup {"clock"})
      BY <2>1, FeedAssumption
    <3>3. role \in Roles \cup {"clock"}
      BY <3>2
    <3>4. \A name \in Roles : \A p \in Pools : <<name, p>> \in Accounts
      BY DEF Accounts
    <3>5. "vault_a" \in Roles /\ "vault_b" \in Roles /\ Clock \in Accounts
      BY DEF Roles, Accounts
    <3>6. CASE role = "vault_a"
      BY <3>1, <3>4, <3>5, <3>6 DEF AccountOf
    <3>7. CASE role = "vault_b"
      BY <3>1, <3>4, <3>5, <3>7 DEF AccountOf
    <3>8. CASE role = "clock"
      BY <3>5, <3>8 DEF AccountOf
    <3>9. CASE role \notin {"vault_a", "vault_b", "clock"}
      <4>1. AccountOf(e, role) = <<role, e.pool>>
        BY <3>9 DEF AccountOf
      <4> QED
        BY <3>1, <3>3, <3>4, <3>9, <4>1
    <3> QED
      BY <3>6, <3>7, <3>8, <3>9
  <2> DEFINE given(e) == {AccountOf(e, role) : role \in list[e]}
  <2>3. \A e \in json : given(e) \subseteq Accounts
    BY <2>2
  <2>4. subscribed = UNION {given(e) : e \in json}
    BY <2>1
  <2> HIDE DEF given
  <2> QED
    BY <2>3, <2>4
<1>3. /\ DOMAIN dynamic \subseteq Accounts
      /\ \A k \in DOMAIN dynamic : dynamic[k] \in [layout : Layouts, version : Nat, whole : BOOLEAN]
  <2> DEFINE reads == UNION {SnapshotReads(e) : e \in json}
             read(k) == CHOOSE r \in reads : r[1] = k
  <2>1. dynamic = [k \in {r[1] : r \in reads} \cap {a \in Accounts : version[a] > 0} |->
                     SliceOf(k, read(k)[2], 1)]
    BY DEF Init
  <2>2. ASSUME NEW r \in reads PROVE r[2] \in Layouts
    <3>1. PICK e \in json : r \in SnapshotReads(e)
      OBVIOUS
    <3>2. e.owner \in Dexes
      BY <1>1 DEF JsonInv
    <3> QED
      BY <3>1, <3>2, ReadLayouts DEF SnapshotReads
  <2>3. ASSUME NEW k \in DOMAIN dynamic
        PROVE  k \in Accounts /\ read(k) \in reads /\ dynamic[k] = SliceOf(k, read(k)[2], 1)
    <3>1. k \in {r[1] : r \in reads} /\ k \in Accounts
      BY <2>1
    <3> QED
      BY <2>1, <3>1
  <2> HIDE DEF reads, read
  <2> QED
    BY <2>2, <2>3, SliceType
<1>4. messages \in 0..MaxMessages
  BY FeedAssumption DEF Init
<1> QED
  BY <1>2, <1>3, <1>4 DEF Init, TypesInv

\* An update puts a slice of a rule's layout into the cache, or nothing.
LEMMA UpdateTypes ==
    ASSUME FeedInv, TypesInv, NEW k \in Accounts, UpdateCache(k)
    PROVE  TypesInv'
<1>1. /\ UNCHANGED <<subscribed, status, relation, supplementary, searched>>
      /\ messages' = messages + 1 /\ messages < MaxMessages
      /\ dynamic' = IF Forwarded(k) /\ Cached(k)
                      THEN Put(k, SliceOf(k, Slice(k), version[k] + 1)) ELSE dynamic
  BY DEF UpdateCache, arb
<1>2. version[k] + 1 \in Nat
  BY DEF FeedInv, CacheInv
<1>3. Cached(k) => Slice(k) \in Layouts
  BY DEF Cached, Slice, Layouts
<1>4. /\ DOMAIN dynamic' \subseteq Accounts
      /\ \A a \in DOMAIN dynamic' :
           dynamic'[a] \in [layout : Layouts, version : Nat, whole : BOOLEAN]
  <2>1. CASE Forwarded(k) /\ Cached(k)
    <3> DEFINE entry == SliceOf(k, Slice(k), version[k] + 1)
    <3>1. entry \in [layout : Layouts, version : Nat, whole : BOOLEAN]
      BY <1>2, <1>3, <2>1, SliceType
    <3>2. dynamic' = [a \in DOMAIN dynamic \cup {k} |-> IF a = k THEN entry ELSE dynamic[a]]
      BY <1>1, <2>1 DEF Put
    <3> HIDE DEF entry
    <3> QED
      BY <3>1, <3>2 DEF TypesInv
  <2>2. CASE ~(Forwarded(k) /\ Cached(k))
    BY <1>1, <2>2 DEF TypesInv
  <2> QED
    BY <2>1, <2>2
<1>5. messages' \in 0..MaxMessages
  BY <1>1, FeedAssumption DEF TypesInv
<1> QED
  BY <1>1, <1>4, <1>5 DEF TypesInv

\* Types of the variables, with what is cached always in a layout some rule makes.
THEOREM TypesAreKept == Spec => []TypeOK
<1>1. FeedInv /\ TypesInv /\ [Next]_vars => TypesInv'
  <2> SUFFICES ASSUME FeedInv, TypesInv, [Next]_vars PROVE TypesInv'
    OBVIOUS
  <2>1. CASE InitAccountRelations
    <3>1. status = "start" /\ UNCHANGED <<subscribed, dynamic, messages, searched>>
      BY <2>1 DEF InitAccountRelations, arb
    <3>2. CASE Duplicated
      BY <2>1, <3>1, <3>2 DEF InitAccountRelations, TypesInv
    <3>3. CASE ~Duplicated
      BY <2>1, <3>1, <3>3 DEF InitAccountRelations, SetRelations, TypesInv
    <3> QED
      BY <3>2, <3>3
  <2>2. ASSUME NEW k \in Written, UpdateCache(k) PROVE TypesInv'
    BY <2>2, UpdateTypes DEF Written
  <2>3. ASSUME NEW t \in Transactions, HandleTransaction(t) PROVE TypesInv'
    <3>1. /\ UNCHANGED <<subscribed, status, relation, supplementary, dynamic>>
          /\ messages' = messages + 1 /\ messages < MaxMessages
      BY <2>3 DEF HandleTransaction
    <3>2. searched' \in Pools \cup {None}
      BY <2>3, SearchedIs DEF FeedInv
    <3>3. messages' \in 0..MaxMessages
      BY <3>1, FeedAssumption DEF TypesInv
    <3> QED
      BY <3>1, <3>2, <3>3 DEF TypesInv
  <2>4. CASE UNCHANGED vars
    BY <2>4 DEF vars, arb, TypesInv
  <2> QED
    BY <2>1, <2>2, <2>3, <2>4 DEF Next
<1>2. FeedInv /\ TypesInv => TypeOK
  <2> SUFFICES ASSUME FeedInv, TypesInv PROVE TypeOK
    OBVIOUS
  <2>1. json \in SUBSET Entries
    <3>1. ({"vault_a"} \X Pools) \cup ({"vault_b"} \X Pools) \subseteq Accounts
      BY DEF Accounts, Roles
    <3> QED
      BY <3>1 DEF FeedInv, JsonInv, Entries
  <2>2. CASE status = "ready"
    <3>1. \A k \in DOMAIN relation :
            relation[k] \in Relations /\ relation[k].account_key = k
      BY <2>2 DEF FeedInv, RelationInv
    <3>2. \A r \in Relations : r \in Infos /\ r.account_key \in Accounts
      BY RelationTypes DEF FeedInv, Infos
    <3>3. /\ DOMAIN supplementary \subseteq DOMAIN ArrayType
          /\ \A d \in DOMAIN supplementary : supplementary[d] = ArrayType[d]
      BY <2>2 DEF FeedInv, RelationInv
    <3>4. DOMAIN relation \subseteq Accounts
      BY <3>1, <3>2
    <3> QED
      BY <2>1, <3>1, <3>2, <3>3, <3>4 DEF FeedInv, JsonInv, CacheInv, TypesInv, TypeOK
  <2>3. CASE status # "ready"
    <3>1. DOMAIN relation = {} /\ DOMAIN supplementary = {}
      BY <2>3 DEF TypesInv
    <3> QED
      BY <2>1, <3>1 DEF FeedInv, JsonInv, CacheInv, TypesInv, TypeOK
  <2> QED
    BY <2>2, <2>3
<1>3. Init => TypesInv
  BY InitTypes
<1> QED
  BY <1>1, <1>2, <1>3, Inductive, PTL DEF Spec

=============================================================================
