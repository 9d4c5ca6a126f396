------------------------------- MODULE Startup -------------------------------
(***************************************************************************)
(* The start of the bot (init_program, init_snapshot and the tasks of      *)
(* start_with_custom up to the first transaction).  One loader per DEX     *)
(* asks the RPC node for the accounts of the pools in the dex json, call   *)
(* by call, and removes the pools it cannot use; what the others need is   *)
(* put into OnceCells one after another.                                   *)
(***************************************************************************)
EXTENDS Naturals, Sequences, FiniteSets

CONSTANTS
    Pools,          \* pools the dex json may list
    ConfigOf,       \* per pool, the fee configuration it names if its DEX has one
    GlobalConfig    \* the one global configuration of PumpFun

ASSUME StartupAssumption == GlobalConfig \notin Pools

\* The order of the loaders in init_snapshot.
Loaders == <<"MeteoraDLMM", "MeteoraDAMMV2", "OrcaWhirl", "PumpFunAMM",
             "RaydiumAMM", "RaydiumCLMM", "RaydiumCPMM">>

Dexes == {"MeteoraDLMM", "MeteoraDAMMV2", "OrcaWhirl", "PumpFunAMM",
          "RaydiumAMM", "RaydiumCLMM", "RaydiumCPMM"}

(***************************************************************************)
(* One RPC call of a loader: the roles of the accounts it asks for, for    *)
(* which pools (every entry of the DEX, the pools whose account was found, *)
(* or some of those), and what a missing account does:                     *)
(*   "nothing"   it is left out of the cache,                              *)
(*   "dex"       if none is found, the whole DEX is removed,               *)
(*   "pool"      its pool is removed,                                      *)
(*   "json"      its pool is removed, but what was found of it is cached.  *)
(***************************************************************************)
Call(roles, pools, missing) == [roles |-> roles, pools |-> pools, missing |-> missing]

MeteoraDLMMCalls == <<Call({"pool"}, "entries", "pool"),
                      Call({"bitmap"}, "found", "nothing"),
                      Call({"arrays"}, "some", "pool")>>

MeteoraDAMMV2Calls == <<Call({"pool"}, "entries", "pool")>>

OrcaWhirlCalls == <<Call({"pool"}, "entries", "pool"),
                    Call({"oracle"}, "found", "nothing"),
                    Call({"arrays"}, "some", "nothing")>>

PumpFunAMMCalls == <<Call({"global"}, "entries", "dex"),
                     Call({"pool"}, "entries", "dex"),
                     Call({"vault_a", "vault_b"}, "entries", "nothing")>>

RaydiumAMMCalls == <<Call({"pool"}, "entries", "nothing"),
                     Call({"vault_a", "vault_b"}, "entries", "nothing")>>

RaydiumCLMMCalls == <<Call({"pool"}, "entries", "pool"),
                      Call({"config"}, "found", "pool"),
                      Call({"bitmap"}, "found", "pool"),
                      Call({"arrays"}, "some", "pool")>>

RaydiumCPMMCalls == <<Call({"pool"}, "entries", "pool"),
                      Call({"config"}, "found", "pool"),
                      Call({"vault_a", "vault_b"}, "found", "json")>>

Calls(d) == CASE d = "MeteoraDLMM" -> MeteoraDLMMCalls
              [] d = "MeteoraDAMMV2" -> MeteoraDAMMV2Calls
              [] d = "OrcaWhirl" -> OrcaWhirlCalls
              [] d = "PumpFunAMM" -> PumpFunAMMCalls
              [] d = "RaydiumAMM" -> RaydiumAMMCalls
              [] d = "RaydiumCLMM" -> RaydiumCLMMCalls
              [] d = "RaydiumCPMM" -> RaydiumCPMMCalls

Roles == {"pool", "config", "global", "bitmap", "arrays", "oracle", "vault_a", "vault_b"}

VARIABLES
    owner,          \* per pool, the DEX that owns it in the dex json, or "none"
    pc,             \* step of init_program and start_with_custom
    loader,         \* index of the loader that runs
    call,           \* index of its next RPC call
    dex_data,       \* pools still in the dex json
    found,          \* pools whose account the loader holds
    invalid,        \* pools the loader will remove
    fetched,        \* other accounts the loader holds
    cache,          \* accounts in the cache
    asked,          \* history: accounts asked for
    missing,        \* history: those that were missing
    cells,          \* OnceCells that are set
    used,           \* history: OnceCells that were read
    subscriber,     \* step of the subscriber task
    delivered       \* a transaction has reached an Arb

\* The account that plays role r for pool p; pools of one DEX may share their
\* fee configuration.
Account(r, p) == [role |-> r, of |-> CASE r = "config" -> <<owner[p], ConfigOf[p]>>
                                       [] r = "global" -> GlobalConfig
                                       [] OTHER -> p]

load == <<loader, call, dex_data, found, invalid, fetched, cache, asked, missing>>
tasks == <<subscriber, delivered>>
vars == <<owner, pc, load, cells, used, tasks>>

Init ==
    /\ owner \in [Pools -> Dexes \cup {"other", "none"}]
    /\ pc = "json"
    /\ loader = 1 /\ call = 0
    /\ dex_data = {} /\ found = {} /\ invalid = {} /\ fetched = {}
    /\ cache = {} /\ asked = {} /\ missing = {}
    /\ cells = {} /\ used = {}
    /\ subscriber = "off" /\ delivered = FALSE

Fail == pc' = "failed"

-----------------------------------------------------------------------------
(* init_program up to the snapshot *)

\* The entries that trade a followed mint are kept; none is an error, as are a
\* missing file and a wrong password.
LoadJson ==
    /\ pc = "json"
    /\ \E followed \in SUBSET {p \in Pools : owner[p] # "none"} :
         /\ dex_data' = followed
         /\ pc' = IF followed = {} THEN "failed" ELSE "slices"
    /\ UNCHANGED <<owner, loader, call, found, invalid, fetched, cache, asked, missing,
                   cells, used, tasks>>

InitSlices ==
    /\ pc = "slices"
    /\ cells' = cells \cup {"DATA_SLICE"}
    /\ pc' = "load"
    /\ UNCHANGED <<owner, load, used, tasks>>

-----------------------------------------------------------------------------
(* The loaders *)

Entries == {p \in dex_data : owner[p] = Loaders[loader]}

\* The next loader, or the end of the snapshot.
NextLoader ==
    /\ call' = 0
    /\ IF loader = Len(Loaders) THEN pc' = "mints" /\ UNCHANGED loader
                                ELSE loader' = loader + 1 /\ UNCHANGED pc

\* Mutant of SkipLoader: a DEX without entries ends the loop where it stands.
SkipInPlace ==
    /\ pc = "load" /\ call = 0
    /\ Entries = {}
    /\ UNCHANGED vars

SkipLoader ==
    /\ pc = "load" /\ call = 0
    /\ Entries = {}
    /\ NextLoader
    /\ UNCHANGED <<owner, dex_data, found, invalid, fetched, cache, asked, missing,
                   cells, used, tasks>>

\* Mutant of StartLoader: the marks of the loader before are kept.
StartLoaderStale ==
    /\ pc = "load" /\ call = 0
    /\ Entries # {}
    /\ call' = 1
    /\ found' = {} /\ fetched' = {}
    /\ UNCHANGED <<owner, pc, loader, dex_data, invalid, cache, asked, missing,
                   cells, used, tasks>>

StartLoader ==
    /\ pc = "load" /\ call = 0
    /\ Entries # {}
    /\ call' = 1
    /\ found' = {} /\ invalid' = {} /\ fetched' = {}
    /\ UNCHANGED <<owner, pc, loader, dex_data, cache, asked, missing, cells, used, tasks>>

Current == Calls(Loaders[loader])[call]

InCall == pc = "load" /\ call \in 1..Len(Calls(Loaders[loader]))

\* The pools a call asks about; a pool may name no tick or bin arrays.
Subjects == CASE Current.pools = "entries" -> {Entries}
              [] Current.pools = "found" -> {found}
              [] Current.pools = "some" -> SUBSET found

Request(subjects) == {Account(r, p) : r \in Current.roles, p \in subjects}

\* Pools of the call that miss an account of it.
Missing(subjects, got) == {p \in subjects : \E r \in Current.roles : Account(r, p) \notin got}

\* Mutant of Marked: of the pools that share a configuration only one is marked.
MarkedOne(subjects, got) ==
    IF Current.missing \in {"pool", "json"} /\ Missing(subjects, got) # {}
      THEN {CHOOSE p \in Missing(subjects, got) : TRUE} ELSE {}

Marked(subjects, got) ==
    IF Current.missing \in {"pool", "json"} THEN Missing(subjects, got) ELSE {}

\* PumpFun gives up without its configuration and without any pool.
GivesUp(got) == Current.missing = "dex" /\ got = {}

\* The answer to a call names the accounts that exist.
Answer(subjects, got) ==
    /\ ~GivesUp(got)
    /\ found' = IF "pool" \in Current.roles THEN subjects \ Missing(subjects, got)
                ELSE IF Current.missing = "pool" THEN found \ Marked(subjects, got)
                ELSE found
    /\ invalid' = invalid \cup Marked(subjects, got)
    /\ fetched' = fetched \cup {a \in got : a.role \notin {"pool", "global"}}
    /\ call' = call + 1
    /\ UNCHANGED <<pc, loader, dex_data>>

GiveUp(got) ==
    /\ GivesUp(got)
    /\ dex_data' = dex_data \ Entries
    /\ NextLoader
    /\ UNCHANGED <<found, invalid, fetched>>

RpcAnswer ==
    /\ InCall
    /\ \E subjects \in Subjects : \E got \in SUBSET Request(subjects) :
         /\ Answer(subjects, got) \/ GiveUp(got)
         /\ asked' = asked \cup Request(subjects)
         /\ missing' = missing \cup (Request(subjects) \ got)
    /\ used' = used \cup {"DATA_SLICE"}
    /\ UNCHANGED <<owner, cache, cells, tasks>>

\* Mutant of FinishLoader: the dex json keeps what this loader found, and
\* loses the entries of every other DEX.
FinishLoaderRetainFound ==
    /\ pc = "load" /\ call = Len(Calls(Loaders[loader])) + 1
    /\ dex_data' = dex_data \cap found
    /\ cache' = cache \cup fetched \cup {Account("pool", p) : p \in found}
    /\ NextLoader
    /\ UNCHANGED <<owner, found, invalid, fetched, asked, missing, cells, used, tasks>>

\* The pools marked invalid leave the dex json and what was loaded is cached,
\* unless no pool at all is left.
FinishLoader ==
    /\ pc = "load" /\ call = Len(Calls(Loaders[loader])) + 1
    /\ dex_data' = dex_data \ invalid
    /\ cache' = IF dex_data \ invalid = {} THEN cache
                ELSE cache \cup fetched \cup {Account("pool", p) : p \in found}
    /\ NextLoader
    /\ UNCHANGED <<owner, found, invalid, fetched, asked, missing, cells, used, tasks>>

\* A failed RPC call panics (unwrap), in a loader or for the mints and the clock.
RpcPanic ==
    /\ InCall \/ pc = "mints"
    /\ Fail
    /\ UNCHANGED <<owner, load, cells, used, tasks>>

\* Lookup tables (best effort), mints with a transfer fee and the clock.
LoadMintsAndClock ==
    /\ pc = "mints"
    /\ pc' = IF dex_data = {} THEN "failed" ELSE "cache"
    /\ UNCHANGED <<owner, load, cells, used, tasks>>

-----------------------------------------------------------------------------
(* The rest of init_program and the tasks *)

\* One step of the start: reads some cells, sets others, and may fail.
Step(from, to, reads, sets) ==
    /\ pc = from
    /\ used' = used \cup reads
    /\ cells' = cells \cup sets
    /\ pc' = to
    /\ UNCHANGED <<owner, load, tasks>>

InitGlobalCache == Step("cache", "metadata", {}, {"GLOBAL_CACHE"})

\* The token program of each mint is looked up in the cache.
InitMetadata ==
    Step("metadata", "relations", {"KEYPAIR", "GLOBAL_CACHE"},
         {"KEYPAIR", "ARB_MINT_ATA_ACCOUNT", "WALLET_OF_ATA_AMOUNT", "LAST_BLOCK_HASH"})

InitAccountRelations == Step("relations", "graph", {}, {"ACCOUNT_RELATION_CACHE"})

\* An entry whose owner is no DEX of the bot has no edges: unwrap panics.
InitGraph ==
    /\ \A p \in dex_data : owner[p] # "other"
    /\ Step("graph", "executor", {}, {"POOL_INDEX", "MINT_INDEX", "GRAPH"})

InitExecutor == Step("executor", "running", {}, {"JITO_EMA_TIPS"})

\* The first blockhash or tip cannot be had, two pools claim one vault, or the
\* graph cannot be built.
InitFails ==
    /\ \/ pc \in {"metadata", "executor", "graph"}
       \/ pc = "relations" /\ Cardinality(dex_data) > 1
    /\ Fail
    /\ UNCHANGED <<owner, load, cells, used, tasks>>

\* The tasks of the bot run; the subscriber opens the stream, or panics.
Connect ==
    /\ pc = "running" /\ subscriber = "off"
    /\ subscriber' = "open"
    /\ UNCHANGED <<owner, pc, load, cells, used, delivered>>

ConnectFails ==
    /\ pc = "running" /\ subscriber = "off"
    /\ Fail
    /\ UNCHANGED <<owner, load, cells, used, tasks>>

SetSubscribed ==
    /\ pc = "running" /\ subscriber = "open"
    /\ subscriber' = "forward"
    /\ cells' = cells \cup {"GRPC_SUBSCRIBED_ACCOUNTS"}
    /\ UNCHANGED <<owner, pc, load, used, delivered>>

\* Mutant of Forward: messages are forwarded as soon as the stream is open.
ForwardFromOpen ==
    /\ pc = "running" /\ subscriber \in {"open", "forward"}
    /\ delivered' = TRUE
    /\ UNCHANGED <<owner, pc, load, cells, used, subscriber>>

\* A transaction goes through a processor to an Arb.
Forward ==
    /\ pc = "running" /\ subscriber = "forward"
    /\ delivered' = TRUE
    /\ used' = used \cup {"GRPC_SUBSCRIBED_ACCOUNTS"}
    /\ UNCHANGED <<owner, pc, load, cells, subscriber>>

\* An Arb handles it: balance changes, search and bundle.
ArbHandles ==
    /\ pc = "running" /\ delivered
    /\ used' = used \cup {"GRPC_SUBSCRIBED_ACCOUNTS", "ACCOUNT_RELATION_CACHE",
                          "WALLET_OF_ATA_AMOUNT", "ARB_MINT_ATA_ACCOUNT", "POOL_INDEX",
                          "MINT_INDEX", "GRAPH", "GLOBAL_CACHE", "JITO_EMA_TIPS",
                          "KEYPAIR", "LAST_BLOCK_HASH"}
    /\ UNCHANGED <<owner, pc, load, cells, tasks>>

MainStep ==
    \/ LoadJson \/ InitSlices
    \/ SkipLoader \/ StartLoader \/ RpcAnswer \/ FinishLoader \/ LoadMintsAndClock
    \/ RpcPanic \/ InitFails
    \/ InitGlobalCache \/ InitMetadata \/ InitAccountRelations \/ InitGraph \/ InitExecutor

Next == MainStep \/ Connect \/ ConnectFails \/ SetSubscribed \/ Forward \/ ArbHandles

\* Every step of the start is synchronous, or an RPC call that is answered or
\* times out with an error.
Spec == Init /\ [][Next]_vars /\ WF_vars(MainStep)

-----------------------------------------------------------------------------
(* Properties *)

Steps == {"json", "slices", "load", "mints", "cache", "metadata", "relations", "graph",
          "executor", "running", "failed"}

Cells == {"DATA_SLICE", "GLOBAL_CACHE", "KEYPAIR", "ARB_MINT_ATA_ACCOUNT",
          "WALLET_OF_ATA_AMOUNT", "LAST_BLOCK_HASH", "ACCOUNT_RELATION_CACHE", "POOL_INDEX",
          "MINT_INDEX", "GRAPH", "JITO_EMA_TIPS", "GRPC_SUBSCRIBED_ACCOUNTS"}

Accounts == {Account(r, p) : r \in Roles, p \in Pools}

\* Types of the variables; a loader only handles pools that are still listed.
TypeOK ==
    /\ owner \in [Pools -> Dexes \cup {"other", "none"}]
    /\ pc \in Steps
    /\ loader \in 1..Len(Loaders)
    /\ call \in 0..(Len(Calls(Loaders[loader])) + 1)
    /\ pc \in {"json", "slices"} => loader = 1 /\ call = 0 /\ asked = {}
    /\ pc = "json" => dex_data = {}
    /\ dex_data \in SUBSET Pools
    /\ call > 0 => found \subseteq Entries /\ invalid \subseteq Entries
    /\ found \subseteq Pools /\ invalid \subseteq Pools
    /\ fetched \subseteq Accounts /\ cache \subseteq Accounts
    /\ asked \subseteq Accounts /\ missing \subseteq asked
    /\ cells \subseteq Cells /\ used \subseteq Cells
    /\ subscriber \in {"off", "open", "forward"}
    /\ delivered \in BOOLEAN

\* The loaders that check each pool: all but RaydiumAMM's and PumpFun's.
Checked == {"MeteoraDLMM", "MeteoraDAMMV2", "OrcaWhirl", "RaydiumCLMM", "RaydiumCPMM"}

\* What a loader wants for each pool, whichever way it reacts to a missing account.
WantedRoles(d) ==
    UNION {Calls(d)[k].roles : k \in {j \in DOMAIN Calls(d) : Calls(d)[j].missing # "nothing"}}

Wanted(p) == {Account(r, p) : r \in WantedRoles(owner[p])}

Loaded == pc \notin {"json", "slices", "load", "failed"}

\* Each pool of a checked DEX that is still listed after the snapshot has its
\* account in the cache, and every other account its loader asked for and wants.
KeptPoolsHaveData ==
    Loaded => \A p \in dex_data : owner[p] \in Checked =>
                /\ Account("pool", p) \in cache
                /\ Wanted(p) \cap asked \subseteq cache

\* init_snapshot "removes invalid dex json": every pool left has its account.
OnlyValidPoolsKept ==
    Loaded => \A p \in dex_data : owner[p] \in Dexes => Account("pool", p) \in cache

\* A pool the loaders removed missed an account that its DEX cannot do without.
PrunedForACause ==
    [][\A p \in dex_data \ dex_data' : Wanted(p) \cap missing' # {}]_vars

\* No step or task reads a OnceCell that has not been set.
CellsBeforeUse == used \subseteq cells

\* The start comes to an end, one way or the other.
StartupEnds == <>(pc \in {"failed", "running"})
=============================================================================
