---------------------------- MODULE StartupProofs ----------------------------
(***************************************************************************)
(* The start of the bot for any number of pools: a pool that is still      *)
(* listed after the snapshot has the data its loader wanted.               *)
(***************************************************************************)
EXTENDS Startup, TLAPS

\* What a loader that checks each pool does, call by call.
LEMMA CheckedCalls ==
    ASSUME NEW d \in Checked
    PROVE  /\ Len(Calls(d)) \in Nat
           /\ Len(Calls(d)) >= 1
           /\ Calls(d)[1] = Call({"pool"}, "entries", "pool")
           /\ \A k \in 2..Len(Calls(d)) :
                /\ "pool" \notin Calls(d)[k].roles
                /\ "global" \notin Calls(d)[k].roles
                /\ Calls(d)[k].pools \in {"found", "some"}
                /\ "config" \in Calls(d)[k].roles => Calls(d)[k].pools = "found"
                /\ Calls(d)[k].missing \in {"pool", "json", "nothing"}
<1>1. CASE d = "MeteoraDLMM"
  BY <1>1 DEF Calls, MeteoraDLMMCalls, Call
<1>2. CASE d = "MeteoraDAMMV2"
  BY <1>2 DEF Calls, MeteoraDAMMV2Calls, Call
<1>3. CASE d = "OrcaWhirl"
  BY <1>3 DEF Calls, OrcaWhirlCalls, Call
<1>4. CASE d = "RaydiumCLMM"
  BY <1>4 DEF Calls, RaydiumCLMMCalls, Call
<1>5. CASE d = "RaydiumCPMM"
  BY <1>5 DEF Calls, RaydiumCPMMCalls, Call
<1> QED
  BY <1>1, <1>2, <1>3, <1>4, <1>5 DEF Checked

\* A role a checking loader wants is only asked for in calls that mind.
LEMMA WantedCalls ==
    ASSUME NEW d \in Checked, NEW k \in 1..Len(Calls(d)), NEW r \in Calls(d)[k].roles,
           r \in WantedRoles(d)
    PROVE  Calls(d)[k].missing # "nothing"
<1>1. CASE d = "MeteoraDLMM"
  BY <1>1 DEF Calls, MeteoraDLMMCalls, Call, WantedRoles
<1>2. CASE d = "MeteoraDAMMV2"
  BY <1>2 DEF Calls, MeteoraDAMMV2Calls, Call, WantedRoles
<1>3. CASE d = "OrcaWhirl"
  BY <1>3 DEF Calls, OrcaWhirlCalls, Call, WantedRoles
<1>4. CASE d = "RaydiumCLMM"
  BY <1>4 DEF Calls, RaydiumCLMMCalls, Call, WantedRoles
<1>5. CASE d = "RaydiumCPMM"
  BY <1>5 DEF Calls, RaydiumCPMMCalls, Call, WantedRoles
<1> QED
  BY <1>1, <1>2, <1>3, <1>4, <1>5 DEF Checked

\* Every call has roles, asks for known ones, and says about which pools; the
\* roles of one that minds a missing account are wanted.
LEMMA CallRoles ==
    ASSUME NEW d \in Dexes
    PROVE  /\ Len(Calls(d)) \in Nat
           /\ Len(Calls(d)) >= 1
           /\ \A k \in 1..Len(Calls(d)) :
                /\ Calls(d)[k].roles \subseteq Roles
                /\ Calls(d)[k].roles # {}
                /\ Calls(d)[k].pools \in {"entries", "found", "some"}
                /\ Calls(d)[k].missing # "nothing" => Calls(d)[k].roles \subseteq WantedRoles(d)
           /\ WantedRoles(d) \subseteq Roles
<1>1. CASE d = "MeteoraDLMM"
  BY <1>1 DEF Calls, MeteoraDLMMCalls, Call, Roles, WantedRoles
<1>2. CASE d = "MeteoraDAMMV2"
  BY <1>2 DEF Calls, MeteoraDAMMV2Calls, Call, Roles, WantedRoles
<1>3. CASE d = "OrcaWhirl"
  BY <1>3 DEF Calls, OrcaWhirlCalls, Call, Roles, WantedRoles
<1>4. CASE d = "RaydiumCLMM"
  BY <1>4 DEF Calls, RaydiumCLMMCalls, Call, Roles, WantedRoles
<1>5. CASE d = "RaydiumCPMM"
  BY <1>5 DEF Calls, RaydiumCPMMCalls, Call, Roles, WantedRoles
<1>6. CASE d = "PumpFunAMM"
  BY <1>6 DEF Calls, PumpFunAMMCalls, Call, Roles, WantedRoles
<1>7. CASE d = "RaydiumAMM"
  BY <1>7 DEF Calls, RaydiumAMMCalls, Call, Roles, WantedRoles
<1> QED
  BY <1>1, <1>2, <1>3, <1>4, <1>5, <1>6, <1>7 DEF Dexes

\* A loader that may give up asks about all its entries when it does.
LEMMA DexCalls ==
    ASSUME NEW d \in Dexes, NEW k \in 1..Len(Calls(d)), Calls(d)[k].missing = "dex"
    PROVE  Calls(d)[k].pools = "entries"
<1>1. CASE d = "MeteoraDLMM"
  BY <1>1 DEF Calls, MeteoraDLMMCalls, Call
<1>2. CASE d = "MeteoraDAMMV2"
  BY <1>2 DEF Calls, MeteoraDAMMV2Calls, Call
<1>3. CASE d = "OrcaWhirl"
  BY <1>3 DEF Calls, OrcaWhirlCalls, Call
<1>4. CASE d = "RaydiumCLMM"
  BY <1>4 DEF Calls, RaydiumCLMMCalls, Call
<1>5. CASE d = "RaydiumCPMM"
  BY <1>5 DEF Calls, RaydiumCPMMCalls, Call
<1>6. CASE d = "PumpFunAMM"
  BY <1>6 DEF Calls, PumpFunAMMCalls, Call
<1>7. CASE d = "RaydiumAMM"
  BY <1>7 DEF Calls, RaydiumAMMCalls, Call
<1> QED
  BY <1>1, <1>2, <1>3, <1>4, <1>5, <1>6, <1>7 DEF Dexes

\* The loaders are the seven DEXes, each once.
LEMMA SevenLoaders ==
    /\ Len(Loaders) = 7
    /\ \A i \in 1..7 : Loaders[i] \in Dexes
    /\ \A i, j \in 1..7 : Loaders[i] = Loaders[j] => i = j
    /\ \A d \in Dexes : \E i \in 1..7 : d = Loaders[i]
  BY DEF Loaders, Dexes

\* No checking loader wants the global configuration.
LEMMA NoGlobalWanted ==
    ASSUME NEW d \in Checked
    PROVE  "global" \notin WantedRoles(d)
<1>1. CASE d = "MeteoraDLMM"
  BY <1>1 DEF Calls, MeteoraDLMMCalls, Call, WantedRoles
<1>2. CASE d = "MeteoraDAMMV2"
  BY <1>2 DEF Calls, MeteoraDAMMV2Calls, Call, WantedRoles
<1>3. CASE d = "OrcaWhirl"
  BY <1>3 DEF Calls, OrcaWhirlCalls, Call, WantedRoles
<1>4. CASE d = "RaydiumCLMM"
  BY <1>4 DEF Calls, RaydiumCLMMCalls, Call, WantedRoles
<1>5. CASE d = "RaydiumCPMM"
  BY <1>5 DEF Calls, RaydiumCPMMCalls, Call, WantedRoles
<1> QED
  BY <1>1, <1>2, <1>3, <1>4, <1>5 DEF Checked

\* Two accounts of one role are the same for one pool only, or for pools of
\* one DEX that share their configuration.
LEMMA SameAccount ==
    ASSUME NEW r \in Roles, NEW s \in Roles, NEW p \in Pools, NEW q \in Pools,
           Account(r, p) = Account(s, q), r # "global"
    PROVE  /\ r = s
           /\ owner[p] = owner[q]
           /\ r # "config" => p = q
<1>1. r = s
  BY DEF Account
<1>2. CASE r = "config"
  BY <1>1, <1>2 DEF Account
<1>3. CASE r # "config"
  BY <1>1, <1>3 DEF Account
<1> QED
  BY <1>1, <1>2, <1>3

-----------------------------------------------------------------------------
(* Types *)

\* The subjects of a call are entries of the running loader.
LEMMA SubjectsAreEntries ==
    ASSUME TypeOK, InCall, NEW subjects \in Subjects
    PROVE  /\ Loaders[loader] \in Dexes
           /\ subjects \subseteq Entries
           /\ Current.roles \subseteq Roles
           /\ Current.pools \in {"entries", "found", "some"}
           /\ Request(subjects) \subseteq Accounts
<1>1. loader \in 1..7
  BY SevenLoaders DEF TypeOK
<1>2. Loaders[loader] \in Dexes
  BY <1>1, SevenLoaders
<1>3. Current.roles \subseteq Roles /\ Current.pools \in {"entries", "found", "some"}
  BY <1>2, CallRoles DEF InCall, Current
<1>4. call > 0
  BY <1>2, CallRoles DEF InCall
<1>5. found \subseteq Entries
  BY <1>4 DEF TypeOK
<1>6. subjects \subseteq Entries
  BY <1>3, <1>5 DEF Subjects
<1>7. Entries \subseteq Pools
  BY DEF Entries, TypeOK
<1>8. Request(subjects) \subseteq Accounts
  BY <1>3, <1>6, <1>7 DEF Request, Accounts
<1> QED
  BY <1>2, <1>3, <1>6, <1>8

\* What every step that only moves pc, cells, used or the tasks keeps.
LEMMA TypeKept ==
    ASSUME TypeOK, owner' = owner, load' = load,
           pc' = pc \/ pc' \in Steps \ {"json", "slices"}, cells' \subseteq Cells, used' \subseteq Cells,
           subscriber' \in {"off", "open", "forward"}, delivered' \in BOOLEAN
    PROVE  TypeOK'
<1>1. Entries' = Entries /\ Accounts' = Accounts
  BY DEF Entries, Accounts, Account, load
<1> QED
  BY <1>1 DEF TypeOK, load

\* Every step keeps the types.
LEMMA TypeStep == TypeOK /\ [Next]_vars => TypeOK'
<1> SUFFICES ASSUME TypeOK, [Next]_vars PROVE TypeOK'
  OBVIOUS
<1>a. loader \in 1..7 /\ Loaders[loader] \in Dexes
  BY SevenLoaders DEF TypeOK
<1>b. ASSUME owner' = owner PROVE Accounts' = Accounts
  BY <1>b DEF Accounts, Account
<1>c. \A i \in 1..7 : Len(Calls(Loaders[i])) \in Nat /\ Len(Calls(Loaders[i])) >= 1
  BY SevenLoaders, CallRoles
<1>1. CASE LoadJson
  <2>1. loader' = 1 /\ call' = 0 /\ asked' = {} /\ missing' = missing
    BY <1>1 DEF LoadJson, TypeOK
  <2>2. /\ owner' = owner /\ found' = found /\ invalid' = invalid
        /\ fetched' = fetched /\ cache' = cache /\ cells' = cells /\ used' = used
        /\ tasks' = tasks /\ dex_data' \in SUBSET Pools /\ pc' \in Steps
    BY <1>1 DEF LoadJson, Steps
  <2> QED
    BY <1>1, <2>1, <2>2, <1>b, <1>c, SevenLoaders DEF LoadJson, TypeOK, tasks
<1>2. CASE InitSlices
  BY <1>2, TypeKept DEF InitSlices, Steps, Cells, tasks, TypeOK
<1>3. CASE SkipLoader
  <2>1. loader' \in 1..7 /\ call' = 0 /\ pc' \in Steps \ {"json", "slices"}
    BY <1>3, <1>a, SevenLoaders DEF SkipLoader, NextLoader, TypeOK, Steps
  <2>2. /\ owner' = owner /\ dex_data' = dex_data /\ found' = found /\ invalid' = invalid
        /\ fetched' = fetched /\ cache' = cache /\ asked' = asked /\ missing' = missing
        /\ cells' = cells /\ used' = used /\ tasks' = tasks
    BY <1>3 DEF SkipLoader
  <2>3. Accounts' = Accounts /\ call' \in 0..(Len(Calls(Loaders[loader'])) + 1)
    BY <2>1, <2>2, <1>b, <1>c
  <2> QED
    BY <2>1, <2>2, <2>3, SevenLoaders DEF TypeOK, tasks
<1>4. CASE StartLoader
  <2>1. /\ owner' = owner /\ pc = "load" /\ pc' = pc /\ loader' = loader /\ dex_data' = dex_data
        /\ found' = {} /\ invalid' = {} /\ fetched' = {} /\ call' = 1
        /\ cache' = cache /\ asked' = asked /\ missing' = missing
        /\ cells' = cells /\ used' = used /\ tasks' = tasks
    BY <1>4 DEF StartLoader
  <2>2. Accounts' = Accounts /\ call' \in 0..(Len(Calls(Loaders[loader'])) + 1)
    BY <2>1, <1>a, <1>b, <1>c
  <2> QED
    BY <2>1, <2>2 DEF TypeOK, tasks
<1>5. CASE RpcAnswer
  <2>0. PICK subjects \in Subjects : \E got \in SUBSET Request(subjects) :
          /\ Answer(subjects, got) \/ GiveUp(got)
          /\ asked' = asked \cup Request(subjects)
          /\ missing' = missing \cup (Request(subjects) \ got)
    BY <1>5 DEF RpcAnswer
  <2>1. PICK got \in SUBSET Request(subjects) :
          /\ Answer(subjects, got) \/ GiveUp(got)
          /\ asked' = asked \cup Request(subjects)
          /\ missing' = missing \cup (Request(subjects) \ got)
    BY <2>0
  <2>2. InCall /\ owner' = owner /\ cache' = cache /\ cells' = cells /\ tasks' = tasks
        /\ used' \subseteq Cells
    BY <1>5 DEF RpcAnswer, TypeOK, Cells
  <2>3. subjects \subseteq Entries /\ Request(subjects) \subseteq Accounts
        /\ Entries \subseteq Pools /\ Accounts' = Accounts
    BY <2>1, <2>2, <1>b, SubjectsAreEntries DEF Entries, TypeOK
  <2>4. CASE Answer(subjects, got)
    <3>1. found \subseteq Entries /\ invalid \subseteq Entries
      BY <2>2, <1>a, CallRoles DEF InCall, TypeOK
    <3>2. Marked(subjects, got) \subseteq Entries
      BY <2>3 DEF Marked, Missing
    <3>3. found' \subseteq Entries /\ invalid' \subseteq Entries /\ fetched' \subseteq Accounts
      BY <2>4, <2>1, <2>3, <3>1, <3>2 DEF Answer, TypeOK
    <3>4. call' \in 0..(Len(Calls(Loaders[loader])) + 1)
      BY <2>4, <2>2, <1>a, CallRoles DEF Answer, InCall
    <3>5. Entries' = Entries /\ loader' = loader /\ dex_data' = dex_data
          /\ pc' = pc /\ pc = "load"
      BY <2>4, <2>2 DEF Answer, Entries, InCall
    <3> QED
      BY <2>1, <2>2, <2>3, <3>3, <3>4, <3>5 DEF TypeOK, tasks
  <2>5. CASE GiveUp(got)
    <3>1. loader' \in 1..7 /\ call' = 0 /\ pc' \in Steps \ {"json", "slices"}
      BY <2>2, <2>5, <1>a, SevenLoaders DEF GiveUp, InCall, NextLoader, TypeOK, Steps
    <3>2. dex_data' \subseteq dex_data /\ found' = found /\ invalid' = invalid
          /\ fetched' = fetched
      BY <2>5 DEF GiveUp
    <3> QED
      BY <2>1, <2>2, <2>3, <3>1, <3>2, <1>c, SevenLoaders, SMTT(30) DEF TypeOK, tasks
  <2> QED
    BY <2>1, <2>4, <2>5
<1>6. CASE FinishLoader
  <2>1. loader' \in 1..7 /\ call' = 0 /\ pc' \in Steps \ {"json", "slices"}
    BY <1>6, <1>a, SevenLoaders DEF FinishLoader, NextLoader, TypeOK, Steps
  <2>2. \A p \in Pools : Account("pool", p) \in Accounts
    BY DEF Accounts, Roles
  <2>3. cache' \subseteq Accounts /\ Accounts' = Accounts
    BY <1>6, <1>b, <2>2 DEF FinishLoader, TypeOK
  <2> QED
    BY <1>6, <2>1, <2>3, <1>c, SevenLoaders, SMTT(30) DEF FinishLoader, TypeOK, tasks
<1>7. CASE LoadMintsAndClock
  BY <1>7, TypeKept DEF LoadMintsAndClock, Steps, tasks, TypeOK
<1>8. CASE RpcPanic \/ InitFails
  BY <1>8, TypeKept DEF RpcPanic, InitFails, Fail, Steps, tasks, TypeOK
<1>9. CASE InitGlobalCache \/ InitMetadata \/ InitAccountRelations \/ InitGraph \/ InitExecutor
  BY <1>9, TypeKept
     DEF InitGlobalCache, InitMetadata, InitAccountRelations, InitGraph, InitExecutor, Step,
         Steps, Cells, tasks, TypeOK
<1>10. CASE Connect \/ ConnectFails \/ SetSubscribed
  BY <1>10, TypeKept
     DEF Connect, ConnectFails, SetSubscribed, Fail, Steps, Cells, tasks, TypeOK
<1>11. CASE Forward \/ ArbHandles
  BY <1>11, TypeKept DEF Forward, ArbHandles, Steps, Cells, tasks, TypeOK
<1>12. CASE UNCHANGED vars
  BY <1>12, TypeKept DEF vars, tasks, TypeOK
<1> QED
  BY <1>1, <1>2, <1>3, <1>4, <1>5, <1>6, <1>7, <1>8, <1>9, <1>10, <1>11, <1>12
     DEF Next, MainStep

\* The types hold at first.
LEMMA InitTypes == Init => TypeOK
<1> SUFFICES ASSUME Init PROVE TypeOK
  OBVIOUS
<1>1. Loaders[1] \in Dexes /\ 1 \in 1..Len(Loaders)
  BY SevenLoaders
<1>2. 0 \in 0..(Len(Calls(Loaders[1])) + 1)
  BY <1>1, CallRoles
<1> QED
  BY <1>1, <1>2 DEF Init, TypeOK, Steps

\* The types of Startup's variables hold in every state: in particular a loader
\* handles only pools that are still listed, and no call but its own.
THEOREM TypeCorrect == Spec => []TypeOK
  BY InitTypes, TypeStep, PTL DEF Spec

-----------------------------------------------------------------------------
(* What a pool that is still listed has in the cache *)

\* The loader of pool p has run to its end.
Passed(p) ==
    \E i \in 1..7 : owner[p] = Loaders[i] /\ (pc = "load" => i < loader)

Cached(p) ==
    /\ Account("pool", p) \in cache
    /\ Wanted(p) \cap asked \subseteq cache

CachedInv ==
    pc \notin {"json", "slices", "failed"} =>
      \A p \in dex_data : owner[p] \in Checked /\ Passed(p) => Cached(p)

\* The loader that runs holds, for each pool it has not marked, the account of
\* the pool and what it asked for and wants.
HeldInv ==
    pc = "load" /\ call >= 1 /\ Loaders[loader] \in Checked =>
      \A p \in Entries \ invalid :
        /\ call >= 2 => p \in found
        /\ \A r \in WantedRoles(owner[p]) \ {"pool"} :
             Account(r, p) \in asked => Account(r, p) \in fetched

\* Accounts of a pool are only asked for by its own loader.
AskedInv ==
    pc = "load" =>
      \A p \in Pools, r \in Roles \ {"global"} : Account(r, p) \in asked =>
        \E i \in 1..loader : owner[p] = Loaders[i] /\ (call <= 1 => i < loader)

LoadInv == TypeOK /\ CachedInv /\ HeldInv /\ AskedInv

\* Accounts do not move while the owners stay.
LEMMA SameOwners ==
    ASSUME owner' = owner
    PROVE  \A p \in Pools : /\ \A r \in Roles : Account(r, p)' = Account(r, p)
                             /\ Wanted(p)' = Wanted(p)
  BY DEF Account, Wanted

\* What was cached stays so when nothing more of the pool is asked for.
LEMMA StillCached ==
    ASSUME owner' = owner, cache \subseteq cache', NEW p \in Pools, Cached(p),
           Wanted(p) \cap asked' \subseteq asked
    PROVE  Cached(p)'
<1>1. Account("pool", p)' = Account("pool", p) /\ Wanted(p)' = Wanted(p)
  BY SameOwners DEF Roles
<1> QED
  BY <1>1 DEF Cached

\* A request asks for accounts of the DEX of the running loader.
LEMMA RequestOwner ==
    ASSUME TypeOK, InCall, NEW subjects \in Subjects, NEW p \in Pools,
           NEW r \in Roles \ {"global"}, Account(r, p) \in Request(subjects)
    PROVE  /\ owner[p] = Loaders[loader]
           /\ r \in Current.roles
           /\ r # "config" => p \in subjects
<1>1. subjects \subseteq Entries /\ Current.roles \subseteq Roles /\ Entries \subseteq Pools
  BY SubjectsAreEntries DEF Entries, TypeOK
<1>2. PICK s \in Current.roles, q \in subjects : Account(r, p) = Account(s, q)
  BY DEF Request
<1>3. r = s /\ owner[p] = owner[q] /\ (r # "config" => p = q)
  BY <1>1, <1>2, SameAccount
<1> QED
  BY <1>1, <1>2, <1>3 DEF Entries

\* A pool whose loader has run is not asked about again.
LEMMA PassedNotAsked ==
    ASSUME TypeOK, InCall, NEW subjects \in Subjects, NEW p \in Pools,
           owner[p] \in Checked, Passed(p)
    PROVE  Wanted(p) \cap Request(subjects) = {}
<1> SUFFICES ASSUME NEW r \in WantedRoles(owner[p]), Account(r, p) \in Request(subjects)
             PROVE  FALSE
  BY DEF Wanted
<1>1. r \in Roles \ {"global"}
  <2>1. owner[p] \in Dexes
    BY DEF Checked, Dexes
  <2> QED
    BY <2>1, NoGlobalWanted, CallRoles
<1>2. owner[p] = Loaders[loader]
  BY <1>1, RequestOwner
<1>3. PICK i \in 1..7 : owner[p] = Loaders[i] /\ i < loader
  BY DEF Passed, InCall
<1>4. loader \in 1..7
  BY SevenLoaders DEF TypeOK
<1>5. Loaders[i] = Loaders[loader]
  BY <1>2, <1>3
<1>6. i = loader
  BY <1>4, <1>5, SevenLoaders
<1> QED
  BY <1>3, <1>4, <1>6

\* A step that moves neither the load nor the owners, nor enters the load.
LEMMA LoadKept ==
    ASSUME LoadInv, TypeOK', owner' = owner, load' = load,
           \/ pc' = pc
           \/ pc' = "failed"
           \/ pc \notin {"json", "slices", "load", "failed"} /\ pc' # "load"
    PROVE  LoadInv'
<1>1. CachedInv'
  <2> SUFFICES ASSUME pc' \notin {"json", "slices", "failed"},
                      NEW p \in dex_data', owner'[p] \in Checked, Passed(p)'
               PROVE  Cached(p)'
    BY DEF CachedInv
  <2>1. Passed(p) /\ p \in dex_data /\ owner[p] \in Checked /\ p \in Pools
    BY DEF Passed, load, LoadInv, TypeOK
  <2>2. Cached(p)
    BY <2>1 DEF LoadInv, CachedInv
  <2> QED
    BY <2>1, <2>2, StillCached DEF load
<1>2. HeldInv' /\ AskedInv'
  <2>1. CASE pc' = "load"
    <3>1. pc = "load" /\ Entries' = Entries
      BY <2>1 DEF load, Entries
    <3>2. Entries \subseteq Pools
      BY DEF Entries, LoadInv, TypeOK
    <3>3. HeldInv'
      <4> SUFFICES ASSUME call >= 1, Loaders[loader] \in Checked, NEW p \in Entries \ invalid
                   PROVE  /\ call >= 2 => p \in found
                          /\ \A r \in WantedRoles(owner[p]) \ {"pool"} :
                               Account(r, p)' \in asked => Account(r, p)' \in fetched
        BY <3>1 DEF HeldInv, load
      <4>1. \A r \in WantedRoles(owner[p]) : Account(r, p)' = Account(r, p)
        BY DEF Account
      <4> QED
        BY <3>1, <4>1 DEF LoadInv, HeldInv
    <3>4. AskedInv'
      <4>1. \A p \in Pools, r \in Roles : Account(r, p)' = Account(r, p)
        BY SameOwners
      <4> QED
        BY <3>1, <4>1 DEF LoadInv, AskedInv, load
    <3> QED
      BY <3>3, <3>4
  <2>2. CASE pc' # "load"
    BY <2>2 DEF HeldInv, AskedInv
  <2> QED
    BY <2>1, <2>2
<1> QED
  BY <1>1, <1>2 DEF LoadInv

\* After an answer the loader holds, for each pool it has not marked, what it
\* asked for and wants.
LEMMA AnswerHeld ==
    ASSUME TypeOK, HeldInv, InCall, owner' = owner, loader' = loader, call' = call + 1,
           Entries' = Entries,
           NEW subjects \in Subjects, NEW got \in SUBSET Request(subjects),
           Answer(subjects, got), asked' = asked \cup Request(subjects)
    PROVE  HeldInv'
<1> SUFFICES ASSUME Loaders[loader] \in Checked, NEW p \in Entries, p \notin invalid'
             PROVE  /\ p \in found'
                    /\ \A r \in WantedRoles(owner[p]) \ {"pool"} :
                         Account(r, p) \in asked' => Account(r, p) \in fetched'
  <2>1. \A p \in Entries : \A r \in WantedRoles(owner[p]) : Account(r, p)' = Account(r, p)
    BY DEF Account
  <2> QED
    BY <2>1 DEF HeldInv
<1>1. call \in 1..Len(Calls(Loaders[loader])) /\ Len(Calls(Loaders[loader])) \in Nat /\ pc = "load"
  BY CheckedCalls DEF InCall
<1>2. p \notin Marked(subjects, got) /\ p \notin invalid /\ p \in Pools
      /\ owner[p] = Loaders[loader]
  BY DEF Answer, Entries, TypeOK
<1>3. \A r \in WantedRoles(owner[p]) \ {"pool"} : r \in Roles \ {"global"}
  <2>1. owner[p] \in Dexes
    BY <1>2 DEF Checked, Dexes
  <2> QED
    BY <2>1, <1>2, NoGlobalWanted, CallRoles
<1>4. CASE call = 1
  <2>1. Current = Call({"pool"}, "entries", "pool")
    BY <1>4, CheckedCalls DEF Current
  <2>2. subjects = Entries
    BY <2>1 DEF Subjects, Call
  <2>3. p \in subjects \ Missing(subjects, got)
    BY <2>1, <2>2, <1>2 DEF Marked, Call
  <2>4. p \in found'
    BY <2>1, <2>3 DEF Answer, Call
  <2>5. ASSUME NEW r \in WantedRoles(owner[p]) \ {"pool"}, Account(r, p) \in asked'
        PROVE  Account(r, p) \in fetched'
    <3>1. r \notin Current.roles
      BY <2>1 DEF Call
    <3>2. Account(r, p) \in asked
      BY <2>5, <3>1, <1>2, <1>3, RequestOwner
    <3>3. Account(r, p) \in fetched
      BY <3>2, <1>1, <1>2, <2>5 DEF HeldInv
    <3> QED
      BY <3>3 DEF Answer
  <2> QED
    BY <2>4, <2>5
<1>5. CASE call \in 2..Len(Calls(Loaders[loader]))
  <2>1. /\ "pool" \notin Current.roles
        /\ Current.pools \in {"found", "some"}
        /\ "config" \in Current.roles => Current.pools = "found"
        /\ Current.missing \in {"pool", "json", "nothing"}
    BY <1>5, CheckedCalls DEF Current
  <2>2. p \in found
    BY <1>1, <1>2, <1>5 DEF HeldInv
  <2>3. p \in found'
    BY <1>2, <2>1, <2>2 DEF Answer
  <2>4. ASSUME NEW r \in WantedRoles(owner[p]) \ {"pool"}, Account(r, p) \in asked'
        PROVE  Account(r, p) \in fetched'
    <3>1. CASE Account(r, p) \in asked
      <4>1. Account(r, p) \in fetched
        BY <3>1, <1>1, <1>2, <2>4 DEF HeldInv
      <4> QED
        BY <4>1 DEF Answer
    <3>2. CASE Account(r, p) \in Request(subjects)
      <4>1. r \in Current.roles /\ (r # "config" => p \in subjects)
        BY <3>2, <1>2, <1>3, RequestOwner
      <4>2. p \in subjects
        BY <4>1, <2>1, <2>2 DEF Subjects
      <4>3. Current.missing # "nothing"
        BY <4>1, <1>1, <1>2, WantedCalls DEF Current
      <4>4. p \notin Missing(subjects, got)
        BY <4>3, <2>1, <1>2 DEF Marked
      <4>5. Account(r, p) \in got
        BY <4>1, <4>2, <4>4 DEF Missing
      <4>6. Account(r, p).role = r
        BY DEF Account
      <4> QED
        BY <4>5, <4>6, <1>3, <2>4 DEF Answer
    <3> QED
      BY <2>4, <3>1, <3>2
  <2> QED
    BY <2>3, <2>4
<1> QED
  BY <1>1, <1>4, <1>5

\* Every step keeps what is known of the load.
LEMMA LoadStep == LoadInv /\ [Next]_vars => LoadInv'
<1> SUFFICES ASSUME LoadInv, [Next]_vars PROVE LoadInv'
  OBVIOUS
<1>t. TypeOK /\ TypeOK'
  BY TypeStep DEF LoadInv
<1>a. loader \in 1..7 /\ Loaders[loader] \in Dexes
  BY <1>t, SevenLoaders DEF TypeOK
<1>1. CASE LoadJson
  BY <1>1, <1>t DEF LoadJson, LoadInv, CachedInv, HeldInv, AskedInv
<1>2. CASE InitSlices
  <2>1. pc = "slices" /\ owner' = owner /\ load' = load /\ loader = 1 /\ call = 0 /\ asked = {}
    BY <1>2, <1>t DEF InitSlices, TypeOK
  <2>2. HeldInv' /\ AskedInv'
    BY <2>1 DEF HeldInv, AskedInv, load
  <2>3. CachedInv'
    BY <2>1, <1>2 DEF CachedInv, Passed, load, InitSlices
  <2> QED
    BY <2>2, <2>3, <1>t DEF LoadInv
<1>3. CASE SkipLoader
  <2>1. /\ pc = "load" /\ call = 0 /\ Entries = {} /\ NextLoader
        /\ owner' = owner /\ dex_data' = dex_data /\ cache' = cache /\ asked' = asked
    BY <1>3 DEF SkipLoader
  <2>2. CachedInv'
    <3> SUFFICES ASSUME NEW p \in dex_data, owner[p] \in Checked, Passed(p)'
                 PROVE  Cached(p)'
      BY <2>1 DEF CachedInv
    <3>1. p \in Pools
      BY <1>t DEF TypeOK
    <3>2. owner[p] # Loaders[loader]
      BY <2>1 DEF Entries
    <3>3. Passed(p)
      BY <2>1, <3>2, <1>a, SevenLoaders DEF Passed, NextLoader
    <3>4. Cached(p)
      BY <2>1, <3>3 DEF LoadInv, CachedInv
    <3> QED
      BY <2>1, <3>1, <3>4, StillCached
  <2>3. HeldInv'
    BY <2>1 DEF HeldInv, NextLoader
  <2>4. AskedInv'
    BY <2>1, <1>a, SameOwners DEF LoadInv, AskedInv, NextLoader
  <2> QED
    BY <1>t, <2>2, <2>3, <2>4 DEF LoadInv
<1>4. CASE StartLoader
  <2>1. /\ pc = "load" /\ pc' = pc /\ call = 0 /\ call' = 1 /\ loader' = loader
        /\ owner' = owner /\ dex_data' = dex_data /\ cache' = cache /\ asked' = asked
    BY <1>4 DEF StartLoader
  <2>2. CachedInv'
    <3> SUFFICES ASSUME NEW p \in dex_data, owner[p] \in Checked, Passed(p)
                 PROVE  Cached(p)'
      BY <2>1 DEF CachedInv, Passed
    <3> QED
      BY <2>1, <1>t, StillCached DEF LoadInv, CachedInv, TypeOK
  <2>3. AskedInv'
    BY <2>1, SameOwners DEF LoadInv, AskedInv
  <2>4. HeldInv'
    <3> SUFFICES ASSUME Loaders[loader] \in Checked, NEW p \in Entries,
                        NEW r \in WantedRoles(owner[p]) \ {"pool"}, Account(r, p) \in asked
                 PROVE  FALSE
      <4>1. Entries' = Entries
        BY <2>1 DEF Entries
      <4>2. \A p \in Entries : \A r \in WantedRoles(owner[p]) : Account(r, p)' = Account(r, p)
        BY <2>1 DEF Account
      <4> QED
        BY <2>1, <4>1, <4>2 DEF HeldInv
    <3>1. p \in Pools /\ owner[p] = Loaders[loader] /\ r \in Roles \ {"global"}
      BY <1>a, <1>t, CallRoles, NoGlobalWanted DEF Entries, TypeOK
    <3>2. PICK i \in 1..loader : owner[p] = Loaders[i] /\ i < loader
      BY <2>1, <3>1 DEF LoadInv, AskedInv
    <3>3. Loaders[i] = Loaders[loader] /\ i \in 1..7
      BY <3>1, <3>2, <1>a
    <3>4. i = loader
      BY <3>3, <1>a, SevenLoaders
    <3> QED
      BY <3>2, <3>4, <1>a
  <2> QED
    BY <1>t, <2>2, <2>3, <2>4 DEF LoadInv
<1>5. CASE RpcAnswer
  <2>0. PICK subjects \in Subjects : \E got \in SUBSET Request(subjects) :
          /\ Answer(subjects, got) \/ GiveUp(got)
          /\ asked' = asked \cup Request(subjects)
    BY <1>5 DEF RpcAnswer
  <2>1. PICK got \in SUBSET Request(subjects) :
          /\ Answer(subjects, got) \/ GiveUp(got)
          /\ asked' = asked \cup Request(subjects)
    BY <2>0
  <2>2. InCall /\ pc = "load" /\ owner' = owner /\ cache' = cache
        /\ call \in 1..Len(Calls(Loaders[loader]))
    BY <1>5 DEF RpcAnswer, InCall
  <2>3. \A p \in Pools : owner[p] \in Checked /\ Passed(p) /\ Cached(p) => Cached(p)'
    BY <1>t, <2>1, <2>2, PassedNotAsked, StillCached
  <2>4. \A p \in dex_data : owner[p] \in Checked /\ Passed(p) => Cached(p)'
    BY <2>2, <2>3, <1>t DEF LoadInv, CachedInv, TypeOK
  <2>5. subjects \subseteq Entries /\ Entries \subseteq Pools
    BY <2>2, <1>t, SubjectsAreEntries DEF Entries, TypeOK
  <2>6. CASE Answer(subjects, got)
    <3>1. /\ pc' = pc /\ loader' = loader /\ dex_data' = dex_data /\ call' = call + 1
          /\ call \in Nat /\ Entries' = Entries
      BY <2>2, <2>6, <1>a, CallRoles DEF Answer, Entries
    <3>2. CachedInv'
      BY <2>2, <2>4, <3>1 DEF CachedInv, Passed
    <3>3. AskedInv'
      <4> SUFFICES ASSUME NEW p \in Pools, NEW r \in Roles \ {"global"}, Account(r, p) \in asked'
                   PROVE  \E i \in 1..loader : owner[p] = Loaders[i]
        BY <2>2, <3>1, SameOwners DEF AskedInv
      <4>1. CASE Account(r, p) \in asked
        BY <4>1, <2>2 DEF LoadInv, AskedInv
      <4>2. CASE Account(r, p) \in Request(subjects)
        BY <4>2, <2>2, <1>a, <1>t, RequestOwner
      <4> QED
        BY <2>1, <4>1, <4>2
    <3>4. HeldInv'
      BY <2>1, <2>2, <2>6, <3>1, <1>t, AnswerHeld DEF LoadInv
    <3> QED
      BY <1>t, <3>2, <3>3, <3>4 DEF LoadInv
  <2>7. CASE GiveUp(got)
    <3>1. /\ dex_data' = dex_data \ Entries /\ NextLoader
      BY <2>7 DEF GiveUp
    <3>2. CachedInv'
      <4> SUFFICES ASSUME NEW p \in dex_data', owner[p] \in Checked, Passed(p)'
                   PROVE  Cached(p)'
        BY <2>2 DEF CachedInv
      <4>1. owner[p] # Loaders[loader]
        BY <3>1 DEF Entries
      <4>2. Passed(p)
        BY <2>2, <3>1, <4>1, <1>a, SevenLoaders DEF Passed, NextLoader
      <4> QED
        BY <2>4, <3>1, <4>2
    <3>3. HeldInv'
      BY <3>1 DEF HeldInv, NextLoader
    <3>4. AskedInv'
      <4> SUFFICES ASSUME NEW p \in Pools, NEW r \in Roles \ {"global"},
                          Account(r, p) \in asked', pc' = "load"
                   PROVE  \E i \in 1..loader' : owner[p] = Loaders[i] /\ i < loader'
        BY <2>2, SameOwners DEF AskedInv
      <4>1. loader' = loader + 1
        BY <2>2, <3>1 DEF NextLoader
      <4>2. \E i \in 1..loader : owner[p] = Loaders[i]
        <5>1. CASE Account(r, p) \in asked
          BY <5>1, <2>2 DEF LoadInv, AskedInv
        <5>2. CASE Account(r, p) \in Request(subjects)
          BY <5>2, <2>2, <1>a, <1>t, RequestOwner
        <5> QED
          BY <2>1, <5>1, <5>2
      <4> QED
        BY <4>1, <4>2, <1>a
    <3> QED
      BY <1>t, <3>2, <3>3, <3>4 DEF LoadInv
  <2> QED
    BY <2>1, <2>6, <2>7
<1>6. CASE FinishLoader
  <2>1. /\ pc = "load" /\ call = Len(Calls(Loaders[loader])) + 1 /\ NextLoader
        /\ dex_data' = dex_data \ invalid /\ owner' = owner /\ asked' = asked
        /\ cache \subseteq cache'
    BY <1>6 DEF FinishLoader
  <2>2. CachedInv'
    <3> SUFFICES ASSUME NEW p \in dex_data \ invalid, owner[p] \in Checked, Passed(p)'
                 PROVE  Cached(p)'
      BY <2>1 DEF CachedInv
    <3>1. p \in Pools
      BY <1>t DEF TypeOK
    <3>2. CASE owner[p] # Loaders[loader]
      <4>1. Passed(p)
        BY <2>1, <3>2, <1>a, SevenLoaders DEF Passed, NextLoader
      <4>2. Cached(p)
        BY <2>1, <4>1 DEF LoadInv, CachedInv
      <4> QED
        BY <2>1, <3>1, <4>2, StillCached
    <3>3. CASE owner[p] = Loaders[loader]
      <4>1. p \in Entries \ invalid /\ Loaders[loader] \in Checked
        BY <3>3 DEF Entries
      <4>2. call \in Nat /\ call >= 2
        BY <2>1, <1>a, CallRoles
      <4>3. p \in found /\ \A r \in WantedRoles(owner[p]) \ {"pool"} :
                               Account(r, p) \in asked => Account(r, p) \in fetched
        BY <2>1, <4>1, <4>2 DEF LoadInv, HeldInv
      <4>4. cache' = cache \cup fetched \cup {Account("pool", q) : q \in found}
        BY <1>6 DEF FinishLoader
      <4>5. Account("pool", p) \in cache' /\ Wanted(p) \cap asked \subseteq cache'
        BY <4>3, <4>4 DEF Wanted
      <4> QED
        BY <2>1, <3>1, <4>5, SameOwners DEF Cached, Roles
    <3> QED
      BY <3>2, <3>3
  <2>3. HeldInv'
    BY <2>1 DEF HeldInv, NextLoader
  <2>4. AskedInv'
    BY <2>1, <1>a, SameOwners DEF LoadInv, AskedInv, NextLoader
  <2> QED
    BY <1>t, <2>2, <2>3, <2>4 DEF LoadInv
<1>7. CASE LoadMintsAndClock
  BY <1>7, <1>t, LoadKept DEF LoadMintsAndClock
<1>8. CASE RpcPanic \/ InitFails
  BY <1>8, <1>t, LoadKept DEF RpcPanic, InitFails, Fail
<1>9. CASE InitGlobalCache \/ InitMetadata \/ InitAccountRelations \/ InitGraph \/ InitExecutor
  BY <1>9, <1>t, LoadKept
     DEF InitGlobalCache, InitMetadata, InitAccountRelations, InitGraph, InitExecutor, Step
<1>10. CASE Connect \/ ConnectFails \/ SetSubscribed \/ Forward \/ ArbHandles
  BY <1>10, <1>t, LoadKept
     DEF Connect, ConnectFails, SetSubscribed, Forward, ArbHandles, Fail
<1>11. CASE UNCHANGED vars
  BY <1>11, <1>t, LoadKept DEF vars
<1> QED
  BY <1>1, <1>2, <1>3, <1>4, <1>5, <1>6, <1>7, <1>8, <1>9, <1>10, <1>11
     DEF Next, MainStep

\* After the snapshot a pool of a checked DEX that is still listed has its
\* account and every other account its loader asked for and wants in the cache,
\* for any pools and whichever accounts were missing.
THEOREM KeptPoolsAreComplete == Spec => []KeptPoolsHaveData
<1>1. Init => LoadInv
  <2> SUFFICES ASSUME Init PROVE LoadInv
    OBVIOUS
  <2>1. TypeOK
    BY InitTypes
  <2> QED
    BY <2>1 DEF Init, LoadInv, CachedInv, HeldInv, AskedInv
<1>2. LoadInv => KeptPoolsHaveData
  <2> SUFFICES ASSUME LoadInv, Loaded, NEW p \in dex_data, owner[p] \in Checked
               PROVE  Cached(p)
    BY DEF KeptPoolsHaveData, Cached
  <2>1. Passed(p)
    BY SevenLoaders DEF Passed, Loaded, Checked, Dexes
  <2> QED
    BY <2>1 DEF LoadInv, CachedInv, Loaded
<1> QED
  BY <1>1, <1>2, LoadStep, PTL DEF Spec

-----------------------------------------------------------------------------
(* What a removed pool missed *)

\* A pool the running loader will remove missed an account it wanted.
MarkedInv ==
    call >= 1 => \A p \in invalid : Wanted(p) \cap missing # {}

\* The removal of a pool, and the marking that precedes it, has a cause.
LEMMA MarkedStep ==
    TypeOK /\ MarkedInv /\ [Next]_vars =>
      /\ MarkedInv'
      /\ \A p \in dex_data \ dex_data' : Wanted(p) \cap missing' # {}
<1> SUFFICES ASSUME TypeOK, MarkedInv, [Next]_vars
             PROVE  /\ MarkedInv'
                    /\ \A p \in dex_data \ dex_data' : Wanted(p) \cap missing' # {}
  OBVIOUS
<1>a. loader \in 1..7 /\ Loaders[loader] \in Dexes
  BY SevenLoaders DEF TypeOK
<1>b. ASSUME owner' = owner PROVE \A p \in Pools : Wanted(p)' = Wanted(p)
  BY <1>b DEF Account, Wanted
<1>1. CASE LoadJson
  <2>1. dex_data = {} /\ call' = 0
    BY <1>1 DEF LoadJson, TypeOK
  <2> QED
    BY <2>1 DEF MarkedInv
<1>2. CASE SkipLoader
  BY <1>2 DEF SkipLoader, NextLoader, MarkedInv
<1>3. CASE StartLoader
  BY <1>3 DEF StartLoader, MarkedInv
<1>4. CASE RpcAnswer
  <2>0. PICK subjects \in Subjects : \E got \in SUBSET Request(subjects) :
          /\ Answer(subjects, got) \/ GiveUp(got)
          /\ missing' = missing \cup (Request(subjects) \ got)
    BY <1>4 DEF RpcAnswer
  <2>1. PICK got \in SUBSET Request(subjects) :
          /\ Answer(subjects, got) \/ GiveUp(got)
          /\ missing' = missing \cup (Request(subjects) \ got)
    BY <2>0
  <2>2. InCall /\ owner' = owner /\ call \in 1..Len(Calls(Loaders[loader]))
    BY <1>4 DEF RpcAnswer, InCall
  <2>3. subjects \subseteq Entries /\ Entries \subseteq Pools
        /\ \A p \in Entries : owner[p] = Loaders[loader]
    BY <2>2, SubjectsAreEntries DEF Entries, TypeOK
  <2>4. ASSUME Current.missing # "nothing"
        PROVE  \A p \in subjects, r \in Current.roles :
                 Account(r, p) \in Wanted(p) /\ Account(r, p) \in Request(subjects)
    <3>1. Current.roles \subseteq WantedRoles(Loaders[loader])
      BY <2>2, <2>4, <1>a, CallRoles DEF Current
    <3> QED
      BY <2>3, <3>1 DEF Wanted, Request
  <2>5. CASE Answer(subjects, got)
    <3>1. \A p \in Marked(subjects, got) : Wanted(p) \cap missing' # {}
      BY <2>1, <2>4 DEF Marked, Missing
    <3>2. \A p \in invalid : Wanted(p) \cap missing' # {}
      BY <2>1, <2>2 DEF MarkedInv
    <3>3. \A p \in invalid' : Wanted(p) \cap missing' # {} /\ p \in Pools
      BY <3>1, <3>2, <2>5, <2>3 DEF Answer, Marked, Missing, TypeOK
    <3> QED
      BY <3>3, <2>2, <2>5, <1>b DEF MarkedInv, Answer
  <2>6. CASE GiveUp(got)
    <3>1. Current.missing = "dex" /\ got = {} /\ dex_data' = dex_data \ Entries /\ call' = 0
      BY <2>6 DEF GiveUp, GivesUp, NextLoader
    <3>2. subjects = Entries /\ Current.roles # {}
      <4>1. Current.pools = "entries"
        BY <2>2, <3>1, <1>a, DexCalls DEF Current
      <4> QED
        BY <4>1, <2>2, <1>a, CallRoles DEF Current, Subjects
    <3>3. \A p \in Entries : Wanted(p) \cap missing' # {}
      BY <2>1, <2>4, <3>1, <3>2
    <3> QED
      BY <3>1, <3>3 DEF MarkedInv
  <2> QED
    BY <2>1, <2>5, <2>6
<1>5. CASE FinishLoader
  <2>1. call >= 1 /\ call' = 0 /\ dex_data' = dex_data \ invalid /\ missing' = missing
    BY <1>5, <1>a, CallRoles DEF FinishLoader, NextLoader
  <2> QED
    BY <2>1 DEF MarkedInv
<1>6. ASSUME owner' = owner, load' = load
      PROVE  /\ MarkedInv'
             /\ \A p \in dex_data \ dex_data' : Wanted(p) \cap missing' # {}
  BY <1>6, <1>b DEF load, MarkedInv, TypeOK
<1>7. CASE InitSlices \/ LoadMintsAndClock \/ RpcPanic \/ InitFails \/ UNCHANGED vars
  BY <1>6, <1>7 DEF InitSlices, LoadMintsAndClock, RpcPanic, InitFails, vars
<1>8. CASE InitGlobalCache \/ InitMetadata \/ InitAccountRelations \/ InitGraph \/ InitExecutor
  BY <1>6, <1>8
     DEF InitGlobalCache, InitMetadata, InitAccountRelations, InitGraph, InitExecutor, Step
<1>9. CASE Connect \/ ConnectFails \/ SetSubscribed \/ Forward \/ ArbHandles
  BY <1>6, <1>9 DEF Connect, ConnectFails, SetSubscribed, Forward, ArbHandles
<1> QED
  BY <1>1, <1>2, <1>3, <1>4, <1>5, <1>7, <1>8, <1>9 DEF Next, MainStep

\* A pool is only removed from the dex json when an account it cannot do
\* without, of its own or of its DEX, was asked for and did not exist.
THEOREM RemovedForACause == Spec => PrunedForACause
<1>1. Init => MarkedInv
  BY DEF Init, MarkedInv
<1>2. TypeOK /\ MarkedInv /\ [Next]_vars =>
        [\A p \in dex_data \ dex_data' : Wanted(p) \cap missing' # {}]_vars
  BY MarkedStep
<1> QED
  BY <1>1, <1>2, TypeCorrect, MarkedStep, PTL DEF Spec, PrunedForACause

-----------------------------------------------------------------------------
(* OnceCells *)

\* The cells the start has set when it stands at a step, and the subscriber's.
CellsInv ==
    /\ used \subseteq cells
    /\ pc \in {"load", "mints", "cache"} => "DATA_SLICE" \in cells
    /\ pc \in {"metadata", "relations", "graph", "executor", "running"} =>
         "GLOBAL_CACHE" \in cells
    /\ pc \in {"relations", "graph", "executor", "running"} =>
         {"KEYPAIR", "ARB_MINT_ATA_ACCOUNT", "WALLET_OF_ATA_AMOUNT", "LAST_BLOCK_HASH"}
           \subseteq cells
    /\ pc \in {"graph", "executor", "running"} => "ACCOUNT_RELATION_CACHE" \in cells
    /\ pc \in {"executor", "running"} => {"POOL_INDEX", "MINT_INDEX", "GRAPH"} \subseteq cells
    /\ pc = "running" => "JITO_EMA_TIPS" \in cells
    /\ delivered => subscriber = "forward"
    /\ subscriber = "forward" => "GRPC_SUBSCRIBED_ACCOUNTS" \in cells

\* Every step finds the cells it reads set.
LEMMA CellsStep == CellsInv /\ [Next]_vars => CellsInv'
<1> SUFFICES ASSUME CellsInv, [Next]_vars PROVE CellsInv'
  OBVIOUS
<1>1. CASE LoadJson
  BY <1>1 DEF LoadJson, CellsInv, tasks
<1>2. CASE InitSlices
  BY <1>2 DEF InitSlices, CellsInv, tasks
<1>3. CASE SkipLoader \/ StartLoader \/ FinishLoader
  BY <1>3 DEF SkipLoader, StartLoader, FinishLoader, NextLoader, CellsInv, tasks
<1>4. CASE RpcAnswer
  <2>1. pc = "load" /\ pc' \in {"load", "mints"}
    BY <1>4 DEF RpcAnswer, InCall, Answer, GiveUp, NextLoader
  <2> QED
    BY <1>4, <2>1 DEF RpcAnswer, CellsInv, tasks
<1>5. CASE LoadMintsAndClock \/ RpcPanic \/ InitFails
  BY <1>5 DEF LoadMintsAndClock, RpcPanic, InitFails, Fail, CellsInv, tasks
<1>6. CASE InitGlobalCache
  BY <1>6 DEF InitGlobalCache, Step, CellsInv, tasks
<1>7. CASE InitMetadata
  BY <1>7 DEF InitMetadata, Step, CellsInv, tasks
<1>8. CASE InitAccountRelations
  BY <1>8 DEF InitAccountRelations, Step, CellsInv, tasks
<1>9. CASE InitGraph
  BY <1>9 DEF InitGraph, Step, CellsInv, tasks
<1>10. CASE InitExecutor
  BY <1>10 DEF InitExecutor, Step, CellsInv, tasks
<1>11. CASE Connect \/ ConnectFails \/ SetSubscribed
  BY <1>11 DEF Connect, ConnectFails, SetSubscribed, Fail, CellsInv, tasks
<1>12. CASE Forward
  BY <1>12 DEF Forward, CellsInv
<1>13. CASE ArbHandles
  BY <1>13 DEF ArbHandles, CellsInv, tasks
<1>14. CASE UNCHANGED vars
  BY <1>14 DEF vars, tasks, CellsInv
<1> QED
  BY <1>1, <1>2, <1>3, <1>4, <1>5, <1>6, <1>7, <1>8, <1>9, <1>10, <1>11, <1>12, <1>13, <1>14
     DEF Next, MainStep

\* No step of the start and no task reads a OnceCell before it is set, however
\* the subscriber, the processors and the Arbs interleave.
THEOREM CellsAreSet == Spec => []CellsBeforeUse
<1>1. Init => CellsInv
  BY DEF Init, CellsInv
<1>2. CellsInv => CellsBeforeUse
  BY DEF CellsInv, CellsBeforeUse
<1> QED
  BY <1>1, <1>2, CellsStep, PTL DEF Spec
=============================================================================
