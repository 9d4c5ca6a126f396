-------------------------------- MODULE Bundle --------------------------------
(***************************************************************************)
(* From a route to a bundle: each Arb reads, at different moments, what    *)
(* background tasks refresh (the Jito tip, the wallet's token accounts,    *)
(* the blockhash), builds and signs a bundle, posts it to every region of  *)
(* one url group and reports one of the answers.  The chain lands a bundle *)
(* as a whole or not at all, later, while other Arbs use the same wallet.  *)
(*                                                                         *)
(* The mint the bot trades is wrapped SOL, the default, so amounts of the  *)
(* token and of the native balance are both lamports.                      *)
(***************************************************************************)
EXTENDS Integers, Sequences, FiniteSets, SequencesExt

CONSTANTS
    Arbs,           \* Arb tasks
    Atas,           \* token accounts of the wallet that routes may use
    ArbAta,         \* ARB_MINT_ATA_ACCOUNT
    Tips,           \* values of JITO_EMA_TIPS
    UrlGroups,      \* jito_url: per uuid, the set of its region urls
    AmountIn,       \* --arb-amount-in
    Numerator,      \* --arb-mint-bps-numerator
    Denominator,    \* --arb-mint-bps-denominator
    Fee,            \* the 5_000 lamports the quoted output includes for the signature
    Rent,           \* rent-exempt balance of a token account
    FirstTokens,    \* possible token balances at the start
    FirstNative,    \* native balance at the start
    MaxExtra,       \* bound: how far a swap's output may exceed the quoted output
    MaxAge,         \* blocks a blockhash stays valid
    MaxHeight,      \* bound on the block height
    MaxSent,        \* bound on the bundles sent
    MaxFailures     \* bound on the failed RPC calls

ASSUME BundleAssumption ==
    /\ ArbAta \in Atas
    /\ IsFiniteSet(Atas)
    /\ Tips \subseteq Nat
    /\ UrlGroups \in Seq(SUBSET UNION ToSet(UrlGroups))
    /\ Len(UrlGroups) > 0
    /\ AmountIn \in Nat /\ Fee \in Nat /\ Rent \in Nat
    /\ Numerator \in Nat \ {0} /\ Denominator \in Nat \ {0}
    /\ FirstTokens \subseteq Nat
    /\ FirstNative \in Nat
    /\ {MaxExtra, MaxAge, MaxHeight, MaxSent, MaxFailures} \subseteq Nat

VARIABLES
    tokens, native, \* balances of the wallet on the chain
    onchain,        \* token accounts of the wallet that exist
    height,         \* block height
    known,          \* keys of WALLET_OF_ATA_AMOUNT
    amount,         \* its entry for ArbAta, when there is one
    fetched,        \* answers of the refresh under way, per token account
    seen,           \* the amount it read for ArbAta
    tip,            \* JITO_EMA_TIPS
    hash,           \* LAST_BLOCK_HASH, as the height it was taken at
    failures,       \* history: failed RPC calls
    apc,            \* where each Arb is
    job,            \* what each Arb has put together so far
    counter,        \* used_url_index
    waiting,        \* urls each Arb waits for
    responses,      \* answers to each Arb, in order of arrival
    reported,       \* what each Arb last reported
    bundles,        \* bundles sent that may still land
    sent            \* history: number of bundles sent

chain == <<tokens, native, onchain, height>>
cached == <<known, amount, fetched, seen, tip, hash, failures>>
posting == <<counter, waiting, responses, reported, bundles, sent>>
vars == <<tokens, native, onchain, height, known, amount, fetched, seen, tip, hash, failures,
          apc, job, counter, waiting, responses, reported, bundles, sent>>

Steps == {"idle", "tip", "swap", "sign", "send", "wait"}

NoJob == [atas |-> {}, tip |-> 0, creates |-> {}, quotedOut |-> 0, hash |-> 0]

\* account.lamports of a wrapped SOL account
Lamports == tokens + Rent

Init ==
    /\ tokens \in FirstTokens
    /\ native = FirstNative
    /\ onchain \in {s \in SUBSET Atas : ArbAta \in s}
    /\ height = 0
    /\ known \in SUBSET onchain
    /\ amount = IF ArbAta \in known THEN Lamports ELSE 0
    /\ fetched = [a \in Atas |-> "todo"]
    /\ seen = 0
    /\ tip \in Tips
    /\ hash = 0
    /\ failures = 0
    /\ apc = [r \in Arbs |-> "idle"]
    /\ job = [r \in Arbs |-> NoJob]
    /\ counter = 0
    /\ waiting = [r \in Arbs |-> {}]
    /\ responses = [r \in Arbs |-> <<>>]
    /\ reported = [r \in Arbs |-> "nothing"]
    /\ bundles = {}
    /\ sent = 0

-----------------------------------------------------------------------------
(* Background tasks *)

\* One get_account of init_wallet_ata_account has its answer; an account that
\* does not exist and a failed call look the same.
WalletFetch(a) ==
    /\ fetched[a] = "todo"
    /\ \/ /\ a \in onchain
          /\ fetched' = [fetched EXCEPT ![a] = "found"]
          /\ seen' = IF a = ArbAta THEN Lamports ELSE seen
          /\ UNCHANGED failures
       \/ /\ a \notin onchain
          /\ fetched' = [fetched EXCEPT ![a] = "none"]
          /\ UNCHANGED <<seen, failures>>
       \/ /\ failures < MaxFailures
          /\ fetched' = [fetched EXCEPT ![a] = "none"]
          /\ failures' = failures + 1
          /\ UNCHANGED seen
    /\ UNCHANGED <<chain, known, amount, tip, hash, apc, job, posting>>

\* Mutants of WalletReplace: every account asked for gets an entry; the refresher
\* gives up when an answer is missing.
WalletReplaceAll ==
    /\ \A a \in Atas : fetched[a] # "todo"
    /\ known' = Atas
    /\ amount' = IF fetched[ArbAta] = "found" THEN seen ELSE 0
    /\ fetched' = [a \in Atas |-> "todo"]
    /\ seen' = 0
    /\ UNCHANGED <<chain, tip, hash, failures, apc, job, posting>>

WalletReplaceOrEnd ==
    /\ \A a \in Atas : fetched[a] # "todo"
    /\ known' = {a \in Atas : fetched[a] = "found"}
    /\ amount' = IF fetched[ArbAta] = "found" THEN seen ELSE 0
    /\ fetched' = IF fetched[ArbAta] = "found" THEN [a \in Atas |-> "todo"] ELSE fetched
    /\ seen' = 0
    /\ UNCHANGED <<chain, tip, hash, failures, apc, job, posting>>

\* wallet_ata_refresher replaces the whole map and, later, starts again.
WalletReplace ==
    /\ \A a \in Atas : fetched[a] # "todo"
    /\ known' = {a \in Atas : fetched[a] = "found"}
    /\ amount' = IF fetched[ArbAta] = "found" THEN seen ELSE 0
    /\ fetched' = [a \in Atas |-> "todo"]
    /\ seen' = 0
    /\ UNCHANGED <<chain, tip, hash, failures, apc, job, posting>>

WalletTask == (\E a \in Atas : WalletFetch(a)) \/ WalletReplace

\* The tip refresher writes what it is told; a failed call leaves the old tip.
TipRefresh(t) ==
    /\ t # tip
    /\ tip' = t
    /\ UNCHANGED <<chain, known, amount, fetched, seen, hash, failures, apc, job, posting>>

\* Mutant of BlockhashRefresh: an answer is only taken the first time.
BlockhashRefreshOnce ==
    /\ hash = 0
    /\ hash' = height
    /\ UNCHANGED <<chain, known, amount, fetched, seen, tip, failures, apc, job, posting>>

\* blockhash_refresher: an error is logged and the old blockhash stays.
BlockhashRefresh ==
    /\ \/ /\ hash' = height
          /\ UNCHANGED failures
       \/ /\ failures < MaxFailures
          /\ failures' = failures + 1
          /\ UNCHANGED hash
    /\ UNCHANGED <<chain, known, amount, fetched, seen, tip, apc, job, posting>>

-----------------------------------------------------------------------------
(* An Arb: the route found, and create_jito_bundle *)

\* Mutant of Affordable: the whole wallet may be used.
WholeWallet == ArbAta \in known /\ amount >= AmountIn

\* trigger_quote and find_best_hop_path only go on with an entry for the mint
\* of the bot whose share covers the amount.
Affordable ==
    /\ ArbAta \in known
    /\ (amount * Numerator) \div Denominator >= AmountIn

\* A search has returned a route over the token accounts `atas'.
RouteFound(r, atas) ==
    /\ apc[r] = "idle"
    /\ sent + Cardinality({q \in Arbs : apc[q] \in {"tip", "swap", "sign", "send"}}) < MaxSent
    /\ Affordable
    /\ job' = [job EXCEPT ![r] = [NoJob EXCEPT !.atas = atas]]
    /\ apc' = [apc EXCEPT ![r] = "tip"]
    /\ UNCHANGED <<chain, cached, posting>>

\* calculate_jito_tips, once for the quoted output and for the transfer.
ReadTip(r) ==
    /\ apc[r] = "tip"
    /\ job' = [job EXCEPT ![r].tip = tip]
    /\ apc' = [apc EXCEPT ![r] = "swap"]
    /\ UNCHANGED <<chain, cached, posting>>

\* Mutant of QuotedOut: the tip is read again.
QuotedOutWithTipNow(r) == AmountIn + tip + Fee

\* The least output the swap program accepts: slippage_bps is 0.
QuotedOut(r) == AmountIn + job[r].tip + Fee

\* build_jupiter_swap_ix: token accounts with an entry in the wallet map are not
\* created; an account of a pool missing from the cache fails the whole bundle.
BuildSwap(r) ==
    /\ apc[r] = "swap"
    /\ \/ /\ job' = [job EXCEPT ![r].creates = job[r].atas \ known,
                                ![r].quotedOut = QuotedOut(r)]
          /\ apc' = [apc EXCEPT ![r] = "sign"]
          /\ UNCHANGED reported
       \/ /\ apc' = [apc EXCEPT ![r] = "idle"]
          /\ reported' = [reported EXCEPT ![r] = "failed"]
          /\ job' = [job EXCEPT ![r] = NoJob]
    /\ UNCHANGED <<chain, cached, counter, waiting, responses, bundles, sent>>

\* The blockhash is read after the instructions are built; a message that cannot
\* be compiled or signed fails the whole bundle.
Sign(r) ==
    /\ apc[r] = "sign"
    /\ \/ /\ job' = [job EXCEPT ![r].hash = hash]
          /\ apc' = [apc EXCEPT ![r] = "send"]
          /\ UNCHANGED reported
       \/ /\ apc' = [apc EXCEPT ![r] = "idle"]
          /\ reported' = [reported EXCEPT ![r] = "failed"]
          /\ job' = [job EXCEPT ![r] = NoJob]
    /\ UNCHANGED <<chain, cached, counter, waiting, responses, bundles, sent>>

\* pick_jito_url: fetch_add modulo the number of groups; without a counter when
\* there is only one.
NextGroup == (counter % Len(UrlGroups)) + 1

\* execute: the same bundle goes to every region of the group picked.
Send(r) ==
    /\ apc[r] = "send"
    /\ counter' = IF Len(UrlGroups) = 1 THEN counter ELSE counter + 1
    /\ waiting' = [waiting EXCEPT ![r] = UrlGroups[NextGroup]]
    /\ responses' = [responses EXCEPT ![r] = <<>>]
    /\ bundles' = bundles \cup {job[r]}
    /\ sent' = sent + 1
    /\ job' = [job EXCEPT ![r] = NoJob]
    /\ apc' = [apc EXCEPT ![r] = "wait"]
    /\ UNCHANGED <<chain, cached, reported>>

\* A region answers, or its request times out after 250 ms.
Respond(r, url, response) ==
    /\ apc[r] = "wait"
    /\ url \in waiting[r]
    /\ waiting' = [waiting EXCEPT ![r] = @ \ {url}]
    /\ responses' = [responses EXCEPT ![r] = Append(@, response)]
    /\ UNCHANGED <<chain, cached, apc, job, counter, reported, bundles, sent>>

\* Mutant of Reported: the last answer is reported.
LastReported(r) == Last(responses[r])

\* The first answer that is no error, else the last one.
Reported(r) == IF "id" \in ToSet(responses[r]) THEN "id" ELSE "error"

\* Mutants of Report: an Arb does not wait for all regions; it waits for a
\* bundle id.
ReportEarly(r) ==
    /\ apc[r] = "wait"
    /\ reported' = [reported EXCEPT ![r] = Reported(r)]
    /\ apc' = [apc EXCEPT ![r] = "idle"]
    /\ UNCHANGED <<chain, cached, job, counter, waiting, responses, bundles, sent>>

ReportOnlyIds(r) ==
    /\ apc[r] = "wait"
    /\ waiting[r] = {}
    /\ "id" \in ToSet(responses[r])
    /\ reported' = [reported EXCEPT ![r] = "id"]
    /\ apc' = [apc EXCEPT ![r] = "idle"]
    /\ UNCHANGED <<chain, cached, job, counter, waiting, responses, bundles, sent>>

Report(r) ==
    /\ apc[r] = "wait"
    /\ waiting[r] = {}
    /\ reported' = [reported EXCEPT ![r] = Reported(r)]
    /\ apc' = [apc EXCEPT ![r] = "idle"]
    /\ UNCHANGED <<chain, cached, job, counter, waiting, responses, bundles, sent>>

ArbStep(r) ==
    \/ ReadTip(r)
    \/ BuildSwap(r)
    \/ Sign(r)
    \/ Send(r)
    \/ \E url \in waiting[r], response \in {"id", "error"} : Respond(r, url, response)
    \/ Report(r)

-----------------------------------------------------------------------------
(* The chain *)

NewBlock ==
    /\ height < MaxHeight
    /\ height' = height + 1
    /\ UNCHANGED <<tokens, native, onchain, cached, apc, job, posting>>

\* The swap program refuses an output below the quoted one; the runtime refuses
\* an expired blockhash, a missing account and a balance that does not suffice;
\* with one instruction refused nothing of the bundle happens.
Land(b, extra) ==
    LET created == b.creates \ onchain
        cost == b.tip + Fee + Rent * Cardinality(created)
    IN  /\ b \in bundles
        /\ height - b.hash <= MaxAge
        /\ b.atas \subseteq onchain \cup b.creates
        /\ tokens >= AmountIn
        /\ native >= cost
        /\ tokens' = tokens - AmountIn + b.quotedOut + extra
        /\ native' = native - cost
        /\ onchain' = onchain \cup created
        /\ bundles' = bundles \ {b}
        /\ UNCHANGED <<height, cached, apc, job, counter, waiting, responses, reported,
                       sent>>

Next ==
    \/ WalletTask
    \/ \E t \in Tips : TipRefresh(t)
    \/ BlockhashRefresh
    \/ \E r \in Arbs : (\E atas \in {s \in SUBSET Atas : ArbAta \in s} : RouteFound(r, atas))
    \/ \E r \in Arbs : ArbStep(r)
    \/ NewBlock
    \/ \E b \in bundles, extra \in 0..MaxExtra : Land(b, extra)

\* The refreshers loop for ever, an Arb's own steps are not blocked, and a
\* request ends after 250 ms at the latest.  Nothing is assumed of the chain,
\* of prices or of the search.
Spec ==
    /\ Init
    /\ [][Next]_vars
    /\ WF_vars(WalletTask)
    /\ WF_vars(BlockhashRefresh)
    /\ \A r \in Arbs : WF_vars(ArbStep(r))

-----------------------------------------------------------------------------
(* Properties *)

Jobs == [atas : SUBSET Atas, tip : Nat, creates : SUBSET Atas, quotedOut : Nat, hash : Nat]

\* Types of the variables; an Arb waits for regions only while it is posting.
TypeOK ==
    /\ tokens \in Nat /\ native \in Nat
    /\ onchain \subseteq Atas
    /\ height \in Nat /\ hash \in Nat /\ hash <= height
    /\ known \subseteq Atas
    /\ amount \in Nat /\ seen \in Nat
    /\ fetched \in [Atas -> {"todo", "found", "none"}]
    /\ tip \in Tips
    /\ failures \in 0..MaxFailures
    /\ apc \in [Arbs -> Steps]
    /\ job \in [Arbs -> Jobs]
    /\ bundles \subseteq Jobs
    /\ counter \in Nat
    /\ waiting \in [Arbs -> SUBSET UNION ToSet(UrlGroups)]
    /\ \A r \in Arbs : waiting[r] # {} => apc[r] = "wait"
    /\ responses \in [Arbs -> Seq({"id", "error"})]
    /\ reported \in [Arbs -> {"nothing", "failed", "id", "error"}]
    /\ sent \in Nat

\* What the wallet holds, rent of its own token accounts included.
Wealth == tokens + native + Rent * Cardinality(onchain)

\* A landed bundle never makes the wallet poorer, however tips, prices and other
\* Arbs' bundles move between the search and the landing: the output it insists
\* on covers the amount, the tip it pays and the signature.
WealthNeverFalls == [][Wealth' >= Wealth]_vars

\* Every token account a bundle uses exists or is created by it, although the
\* wallet map is refreshed account by account and calls fail.
AtasReady == \A b \in bundles : b.atas \subseteq onchain \cup b.creates

\* While bundles are on their way, those of concurrent Arbs included, the share of
\* the trading account's lamports one trade may use still covers the amount of
\* each, although the amount was read before and nothing reserves it.  The
\* lamports count the account's rent in, so the tokens may fall short by it.
ShareStillCovers == bundles # {} => Lamports * Numerator >= AmountIn * Denominator

\* A bundle one region accepted is never reported as refused because another
\* region answered later with an error or not at all.
AcceptedIsReported ==
    \A r \in Arbs :
        (apc[r] = "idle" /\ reported[r] # "failed" /\ "id" \in ToSet(responses[r]))
            => reported[r] = "id"

\* An Arb that has found a route is eventually free for the next transaction,
\* whatever the regions answer.
ArbReturns == \A r \in Arbs : (apc[r] # "idle") ~> (apc[r] = "idle")

\* After failed RPC calls the wallet map comes to know the account the bot
\* trades from again; without it every search is declined.
WalletRecovers == (ArbAta \notin known) ~> (ArbAta \in known)

\* The cached blockhash catches up with every block despite failed calls.
HashCatchesUp == \A n \in 1..MaxHeight : (height >= n) ~> (hash >= n)

\* The amount cached for the mint of the bot is never more than the account's
\* token balance.
AmountIsBalance == ArbAta \in known => amount <= tokens
=============================================================================
