------------------------------ MODULE Pipeline ------------------------------
(***************************************************************************)
(* The message pipeline of the bot: the gRPC subscriber, the processors    *)
(* that write the account cache and forward transactions, and the Arbs     *)
(* that receive them, over two flume channels (an unbounded one of stream  *)
(* messages, a bounded one of transactions).  One action per step a task   *)
(* takes between two accesses to shared state: a processor's receive, its  *)
(* cache insert, its first try_send, each try_recv that discards the       *)
(* oldest transaction, and each retried try_send are separate steps.       *)
(*                                                                         *)
(* A message is identified by its position on the stream, so the position  *)
(* is also the version of the account data an update carries.              *)
(***************************************************************************)
EXTENDS Integers, Sequences, FiniteSets, SequencesExt

CONSTANTS
    Processors,   \* processor tasks (--processor-size)
    Arbs,         \* Arb tasks (--arb-size)
    Capacity,     \* --arb-channel-capacity
    Accounts,     \* accounts that may appear on the stream
    Subscribed,   \* accounts of the gRPC subscription
    MaxStream     \* bound on the length of the stream

ASSUME PipelineAssumption ==
    /\ Capacity \in Nat \ {0}
    /\ Subscribed \subseteq Accounts
    /\ MaxStream \in Nat
    /\ Processors # {}

VARIABLES
    stream,       \* history: everything the node has sent, in order
    subscriber,   \* "open" until the stream ends or fails, then "done"
    grpcChan,     \* unbounded channel of stream positions
    ppc,          \* where each processor is
    pmsg,         \* the message each processor holds, 0 for none
    retryCount,   \* retry_count of each processor
    cache,        \* per account, the update the dynamic cache holds (0: snapshot)
    cachedChan,   \* bounded channel of transactions
    apc,          \* where each Arb is
    amsg,         \* the transaction each Arb works on, 0 for none
    taken,        \* history: transactions received by Arbs, in order
    dropped,      \* history: transactions that will never reach an Arb
    status        \* of the process: "running", "exited" or "aborted"

pvars == <<ppc, pmsg, retryCount>>
avars == <<apc, amsg, taken>>
vars == <<stream, subscriber, grpcChan, ppc, pmsg, retryCount, cache,
          cachedChan, apc, amsg, taken, dropped, status>>

Content ==
    [kind : {"account"}, account : Accounts, sliceable : BOOLEAN]
        \cup [kind : {"transaction"}, complete : BOOLEAN]

ProcessorState ==
    {"recv", "apply", "send", "evict", "resend", "reevict", "spin", "done"}

IsTransaction(i) == stream[i].kind = "transaction"

Running == status = "running"

\* Position i is an update of account a that the cache must come to show:
\* the subscriber forwards it and update_cache can slice it.
Refreshes(i, a) ==
    /\ stream[i].kind = "account"
    /\ stream[i].account = a
    /\ a \in Subscribed
    /\ stream[i].sliceable

Init ==
    /\ stream = <<>>
    /\ subscriber = "open"
    /\ grpcChan = <<>>
    /\ ppc = [p \in Processors |-> "recv"]
    /\ pmsg = [p \in Processors |-> 0]
    /\ retryCount = [p \in Processors |-> 0]
    /\ cache = [a \in Accounts |-> 0]
    /\ cachedChan = <<>>
    /\ apc = [r \in Arbs |-> "recv"]
    /\ amsg = [r \in Arbs |-> 0]
    /\ taken = <<>>
    /\ dropped = {}
    /\ status = "running"

-----------------------------------------------------------------------------
(* GrpcSubscribe::subscribe *)

\* The next message of the stream: account updates outside the subscription
\* are discarded here, every transaction is forwarded.
SubscriberForward(c) ==
    /\ Running
    /\ subscriber = "open"
    /\ Len(stream) < MaxStream
    /\ stream' = Append(stream, c)
    /\ grpcChan' = IF c.kind = "account" /\ c.account \notin Subscribed
                     THEN grpcChan
                     ELSE Append(grpcChan, Len(stream) + 1)
    /\ UNCHANGED <<subscriber, pvars, cache, cachedChan, avars, dropped, status>>

\* The stream ends or yields an error: the task returns and drops its sender.
SubscriberEnd ==
    /\ Running
    /\ subscriber = "open"
    /\ subscriber' = "done"
    /\ UNCHANGED <<stream, grpcChan, pvars, cache, cachedChan, avars, dropped, status>>

\* A message without created_at, or a key that is not 32 bytes, is unwrapped.
SubscriberPanic ==
    /\ Running
    /\ subscriber = "open"
    /\ status' = "aborted"
    /\ UNCHANGED <<stream, subscriber, grpcChan, pvars, cache, cachedChan, avars, dropped>>

-----------------------------------------------------------------------------
(* MessageProcessor::start *)

\* Mutant of ProcessorRecv: the newest message of the channel is received first.
ReceiveNewest(p) ==
    /\ Running
    /\ ppc[p] = "recv"
    /\ grpcChan # <<>>
    /\ pmsg' = [pmsg EXCEPT ![p] = Last(grpcChan)]
    /\ grpcChan' = Front(grpcChan)
    /\ ppc' = [ppc EXCEPT ![p] =
                 IF IsTransaction(Last(grpcChan)) THEN "send" ELSE "apply"]
    /\ UNCHANGED <<stream, subscriber, retryCount, cache, cachedChan, avars, dropped, status>>

ProcessorRecv(p) ==
    /\ Running
    /\ ppc[p] = "recv"
    /\ grpcChan # <<>>
    /\ pmsg' = [pmsg EXCEPT ![p] = Head(grpcChan)]
    /\ grpcChan' = Tail(grpcChan)
    /\ ppc' = [ppc EXCEPT ![p] =
                 IF IsTransaction(Head(grpcChan)) THEN "send" ELSE "apply"]
    /\ UNCHANGED <<stream, subscriber, retryCount, cache, cachedChan, avars, dropped, status>>

\* Mutant of ProcessorDisconnected: the error is logged and the loop goes on.
IgnoreDisconnect(p) ==
    /\ Running
    /\ ppc[p] = "recv"
    /\ grpcChan = <<>>
    /\ subscriber = "done"
    /\ UNCHANGED vars

\* recv_async fails once the subscriber is gone and the channel is drained.
ProcessorDisconnected(p) ==
    /\ Running
    /\ ppc[p] = "recv"
    /\ grpcChan = <<>>
    /\ subscriber = "done"
    /\ ppc' = [ppc EXCEPT ![p] = "done"]
    /\ UNCHANGED <<stream, subscriber, grpcChan, pmsg, retryCount, cache, cachedChan, avars,
                   dropped, status>>

\* Mutant of ApplyUpdate: only an account without an update is written.
InsertIfAbsent(p) ==
    /\ Running
    /\ ppc[p] = "apply"
    /\ cache' = IF stream[pmsg[p]].sliceable /\ cache[stream[pmsg[p]].account] = 0
                  THEN [cache EXCEPT ![stream[pmsg[p]].account] = pmsg[p]]
                  ELSE cache
    /\ ppc' = [ppc EXCEPT ![p] = "recv"]
    /\ pmsg' = [pmsg EXCEPT ![p] = 0]
    /\ UNCHANGED <<stream, subscriber, grpcChan, retryCount, cachedChan, avars, dropped, status>>

\* update_cache: slice and insert.  The write_version of the update is not
\* compared with what the cache holds; data that cannot be sliced is logged
\* and lost.
ApplyUpdate(p) ==
    /\ Running
    /\ ppc[p] = "apply"
    /\ cache' = IF stream[pmsg[p]].sliceable
                  THEN [cache EXCEPT ![stream[pmsg[p]].account] = pmsg[p]]
                  ELSE cache
    /\ ppc' = [ppc EXCEPT ![p] = "recv"]
    /\ pmsg' = [pmsg EXCEPT ![p] = 0]
    /\ UNCHANGED <<stream, subscriber, grpcChan, retryCount, cachedChan, avars, dropped, status>>

\* Mutant of Enqueue: off by one at the capacity.
EnqueueOverfull(p) ==
    /\ Len(cachedChan) <= Capacity
    /\ cachedChan' = Append(cachedChan, pmsg[p])
    /\ ppc' = [ppc EXCEPT ![p] = "recv"]
    /\ pmsg' = [pmsg EXCEPT ![p] = 0]
    /\ retryCount' = [retryCount EXCEPT ![p] = 0]
    /\ UNCHANGED <<stream, subscriber, grpcChan, cache, avars, dropped, status>>

\* A try_send that finds room.
Enqueue(p) ==
    /\ Len(cachedChan) < Capacity
    /\ cachedChan' = Append(cachedChan, pmsg[p])
    /\ ppc' = [ppc EXCEPT ![p] = "recv"]
    /\ pmsg' = [pmsg EXCEPT ![p] = 0]
    /\ retryCount' = [retryCount EXCEPT ![p] = 0]
    /\ UNCHANGED <<stream, subscriber, grpcChan, cache, avars, dropped, status>>

\* A try_send that finds the channel full.
FindFull(p, next) ==
    /\ Len(cachedChan) >= Capacity
    /\ ppc' = [ppc EXCEPT ![p] = next]
    /\ UNCHANGED <<stream, subscriber, grpcChan, pmsg, retryCount, cache, cachedChan, avars,
                   dropped, status>>

\* Mutants of DiscardOldest: nothing is discarded; the newest is discarded.
DiscardNothing == UNCHANGED <<cachedChan, dropped>>

DiscardNewest ==
    IF cachedChan = <<>>
      THEN UNCHANGED <<cachedChan, dropped>>
      ELSE /\ cachedChan' = Front(cachedChan)
           /\ dropped' = dropped \cup {Last(cachedChan)}

\* cached_msg_drop_receiver.try_recv().ok(): the oldest transaction is
\* discarded, unless the channel has become empty meanwhile.
DiscardOldest ==
    IF cachedChan = <<>>
      THEN UNCHANGED <<cachedChan, dropped>>
      ELSE /\ cachedChan' = Tail(cachedChan)
           /\ dropped' = dropped \cup {Head(cachedChan)}

SendFirst(p) ==
    /\ Running
    /\ ppc[p] = "send"
    /\ Enqueue(p) \/ FindFull(p, "evict")

\* Mutant of EvictFirst: the message in hand is given up instead of retried.
GiveUp(p) ==
    /\ Running
    /\ ppc[p] = "evict"
    /\ DiscardOldest
    /\ retryCount' = [retryCount EXCEPT ![p] = 0]
    /\ ppc' = [ppc EXCEPT ![p] = "recv"]
    /\ pmsg' = [pmsg EXCEPT ![p] = 0]
    /\ UNCHANGED <<stream, subscriber, grpcChan, cache, avars, status>>

EvictFirst(p) ==
    /\ Running
    /\ ppc[p] = "evict"
    /\ DiscardOldest
    /\ retryCount' = [retryCount EXCEPT ![p] = 3]
    /\ ppc' = [ppc EXCEPT ![p] = "resend"]
    /\ UNCHANGED <<stream, subscriber, grpcChan, pmsg, cache, avars, status>>

\* Mutant of Resend: a successful send does not leave the retry loop.
ResendAgain(p) ==
    /\ Running
    /\ ppc[p] = "resend"
    /\ \/ /\ Len(cachedChan) < Capacity
          /\ cachedChan' = Append(cachedChan, pmsg[p])
          /\ UNCHANGED <<stream, subscriber, grpcChan, pvars, cache, avars, dropped, status>>
       \/ FindFull(p, "reevict")

Resend(p) ==
    /\ Running
    /\ ppc[p] = "resend"
    /\ Enqueue(p) \/ FindFull(p, "reevict")

EvictAgain(p) ==
    /\ Running
    /\ ppc[p] = "reevict"
    /\ DiscardOldest
    /\ retryCount' = [retryCount EXCEPT ![p] = @ - 1]
    /\ ppc' = [ppc EXCEPT ![p] = IF retryCount[p] - 1 # 0 THEN "resend" ELSE "spin"]
    /\ UNCHANGED <<stream, subscriber, grpcChan, pmsg, cache, avars, status>>

\* With retry_count = 0 the inner loop has neither work nor a way out.
Spin(p) ==
    /\ Running
    /\ ppc[p] = "spin"
    /\ UNCHANGED vars

-----------------------------------------------------------------------------
(* Arb::start *)

\* A transaction without its body or its meta data is unwrapped.
ArbRecv(r) ==
    /\ Running
    /\ apc[r] = "recv"
    /\ cachedChan # <<>>
    /\ cachedChan' = Tail(cachedChan)
    /\ taken' = Append(taken, Head(cachedChan))
    /\ amsg' = [amsg EXCEPT ![r] = Head(cachedChan)]
    /\ apc' = [apc EXCEPT ![r] = "work"]
    /\ status' = IF stream[Head(cachedChan)].complete THEN status ELSE "aborted"
    /\ UNCHANGED <<stream, subscriber, grpcChan, pvars, cache, dropped>>

\* Balance changes, search over the cache and submission are done.
ArbFinish(r) ==
    /\ Running
    /\ apc[r] = "work"
    /\ apc' = [apc EXCEPT ![r] = "recv"]
    /\ amsg' = [amsg EXCEPT ![r] = 0]
    /\ UNCHANGED <<stream, subscriber, grpcChan, pvars, cache, cachedChan, taken, dropped, status>>

\* Mutant of ArbDisconnected: the first processor to end disconnects the Arb.
ArbDisconnectedEarly(r) ==
    /\ Running
    /\ apc[r] = "recv"
    /\ cachedChan = <<>>
    /\ \E p \in Processors : ppc[p] = "done"
    /\ apc' = [apc EXCEPT ![r] = "done"]
    /\ UNCHANGED <<stream, subscriber, grpcChan, pvars, cache, cachedChan, amsg, taken,
                   dropped, status>>

\* Only the processors hold senders of the bounded channel.
ArbDisconnected(r) ==
    /\ Running
    /\ apc[r] = "recv"
    /\ cachedChan = <<>>
    /\ \A p \in Processors : ppc[p] = "done"
    /\ apc' = [apc EXCEPT ![r] = "done"]
    /\ UNCHANGED <<stream, subscriber, grpcChan, pvars, cache, cachedChan, amsg, taken,
                   dropped, status>>

-----------------------------------------------------------------------------
(* start_with_custom *)

AllDone ==
    /\ subscriber = "done"
    /\ \A p \in Processors : ppc[p] = "done"
    /\ \A r \in Arbs : apc[r] = "done"

\* join_next has returned every task.
Exit ==
    /\ Running
    /\ AllDone
    /\ status' = "exited"
    /\ UNCHANGED <<stream, subscriber, grpcChan, pvars, cache, cachedChan, avars, dropped>>

Subscriber ==
    \/ \E c \in Content : SubscriberForward(c)
    \/ SubscriberEnd
    \/ SubscriberPanic

Processor(p) ==
    \/ ProcessorRecv(p)
    \/ ProcessorDisconnected(p)
    \/ ApplyUpdate(p)
    \/ SendFirst(p)
    \/ EvictFirst(p)
    \/ Resend(p)
    \/ EvictAgain(p)
    \/ Spin(p)

Arb(r) == ArbRecv(r) \/ ArbFinish(r) \/ ArbDisconnected(r)

\* The process has stopped: the only way the pipeline may come to rest.
Stopped ==
    /\ ~Running
    /\ UNCHANGED vars

Next ==
    \/ Subscriber
    \/ \E p \in Processors : Processor(p)
    \/ \E r \in Arbs : Arb(r)
    \/ Exit
    \/ Stopped

\* Every task that can take a step is eventually scheduled by the runtime;
\* nothing forces the node to send anything, or to end the stream.
Spec ==
    /\ Init
    /\ [][Next]_vars
    /\ \A p \in Processors : WF_vars(Processor(p))
    /\ \A r \in Arbs : WF_vars(Arb(r))
    /\ WF_vars(Exit)

-----------------------------------------------------------------------------
(* Properties *)

Position == 1..Len(stream)

Transactions == {i \in Position : IsTransaction(i)}

Held(p) == IF pmsg[p] = 0 THEN {} ELSE {pmsg[p]}

\* Types of the variables; a processor holds a message exactly in the states
\* in which the code has one in scope, and retries only with attempts left.
TypeOK ==
    /\ stream \in Seq(Content)
    /\ subscriber \in {"open", "done"}
    /\ grpcChan \in Seq(Position)
    /\ ppc \in [Processors -> ProcessorState]
    /\ pmsg \in [Processors -> Position \cup {0}]
    /\ \A p \in Processors : (pmsg[p] = 0) <=> (ppc[p] \in {"recv", "done"})
    /\ \A p \in Processors : (ppc[p] \notin {"recv", "done"}) =>
            (IsTransaction(pmsg[p]) <=> ppc[p] # "apply")
    /\ retryCount \in [Processors -> 0..3]
    /\ \A p \in Processors : ppc[p] \in {"resend", "reevict"} => retryCount[p] # 0
    /\ cache \in [Accounts -> Position \cup {0}]
    /\ cachedChan \in Seq(Transactions)
    /\ Len(cachedChan) <= Capacity
    /\ apc \in [Arbs -> {"recv", "work", "done"}]
    /\ amsg \in [Arbs -> Transactions \cup {0}]
    /\ taken \in Seq(Transactions)
    /\ dropped \subseteq Transactions
    /\ status \in {"running", "exited", "aborted"}

\* However processors and Arbs interleave, a transaction of the stream is in
\* exactly one place: still queued, held by one processor, in the bounded
\* channel, received by one Arb, or discarded by an eviction.  The retry loop
\* neither forgets nor duplicates the transaction it was called with.
ExactlyOnce ==
    LET queued == ToSet(grpcChan) \cap Transactions
        held == (UNION {Held(p) : p \in Processors}) \cap Transactions
        line == taken \o cachedChan
    IN  /\ Transactions = queued \cup held \cup ToSet(line) \cup dropped
        /\ IsInjective(line)
        /\ queued \cap (held \cup ToSet(line) \cup dropped) = {}
        /\ held \cap (ToSet(line) \cup dropped) = {}
        /\ ToSet(line) \cap dropped = {}
        /\ \A p, q \in Processors : p # q => Held(p) \cap Held(q) = {}

\* The process only ends, after its tasks have ended one after the other, when
\* every transaction has been received by an Arb or evicted: an Arb that sees
\* the channel disconnected leaves nothing behind in it.
NothingLeftAtExit ==
    /\ status = "exited" => Transactions = ToSet(taken) \cup dropped
    /\ \A r \in Arbs : apc[r] = "done" =>
            grpcChan = <<>> /\ cachedChan = <<>>

\* One processor, the default: its second try_send always finds the room its
\* eviction made, so the retry loop is never left without an exit.
RetryFindsRoom ==
    \A p \in Processors : ppc[p] \notin {"reevict", "spin"}

\* Every update that precedes position i on the stream is in the cache.
Informed(i) ==
    \A j \in 1..(i - 1), a \in Accounts : Refreshes(j, a) => cache[a] >= j

\* While an Arb searches because of a transaction, the cache reflects every
\* update that preceded that transaction on the stream: the price it quotes is
\* never older than the event that triggered it.
ArbSeesUpdates ==
    \A r \in Arbs : apc[r] = "work" => Informed(amsg[r])

\* The data cached for an account never goes back to an older update.
CacheForward == [][\A a \in Accounts : cache'[a] >= cache[a]]_vars

\* Once the subscriber has ended, processors and Arbs drain their channels and
\* end too, and the process stops.
StreamEndStops == (subscriber = "done") ~> (status # "running")

\* Every transaction of the stream is eventually received or evicted, unless
\* the process aborts.
EveryTransactionSettles ==
    \A i \in 1..MaxStream :
        (i \in Transactions) ~> (i \in ToSet(taken) \cup dropped \/ status = "aborted")

\* The transactions on their way to an Arb.
InFlight ==
    (ToSet(grpcChan) \cup (UNION {Held(p) : p \in Processors}) \cup ToSet(cachedChan))
        \cap Transactions

Feed == INSTANCE LossyFeed WITH
            waiting <- InFlight, delivered <- taken, view <- cache

\* With one processor the pipeline implements the lossy feed: Arbs receive
\* transactions in stream order, an eviction discards only the oldest one on its
\* way and only when a newer one follows it, and no transaction is delivered
\* before the updates that precede it are in the cache.
ImplementsFeed == Feed!Spec
=============================================================================
