------------------------------ MODULE LossyFeed ------------------------------
(***************************************************************************)
(* What the message pipeline of the arbitrage bot promises to its Arb      *)
(* tasks, without queues and processors: a feed of transactions, delivered *)
(* in stream order, which may lose an old transaction only because a newer *)
(* one is already waiting, and which shows a transaction to an Arb only    *)
(* when the account cache (the view) already reflects every account update *)
(* that came before it on the stream.                                      *)
(***************************************************************************)
EXTENDS Integers, Sequences

CONSTANTS
    Accounts,     \* accounts that may appear on the stream
    Subscribed    \* accounts of the subscription

VARIABLES
    stream,       \* history: everything the node has sent, in order
    waiting,      \* positions of transactions accepted and not yet delivered
    delivered,    \* positions of transactions handed to an Arb, in order
    view,         \* per account, the position of the update the cache shows
    status        \* "running", "exited" or "aborted"

vars == <<stream, waiting, delivered, view, status>>

Content ==
    [kind : {"account"}, account : Accounts, sliceable : BOOLEAN]
        \cup [kind : {"transaction"}, complete : BOOLEAN]

IsTransaction(i) == stream[i].kind = "transaction"

\* Position i is an update of account a that the cache must come to show.
Refreshes(i, a) ==
    /\ stream[i].kind = "account"
    /\ stream[i].account = a
    /\ a \in Subscribed
    /\ stream[i].sliceable

\* The view reflects every update that precedes position i.
Informed(i) ==
    \A j \in 1..(i - 1), a \in Accounts : Refreshes(j, a) => view[a] >= j

Init ==
    /\ stream = <<>>
    /\ waiting = {}
    /\ delivered = <<>>
    /\ view = [a \in Accounts |-> 0]
    /\ status = "running"

Offer(c) ==
    /\ stream' = Append(stream, c)
    /\ waiting' = IF c.kind = "transaction"
                    THEN waiting \cup {Len(stream) + 1}
                    ELSE waiting
    /\ UNCHANGED <<delivered, view, status>>

\* The view of an account only moves forward along the stream.
Refresh(i, a) ==
    /\ Refreshes(i, a)
    /\ view[a] < i
    /\ view' = [view EXCEPT ![a] = i]
    /\ UNCHANGED <<stream, waiting, delivered, status>>

Oldest(i) == i \in waiting /\ \A j \in waiting : i <= j

Deliver(i) ==
    /\ Oldest(i)
    /\ Informed(i)
    /\ delivered' = Append(delivered, i)
    /\ waiting' = waiting \ {i}
    /\ status' = IF stream[i].complete THEN status ELSE "aborted"
    /\ UNCHANGED <<stream, view>>

\* Only the oldest transaction is lost, and only when a newer one waits.
Lose(i) ==
    /\ Oldest(i)
    /\ waiting # {i}
    /\ waiting' = waiting \ {i}
    /\ UNCHANGED <<stream, delivered, view, status>>

Exit ==
    /\ waiting = {}
    /\ status' = "exited"
    /\ UNCHANGED <<stream, waiting, delivered, view>>

Abort ==
    /\ status' = "aborted"
    /\ UNCHANGED <<stream, waiting, delivered, view>>

Settle == \E i \in waiting : Deliver(i) \/ Lose(i)

Next ==
    /\ status = "running"
    /\ \/ \E c \in Content : Offer(c)
       \/ \E i \in DOMAIN stream, a \in Accounts : Refresh(i, a)
       \/ Settle
       \/ Exit
       \/ Abort

Spec ==
    /\ Init
    /\ [][Next]_vars
    /\ WF_vars(status = "running" /\ Settle)
=============================================================================
