--------------------------- MODULE PipelineProofs ---------------------------
(***************************************************************************)
(* Proofs about the message pipeline, for any number of accounts, Arbs and *)
(* messages and any capacity.  For any number of processors: type          *)
(* correctness, and that each transaction is in exactly one place and none *)
(* is left behind when the tasks have ended.  For one processor (the       *)
(* default of --processor-size): that the retry loop always ends, that an  *)
(* Arb never searches over data older than the transaction that triggered  *)
(* it, and that the pipeline implements LossyFeed.                         *)
(***************************************************************************)
EXTENDS Pipeline, SequenceTheorems, TLAPS

-----------------------------------------------------------------------------
(* Type correctness *)

\* The parts of TypeOK that relate a processor's state to its message, with the
\* transactions of a state that may have grown.
LEMMA InitType == Init => TypeOK
<1> SUFFICES ASSUME Init PROVE TypeOK
  OBVIOUS
<1>1. stream \in Seq(Content) /\ grpcChan \in Seq(Position)
      /\ cachedChan \in Seq(Transactions) /\ taken \in Seq(Transactions)
      /\ Len(cachedChan) = 0
  BY EmptySeq DEF Init
<1>2. QED
  BY <1>1, PipelineAssumption DEF Init, TypeOK, ProcessorState, Position

\* Appending to the stream keeps every old position and what it holds.
LEMMA StreamGrows ==
  ASSUME stream \in Seq(Content), NEW c \in Content,
         stream' = Append(stream, c)
  PROVE  /\ stream' \in Seq(Content)
         /\ Len(stream') = Len(stream) + 1
         /\ Position \subseteq Position'
         /\ Transactions \subseteq Transactions'
         /\ \A i \in Position : stream'[i] = stream[i]
         /\ Len(stream) + 1 \in Position'
         /\ Len(stream) + 1 \notin Position
<1>1. /\ stream' \in Seq(Content)
      /\ Len(stream') = Len(stream) + 1
      /\ \A i \in 1..Len(stream) : stream'[i] = stream[i]
      /\ Len(stream) \in Nat
  BY AppendProperties, LenProperties
<1>2. Position \subseteq Position'
  BY <1>1 DEF Position
<1>3. Transactions \subseteq Transactions'
  BY <1>1, <1>2 DEF Transactions, Position, IsTransaction
<1>4. QED
  BY <1>1, <1>2, <1>3 DEF Position

LEMMA SubscriberType == TypeOK /\ Subscriber => TypeOK'
<1> SUFFICES ASSUME TypeOK, Subscriber PROVE TypeOK'
  OBVIOUS
<1>1. ASSUME NEW c \in Content, SubscriberForward(c) PROVE TypeOK'
  <2>1. /\ stream' \in Seq(Content)
        /\ Position \subseteq Position'
        /\ Transactions \subseteq Transactions'
        /\ \A i \in Position : stream'[i] = stream[i]
        /\ Len(stream) + 1 \in Position'
    BY <1>1, StreamGrows DEF SubscriberForward, TypeOK
  <2>2. grpcChan \in Seq(Position')
    BY <2>1, SeqMonotonic DEF TypeOK
  <2>3. grpcChan' \in Seq(Position')
    BY <2>1, <2>2, AppendProperties, <1>1 DEF SubscriberForward
  <2>4. cachedChan' \in Seq(Transactions') /\ taken' \in Seq(Transactions')
    BY <2>1, SeqMonotonic, <1>1 DEF TypeOK, SubscriberForward, avars
  <2>5. \A p \in Processors : (pmsg'[p] = 0) <=> (ppc'[p] \in {"recv", "done"})
    BY <1>1 DEF TypeOK, SubscriberForward, pvars
  <2>6. \A p \in Processors : (ppc'[p] \notin {"recv", "done"}) =>
            (IsTransaction(pmsg[p])' <=> ppc'[p] # "apply")
    BY <1>1, <2>1 DEF TypeOK, SubscriberForward, pvars, IsTransaction
  <2>7. /\ pmsg' \in [Processors -> Position' \cup {0}]
        /\ cache' \in [Accounts -> Position' \cup {0}]
        /\ amsg' \in [Arbs -> Transactions' \cup {0}]
        /\ dropped' \subseteq Transactions'
    BY <1>1, <2>1 DEF TypeOK, SubscriberForward, pvars, avars
  <2>8. QED
    BY <1>1, <2>1, <2>3, <2>4, <2>5, <2>6, <2>7 DEF TypeOK, SubscriberForward, pvars, avars
<1>2. CASE SubscriberEnd
  BY <1>2 DEF SubscriberEnd, TypeOK, pvars, avars, Position, Transactions, IsTransaction
<1>3. CASE SubscriberPanic
  BY <1>3 DEF SubscriberPanic, TypeOK, pvars, avars, Position, Transactions, IsTransaction
<1>4. QED
  BY <1>1, <1>2, <1>3 DEF Subscriber

\* Steps that leave the stream alone keep the set of positions.
LEMMA SameStream ==
  ASSUME UNCHANGED stream
  PROVE  Position' = Position /\ Transactions' = Transactions
BY DEF Position, Transactions, IsTransaction

LEMMA EnqueueType ==
  ASSUME TypeOK, NEW p \in Processors, ppc[p] \in {"send", "resend"}, Enqueue(p)
  PROVE  TypeOK'
<1>1. pmsg[p] \in Transactions
  BY DEF TypeOK, Transactions
<1>2. cachedChan' \in Seq(Transactions) /\ Len(cachedChan') = Len(cachedChan) + 1
  BY <1>1, AppendProperties DEF Enqueue, TypeOK
<1>3. Len(cachedChan') <= Capacity
  BY <1>2, PipelineAssumption, LenProperties DEF Enqueue, TypeOK
<1>4. UNCHANGED stream
  BY DEF Enqueue
<1>5. QED
  BY <1>2, <1>3, <1>4, SameStream DEF Enqueue, TypeOK, ProcessorState, avars, IsTransaction

LEMMA FindFullType ==
  ASSUME TypeOK, NEW p \in Processors, ppc[p] \in {"send", "resend"},
         NEW next \in {"evict", "reevict"}, next = "reevict" => ppc[p] = "resend",
         FindFull(p, next)
  PROVE  TypeOK'
<1>1. UNCHANGED stream
  BY DEF FindFull
<1>2. QED
  BY <1>1, SameStream DEF FindFull, TypeOK, ProcessorState, avars, IsTransaction

LEMMA DiscardType ==
  ASSUME TypeOK, DiscardOldest
  PROVE  /\ cachedChan' \in Seq(Transactions)
         /\ Len(cachedChan') <= Len(cachedChan)
         /\ Len(cachedChan') <= Capacity
         /\ dropped' \subseteq Transactions
<1>1. cachedChan \in Seq(Transactions) /\ Len(cachedChan) \in Nat
      /\ Len(cachedChan) <= Capacity /\ dropped \subseteq Transactions
      /\ Capacity \in Nat
  BY LenProperties, PipelineAssumption DEF TypeOK
<1>2. CASE cachedChan = <<>>
  BY <1>1, <1>2 DEF DiscardOldest
<1>3. CASE cachedChan # <<>>
  <2>1. /\ Head(cachedChan) \in Transactions
        /\ Tail(cachedChan) \in Seq(Transactions)
        /\ Len(Tail(cachedChan)) = Len(cachedChan) - 1
    BY <1>1, <1>3, HeadTailProperties
  <2>2. QED
    BY <1>1, <1>3, <2>1 DEF DiscardOldest
<1>4. QED
  BY <1>2, <1>3

LEMMA ProcessorType ==
  ASSUME TypeOK, NEW p \in Processors, Processor(p)
  PROVE  TypeOK'
<1>1. CASE ProcessorRecv(p)
  <2>1. Head(grpcChan) \in Position /\ grpcChan' \in Seq(Position)
    BY <1>1, HeadTailProperties DEF ProcessorRecv, TypeOK
  <2>2. UNCHANGED stream
    BY <1>1 DEF ProcessorRecv
  <2>3. Head(grpcChan) # 0
    BY <2>1 DEF Position
  <2>4. QED
    BY <1>1, <2>1, <2>2, <2>3, SameStream
    DEF ProcessorRecv, TypeOK, ProcessorState, avars, IsTransaction
<1>2. CASE ProcessorDisconnected(p)
  BY <1>2, SameStream DEF ProcessorDisconnected, TypeOK, ProcessorState, avars, IsTransaction
<1>3. CASE ApplyUpdate(p)
  <2>1. UNCHANGED stream
    BY <1>3 DEF ApplyUpdate
  <2>2. pmsg[p] \in Position \cup {0}
    BY DEF TypeOK
  <2>3. cache' \in [Accounts -> Position \cup {0}]
    BY <1>3, <2>2 DEF ApplyUpdate, TypeOK
  <2>4. QED
    BY <1>3, <2>1, <2>3, SameStream
    DEF ApplyUpdate, TypeOK, ProcessorState, avars, IsTransaction
<1>4. CASE SendFirst(p)
  BY <1>4, EnqueueType, FindFullType DEF SendFirst
<1>5. CASE EvictFirst(p)
  BY <1>5, DiscardType, SameStream
  DEF EvictFirst, TypeOK, ProcessorState, avars, IsTransaction
<1>6. CASE Resend(p)
  BY <1>6, EnqueueType, FindFullType DEF Resend
<1>7. CASE EvictAgain(p)
  <2>1. retryCount[p] \in 1..3
    BY <1>7 DEF EvictAgain, TypeOK
  <2>2. QED
    BY <1>7, <2>1, DiscardType, SameStream
    DEF EvictAgain, TypeOK, ProcessorState, avars, IsTransaction
<1>8. CASE Spin(p)
  BY <1>8, SameStream DEF Spin, vars, TypeOK, IsTransaction
<1>9. QED
  BY <1>1, <1>2, <1>3, <1>4, <1>5, <1>6, <1>7, <1>8 DEF Processor

LEMMA ArbType ==
  ASSUME TypeOK, NEW r \in Arbs, Arb(r)
  PROVE  TypeOK'
<1>1. CASE ArbRecv(r)
  <2>1. /\ Head(cachedChan) \in Transactions
        /\ cachedChan' \in Seq(Transactions)
        /\ Len(cachedChan') = Len(cachedChan) - 1
    BY <1>1, HeadTailProperties DEF ArbRecv, TypeOK
  <2>2. Len(cachedChan') <= Capacity
    BY <2>1, LenProperties, PipelineAssumption DEF TypeOK
  <2>3. taken' \in Seq(Transactions)
    BY <1>1, <2>1, AppendProperties DEF ArbRecv, TypeOK
  <2>4. UNCHANGED stream
    BY <1>1 DEF ArbRecv
  <2>5. QED
    BY <1>1, <2>1, <2>2, <2>3, <2>4, SameStream DEF ArbRecv, TypeOK, pvars, IsTransaction
<1>2. CASE ArbFinish(r)
  BY <1>2, SameStream DEF ArbFinish, TypeOK, pvars, IsTransaction
<1>3. CASE ArbDisconnected(r)
  BY <1>3, SameStream DEF ArbDisconnected, TypeOK, pvars, IsTransaction
<1>4. QED
  BY <1>1, <1>2, <1>3 DEF Arb

\* TypeOK is inductive.
LEMMA NextType == TypeOK /\ [Next]_vars => TypeOK'
<1> SUFFICES ASSUME TypeOK, [Next]_vars PROVE TypeOK'
  OBVIOUS
<1>1. CASE Subscriber
  BY <1>1, SubscriberType
<1>2. ASSUME NEW p \in Processors, Processor(p) PROVE TypeOK'
  BY <1>2, ProcessorType
<1>3. ASSUME NEW r \in Arbs, Arb(r) PROVE TypeOK'
  BY <1>3, ArbType
<1>4. CASE Exit
  BY <1>4, SameStream DEF Exit, TypeOK, pvars, avars, IsTransaction
<1>5. CASE UNCHANGED vars
  BY <1>5, SameStream DEF vars, TypeOK, IsTransaction
<1>6. QED
  BY <1>1, <1>2, <1>3, <1>4, <1>5 DEF Next, Stopped

\* Every variable keeps its type, a processor holds a message exactly where the
\* code has one in scope, and the bounded channel never exceeds its capacity,
\* with any number of processors and Arbs.
THEOREM TypeCorrect == Spec => []TypeOK
<1>1. Init => TypeOK
  BY InitType
<1>2. TypeOK /\ [Next]_vars => TypeOK'
  BY NextType
<1>3. QED
  BY <1>1, <1>2, PTL DEF Spec

-----------------------------------------------------------------------------
(* One processor: the retry loop *)

\* With one processor nobody else sends, so room made stays.
RoomStays ==
    \A p \in Processors :
        /\ ppc[p] \notin {"reevict", "spin"}
        /\ ppc[p] = "resend" => Len(cachedChan) < Capacity

LEMMA RoomStep ==
  ASSUME NEW q, Processors = {q}, TypeOK, RoomStays, [Next]_vars
  PROVE  RoomStays'
<1>1. ASSUME NEW s \in Seq(Transactions), s # <<>>
      PROVE  Len(Tail(s)) < Len(s) /\ Len(s) \in Nat
  BY <1>1, HeadTailProperties, LenProperties
<1>2. Len(cachedChan) \in Nat /\ Len(cachedChan) <= Capacity /\ Capacity \in Nat \ {0}
  BY LenProperties, PipelineAssumption DEF TypeOK
<1>3. cachedChan \in Seq(Transactions) /\ ppc \in [Processors -> ProcessorState]
  BY DEF TypeOK
<1>4. CASE Subscriber
  BY <1>4 DEF Subscriber, SubscriberForward, SubscriberEnd, SubscriberPanic, RoomStays, pvars
<1>5. ASSUME NEW p \in Processors, Processor(p) PROVE RoomStays'
  <2>1. CASE ProcessorRecv(p) \/ ProcessorDisconnected(p) \/ ApplyUpdate(p) \/ Spin(p)
    BY <1>3, <2>1 DEF ProcessorRecv, ProcessorDisconnected, ApplyUpdate, Spin, RoomStays, vars
  <2>2. CASE SendFirst(p)
    BY <1>3, <2>2 DEF SendFirst, Enqueue, FindFull, RoomStays
  <2>3. CASE EvictFirst(p)
    <3>1. Len(cachedChan') < Capacity
      BY <1>1, <1>2, <1>3, <2>3 DEF EvictFirst, DiscardOldest
    <3>2. QED
      BY <1>3, <2>3, <3>1 DEF EvictFirst, RoomStays
  <2>4. CASE Resend(p)
    BY <1>2, <1>3, <2>4 DEF Resend, Enqueue, FindFull, RoomStays
  <2>5. CASE EvictAgain(p)
    BY <2>5 DEF EvictAgain, RoomStays
  <2>6. QED
    BY <1>5, <2>1, <2>2, <2>3, <2>4, <2>5 DEF Processor
<1>6. ASSUME NEW r \in Arbs, Arb(r) PROVE RoomStays'
  <2>1. CASE ArbRecv(r)
    <3>1. Len(cachedChan') < Len(cachedChan) /\ ppc' = ppc
      BY <1>1, <1>3, <2>1 DEF ArbRecv, pvars
    <3>2. Len(cachedChan') \in Nat
      BY <1>3, <2>1, HeadTailProperties, LenProperties DEF ArbRecv
    <3>3. QED
      BY <1>2, <3>1, <3>2 DEF RoomStays
  <2>2. CASE ArbFinish(r) \/ ArbDisconnected(r)
    BY <2>2 DEF ArbFinish, ArbDisconnected, RoomStays, pvars
  <2>3. QED
    BY <1>6, <2>1, <2>2 DEF Arb
<1>7. CASE Exit
  BY <1>7 DEF Exit, RoomStays, pvars
<1>8. CASE UNCHANGED vars
  BY <1>8 DEF vars, RoomStays
<1>9. QED
  BY <1>4, <1>5, <1>6, <1>7, <1>8 DEF Next, Stopped

\* The default configuration never enters the branch of the retry loop that has
\* no exit, whatever the capacity of the channel and the number of Arbs.
THEOREM RetryEnds == ASSUME NEW q, Processors = {q} PROVE Spec => []RetryFindsRoom
<1>1. Init => RoomStays
  BY DEF Init, RoomStays
<1>2. TypeOK /\ RoomStays /\ [Next]_vars => RoomStays'
  BY RoomStep
<1>3. RoomStays => RetryFindsRoom
  BY DEF RoomStays, RetryFindsRoom
<1>4. QED
  BY <1>1, <1>2, <1>3, TypeCorrect, PTL DEF Spec

-----------------------------------------------------------------------------
(* One processor: stream order and fresh data *)

\* Position x has left the processor: an Arb works on it, it waits in the bounded
\* channel, or it is an update some cache entry shows.
Passed(x) ==
    \/ \E r \in Arbs : amsg[r] = x
    \/ \E k \in 1..Len(cachedChan) : cachedChan[k] = x
    \/ \E a \in Accounts : cache[a] = x

Queued(x) == \E k \in 1..Len(grpcChan) : grpcChan[k] = x

\* What is queued is in stream order and follows what the processor holds, which
\* follows everything that has left the processor.
OrderInv ==
    /\ \A k, l \in 1..Len(grpcChan) : k < l => grpcChan[k] < grpcChan[l]
    /\ \A x \in Position \cup {0}, y \in Position :
          Passed(x) /\ Queued(y) => x < y
    /\ \A p \in Processors, x \in Position \cup {0} :
          Passed(x) /\ pmsg[p] # 0 => x < pmsg[p]
    /\ \A p \in Processors, y \in Position : Queued(y) => pmsg[p] < y

\* An update that must reach the cache is queued, in the processor's hands or in
\* the cache already.
UpdatesInv ==
    \A j \in Position, a \in Accounts :
        Refreshes(j, a) =>
            \/ Queued(j)
            \/ \E p \in Processors : pmsg[p] = j
            \/ cache[a] >= j

OrderedInv == TypeOK /\ OrderInv /\ UpdatesInv

LEMMA InitOrdered == Init => OrderInv /\ UpdatesInv
BY PipelineAssumption DEF Init, OrderInv, UpdatesInv, Queued, Passed, Position

LEMMA SubscriberOrdered == OrderedInv /\ Subscriber => OrderInv' /\ UpdatesInv'
<1> SUFFICES ASSUME OrderedInv, Subscriber PROVE OrderInv' /\ UpdatesInv'
  OBVIOUS
<1>1. ASSUME NEW c \in Content, SubscriberForward(c) PROVE OrderInv' /\ UpdatesInv'
  <2>0. PICK n : n = Len(stream) + 1
    OBVIOUS
  <2>1. /\ Position \subseteq Position'
        /\ \A i \in Position : stream'[i] = stream[i]
        /\ Position' = Position \cup {n}
        /\ \A i \in Position \cup {0} : i \in Nat /\ i < n
        /\ n \in Nat
        /\ stream'[n] = c
    <3>1. stream \in Seq(Content) /\ stream' = Append(stream, c)
      BY <1>1 DEF SubscriberForward, OrderedInv, TypeOK
    <3>2. QED
      BY <2>0, <3>1, StreamGrows, AppendProperties, LenProperties DEF Position
  <2>2. \A x : Passed(x)' <=> Passed(x)
    BY <1>1 DEF SubscriberForward, Passed, avars
  <2>3. \A x : Passed(x) => x \in Position \cup {0}
    <3>1. \A k \in 1..Len(cachedChan) : cachedChan[k] \in Transactions
      BY ElementOfSeq DEF OrderedInv, TypeOK
    <3>2. /\ \A r \in Arbs : amsg[r] \in Position \cup {0}
          /\ \A a \in Accounts : cache[a] \in Position \cup {0}
      BY DEF OrderedInv, TypeOK, Transactions
    <3>3. Transactions \subseteq Position
      BY DEF Transactions
    <3>4. QED
      BY <3>1, <3>2, <3>3 DEF Passed
  <2>4. \A k \in 1..Len(grpcChan) : grpcChan[k] \in Position
    BY ElementOfSeq DEF OrderedInv, TypeOK
  <2>5. /\ \A y : Queued(y)' => Queued(y) \/ y = n
        /\ \A y : Queued(y) => Queued(y)'
        /\ \A k, l \in 1..Len(grpcChan') : k < l => grpcChan'[k] < grpcChan'[l]
    <3>1. CASE grpcChan' = grpcChan
      <4>1. \A k, l \in 1..Len(grpcChan) : k < l => grpcChan[k] < grpcChan[l]
        BY DEF OrderedInv, OrderInv
      <4>2. \A y : Queued(y)' <=> Queued(y)
        BY <3>1 DEF Queued
      <4>3. QED
        BY <3>1, <4>1, <4>2
    <3>2. CASE grpcChan' = Append(grpcChan, n)
      <4>1. /\ Len(grpcChan') = Len(grpcChan) + 1
            /\ Len(grpcChan) \in Nat
            /\ \A k \in 1..Len(grpcChan) : grpcChan'[k] = grpcChan[k]
            /\ grpcChan'[Len(grpcChan) + 1] = n
        <5>1. grpcChan \in Seq(Position') /\ n \in Position'
          BY <2>1, SeqMonotonic DEF OrderedInv, TypeOK
        <5>2. QED
          BY <3>2, <5>1, AppendProperties, LenProperties
      <4>2. QED
        BY <2>1, <2>4, <4>1 DEF Queued, OrderedInv, OrderInv
    <3>3. QED
      BY <1>1, <2>0, <3>1, <3>2 DEF SubscriberForward
  <2>6. \A p \in Processors : pmsg'[p] = pmsg[p] /\ pmsg[p] \in Position \cup {0}
    BY <1>1 DEF SubscriberForward, pvars, OrderedInv, TypeOK
  <2>7. OrderInv'
    BY <2>1, <2>2, <2>3, <2>5, <2>6 DEF OrderInv, OrderedInv
  <2>8. ASSUME NEW a \in Accounts, Refreshes(n, a)' PROVE Queued(n)'
    <3>1. grpcChan' = Append(grpcChan, n)
      BY <1>1, <2>0, <2>1, <2>8 DEF Refreshes, SubscriberForward
    <3>2. grpcChan \in Seq(Position') /\ n \in Position'
      BY <2>1, SeqMonotonic DEF OrderedInv, TypeOK
    <3>3. Len(grpcChan') = Len(grpcChan) + 1 /\ grpcChan'[Len(grpcChan) + 1] = n
          /\ Len(grpcChan) \in Nat
      BY <3>1, <3>2, AppendProperties, LenProperties
    <3>4. QED
      BY <3>3 DEF Queued
  <2>9. \A j \in Position, a \in Accounts : Refreshes(j, a)' => Refreshes(j, a)
    BY <2>1 DEF Refreshes
  <2>10. UpdatesInv'
    <3> SUFFICES ASSUME NEW j \in Position', NEW a \in Accounts, Refreshes(j, a)'
                 PROVE  Queued(j)' \/ (\E p \in Processors : pmsg'[p] = j) \/ cache'[a] >= j
      BY DEF UpdatesInv
    <3>1. CASE j = n
      BY <2>8, <3>1
    <3>2. CASE j \in Position
      BY <1>1, <2>5, <2>6, <2>9, <3>2 DEF OrderedInv, UpdatesInv, SubscriberForward
    <3>3. QED
      BY <2>1, <3>1, <3>2
  <2>11. QED
    BY <2>7, <2>10
<1>2. CASE SubscriberEnd \/ SubscriberPanic
  BY <1>2 DEF SubscriberEnd, SubscriberPanic, OrderedInv, OrderInv, UpdatesInv, Passed, Queued,
              Position, Refreshes, pvars, avars
<1>3. QED
  BY <1>1, <1>2 DEF Subscriber

\* Steps that take nothing from the stream into the processor and put nothing new
\* into the cache, the bounded channel or an Arb's hands keep the order.
LEMMA OrderedShrinks ==
  ASSUME OrderedInv, UNCHANGED <<stream, grpcChan, cache>>,
         \A x : Passed(x)' => Passed(x) \/ x = 0,
         \A p \in Processors : pmsg'[p] = pmsg[p]
  PROVE  OrderInv' /\ UpdatesInv'
<1>1. Position' = Position /\ \A x : Queued(x)' <=> Queued(x)
  BY DEF Position, Queued
<1>2. \A p \in Processors : pmsg[p] \in Position \cup {0}
  BY DEF OrderedInv, TypeOK
<1>3. \A y \in Position : 0 < y
  BY DEF Position
<1>4. OrderInv'
  BY <1>1, <1>2, <1>3 DEF OrderedInv, OrderInv
<1>5. UpdatesInv'
  BY <1>1 DEF OrderedInv, UpdatesInv, Refreshes
<1>6. QED
  BY <1>4, <1>5

LEMMA DiscardPassed ==
  ASSUME TypeOK, DiscardOldest, UNCHANGED <<cache, amsg>>
  PROVE  \A x : Passed(x)' => Passed(x)
<1>1. CASE cachedChan = <<>>
  BY <1>1 DEF DiscardOldest, Passed
<1>2. CASE cachedChan # <<>>
  <2>1. /\ cachedChan \in Seq(Transactions) /\ cachedChan' = Tail(cachedChan)
        /\ Len(cachedChan') = Len(cachedChan) - 1
        /\ \A k \in 1..Len(cachedChan') : cachedChan'[k] = cachedChan[k + 1]
        /\ Len(cachedChan) \in Nat
    <3>1. cachedChan \in Seq(Transactions) /\ cachedChan' = Tail(cachedChan)
      BY <1>2 DEF DiscardOldest, TypeOK
    <3>2. QED
      BY <1>2, <3>1, HeadTailProperties, LenProperties
  <2>2. \A k \in 1..Len(cachedChan') : k + 1 \in 1..Len(cachedChan)
    BY <2>1
  <2>3. QED
    BY <2>1, <2>2 DEF Passed
<1>3. QED
  BY <1>1, <1>2

\* A try_send that succeeds moves the message from the processor's hands.
LEMMA EnqueueOrdered ==
  ASSUME NEW q, Processors = {q}, OrderedInv, ppc[q] \in {"send", "resend"}, Enqueue(q)
  PROVE  OrderInv' /\ UpdatesInv'
<1>1. /\ pmsg[q] \in Transactions
      /\ pmsg[q] \in Position
      /\ Position' = Position
      /\ \A x : Queued(x)' <=> Queued(x)
      /\ \A p \in Processors : pmsg'[p] = 0
      /\ \A y \in Position : 0 < y
  BY DEF OrderedInv, TypeOK, Transactions, Enqueue, Position, Queued
<1>2. \A x : Passed(x)' => Passed(x) \/ x = pmsg[q]
  <2>1. /\ Len(cachedChan') = Len(cachedChan) + 1
        /\ \A k \in 1..Len(cachedChan) : cachedChan'[k] = cachedChan[k]
        /\ cachedChan'[Len(cachedChan) + 1] = pmsg[q]
        /\ Len(cachedChan) \in Nat
    <3>1. cachedChan \in Seq(Transactions) /\ cachedChan' = Append(cachedChan, pmsg[q])
      BY DEF Enqueue, OrderedInv, TypeOK
    <3>2. QED
      BY <1>1, <3>1, AppendProperties, LenProperties
  <2>2. QED
    BY <2>1 DEF Passed, Enqueue, avars
<1>3. OrderInv'
  BY <1>1, <1>2 DEF OrderedInv, OrderInv, Enqueue
<1>4. UpdatesInv'
  <2>1. \A a \in Accounts : ~Refreshes(pmsg[q], a)
    BY <1>1 DEF Transactions, IsTransaction, Refreshes
  <2>2. \A j, a : Refreshes(j, a)' <=> Refreshes(j, a)
    BY DEF Refreshes, Enqueue
  <2>3. QED
    BY <1>1, <2>1, <2>2 DEF OrderedInv, UpdatesInv, Enqueue
<1>5. QED
  BY <1>3, <1>4

LEMMA ProcessorOrdered ==
  ASSUME NEW q, Processors = {q}, OrderedInv, Processor(q)
  PROVE  OrderInv' /\ UpdatesInv'
<1>1. CASE ProcessorRecv(q)
  <2>1. /\ grpcChan \in Seq(Position) /\ grpcChan' = Tail(grpcChan)
        /\ Len(grpcChan') = Len(grpcChan) - 1
        /\ \A k \in 1..Len(grpcChan') : grpcChan'[k] = grpcChan[k + 1]
        /\ Len(grpcChan) \in Nat /\ Len(grpcChan) > 0
        /\ Head(grpcChan) = grpcChan[1]
    BY <1>1, HeadTailProperties, LenProperties, EmptySeq DEF ProcessorRecv, OrderedInv, TypeOK
  <2>2. PICK h : h = Head(grpcChan)
    OBVIOUS
  <2>3. /\ h \in Position /\ Queued(h)
        /\ \A p \in Processors : pmsg[p] = 0 /\ pmsg'[p] = h
        /\ Position' = Position
        /\ \A x : Passed(x)' <=> Passed(x)
    BY <1>1, <2>1, <2>2, ElementOfSeq
    DEF ProcessorRecv, OrderedInv, TypeOK, Queued, Position, Passed, avars
  <2>4. /\ \A y : Queued(y)' => Queued(y)
        /\ \A y \in Position : Queued(y)' => h < y
        /\ \A y : Queued(y) => Queued(y)' \/ y = h
        /\ \A k, l \in 1..Len(grpcChan') : k < l => grpcChan'[k] < grpcChan'[l]
    <3>1. \A k, l \in 1..Len(grpcChan) : k < l => grpcChan[k] < grpcChan[l]
      BY DEF OrderedInv, OrderInv
    <3>2. \A k \in 1..Len(grpcChan') : k + 1 \in 1..Len(grpcChan) /\ 1 < k + 1
      BY <2>1
    <3>3. \A k \in 1..Len(grpcChan) : k = 1 \/ (k - 1 \in 1..Len(grpcChan') /\ (k - 1) + 1 = k)
      BY <2>1
    <3>4. \A k, l \in 1..Len(grpcChan') : k < l => grpcChan'[k] < grpcChan'[l]
      BY <2>1, <3>1, <3>2
    <3>5. \A y : Queued(y)' => Queued(y) /\ h < y
      BY <2>1, <2>2, <3>1, <3>2 DEF Queued
    <3>6. \A y : Queued(y) => Queued(y)' \/ y = h
      <4> SUFFICES ASSUME NEW y, Queued(y), y # h PROVE Queued(y)'
        OBVIOUS
      <4>1. PICK k \in 1..Len(grpcChan) : grpcChan[k] = y
        BY DEF Queued
      <4>2. k - 1 \in 1..Len(grpcChan') /\ grpcChan'[k - 1] = y
        BY <2>1, <2>2, <3>3, <4>1
      <4>3. QED
        BY <4>2 DEF Queued
    <3>7. QED
      BY <3>4, <3>5, <3>6
  <2>5. OrderInv'
    BY <2>3, <2>4 DEF OrderedInv, OrderInv
  <2>6. UpdatesInv'
    <3>1. \A j, a : Refreshes(j, a)' <=> Refreshes(j, a)
      BY <1>1 DEF Refreshes, ProcessorRecv
    <3>2. cache' = cache /\ \A j \in Position : j # 0
      BY <1>1 DEF ProcessorRecv, Position
    <3>3. SUFFICES ASSUME NEW j \in Position, NEW a \in Accounts, Refreshes(j, a)
                   PROVE  Queued(j)' \/ h = j \/ cache[a] >= j
      BY <2>3, <3>1, <3>2 DEF UpdatesInv
    <3>4. Queued(j) \/ cache[a] >= j
      BY <2>3, <3>2, <3>3 DEF OrderedInv, UpdatesInv
    <3>5. QED
      BY <2>4, <3>4
  <2>7. QED
    BY <2>5, <2>6
<1>2. CASE ProcessorDisconnected(q) \/ Spin(q)
  BY <1>2, OrderedShrinks DEF ProcessorDisconnected, Spin, Passed, vars, avars
<1>3. CASE ApplyUpdate(q)
  <2>1. /\ pmsg[q] \in Position
        /\ ~IsTransaction(pmsg[q])
        /\ Position' = Position
        /\ \A x : Queued(x)' <=> Queued(x)
        /\ \A p \in Processors : pmsg'[p] = 0
        /\ \A y \in Position : 0 < y
    BY <1>3 DEF ApplyUpdate, OrderedInv, TypeOK, Position, Queued
  <2>2. \A a \in Accounts : cache'[a] = cache[a] \/ (cache'[a] = pmsg[q] /\ cache[a] < pmsg[q])
    <3>1. \A a \in Accounts : cache[a] \in Position \cup {0} /\ Passed(cache[a])
      BY DEF OrderedInv, TypeOK, Passed
    <3>2. \A a \in Accounts : cache[a] < pmsg[q]
      BY <2>1, <3>1 DEF OrderedInv, OrderInv
    <3>3. QED
      BY <1>3, <3>2 DEF ApplyUpdate, OrderedInv, TypeOK
  <2>3. \A x : Passed(x)' => Passed(x) \/ x = pmsg[q]
    BY <1>3, <2>2 DEF ApplyUpdate, Passed, avars
  <2>4. OrderInv'
    BY <1>3, <2>1, <2>3 DEF OrderedInv, OrderInv, ApplyUpdate
  <2>5. UpdatesInv'
    <3>1. \A j, a : Refreshes(j, a)' <=> Refreshes(j, a)
      BY <1>3 DEF Refreshes, ApplyUpdate
    <3>2. \A a \in Accounts : Refreshes(pmsg[q], a) => cache'[a] = pmsg[q]
      BY <1>3 DEF Refreshes, ApplyUpdate, OrderedInv, TypeOK
    <3>3. \A a \in Accounts : cache[a] \in Nat /\ cache'[a] \in Nat /\ cache'[a] >= cache[a]
      BY <2>1, <2>2 DEF OrderedInv, TypeOK, Position
    <3>4. Position \subseteq Nat
      BY DEF Position
    <3>5. SUFFICES ASSUME NEW j \in Position, NEW a \in Accounts, Refreshes(j, a)
                   PROVE  Queued(j) \/ cache'[a] >= j
      BY <2>1, <3>1 DEF UpdatesInv
    <3>6. Queued(j) \/ j = pmsg[q] \/ cache[a] >= j
      BY <3>5 DEF OrderedInv, UpdatesInv
    <3>7. CASE cache[a] >= j
      BY <3>3, <3>4, <3>7
    <3>8. CASE j = pmsg[q]
      BY <3>2, <3>3, <3>4, <3>5, <3>8
    <3>9. QED
      BY <3>6, <3>7, <3>8
  <2>6. QED
    BY <2>4, <2>5
<1>4. CASE SendFirst(q)
  <2>1. CASE Enqueue(q)
    BY <1>4, <2>1, EnqueueOrdered DEF SendFirst
  <2>2. CASE FindFull(q, "evict")
    BY <2>2, OrderedShrinks DEF FindFull, Passed, avars
  <2>3. QED
    BY <1>4, <2>1, <2>2 DEF SendFirst
<1>5. CASE EvictFirst(q) \/ EvictAgain(q)
  <2>1. \A x : Passed(x)' => Passed(x)
    BY <1>5, DiscardPassed DEF EvictFirst, EvictAgain, OrderedInv, avars
  <2>2. QED
    BY <1>5, <2>1, OrderedShrinks DEF EvictFirst, EvictAgain
<1>6. CASE Resend(q)
  <2>1. CASE Enqueue(q)
    BY <1>6, <2>1, EnqueueOrdered DEF Resend
  <2>2. CASE FindFull(q, "reevict")
    BY <2>2, OrderedShrinks DEF FindFull, Passed, avars
  <2>3. QED
    BY <1>6, <2>1, <2>2 DEF Resend
<1>7. QED
  BY <1>1, <1>2, <1>3, <1>4, <1>5, <1>6 DEF Processor

LEMMA ArbOrdered ==
  ASSUME OrderedInv, NEW r \in Arbs, Arb(r)
  PROVE  OrderInv' /\ UpdatesInv'
<1>1. CASE ArbRecv(r)
  <2>1. /\ cachedChan \in Seq(Transactions) /\ cachedChan # <<>>
        /\ cachedChan' = Tail(cachedChan)
        /\ amsg' = [amsg EXCEPT ![r] = Head(cachedChan)]
        /\ amsg \in [Arbs -> Transactions \cup {0}]
        /\ UNCHANGED <<stream, grpcChan, cache>>
        /\ \A p \in Processors : pmsg'[p] = pmsg[p]
    BY <1>1 DEF ArbRecv, OrderedInv, TypeOK, pvars
  <2>2. /\ Len(cachedChan') = Len(cachedChan) - 1
        /\ \A k \in 1..Len(cachedChan') : cachedChan'[k] = cachedChan[k + 1]
        /\ Len(cachedChan) \in Nat /\ Len(cachedChan) > 0
        /\ Head(cachedChan) = cachedChan[1]
    BY <2>1, HeadTailProperties, LenProperties, EmptySeq
  <2>3. \A k \in 1..Len(cachedChan') : k + 1 \in 1..Len(cachedChan)
    BY <2>2
  <2>4. \A s \in Arbs : amsg'[s] = amsg[s] \/ amsg'[s] = cachedChan[1]
    BY <2>1, <2>2
  <2>5. 1 \in 1..Len(cachedChan)
    BY <2>2
  <2>6. \A x : Passed(x)' => Passed(x)
    BY <2>1, <2>2, <2>3, <2>4, <2>5 DEF Passed
  <2>7. QED
    BY <2>1, <2>6, OrderedShrinks
<1>2. CASE ArbFinish(r)
  <2>1. \A s \in Arbs : amsg'[s] = amsg[s] \/ amsg'[s] = 0
    BY <1>2 DEF ArbFinish, OrderedInv, TypeOK
  <2>2. \A x : Passed(x)' => Passed(x) \/ x = 0
    BY <1>2, <2>1 DEF ArbFinish, Passed
  <2>3. QED
    BY <1>2, <2>2, OrderedShrinks DEF ArbFinish, pvars
<1>3. CASE ArbDisconnected(r)
  BY <1>3, OrderedShrinks DEF ArbDisconnected, Passed, pvars
<1>4. QED
  BY <1>1, <1>2, <1>3 DEF Arb

LEMMA OrderedStep ==
  ASSUME NEW q, Processors = {q}, OrderedInv, [Next]_vars
  PROVE  OrderedInv'
<1>1. CASE Subscriber
  BY <1>1, SubscriberOrdered, NextType DEF OrderedInv
<1>2. ASSUME NEW p \in Processors, Processor(p) PROVE OrderInv' /\ UpdatesInv'
  BY <1>2, ProcessorOrdered
<1>3. ASSUME NEW r \in Arbs, Arb(r) PROVE OrderInv' /\ UpdatesInv'
  BY <1>3, ArbOrdered
<1>4. CASE Exit
  BY <1>4, OrderedShrinks, NextType DEF Exit, Passed, pvars, avars, OrderedInv
<1>5. CASE UNCHANGED vars
  BY <1>5, OrderedShrinks, NextType DEF vars, Passed, OrderedInv
<1>6. QED
  BY <1>1, <1>2, <1>3, <1>4, <1>5, NextType DEF Next, Stopped, OrderedInv

\* An Arb working on a transaction has the updates before it in the cache: they
\* cannot be queued behind it, nor be in the processor's hands.
LEMMA OrderedIsFresh == OrderedInv => ArbSeesUpdates
<1> SUFFICES ASSUME OrderedInv, NEW r \in Arbs, apc[r] = "work",
                    NEW j \in 1..(amsg[r] - 1), NEW a \in Accounts, Refreshes(j, a)
             PROVE  cache[a] >= j
  BY DEF ArbSeesUpdates, Informed
<1>1. /\ amsg[r] \in Position \cup {0} /\ Passed(amsg[r])
      /\ \A p \in Processors : pmsg[p] \in Position \cup {0}
      /\ Len(stream) \in Nat
  BY LenProperties DEF OrderedInv, TypeOK, Transactions, Passed
<1>2. j \in Position /\ j < amsg[r]
  BY <1>1 DEF Position
<1>3. ~Queued(j)
  BY <1>1, <1>2 DEF OrderedInv, OrderInv, Position
<1>4. \A p \in Processors : pmsg[p] # j
  BY <1>1, <1>2 DEF OrderedInv, OrderInv, Position
<1>5. QED
  BY <1>2, <1>3, <1>4 DEF OrderedInv, UpdatesInv

LEMMA OrderedAlways == ASSUME NEW q, Processors = {q} PROVE Spec => []OrderedInv
<1>1. Init => OrderedInv
  BY InitOrdered, InitType DEF OrderedInv
<1>2. OrderedInv /\ [Next]_vars => OrderedInv'
  BY OrderedStep
<1>3. QED
  BY <1>1, <1>2, PTL DEF Spec

\* In the default configuration, whatever the number of Arbs, accounts and
\* messages, an Arb never searches over data older than the transaction that
\* triggered the search.
THEOREM FreshSearch == ASSUME NEW q, Processors = {q} PROVE Spec => []ArbSeesUpdates
BY OrderedAlways, OrderedIsFresh, PTL

\* In the default configuration no cache entry ever goes back to older data,
\* although update_cache compares no versions.
THEOREM CacheMovesForward == ASSUME NEW q, Processors = {q} PROVE Spec => CacheForward
<1>1. ASSUME OrderedInv, [Next]_vars
      PROVE  [\A a \in Accounts : cache'[a] >= cache[a]]_vars
  <2>1. \A a \in Accounts : cache[a] \in Position \cup {0} /\ cache[a] \in Nat /\ Passed(cache[a])
    BY <1>1 DEF OrderedInv, TypeOK, Passed, Position
  <2>2. CASE ApplyUpdate(q)
    <3>1. pmsg[q] # 0 /\ pmsg[q] \in Nat
      BY <1>1, <2>2 DEF ApplyUpdate, OrderedInv, TypeOK, Position
    <3>2. \A a \in Accounts : cache[a] < pmsg[q]
      BY <1>1, <2>1, <3>1 DEF OrderedInv, OrderInv
    <3>3. QED
      BY <1>1, <2>1, <2>2, <3>1, <3>2 DEF ApplyUpdate, OrderedInv, TypeOK
  <2>3. CASE cache' = cache
    BY <2>1, <2>3
  <2>4. cache' = cache \/ ApplyUpdate(q)
    BY <1>1 DEF Next, Subscriber, SubscriberForward, SubscriberEnd, SubscriberPanic, Processor,
      ProcessorRecv, ProcessorDisconnected, SendFirst, Enqueue, FindFull, EvictFirst, Resend,
      EvictAgain, Spin, Arb, ArbRecv, ArbFinish, ArbDisconnected, Exit, Stopped, vars
  <2>5. QED
    BY <2>2, <2>3, <2>4
<1>2. QED
  BY <1>1, OrderedAlways, PTL DEF Spec, CacheForward

-----------------------------------------------------------------------------
(* Sequences without repetitions, and their elements *)

LEMMA InToSet ==
    ASSUME NEW S, NEW s \in Seq(S)
    PROVE  /\ DOMAIN s = 1..Len(s) /\ Len(s) \in Nat
           /\ \A k \in 1..Len(s) : s[k] \in ToSet(s)
           /\ \A x \in ToSet(s) : \E k \in 1..Len(s) : s[k] = x
           /\ ToSet(s) \subseteq S
           /\ ToSet(s) = {} <=> s = <<>>
<1>1. DOMAIN s = 1..Len(s) /\ Len(s) \in Nat /\ \A k \in 1..Len(s) : s[k] \in S
  BY LenProperties, ElementOfSeq
<1>2. ToSet(s) = {} => s = <<>>
  <2> SUFFICES ASSUME s # <<>> PROVE ToSet(s) # {}
    OBVIOUS
  <2>1. 1 \in DOMAIN s
    BY <1>1, EmptySeq
  <2> QED
    BY <2>1 DEF ToSet
<1>3. s = <<>> => ToSet(s) = {}
  BY <1>1, EmptySeq DEF ToSet
<1> QED
  BY <1>1, <1>2, <1>3 DEF ToSet

LEMMA AppendOnce ==
    ASSUME NEW S, NEW s \in Seq(S), NEW e \in S, IsInjective(s), e \notin ToSet(s)
    PROVE  /\ Append(s, e) \in Seq(S)
           /\ ToSet(Append(s, e)) = ToSet(s) \cup {e}
           /\ IsInjective(Append(s, e))
<1> DEFINE t == Append(s, e)
<1>1. /\ t \in Seq(S) /\ Len(t) = Len(s) + 1
      /\ t[Len(s) + 1] = e
      /\ \A k \in 1..Len(s) : t[k] = s[k]
  BY AppendProperties
<1>2. Len(s) \in Nat /\ DOMAIN s = 1..Len(s) /\ DOMAIN t = 1..(Len(s) + 1)
  BY <1>1, InToSet
<1> HIDE DEF t
<1>3. \A k \in DOMAIN s : s[k] # e
  BY DEF ToSet
<1>4. ToSet(t) = ToSet(s) \cup {e}
  <2>1. \A k \in DOMAIN t : k \in DOMAIN s \/ k = Len(s) + 1
    BY <1>2
  <2>2. DOMAIN s \subseteq DOMAIN t /\ Len(s) + 1 \in DOMAIN t
    BY <1>2
  <2> QED
    BY <1>1, <1>2, <2>1, <2>2 DEF ToSet
<1>5. IsInjective(t)
  BY <1>1, <1>2, <1>3 DEF IsInjective
<1> QED
  BY <1>1, <1>4, <1>5 DEF t

LEMMA TailOnce ==
    ASSUME NEW S, NEW s \in Seq(S), s # <<>>, IsInjective(s)
    PROVE  /\ Head(s) \in S /\ Head(s) \in ToSet(s)
           /\ Tail(s) \in Seq(S)
           /\ ToSet(Tail(s)) = ToSet(s) \ {Head(s)}
           /\ IsInjective(Tail(s))
<1> DEFINE t == Tail(s)
<1>1. /\ t \in Seq(S) /\ Len(t) = Len(s) - 1
      /\ Head(s) = s[1] /\ Head(s) \in S
      /\ \A k \in 1..Len(t) : t[k] = s[k + 1]
  BY HeadTailProperties
<1>2. Len(s) \in Nat \ {0} /\ DOMAIN s = 1..Len(s) /\ DOMAIN t = 1..(Len(s) - 1)
  BY <1>1, InToSet, EmptySeq
<1> HIDE DEF t
<1>3. \A k \in DOMAIN t : k + 1 \in DOMAIN s /\ k + 1 # 1 /\ t[k] = s[k + 1]
  BY <1>1, <1>2
<1>4. \A k \in DOMAIN s : k = 1 \/ (k - 1 \in DOMAIN t /\ t[k - 1] = s[k])
  BY <1>1, <1>2
<1>5. 1 \in DOMAIN s
  BY <1>2
<1>6. IsInjective(t)
  BY <1>2, <1>3 DEF IsInjective
<1>7. ToSet(t) = ToSet(s) \ {s[1]}
  <2>1. \A k \in DOMAIN t : t[k] # s[1]
    BY <1>3, <1>5 DEF IsInjective
  <2>2. \A x \in ToSet(t) : x \in ToSet(s) \ {s[1]}
    BY <1>3, <2>1 DEF ToSet
  <2>3. \A x \in ToSet(s) \ {s[1]} : x \in ToSet(t)
    BY <1>4 DEF ToSet
  <2> QED
    BY <2>2, <2>3
<1> QED
  BY <1>1, <1>5, <1>6, <1>7 DEF t, ToSet

LEMMA ConcatOnce ==
    ASSUME NEW S, NEW s \in Seq(S), NEW t \in Seq(S), IsInjective(s), IsInjective(t),
           ToSet(s) \cap ToSet(t) = {}
    PROVE  /\ ToSet(s \o t) = ToSet(s) \cup ToSet(t)
           /\ IsInjective(s \o t)
<1> DEFINE u == s \o t
<1>1. /\ u \in Seq(S) /\ Len(u) = Len(s) + Len(t)
      /\ \A k \in 1..(Len(s) + Len(t)) : u[k] = IF k <= Len(s) THEN s[k] ELSE t[k - Len(s)]
  BY ConcatProperties
<1>2. /\ Len(s) \in Nat /\ Len(t) \in Nat
      /\ DOMAIN s = 1..Len(s) /\ DOMAIN t = 1..Len(t) /\ DOMAIN u = 1..(Len(s) + Len(t))
  BY <1>1, InToSet
<1> HIDE DEF u
<1>3. \A k \in DOMAIN s : k \in DOMAIN u /\ u[k] = s[k]
  BY <1>1, <1>2
<1>4. \A k \in DOMAIN t : Len(s) + k \in DOMAIN u /\ u[Len(s) + k] = t[k]
  BY <1>1, <1>2
<1>5. \A k \in DOMAIN u : \/ k \in DOMAIN s /\ u[k] = s[k]
                          \/ k - Len(s) \in DOMAIN t /\ u[k] = t[k - Len(s)]
  BY <1>1, <1>2
<1>6. ToSet(u) = ToSet(s) \cup ToSet(t)
  <2>1. \A x \in ToSet(u) : x \in ToSet(s) \cup ToSet(t)
    BY <1>5 DEF ToSet
  <2>2. \A x \in ToSet(s) \cup ToSet(t) : x \in ToSet(u)
    BY <1>3, <1>4 DEF ToSet
  <2> QED
    BY <2>1, <2>2
<1>7. IsInjective(u)
  <2> SUFFICES ASSUME NEW k \in DOMAIN u, NEW l \in DOMAIN u, u[k] = u[l] PROVE k = l
    BY DEF IsInjective
  <2>1. \A i \in DOMAIN s, j \in DOMAIN t : s[i] # t[j]
    BY DEF ToSet
  <2>2. k \in Int /\ l \in Int /\ Len(s) \in Int
    BY <1>2
  <2>3. CASE k \in DOMAIN s /\ u[k] = s[k] /\ l \in DOMAIN s /\ u[l] = s[l]
    BY <2>3 DEF IsInjective
  <2>4. CASE /\ k - Len(s) \in DOMAIN t /\ u[k] = t[k - Len(s)]
             /\ l - Len(s) \in DOMAIN t /\ u[l] = t[l - Len(s)]
    <3>1. k - Len(s) = l - Len(s)
      BY <2>4 DEF IsInjective
    <3> QED
      BY <2>2, <3>1
  <2> QED
    BY <1>5, <2>1, <2>3, <2>4
<1> QED
  BY <1>6, <1>7 DEF u

-----------------------------------------------------------------------------
(* Every message is in one place *)

\* What the processors hold.
Hands == {pmsg[p] : p \in Processors} \ {0}

\* What is queued, held, in the bounded channel, received and evicted are
\* without repetitions and apart, and make up every transaction.  A position
\* counts whatever its kind: what ProcessorRecv takes is nowhere else.
PlaceInv ==
    /\ IsInjective(grpcChan) /\ IsInjective(cachedChan) /\ IsInjective(taken)
    /\ \A p, q \in Processors : p # q /\ pmsg[p] = pmsg[q] => pmsg[p] = 0
    /\ ToSet(grpcChan) \cap (Hands \cup ToSet(cachedChan) \cup ToSet(taken) \cup dropped) = {}
    /\ Hands \cap (ToSet(cachedChan) \cup ToSet(taken) \cup dropped) = {}
    /\ ToSet(cachedChan) \cap (ToSet(taken) \cup dropped) = {}
    /\ ToSet(taken) \cap dropped = {}
    /\ Transactions \subseteq
          ToSet(grpcChan) \cup Hands \cup ToSet(cachedChan) \cup ToSet(taken) \cup dropped

\* All places hold positions of the stream.
LEMMA PlacesAreOld ==
    ASSUME TypeOK
    PROVE  /\ ToSet(grpcChan) \subseteq Position /\ Hands \subseteq Position
           /\ ToSet(cachedChan) \subseteq Transactions /\ ToSet(taken) \subseteq Transactions
           /\ dropped \subseteq Transactions /\ Transactions \subseteq Position
<1>1. Hands \subseteq Position
  BY DEF TypeOK, Hands
<1>2. Transactions \subseteq Position
  BY DEF Transactions
<1>3. grpcChan \in Seq(Position) /\ cachedChan \in Seq(Transactions)
      /\ taken \in Seq(Transactions) /\ dropped \subseteq Transactions
  BY DEF TypeOK
<1> QED
  BY <1>1, <1>2, <1>3, InToSet

LEMMA InitPlaces == Init => PlaceInv
<1> SUFFICES ASSUME Init PROVE PlaceInv
  OBVIOUS
<1>1. /\ grpcChan = <<>> /\ cachedChan = <<>> /\ taken = <<>> /\ dropped = {}
      /\ \A p \in Processors : pmsg[p] = 0
      /\ Len(stream) = 0
  BY EmptySeq DEF Init
<1>2. Transactions = {} /\ Hands = {}
  BY <1>1 DEF Transactions, Position, Hands
<1>3. <<>> \in Seq({}) /\ DOMAIN <<>> = {}
  BY EmptySeq, LenProperties
<1>4. ToSet(<<>>) = {} /\ IsInjective(<<>>)
  BY <1>3 DEF ToSet, IsInjective
<1> QED
  BY <1>1, <1>2, <1>4 DEF PlaceInv

\* The stream sends a position that no place holds yet.
LEMMA ForwardPlaces ==
    ASSUME TypeOK, PlaceInv, NEW c \in Content, SubscriberForward(c)
    PROVE  PlaceInv'
<1> DEFINE n == Len(stream) + 1
<1>1. /\ Position \subseteq Position'
      /\ \A i \in Position : stream'[i] = stream[i]
      /\ n \in Position' /\ n \notin Position
      /\ Position' = Position \cup {n}
      /\ stream'[n] = c
  <2>1. stream \in Seq(Content) /\ stream' = Append(stream, c)
    BY DEF SubscriberForward, TypeOK
  <2> QED
    BY <2>1, StreamGrows, AppendProperties, LenProperties DEF Position
<1> HIDE DEF n
<1>2. UNCHANGED <<pmsg, cachedChan, taken, dropped>>
  BY DEF SubscriberForward, pvars, avars
<1>3. Hands' = Hands
  BY <1>2 DEF Hands
<1>4. Transactions' \subseteq Transactions \cup {n}
  BY <1>1 DEF Transactions, IsTransaction
<1>5. n \notin ToSet(grpcChan) \cup Hands \cup ToSet(cachedChan) \cup ToSet(taken) \cup dropped
  BY <1>1, PlacesAreOld
<1>6. CASE grpcChan' = grpcChan /\ c.kind = "account"
  <2>1. n \notin Transactions'
    BY <1>1, <1>6 DEF Transactions, IsTransaction
  <2> QED
    BY <1>2, <1>3, <1>4, <1>6, <2>1 DEF PlaceInv
<1>7. CASE grpcChan' = Append(grpcChan, n)
  <2>1. grpcChan \in Seq(Position')
    BY <1>1, SeqMonotonic DEF TypeOK
  <2>2. ToSet(grpcChan') = ToSet(grpcChan) \cup {n} /\ IsInjective(grpcChan')
    BY <1>1, <1>5, <1>7, <2>1, AppendOnce DEF PlaceInv
  <2> QED
    BY <1>2, <1>3, <1>4, <1>5, <2>2 DEF PlaceInv
<1> QED
  BY <1>6, <1>7 DEF SubscriberForward, n

\* A processor takes the head of the queue and holds nothing before.
LEMMA RecvPlaces ==
    ASSUME TypeOK, PlaceInv, NEW p \in Processors, ProcessorRecv(p)
    PROVE  PlaceInv'
<1>1. /\ pmsg \in [Processors -> Position \cup {0}] /\ pmsg[p] = 0
      /\ pmsg' = [pmsg EXCEPT ![p] = Head(grpcChan)]
      /\ UNCHANGED <<stream, cachedChan, taken, dropped>>
      /\ grpcChan \in Seq(Position) /\ grpcChan # <<>> /\ grpcChan' = Tail(grpcChan)
  BY DEF ProcessorRecv, TypeOK, avars
<1>2. /\ Head(grpcChan) \in Position /\ Head(grpcChan) \in ToSet(grpcChan)
      /\ ToSet(grpcChan') = ToSet(grpcChan) \ {Head(grpcChan)}
      /\ IsInjective(grpcChan')
  BY <1>1, TailOnce DEF PlaceInv
<1>3. Transactions' = Transactions
  BY <1>1, SameStream
<1>4. Head(grpcChan) # 0 /\ Head(grpcChan) \notin Hands
  BY <1>2 DEF Position, PlaceInv
<1>5. Hands' = Hands \cup {Head(grpcChan)}
  BY <1>1, <1>4 DEF Hands
<1>6. \A q \in Processors : pmsg[q] # Head(grpcChan)
  BY <1>4 DEF Hands
<1>7. \A q, r \in Processors : q # r /\ pmsg'[q] = pmsg'[r] => pmsg'[q] = 0
  BY <1>1, <1>6 DEF PlaceInv
<1> QED
  BY <1>1, <1>2, <1>3, <1>5, <1>7 DEF PlaceInv

\* A processor lets go of what it holds.
LEMMA ReleaseHands ==
    ASSUME TypeOK, PlaceInv, NEW p \in Processors, pmsg[p] # 0, pmsg' = [pmsg EXCEPT ![p] = 0]
    PROVE  /\ Hands' = Hands \ {pmsg[p]} /\ pmsg[p] \in Hands
           /\ \A q, r \in Processors : q # r /\ pmsg'[q] = pmsg'[r] => pmsg'[q] = 0
<1>1. pmsg \in [Processors -> Position \cup {0}]
  BY DEF TypeOK
<1>2. \A q \in Processors : q # p => pmsg[q] # pmsg[p]
  BY DEF PlaceInv
<1>3. Hands' = Hands \ {pmsg[p]} /\ pmsg[p] \in Hands
  BY <1>1, <1>2 DEF Hands
<1>4. \A q, r \in Processors : q # r /\ pmsg'[q] = pmsg'[r] => pmsg'[q] = 0
  BY <1>1 DEF PlaceInv
<1> QED
  BY <1>3, <1>4

\* What ApplyUpdate lets go of is an update.
LEMMA ApplyPlaces ==
    ASSUME TypeOK, PlaceInv, NEW p \in Processors, ApplyUpdate(p)
    PROVE  PlaceInv'
<1>1. /\ pmsg[p] # 0 /\ ~IsTransaction(pmsg[p]) /\ pmsg' = [pmsg EXCEPT ![p] = 0]
      /\ UNCHANGED <<stream, grpcChan, cachedChan, taken, dropped>>
  BY DEF ApplyUpdate, TypeOK, avars
<1>2. pmsg[p] \notin Transactions /\ Transactions' = Transactions
  BY <1>1, SameStream DEF Transactions
<1> QED
  BY <1>1, <1>2, ReleaseHands DEF PlaceInv

\* A try_send that finds room moves the transaction to the channel.
LEMMA EnqueuePlaces ==
    ASSUME TypeOK, PlaceInv, NEW p \in Processors, ppc[p] \in {"send", "resend"}, Enqueue(p)
    PROVE  PlaceInv'
<1>1. /\ pmsg[p] # 0 /\ pmsg[p] \in Transactions /\ pmsg' = [pmsg EXCEPT ![p] = 0]
      /\ UNCHANGED <<stream, grpcChan, taken, dropped>>
      /\ cachedChan \in Seq(Transactions) /\ cachedChan' = Append(cachedChan, pmsg[p])
  BY DEF Enqueue, TypeOK, avars, Transactions
<1>2. /\ Hands' = Hands \ {pmsg[p]} /\ pmsg[p] \in Hands
      /\ \A q, r \in Processors : q # r /\ pmsg'[q] = pmsg'[r] => pmsg'[q] = 0
  BY <1>1, ReleaseHands
<1>3. pmsg[p] \notin ToSet(cachedChan)
  BY <1>2 DEF PlaceInv
<1>4. ToSet(cachedChan') = ToSet(cachedChan) \cup {pmsg[p]} /\ IsInjective(cachedChan')
  BY <1>1, <1>3, AppendOnce DEF PlaceInv
<1>5. Transactions' = Transactions
  BY <1>1, SameStream
<1> QED
  BY <1>1, <1>2, <1>4, <1>5 DEF PlaceInv

\* An eviction moves the oldest transaction of the channel, if there is one.
LEMMA DiscardPlaces ==
    ASSUME TypeOK, PlaceInv, DiscardOldest, UNCHANGED <<stream, grpcChan, pmsg, taken>>
    PROVE  PlaceInv'
<1>1. Transactions' = Transactions /\ Hands' = Hands
  BY SameStream DEF Hands
<1>2. CASE cachedChan = <<>>
  BY <1>1, <1>2 DEF DiscardOldest, PlaceInv
<1>3. CASE cachedChan # <<>>
  <2>0. /\ cachedChan \in Seq(Transactions) /\ IsInjective(cachedChan)
        /\ cachedChan' = Tail(cachedChan)
    BY <1>3 DEF DiscardOldest, PlaceInv, TypeOK
  <2>1. /\ Head(cachedChan) \in ToSet(cachedChan)
        /\ ToSet(cachedChan') = ToSet(cachedChan) \ {Head(cachedChan)}
        /\ IsInjective(cachedChan')
    BY <1>3, <2>0, TailOnce
  <2>2. dropped' = dropped \cup {Head(cachedChan)}
    BY <1>3 DEF DiscardOldest
  <2>3. /\ ToSet(grpcChan') = ToSet(grpcChan) /\ ToSet(taken') = ToSet(taken)
        /\ IsInjective(grpcChan') /\ IsInjective(taken')
        /\ \A p, q \in Processors : p # q /\ pmsg'[p] = pmsg'[q] => pmsg'[p] = 0
    BY DEF PlaceInv
  <2>4. ToSet(cachedChan) \cup dropped = ToSet(cachedChan') \cup dropped'
    BY <2>1, <2>2
  <2>5. ToSet(cachedChan') \cap dropped' = {} /\ ToSet(taken') \cap dropped' = {}
        /\ ToSet(cachedChan') \cap ToSet(taken') = {}
    BY <2>1, <2>2, <2>3 DEF PlaceInv
  <2> QED
    BY <1>1, <2>1, <2>3, <2>4, <2>5 DEF PlaceInv
<1> QED
  BY <1>2, <1>3

\* An Arb takes the oldest transaction of the channel.
LEMMA TakePlaces ==
    ASSUME TypeOK, PlaceInv, NEW r \in Arbs, ArbRecv(r)
    PROVE  PlaceInv'
<1>1. /\ UNCHANGED <<stream, grpcChan, pmsg, dropped>>
      /\ cachedChan \in Seq(Transactions) /\ cachedChan # <<>>
      /\ cachedChan' = Tail(cachedChan)
      /\ taken \in Seq(Transactions) /\ taken' = Append(taken, Head(cachedChan))
  BY DEF ArbRecv, TypeOK, pvars
<1>2. Transactions' = Transactions /\ Hands' = Hands
  BY <1>1, SameStream DEF Hands
<1>3. /\ Head(cachedChan) \in Transactions /\ Head(cachedChan) \in ToSet(cachedChan)
      /\ ToSet(cachedChan') = ToSet(cachedChan) \ {Head(cachedChan)}
      /\ IsInjective(cachedChan')
  BY <1>1, TailOnce DEF PlaceInv
<1>4. Head(cachedChan) \notin ToSet(taken)
  BY <1>3 DEF PlaceInv
<1>5. ToSet(taken') = ToSet(taken) \cup {Head(cachedChan)} /\ IsInjective(taken')
  BY <1>1, <1>3, <1>4, AppendOnce DEF PlaceInv
<1> QED
  BY <1>1, <1>2, <1>3, <1>5 DEF PlaceInv

\* Every other step moves nothing.
LEMMA SamePlaces ==
    ASSUME TypeOK, PlaceInv, UNCHANGED <<stream, grpcChan, pmsg, cachedChan, taken, dropped>>
    PROVE  PlaceInv'
BY SameStream DEF PlaceInv, Hands

LEMMA PlacesStep ==
    ASSUME TypeOK, PlaceInv, [Next]_vars
    PROVE  PlaceInv'
<1>1. CASE Subscriber
  <2>1. CASE SubscriberEnd \/ SubscriberPanic
    BY <2>1, SamePlaces DEF SubscriberEnd, SubscriberPanic, pvars, avars
  <2> QED
    BY <1>1, <2>1, ForwardPlaces DEF Subscriber
<1>2. ASSUME NEW p \in Processors, Processor(p) PROVE PlaceInv'
  <2>1. CASE ProcessorRecv(p)
    BY <2>1, RecvPlaces
  <2>2. CASE ApplyUpdate(p)
    BY <2>2, ApplyPlaces
  <2>3. CASE SendFirst(p)
    <3>1. CASE Enqueue(p)
      BY <2>3, <3>1, EnqueuePlaces DEF SendFirst
    <3>2. CASE FindFull(p, "evict")
      BY <3>2, SamePlaces DEF FindFull, avars
    <3> QED
      BY <2>3, <3>1, <3>2 DEF SendFirst
  <2>4. CASE Resend(p)
    <3>1. CASE Enqueue(p)
      BY <2>4, <3>1, EnqueuePlaces DEF Resend
    <3>2. CASE FindFull(p, "reevict")
      BY <3>2, SamePlaces DEF FindFull, avars
    <3> QED
      BY <2>4, <3>1, <3>2 DEF Resend
  <2>5. CASE EvictFirst(p) \/ EvictAgain(p)
    BY <2>5, DiscardPlaces DEF EvictFirst, EvictAgain, avars
  <2>6. CASE ProcessorDisconnected(p) \/ Spin(p)
    BY <2>6, SamePlaces DEF ProcessorDisconnected, Spin, avars, vars
  <2> QED
    BY <1>2, <2>1, <2>2, <2>3, <2>4, <2>5, <2>6 DEF Processor
<1>3. ASSUME NEW r \in Arbs, Arb(r) PROVE PlaceInv'
  <2>1. CASE ArbRecv(r)
    BY <2>1, TakePlaces
  <2>2. CASE ArbFinish(r) \/ ArbDisconnected(r)
    BY <2>2, SamePlaces DEF ArbFinish, ArbDisconnected, pvars
  <2> QED
    BY <1>3, <2>1, <2>2 DEF Arb
<1>4. CASE Exit
  BY <1>4, SamePlaces DEF Exit, pvars, avars
<1>5. CASE UNCHANGED vars
  BY <1>5, SamePlaces DEF vars
<1> QED
  BY <1>1, <1>2, <1>3, <1>4, <1>5 DEF Next, Stopped

LEMMA PlacesAlways == Spec => [](TypeOK /\ PlaceInv)
<1>1. Init => TypeOK /\ PlaceInv
  BY InitType, InitPlaces
<1>2. (TypeOK /\ PlaceInv) /\ [Next]_vars => (TypeOK /\ PlaceInv)'
  BY NextType, PlacesStep
<1> QED
  BY <1>1, <1>2, PTL DEF Spec

LEMMA PlacesAreOne == TypeOK /\ PlaceInv => ExactlyOnce
<1> SUFFICES ASSUME TypeOK, PlaceInv PROVE ExactlyOnce
  OBVIOUS
<1> DEFINE queued == ToSet(grpcChan) \cap Transactions
           held == (UNION {Held(p) : p \in Processors}) \cap Transactions
           line == taken \o cachedChan
<1>1. taken \in Seq(Transactions) /\ cachedChan \in Seq(Transactions)
  BY DEF TypeOK
<1>2. ToSet(line) = ToSet(taken) \cup ToSet(cachedChan) /\ IsInjective(line)
  <2>1. ToSet(taken) \cap ToSet(cachedChan) = {}
        /\ IsInjective(taken) /\ IsInjective(cachedChan)
    BY DEF PlaceInv
  <2> QED
    BY <1>1, <2>1, ConcatOnce
<1>3. held = Hands \cap Transactions
  BY DEF Hands, Held
<1>4. \A p, q \in Processors : p # q => Held(p) \cap Held(q) = {}
  BY DEF PlaceInv, Held
<1> HIDE DEF line, held
<1>5. ToSet(line) \subseteq Transactions /\ dropped \subseteq Transactions
  BY <1>2, PlacesAreOld
<1>6. Transactions = queued \cup held \cup ToSet(line) \cup dropped
  BY <1>2, <1>3, <1>5 DEF PlaceInv
<1>7. /\ queued \cap (held \cup ToSet(line) \cup dropped) = {}
      /\ held \cap (ToSet(line) \cup dropped) = {}
      /\ ToSet(line) \cap dropped = {}
  BY <1>2, <1>3 DEF PlaceInv
<1> QED
  BY <1>2, <1>4, <1>6, <1>7 DEF ExactlyOnce, line, held

\* Whatever the number of processors, their retries and evictions and the Arbs
\* that receive meanwhile, a transaction of the stream is in exactly one place
\* (MessageProcessor::start, Arb::start).
THEOREM OnePlaceEach == Spec => []ExactlyOnce
BY PlacesAlways, PlacesAreOne, PTL

-----------------------------------------------------------------------------
(* The end of the stream *)

\* Tasks end from the subscriber on: a processor only when the queue is drained
\* and nobody fills it, an Arb only when the processors have ended.
EndInv ==
    /\ \A p \in Processors : ppc[p] = "done" => subscriber = "done" /\ grpcChan = <<>>
    /\ \A r \in Arbs : apc[r] = "done" =>
          cachedChan = <<>> /\ \A p \in Processors : ppc[p] = "done"
    /\ status = "exited" =>
          /\ \A p \in Processors : ppc[p] = "done"
          /\ \A r \in Arbs : apc[r] = "done"

LEMMA EndStep ==
    ASSUME TypeOK, EndInv, [Next]_vars
    PROVE  EndInv'
<1> USE DEF EndInv
<1>1. /\ ppc \in [Processors -> ProcessorState] /\ apc \in [Arbs -> {"recv", "work", "done"}]
  BY DEF TypeOK
<1>2. CASE Subscriber
  BY <1>2 DEF Subscriber, SubscriberForward, SubscriberEnd, SubscriberPanic, pvars, avars, Running
<1>3. ASSUME NEW p \in Processors, Processor(p) PROVE EndInv'
  <2>1. CASE ProcessorRecv(p)
    BY <1>1, <2>1 DEF ProcessorRecv, avars, Running
  <2>2. CASE ProcessorDisconnected(p)
    BY <1>1, <2>2 DEF ProcessorDisconnected, avars, Running
  <2>3. CASE ApplyUpdate(p)
    BY <1>1, <2>3 DEF ApplyUpdate, avars, Running
  <2>4. CASE SendFirst(p)
    BY <1>1, <2>4 DEF SendFirst, Enqueue, FindFull, avars, Running
  <2>5. CASE EvictFirst(p)
    BY <1>1, <2>5 DEF EvictFirst, DiscardOldest, avars, Running
  <2>6. CASE Resend(p)
    BY <1>1, <2>6 DEF Resend, Enqueue, FindFull, avars, Running
  <2>7. CASE EvictAgain(p)
    BY <1>1, <2>7 DEF EvictAgain, DiscardOldest, avars, Running
  <2>8. CASE Spin(p)
    BY <2>8 DEF Spin, vars
  <2> QED
    BY <1>3, <2>1, <2>2, <2>3, <2>4, <2>5, <2>6, <2>7, <2>8 DEF Processor
<1>4. ASSUME NEW r \in Arbs, Arb(r) PROVE EndInv'
  <2>1. CASE ArbRecv(r)
    BY <1>1, <2>1 DEF ArbRecv, pvars, Running
  <2>2. CASE ArbFinish(r)
    BY <1>1, <2>2 DEF ArbFinish, pvars, Running
  <2>3. CASE ArbDisconnected(r)
    BY <1>1, <2>3 DEF ArbDisconnected, pvars, Running
  <2> QED
    BY <1>4, <2>1, <2>2, <2>3 DEF Arb
<1>5. CASE Exit
  BY <1>5 DEF Exit, AllDone, pvars, avars
<1>6. CASE UNCHANGED vars
  BY <1>6 DEF vars
<1> QED
  BY <1>2, <1>3, <1>4, <1>5, <1>6 DEF Next, Stopped

LEMMA EndIsClean ==
    ASSUME TypeOK, PlaceInv, EndInv, Arbs # {}
    PROVE  NothingLeftAtExit
<1>1. \A r \in Arbs : apc[r] = "done" => grpcChan = <<>> /\ cachedChan = <<>>
  BY PipelineAssumption DEF EndInv
<1>2. ASSUME status = "exited" PROVE Transactions = ToSet(taken) \cup dropped
  <2>1. grpcChan = <<>> /\ cachedChan = <<>> /\ \A p \in Processors : ppc[p] = "done"
    BY <1>2, PipelineAssumption DEF EndInv
  <2>2. \A p \in Processors : pmsg[p] = 0
    BY <2>1 DEF TypeOK
  <2>3. Hands = {}
    BY <2>2 DEF Hands
  <2>4. ToSet(grpcChan) = {} /\ ToSet(cachedChan) = {}
    BY <2>1, InToSet DEF TypeOK
  <2> QED
    BY <2>3, <2>4, PlacesAreOld DEF PlaceInv
<1> QED
  BY <1>1, <1>2 DEF NothingLeftAtExit

\* With at least one Arb, whatever the number of processors, the process ends on
\* its own only when every transaction was received or evicted, and an Arb that
\* sees the channel disconnected leaves nothing in it (start_with_custom).
THEOREM ExitLeavesNothing ==
    ASSUME Arbs # {}
    PROVE  Spec => []NothingLeftAtExit
<1>1. Init => EndInv
  BY DEF Init, EndInv
<1>2. TypeOK /\ EndInv /\ [Next]_vars => EndInv'
  BY EndStep
<1>3. TypeOK /\ PlaceInv /\ EndInv => NothingLeftAtExit
  BY EndIsClean
<1> QED
  BY <1>1, <1>2, <1>3, PlacesAlways, PTL DEF Spec

-----------------------------------------------------------------------------
(* The pipeline implements the lossy feed *)

\* The bounded channel is in stream order, and what a processor receives as an
\* update is of a subscribed account.
LineInv ==
    /\ \A k, l \in 1..Len(cachedChan) : k < l => cachedChan[k] < cachedChan[l]
    /\ \A y \in Position :
          /\ Queued(y) \/ (\E p \in Processors : pmsg[p] = y)
          /\ stream[y].kind = "account"
          => stream[y].account \in Subscribed

LEMMA QueuedIsIn ==
    ASSUME TypeOK
    PROVE  \A x : Queued(x) <=> x \in ToSet(grpcChan)
<1>1. DOMAIN grpcChan = 1..Len(grpcChan)
  BY LenProperties DEF TypeOK
<1> QED
  BY <1>1 DEF Queued, ToSet

LEMMA SubscriberLine ==
    ASSUME TypeOK, LineInv, NEW c \in Content, SubscriberForward(c)
    PROVE  LineInv'
<1> DEFINE n == Len(stream) + 1
<1>1. /\ \A i \in Position : stream'[i] = stream[i]
      /\ Position' = Position \cup {n} /\ n \notin Position
      /\ Position \subseteq Position'
      /\ stream'[n] = c
  <2>1. stream \in Seq(Content) /\ stream' = Append(stream, c)
    BY DEF SubscriberForward, TypeOK
  <2> QED
    BY <2>1, StreamGrows, AppendProperties, LenProperties DEF Position
<1> HIDE DEF n
<1>2. cachedChan' = cachedChan /\ pmsg' = pmsg
  BY DEF SubscriberForward, pvars
<1>3. \A p \in Processors : pmsg[p] \in Position \cup {0}
  BY DEF TypeOK
<1>4. \A x : Queued(x) => x \in Position
  BY QueuedIsIn, PlacesAreOld
<1>5. CASE grpcChan' = grpcChan
  <2>1. \A x : Queued(x)' <=> Queued(x)
    BY <1>5 DEF Queued
  <2>2. n # 0
    BY LenProperties DEF n, TypeOK
  <2> QED
    BY <1>1, <1>2, <1>3, <1>4, <2>1, <2>2 DEF LineInv
<1>6. CASE grpcChan' = Append(grpcChan, n) /\ (c.kind = "account" => c.account \in Subscribed)
  <2>1. grpcChan \in Seq(Position') /\ n \in Position'
    BY <1>1, SeqMonotonic DEF TypeOK
  <2>2. \A x : Queued(x)' => Queued(x) \/ x = n
    BY <1>6, <2>1, AppendProperties, LenProperties DEF Queued
  <2>3. n # 0
    BY LenProperties DEF n, TypeOK
  <2> QED
    BY <1>1, <1>2, <1>3, <1>4, <1>6, <2>2, <2>3 DEF LineInv
<1> QED
  BY <1>5, <1>6 DEF SubscriberForward, n

\* Steps that append nothing to the bounded channel.
LEMMA ShorterLine ==
    ASSUME TypeOK, LineInv, stream' = stream,
           cachedChan' = cachedChan \/ (cachedChan # <<>> /\ cachedChan' = Tail(cachedChan)),
           \A x \in Position : Queued(x)' \/ (\E p \in Processors : pmsg'[p] = x)
                => Queued(x) \/ (\E p \in Processors : pmsg[p] = x)
    PROVE  LineInv'
<1>1. Position' = Position
  BY DEF Position
<1>2. \A k, l \in 1..Len(cachedChan') : k < l => cachedChan'[k] < cachedChan'[l]
  <2>1. CASE cachedChan' = cachedChan
    BY <2>1 DEF LineInv
  <2>2. CASE cachedChan # <<>> /\ cachedChan' = Tail(cachedChan)
    <3>1. /\ Len(cachedChan') = Len(cachedChan) - 1 /\ Len(cachedChan) \in Nat
          /\ \A k \in 1..Len(cachedChan') : cachedChan'[k] = cachedChan[k + 1]
      BY <2>2, HeadTailProperties, LenProperties DEF TypeOK
    <3>2. \A k \in 1..Len(cachedChan') : k + 1 \in 1..Len(cachedChan)
      BY <3>1
    <3> QED
      BY <3>1, <3>2 DEF LineInv
  <2> QED
    BY <2>1, <2>2
<1> QED
  BY <1>1, <1>2 DEF LineInv

\* What a processor appends follows all that is in the channel.
LEMMA EnqueueLine ==
    ASSUME NEW q, Processors = {q}, OrderedInv, LineInv, ppc[q] \in {"send", "resend"},
           Enqueue(q)
    PROVE  LineInv'
<1>1. /\ pmsg[q] \in Transactions /\ pmsg[q] \in Position /\ pmsg[q] # 0
      /\ cachedChan \in Seq(Transactions) /\ cachedChan' = Append(cachedChan, pmsg[q])
      /\ Position' = Position /\ stream' = stream
      /\ \A x : Queued(x)' <=> Queued(x)
      /\ pmsg' = [pmsg EXCEPT ![q] = 0] /\ pmsg \in [Processors -> Position \cup {0}]
      /\ 0 \notin Position
  BY DEF Enqueue, OrderedInv, TypeOK, Transactions, Position, Queued
<1>2. /\ Len(cachedChan') = Len(cachedChan) + 1 /\ Len(cachedChan) \in Nat
      /\ \A k \in 1..Len(cachedChan) : cachedChan'[k] = cachedChan[k]
      /\ cachedChan'[Len(cachedChan) + 1] = pmsg[q]
  BY <1>1, AppendProperties, LenProperties
<1>3. \A k \in 1..Len(cachedChan) : cachedChan[k] < pmsg[q]
  <2> SUFFICES ASSUME NEW k \in 1..Len(cachedChan) PROVE cachedChan[k] < pmsg[q]
    OBVIOUS
  <2>1. cachedChan[k] \in Transactions /\ Passed(cachedChan[k])
    BY <1>1, ElementOfSeq DEF Passed
  <2> QED
    BY <1>1, <2>1 DEF OrderedInv, OrderInv, Transactions
<1>4. \A k, l \in 1..Len(cachedChan') : k < l => cachedChan'[k] < cachedChan'[l]
  BY <1>2, <1>3 DEF LineInv
<1>5. \A p \in Processors : pmsg'[p] = 0
  BY <1>1
<1> QED
  BY <1>1, <1>4, <1>5 DEF LineInv

LEMMA LineStep ==
    ASSUME NEW q, Processors = {q}, OrderedInv, LineInv, [Next]_vars
    PROVE  LineInv'
<1> USE DEF OrderedInv
<1>1. CASE Subscriber
  <2>1. CASE SubscriberEnd \/ SubscriberPanic
    BY <2>1, ShorterLine DEF SubscriberEnd, SubscriberPanic, pvars, avars, Queued
  <2> QED
    BY <1>1, <2>1, SubscriberLine DEF Subscriber
<1>2. CASE Processor(q)
  <2>0. pmsg \in [Processors -> Position \cup {0}] /\ 0 \notin Position
    BY DEF TypeOK, Position
  <2>1. CASE ProcessorRecv(q)
    <3>1. /\ grpcChan \in Seq(Position) /\ grpcChan # <<>> /\ grpcChan' = Tail(grpcChan)
          /\ pmsg' = [pmsg EXCEPT ![q] = Head(grpcChan)]
          /\ stream' = stream /\ cachedChan' = cachedChan
      BY <2>1 DEF ProcessorRecv, TypeOK
    <3>2. /\ Len(grpcChan') = Len(grpcChan) - 1 /\ Len(grpcChan) \in Nat
          /\ \A k \in 1..Len(grpcChan') : grpcChan'[k] = grpcChan[k + 1]
          /\ Head(grpcChan) = grpcChan[1] /\ Len(grpcChan) > 0
      BY <3>1, HeadTailProperties, LenProperties, EmptySeq
    <3>3. \A k \in 1..Len(grpcChan') : k + 1 \in 1..Len(grpcChan)
      BY <3>2
    <3>4. \A x : Queued(x)' => Queued(x)
      BY <3>2, <3>3 DEF Queued
    <3>5. Queued(Head(grpcChan))
      BY <3>2 DEF Queued
    <3>6. \A p \in Processors : pmsg'[p] = Head(grpcChan)
      BY <2>0, <3>1
    <3> QED
      BY <3>1, <3>4, <3>5, <3>6, ShorterLine
  <2>2. CASE ApplyUpdate(q)
    <3>1. \A p \in Processors : pmsg'[p] = 0
      BY <2>0, <2>2 DEF ApplyUpdate
    <3> QED
      BY <2>0, <2>2, <3>1, ShorterLine DEF ApplyUpdate, Queued
  <2>3. CASE SendFirst(q)
    BY <2>3, EnqueueLine, ShorterLine DEF SendFirst, FindFull, Queued
  <2>4. CASE Resend(q)
    BY <2>4, EnqueueLine, ShorterLine DEF Resend, FindFull, Queued
  <2>5. CASE EvictFirst(q) \/ EvictAgain(q)
    BY <2>5, ShorterLine DEF EvictFirst, EvictAgain, DiscardOldest, Queued
  <2>6. CASE ProcessorDisconnected(q) \/ Spin(q)
    BY <2>6, ShorterLine DEF ProcessorDisconnected, Spin, vars, Queued
  <2> QED
    BY <1>2, <2>1, <2>2, <2>3, <2>4, <2>5, <2>6 DEF Processor
<1>3. ASSUME NEW r \in Arbs, Arb(r) PROVE LineInv'
  BY <1>3, ShorterLine DEF Arb, ArbRecv, ArbFinish, ArbDisconnected, pvars, Queued
<1>4. CASE Exit \/ UNCHANGED vars
  BY <1>4, ShorterLine DEF Exit, pvars, vars, Queued
<1> QED
  BY <1>1, <1>2, <1>3, <1>4 DEF Next, Stopped

\* What is in flight, and what its oldest transaction is.
LEMMA InFlightIs ==
    /\ InFlight = (ToSet(grpcChan) \cup Hands \cup ToSet(cachedChan)) \cap Transactions
    /\ InFlight' = (ToSet(grpcChan') \cup Hands' \cup ToSet(cachedChan')) \cap Transactions'
<1>1. UNION {Held(p) : p \in Processors} = Hands
  BY DEF Held, Hands
<1>2. UNION {Held(p)' : p \in Processors} = Hands'
  BY DEF Held, Hands
<1> QED
  BY <1>1, <1>2 DEF InFlight, ToSet

LEMMA HeadIsOldest ==
    ASSUME OrderedInv, LineInv, PlaceInv, cachedChan # <<>>
    PROVE  /\ Head(cachedChan) \in Transactions /\ Passed(Head(cachedChan))
           /\ Feed!Oldest(Head(cachedChan))
<1> DEFINE h == Head(cachedChan)
<1>1. /\ cachedChan \in Seq(Transactions)
      /\ Len(cachedChan) \in Nat \ {0} /\ h = cachedChan[1] /\ h \in Transactions
  BY HeadTailProperties, LenProperties, EmptySeq DEF OrderedInv, TypeOK
<1>2. Passed(h) /\ h \in ToSet(cachedChan)
  BY <1>1, InToSet DEF Passed
<1> HIDE DEF h
<1>3. Transactions \subseteq Position /\ Position \subseteq Nat
  BY DEF Transactions, Position
<1>4. ASSUME NEW j \in InFlight PROVE h <= j
  <2>1. /\ j \in Position
        /\ Queued(j) \/ j \in Hands \/ j \in ToSet(cachedChan)
    BY <1>3, InFlightIs, QueuedIsIn DEF OrderedInv
  <2>0. h \in Position /\ h \in Nat /\ j \in Nat
    BY <1>1, <1>3, <2>1
  <2>2. CASE Queued(j)
    <3>1. h < j
      BY <1>2, <2>0, <2>1, <2>2 DEF OrderedInv, OrderInv
    <3> QED
      BY <2>0, <3>1
  <2>3. CASE j \in Hands
    <3>1. PICK p \in Processors : pmsg[p] = j /\ j # 0
      BY <2>3 DEF Hands
    <3>2. h < j
      BY <1>2, <2>0, <3>1 DEF OrderedInv, OrderInv
    <3> QED
      BY <2>0, <3>2
  <2>4. CASE j \in ToSet(cachedChan)
    <3>1. PICK k \in 1..Len(cachedChan) : cachedChan[k] = j
      BY <1>1, <2>4, InToSet
    <3>2. k = 1 \/ cachedChan[1] < cachedChan[k]
      BY <1>1 DEF LineInv
    <3> QED
      BY <1>1, <2>0, <3>1, <3>2
  <2> QED
    BY <2>1, <2>2, <2>3, <2>4
<1>5. h \in InFlight
  BY <1>1, <1>2, InFlightIs
<1> QED
  BY <1>1, <1>2, <1>4, <1>5 DEF Feed!Oldest, h

\* The updates before a transaction that has left the processor are in the cache.
LEMMA PassedIsInformed ==
    ASSUME OrderedInv, NEW i \in Position, Passed(i)
    PROVE  Feed!Informed(i)
<1> SUFFICES ASSUME NEW j \in 1..(i - 1), NEW a \in Accounts, Refreshes(j, a)
             PROVE  cache[a] >= j
  BY DEF Feed!Informed, Feed!Refreshes, Refreshes
<1>1. j \in Position /\ j < i
  BY LenProperties DEF Position, OrderedInv, TypeOK
<1>2. ~Queued(j)
  BY <1>1 DEF OrderedInv, OrderInv, Position
<1>3. \A p \in Processors : pmsg[p] # j
  BY <1>1 DEF OrderedInv, OrderInv, Position
<1> QED
  BY <1>1, <1>2, <1>3 DEF OrderedInv, UpdatesInv

\* A message the subscriber takes from the stream is offered to the feed, also
\* when it is of no interest.
LEMMA ForwardOffers ==
    ASSUME OrderedInv, NEW c \in Content, SubscriberForward(c)
    PROVE  Feed!Next
<1> USE DEF OrderedInv
<1> DEFINE n == Len(stream) + 1
<1>1. /\ \A i \in Position : stream'[i] = stream[i]
      /\ Position' = Position \cup {n} /\ n \notin Position
      /\ stream'[n] = c
  <2>1. stream \in Seq(Content) /\ stream' = Append(stream, c)
    BY DEF SubscriberForward, TypeOK
  <2> QED
    BY <2>1, StreamGrows, AppendProperties, LenProperties DEF Position
<1>2. /\ stream' = Append(stream, c) /\ status = "running"
      /\ UNCHANGED <<pmsg, cachedChan, taken, cache, status>>
  BY DEF SubscriberForward, Running, pvars, avars
<1>3. TypeOK'
  BY NextType DEF Next, Subscriber
<1> HIDE DEF n
<1>4. /\ Transactions' \subseteq Transactions \cup {n} /\ Transactions \subseteq Transactions'
      /\ n \in Transactions' <=> c.kind = "transaction"
      /\ n \notin Transactions
  BY <1>1 DEF Transactions, IsTransaction
<1>5. Hands' = Hands
  BY <1>2 DEF Hands
<1>6. n \notin ToSet(grpcChan) \cup Hands \cup ToSet(cachedChan)
  BY <1>1, PlacesAreOld DEF Transactions
<1>7. /\ ToSet(grpcChan') \subseteq ToSet(grpcChan) \cup {n} /\ ToSet(grpcChan) \subseteq ToSet(grpcChan')
      /\ c.kind = "transaction" => n \in ToSet(grpcChan')
  <2>1. CASE grpcChan' = grpcChan /\ c.kind = "account"
    BY <2>1
  <2>2. CASE grpcChan' = Append(grpcChan, n)
    <3>1. grpcChan \in Seq(Position') /\ n \in Position'
      BY <1>1, SeqMonotonic DEF TypeOK
    <3>2. /\ grpcChan' \in Seq(Position')
          /\ Len(grpcChan') = Len(grpcChan) + 1 /\ Len(grpcChan) \in Nat
          /\ \A k \in 1..Len(grpcChan) : grpcChan'[k] = grpcChan[k]
          /\ grpcChan'[Len(grpcChan) + 1] = n
      BY <2>2, <3>1, AppendProperties, LenProperties
    <3>3. DOMAIN grpcChan = 1..Len(grpcChan) /\ DOMAIN grpcChan' = 1..(Len(grpcChan) + 1)
      BY <3>1, <3>2, LenProperties
    <3>4. \A k \in DOMAIN grpcChan' : k \in DOMAIN grpcChan \/ k = Len(grpcChan) + 1
      BY <3>2, <3>3
    <3>5. DOMAIN grpcChan \subseteq DOMAIN grpcChan' /\ Len(grpcChan) + 1 \in DOMAIN grpcChan'
      BY <3>2, <3>3
    <3> QED
      BY <3>2, <3>3, <3>4, <3>5 DEF ToSet
  <2> QED
    BY <2>1, <2>2 DEF SubscriberForward, n
<1>8. InFlight' = IF c.kind = "transaction" THEN InFlight \cup {n} ELSE InFlight
  <2>1. InFlight = (ToSet(grpcChan) \cup Hands \cup ToSet(cachedChan)) \cap Transactions
    BY InFlightIs
  <2>2. InFlight' = (ToSet(grpcChan') \cup Hands' \cup ToSet(cachedChan')) \cap Transactions'
    BY InFlightIs
  <2> QED
    BY <1>2, <1>4, <1>5, <1>6, <1>7, <2>1, <2>2
<1>9. Feed!Offer(c)
  BY <1>2, <1>8 DEF Feed!Offer, n
<1>10. c \in Feed!Content
  BY DEF Feed!Content, Content
<1> QED
  BY <1>2, <1>9, <1>10 DEF Feed!Next

\* What every other step leaves in flight.
LEMMA SameFlight ==
    ASSUME TypeOK, TypeOK', stream' = stream,
           ToSet(grpcChan') \cup Hands' \cup ToSet(cachedChan')
              = ToSet(grpcChan) \cup Hands \cup ToSet(cachedChan)
    PROVE  InFlight' = InFlight
<1>1. Transactions' = Transactions
  BY SameStream
<1>2. InFlight' = (ToSet(grpcChan') \cup Hands' \cup ToSet(cachedChan')) \cap Transactions'
  BY InFlightIs
<1> QED
  BY <1>1, <1>2, InFlightIs

\* The transaction at the head of the bounded channel leaves the flight.
LEMMA HeadLeaves ==
    ASSUME TypeOK, TypeOK', PlaceInv, cachedChan # <<>>, cachedChan' = Tail(cachedChan),
           UNCHANGED <<stream, grpcChan, pmsg>>
    PROVE  InFlight' = InFlight \ {Head(cachedChan)}
<1>1. Transactions' = Transactions /\ Hands' = Hands
  BY SameStream DEF Hands
<1>2. /\ Head(cachedChan) \in ToSet(cachedChan)
      /\ ToSet(cachedChan') = ToSet(cachedChan) \ {Head(cachedChan)}
  BY TailOnce DEF PlaceInv, TypeOK
<1>3. InFlight' = (ToSet(grpcChan') \cup Hands' \cup ToSet(cachedChan')) \cap Transactions'
  BY InFlightIs
<1>4. Head(cachedChan) \notin ToSet(grpcChan) \cup Hands
  BY <1>2 DEF PlaceInv
<1> QED
  BY <1>1, <1>2, <1>3, <1>4, InFlightIs

\* An eviction loses the oldest transaction in flight, and the one the processor
\* holds is newer.
LEMMA EvictionLoses ==
    ASSUME OrderedInv, LineInv, PlaceInv, TypeOK', NEW p \in Processors, ppc[p] \in {"evict", "reevict"},
           Running, DiscardOldest, UNCHANGED <<stream, grpcChan, pmsg, taken, cache, status>>
    PROVE  [Feed!Next]_(Feed!vars)
<1> USE DEF OrderedInv
<1>1. CASE cachedChan = <<>>
  <2>1. cachedChan' = cachedChan
    BY <1>1 DEF DiscardOldest
  <2>2. InFlight' = InFlight
    BY <2>1, SameFlight DEF Hands
  <2> QED
    BY <2>2 DEF Feed!vars
<1>2. CASE cachedChan # <<>>
  <2>1. cachedChan' = Tail(cachedChan)
    BY <1>2 DEF DiscardOldest
  <2>2. InFlight' = InFlight \ {Head(cachedChan)}
    BY <1>2, <2>1, HeadLeaves
  <2>3. Feed!Oldest(Head(cachedChan)) /\ Passed(Head(cachedChan)) /\ Head(cachedChan) \in Transactions
    BY <1>2, HeadIsOldest
  <2>4. pmsg[p] \in Hands /\ pmsg[p] \in Transactions
    BY DEF TypeOK, Hands, Transactions
  <2>5. pmsg[p] \in InFlight /\ pmsg[p] # Head(cachedChan)
    <3>1. Head(cachedChan) \in ToSet(cachedChan)
      BY <1>2, TailOnce DEF PlaceInv, TypeOK
    <3> QED
      BY <2>4, <3>1, InFlightIs DEF PlaceInv
  <2>6. Feed!Lose(Head(cachedChan))
    BY <2>2, <2>3, <2>5 DEF Feed!Lose
  <2>7. Head(cachedChan) \in InFlight
    BY <2>3 DEF Feed!Oldest
  <2> QED
    BY <2>6, <2>7 DEF Feed!Next, Feed!Settle, Running
<1> QED
  BY <1>1, <1>2

\* An Arb is delivered the oldest transaction in flight, when the updates before
\* it are in the cache.
LEMMA ReceiptDelivers ==
    ASSUME OrderedInv, LineInv, PlaceInv, TypeOK', NEW r \in Arbs, ArbRecv(r)
    PROVE  Feed!Next
<1> USE DEF OrderedInv
<1>1. /\ Running /\ cachedChan # <<>> /\ cachedChan' = Tail(cachedChan)
      /\ taken' = Append(taken, Head(cachedChan))
      /\ status' = IF stream[Head(cachedChan)].complete THEN status ELSE "aborted"
      /\ UNCHANGED <<stream, grpcChan, pmsg, cache>>
  BY DEF ArbRecv, pvars
<1>2. InFlight' = InFlight \ {Head(cachedChan)}
  BY <1>1, HeadLeaves
<1>3. Feed!Oldest(Head(cachedChan)) /\ Passed(Head(cachedChan)) /\ Head(cachedChan) \in Position
  BY <1>1, HeadIsOldest DEF Transactions
<1>4. Feed!Informed(Head(cachedChan))
  BY <1>3, PassedIsInformed
<1>5. Feed!Deliver(Head(cachedChan))
  BY <1>1, <1>2, <1>3, <1>4 DEF Feed!Deliver
<1>6. Head(cachedChan) \in InFlight
  BY <1>3 DEF Feed!Oldest
<1> QED
  BY <1>1, <1>5, <1>6 DEF Feed!Next, Feed!Settle, Running

\* An update that is applied moves the view of its account forward.
LEMMA ApplyRefreshes ==
    ASSUME NEW q, Processors = {q}, OrderedInv, LineInv, PlaceInv, TypeOK', ApplyUpdate(q)
    PROVE  [Feed!Next]_(Feed!vars)
<1> USE DEF OrderedInv
<1> DEFINE a == stream[pmsg[q]].account
<1>1. /\ Running /\ pmsg[q] \in Position /\ ~IsTransaction(pmsg[q])
      /\ pmsg' = [pmsg EXCEPT ![q] = 0]
      /\ UNCHANGED <<stream, grpcChan, cachedChan, taken, status>>
      /\ cache' = IF stream[pmsg[q]].sliceable THEN [cache EXCEPT ![a] = pmsg[q]] ELSE cache
  BY DEF ApplyUpdate, TypeOK, avars
<1>2. InFlight' = InFlight
  <2>1. Hands' = Hands \ {pmsg[q]} /\ pmsg[q] # 0
    BY <1>1, ReleaseHands DEF Position
  <2>2. pmsg[q] \notin Transactions /\ Transactions' = Transactions
    BY <1>1, SameStream DEF Transactions
  <2>3. InFlight' = (ToSet(grpcChan') \cup Hands' \cup ToSet(cachedChan')) \cap Transactions'
    BY InFlightIs
  <2> QED
    BY <1>1, <2>1, <2>2, <2>3, InFlightIs
<1>3. stream[pmsg[q]] \in Content
  BY <1>1, ElementOfSeq DEF TypeOK, Position
<1>4. stream[pmsg[q]].kind = "account" /\ a \in Accounts
  BY <1>1, <1>3 DEF Content, IsTransaction
<1>5. a \in Subscribed
  BY <1>1, <1>4 DEF LineInv
<1>6. cache[a] < pmsg[q]
  <2>1. Passed(cache[a]) /\ cache[a] \in Position \cup {0}
    BY <1>4 DEF Passed, TypeOK
  <2> QED
    BY <1>1, <2>1 DEF OrderInv, Position
<1>7. CASE stream[pmsg[q]].sliceable
  <2>1. Feed!Refresh(pmsg[q], a)
    BY <1>1, <1>2, <1>4, <1>5, <1>6, <1>7 DEF Feed!Refresh, Feed!Refreshes
  <2>2. pmsg[q] \in DOMAIN stream
    BY <1>1, LenProperties DEF Position, TypeOK
  <2> QED
    BY <1>1, <1>4, <2>1, <2>2 DEF Feed!Next, Running
<1>8. CASE ~stream[pmsg[q]].sliceable
  BY <1>1, <1>2, <1>8 DEF Feed!vars
<1> QED
  BY <1>7, <1>8

\* Taking a message from the queue and sending it on keeps it in flight.
LEMMA MovesInFlight ==
    ASSUME TypeOK, TypeOK', PlaceInv, NEW p \in Processors,
           ProcessorRecv(p) \/ (ppc[p] \in {"send", "resend"} /\ Enqueue(p))
    PROVE  UNCHANGED Feed!vars
<1>1. CASE ProcessorRecv(p)
  <2>1. /\ grpcChan \in Seq(Position) /\ grpcChan # <<>> /\ grpcChan' = Tail(grpcChan)
        /\ pmsg \in [Processors -> Position \cup {0}] /\ pmsg[p] = 0
        /\ pmsg' = [pmsg EXCEPT ![p] = Head(grpcChan)]
        /\ UNCHANGED <<stream, cachedChan, taken, cache, status>>
    BY <1>1 DEF ProcessorRecv, TypeOK, avars
  <2>2. /\ Head(grpcChan) \in Position /\ Head(grpcChan) \in ToSet(grpcChan)
        /\ ToSet(grpcChan') = ToSet(grpcChan) \ {Head(grpcChan)}
    BY <2>1, TailOnce DEF PlaceInv
  <2>3. Hands' = Hands \cup {Head(grpcChan)}
    BY <2>1, <2>2 DEF Hands, Position
  <2>4. InFlight' = InFlight
    BY <2>1, <2>2, <2>3, SameFlight
  <2> QED
    BY <2>1, <2>4 DEF Feed!vars
<1>2. CASE ppc[p] \in {"send", "resend"} /\ Enqueue(p)
  <2>1. /\ pmsg[p] # 0 /\ pmsg[p] \in Transactions /\ pmsg' = [pmsg EXCEPT ![p] = 0]
        /\ UNCHANGED <<stream, grpcChan, taken, cache, status>>
        /\ cachedChan \in Seq(Transactions) /\ cachedChan' = Append(cachedChan, pmsg[p])
    BY <1>2 DEF Enqueue, TypeOK, avars, Transactions
  <2>2. Hands' = Hands \ {pmsg[p]} /\ pmsg[p] \in Hands
    BY <2>1, ReleaseHands
  <2>3. ToSet(cachedChan') = ToSet(cachedChan) \cup {pmsg[p]}
    BY <2>1, <2>2, AppendOnce DEF PlaceInv
  <2>4. InFlight' = InFlight
    BY <2>1, <2>2, <2>3, SameFlight
  <2> QED
    BY <2>1, <2>4 DEF Feed!vars
<1> QED
  BY <1>1, <1>2

\* Nothing is in flight when the process exits.
LEMMA ExitIsClean ==
    ASSUME TypeOK, TypeOK', PlaceInv, EndInv, Arbs # {}, Exit
    PROVE  Feed!Next
<1>1. /\ \A p \in Processors : ppc[p] = "done"
      /\ grpcChan = <<>> /\ cachedChan = <<>>
  BY PipelineAssumption DEF Exit, AllDone, EndInv
<1>2. \A p \in Processors : pmsg[p] = 0
  BY <1>1 DEF TypeOK
<1>3. InFlight = {}
  <2>1. Hands = {}
    BY <1>2 DEF Hands
  <2>2. ToSet(grpcChan) = {} /\ ToSet(cachedChan) = {}
    BY <1>1, InToSet DEF TypeOK
  <2> QED
    BY <2>1, <2>2, InFlightIs
<1>4. InFlight' = InFlight
  BY SameFlight DEF Exit, pvars, avars, Hands
<1> QED
  BY <1>3, <1>4 DEF Exit, Running, avars, Feed!Next, Feed!Exit

FeedInv == OrderedInv /\ LineInv /\ PlaceInv /\ EndInv

LEMMA FeedStep ==
    ASSUME NEW q, Processors = {q}, Arbs # {}, FeedInv, [Next]_vars
    PROVE  [Feed!Next]_(Feed!vars)
<1> USE DEF FeedInv, OrderedInv
<1>1. TypeOK'
  BY NextType
<1>2. ASSUME UNCHANGED <<stream, grpcChan, pmsg, cachedChan, taken, cache, status>>
      PROVE  UNCHANGED Feed!vars
  BY <1>1, <1>2, SameFlight DEF Hands, Feed!vars
<1>3. CASE Subscriber
  <2>1. CASE SubscriberEnd
    BY <1>2, <2>1 DEF SubscriberEnd, pvars, avars
  <2>2. CASE SubscriberPanic
    <3>1. InFlight' = InFlight
      BY <1>1, <2>2, SameFlight DEF SubscriberPanic, pvars, Hands
    <3> QED
      BY <2>2, <3>1 DEF SubscriberPanic, Running, avars, Feed!Next, Feed!Abort
  <2> QED
    BY <1>3, <2>1, <2>2, ForwardOffers DEF Subscriber
<1>4. CASE Processor(q)
  <2>1. CASE ProcessorRecv(q)
    BY <1>1, <2>1, MovesInFlight
  <2>2. CASE ApplyUpdate(q)
    BY <1>1, <2>2, ApplyRefreshes
  <2>3. CASE SendFirst(q)
    BY <1>1, <1>2, <2>3, MovesInFlight DEF SendFirst, FindFull, avars
  <2>4. CASE Resend(q)
    BY <1>1, <1>2, <2>4, MovesInFlight DEF Resend, FindFull, avars
  <2>5. CASE EvictFirst(q) \/ EvictAgain(q)
    BY <1>1, <2>5, EvictionLoses DEF EvictFirst, EvictAgain, avars
  <2>6. CASE ProcessorDisconnected(q) \/ Spin(q)
    BY <1>2, <2>6 DEF ProcessorDisconnected, Spin, avars, vars
  <2> QED
    BY <1>4, <2>1, <2>2, <2>3, <2>4, <2>5, <2>6 DEF Processor
<1>5. ASSUME NEW r \in Arbs, Arb(r) PROVE [Feed!Next]_(Feed!vars)
  <2>1. CASE ArbRecv(r)
    BY <1>1, <2>1, ReceiptDelivers
  <2>2. CASE ArbFinish(r) \/ ArbDisconnected(r)
    BY <1>2, <2>2 DEF ArbFinish, ArbDisconnected, pvars
  <2> QED
    BY <1>5, <2>1, <2>2 DEF Arb
<1>6. CASE Exit
  BY <1>1, <1>6, ExitIsClean
<1>7. CASE UNCHANGED vars
  BY <1>2, <1>7 DEF vars
<1> QED
  BY <1>3, <1>4, <1>5, <1>6, <1>7 DEF Next, Stopped

\* In the default configuration, whatever the number of Arbs, accounts and
\* messages and the capacity: Arbs receive transactions in stream order, each
\* after the updates before it are in the cache, and an eviction loses only the
\* oldest transaction in flight, when a newer one follows it: the safety part of
\* LossyFeed (MessageProcessor::start, Arb::start).
THEOREM PipelineIsAFeed ==
    ASSUME NEW q, Processors = {q}, Arbs # {}
    PROVE  Spec => Feed!Init /\ [][Feed!Next]_(Feed!vars)
<1>1. Init => Feed!Init
  <2> SUFFICES ASSUME Init PROVE Feed!Init
    OBVIOUS
  <2>1. Len(stream) = 0
    BY EmptySeq DEF Init
  <2>2. Transactions = {}
    BY <2>1 DEF Transactions, Position
  <2> QED
    BY <2>2 DEF Init, Feed!Init, InFlight
<1>2. Init => FeedInv
  <2> SUFFICES ASSUME Init PROVE FeedInv
    OBVIOUS
  <2>1. Len(cachedChan) = 0 /\ Len(stream) = 0
    BY EmptySeq DEF Init
  <2>2. LineInv
    BY <2>1 DEF LineInv, Position
  <2>3. EndInv
    BY DEF Init, EndInv
  <2> QED
    BY <2>2, <2>3, InitType, InitOrdered, InitPlaces DEF FeedInv, OrderedInv
<1>3. FeedInv /\ [Next]_vars => FeedInv'
  BY OrderedStep, LineStep, PlacesStep, EndStep DEF FeedInv, OrderedInv
<1>4. FeedInv /\ [Next]_vars => [Feed!Next]_(Feed!vars)
  BY FeedStep
<1> QED
  BY <1>1, <1>2, <1>3, <1>4, PTL DEF Spec
=============================================================================
