------------------------ MODULE KeeperPipeline_proofs -------------------------
(***************************************************************************)
(* The Keeper from the submitted order to the settled one, for any orders, *)
(* indices, amounts, blocks and retries: first the accumulator alone, then *)
(* the pipeline on it, where the tasks of any number of batches run at     *)
(* once, transactions are mined late, twice or never, and receipts are     *)
(* lost.                                                                   *)
(*                                                                         *)
(* Of the accumulator, TypeOK is inductive.  The safety properties rest on *)
(* Inv, which relates the current batch to the flushed ones (what is       *)
(* flushed is older than what is in the batch) and the block numbers to    *)
(* each other (a batch never knows a block the atomic does not), and says  *)
(* what the receiver knows between its should_flush() and its              *)
(* flush_batch().                                                          *)
(*                                                                         *)
(* The inductive invariant PInv adds to the accumulator's what each task   *)
(* knows: its program counter tells which flusher spawned it (TaskOK), of  *)
(* a settled batch every order is still to do or has its one result        *)
(* (Accounted), the transaction being sent is for an order still to do     *)
(* (CurOK), and every transaction agrees with the task that sent it        *)
(* (TxOK).  The refinement of OrderLifecycle follows from where PInv says  *)
(* an order can be.                                                        *)
(***************************************************************************)
EXTENDS KeeperPipeline, TLAPS

-----------------------------------------------------------------------------
(* The operators on batches *)

\* OrderBatch::is_empty() says that the batch holds no order.
LEMMA IsEmptyOrders ==
    ASSUME NEW b
    PROVE  IsEmpty(b) <=> BatchOrders(b) = {}
BY DEF IsEmpty, BatchOrders

\* A new batch is well formed and empty.
LEMMA NewBatchType ==
    ASSUME NEW b \in 0 .. MaxBlock
    PROVE  NewBatch(b) \in OrderBatch /\ BatchOrders(NewBatch(b)) = {}
BY AccumulatorAssumption DEF NewBatch, OrderBatch, EmptyState, IndexState, BatchOrders

\* add_deposit / add_withdrawal keep an index state well formed.
LEMMA AddToType ==
    ASSUME info \in [Orders -> OrderInfo], NEW s \in IndexState, NEW o \in Orders
    PROVE  AddTo(s, o) \in IndexState
<1>1. info[o].amount \in Nat /\ info[o].deposit \in BOOLEAN
  BY AccumulatorAssumption DEF OrderInfo
<1>2. NetChange(s.net, o) \in Nat
  BY <1>1 DEF NetChange, IndexState
<1>3. (IF s.orders = {} THEN o ELSE s.first) \in 0 .. MaxOrders
  BY AccumulatorAssumption DEF IndexState, Orders
<1> QED
  BY <1>1, <1>2, <1>3 DEF AddTo, IndexState

\* add_order() adds that order, to its index, and nothing else.
LEMMA AddOrderType ==
    ASSUME info \in [Orders -> OrderInfo], NEW b \in OrderBatch, NEW o \in Orders
    PROVE  /\ AddOrder(b, o) \in OrderBatch
           /\ AddOrder(b, o).start = b.start
           /\ AddOrder(b, o).cur = b.cur
           /\ BatchOrders(AddOrder(b, o)) = BatchOrders(b) \cup {o}
<1> DEFINE k == info[o].index
<1>1. k \in Indices
  BY DEF OrderInfo
<1>2. b.indices \in [Indices -> IndexState]
  BY DEF OrderBatch
<1>3. AddTo(b.indices[k], o) \in IndexState
  BY <1>1, <1>2, AddToType
<1>4. AddOrder(b, o) = [b EXCEPT !.indices = [b.indices EXCEPT ![k] = AddTo(b.indices[k], o)]]
  BY DEF AddOrder
<1>5. AddOrder(b, o).indices = [b.indices EXCEPT ![k] = AddTo(b.indices[k], o)]
  BY <1>4 DEF OrderBatch
<1>6. AddOrder(b, o) \in OrderBatch
  BY <1>2, <1>3, <1>4 DEF OrderBatch
<1>7. AddOrder(b, o).indices[k].orders = b.indices[k].orders \cup {o}
  <2>1. AddOrder(b, o).indices[k] = AddTo(b.indices[k], o)
    BY <1>1, <1>2, <1>5
  <2> QED
    BY <2>1 DEF AddTo
<1>8. \A i \in Indices \ {k} : AddOrder(b, o).indices[i] = b.indices[i]
  BY <1>1, <1>2, <1>5
<1>9. BatchOrders(AddOrder(b, o)) = BatchOrders(b) \cup {o}
  <2> DEFINE f == AddOrder(b, o).indices
             g == b.indices
  <2>1. f[k].orders = g[k].orders \cup {o} /\ \A i \in Indices \ {k} : f[i] = g[i]
    BY <1>7, <1>8
  <2> HIDE DEF f, g, k
  <2>2. UNION {f[i].orders : i \in Indices} = (UNION {g[i].orders : i \in Indices}) \cup {o}
    <3>1. ASSUME NEW x \in UNION {f[i].orders : i \in Indices}
          PROVE  x \in (UNION {g[i].orders : i \in Indices}) \cup {o}
      BY <2>1
    <3>2. ASSUME NEW x \in UNION {g[i].orders : i \in Indices}
          PROVE  x \in UNION {f[i].orders : i \in Indices}
      <4>1. PICK i \in Indices : x \in g[i].orders
        OBVIOUS
      <4>2. x \in f[i].orders
        BY <2>1, <4>1
      <4> QED
        BY <4>2
    <3>3. o \in UNION {f[i].orders : i \in Indices}
      BY <1>1, <2>1
    <3> QED
      BY <3>1, <3>2, <3>3
  <2> QED
    BY <2>2 DEF BatchOrders, f, g
<1> QED
  BY <1>4, <1>6, <1>9 DEF OrderBatch

\* The trigger flush_batch() records is one of the three.
LEMMA TriggerType == \A b : FlushTrigger(b) \in Triggers
BY DEF FlushTrigger, Triggers

-----------------------------------------------------------------------------
(* Type correctness *)

LEMMA InitType == Init => TypeOK
<1> SUFFICES ASSUME Init PROVE TypeOK
  OBVIOUS
<1>1. batch \in OrderBatch
  BY NewBatchType, AccumulatorAssumption DEF Init
<1>2. flushed \in Seq(FlushRecord)
  BY DEF Init
<1> QED
  BY <1>1, <1>2, AccumulatorAssumption DEF Init, TypeOK, Actors

LEMMA NextType == TypeOK /\ [Next]_accVars => TypeOK'
<1> SUFFICES ASSUME TypeOK, [Next]_accVars PROVE TypeOK'
  OBVIOUS
<1> USE AccumulatorAssumption
<1>1. CASE SubmitOrder
  BY <1>1 DEF TypeOK, SubmitOrder
<1>2. CASE WindowElapses
  BY <1>2 DEF TypeOK, WindowElapses
<1>3. CASE Receive
  <2>1. received + 1 \in Orders
    BY <1>3 DEF TypeOK, Receive, Orders
  <2>2. batch' \in OrderBatch
    BY <1>3, <2>1, AddOrderType DEF TypeOK, Receive
  <2> QED
    BY <1>3, <2>2 DEF TypeOK, Receive, Actors
<1>4. CASE ReceiverCheck
  BY <1>4 DEF TypeOK, ReceiverCheck, Actors
<1>5. CASE KeeperTick
  BY <1>5 DEF TypeOK, KeeperTick, Actors
<1>6. ASSUME NEW a \in Actors, LoadBlock(a) PROVE TypeOK'
  BY <1>6 DEF TypeOK, LoadBlock
<1>7. ASSUME NEW a \in Actors, FlushBatch(a) PROVE TypeOK'
  <2>1. loaded[a] \in 0 .. MaxBlock
    BY DEF TypeOK
  <2>2. batch' \in OrderBatch
    BY <1>7, <2>1, NewBatchType DEF TypeOK, FlushBatch
  <2>3. flushed' \in Seq(FlushRecord)
    <3>1. [by |-> a, trigger |-> FlushTrigger(batch), indices |-> batch.indices] \in FlushRecord
      BY TriggerType DEF TypeOK, OrderBatch, FlushRecord
    <3>2. flushed \in Seq(FlushRecord)
      BY DEF TypeOK
    <3>3. CASE IsEmpty(batch)
      BY <1>7, <3>2, <3>3 DEF FlushBatch
    <3>4. CASE ~ IsEmpty(batch)
      BY <1>7, <3>1, <3>2, <3>4 DEF FlushBatch
    <3> QED
      BY <3>3, <3>4
  <2> QED
    BY <1>7, <2>2, <2>3 DEF TypeOK, FlushBatch
<1>8. ASSUME NEW b \in 1 .. MaxBlock, SwapBlock(b) PROVE TypeOK'
  BY <1>8 DEF TypeOK, SwapBlock
<1>9. CASE UpdateBatchBlock
  <2>1. batch' \in OrderBatch
    BY <1>9 DEF TypeOK, UpdateBatchBlock, OrderBatch
  <2> QED
    BY <1>9, <2>1 DEF TypeOK, UpdateBatchBlock
<1>10. CASE UNCHANGED accVars
  BY <1>10 DEF TypeOK, accVars
<1> QED
  BY <1>1, <1>2, <1>3, <1>4, <1>5, <1>6, <1>7, <1>8, <1>9, <1>10 DEF Next

\* The accumulator's state is well typed in every reachable state: whatever the
\* two flushers and the block tracker do, no field of the batch leaves its range.
THEOREM TypeCorrect == Spec => []TypeOK
BY InitType, NextType, PTL DEF Spec

-----------------------------------------------------------------------------
(* The inductive invariant *)

\* Whatever left the batch is older than whatever is in it.
FlushedBeforeBatch ==
    \A n \in DOMAIN flushed :
        \A o \in BatchOrders(flushed[n]), p \in BatchOrders(batch) : o < p

FlushedNotEmpty == \A n \in DOMAIN flushed : BatchOrders(flushed[n]) # {}

\* The batch lags behind the atomic, and an update_block() in progress carries
\* the block the atomic has: what it writes never takes the batch back.
BlocksAgree ==
    /\ batch.start <= block /\ batch.cur <= block
    /\ updating # 0 => updating = block
    /\ \A a \in Actors : loaded[a] <= block

\* Between should_flush() and flush_batch() the receiver's batch stays due, or
\* was taken away by the KeeperLoop.
ReceiverKnows ==
    pc[Receiver] \in {"load", "lock"} => IsEmpty(batch) \/ ShouldFlush(batch)

Inv ==
    /\ TypeOK
    /\ OrdersAccounted
    /\ BatchesInArrivalOrder
    /\ FlushedBeforeBatch
    /\ FlushedNotEmpty
    /\ NetChangeBounded
    /\ BlocksAgree
    /\ ReceiverKnows
    /\ ReceiverFlushesOnlyDueBatches

LEMMA InitInv == Init => Inv
<1> SUFFICES ASSUME Init PROVE Inv
  OBVIOUS
<1> USE AccumulatorAssumption
<1>1. TypeOK
  BY InitType
<1>2. BatchOrders(batch) = {} /\ FlushedOrders = {} /\ DOMAIN flushed = {} /\ received = 0
  BY NewBatchType DEF Init, FlushedOrders
<1>3. OrdersAccounted /\ BatchesInArrivalOrder /\ FlushedBeforeBatch /\ FlushedNotEmpty
  BY <1>2 DEF OrdersAccounted, BatchesInArrivalOrder, FlushedBeforeBatch, FlushedNotEmpty
<1>4. NetChangeBounded
  BY DEF Init, NetChangeBounded, NewBatch, EmptyState
<1>5. BlocksAgree
  BY DEF Init, BlocksAgree, NewBatch
<1>6. ReceiverKnows /\ ReceiverFlushesOnlyDueBatches
  BY <1>2 DEF Init, ReceiverKnows, ReceiverFlushesOnlyDueBatches, Actors, Receiver
<1> QED
  BY <1>1, <1>3, <1>4, <1>5, <1>6 DEF Inv

\* The five parts of Inv that speak of nothing but the orders received, the
\* indices of the batch and the flushed batches: a step that leaves these alone
\* keeps all five.
LEMMA OrdersUnchanged ==
    ASSUME Inv, received' = received, flushed' = flushed, batch'.indices = batch.indices
    PROVE  /\ OrdersAccounted' /\ BatchesInArrivalOrder' /\ FlushedBeforeBatch'
           /\ FlushedNotEmpty' /\ NetChangeBounded' /\ ReceiverFlushesOnlyDueBatches'
           /\ IsEmpty(batch)' = IsEmpty(batch)
<1>1. BatchOrders(batch)' = BatchOrders(batch) /\ IsEmpty(batch)' = IsEmpty(batch)
  BY DEF BatchOrders, IsEmpty
<1>2. FlushedOrders' = FlushedOrders
  BY DEF FlushedOrders
<1>3. OrdersAccounted' /\ BatchesInArrivalOrder' /\ FlushedBeforeBatch' /\ FlushedNotEmpty'
  BY <1>1, <1>2
     DEF Inv, OrdersAccounted, BatchesInArrivalOrder, FlushedBeforeBatch, FlushedNotEmpty
<1>4. NetChangeBounded' /\ ReceiverFlushesOnlyDueBatches'
  BY DEF Inv, NetChangeBounded, ReceiverFlushesOnlyDueBatches
<1> QED
  BY <1>1, <1>3, <1>4

\* A due batch stays due while time passes and its block number grows.
LEMMA DueStaysDue ==
    ASSUME TypeOK, TypeOK', ShouldFlush(batch),
           batch'.indices = batch.indices, batch'.start = batch.start,
           batch.cur <= batch'.cur, elapsed <= elapsed'
    PROVE  ShouldFlush(batch)'
<1>1. CASE BlockChanged(batch)
  <2>1. batch.cur \in Nat /\ batch.start \in Nat /\ batch'.cur \in Nat
    BY AccumulatorAssumption DEF TypeOK, OrderBatch
  <2> QED
    BY <1>1, <2>1 DEF BlockChanged, ShouldFlush
<1>2. CASE WindowOver(batch)
  <2>1. PICK i \in Indices : batch.indices[i].orders # {} /\ batch.indices[i].first <= elapsed
    BY <1>2 DEF WindowOver
  <2>2. batch.indices[i].first \in Nat /\ elapsed \in Nat /\ elapsed' \in Nat
    BY AccumulatorAssumption DEF TypeOK, OrderBatch, IndexState
  <2>3. batch'.indices[i].first <= elapsed'
    BY <2>1, <2>2
  <2> QED
    BY <2>1, <2>3 DEF WindowOver, ShouldFlush
<1> QED
  BY <1>1, <1>2 DEF ShouldFlush

\* recv() and add_order(): the new order is younger than everything received.
LEMMA ReceiveInv == Inv /\ TypeOK' /\ Receive => Inv'
<1> SUFFICES ASSUME Inv, TypeOK', Receive PROVE Inv'
  OBVIOUS
<1> DEFINE o == received + 1
<1> USE AccumulatorAssumption
<1>1. o \in Orders /\ received \in Nat /\ received' = o
  BY DEF Inv, TypeOK, Receive, Orders
<1>2. /\ BatchOrders(batch)' = BatchOrders(batch) \cup {o}
      /\ batch'.start = batch.start /\ batch'.cur = batch.cur
  BY <1>1, AddOrderType DEF Inv, TypeOK, Receive
<1>3. flushed' = flushed /\ FlushedOrders' = FlushedOrders
  BY DEF Receive, FlushedOrders
<1>4. o \notin FlushedOrders /\ \A n \in DOMAIN flushed : o \notin BatchOrders(flushed[n])
  <2>1. o \notin 1 .. received
    BY <1>1
  <2> QED
    BY <2>1 DEF Inv, OrdersAccounted, FlushedOrders
<1>5. OrdersAccounted'
  <2>1. 1 .. received' = (1 .. received) \cup {o}
    BY <1>1
  <2> QED
    BY <1>2, <1>3, <1>4, <2>1 DEF Inv, OrdersAccounted
<1>6. BatchesInArrivalOrder' /\ FlushedNotEmpty' /\ ReceiverFlushesOnlyDueBatches'
  BY <1>3 DEF Inv, BatchesInArrivalOrder, FlushedNotEmpty, ReceiverFlushesOnlyDueBatches
<1>7. FlushedBeforeBatch'
  <2>1. ASSUME NEW n \in DOMAIN flushed, NEW x \in BatchOrders(flushed[n])
        PROVE  x < o
    <3>1. x \in 1 .. received
      BY <2>1 DEF Inv, OrdersAccounted, FlushedOrders
    <3> QED
      BY <1>1, <3>1
  <2> QED
    BY <1>2, <1>3, <2>1 DEF Inv, FlushedBeforeBatch
<1>8. NetChangeBounded'
  <2> DEFINE k == info[o].index
             s == batch.indices[k]
  <2>1. k \in Indices /\ info[o].amount \in Nat /\ info[o].deposit \in BOOLEAN
    BY <1>1 DEF Inv, TypeOK, OrderInfo
  <2>2. batch.indices \in [Indices -> IndexState]
    BY DEF Inv, TypeOK, OrderBatch
  <2>3. s.net \in Nat /\ s.deposits \in Nat /\ s.withdrawals \in Nat
    BY <2>1, <2>2 DEF IndexState
  <2>4. batch'.indices = [batch.indices EXCEPT ![k] = AddTo(s, o)]
    BY DEF Receive, AddOrder, Inv, TypeOK, OrderBatch
  <2>5. s.net <= s.deposits /\ s.deposits - s.withdrawals <= s.net
    BY <2>1 DEF Inv, NetChangeBounded
  <2>6. /\ AddTo(s, o).net <= AddTo(s, o).deposits
        /\ AddTo(s, o).deposits - AddTo(s, o).withdrawals <= AddTo(s, o).net
    BY <2>1, <2>3, <2>5 DEF AddTo, NetChange
  <2>7. ASSUME NEW i \in Indices
        PROVE  /\ batch'.indices[i].net <= batch'.indices[i].deposits
               /\ batch'.indices[i].deposits - batch'.indices[i].withdrawals
                     <= batch'.indices[i].net
    <3>1. CASE i = k
      BY <2>1, <2>2, <2>4, <2>6, <3>1
    <3>2. CASE i # k
      BY <2>1, <2>2, <2>4, <3>2 DEF Inv, NetChangeBounded
    <3> QED
      BY <3>1, <3>2
  <2> QED
    BY <2>7 DEF NetChangeBounded
<1>9. BlocksAgree'
  BY <1>2 DEF Inv, BlocksAgree, Receive
<1>10. ReceiverKnows'
  BY DEF Receive, ReceiverKnows, Inv, TypeOK, Actors, Receiver
<1> QED
  BY <1>5, <1>6, <1>7, <1>8, <1>9, <1>10 DEF Inv

\* flush_batch(): the whole batch becomes the youngest flushed one.
LEMMA FlushInv ==
    ASSUME Inv, TypeOK', NEW a \in Actors, FlushBatch(a)
    PROVE  Inv'
<1> USE AccumulatorAssumption
<1>1. CASE IsEmpty(batch)
  <2>1. UNCHANGED <<info, submitted, received, elapsed, batch, block, updating, loaded, flushed>>
    BY <1>1 DEF FlushBatch
  <2>2. BlocksAgree'
    BY <2>1 DEF Inv, BlocksAgree
  <2>3. IsEmpty(batch)'
    BY <1>1, <2>1 DEF IsEmpty
  <2> QED
    BY <2>1, <2>2, <2>3, OrdersUnchanged DEF Inv, ReceiverKnows
<1>2. CASE ~ IsEmpty(batch)
  <2> DEFINE r == [by |-> a, trigger |-> FlushTrigger(batch), indices |-> batch.indices]
             k == Len(flushed) + 1
  <2>1. /\ flushed' = Append(flushed, r) /\ batch' = NewBatch(loaded[a])
        /\ received' = received /\ block' = block /\ updating' = updating
        /\ loaded' = loaded /\ pc[a] = "lock"
    BY <1>2 DEF FlushBatch
  <2>2. flushed \in Seq(FlushRecord) /\ k \in Nat
    BY DEF Inv, TypeOK
  <2>3. /\ DOMAIN flushed' = DOMAIN flushed \cup {k} /\ DOMAIN flushed = 1 .. Len(flushed)
        /\ flushed'[k] = r /\ \A n \in DOMAIN flushed : n < k /\ flushed'[n] = flushed[n]
    <3> HIDE DEF r
    <3> QED
      BY <2>1, <2>2
  <2>4. BatchOrders(r) = BatchOrders(batch) /\ BatchOrders(batch) # {}
    BY <1>2, IsEmptyOrders DEF BatchOrders
  <2>5. BatchOrders(batch)' = {} /\ IsEmpty(batch)'
    <3>1. loaded[a] \in 0 .. MaxBlock
      BY DEF Inv, TypeOK
    <3> QED
      BY <2>1, <3>1, NewBatchType, IsEmptyOrders
  <2> HIDE DEF r, k
  <2>6. FlushedOrders' = FlushedOrders \cup BatchOrders(batch)
    BY <2>3, <2>4 DEF FlushedOrders
  <2>7. OrdersAccounted'
    BY <2>1, <2>3, <2>4, <2>5, <2>6 DEF Inv, OrdersAccounted
  <2>8. BatchesInArrivalOrder'
    <3> SUFFICES ASSUME NEW m \in DOMAIN flushed', NEW n \in DOMAIN flushed', m < n,
                        NEW o \in BatchOrders(flushed'[m]), NEW p \in BatchOrders(flushed'[n])
                 PROVE  o < p
      BY DEF BatchesInArrivalOrder
    <3>1. m \in DOMAIN flushed
      BY <2>2, <2>3
    <3>2. CASE n = k
      BY <2>3, <2>4, <3>1, <3>2 DEF Inv, FlushedBeforeBatch
    <3>3. CASE n \in DOMAIN flushed
      BY <2>3, <3>1, <3>3 DEF Inv, BatchesInArrivalOrder
    <3> QED
      BY <2>3, <3>2, <3>3
  <2>9. FlushedBeforeBatch' /\ FlushedNotEmpty'
    BY <2>3, <2>4, <2>5 DEF Inv, FlushedBeforeBatch, FlushedNotEmpty
  <2>10. NetChangeBounded'
    BY <2>1 DEF NetChangeBounded, NewBatch, EmptyState
  <2>11. BlocksAgree'
    BY <2>1 DEF Inv, BlocksAgree, NewBatch
  <2>12. ReceiverKnows'
    BY <2>5 DEF ReceiverKnows
  <2>13. ReceiverFlushesOnlyDueBatches'
    <3>1. ASSUME a = Receiver PROVE r.trigger # "Manual"
      <4>1. ShouldFlush(batch)
        BY <1>2, <2>1, <3>1 DEF Inv, ReceiverKnows
      <4> QED
        BY <4>1 DEF r, FlushTrigger, ShouldFlush
    <3>2. r.by = a
      BY DEF r
    <3> QED
      BY <2>3, <3>1, <3>2 DEF Inv, ReceiverFlushesOnlyDueBatches
  <2> QED
    BY <2>7, <2>8, <2>9, <2>10, <2>11, <2>12, <2>13 DEF Inv
<1> QED
  BY <1>1, <1>2

LEMMA NextInv == Inv /\ [Next]_accVars => Inv'
<1> SUFFICES ASSUME Inv, [Next]_accVars PROVE Inv'
  OBVIOUS
<1> USE AccumulatorAssumption
<1>0. TypeOK /\ TypeOK'
  BY NextType DEF Inv
<1>1. CASE SubmitOrder
  <2>1. BlocksAgree'
    BY <1>1 DEF SubmitOrder, Inv, BlocksAgree
  <2>2. ReceiverKnows'
    BY <1>1 DEF SubmitOrder, Inv, ReceiverKnows, IsEmpty, ShouldFlush, WindowOver
  <2> QED
    BY <1>0, <1>1, <2>1, <2>2, OrdersUnchanged DEF SubmitOrder, Inv
<1>2. CASE WindowElapses
  <2>1. batch' = batch /\ received' = received /\ flushed' = flushed /\ elapsed <= elapsed' /\ pc' = pc
    BY <1>0, <1>2 DEF WindowElapses, TypeOK
  <2>2. BlocksAgree'
    BY <1>2 DEF WindowElapses, Inv, BlocksAgree
  <2>3. ReceiverKnows'
    <3>1. batch.cur <= batch'.cur
      BY <1>0, <2>1 DEF TypeOK, OrderBatch
    <3> QED
      BY <1>0, <2>1, <3>1, DueStaysDue DEF Inv, ReceiverKnows, IsEmpty
  <2> QED
    BY <1>0, <2>1, <2>2, <2>3, OrdersUnchanged DEF Inv
<1>3. CASE Receive
  BY <1>0, <1>3, ReceiveInv
<1>4. CASE ReceiverCheck
  <2>1. BlocksAgree'
    BY <1>4 DEF ReceiverCheck, Inv, BlocksAgree
  <2>2. ReceiverKnows'
    BY <1>4, <1>0
       DEF ReceiverCheck, ReceiverKnows, TypeOK, Actors, IsEmpty, ShouldFlush, WindowOver
  <2> QED
    BY <1>0, <1>4, <2>1, <2>2, OrdersUnchanged DEF ReceiverCheck, Inv
<1>5. CASE KeeperTick
  <2>1. BlocksAgree'
    BY <1>5 DEF KeeperTick, Inv, BlocksAgree
  <2>2. pc'[Receiver] = pc[Receiver]
    BY <1>5, <1>0 DEF KeeperTick, TypeOK, Actors, Receiver, Keeper
  <2>3. ReceiverKnows'
    BY <1>5, <2>2
       DEF KeeperTick, Inv, ReceiverKnows, IsEmpty, ShouldFlush, WindowOver
  <2> QED
    BY <1>0, <1>5, <2>1, <2>3, OrdersUnchanged DEF KeeperTick, Inv
<1>6. ASSUME NEW a \in Actors, LoadBlock(a) PROVE Inv'
  <2>1. BlocksAgree'
    BY <1>6, <1>0 DEF LoadBlock, Inv, BlocksAgree, TypeOK
  <2>2. pc[Receiver] \in {"load", "lock"} <=> pc'[Receiver] \in {"load", "lock"}
    BY <1>6, <1>0 DEF LoadBlock, TypeOK, Actors
  <2>3. ReceiverKnows'
    BY <1>6, <2>2 DEF LoadBlock, Inv, ReceiverKnows, IsEmpty, ShouldFlush, WindowOver
  <2> QED
    BY <1>0, <1>6, <2>1, <2>3, OrdersUnchanged DEF LoadBlock, Inv
<1>7. ASSUME NEW a \in Actors, FlushBatch(a) PROVE Inv'
  BY <1>0, <1>7, FlushInv
<1>8. ASSUME NEW b \in 1 .. MaxBlock, SwapBlock(b) PROVE Inv'
  <2>1. BlocksAgree'
    BY <1>8, <1>0 DEF SwapBlock, Inv, BlocksAgree, TypeOK, OrderBatch
  <2>2. ReceiverKnows'
    BY <1>8 DEF SwapBlock, Inv, ReceiverKnows, IsEmpty, ShouldFlush, WindowOver
  <2> QED
    BY <1>0, <1>8, <2>1, <2>2, OrdersUnchanged DEF SwapBlock, Inv
<1>9. CASE UpdateBatchBlock
  <2>1. /\ batch'.indices = batch.indices /\ batch'.start = batch.start /\ batch'.cur = block
        /\ received' = received /\ flushed' = flushed /\ elapsed' = elapsed /\ pc' = pc
        /\ block' = block /\ loaded' = loaded /\ updating' = 0
    BY <1>9, <1>0 DEF UpdateBatchBlock, TypeOK, OrderBatch, Inv, BlocksAgree
  <2>2. BlocksAgree'
    BY <1>0, <2>1 DEF Inv, BlocksAgree, TypeOK
  <2>3. ReceiverKnows'
    <3>1. batch.cur <= batch'.cur /\ elapsed <= elapsed'
      BY <1>0, <2>1 DEF Inv, BlocksAgree, TypeOK
    <3> QED
      BY <1>0, <2>1, <3>1, DueStaysDue DEF Inv, ReceiverKnows, IsEmpty
  <2> QED
    BY <1>0, <2>1, <2>2, <2>3, OrdersUnchanged DEF Inv
<1>10. CASE UNCHANGED accVars
  <2>1. BlocksAgree' /\ ReceiverKnows'
    BY <1>10
       DEF accVars, Inv, BlocksAgree, ReceiverKnows, IsEmpty, ShouldFlush, BlockChanged, WindowOver
  <2> QED
    BY <1>0, <1>10, <2>1, OrdersUnchanged DEF accVars, Inv
<1> QED
  BY <1>1, <1>2, <1>3, <1>4, <1>5, <1>6, <1>7, <1>8, <1>9, <1>10 DEF Next

LEMMA InvInductive == Spec => []Inv
BY InitInv, NextInv, PTL DEF Spec

-----------------------------------------------------------------------------
(* The properties of the accumulator *)

\* Two tasks flush one batch and no order is lost or duplicated: the orders
\* received are exactly those of the batch and of the disjoint flushed batches.
THEOREM NoOrderLost == Spec => []OrdersAccounted
BY InvInductive, PTL DEF Inv

\* Whichever task flushes, batches leave in the order in which their orders
\* were received.
THEOREM ArrivalOrder == Spec => []BatchesInArrivalOrder
BY InvInductive, PTL DEF Inv

\* The saturating net collateral change of an index lies between its true net
\* change and its deposits, in whatever order deposits and withdrawals arrive.
THEOREM NetBounded == Spec => []NetChangeBounded
BY InvInductive, PTL DEF Inv

\* The receiver's flush always has a reason: nothing that runs between its
\* should_flush() and its flush_batch() makes a due batch not due.
THEOREM ReceiverFlushesDue == Spec => []ReceiverFlushesOnlyDueBatches
BY InvInductive, PTL DEF Inv

\* A flushed batch is not empty, and no later step changes or removes it.
THEOREM FlushedFinal == Spec => FlushedBatchesAreFinal
<1>1. ASSUME Inv, Inv', [Next]_accVars
      PROVE  [/\ Len(flushed) <= Len(flushed')
              /\ \A n \in DOMAIN flushed : flushed'[n] = flushed[n]
              /\ \A n \in DOMAIN flushed' : BatchOrders(flushed'[n]) # {}]_accVars
  <2>1. \A n \in DOMAIN flushed' : BatchOrders(flushed'[n]) # {}
    BY <1>1 DEF Inv, FlushedNotEmpty
  <2>2. flushed \in Seq(FlushRecord)
    BY <1>1 DEF Inv, TypeOK
  <2>3. CASE flushed' = flushed
    BY <2>1, <2>2, <2>3
  <2>4. ASSUME NEW r, flushed' = Append(flushed, r)
        PROVE  Len(flushed) <= Len(flushed') /\ \A n \in DOMAIN flushed : flushed'[n] = flushed[n]
    BY <2>2, <2>4
  <2>5. flushed' = flushed \/ \E r : flushed' = Append(flushed, r)
    BY <1>1
       DEF Next, accVars, SubmitOrder, WindowElapses, Receive, ReceiverCheck, KeeperTick,
           LoadBlock, FlushBatch, SwapBlock, UpdateBatchBlock
  <2> QED
    BY <2>1, <2>3, <2>4, <2>5
<1> QED
  BY <1>1, InvInductive, PTL DEF Spec, FlushedBatchesAreFinal

-----------------------------------------------------------------------------
(* The accumulator under the pipeline                                       *)

\* A task leaves the accumulator alone, and the chain unless it sends.
LEMMA TaskStepQuiet ==
    ASSUME NEW n, TaskStep(n)
    PROVE  /\ UNCHANGED accVars
           /\ SendTx(n) \/ UNCHANGED chainVars
<1>1. CASE ExtractAssets(n)
    BY <1>1 DEF ExtractAssets
<1>2. CASE VendorFails(n)
    BY <1>2 DEF VendorFails
<1>3. CASE VendorOk(n)
    BY <1>3 DEF VendorOk
<1>4. CASE QuotesReturned(n)
    BY <1>4 DEF QuotesReturned
<1>5. CASE PickTarget(n)
    BY <1>5 DEF PickTarget
<1>6. CASE SendTx(n)
    BY <1>6 DEF SendTx
<1>7. CASE Receipt(n)
    BY <1>7 DEF Receipt
<1>8. CASE AttemptFails(n)
    BY <1>8 DEF AttemptFails
<1>9. CASE LoopEnds(n)
    BY <1>9 DEF LoopEnds
<1> QED
    BY <1>1, <1>2, <1>3, <1>4, <1>5, <1>6, <1>7, <1>8, <1>9 DEF TaskStep

\* Every step of the pipeline is a step of the accumulator or leaves it alone.
LEMMA AccumulatorSteps == [PipelineNext]_vars => [Next]_accVars
<1> SUFFICES ASSUME [PipelineNext]_vars PROVE [Next]_accVars
    OBVIOUS
<1>1. CASE Accumulate
    BY <1>1 DEF Accumulate, Next
<1>2. CASE \E a \in Actors : Spawn(a)
    BY <1>2 DEF Spawn, Next
<1>3. CASE \E n \in DOMAIN task : TaskStep(n)
    BY <1>3, TaskStepQuiet
<1>4. CASE \E tx \in mempool : Mine(tx)
    BY <1>4 DEF Mine
<1>5. CASE UNCHANGED vars
    BY <1>5 DEF vars
<1> QED
    BY <1>1, <1>2, <1>3, <1>4, <1>5 DEF PipelineNext

\* Batches are numbered, and their orders are no smaller than their number: there
\* are no more batches than orders.
OrdersReachNumber == \A n \in DOMAIN flushed : \A o \in BatchOrders(flushed[n]) : n <= o

\* first_order_time belongs to an order of the index.
FirstKnown(f) == \A i \in Indices : f[i].orders # {} => f[i].first \in f[i].orders

AccInv ==
    /\ Inv
    /\ OrdersReachNumber
    /\ FirstKnown(batch.indices)
    /\ \A n \in DOMAIN flushed : FirstKnown(flushed[n].indices)

\* Flushed batches stay what they are, and one more at most is added, with the
\* orders of the current batch.
LEMMA FlushedGrow ==
    ASSUME AccInv, [Next]_accVars
    PROVE  /\ info' = info
           /\ \/ flushed' = flushed
              \/ \E a \in Actors : FlushBatch(a) /\ \E r \in FlushRecord :
                    r.by = a /\ r.indices = batch.indices /\ flushed' = Append(flushed, r)
<1>1. CASE flushed' = flushed
    BY <1>1 DEF Next, accVars, SubmitOrder, WindowElapses, Receive, ReceiverCheck, KeeperTick,
       LoadBlock, FlushBatch, SwapBlock, UpdateBatchBlock
<1>2. CASE flushed' # flushed
  <2>1. PICK a \in Actors : FlushBatch(a)
      BY <1>2 DEF Next, accVars, SubmitOrder, WindowElapses, Receive, ReceiverCheck, KeeperTick,
         LoadBlock, SwapBlock, UpdateBatchBlock
  <2> DEFINE r == [by |-> a, trigger |-> FlushTrigger(batch), indices |-> batch.indices]
  <2>2. flushed' = Append(flushed, r) /\ info' = info
      BY <1>2, <2>1 DEF FlushBatch
  <2>3. batch.indices \in [Indices -> IndexState]
      BY DEF AccInv, Inv, TypeOK, OrderBatch
  <2>4. r \in FlushRecord
      BY <2>3, TriggerType DEF FlushRecord
  <2> QED
      BY <2>1, <2>2, <2>4
<1> QED
    BY <1>1, <1>2

LEMMA OrdersOfRecord ==
    ASSUME NEW r, r.indices = batch.indices
    PROVE  BatchOrders(r) = BatchOrders(batch)
BY DEF BatchOrders

LEMMA FirstKnownNext ==
    ASSUME AccInv, [Next]_accVars
    PROVE  FirstKnown(batch'.indices)
<1>1. batch \in OrderBatch
    BY DEF AccInv, Inv, TypeOK
<1>2. CASE Receive
  <2> DEFINE o == received + 1
             k == info[o].index
             old == batch.indices
  <2>1. old \in [Indices -> IndexState] /\ FirstKnown(old)
      BY <1>1 DEF OrderBatch, AccInv
  <2>2. batch'.indices = [old EXCEPT ![k] = AddTo(old[k], o)]
      BY <1>1, <1>2 DEF Receive, AddOrder, OrderBatch
  <2>3. AddTo(old[k], o).orders = old[k].orders \cup {o}
        /\ AddTo(old[k], o).first = IF old[k].orders = {} THEN o ELSE old[k].first
      BY DEF AddTo
  <2> HIDE DEF old, k, o
  <2> QED
      BY <2>1, <2>2, <2>3 DEF FirstKnown
<1>3. CASE \E a \in Actors : FlushBatch(a)
  <2>1. PICK a \in Actors : FlushBatch(a)
      BY <1>3
  <2>2. CASE batch' = batch
      BY <2>2 DEF AccInv
  <2>3. CASE batch' = NewBatch(loaded[a])
      BY <2>3 DEF NewBatch, EmptyState, FirstKnown
  <2> QED
      BY <2>1, <2>2, <2>3 DEF FlushBatch
<1>4. CASE UpdateBatchBlock
    BY <1>1, <1>4 DEF UpdateBatchBlock, AccInv, OrderBatch
<1>5. CASE batch' = batch
    BY <1>5 DEF AccInv
<1> QED
    BY <1>2, <1>3, <1>4, <1>5 DEF Next, accVars, SubmitOrder, WindowElapses, ReceiverCheck,
       KeeperTick, LoadBlock, SwapBlock

LEMMA AccInvNext == AccInv /\ [Next]_accVars => AccInv'
<1> SUFFICES ASSUME AccInv, [Next]_accVars PROVE AccInv'
    OBVIOUS
<1>1. Inv' /\ FirstKnown(batch'.indices)
    BY NextInv, FirstKnownNext DEF AccInv
<1>2. CASE flushed' = flushed
    BY <1>1, <1>2 DEF AccInv, OrdersReachNumber, BatchOrders, FirstKnown
<1>3. CASE flushed' # flushed
  <2>1. PICK r \in FlushRecord : r.indices = batch.indices /\ flushed' = Append(flushed, r)
      BY <1>3, FlushedGrow
  <2>2. flushed \in Seq(FlushRecord) /\ batch \in OrderBatch /\ BatchOrders(batch) \subseteq Nat
    <3>1. flushed \in Seq(FlushRecord) /\ batch \in OrderBatch
        BY DEF AccInv, Inv, TypeOK
    <3>2. Orders \subseteq Nat
        BY DEF Orders
    <3>3. \A i \in Indices : batch.indices[i].orders \subseteq Orders
        BY <3>1 DEF OrderBatch, IndexState
    <3> QED
        BY <3>1, <3>2, <3>3 DEF BatchOrders
  <2> DEFINE k == Len(flushed)
  <2>3. DOMAIN flushed' = 1 .. k + 1 /\ flushed'[k + 1] = r /\ k \in Nat
        /\ \A n \in 1 .. k : n \in DOMAIN flushed /\ flushed'[n] = flushed[n]
      BY <2>1, <2>2
  <2>4. \A o \in BatchOrders(r) : k + 1 <= o
    <3> SUFFICES ASSUME NEW o \in BatchOrders(r) PROVE k + 1 <= o
        OBVIOUS
    <3>1. o \in BatchOrders(batch) /\ o \in Nat
        BY <2>1, <2>2, OrdersOfRecord
    <3>2. CASE k = 0
      <4>1. o \in 1 .. received
          BY <3>1 DEF AccInv, Inv, OrdersAccounted
      <4> QED
          BY <3>2, <4>1
    <3>3. CASE k # 0
      <4>1. k \in DOMAIN flushed
          BY <2>2, <2>3, <3>3
      <4>2. PICK p \in BatchOrders(flushed[k]) : p < o
          BY <3>1, <4>1 DEF AccInv, Inv, FlushedNotEmpty, FlushedBeforeBatch
      <4>3. k <= p
          BY <4>1, <4>2 DEF AccInv, OrdersReachNumber
      <4>4. p \in Nat
          BY <4>1, <4>2 DEF AccInv, Inv, OrdersAccounted, FlushedOrders
      <4> QED
          BY <2>3, <3>1, <4>2, <4>3, <4>4
    <3> QED
        BY <3>2, <3>3
  <2>5. OrdersReachNumber'
    <3> SUFFICES ASSUME NEW n \in DOMAIN flushed', NEW o \in BatchOrders(flushed'[n])
                 PROVE  n <= o
        BY DEF OrdersReachNumber, BatchOrders
    <3> QED
        BY <2>3, <2>4 DEF AccInv, OrdersReachNumber
  <2>6. \A n \in DOMAIN flushed' : FirstKnown(flushed'[n].indices)
      BY <2>1, <2>3 DEF AccInv
  <2> QED
      BY <1>1, <2>5, <2>6 DEF AccInv, FirstKnown
<1> QED
    BY <1>2, <1>3

LEMMA AccInvInit == Init => AccInv
BY InitInv DEF Init, AccInv, OrdersReachNumber, NewBatch, EmptyState, FirstKnown

\* There are no more batches than orders, and a batch holds orders only.
LEMMA BatchNumbers ==
    ASSUME AccInv
    PROVE  /\ Len(flushed) \in 0 .. MaxOrders /\ DOMAIN flushed = 1 .. Len(flushed)
           /\ \A n \in DOMAIN flushed : BatchOrders(flushed[n]) \subseteq Orders
<1>1. flushed \in Seq(FlushRecord) /\ received \in 0 .. MaxOrders
    BY AccumulatorAssumption DEF AccInv, Inv, TypeOK
<1>2. \A n \in DOMAIN flushed : BatchOrders(flushed[n]) \subseteq Orders
    BY <1>1, AccumulatorAssumption DEF AccInv, Inv, OrdersAccounted, FlushedOrders, Orders
<1>3. Len(flushed) <= MaxOrders
  <2>1. CASE Len(flushed) = 0
      BY <2>1, AccumulatorAssumption
  <2>2. CASE Len(flushed) # 0
    <3>1. Len(flushed) \in DOMAIN flushed
        BY <1>1, <2>2
    <3>2. PICK o \in BatchOrders(flushed[Len(flushed)]) : Len(flushed) <= o
        BY <3>1 DEF AccInv, OrdersReachNumber, Inv, FlushedNotEmpty
    <3> QED
        BY <1>1, <1>2, <3>1, <3>2, AccumulatorAssumption DEF Orders
  <2> QED
      BY <2>1, <2>2
<1> QED
    BY <1>1, <1>2, <1>3

-----------------------------------------------------------------------------
(* The inductive invariant                                                  *)

Attempts == Nat \ {0}

LEMMA TaskFields ==
    /\ Task = [pc : TaskPC, attempt : Attempts, vendorOk : BOOLEAN,
               todo : SUBSET Orders, cur : Orders \cup {NoTarget}, waiting : BOOLEAN,
               ok : SUBSET Orders, failed : SUBSET Orders]
    /\ 1 \in Attempts /\ \A a \in Attempts : a + 1 \in Attempts
BY DEF Task, Attempts

Settles == {"quotes", "orders", "done"}

\* Where a task of batch n may stand, and what it knows of its orders there.
TaskOK(n, t) ==
    /\ t \in Task
    /\ t.pc \in {"extract", "quotes", "orders"} => IsSettle(n)
    /\ t.pc \in {"market", "buys"} => ~ IsSettle(n)
    /\ t.pc \in {"quotes", "orders", "market", "buys"} => t.attempt <= TxRetries
    /\ t.pc \notin {"orders", "buys"} => t.cur = NoTarget

\* Results come from the loops, one for each target; of a settled batch every
\* order is still to do or has its result.
Accounted(n, t) ==
    /\ t.pc \notin {"orders", "buys", "done"} => t.ok = {} /\ t.failed = {}
    /\ (t.ok \cup t.failed) \cap t.todo = {}
    /\ IsSettle(n) =>
          /\ t.pc \in Settles =>
                /\ t.vendorOk = TRUE
                /\ t.todo \cup t.ok \cup t.failed = BatchOrders(flushed[n])
                /\ t.ok \cap t.failed = {}
          /\ t.pc = "done" => t.todo = {}

\* The sell orders have come up once no buy order is left.
SellsUp(t) == \A o \in t.todo : ~ info[o].deposit

CurOK(n, t) ==
    t.cur # NoTarget =>
        /\ t.cur \in t.todo
        /\ t.pc = "orders" /\ ~ info[t.cur].deposit => SellsUp(t)

\* What a transaction says of the task t of its batch.
TxOK(tx, t) ==
    /\ tx \in Tx
    /\ tx.kind \in {"quotes", "process"} => IsSettle(tx.batch) /\ t.pc \in Settles
    /\ tx.kind = "process" =>
          /\ t.pc \in {"orders", "done"}
          /\ tx.target \in BatchOrders(flushed[tx.batch])
          /\ ~ info[tx.target].deposit => SellsUp(t)

Included(n, o) == \E tx \in mined \cup reverted : tx.batch = n /\ tx.kind = "process" /\ tx.target = o

PInv ==
    /\ AccInv
    /\ task \in Seq(Task) /\ Len(task) = Len(flushed)
    /\ \A n \in DOMAIN task : TaskOK(n, task[n]) /\ Accounted(n, task[n]) /\ CurOK(n, task[n])
    /\ \A tx \in AllTx : tx.batch \in DOMAIN task /\ TxOK(tx, task[tx.batch])
    /\ \A n \in DOMAIN task : IsSettle(n) => \A o \in task[n].ok : Included(n, o)

\* A step of the task of batch n that makes it new, and sends at most one
\* transaction.
LEMMA TaskSteps ==
    ASSUME PInv, UNCHANGED accVars, NEW n \in DOMAIN task, NEW new,
           task' = [task EXCEPT ![n] = new],
           TaskOK(n, new), Accounted(n, new), CurOK(n, new),
           \A tx \in AllTx' : \/ tx \in AllTx /\ (tx.batch = n => TxOK(tx, new))
                              \/ tx.batch = n /\ TxOK(tx, new),
           mined \subseteq mined', reverted \subseteq reverted',
           IsSettle(n) => \A o \in new.ok : Included(n, o)
    PROVE  PInv'
<1>1. AccInv'
    BY AccInvNext DEF PInv
<1>2. flushed' = flushed /\ info' = info
    BY DEF accVars
<1>3. /\ task' \in Seq(Task) /\ Len(task') = Len(flushed') /\ DOMAIN task' = DOMAIN task
      /\ task'[n] = new /\ \A m \in DOMAIN task : m # n => task'[m] = task[m]
    BY <1>2 DEF PInv, TaskOK
<1>4. ASSUME NEW m \in DOMAIN task', NEW t
      PROVE  /\ TaskOK(m, t) => TaskOK(m, t)'
             /\ Accounted(m, t) => Accounted(m, t)'
             /\ CurOK(m, t) => CurOK(m, t)'
    BY <1>2 DEF TaskOK, Accounted, CurOK, SellsUp, IsSettle, BatchOrders
<1>5. ASSUME NEW tx, NEW t PROVE TxOK(tx, t) => TxOK(tx, t)'
    BY <1>2 DEF TxOK, SellsUp, IsSettle, BatchOrders
<1>6. \A m \in DOMAIN task' : TaskOK(m, task'[m]) /\ Accounted(m, task'[m]) /\ CurOK(m, task'[m])
    BY <1>3 DEF PInv
<1>7. \A tx \in AllTx' : tx.batch \in DOMAIN task' /\ TxOK(tx, task'[tx.batch])
    BY <1>3 DEF PInv
<1>8. \A m \in DOMAIN task' : IsSettle(m) => \A o \in task'[m].ok : Included(m, o)
    BY <1>3 DEF PInv
<1>9. \A m \in DOMAIN task' : IsSettle(m)' => \A o \in task'[m].ok : Included(m, o)'
    BY <1>2, <1>8 DEF Included, IsSettle
<1> QED
    BY <1>1, <1>3, <1>4, <1>5, <1>6, <1>7, <1>9 DEF PInv

\* A step that sends nothing: every transaction keeps saying what it says of the
\* task if the task stays settled, does not go back from "orders" and only takes
\* orders from those it has to do.
LEMMA TxStays ==
    ASSUME NEW n, NEW t, NEW new, NEW tx, tx.batch = n, TxOK(tx, t),
           t.pc \in Settles => new.pc \in Settles,
           t.pc \in {"orders", "done"} => new.pc \in {"orders", "done"} /\ new.todo \subseteq t.todo
    PROVE  TxOK(tx, new)
BY DEF TxOK, SellsUp, Settles

LEMMA QuietStep ==
    ASSUME PInv, UNCHANGED <<accVars, chainVars>>, NEW n \in DOMAIN task, NEW new,
           task' = [task EXCEPT ![n] = new],
           TaskOK(n, new), Accounted(n, new), CurOK(n, new),
           IsSettle(n) /\ task[n].pc \in Settles => new.pc \in Settles,
           IsSettle(n) /\ task[n].pc \in {"orders", "done"} =>
               new.pc \in {"orders", "done"} /\ new.todo \subseteq task[n].todo,
           IsSettle(n) => \A o \in new.ok : Included(n, o)
    PROVE  PInv'
<1>1. /\ AllTx' = AllTx /\ mined' = mined /\ reverted' = reverted /\ UNCHANGED accVars
      /\ \A tx \in AllTx : tx.batch \in DOMAIN task /\ TxOK(tx, task[tx.batch])
    BY DEF chainVars, AllTx, PInv
<1>2. ASSUME NEW tx \in AllTx, tx.batch = n PROVE TxOK(tx, new)
  <2>1. TxOK(tx, task[n])
      BY <1>1, <1>2
  <2>2. CASE IsSettle(n)
      BY <1>2, <2>1, <2>2, TxStays
  <2>3. CASE ~ IsSettle(n)
      BY <1>2, <2>1, <2>3 DEF TxOK
  <2> QED
      BY <2>2, <2>3
<1> QED
    BY <1>1, <1>2, TaskSteps

LEMMA ExtractAssetsOK ==
    ASSUME PInv, NEW n \in DOMAIN task, ExtractAssets(n)
    PROVE  PInv'
<1>1. PICK next \in {"vendor", "dropped"} : task' = [task EXCEPT ![n].pc = next]
    BY DEF ExtractAssets
<1> DEFINE t == task[n]
           new == [t EXCEPT !.pc = next]
<1>2. /\ TaskOK(n, t) /\ Accounted(n, t) /\ t \in Task /\ t.pc = "extract"
      /\ IsSettle(n) => \A o \in t.ok : Included(n, o)
      /\ UNCHANGED <<accVars, chainVars>> /\ task' = [task EXCEPT ![n] = new]
    BY <1>1 DEF PInv, TaskOK, ExtractAssets
<1>3. /\ new \in Task /\ new.pc = next /\ new.ok = t.ok /\ new.failed = t.failed
      /\ new.cur = t.cur
    BY <1>2, TaskFields DEF TaskPC
<1> HIDE DEF new
<1>4. TaskOK(n, new) /\ Accounted(n, new) /\ CurOK(n, new)
    BY <1>2, <1>3 DEF TaskOK, Accounted, CurOK, Settles
<1> QED
    BY <1>2, <1>3, <1>4, QuietStep DEF Settles

LEMMA VendorFailsOK ==
    ASSUME PInv, NEW n \in DOMAIN task, VendorFails(n)
    PROVE  PInv'
<1> DEFINE t == task[n]
           new == IF t.attempt < VendorRetries THEN NextAttempt(t)
                  ELSE [t EXCEPT !.pc = "dropped"]
<1>1. /\ TaskOK(n, t) /\ Accounted(n, t) /\ t \in Task /\ t.pc = "vendor"
      /\ IsSettle(n) => \A o \in t.ok : Included(n, o)
      /\ UNCHANGED <<accVars, chainVars>> /\ task' = [task EXCEPT ![n] = new]
    BY DEF PInv, TaskOK, VendorFails
<1>2. /\ new \in Task /\ new.pc \in {"vendor", "dropped"} /\ new.ok = t.ok
      /\ new.failed = t.failed /\ new.cur = t.cur
    BY <1>1, TaskFields DEF TaskPC, NextAttempt
<1> HIDE DEF new
<1>3. TaskOK(n, new) /\ Accounted(n, new) /\ CurOK(n, new)
    BY <1>1, <1>2 DEF TaskOK, Accounted, CurOK, Settles
<1> QED
    BY <1>1, <1>2, <1>3, QuietStep DEF Settles

LEMMA VendorConfirms ==
    ASSUME PInv, NEW n \in DOMAIN task, VendorOk(n)
    PROVE  PInv'
<1> DEFINE t == task[n]
           B == BatchOrders(flushed[n])
           new == [t EXCEPT !.pc = "quotes", !.attempt = 1, !.vendorOk = TRUE, !.todo = B]
<1>1. /\ TaskOK(n, t) /\ Accounted(n, t) /\ t \in Task /\ t.pc = "vendor" /\ IsSettle(n)
      /\ t.ok = {} /\ t.failed = {} /\ t.cur = NoTarget
      /\ UNCHANGED <<accVars, chainVars>> /\ task' = [task EXCEPT ![n] = new]
    BY DEF PInv, TaskOK, Accounted, Settles, VendorOk
<1>2. B \subseteq Orders
  <2>1. n \in DOMAIN flushed
      BY DEF PInv, AccInv, Inv, TypeOK
  <2> QED
      BY <2>1, BatchNumbers DEF PInv
<1> HIDE DEF B
<1>3. /\ new \in Task /\ new.pc = "quotes" /\ new.ok = {} /\ new.failed = {}
      /\ new.cur = NoTarget /\ new.todo = B /\ new.vendorOk = TRUE /\ new.attempt = 1
    BY <1>1, <1>2, TaskFields DEF TaskPC
<1> HIDE DEF new
<1>4. TaskOK(n, new) /\ Accounted(n, new) /\ CurOK(n, new)
    BY <1>1, <1>3, PipelineAssumption DEF TaskOK, Accounted, CurOK, Settles, B
<1> QED
    BY <1>1, <1>3, <1>4, QuietStep DEF Settles

LEMMA QuotesReturnedOK ==
    ASSUME PInv, NEW n \in DOMAIN task, QuotesReturned(n)
    PROVE  PInv'
<1> DEFINE t == task[n]
<1>1. PICK buys \in SUBSET MayBuy(n), quoted \in BOOLEAN :
          task' = [task EXCEPT ![n] =
                     [t EXCEPT !.pc = IF quoted THEN "market" ELSE "done",
                               !.attempt = 1, !.vendorOk = TRUE,
                               !.todo = {flushed[n].indices[i].first : i \in buys}]]
    BY DEF QuotesReturned
<1> DEFINE firsts == {flushed[n].indices[i].first : i \in buys}
           end == IF quoted THEN "market" ELSE "done"
           new == [t EXCEPT !.pc = end, !.attempt = 1, !.vendorOk = TRUE, !.todo = firsts]
<1>2. /\ TaskOK(n, t) /\ t \in Task /\ t.pc = "vendor" /\ ~ IsSettle(n) /\ t.cur = NoTarget
      /\ t.ok = {} /\ t.failed = {}
      /\ UNCHANGED <<accVars, chainVars>> /\ task' = [task EXCEPT ![n] = new]
    BY <1>1 DEF PInv, TaskOK, Accounted, QuotesReturned
<1>3. end \in {"market", "done"}
    OBVIOUS
<1>4. firsts \subseteq Orders
  <2>1. n \in DOMAIN flushed
      BY DEF PInv, AccInv, Inv, TypeOK
  <2>2. FirstKnown(flushed[n].indices) /\ BatchOrders(flushed[n]) \subseteq Orders
      BY <2>1, BatchNumbers DEF PInv, AccInv
  <2>3. \A i \in buys : i \in Indices /\ flushed[n].indices[i].orders # {}
      BY DEF MayBuy, ActiveIndices
  <2>4. \A i \in buys : flushed[n].indices[i].first \in BatchOrders(flushed[n])
      BY <2>2, <2>3 DEF FirstKnown, BatchOrders
  <2> QED
      BY <2>2, <2>4
<1> HIDE DEF firsts, end
<1>5. /\ new \in Task /\ new.pc = end /\ new.cur = NoTarget /\ new.attempt = 1
      /\ new.ok = {} /\ new.failed = {}
    BY <1>2, <1>3, <1>4, TaskFields DEF TaskPC
<1> HIDE DEF new
<1>6. TaskOK(n, new) /\ Accounted(n, new) /\ CurOK(n, new)
    BY <1>2, <1>3, <1>5, PipelineAssumption DEF TaskOK, Accounted, CurOK, Settles
<1> QED
    BY <1>2, <1>5, <1>6, QuietStep

-----------------------------------------------------------------------------
(* The steps of the loops                                                  *)

\* What the invariant says of one task.
LEMMA OfTask ==
    ASSUME PInv, NEW n \in DOMAIN task
    PROVE  /\ TaskOK(n, task[n]) /\ Accounted(n, task[n]) /\ CurOK(n, task[n])
           /\ task[n] \in Task /\ n \in DOMAIN flushed /\ n \in 1 .. MaxOrders
           /\ IsSettle(n) => \A o \in task[n].ok : Included(n, o)
<1>1. flushed \in Seq(FlushRecord) /\ Len(flushed) \in 0 .. MaxOrders
    BY BatchNumbers DEF PInv, AccInv, Inv, TypeOK
<1>2. n \in DOMAIN flushed /\ n \in 1 .. MaxOrders
    BY <1>1, AccumulatorAssumption DEF PInv
<1> QED
    BY <1>2 DEF PInv, TaskOK

LEMMA PickTargetOK ==
    ASSUME PInv, NEW n \in DOMAIN task, PickTarget(n)
    PROVE  PInv'
<1> DEFINE t == task[n]
<1>1. PICK o \in IF t.pc = "orders" THEN NextOrders(n) ELSE t.todo :
          task' = [task EXCEPT ![n] = [t EXCEPT !.cur = o, !.attempt = 1]]
    BY DEF PickTarget
<1> DEFINE new == [t EXCEPT !.cur = o, !.attempt = 1]
<1>2. /\ TaskOK(n, t) /\ Accounted(n, t) /\ t \in Task /\ t.pc \in {"orders", "buys"}
      /\ IsSettle(n) => \A p \in t.ok : Included(n, p)
      /\ UNCHANGED <<accVars, chainVars>> /\ task' = [task EXCEPT ![n] = new]
    BY <1>1, OfTask DEF PickTarget
<1>3. o \in t.todo /\ (t.pc = "orders" /\ ~ info[o].deposit => SellsUp(t))
    BY <1>1 DEF NextOrders, SellsUp
<1>4. o \in Orders
    BY <1>2, <1>3 DEF Task
<1>5. /\ new \in Task /\ new.pc = t.pc /\ new.cur = o /\ new.todo = t.todo /\ new.attempt = 1
      /\ new.ok = t.ok /\ new.failed = t.failed /\ new.vendorOk = t.vendorOk
    BY <1>2, <1>4, TaskFields
<1> HIDE DEF new
<1>6. TaskOK(n, new) /\ Accounted(n, new) /\ CurOK(n, new)
    BY <1>2, <1>3, <1>5, PipelineAssumption DEF TaskOK, Accounted, CurOK, SellsUp, Settles
<1> QED
    BY <1>2, <1>5, <1>6, QuietStep

LEMMA LoopEndsOK ==
    ASSUME PInv, NEW n \in DOMAIN task, LoopEnds(n)
    PROVE  PInv'
<1> DEFINE t == task[n]
           new == [t EXCEPT !.pc = "done"]
<1>1. /\ TaskOK(n, t) /\ Accounted(n, t) /\ t \in Task /\ t.pc \in {"orders", "buys"}
      /\ t.todo = {} /\ t.cur = NoTarget
      /\ IsSettle(n) => \A o \in t.ok : Included(n, o)
      /\ UNCHANGED <<accVars, chainVars>> /\ task' = [task EXCEPT ![n] = new]
    BY OfTask DEF LoopEnds
<1>2. /\ new \in Task /\ new.pc = "done" /\ new.cur = NoTarget /\ new.todo = {}
      /\ new.ok = t.ok /\ new.failed = t.failed /\ new.vendorOk = t.vendorOk
    BY <1>1, TaskFields DEF TaskPC
<1> HIDE DEF new
<1>3. TaskOK(n, new) /\ Accounted(n, new) /\ CurOK(n, new)
    BY <1>1, <1>2 DEF TaskOK, Accounted, CurOK, Settles
<1> QED
    BY <1>1, <1>2, <1>3, QuietStep DEF Settles

\* The transaction a task sends says what the task knows.
LEMMA CurTxOK ==
    ASSUME PInv, NEW n \in DOMAIN task, Ready(n)
    PROVE  CurTx(n).batch = n /\ TxOK(CurTx(n), task[n])
<1> DEFINE t == task[n]
<1>1. /\ TaskOK(n, t) /\ Accounted(n, t) /\ CurOK(n, t) /\ t \in Task /\ n \in 1 .. MaxOrders
      /\ t.pc \in {"quotes", "orders", "market", "buys"}
      /\ t.pc \in {"orders", "buys"} => t.cur # NoTarget
    BY OfTask DEF Ready, Sending
<1>2. /\ CurTx(n).kind = KindAt(t.pc) /\ CurTx(n).batch = n
      /\ CurTx(n).target = t.cur /\ CurTx(n).attempt = t.attempt
    BY DEF CurTx
<1>3. /\ KindAt(t.pc) \in Kinds
      /\ KindAt(t.pc) \in {"quotes", "process"} => t.pc \in {"quotes", "orders"}
      /\ KindAt(t.pc) = "process" => t.pc = "orders"
    BY <1>1 DEF KindAt, Kinds
<1>4. CurTx(n) \in Tx
  <2>1. t.attempt \in 1 .. TxRetries
      BY <1>1, PipelineAssumption DEF TaskOK, Task
  <2>2. t.cur \in Orders \cup {NoTarget}
      BY <1>1 DEF Task
  <2> QED
      BY <1>1, <1>3, <2>1, <2>2 DEF CurTx, Tx
<1>5. KindAt(t.pc) \in {"quotes", "process"} => IsSettle(n) /\ t.pc \in Settles
    BY <1>1, <1>3 DEF TaskOK, Settles
<1>6. KindAt(t.pc) = "process" =>
          t.cur \in BatchOrders(flushed[n]) /\ (~ info[t.cur].deposit => SellsUp(t))
    BY <1>1, <1>3, <1>5 DEF CurOK, Accounted, Settles
<1> QED
    BY <1>2, <1>3, <1>4, <1>5, <1>6 DEF TxOK

LEMMA SendTxOK ==
    ASSUME PInv, NEW n \in DOMAIN task, SendTx(n)
    PROVE  PInv'
<1> DEFINE t == task[n]
           new == [t EXCEPT !.waiting = TRUE]
<1>1. /\ TaskOK(n, t) /\ Accounted(n, t) /\ CurOK(n, t) /\ t \in Task
      /\ IsSettle(n) => \A o \in t.ok : Included(n, o)
      /\ UNCHANGED accVars /\ UNCHANGED <<mined, reverted>>
      /\ mempool' = mempool \cup {CurTx(n)} /\ task' = [task EXCEPT ![n] = new]
    BY OfTask DEF SendTx
<1>2. /\ new \in Task /\ new.pc = t.pc /\ new.cur = t.cur /\ new.todo = t.todo
      /\ new.ok = t.ok /\ new.failed = t.failed /\ new.vendorOk = t.vendorOk
      /\ new.attempt = t.attempt
    BY <1>1, TaskFields
<1> HIDE DEF new
<1>3. TaskOK(n, new) /\ Accounted(n, new) /\ CurOK(n, new)
    BY <1>1, <1>2 DEF TaskOK, Accounted, CurOK, SellsUp
<1>4. ASSUME NEW tx, TxOK(tx, t) PROVE TxOK(tx, new)
    BY <1>2, <1>4 DEF TxOK, SellsUp
<1>5. CurTx(n).batch = n /\ TxOK(CurTx(n), new)
    BY <1>4, CurTxOK DEF SendTx
<1>6. \A tx \in AllTx' : \/ tx \in AllTx /\ (tx.batch = n => TxOK(tx, new))
                         \/ tx.batch = n /\ TxOK(tx, new)
    BY <1>1, <1>4, <1>5 DEF AllTx, PInv
<1>7. \A o \in new.ok : IsSettle(n) => Included(n, o)
    BY <1>1, <1>2
<1> QED
    BY <1>1, <1>2, <1>3, <1>6, <1>7, TaskSteps

\* The result of a call: the next stage, or one order less to do.
LEMMA ConcludeFields ==
    ASSUME NEW t \in Task, NEW success \in BOOLEAN,
           t.pc \in {"quotes", "orders", "market", "buys"},
           t.pc \in {"orders", "buys"} => t.cur # NoTarget
    PROVE  LET new == Conclude(t, success) IN
           /\ new \in Task /\ new.cur = NoTarget /\ new.attempt = 1
           /\ new.vendorOk = t.vendorOk
           /\ t.pc = "quotes" => new.pc = "orders"
           /\ t.pc = "market" => new.pc \in {"buys", "dropped"}
           /\ t.pc \in {"quotes", "market"} =>
                 new.todo = t.todo /\ new.ok = t.ok /\ new.failed = t.failed
           /\ t.pc \in {"orders", "buys"} =>
                 /\ new.pc = t.pc /\ new.todo = t.todo \ {t.cur}
                 /\ new.ok = IF success THEN t.ok \cup {t.cur} ELSE t.ok
                 /\ new.failed = IF success THEN t.failed ELSE t.failed \cup {t.cur}
<1> DEFINE Back(x) == [x EXCEPT !.cur = NoTarget, !.attempt = 1, !.waiting = FALSE]
<1>1. ASSUME NEW x \in Task
      PROVE  /\ Back(x) \in Task /\ Back(x).cur = NoTarget /\ Back(x).attempt = 1
             /\ Back(x).vendorOk = x.vendorOk /\ Back(x).pc = x.pc /\ Back(x).todo = x.todo
             /\ Back(x).ok = x.ok /\ Back(x).failed = x.failed
    BY TaskFields
<1>2. CASE t.pc = "quotes"
  <2> DEFINE x == [t EXCEPT !.pc = "orders"]
  <2>1. /\ x \in Task /\ x.pc = "orders" /\ x.vendorOk = t.vendorOk /\ x.todo = t.todo
        /\ x.ok = t.ok /\ x.failed = t.failed
      BY TaskFields DEF TaskPC
  <2>2. Conclude(t, success) = Back(x)
      BY <1>2 DEF Conclude
  <2> HIDE DEF x, Back
  <2> QED
      BY <1>1, <1>2, <2>1, <2>2
<1>3. CASE t.pc = "market"
  <2> DEFINE end == IF success THEN "buys" ELSE "dropped"
             x == [t EXCEPT !.pc = end]
  <2>1. Conclude(t, success) = Back(x)
      BY <1>3 DEF Conclude
  <2>2. end \in {"buys", "dropped"}
      OBVIOUS
  <2> HIDE DEF end
  <2>3. /\ x \in Task /\ x.pc = end /\ x.vendorOk = t.vendorOk /\ x.todo = t.todo
        /\ x.ok = t.ok /\ x.failed = t.failed
      BY <2>2, TaskFields DEF TaskPC
  <2> HIDE DEF x, Back
  <2> QED
      BY <1>1, <1>3, <2>1, <2>2, <2>3
<1>4. CASE t.pc \in {"orders", "buys"}
  <2> DEFINE x == OrderResult(t, success)
  <2>1. Conclude(t, success) = Back(x)
      BY <1>4 DEF Conclude
  <2>2. t.cur \in Orders
      BY <1>4, TaskFields
  <2>3. /\ x \in Task /\ x.pc = t.pc /\ x.vendorOk = t.vendorOk /\ x.todo = t.todo \ {t.cur}
        /\ x.ok = IF success THEN t.ok \cup {t.cur} ELSE t.ok
        /\ x.failed = IF success THEN t.failed ELSE t.failed \cup {t.cur}
    <3>1. CASE success
        BY <2>2, <3>1, TaskFields DEF OrderResult
    <3>2. CASE ~ success
        BY <2>2, <3>2, TaskFields DEF OrderResult
    <3> QED
        BY <3>1, <3>2
  <2> HIDE DEF x, Back
  <2> QED
      BY <1>1, <1>4, <2>1, <2>3
<1> QED
    BY <1>2, <1>3, <1>4

LEMMA ConcludeOK ==
    ASSUME PInv, UNCHANGED <<accVars, chainVars>>, NEW n \in DOMAIN task, Ready(n),
           NEW success \in BOOLEAN,
           task' = [task EXCEPT ![n] = Conclude(task[n], success)],
           success => CurTx(n) \in mined \cup reverted
    PROVE  PInv'
<1> DEFINE t == task[n]
           new == Conclude(t, success)
<1>1. /\ TaskOK(n, t) /\ Accounted(n, t) /\ CurOK(n, t) /\ t \in Task
      /\ IsSettle(n) => \A o \in t.ok : Included(n, o)
      /\ t.pc \in {"quotes", "orders", "market", "buys"}
      /\ t.pc \in {"orders", "buys"} => t.cur # NoTarget
    BY OfTask DEF Ready, Sending
<1>2. /\ new \in Task /\ new.cur = NoTarget /\ new.attempt = 1
      /\ new.vendorOk = t.vendorOk
      /\ t.pc = "quotes" => new.pc = "orders"
      /\ t.pc = "market" => new.pc \in {"buys", "dropped"}
      /\ t.pc \in {"quotes", "market"} =>
            new.todo = t.todo /\ new.ok = t.ok /\ new.failed = t.failed
      /\ t.pc \in {"orders", "buys"} =>
            /\ new.pc = t.pc /\ new.todo = t.todo \ {t.cur}
            /\ new.ok = IF success THEN t.ok \cup {t.cur} ELSE t.ok
            /\ new.failed = IF success THEN t.failed ELSE t.failed \cup {t.cur}
    BY <1>1, ConcludeFields
<1> HIDE DEF new
<1>3. TaskOK(n, new) /\ CurOK(n, new)
    BY <1>1, <1>2, PipelineAssumption DEF TaskOK, CurOK
<1>4. Accounted(n, new)
  <2>1. CASE t.pc = "orders"
    <3>1. t.cur \in t.todo /\ IsSettle(n)
        BY <1>1, <2>1 DEF TaskOK, CurOK
    <3>2. /\ t.vendorOk = TRUE /\ t.todo \cup t.ok \cup t.failed = BatchOrders(flushed[n])
          /\ t.ok \cap t.failed = {} /\ (t.ok \cup t.failed) \cap t.todo = {}
        BY <1>1, <2>1, <3>1 DEF Accounted, Settles
    <3>3. CASE success
        BY <1>2, <2>1, <3>1, <3>2, <3>3 DEF Accounted, Settles
    <3>4. CASE ~ success
        BY <1>2, <2>1, <3>1, <3>2, <3>4 DEF Accounted, Settles
    <3> QED
        BY <3>3, <3>4
  <2>2. CASE t.pc = "quotes"
      BY <1>1, <1>2, <2>2 DEF Accounted, Settles
  <2>3. CASE t.pc = "market"
      BY <1>1, <1>2, <2>3 DEF Accounted, TaskOK
  <2>4. CASE t.pc = "buys"
    <3>1. /\ t.cur \in t.todo /\ ~ IsSettle(n) /\ new.pc = "buys"
          /\ (t.ok \cup t.failed) \cap t.todo = {}
        BY <1>1, <1>2, <2>4 DEF TaskOK, CurOK, Accounted
    <3>2. new.ok \cup new.failed = t.ok \cup t.failed \cup {t.cur}
        BY <1>2, <2>4
    <3> QED
        BY <1>2, <2>4, <3>1, <3>2 DEF Accounted
  <2> QED
      BY <1>1, <2>1, <2>2, <2>3, <2>4
<1>5. IsSettle(n) => \A o \in new.ok : Included(n, o)
  <2> SUFFICES ASSUME IsSettle(n), NEW o \in new.ok PROVE Included(n, o)
      OBVIOUS
  <2>1. CASE o \in t.ok
      BY <1>1, <2>1
  <2>2. CASE o \notin t.ok
    <3>1. t.pc = "orders" /\ success /\ o = t.cur
        BY <1>1, <1>2, <2>2 DEF TaskOK
    <3>2. CurTx(n).batch = n /\ CurTx(n).kind = "process" /\ CurTx(n).target = o
        BY <3>1 DEF CurTx, KindAt
    <3> QED
        BY <3>1, <3>2 DEF Included
  <2> QED
      BY <2>1, <2>2
<1>6. IsSettle(n) /\ t.pc \in Settles => new.pc \in Settles
    BY <1>1, <1>2 DEF Settles, TaskOK
<1>7. IsSettle(n) /\ t.pc \in {"orders", "done"} =>
          new.pc \in {"orders", "done"} /\ new.todo \subseteq t.todo
    BY <1>1, <1>2
<1>8. task' = [task EXCEPT ![n] = new]
    BY DEF new
<1> QED
    BY <1>3, <1>4, <1>5, <1>6, <1>7, <1>8, QuietStep

LEMMA ReceiptOK ==
    ASSUME PInv, NEW n \in DOMAIN task, Receipt(n)
    PROVE  PInv'
BY ConcludeOK DEF Receipt

LEMMA AttemptFailsOK ==
    ASSUME PInv, NEW n \in DOMAIN task, AttemptFails(n)
    PROVE  PInv'
<1> DEFINE t == task[n]
<1>1. CASE t.attempt < TxRetries
  <2> DEFINE new == NextAttempt(t)
  <2>1. /\ TaskOK(n, t) /\ Accounted(n, t) /\ CurOK(n, t) /\ t \in Task
        /\ IsSettle(n) => \A o \in t.ok : Included(n, o)
        /\ UNCHANGED <<accVars, chainVars>> /\ task' = [task EXCEPT ![n] = new]
      BY <1>1, OfTask DEF AttemptFails
  <2>2. /\ new \in Task /\ new.pc = t.pc /\ new.cur = t.cur /\ new.todo = t.todo
        /\ new.ok = t.ok /\ new.failed = t.failed /\ new.vendorOk = t.vendorOk
        /\ new.attempt = t.attempt + 1
      BY <2>1, TaskFields DEF NextAttempt
  <2>3. t.attempt + 1 <= TxRetries
      BY <1>1, <2>1, PipelineAssumption DEF Task
  <2> HIDE DEF new
  <2>4. TaskOK(n, new) /\ Accounted(n, new) /\ CurOK(n, new)
      BY <2>1, <2>2, <2>3 DEF TaskOK, Accounted, CurOK, SellsUp
  <2> QED
      BY <2>1, <2>2, <2>4, QuietStep
<1>2. CASE ~ (t.attempt < TxRetries)
  <2>1. task' = [task EXCEPT ![n] = Conclude(t, FALSE)]
        /\ UNCHANGED <<accVars, chainVars>> /\ Ready(n)
      BY <1>2 DEF AttemptFails
  <2> QED
      BY <2>1, ConcludeOK
<1> QED
    BY <1>1, <1>2

-----------------------------------------------------------------------------
(* The accumulator and the chain                                            *)

\* Steps in which no task moves and no transaction is sent.
LEMMA TasksRest ==
    ASSUME PInv, AccInv', flushed' = flushed, info' = info, task' = task,
           AllTx' \subseteq AllTx, mined \subseteq mined', reverted \subseteq reverted'
    PROVE  PInv'
<1>1. ASSUME NEW n \in DOMAIN task, NEW t
      PROVE  /\ TaskOK(n, t) => TaskOK(n, t)'
             /\ Accounted(n, t) => Accounted(n, t)'
             /\ CurOK(n, t) => CurOK(n, t)'
    BY DEF TaskOK, Accounted, CurOK, SellsUp, IsSettle, BatchOrders
<1>2. ASSUME NEW tx, NEW t PROVE TxOK(tx, t) => TxOK(tx, t)'
    BY DEF TxOK, SellsUp, IsSettle, BatchOrders
<1>3. ASSUME NEW n, NEW o, Included(n, o) PROVE Included(n, o)'
    BY <1>3 DEF Included
<1>4. \A tx \in AllTx' : tx.batch \in DOMAIN task' /\ TxOK(tx, task[tx.batch])'
    BY <1>2 DEF PInv
<1>5. \A n \in DOMAIN task' : TaskOK(n, task[n])' /\ Accounted(n, task[n])' /\ CurOK(n, task[n])'
    BY <1>1 DEF PInv
<1>6. \A n \in DOMAIN task' : IsSettle(n)' => \A o \in task'[n].ok : Included(n, o)'
    BY <1>3 DEF PInv, IsSettle
<1> QED
    BY <1>4, <1>5, <1>6 DEF PInv

LEMMA AccumulateOK == PInv /\ AccInv' /\ Accumulate => PInv'
<1> SUFFICES ASSUME PInv, AccInv', Accumulate PROVE PInv'
    OBVIOUS
<1>1. flushed' = flushed /\ info' = info /\ task' = task
      /\ AllTx' = AllTx /\ mined' = mined /\ reverted' = reverted
    BY DEF Accumulate, SubmitOrder, WindowElapses, Receive, ReceiverCheck, KeeperTick, LoadBlock,
       chainVars, AllTx
<1> QED
    BY <1>1, TasksRest

LEMMA MineOK ==
    ASSUME PInv, NEW tx \in mempool, Mine(tx)
    PROVE  PInv'
<1>1. AccInv'
    BY AccInvNext DEF PInv, Mine
<1>2. flushed' = flushed /\ info' = info /\ task' = task
      /\ AllTx' \subseteq AllTx /\ mined \subseteq mined' /\ reverted \subseteq reverted'
    BY DEF Mine, accVars, AllTx
<1> QED
    BY <1>1, <1>2, TasksRest

LEMMA NewTaskFields ==
    ASSUME NEW a \in Actors
    PROVE  /\ NewTask(a) \in Task
           /\ NewTask(a).pc = IF a = Keeper THEN "extract" ELSE "vendor"
           /\ NewTask(a).cur = NoTarget /\ NewTask(a).ok = {} /\ NewTask(a).failed = {}
BY DEF NewTask, Task, TaskPC

LEMMA SpawnOK ==
    ASSUME PInv, AccInv', NEW a \in Actors, Spawn(a)
    PROVE  PInv'
<1>0. /\ AccInv /\ FlushBatch(a) /\ AllTx' = AllTx /\ mined' = mined /\ reverted' = reverted
      /\ task' = IF flushed' = flushed THEN task ELSE Append(task, NewTask(a))
    BY DEF PInv, Spawn, chainVars, AllTx
<1>1. CASE flushed' = flushed
  <2>1. info' = info /\ task' = task
      BY <1>0, <1>1 DEF FlushBatch
  <2> QED
      BY <1>0, <1>1, <2>1, TasksRest
<1>2. CASE flushed' # flushed
  <2> DEFINE r == [by |-> a, trigger |-> FlushTrigger(batch), indices |-> batch.indices]
             new == NewTask(a)
  <2>0. PICK k : k = Len(flushed)
      OBVIOUS
  <2>1. /\ flushed' = Append(flushed, r) /\ info' = info /\ task' = Append(task, new) /\ r.by = a
        /\ flushed \in Seq(FlushRecord) /\ task \in Seq(Task) /\ Len(task) = k
        /\ Len(flushed) = k
      BY <1>0, <1>2, <2>0 DEF FlushBatch, PInv, AccInv, Inv, TypeOK
  <2>2. /\ new \in Task /\ new.pc = (IF a = Keeper THEN "extract" ELSE "vendor")
        /\ new.cur = NoTarget /\ new.ok = {} /\ new.failed = {}
      BY NewTaskFields
  <2> HIDE DEF r, new
  <2>3. /\ k \in Nat /\ DOMAIN task = 1 .. k /\ DOMAIN task' = 1 .. k + 1
        /\ DOMAIN flushed' = 1 .. k + 1 /\ flushed'[k + 1] = r /\ task'[k + 1] = new
        /\ \A n \in 1 .. k : flushed'[n] = flushed[n] /\ task'[n] = task[n]
        /\ task' \in Seq(Task) /\ Len(task') = Len(flushed')
      BY <2>1, <2>2
  <2>4. IsSettle(k + 1)' <=> a = Keeper
      BY <2>1, <2>3 DEF IsSettle
  <2>5. TaskOK(k + 1, new)' /\ Accounted(k + 1, new)' /\ CurOK(k + 1, new)'
      BY <2>2, <2>4 DEF TaskOK, Accounted, CurOK, Settles
  <2>6. ASSUME NEW n \in 1 .. k, NEW t
        PROVE  /\ TaskOK(n, t) => TaskOK(n, t)'
               /\ Accounted(n, t) => Accounted(n, t)'
               /\ CurOK(n, t) => CurOK(n, t)'
               /\ IsSettle(n)' <=> IsSettle(n)
      BY <2>1, <2>3 DEF TaskOK, Accounted, CurOK, SellsUp, IsSettle, BatchOrders
  <2>7. ASSUME NEW tx, tx.batch \in 1 .. k, NEW t PROVE TxOK(tx, t) => TxOK(tx, t)'
      BY <2>1, <2>3, <2>7 DEF TxOK, SellsUp, IsSettle, BatchOrders
  <2>8. ASSUME NEW n, NEW o, Included(n, o) PROVE Included(n, o)'
      BY <1>0, <2>8 DEF Included
  <2>9. \A tx \in AllTx' : tx.batch \in DOMAIN task' /\ TxOK(tx, task[tx.batch])'
      BY <1>0, <2>3, <2>7 DEF PInv
  <2>10. \A n \in DOMAIN task' :
             TaskOK(n, task[n])' /\ Accounted(n, task[n])' /\ CurOK(n, task[n])'
    <3> SUFFICES ASSUME NEW n \in 1 .. k + 1
                 PROVE  TaskOK(n, task[n])' /\ Accounted(n, task[n])' /\ CurOK(n, task[n])'
        BY <2>3
    <3>1. CASE n \in 1 .. k
        BY <2>3, <2>6, <3>1 DEF PInv
    <3>2. CASE n = k + 1
        BY <2>3, <2>5, <3>2
    <3> QED
        BY <2>3, <3>1, <3>2
  <2>11. \A n \in DOMAIN task' : IsSettle(n)' => \A o \in task'[n].ok : Included(n, o)'
    <3> SUFFICES ASSUME NEW n \in 1 .. k + 1, IsSettle(n)', NEW o \in task'[n].ok
                 PROVE  Included(n, o)'
        BY <2>3
    <3>1. CASE n \in 1 .. k
        BY <2>3, <2>6, <2>8, <3>1 DEF PInv
    <3>2. CASE n = k + 1
        BY <2>2, <2>3, <3>2
    <3> QED
        BY <2>3, <3>1, <3>2
  <2> QED
      BY <2>3, <2>9, <2>10, <2>11 DEF PInv
<1> QED
    BY <1>1, <1>2

-----------------------------------------------------------------------------
(* The theorems                                                            *)

LEMMA PipelineInitInv == PipelineInit => PInv
<1> SUFFICES ASSUME PipelineInit PROVE PInv
    OBVIOUS
<1>1. AccInv
    BY AccInvInit DEF PipelineInit
<1>2. task = <<>> /\ flushed = <<>> /\ AllTx = {}
    BY DEF PipelineInit, Init, AllTx
<1> QED
    BY <1>1, <1>2 DEF PInv

LEMMA PipelineNextInv == PInv /\ [PipelineNext]_vars => PInv'
<1> SUFFICES ASSUME PInv, [PipelineNext]_vars PROVE PInv'
    OBVIOUS
<1>0. AccInv'
    BY AccumulatorSteps, AccInvNext DEF PInv
<1>1. CASE Accumulate
    BY <1>0, <1>1, AccumulateOK
<1>2. CASE \E a \in Actors : Spawn(a)
    BY <1>0, <1>2, SpawnOK
<1>3. CASE \E n \in DOMAIN task : TaskStep(n)
  <2>1. PICK n \in DOMAIN task : TaskStep(n)
      BY <1>3
  <2> QED
      BY <2>1, ExtractAssetsOK, VendorFailsOK, VendorConfirms, QuotesReturnedOK, PickTargetOK,
         SendTxOK, ReceiptOK, AttemptFailsOK, LoopEndsOK DEF TaskStep
<1>4. CASE \E tx \in mempool : Mine(tx)
    BY <1>4, MineOK
<1>5. CASE UNCHANGED vars
    BY <1>0, <1>5, TasksRest DEF vars, accVars, chainVars, AllTx
<1> QED
    BY <1>1, <1>2, <1>3, <1>4, <1>5 DEF PipelineNext

LEMMA PInvAlways == PipelineSpec => []PInv
BY PipelineInitInv, PipelineNextInv, PTL DEF PipelineSpec

\* The tasks and the chain are well typed for any number of batches: no attempt
\* number exceeds the retries, and a task exists for each flushed batch.
THEOREM PipelineTypeCorrect == PipelineSpec => []PipelineTypeOK
<1>1. PInv => PipelineTypeOK
    BY DEF PInv, AccInv, Inv, PipelineTypeOK, TxOK
<1> QED
    BY <1>1, PInvAlways, PTL

\* Whatever fails, is lost or mined late: nothing of a batch is settled without
\* the Vendor's confirmation of that batch, and its sell orders wait for the
\* results of all its buy orders.
THEOREM SettlementInOrder == PipelineSpec => []SettlementOrder
<1>1. PInv => SettlementOrder
  <2> SUFFICES ASSUME PInv, NEW tx \in AllTx, tx.kind \in {"quotes", "process"}
               PROVE  /\ task[tx.batch].vendorOk /\ task[tx.batch].pc # "dropped"
                      /\ tx.kind = "process" =>
                            /\ tx.target \in BatchOrders(flushed[tx.batch])
                            /\ task[tx.batch].pc \in {"orders", "done"}
                            /\ ~ info[tx.target].deposit =>
                                  \A o \in BatchOrders(flushed[tx.batch]) :
                                      info[o].deposit =>
                                          o \in task[tx.batch].ok \cup task[tx.batch].failed
      BY DEF SettlementOrder
  <2> DEFINE n == tx.batch
             t == task[n]
  <2>1. n \in DOMAIN task /\ TxOK(tx, t) /\ Accounted(n, t)
      BY DEF PInv
  <2>2. IsSettle(n) /\ t.pc \in Settles
      BY <2>1 DEF TxOK
  <2>3. t.vendorOk = TRUE /\ t.todo \cup t.ok \cup t.failed = BatchOrders(flushed[n])
      BY <2>1, <2>2 DEF Accounted
  <2> QED
      BY <2>1, <2>2, <2>3 DEF TxOK, SellsUp, Settles
<1> QED
    BY <1>1, PInvAlways, PTL

\* When settle_batch() returns, its successes and failures partition the batch,
\* and each success was included in a block.
THEOREM ResultsAccount == PipelineSpec => []ResultsAccountForBatch
<1>1. PInv => ResultsAccountForBatch
  <2> SUFFICES ASSUME PInv, NEW n \in DOMAIN task, IsSettle(n)
               PROVE  /\ task[n].ok \cap task[n].failed = {}
                      /\ task[n].pc = "done" =>
                            task[n].ok \cup task[n].failed = BatchOrders(flushed[n])
                      /\ \A o \in task[n].ok :
                            TxFor(n, "process", o) \cap (mined \cup reverted) # {}
      BY DEF ResultsAccountForBatch
  <2>1. Accounted(n, task[n]) /\ TaskOK(n, task[n])
      BY DEF PInv
  <2>2. \A o \in task[n].ok : TxFor(n, "process", o) \cap (mined \cup reverted) # {}
      BY DEF PInv, Included, TxFor, AllTx
  <2> QED
      BY <2>1, <2>2 DEF Accounted, TaskOK, Settles
<1> QED
    BY <1>1, PInvAlways, PTL

\* Once an order or an index has its result, no task sends anything for it again.
THEOREM NothingAfterResult == PipelineSpec => NoSendAfterResult
<1>1. ASSUME PInv, [PipelineNext]_vars, NEW n \in DOMAIN task,
             NEW o \in task[n].ok \cup task[n].failed, NEW kind \in {"process", "buy"}
      PROVE  TxFor(n, kind, o)' \subseteq TxFor(n, kind, o)
  <2>1. CASE AllTx' \subseteq AllTx
      BY <2>1 DEF TxFor
  <2>2. CASE \E m \in DOMAIN task : SendTx(m)
    <3>1. PICK m \in DOMAIN task : SendTx(m)
        BY <2>2
    <3>2. AllTx' = AllTx \cup {CurTx(m)} /\ Ready(m)
        BY <3>1 DEF SendTx, AllTx
    <3>3. ~ (CurTx(m).batch = n /\ CurTx(m).kind = kind /\ CurTx(m).target = o)
      <4> SUFFICES ASSUME m = n, KindAt(task[n].pc) = kind, task[n].cur = o
                   PROVE  FALSE
          BY DEF CurTx
      <4>1. task[n].pc \in {"orders", "buys"}
          BY DEF KindAt
      <4>2. task[n].cur # NoTarget
          BY <3>2, <4>1 DEF Ready
      <4>3. task[n].cur \in task[n].todo
          BY <1>1, <4>2 DEF PInv, CurOK
      <4> QED
          BY <1>1, <4>3 DEF PInv, Accounted
    <3> QED
        BY <3>2, <3>3 DEF TxFor
  <2>3. CASE UNCHANGED vars
      BY <2>3 DEF TxFor, AllTx, vars, chainVars
  <2>4. CASE \E m \in DOMAIN task : TaskStep(m) /\ ~ SendTx(m)
      BY <2>1, <2>4, TaskStepQuiet DEF chainVars, AllTx
  <2>5. CASE Accumulate \/ \E a \in Actors : Spawn(a)
      BY <2>1, <2>5 DEF Accumulate, Spawn, chainVars, AllTx
  <2>6. CASE \E tx \in mempool : Mine(tx)
      BY <2>1, <2>6 DEF Mine, AllTx
  <2> QED
      BY <1>1, <2>2, <2>3, <2>4, <2>5, <2>6 DEF PipelineNext
<1>2. PInv /\ [PipelineNext]_vars =>
          [\A n \in DOMAIN task : \A o \in task[n].ok \cup task[n].failed :
              \A kind \in {"process", "buy"} :
                  TxFor(n, kind, o)' \subseteq TxFor(n, kind, o)]_vars
    BY <1>1
<1> QED
    BY <1>2, PInvAlways, PTL DEF PipelineSpec, NoSendAfterResult

-----------------------------------------------------------------------------
(* The Keeper implements OrderLifecycle                                     *)

Outcomes == {"ok", "failed", "dropped", "merged"}

\* The status of an order by where it is.
StatusTable ==
    \A o \in Orders :
        /\ o > submitted => OrderStatus(o) = "new"
        /\ o \in received + 1 .. submitted => OrderStatus(o) = "queued"
        /\ o \in BatchOrders(batch) => OrderStatus(o) = "batched"
        /\ \A n \in DOMAIN flushed :
              o \in BatchOrders(flushed[n]) => OrderStatus(o) = TaskStatus(n, o)
        /\ \/ o > submitted
           \/ o \in received + 1 .. submitted
           \/ o \in BatchOrders(batch)
           \/ \E n \in DOMAIN flushed : o \in BatchOrders(flushed[n])

LEMMA StatusKnown == PInv => StatusTable
<1> SUFFICES ASSUME PInv, NEW o \in Orders
             PROVE  /\ o > submitted => OrderStatus(o) = "new"
                    /\ o \in received + 1 .. submitted => OrderStatus(o) = "queued"
                    /\ o \in BatchOrders(batch) => OrderStatus(o) = "batched"
                    /\ \A n \in DOMAIN flushed :
                          o \in BatchOrders(flushed[n]) => OrderStatus(o) = TaskStatus(n, o)
                    /\ \/ o > submitted
                       \/ o \in received + 1 .. submitted
                       \/ o \in BatchOrders(batch)
                       \/ \E n \in DOMAIN flushed : o \in BatchOrders(flushed[n])
    BY DEF StatusTable
<1>1. /\ submitted \in Nat /\ received \in Nat /\ received <= submitted /\ o \in Nat \ {0}
      /\ OrdersAccounted
    BY AccumulatorAssumption DEF PInv, AccInv, Inv, TypeOK, Orders
<1>2. o > submitted => OrderStatus(o) = "new"
  <2> SUFFICES ASSUME o > submitted PROVE OrderStatus(o) = "new"
      OBVIOUS
  <2>1. o \notin received + 1 .. submitted /\ o \notin BatchOrders(batch)
      BY <1>1 DEF OrdersAccounted
  <2> QED
      BY <2>1 DEF OrderStatus
<1>3. o \in received + 1 .. submitted => OrderStatus(o) = "queued"
  <2> SUFFICES ASSUME o \in received + 1 .. submitted PROVE OrderStatus(o) = "queued"
      OBVIOUS
  <2>1. ~ o > submitted /\ o \notin BatchOrders(batch)
      BY <1>1 DEF OrdersAccounted
  <2> QED
      BY <2>1 DEF OrderStatus
<1>4. o \in BatchOrders(batch) => o \in 1 .. received
    BY <1>1 DEF OrdersAccounted
<1>5. o \in BatchOrders(batch) => OrderStatus(o) = "batched"
    BY <1>1, <1>4 DEF OrderStatus
<1>6. ASSUME NEW n \in DOMAIN flushed, o \in BatchOrders(flushed[n])
      PROVE  OrderStatus(o) = TaskStatus(n, o)
  <2>1. o \in 1 .. received /\ o \notin BatchOrders(batch)
      BY <1>1, <1>6 DEF OrdersAccounted, FlushedOrders
  <2>2. ~ o > submitted /\ o \notin received + 1 .. submitted
      BY <1>1, <2>1
  <2>3. n = BatchOf(o)
      BY <1>1, <1>6 DEF OrdersAccounted, BatchOf
  <2> QED
      BY <2>1, <2>2, <2>3 DEF OrderStatus
<1>7. \/ o > submitted
      \/ o \in received + 1 .. submitted
      \/ o \in BatchOrders(batch)
      \/ \E n \in DOMAIN flushed : o \in BatchOrders(flushed[n])
    BY <1>1 DEF OrdersAccounted, FlushedOrders
<1> QED
    BY <1>2, <1>3, <1>5, <1>6, <1>7

LEMMA StatusKnownNext == PInv' => StatusTable'
BY StatusKnown, PTL

\* Steps in which every order stays where it is.
LEMMA StatusStays ==
    ASSUME StatusTable, StatusTable',
           submitted' = submitted, received' = received, flushed' = flushed, task' = task,
           BatchOrders(batch)' = BatchOrders(batch)
    PROVE  \A o \in Orders : OrderStatus(o)' = OrderStatus(o)
<1>1. \A n \in DOMAIN flushed, o \in Orders : TaskStatus(n, o)' = TaskStatus(n, o)
    BY DEF TaskStatus, IsSettle
<1>2. \A n \in DOMAIN flushed : BatchOrders(flushed[n])' = BatchOrders(flushed[n])
    BY DEF BatchOrders
<1> SUFFICES ASSUME NEW o \in Orders PROVE OrderStatus(o)' = OrderStatus(o)
    OBVIOUS
<1>3. CASE o > submitted
    BY <1>3 DEF StatusTable
<1>4. CASE o \in received + 1 .. submitted
    BY <1>4 DEF StatusTable
<1>5. CASE o \in BatchOrders(batch)
    BY <1>5 DEF StatusTable
<1>6. CASE \E n \in DOMAIN flushed : o \in BatchOrders(flushed[n])
  <2>1. PICK n \in DOMAIN flushed : o \in BatchOrders(flushed[n])
      BY <1>6
  <2> QED
      BY <1>1, <1>2, <2>1 DEF StatusTable
<1> QED
    BY <1>3, <1>4, <1>5, <1>6 DEF StatusTable

\* The status of an order in flight, by the state of its task.
FateTable ==
    \A n \in DOMAIN task : \A o \in Orders :
        /\ task[n].pc = "dropped" => TaskStatus(n, o) = "dropped"
        /\ IsSettle(n) /\ o \in task[n].ok => TaskStatus(n, o) = "ok"
        /\ IsSettle(n) /\ o \in task[n].failed => TaskStatus(n, o) = "failed"
        /\ ~ IsSettle(n) /\ task[n].pc = "done" => TaskStatus(n, o) = "merged"
        /\ IsSettle(n) /\ task[n].pc # "dropped" /\ o \notin task[n].ok \cup task[n].failed
              => TaskStatus(n, o) = "inflight"
        /\ ~ IsSettle(n) /\ task[n].pc \notin {"dropped", "done"}
              => TaskStatus(n, o) = "inflight"

LEMMA FateKnown == PInv => FateTable
<1> SUFFICES ASSUME PInv, NEW n \in DOMAIN task, NEW o \in Orders
             PROVE  /\ task[n].pc = "dropped" => TaskStatus(n, o) = "dropped"
                    /\ IsSettle(n) /\ o \in task[n].ok => TaskStatus(n, o) = "ok"
                    /\ IsSettle(n) /\ o \in task[n].failed => TaskStatus(n, o) = "failed"
                    /\ ~ IsSettle(n) /\ task[n].pc = "done" => TaskStatus(n, o) = "merged"
                    /\ IsSettle(n) /\ task[n].pc # "dropped" /\ o \notin task[n].ok \cup task[n].failed
                          => TaskStatus(n, o) = "inflight"
                    /\ ~ IsSettle(n) /\ task[n].pc \notin {"dropped", "done"}
                          => TaskStatus(n, o) = "inflight"
    BY DEF FateTable
<1>1. Accounted(n, task[n]) /\ TaskOK(n, task[n])
    BY DEF PInv
<1>2. task[n].pc = "dropped" => task[n].ok = {} /\ task[n].failed = {}
    BY <1>1 DEF Accounted
<1>3. IsSettle(n) => task[n].ok \cap task[n].failed = {}
    BY <1>1 DEF Accounted, TaskOK, Settles
<1> QED
    BY <1>2, <1>3 DEF TaskStatus

LEMMA FateKnownNext == PInv' => FateTable'
BY FateKnown, PTL

\* What one step of a task does to its state: nothing an order would notice, the
\* end of the batch, or the result of one order.
Noticed(n) ==
    \/ /\ task'[n].pc \notin {"dropped", "done"}
       /\ task'[n].ok = task[n].ok /\ task'[n].failed = task[n].failed
    \/ /\ task'[n].pc \in {"dropped", "done"}
       /\ task'[n].ok = task[n].ok /\ task'[n].failed = task[n].failed
       /\ task'[n].pc = "dropped" => task[n].ok = {} /\ task[n].failed = {}
    \/ /\ task'[n].pc \notin {"dropped", "done"} /\ ~ IsSettle(n)
    \/ /\ task'[n].pc = "orders"
       /\ \E c \in Orders \ (task[n].ok \cup task[n].failed) :
             \/ task'[n].ok = task[n].ok \cup {c} /\ task'[n].failed = task[n].failed
             \/ task'[n].ok = task[n].ok /\ task'[n].failed = task[n].failed \cup {c}

LEMMA ConcludeNoticed ==
    ASSUME PInv, NEW n \in DOMAIN task, Ready(n), NEW success \in BOOLEAN,
           task' = [task EXCEPT ![n] = Conclude(task[n], success)]
    PROVE  Noticed(n)
<1> DEFINE t == task[n]
           new == Conclude(t, success)
<1>1. /\ TaskOK(n, t) /\ Accounted(n, t) /\ CurOK(n, t) /\ t \in Task
      /\ t.pc \in {"quotes", "orders", "market", "buys"}
      /\ t.pc \in {"orders", "buys"} => t.cur # NoTarget
    BY OfTask DEF Ready, Sending
<1>2. /\ t.pc = "quotes" => new.pc = "orders"
      /\ t.pc = "market" => new.pc \in {"buys", "dropped"}
      /\ t.pc \in {"quotes", "market"} => new.ok = t.ok /\ new.failed = t.failed
      /\ t.pc \in {"orders", "buys"} =>
            /\ new.pc = t.pc
            /\ new.ok = IF success THEN t.ok \cup {t.cur} ELSE t.ok
            /\ new.failed = IF success THEN t.failed ELSE t.failed \cup {t.cur}
    BY <1>1, ConcludeFields
<1>3. task'[n] = new
    OBVIOUS
<1> HIDE DEF new
<1>4. CASE t.pc \in {"quotes", "market"}
    BY <1>1, <1>2, <1>3, <1>4 DEF Noticed, Accounted
<1>5. CASE t.pc = "buys"
    BY <1>1, <1>2, <1>3, <1>5 DEF Noticed, TaskOK
<1>6. CASE t.pc = "orders"
  <2>1. t.cur \in Orders \ (t.ok \cup t.failed)
      BY <1>1, <1>6 DEF CurOK, Accounted, Task
  <2> QED
      BY <1>2, <1>3, <1>6, <2>1 DEF Noticed
<1> QED
    BY <1>1, <1>4, <1>5, <1>6

LEMMA PickNoticed ==
    ASSUME PInv, NEW n \in DOMAIN task, PickTarget(n)
    PROVE  /\ UNCHANGED accVars /\ DOMAIN task' = DOMAIN task
           /\ \A m \in DOMAIN task : m # n => task'[m] = task[m]
           /\ task[n].pc \notin {"dropped", "done"}
           /\ Noticed(n)
<1> DEFINE t == task[n]
<1>1. PICK o \in IF t.pc = "orders" THEN NextOrders(n) ELSE t.todo :
          task' = [task EXCEPT ![n] = [t EXCEPT !.cur = o, !.attempt = 1]]
    BY DEF PickTarget
<1> DEFINE new == [t EXCEPT !.cur = o, !.attempt = 1]
<1>2. /\ t \in Task /\ t.pc \in {"orders", "buys"}
      /\ UNCHANGED accVars /\ task' = [task EXCEPT ![n] = new]
    BY <1>1, OfTask DEF PickTarget
<1>3. new.pc = t.pc /\ new.ok = t.ok /\ new.failed = t.failed
    BY <1>2, TaskFields
<1> HIDE DEF new
<1> QED
    BY <1>2, <1>3 DEF Noticed

LEMMA QuotesNoticed ==
    ASSUME PInv, NEW n \in DOMAIN task, QuotesReturned(n)
    PROVE  /\ UNCHANGED accVars /\ DOMAIN task' = DOMAIN task
           /\ \A m \in DOMAIN task : m # n => task'[m] = task[m]
           /\ task[n].pc \notin {"dropped", "done"}
           /\ Noticed(n)
<1> DEFINE t == task[n]
<1>1. PICK buys \in SUBSET MayBuy(n), quoted \in BOOLEAN :
          task' = [task EXCEPT ![n] =
                     [t EXCEPT !.pc = IF quoted THEN "market" ELSE "done",
                               !.attempt = 1, !.vendorOk = TRUE,
                               !.todo = {flushed[n].indices[i].first : i \in buys}]]
    BY DEF QuotesReturned
<1> DEFINE todo == {flushed[n].indices[i].first : i \in buys}
           new == [t EXCEPT !.pc = IF quoted THEN "market" ELSE "done",
                            !.attempt = 1, !.vendorOk = TRUE, !.todo = todo]
<1>2. t \in Task /\ t.pc = "vendor" /\ ~ IsSettle(n) /\ UNCHANGED accVars
    BY OfTask DEF QuotesReturned
<1>3. task' = [task EXCEPT ![n] = new]
    BY <1>1
<1> HIDE DEF todo
<1>4. new.pc \in {"market", "done"} /\ new.ok = t.ok /\ new.failed = t.failed
    BY <1>2, TaskFields
<1> HIDE DEF new
<1> QED
    BY <1>2, <1>3, <1>4 DEF Noticed

LEMMA TaskStepNoticed ==
    ASSUME PInv, NEW n \in DOMAIN task, TaskStep(n)
    PROVE  /\ UNCHANGED accVars /\ DOMAIN task' = DOMAIN task
           /\ \A m \in DOMAIN task : m # n => task'[m] = task[m]
           /\ task[n].pc \notin {"dropped", "done"}
           /\ Noticed(n)
<1> DEFINE t == task[n]
<1>0. UNCHANGED accVars
    BY TaskStepQuiet
<1>1. t \in Task /\ TaskOK(n, t) /\ Accounted(n, t) /\ task \in Seq(Task)
    BY OfTask DEF PInv
<1>2. CASE ExtractAssets(n)
    BY <1>1, <1>2, TaskFields DEF ExtractAssets, Noticed, Accounted
<1>3. CASE VendorFails(n)
    BY <1>1, <1>3, TaskFields DEF VendorFails, NextAttempt, Noticed, Accounted
<1>4. CASE VendorOk(n)
  <2> DEFINE todo == BatchOrders(flushed[n])
             new == [t EXCEPT !.pc = "quotes", !.attempt = 1, !.vendorOk = TRUE, !.todo = todo]
  <2>1. new.pc = "quotes" /\ new.ok = t.ok /\ new.failed = t.failed
      BY <1>1, TaskFields
  <2>2. task' = [task EXCEPT ![n] = new]
      BY <1>4 DEF VendorOk
  <2>3. t.pc = "vendor"
      BY <1>4 DEF VendorOk
  <2> HIDE DEF new
  <2> QED
      BY <1>0, <1>1, <2>1, <2>2, <2>3 DEF Noticed
<1>5. CASE QuotesReturned(n)
    BY <1>5, QuotesNoticed
<1>6. CASE PickTarget(n)
    BY <1>6, PickNoticed
<1>7. CASE SendTx(n)
    BY <1>1, <1>7, TaskFields DEF SendTx, Ready, Sending, Noticed
<1>8. CASE LoopEnds(n)
    BY <1>1, <1>8, TaskFields DEF LoopEnds, Noticed
<1>9. CASE Receipt(n)
    BY <1>1, <1>9, ConcludeNoticed DEF Receipt, Ready, Sending
<1>10. CASE AttemptFails(n)
  <2>1. CASE t.attempt < TxRetries
      BY <1>1, <1>10, <2>1, TaskFields DEF AttemptFails, NextAttempt, Ready, Sending, Noticed
  <2>2. CASE ~ (t.attempt < TxRetries)
      BY <1>1, <1>10, <2>2, ConcludeNoticed DEF AttemptFails, Ready, Sending
  <2> QED
      BY <2>1, <2>2
<1> QED
    BY <1>2, <1>3, <1>4, <1>5, <1>6, <1>7, <1>8, <1>9, <1>10 DEF TaskStep

\* Which orders have which status, and that each has one.
StatusTells ==
    \A o \in Orders :
        /\ OrderStatus(o) \in {"new", "queued", "batched", "inflight"} \cup Outcomes
        /\ OrderStatus(o) = "new" <=> o > submitted
        /\ OrderStatus(o) = "queued" <=> o \in received + 1 .. submitted
        /\ OrderStatus(o) = "batched" <=> o \in BatchOrders(batch)

LEMMA StatusTold == PInv => StatusTells
<1> SUFFICES ASSUME PInv, NEW o \in Orders
             PROVE  /\ OrderStatus(o) \in {"new", "queued", "batched", "inflight"} \cup Outcomes
                    /\ OrderStatus(o) = "new" <=> o > submitted
                    /\ OrderStatus(o) = "queued" <=> o \in received + 1 .. submitted
                    /\ OrderStatus(o) = "batched" <=> o \in BatchOrders(batch)
    BY DEF StatusTells
<1>1. StatusTable
    BY StatusKnown
<1>2. \A n \in DOMAIN flushed : TaskStatus(n, o) \in {"inflight"} \cup Outcomes
    BY DEF TaskStatus, Outcomes
<1>3. CASE \E n \in DOMAIN flushed : o \in BatchOrders(flushed[n])
  <2>1. OrderStatus(o) \in {"inflight"} \cup Outcomes
      BY <1>1, <1>2, <1>3 DEF StatusTable
  <2> QED
      BY <1>1, <2>1 DEF StatusTable, Outcomes
<1>4. CASE ~ \E n \in DOMAIN flushed : o \in BatchOrders(flushed[n])
    BY <1>1, <1>4 DEF StatusTable
<1> QED
    BY <1>3, <1>4

LEMMA StatusToldNext == PInv' => StatusTells'
BY StatusTold, PTL

\* A step of OrderLifecycle that moves the orders of S, in terms of OrderStatus.
LEMMA MoveIs ==
    ASSUME NEW S, NEW s,
           \A o \in Orders : OrderStatus(o)' = IF o \in S THEN s ELSE OrderStatus(o)
    PROVE  Lifecycle!Move(S, s)
BY DEF Lifecycle!Move, Lifecycle!Orders, Orders

\* Orders of flushed batches keep their status when no task moves.
LEMMA FlightStays ==
    ASSUME StatusTable, StatusTable', NEW o \in Orders, NEW n \in DOMAIN flushed,
           o \in BatchOrders(flushed[n]),
           n \in DOMAIN flushed', flushed'[n] = flushed[n], task'[n] = task[n]
    PROVE  OrderStatus(o)' = OrderStatus(o)
<1>1. TaskStatus(n, o)' = TaskStatus(n, o)
    BY DEF TaskStatus, IsSettle
<1>2. BatchOrders(flushed[n])' = BatchOrders(flushed[n])
    BY DEF BatchOrders
<1> QED
    BY <1>1, <1>2 DEF StatusTable

LEMMA SubmitMoves ==
    ASSUME PInv, PInv', SubmitOrder, UNCHANGED <<task, chainVars>>
    PROVE  \E o \in Orders : Lifecycle!Submit(o)
<1>0. PICK next \in Orders : next = submitted + 1
    BY AccumulatorAssumption DEF PInv, AccInv, Inv, TypeOK, Orders, SubmitOrder
<1>1. /\ StatusTable /\ StatusTable' /\ StatusTells /\ StatusTells'
    BY StatusKnown, StatusKnownNext, StatusTold, StatusToldNext
<1>2. /\ submitted \in Nat /\ received \in Nat /\ received <= submitted
      /\ next = submitted + 1 /\ next \in Nat /\ 1 .. next - 1 \subseteq Orders
      /\ \A o \in Orders : o \in Nat
      /\ submitted' = next /\ received' = received /\ batch' = batch /\ flushed' = flushed
      /\ BatchOrders(batch)' = BatchOrders(batch)
    BY <1>0, AccumulatorAssumption
       DEF PInv, AccInv, Inv, TypeOK, Orders, SubmitOrder, BatchOrders
<1>3. ASSUME NEW o \in Orders, o # next
      PROVE  OrderStatus(o)' = OrderStatus(o)
  <2>1. CASE o > submitted
      BY <1>1, <1>2, <1>3, <2>1 DEF StatusTells
  <2>2. CASE o \in received + 1 .. submitted
      BY <1>1, <1>2, <2>2 DEF StatusTells
  <2>3. CASE o \in BatchOrders(batch)
      BY <1>1, <1>2, <2>3 DEF StatusTells
  <2>4. CASE \E n \in DOMAIN flushed : o \in BatchOrders(flushed[n])
      BY <1>1, <1>2, <2>4, FlightStays
  <2> QED
      BY <1>1, <2>1, <2>2, <2>3, <2>4 DEF StatusTable
<1>4. OrderStatus(next)' = "queued"
    BY <1>1, <1>2 DEF StatusTells
<1>5. Lifecycle!Move({next}, "queued")
    BY <1>3, <1>4, MoveIs
<1>6. OrderStatus(next) = "new" /\ \A p \in 1 .. next - 1 : OrderStatus(p) # "new"
    BY <1>1, <1>2 DEF StatusTells
<1>8. Lifecycle!Submit(next)
    BY <1>2, <1>5, <1>6 DEF Lifecycle!Submit
<1> QED
    BY <1>2, <1>8

LEMMA ReceiveMoves ==
    ASSUME PInv, PInv', Receive, UNCHANGED <<task, chainVars>>
    PROVE  \E o \in Orders : Lifecycle!Collect(o)
<1>0. PICK next \in Orders : next = received + 1
    BY AccumulatorAssumption DEF PInv, AccInv, Inv, TypeOK, Orders, Receive
<1>1. /\ StatusTable /\ StatusTable' /\ StatusTells /\ StatusTells'
    BY StatusKnown, StatusKnownNext, StatusTold, StatusToldNext
<1>2. /\ submitted \in Nat /\ received \in Nat /\ received < submitted
      /\ next = received + 1 /\ next \in Nat /\ 1 .. next - 1 \subseteq Orders
      /\ \A o \in Orders : o \in Nat
      /\ submitted' = submitted /\ received' = next /\ flushed' = flushed
      /\ batch \in OrderBatch /\ batch' = AddOrder(batch, next)
      /\ info \in [Orders -> OrderInfo]
    BY <1>0, AccumulatorAssumption
       DEF PInv, AccInv, Inv, TypeOK, Orders, Receive
<1>3. BatchOrders(batch)' = BatchOrders(batch) \cup {next}
  <2>1. BatchOrders(batch') = BatchOrders(batch) \cup {next}
      BY <1>2, AddOrderType
  <2> QED
      BY <2>1 DEF BatchOrders
<1>4. ASSUME NEW o \in Orders, o # next
      PROVE  OrderStatus(o)' = OrderStatus(o)
  <2>1. CASE o > submitted
      BY <1>1, <1>2, <2>1 DEF StatusTells
  <2>2. CASE o \in received + 1 .. submitted
      BY <1>1, <1>2, <1>4, <2>2 DEF StatusTells
  <2>3. CASE o \in BatchOrders(batch)
      BY <1>1, <1>3, <2>3 DEF StatusTells
  <2>4. CASE \E n \in DOMAIN flushed : o \in BatchOrders(flushed[n])
      BY <1>1, <1>2, <2>4, FlightStays
  <2> QED
      BY <1>1, <2>1, <2>2, <2>3, <2>4 DEF StatusTable
<1>5. OrderStatus(next)' = "batched"
    BY <1>1, <1>2, <1>3 DEF StatusTells
<1>6. Lifecycle!Move({next}, "batched")
    BY <1>4, <1>5, MoveIs
<1>7. OrderStatus(next) = "queued" /\ \A p \in 1 .. next - 1 : OrderStatus(p) # "queued"
    BY <1>1, <1>2 DEF StatusTells
<1>9. Lifecycle!Collect(next)
    BY <1>2, <1>6, <1>7 DEF Lifecycle!Collect
<1> QED
    BY <1>2, <1>9

\* A flush sends the whole current batch on its way; an empty one does nothing.
LEMMA SpawnMoves ==
    ASSUME PInv, PInv', NEW a \in Actors, Spawn(a)
    PROVE  \/ Lifecycle!Dispatch
           \/ \A o \in Orders : OrderStatus(o)' = OrderStatus(o)
<1>1. /\ StatusTable /\ StatusTable' /\ StatusTells /\ StatusTells' /\ FateTable'
    BY StatusKnown, StatusKnownNext, StatusTold, StatusToldNext, FateKnownNext
<1>2. /\ submitted' = submitted /\ received' = received
      /\ flushed \in Seq(FlushRecord) /\ task \in Seq(Task) /\ Len(task) = Len(flushed)
      /\ batch \in OrderBatch
    BY DEF PInv, AccInv, Inv, TypeOK, Spawn, FlushBatch
<1>3. CASE IsEmpty(batch)
  <2>1. flushed' = flushed /\ task' = task /\ BatchOrders(batch)' = BatchOrders(batch)
      BY <1>3 DEF Spawn, FlushBatch, BatchOrders
  <2> QED
      BY <1>1, <1>2, <2>1, StatusStays
<1>4. CASE ~ IsEmpty(batch)
  <2>1. PICK r : /\ r.indices = batch.indices /\ flushed' = Append(flushed, r)
                 /\ batch' = NewBatch(loaded[a])
      BY <1>4 DEF Spawn, FlushBatch
  <2>2. PICK n \in Nat : n = Len(flushed) + 1
      BY <1>2
  <2>3. /\ n \in DOMAIN flushed' /\ flushed'[n] = r /\ n \in DOMAIN task'
        /\ task'[n] = NewTask(a)
        /\ \A m \in DOMAIN flushed : /\ m \in DOMAIN flushed' /\ flushed'[m] = flushed[m]
                                     /\ task'[m] = task[m]
    <3>1. flushed' # flushed
        BY <1>2, <2>1
    <3>2. task' = Append(task, NewTask(a))
        BY <3>1 DEF Spawn
    <3> QED
        BY <1>2, <2>1, <2>2, <3>2
  <2>4. BatchOrders(flushed[n])' = BatchOrders(batch) /\ BatchOrders(batch)' = {}
    <3>1. BatchOrders(flushed'[n]) = BatchOrders(batch)
        BY <2>1, <2>3, OrdersOfRecord
    <3>2. BatchOrders(batch') = {}
        BY <2>1 DEF BatchOrders, NewBatch, EmptyState
    <3> QED
        BY <3>1, <3>2 DEF BatchOrders
  <2>5. ASSUME NEW o \in Orders, o \in BatchOrders(batch)
        PROVE  OrderStatus(o)' = "inflight"
    <3>1. OrderStatus(o)' = TaskStatus(n, o)'
        BY <1>1, <2>3, <2>4, <2>5 DEF StatusTable
    <3>2. task'[n].pc \in {"extract", "vendor"} /\ task'[n].ok = {} /\ task'[n].failed = {}
        BY <2>3 DEF NewTask
    <3>3. TaskStatus(n, o)' = "inflight"
        BY <1>1, <2>3, <3>2 DEF FateTable
    <3> QED
        BY <3>1, <3>3
  <2>6. ASSUME NEW o \in Orders, o \notin BatchOrders(batch)
        PROVE  OrderStatus(o)' = OrderStatus(o)
    <3>1. CASE o > submitted
        BY <1>1, <1>2, <3>1 DEF StatusTells
    <3>2. CASE o \in received + 1 .. submitted
        BY <1>1, <1>2, <3>2 DEF StatusTells
    <3>3. CASE \E m \in DOMAIN flushed : o \in BatchOrders(flushed[m])
        BY <1>1, <2>3, <3>3, FlightStays
    <3> QED
        BY <1>1, <2>6, <3>1, <3>2, <3>3 DEF StatusTable
  <2>7. {o \in Orders : OrderStatus(o) = "batched"} = Orders \cap BatchOrders(batch)
      BY <1>1 DEF StatusTells
  <2>8. Lifecycle!Move({o \in Orders : OrderStatus(o) = "batched"}, "inflight")
    <3>1. \A o \in Orders :
             OrderStatus(o)' = IF o \in {p \in Orders : OrderStatus(p) = "batched"}
                               THEN "inflight" ELSE OrderStatus(o)
        BY <2>5, <2>6, <2>7
    <3> QED
        BY <3>1, MoveIs
  <2>9. \E o \in Orders : OrderStatus(o) = "batched"
    <3>1. BatchOrders(batch) # {} /\ BatchOrders(batch) \subseteq Orders
        BY <1>2, <1>4 DEF IsEmpty, BatchOrders, OrderBatch, IndexState
    <3> QED
        BY <2>7, <3>1
  <2>10. {o \in Lifecycle!Orders : [p \in Orders |-> OrderStatus(p)][o] = "batched"}
           = {o \in Orders : OrderStatus(o) = "batched"}
      BY DEF Lifecycle!Orders, Orders
  <2> QED
      BY <2>8, <2>9, <2>10 DEF Lifecycle!Dispatch, Lifecycle!Orders, Orders
<1> QED
    BY <1>3, <1>4

\* The step of a task resolves orders of its batch, all alike, or none.
LEMMA TaskResolves ==
    ASSUME PInv, PInv', NEW n \in DOMAIN task, TaskStep(n)
    PROVE  \E r \in Outcomes : \A o \in Orders :
              \/ TaskStatus(n, o)' = TaskStatus(n, o)
              \/ TaskStatus(n, o) = "inflight" /\ TaskStatus(n, o)' = r
<1>1. /\ FateTable /\ FateTable' /\ n \in DOMAIN task' /\ IsSettle(n)' = IsSettle(n)
      /\ task[n].pc \notin {"dropped", "done"} /\ Noticed(n)
    BY FateKnown, FateKnownNext, TaskStepNoticed DEF IsSettle, accVars
<1>2. CASE ~ IsSettle(n)
  <2>1. \A o \in Orders : TaskStatus(n, o) = "inflight"
      BY <1>1, <1>2 DEF FateTable
  <2>2. CASE task'[n].pc = "dropped"
      BY <1>1, <2>1, <2>2 DEF FateTable, Outcomes
  <2>3. CASE task'[n].pc = "done"
      BY <1>1, <1>2, <2>1, <2>3 DEF FateTable, Outcomes
  <2>4. CASE task'[n].pc \notin {"dropped", "done"}
      BY <1>1, <1>2, <2>1, <2>4 DEF FateTable, Outcomes
  <2> QED
      BY <2>2, <2>3, <2>4
<1>3. CASE IsSettle(n)
  <2> DEFINE had == task[n].ok \cup task[n].failed
  <2>1. ASSUME NEW o \in Orders, task'[n].pc # "dropped",
               o \in task'[n].ok <=> o \in task[n].ok,
               o \in task'[n].failed <=> o \in task[n].failed
        PROVE  TaskStatus(n, o)' = TaskStatus(n, o)
    <3>1. CASE o \in task[n].ok
      <4>1. TaskStatus(n, o) = "ok"
          BY <1>1, <1>3, <3>1 DEF FateTable
      <4>2. TaskStatus(n, o)' = "ok"
          BY <1>1, <1>3, <2>1, <3>1 DEF FateTable
      <4> QED
          BY <4>1, <4>2
    <3>2. CASE o \in task[n].failed
      <4>1. TaskStatus(n, o) = "failed"
          BY <1>1, <1>3, <3>2 DEF FateTable
      <4>2. TaskStatus(n, o)' = "failed"
          BY <1>1, <1>3, <2>1, <3>2 DEF FateTable
      <4> QED
          BY <4>1, <4>2
    <3>3. CASE o \notin had
      <4>1. TaskStatus(n, o) = "inflight"
          BY <1>1, <1>3, <3>3 DEF FateTable
      <4>2. o \notin task'[n].ok \cup task'[n].failed
          BY <2>1, <3>3
      <4>3. TaskStatus(n, o)' = "inflight"
          BY <1>1, <1>3, <2>1, <4>2 DEF FateTable
      <4> QED
          BY <4>1, <4>3
    <3> QED
        BY <3>1, <3>2, <3>3
  <2>2. CASE task'[n].pc # "dropped" /\ task'[n].ok = task[n].ok /\ task'[n].failed = task[n].failed
    <3>1. \A o \in Orders : TaskStatus(n, o)' = TaskStatus(n, o)
        BY <2>1, <2>2
    <3> QED
        BY <3>1 DEF Outcomes
  <2>3. CASE task'[n].pc = "dropped" /\ task[n].ok = {} /\ task[n].failed = {}
    <3>1. \A o \in Orders : TaskStatus(n, o) = "inflight"
        BY <1>1, <1>3, <2>3 DEF FateTable
    <3>2. \A o \in Orders : TaskStatus(n, o)' = "dropped"
        BY <1>1, <2>3 DEF FateTable
    <3> QED
        BY <3>1, <3>2 DEF Outcomes
  <2>4. CASE /\ task'[n].pc = "orders"
             /\ \E c \in Orders \ had :
                   task'[n].ok = task[n].ok \cup {c} /\ task'[n].failed = task[n].failed
    <3>1. PICK c \in Orders \ had :
              task'[n].ok = task[n].ok \cup {c} /\ task'[n].failed = task[n].failed
        BY <2>4
    <3>2. TaskStatus(n, c) = "inflight" /\ TaskStatus(n, c)' = "ok"
        BY <1>1, <1>3, <2>4, <3>1 DEF FateTable
    <3>3. \A o \in Orders \ {c} : TaskStatus(n, o)' = TaskStatus(n, o)
        BY <2>1, <2>4, <3>1
    <3> QED
        BY <3>2, <3>3 DEF Outcomes
  <2>5. CASE /\ task'[n].pc = "orders"
             /\ \E c \in Orders \ had :
                   task'[n].ok = task[n].ok /\ task'[n].failed = task[n].failed \cup {c}
    <3>1. PICK c \in Orders \ had :
              task'[n].ok = task[n].ok /\ task'[n].failed = task[n].failed \cup {c}
        BY <2>5
    <3>2. TaskStatus(n, c) = "inflight" /\ TaskStatus(n, c)' = "failed"
        BY <1>1, <1>3, <2>5, <3>1 DEF FateTable
    <3>3. \A o \in Orders \ {c} : TaskStatus(n, o)' = TaskStatus(n, o)
        BY <2>1, <2>5, <3>1
    <3> QED
        BY <3>2, <3>3 DEF Outcomes
  <2> QED
      BY <1>1, <1>3, <2>2, <2>3, <2>4, <2>5 DEF Noticed
<1> QED
    BY <1>2, <1>3

LEMMA TaskMoves ==
    ASSUME PInv, PInv', NEW n \in DOMAIN task, TaskStep(n)
    PROVE  \/ Lifecycle!Resolve
           \/ \A o \in Orders : OrderStatus(o)' = OrderStatus(o)
<1>1. /\ StatusTable /\ StatusTable' /\ StatusTells /\ StatusTells'
    BY StatusKnown, StatusKnownNext, StatusTold, StatusToldNext
<1>2. /\ UNCHANGED accVars /\ n \in DOMAIN flushed
      /\ \A m \in DOMAIN task : m # n => task'[m] = task[m]
      /\ DOMAIN flushed = DOMAIN task
  <2>1. flushed \in Seq(FlushRecord) /\ task \in Seq(Task) /\ Len(task) = Len(flushed)
      BY DEF PInv, AccInv, Inv, TypeOK
  <2> QED
      BY <2>1, TaskStepNoticed
<1>3. /\ submitted' = submitted /\ received' = received /\ flushed' = flushed
      /\ BatchOrders(batch)' = BatchOrders(batch)
      /\ \A m \in DOMAIN flushed : BatchOrders(flushed[m])' = BatchOrders(flushed[m])
    BY <1>2 DEF accVars, BatchOrders
<1>4. ASSUME NEW o \in Orders, o \notin BatchOrders(flushed[n])
      PROVE  OrderStatus(o)' = OrderStatus(o)
  <2>1. CASE o > submitted
      BY <1>1, <1>3, <2>1 DEF StatusTells
  <2>2. CASE o \in received + 1 .. submitted
      BY <1>1, <1>3, <2>2 DEF StatusTells
  <2>3. CASE o \in BatchOrders(batch)
      BY <1>1, <1>3, <2>3 DEF StatusTells
  <2>4. CASE \E m \in DOMAIN flushed : o \in BatchOrders(flushed[m])
      BY <1>1, <1>2, <1>3, <1>4, <2>4, FlightStays
  <2> QED
      BY <1>1, <2>1, <2>2, <2>3, <2>4 DEF StatusTable
<1>5. \A o \in Orders : o \in BatchOrders(flushed[n]) =>
          OrderStatus(o) = TaskStatus(n, o) /\ OrderStatus(o)' = TaskStatus(n, o)'
    BY <1>1, <1>2, <1>3 DEF StatusTable
<1>6. PICK r \in Outcomes : \A o \in Orders :
          \/ OrderStatus(o)' = OrderStatus(o)
          \/ OrderStatus(o) = "inflight" /\ OrderStatus(o)' = r
    BY <1>4, <1>5, TaskResolves
<1>7. \A o \in Orders : OrderStatus(o)' \in Lifecycle!Status
    BY <1>1 DEF StatusTells, Outcomes, Lifecycle!Status, Lifecycle!Outcomes
<1>8. Lifecycle!Orders = Orders /\ Lifecycle!Outcomes = Outcomes
    BY DEF Lifecycle!Orders, Orders, Lifecycle!Outcomes, Outcomes
<1> QED
    BY <1>6, <1>7, <1>8 DEF Lifecycle!Resolve

LEMMA LifecycleStep == PInv /\ PInv' /\ [PipelineNext]_vars =>
    [Lifecycle!Next]_([o \in Orders |-> OrderStatus(o)])
<1> SUFFICES ASSUME PInv, PInv', [PipelineNext]_vars,
                    [o \in Orders |-> OrderStatus(o)]' # [o \in Orders |-> OrderStatus(o)]
             PROVE  Lifecycle!Next
    OBVIOUS
<1>1. /\ StatusTable /\ StatusTable' /\ Lifecycle!Orders = Orders
    BY StatusKnown, StatusKnownNext DEF Lifecycle!Orders, Orders
<1>2. CASE SubmitOrder /\ UNCHANGED <<task, chainVars>>
    BY <1>1, <1>2, SubmitMoves DEF Lifecycle!Next
<1>3. CASE Receive /\ UNCHANGED <<task, chainVars>>
    BY <1>1, <1>3, ReceiveMoves DEF Lifecycle!Next
<1>4. CASE \E a \in Actors : Spawn(a)
    BY <1>4, SpawnMoves DEF Lifecycle!Next
<1>5. CASE \E n \in DOMAIN task : TaskStep(n)
    BY <1>5, TaskMoves DEF Lifecycle!Next
<1>6. CASE /\ submitted' = submitted /\ received' = received /\ flushed' = flushed
           /\ batch' = batch /\ task' = task
  <2>1. BatchOrders(batch)' = BatchOrders(batch)
      BY <1>6 DEF BatchOrders
  <2> QED
      BY <1>1, <1>6, <2>1, StatusStays
<1>7. CASE Accumulate
  <2>1. CASE \/ WindowElapses \/ ReceiverCheck \/ KeeperTick
             \/ \E a \in Actors : LoadBlock(a)
      BY <1>6, <1>7, <2>1
         DEF Accumulate, WindowElapses, ReceiverCheck, KeeperTick, LoadBlock
  <2> QED
      BY <1>2, <1>3, <1>7, <2>1 DEF Accumulate
<1>8. CASE \E tx \in mempool : Mine(tx)
    BY <1>6, <1>8 DEF Mine, accVars
<1>9. CASE UNCHANGED vars
    BY <1>6, <1>9 DEF vars, accVars
<1> QED
    BY <1>4, <1>5, <1>7, <1>8, <1>9 DEF PipelineNext

LEMMA LifecycleInit == PipelineInit /\ PInv => Lifecycle!Init
<1> SUFFICES ASSUME PipelineInit, PInv PROVE Lifecycle!Init
    OBVIOUS
<1>1. StatusTells /\ submitted = 0 /\ \A o \in Orders : o > 0
    BY StatusTold DEF PipelineInit, Init, Orders
<1> QED
    BY <1>1 DEF StatusTells, Lifecycle!Init, Lifecycle!Orders, Orders

\* The Keeper implements OrderLifecycle: every order goes through one batch, with
\* everything that batch holds, to one outcome, whatever its flushers, its tasks,
\* the Vendor and the chain do.
THEOREM KeeperImplementsLifecycle == PipelineSpec => ImplementsLifecycle
<1>1. PipelineSpec => PipelineInit /\ [][PipelineNext]_vars
    BY DEF PipelineSpec
<1> QED
    BY <1>1, PInvAlways, LifecycleInit, LifecycleStep, PTL
       DEF ImplementsLifecycle, Lifecycle!Spec

\* An order that has an outcome keeps it, and its batch cannot take it back.
OutcomesKept ==
    \A o \in Orders : OrderStatus(o) \in Outcomes => OrderStatus(o)' = OrderStatus(o)

LEMMA OutcomeStays == PInv /\ PInv' /\ [PipelineNext]_vars => OutcomesKept
<1> SUFFICES ASSUME PInv, PInv', [PipelineNext]_vars, NEW o \in Orders,
                    OrderStatus(o) \in Outcomes
             PROVE  OrderStatus(o)' = OrderStatus(o)
    BY DEF OutcomesKept
<1> DEFINE f == [p \in Orders |-> OrderStatus(p)]
           g == [p \in Orders |-> OrderStatus(p)']
<1>1. Lifecycle!Next \/ g = f
    BY LifecycleStep
<1>2. Lifecycle!Orders = Orders
    BY DEF Lifecycle!Orders, Orders
<1>3. f[o] = OrderStatus(o) /\ g[o] = OrderStatus(o)'
    OBVIOUS
<1>4. f[o] \notin {"new", "queued", "batched", "inflight"}
    BY <1>3 DEF Outcomes
<1>5. CASE \E S, s : Lifecycle!Move(S, s) /\ o \notin S
    BY <1>2, <1>3, <1>5 DEF Lifecycle!Move
<1>6. CASE \E p \in Orders : Lifecycle!Submit(p) \/ Lifecycle!Collect(p)
  <2>1. PICK p \in Orders : Lifecycle!Submit(p) \/ Lifecycle!Collect(p)
      BY <1>6
  <2>2. p # o /\ \E s : Lifecycle!Move({p}, s)
      BY <1>4, <2>1 DEF Lifecycle!Submit, Lifecycle!Collect
  <2> QED
      BY <1>5, <2>2
<1>7. CASE Lifecycle!Dispatch
  <2> DEFINE S == {p \in Orders : f[p] = "batched"}
  <2>1. Lifecycle!Move(S, "inflight")
      BY <1>2, <1>7 DEF Lifecycle!Dispatch
  <2>2. o \notin S /\ S \subseteq Orders
      BY <1>4
  <2> HIDE DEF S
  <2> QED
      BY <1>5, <2>1, <2>2
<1>8. CASE Lifecycle!Resolve
    BY <1>2, <1>3, <1>4, <1>8 DEF Lifecycle!Resolve
<1> QED
    BY <1>1, <1>2, <1>3, <1>6, <1>7, <1>8 DEF Lifecycle!Next

\* What a reader of the results may rely on, from the refinement: no task, however
\* late a receipt, a retry or a transaction comes, changes the outcome of an order.
THEOREM OutcomesFinal == PipelineSpec => [][OutcomesKept]_vars
    BY PInvAlways, OutcomeStays, PTL DEF PipelineSpec
===============================================================================
