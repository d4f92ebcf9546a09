-------------------------- MODULE OrderAccumulator --------------------------
(***************************************************************************)
(* The Keeper's order accumulator (src/bin/keeper/src/accumulator/).       *)
(*                                                                         *)
(* Vault events become orders, orders wait in an unbounded channel, one    *)
(* task (the receiver) moves them from the channel into the current batch, *)
(* and TWO tasks flush that batch: the receiver itself, after every order  *)
(* it adds, and the KeeperLoop, at every tick of its polling timer.        *)
(* should_flush() and flush_batch() take the batch lock separately, so the *)
(* other task may run between them.                                        *)
(*                                                                         *)
(* Orders are numbered in the order in which they are received, so the     *)
(* FIFO channel holds exactly received+1 .. submitted, and the orders      *)
(* whose timestamp is older than batch_window_ms are exactly 1 .. elapsed. *)
(***************************************************************************)
EXTENDS Integers, Sequences, FiniteSets

CONSTANTS
    Indices,      \* index (ITP) identifiers
    MaxOrders,    \* bound: how many orders the outside world submits
    Amounts,      \* amounts an order can carry
    MaxBlock      \* bound: highest block number update_block() reports

ASSUME AccumulatorAssumption ==
    /\ MaxOrders \in Nat
    /\ MaxBlock \in Nat
    /\ Amounts \subseteq Nat

Receiver == "receiver"    \* the task spawned by start_processing()
Keeper   == "keeper"      \* KeeperLoop::run()
Actors   == {Receiver, Keeper}

Orders == 1 .. MaxOrders

\* An IndexOrder: the index it is for, Deposit or Withdraw, and its amount.
OrderInfo == [index : Indices, deposit : BOOLEAN, amount : Amounts]

\* The part of an IndexState that decides anything downstream.  `first` is the
\* order whose timestamp first_order_time holds, 0 when there is none.
IndexState ==
    [orders : SUBSET Orders, first : 0 .. MaxOrders,
     deposits : Nat, withdrawals : Nat, net : Nat]

EmptyState ==
    [orders |-> {}, first |-> 0, deposits |-> 0, withdrawals |-> 0, net |-> 0]

OrderBatch ==
    [indices : [Indices -> IndexState], start : 0 .. MaxBlock, cur : 0 .. MaxBlock]

Triggers == {"TimeWindow", "BlockChange", "Manual"}

VARIABLES
    info,        \* what each order is; fixed by the outside world
    submitted,   \* orders 1..submitted were given to submit_order()
    received,    \* orders 1..received were taken from the channel
    elapsed,     \* orders 1..elapsed are older than batch_window_ms
    batch,       \* current_batch
    block,       \* current_block, the atomic
    updating,    \* block number an update_block() call in progress carries, or 0
    pc,          \* where each task stands
    loaded,      \* the value of current_block each flush_batch() call loaded
    flushed      \* the batches flush_batch() returned, oldest first

accVars == <<info, submitted, received, elapsed, batch, block, updating,
             pc, loaded, flushed>>

-----------------------------------------------------------------------------
(* OrderBatch and IndexState *)

\* OrderBatch::new_with_block
NewBatch(b) ==
    [indices |-> [i \in Indices |-> EmptyState], start |-> b, cur |-> b]

\* All the orders a batch holds.
BatchOrders(b) == UNION {b.indices[i].orders : i \in Indices}

\* OrderBatch::is_empty: no index has an entry.
IsEmpty(b) == \A i \in Indices : b.indices[i].orders = {}

\* Mutant: the net change after a withdrawal is an absolute difference.
NetAbsolute(net, o) ==
    IF info[o].deposit THEN net + info[o].amount
    ELSE IF info[o].amount <= net THEN net - info[o].amount ELSE info[o].amount - net

\* Mutant: the net change after a withdrawal does not saturate.
NetUnsaturated(net, o) ==
    IF info[o].deposit THEN net + info[o].amount ELSE net - info[o].amount

\* net_collateral_change: a withdrawal larger than it leaves zero.
NetChange(net, o) ==
    IF info[o].deposit THEN net + info[o].amount
    ELSE IF info[o].amount <= net THEN net - info[o].amount ELSE 0

\* IndexState::add_deposit / add_withdrawal, with the entry's individual order
\* and its first_order_time.
AddTo(s, o) ==
    [orders |-> s.orders \cup {o},
     first |-> IF s.orders = {} THEN o ELSE s.first,
     deposits |-> IF info[o].deposit THEN s.deposits + info[o].amount ELSE s.deposits,
     withdrawals |-> IF info[o].deposit THEN s.withdrawals
                     ELSE s.withdrawals + info[o].amount,
     net |-> NetChange(s.net, o)]

\* OrderBatch::add_order
AddOrder(b, o) == [b EXCEPT !.indices[info[o].index] = AddTo(@, o)]

\* The two conditions of OrderBatch::get_flush_trigger, the block first.
BlockChanged(b) == b.cur > b.start /\ b.start > 0
WindowOver(b) ==
    \E i \in Indices : b.indices[i].orders # {} /\ b.indices[i].first <= elapsed

ShouldFlush(b) == BlockChanged(b) \/ WindowOver(b)

\* get_flush_trigger().unwrap_or(Manual), as flush_batch() records it.
FlushTrigger(b) ==
    IF BlockChanged(b) THEN "BlockChange"
    ELSE IF WindowOver(b) THEN "TimeWindow" ELSE "Manual"

-----------------------------------------------------------------------------
Init ==
    /\ info \in [Orders -> OrderInfo]
    /\ submitted = 0
    /\ received = 0
    /\ elapsed = 0
    /\ batch = NewBatch(0)
    /\ block = 0
    /\ updating = 0
    /\ pc = [a \in Actors |-> "idle"]
    /\ loaded = [a \in Actors |-> 0]
    /\ flushed = <<>>

\* submit_order(): the event processor sends an order into the channel.
SubmitOrder ==
    /\ submitted < MaxOrders
    /\ submitted' = submitted + 1
    /\ UNCHANGED <<info, received, elapsed, batch, block, updating, pc, loaded, flushed>>

\* Time passes: the timestamp of one more order leaves the batch window.
WindowElapses ==
    /\ elapsed < submitted
    /\ elapsed' = elapsed + 1
    /\ UNCHANGED <<info, submitted, received, batch, block, updating, pc, loaded, flushed>>

\* The receiver: recv() returns an order and the batch takes it, under the lock.
Receive ==
    /\ pc[Receiver] = "idle"
    /\ received < submitted
    /\ received' = received + 1
    /\ batch' = AddOrder(batch, received + 1)
    /\ pc' = [pc EXCEPT ![Receiver] = "check"]
    /\ UNCHANGED <<info, submitted, elapsed, block, updating, loaded, flushed>>

\* Mutant: the receiver flushes after every order.
ReceiverAlwaysFlushes ==
    /\ pc[Receiver] = "check"
    /\ pc' = [pc EXCEPT ![Receiver] = "load"]
    /\ UNCHANGED <<info, submitted, received, elapsed, batch, block, updating, loaded, flushed>>

\* The receiver, lock released and taken again: should_flush().
ReceiverCheck ==
    /\ pc[Receiver] = "check"
    /\ pc' = [pc EXCEPT ![Receiver] = IF ShouldFlush(batch) THEN "load" ELSE "idle"]
    /\ UNCHANGED <<info, submitted, received, elapsed, batch, block, updating, loaded, flushed>>

\* Mutant: the polling loop leaves time-based flushes to the receiver.
KeeperTickBlockOnly ==
    /\ pc[Keeper] = "idle"
    /\ BlockChanged(batch)
    /\ pc' = [pc EXCEPT ![Keeper] = "load"]
    /\ UNCHANGED <<info, submitted, received, elapsed, batch, block, updating, loaded, flushed>>

\* KeeperLoop::run at a tick of poll_interval: get_stats().should_flush.  A
\* tick that finds nothing to flush changes nothing.
KeeperTick ==
    /\ pc[Keeper] = "idle"
    /\ ShouldFlush(batch)
    /\ pc' = [pc EXCEPT ![Keeper] = "load"]
    /\ UNCHANGED <<info, submitted, received, elapsed, batch, block, updating, loaded, flushed>>

\* flush_batch(), first statement: current_block is loaded before the lock.
LoadBlock(a) ==
    /\ pc[a] = "load"
    /\ loaded' = [loaded EXCEPT ![a] = block]
    /\ pc' = [pc EXCEPT ![a] = "lock"]
    /\ UNCHANGED <<info, submitted, received, elapsed, batch, block, updating, flushed>>

\* Mutant: the batch is cloned and not replaced.
FlushWithoutReset(a) ==
    /\ pc[a] = "lock"
    /\ pc' = [pc EXCEPT ![a] = "idle"]
    /\ Len(flushed) < MaxOrders
    /\ flushed' = IF IsEmpty(batch) THEN flushed
                  ELSE Append(flushed, [by |-> a, trigger |-> FlushTrigger(batch),
                                        indices |-> batch.indices])
    /\ UNCHANGED <<info, submitted, received, elapsed, batch, block, updating, loaded>>

\* Mutant: only the indices whose window is over leave the batch.
FlushDueIndices(a) ==
    LET due == {i \in Indices : batch.indices[i].orders # {} /\ batch.indices[i].first <= elapsed}
        split(S) == [i \in Indices |-> IF i \in S THEN batch.indices[i] ELSE EmptyState]
    IN /\ pc[a] = "lock"
       /\ pc' = [pc EXCEPT ![a] = "idle"]
       /\ IF due = {} THEN UNCHANGED <<batch, flushed>>
          ELSE /\ flushed' = Append(flushed, [by |-> a, trigger |-> FlushTrigger(batch),
                                              indices |-> split(due)])
               /\ batch' = [NewBatch(loaded[a]) EXCEPT !.indices = split(Indices \ due)]
       /\ UNCHANGED <<info, submitted, received, elapsed, block, updating, loaded>>

\* flush_batch(), under the lock: nothing for an empty batch; otherwise the
\* batch is taken away whole and replaced by a new one.
FlushBatch(a) ==
    /\ pc[a] = "lock"
    /\ pc' = [pc EXCEPT ![a] = "idle"]
    /\ IF IsEmpty(batch)
       THEN UNCHANGED <<batch, flushed>>
       ELSE /\ flushed' = Append(flushed, [by |-> a, trigger |-> FlushTrigger(batch),
                                           indices |-> batch.indices])
            /\ batch' = NewBatch(loaded[a])
    /\ UNCHANGED <<info, submitted, received, elapsed, block, updating, loaded>>

\* update_block(), first statement: the atomic is swapped.  Blocks only grow.
SwapBlock(b) ==
    /\ updating = 0
    /\ b > block
    /\ block' = b
    /\ updating' = b
    /\ UNCHANGED <<info, submitted, received, elapsed, batch, pc, loaded, flushed>>

\* update_block(), under the lock: the batch learns the block.
UpdateBatchBlock ==
    /\ updating # 0
    /\ batch' = [batch EXCEPT !.cur = updating]
    /\ updating' = 0
    /\ UNCHANGED <<info, submitted, received, elapsed, block, pc, loaded, flushed>>

Next ==
    \/ SubmitOrder
    \/ WindowElapses
    \/ Receive
    \/ ReceiverCheck
    \/ KeeperTick
    \/ \E a \in Actors : LoadBlock(a)
    \/ \E a \in Actors : FlushBatch(a)
    \/ \E b \in 1 .. MaxBlock : SwapBlock(b)
    \/ UpdateBatchBlock

Spec == Init /\ [][Next]_accVars

-----------------------------------------------------------------------------
(* Properties *)

FlushRecord ==
    [by : Actors, trigger : Triggers, indices : [Indices -> IndexState]]

\* Type correctness of the accumulator's state.
TypeOK ==
    /\ info \in [Orders -> OrderInfo]
    /\ submitted \in 0 .. MaxOrders
    /\ received \in 0 .. submitted
    /\ elapsed \in 0 .. submitted
    /\ batch \in OrderBatch
    /\ block \in 0 .. MaxBlock
    /\ updating \in 0 .. MaxBlock
    /\ pc \in [Actors -> {"idle", "check", "load", "lock"}]
    /\ loaded \in [Actors -> 0 .. MaxBlock]
    /\ flushed \in Seq(FlushRecord)

FlushedOrders == UNION {BatchOrders(flushed[n]) : n \in DOMAIN flushed}

\* No order is lost or duplicated while two tasks flush the same batch: the
\* orders taken from the channel are exactly those of the current batch and of
\* the flushed batches, and no two of these share an order.
OrdersAccounted ==
    /\ BatchOrders(batch) \cup FlushedOrders = 1 .. received
    /\ \A n \in DOMAIN flushed : BatchOrders(flushed[n]) \cap BatchOrders(batch) = {}
    /\ \A m, n \in DOMAIN flushed :
          m # n => BatchOrders(flushed[m]) \cap BatchOrders(flushed[n]) = {}

\* Batches leave in the order of arrival: whichever task flushes, every order
\* of an earlier batch was received before every order of a later one.
BatchesInArrivalOrder ==
    \A m, n \in DOMAIN flushed :
        m < n => \A o \in BatchOrders(flushed[m]), p \in BatchOrders(flushed[n]) : o < p

\* add_deposit / add_withdrawal: whatever the order in which deposits and
\* withdrawals of an index arrive, the saturating net change stays between
\* their true difference and the deposits.
NetChangeBounded ==
    \A i \in Indices :
        LET s == batch.indices[i] IN
        /\ s.net <= s.deposits
        /\ s.deposits - s.withdrawals <= s.net

\* The receiver never flushes a batch that is not due: between its
\* should_flush() and its flush_batch() only the KeeperLoop can act on the
\* batch, and it leaves an empty one.
ReceiverFlushesOnlyDueBatches ==
    \A n \in DOMAIN flushed :
        flushed[n].by = Receiver => flushed[n].trigger # "Manual"

\* A flushed batch is never empty, and it is final: later steps only add
\* batches after it.
FlushedBatchesAreFinal ==
    [][ /\ Len(flushed) <= Len(flushed')
        /\ \A n \in DOMAIN flushed : flushed'[n] = flushed[n]
        /\ \A n \in DOMAIN flushed' : BatchOrders(flushed'[n]) # {} ]_accVars

=============================================================================
