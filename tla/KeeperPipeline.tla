--------------------------- MODULE KeeperPipeline ---------------------------
(***************************************************************************)
(* What happens to a flushed batch: the accumulator of OrderAccumulator    *)
(* composed with the tasks its two flushers spawn, the Vendor's HTTP       *)
(* endpoint and the chain.                                                 *)
(*                                                                         *)
(* A batch the KeeperLoop flushes goes through process_batch_pipeline():   *)
(* asset extraction, the Vendor's market data update, settle_batch().      *)
(* A batch the receiver flushes goes to the callback main.rs installs:     *)
(* QuoteProcessor::process_batch() and the deprecated submit_payload().    *)
(* All these tasks run concurrently; none of them retries a whole batch.   *)
(*                                                                         *)
(* Every transaction is sent by send_transaction_with_retry(): an attempt  *)
(* fails when sending fails or when the receipt cannot be obtained, which  *)
(* says nothing about whether the transaction is mined, then or later.     *)
(***************************************************************************)
EXTENDS OrderAccumulator

CONSTANTS
    VendorRetries,   \* retry_attempts of the Vendor client
    TxRetries        \* retry_attempts of the submitter

ASSUME PipelineAssumption ==
    /\ VendorRetries \in Nat \ {0}
    /\ TxRetries \in Nat \ {0}

VARIABLES
    task,      \* task[n] is the task spawned for flushed[n]
    mempool,   \* transactions sent and not yet mined
    mined,     \* transactions mined with status true
    reverted   \* transactions mined with status false

chainVars == <<mempool, mined, reverted>>
vars == <<accVars, task, chainVars>>

\* What a transaction of a batch is about: an order for processPending*Order,
\* an index (named by its first order in the batch) for submitBuyOrder, nothing
\* for the two batch-wide calls.
NoTarget == 0
Kinds == {"quotes", "process", "market", "buy"}
Tx == [kind : Kinds, batch : 1 .. MaxOrders,
       target : Orders \cup {NoTarget}, attempt : 1 .. TxRetries]

TaskPC == {"extract", "vendor", "quotes", "orders",   \* process_batch_pipeline
           "market", "buys",                          \* the receiver's callback
           "done", "dropped"}

\* todo: what is left of the loop over orders (or over indices); cur: the
\* transaction being sent, while `waiting` is true its receipt is awaited.
Task == [pc : TaskPC, attempt : Nat \ {0},
         vendorOk : BOOLEAN,
         todo : SUBSET Orders, cur : Orders \cup {NoTarget}, waiting : BOOLEAN,
         ok : SUBSET Orders, failed : SUBSET Orders]

NewTask(a) ==
    [pc |-> IF a = Keeper THEN "extract" ELSE "vendor",
     attempt |-> 1, vendorOk |-> FALSE, todo |-> {},
     cur |-> NoTarget, waiting |-> FALSE, ok |-> {}, failed |-> {}]

ActiveIndices(n) == {i \in Indices : flushed[n].indices[i].orders # {}}
IsSettle(n) == flushed[n].by = Keeper

PipelineInit ==
    /\ Init
    /\ task = <<>>
    /\ mempool = {}
    /\ mined = {}
    /\ reverted = {}

-----------------------------------------------------------------------------
(* The accumulator's steps; a flush that returns a batch spawns its task. *)

Accumulate ==
    /\ \/ SubmitOrder
       \/ WindowElapses
       \/ Receive
       \/ ReceiverCheck
       \/ KeeperTick
       \/ \E a \in Actors : LoadBlock(a)
    /\ UNCHANGED <<task, chainVars>>

Spawn(a) ==
    /\ FlushBatch(a)
    /\ task' = IF flushed' = flushed THEN task ELSE Append(task, NewTask(a))
    /\ UNCHANGED chainVars

-----------------------------------------------------------------------------
(* process_batch_pipeline() up to settle_batch() *)

\* extract_assets_for_batch(): an index whose query fails is skipped; the task
\* ends when all of them fail (an error) or the union of assets is empty.
ExtractAssets(n) ==
    /\ task[n].pc = "extract"
    /\ \E next \in {"vendor", "dropped"} : task' = [task EXCEPT ![n].pc = next]
    /\ UNCHANGED <<accVars, chainVars>>

NextAttempt(t) == [t EXCEPT !.attempt = @ + 1, !.waiting = FALSE]

\* One attempt of update_market_data() (or quote_assets()) fails: retry, or
\* give the batch up.
VendorFails(n) ==
    /\ task[n].pc = "vendor"
    /\ task' = [task EXCEPT ![n] =
                  IF @.attempt < VendorRetries THEN NextAttempt(@)
                  ELSE [@ EXCEPT !.pc = "dropped"]]
    /\ UNCHANGED <<accVars, chainVars>>

\* update_market_data() returns on HTTP 200: settle_batch() gets every order of
\* the batch, those of indices whose extraction failed included.
VendorOk(n) ==
    /\ task[n].pc = "vendor"
    /\ IsSettle(n)
    /\ task' = [task EXCEPT ![n] =
                  [@ EXCEPT !.pc = "quotes", !.attempt = 1, !.vendorOk = TRUE,
                            !.todo = BatchOrders(flushed[n])]]
    /\ UNCHANGED <<accVars, chainVars>>

\* process_index() makes a buy order of an index with a positive net change, if
\* the index is in the mapper and has all its quotes.
MayBuy(n) == {i \in ActiveIndices(n) : flushed[n].indices[i].net > 0}

\* quote_assets() returns in process_batch().  Without any quote there is no
\* market data to submit.
QuotesReturned(n) ==
    /\ task[n].pc = "vendor"
    /\ ~ IsSettle(n)
    /\ \E buys \in SUBSET MayBuy(n),
          quoted \in BOOLEAN :
          /\ ~ quoted => buys = {}
          /\ task' = [task EXCEPT ![n] =
                        [@ EXCEPT !.pc = IF quoted THEN "market" ELSE "done",
                                  !.attempt = 1, !.vendorOk = TRUE,
                                  !.todo = {flushed[n].indices[i].first : i \in buys}]]
    /\ UNCHANGED <<accVars, chainVars>>

-----------------------------------------------------------------------------
(* send_transaction_with_retry() *)

KindAt(p) ==
    CASE p = "quotes" -> "quotes" [] p = "orders" -> "process"
      [] p = "market" -> "market" [] p = "buys" -> "buy" [] OTHER -> "none"

CurTx(n) == [kind |-> KindAt(task[n].pc), batch |-> n,
             target |-> task[n].cur, attempt |-> task[n].attempt]

\* Mutant: buy and sell orders in one loop, in order of arrival.
NextOrdersMixed(n) ==
    {o \in task[n].todo : \A p \in task[n].todo : info[p].index = info[o].index => o <= p}

\* The loops of settle_batch(): all buy orders, then all sell orders; within an
\* index in order of arrival, the indices in the order of a HashMap.
NextOrders(n) ==
    LET todo == task[n].todo
        buys == {o \in todo : info[o].deposit}
        now  == IF buys # {} THEN buys ELSE todo
    IN {o \in now : \A p \in now : info[p].index = info[o].index => o <= p}

Sending(n) == task[n].pc \in {"quotes", "orders", "market", "buys"}

\* The loop picks its next order (or index); the batch-wide calls have none.
PickTarget(n) ==
    /\ task[n].pc \in {"orders", "buys"}
    /\ task[n].cur = NoTarget
    /\ \E t \in IF task[n].pc = "orders" THEN NextOrders(n) ELSE task[n].todo :
          task' = [task EXCEPT ![n] = [@ EXCEPT !.cur = t, !.attempt = 1]]
    /\ UNCHANGED <<accVars, chainVars>>

Ready(n) == Sending(n) /\ (task[n].pc \in {"orders", "buys"} => task[n].cur # NoTarget)

\* The loop is over: settle_batch() or submit_payload() returns.
LoopEnds(n) ==
    /\ task[n].pc \in {"orders", "buys"}
    /\ task[n].cur = NoTarget
    /\ task[n].todo = {}
    /\ task' = [task EXCEPT ![n].pc = "done"]
    /\ UNCHANGED <<accVars, chainVars>>

\* provider.send_transaction() succeeds: the receipt is awaited.
SendTx(n) ==
    /\ Ready(n) /\ ~ task[n].waiting
    /\ mempool' = mempool \cup {CurTx(n)}
    /\ task' = [task EXCEPT ![n].waiting = TRUE]
    /\ UNCHANGED <<accVars, mined, reverted>>

\* The chain includes a transaction; the call succeeds or reverts.
Mine(tx) ==
    /\ mempool' = mempool \ {tx}
    /\ \/ mined' = mined \cup {tx} /\ UNCHANGED reverted
       \/ reverted' = reverted \cup {tx} /\ UNCHANGED mined
    /\ UNCHANGED <<accVars, task>>

\* Mutant: the first failed order ends the loop (an early return).
OrderResultStops(t, success) ==
    IF success THEN [t EXCEPT !.todo = @ \ {t.cur}, !.ok = @ \cup {t.cur}]
    ELSE [t EXCEPT !.todo = {}, !.failed = @ \cup {t.cur}]

\* Mutant: a failed order stays in the loop and is tried again.
OrderResultRetries(t, success) ==
    IF success THEN [t EXCEPT !.todo = @ \ {t.cur}, !.ok = @ \cup {t.cur}]
    ELSE [t EXCEPT !.failed = @ \cup {t.cur}]

\* A loop records the result of one call and goes on to the next.
OrderResult(t, success) ==
    IF success THEN [t EXCEPT !.todo = @ \ {t.cur}, !.ok = @ \cup {t.cur}]
    ELSE [t EXCEPT !.todo = @ \ {t.cur}, !.failed = @ \cup {t.cur}]

\* send_transaction_with_retry() returns.  A failed quote update does not stop
\* settle_batch(); submit_payload() gives up without its market data.
Conclude(t, success) ==
    LET next == CASE t.pc = "quotes" -> [t EXCEPT !.pc = "orders"]
                  [] t.pc = "market" -> [t EXCEPT !.pc = IF success THEN "buys" ELSE "dropped"]
                  [] OTHER -> OrderResult(t, success)
    IN [next EXCEPT !.cur = NoTarget, !.attempt = 1, !.waiting = FALSE]

\* get_receipt() returns.  The receipt's status is stored and not looked at.
Receipt(n) ==
    /\ Ready(n) /\ task[n].waiting
    /\ CurTx(n) \in mined \cup reverted
    /\ task' = [task EXCEPT ![n] = Conclude(@, TRUE)]
    /\ UNCHANGED <<accVars, chainVars>>

\* Mutant: one attempt too many.
AttemptFailsOneMore(n) ==
    /\ Ready(n)
    /\ task' = [task EXCEPT ![n] =
                  IF @.attempt <= TxRetries THEN NextAttempt(@) ELSE Conclude(@, FALSE)]
    /\ UNCHANGED <<accVars, chainVars>>

\* An attempt fails: send_transaction() or get_receipt() returns an error.  A
\* transaction sent stays where it is, in the mempool or on the chain.
AttemptFails(n) ==
    /\ Ready(n)
    /\ task' = [task EXCEPT ![n] =
                  IF @.attempt < TxRetries THEN NextAttempt(@) ELSE Conclude(@, FALSE)]
    /\ UNCHANGED <<accVars, chainVars>>

-----------------------------------------------------------------------------
TaskStep(n) ==
    \/ ExtractAssets(n)
    \/ VendorFails(n)
    \/ VendorOk(n)
    \/ QuotesReturned(n)
    \/ PickTarget(n)
    \/ SendTx(n)
    \/ Receipt(n)
    \/ AttemptFails(n)
    \/ LoopEnds(n)

PipelineNext ==
    \/ Accumulate
    \/ \E a \in Actors : Spawn(a)
    \/ \E n \in DOMAIN task : TaskStep(n)
    \/ \E tx \in mempool : Mine(tx)

PipelineSpec == PipelineInit /\ [][PipelineNext]_vars

\* Beside the accumulator's tasks: a spawned task is run, the Vendor answers or
\* the request times out, and a transaction is accepted or refused.  Its receipt
\* comes once it is mined; nothing says that it ever is, and get_receipt() has
\* no timeout.
PipelineFairness ==
    /\ WF_vars(WindowElapses /\ UNCHANGED <<task, chainVars>>)
    /\ WF_vars(Receive /\ UNCHANGED <<task, chainVars>>)
    /\ WF_vars(ReceiverCheck /\ UNCHANGED <<task, chainVars>>)
    /\ WF_vars(KeeperTick /\ UNCHANGED <<task, chainVars>>)
    /\ \A a \in Actors : WF_vars(LoadBlock(a) /\ UNCHANGED <<task, chainVars>>)
    /\ \A a \in Actors : WF_vars(Spawn(a))
    /\ \A n \in 1 .. MaxOrders :
          /\ WF_vars(n \in DOMAIN task /\ ~ task[n].waiting /\ TaskStep(n))
          /\ WF_vars(n \in DOMAIN task /\ Receipt(n))

FairPipelineSpec == PipelineSpec /\ PipelineFairness

-----------------------------------------------------------------------------
(* Properties *)

AllTx == mempool \cup mined \cup reverted
TxFor(n, kind, t) == {tx \in AllTx : tx.batch = n /\ tx.kind = kind /\ tx.target = t}

\* Type correctness of the tasks and of the chain; in particular no attempt
\* number ever exceeds the configured retries.
PipelineTypeOK ==
    /\ TypeOK
    /\ task \in Seq(Task)
    /\ Len(task) = Len(flushed)
    /\ AllTx \subseteq Tx

\* "Only proceeds AFTER Vendor HTTP 200 confirmed" (keeper.rs): no settlement
\* transaction of a batch exists unless the Vendor confirmed that batch, and a
\* batch given up never had any.  An order is settled by the task of the one
\* batch that holds it, and only after the quote update of that batch was
\* concluded; sell orders wait until every buy order of the batch has its result.
SettlementOrder ==
    \A tx \in AllTx : tx.kind \in {"quotes", "process"} =>
        LET t == task[tx.batch] IN
        /\ t.vendorOk /\ t.pc # "dropped"
        /\ tx.kind = "process" =>
              /\ tx.target \in BatchOrders(flushed[tx.batch])
              /\ t.pc \in {"orders", "done"}
              /\ ~ info[tx.target].deposit =>
                    \A o \in BatchOrders(flushed[tx.batch]) :
                        info[o].deposit => o \in t.ok \cup t.failed

\* settle_batch() reports each order of the batch exactly once, whatever fails
\* on the way: when it returns, succeeded and failed partition the batch, and
\* a success is backed by a transaction that was included in a block.
ResultsAccountForBatch ==
    \A n \in DOMAIN task : IsSettle(n) =>
        LET t == task[n] IN
        /\ t.ok \cap t.failed = {}
        /\ t.pc = "done" => t.ok \cup t.failed = BatchOrders(flushed[n])
        /\ \A o \in t.ok : TxFor(n, "process", o) \cap (mined \cup reverted) # {}

\* A retry never follows a receipt: once an order has its result no further
\* transaction is sent for it, by any task.
NoSendAfterResult ==
    [][ \A n \in DOMAIN task : \A o \in task[n].ok \cup task[n].failed :
          \A kind \in {"process", "buy"} :
             TxFor(n, kind, o)' \subseteq TxFor(n, kind, o) ]_vars

\* The status of an order: the abstraction function onto OrderLifecycle.
TaskStatus(n, o) ==
    CASE task[n].pc = "dropped" -> "dropped"
      [] o \in task[n].ok /\ IsSettle(n) -> "ok"
      [] o \in task[n].failed /\ IsSettle(n) -> "failed"
      [] task[n].pc = "done" /\ ~ IsSettle(n) -> "merged"
      [] OTHER -> "inflight"

BatchOf(o) == CHOOSE n \in DOMAIN flushed : o \in BatchOrders(flushed[n])

OrderStatus(o) ==
    CASE o > submitted -> "new"
      [] o \in received + 1 .. submitted -> "queued"
      [] o \in BatchOrders(batch) -> "batched"
      [] OTHER -> TaskStatus(BatchOf(o), o)

Lifecycle == INSTANCE OrderLifecycle WITH status <- [o \in Orders |-> OrderStatus(o)]

\* The Keeper implements OrderLifecycle: whatever the interleaving of the two
\* flushers and the tasks, every order moves through one batch to one outcome.
ImplementsLifecycle == Lifecycle!Spec

\* The task of the order's batch waits for the receipt of a transaction that is
\* not mined.
AwaitsUnmined(o) ==
    /\ OrderStatus(o) = "inflight"
    /\ LET n == BatchOf(o) IN task[n].waiting /\ CurTx(n) \notin mined \cup reverted

\* Every order submitted is flushed, and its batch is settled, merged or dropped,
\* whatever calls fail: the only thing that can hold it up for ever is a
\* transaction that is never mined, whose receipt is awaited without a timeout.
EveryOrderResolved ==
    \A o \in Orders :
        (OrderStatus(o) # "new") ~>
            (OrderStatus(o) \in Lifecycle!Outcomes \/ [] AwaitsUnmined(o))

\* SettlementResult.total_succeeded is the "Number of successfully processed
\* orders": an order counted there was processed on the chain.
SucceededWasProcessed ==
    \A n \in DOMAIN task : IsSettle(n) =>
        \A o \in task[n].ok : TxFor(n, "process", o) \cap mined # {}

=============================================================================
