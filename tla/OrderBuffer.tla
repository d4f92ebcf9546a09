----------------------------- MODULE OrderBuffer -----------------------------
(***************************************************************************)
(* The Vendor's asynchronous order buffer (src/bin/vendor/src/buffer):     *)
(* the bounded queue (queue.rs), the accumulation of orders below the      *)
(* exchange's minimum (min_size_handler.rs), the background loop           *)
(* (processor.rs) and the checkpoint file it survives crashes by           *)
(* (persistence.rs).                                                       *)
(*                                                                         *)
(* Orders are numbered as they are accepted.  A quantity that the code     *)
(* adds up is kept as the set of the orders it is the sum of, so that an   *)
(* order can be followed through the queue, the accumulation, the file     *)
(* and the executor's channel.  Sides are left out: the code adds up buy   *)
(* and sell quantities of a symbol alike.                                  *)
(***************************************************************************)
EXTENDS Integers, Sequences, FiniteSets, FiniteSetsExt

CONSTANTS
    Symbols,      \* symbols traded
    Quantities,   \* quantities of orders
    MinSize,      \* get_min_size(), the same for every symbol
    MaxSize,      \* max_size of the queue
    PopSize,      \* how many orders one poll takes from the queue
    MaxOrders,    \* bound: how many orders are accepted
    MaxCrashes    \* bound: how many times the process crashes or is restarted

ASSUME BufferAssumption ==
    /\ Quantities \subseteq Nat \ {0}
    /\ {MinSize, MaxOrders, MaxCrashes} \subseteq Nat
    /\ MaxSize \in Nat \ {0} /\ PopSize \in Nat \ {0}

VARIABLES
    info,       \* info[o] describes the o-th order accepted
    queue,      \* the orders waiting in the queue
    pos,        \* buffer_positions, for the symbols that have an entry
    pc,         \* where the background loop stands
    batch,      \* orders popped and not yet processed
    ready,      \* orders_to_execute
    final,      \* the checkpoint being made is the one before the exit
    snap,       \* the BufferState save_checkpoint() has collected
    tmp,        \* the temporary file
    disk,       \* the checkpoint file
    sent,       \* every message sent to the executor, in order
    executor,   \* whether the executor still receives from its channel
    dropped,    \* orders given to a channel that nobody receives from
    crashes,    \* how many times the process has ended
    known,      \* history: the orders restored or accepted since the last start
    durable     \* history: the orders that a completed checkpoint has held

loopVars == <<pc, batch, ready, final>>
fileVars == <<snap, tmp, disk, durable>>
execVars == <<sent, executor, dropped>>
vars == <<info, queue, pos, loopVars, fileVars, execVars, crashes, known>>

Orders == 1 .. MaxOrders

\* old: started_at is stale_threshold_secs ago, whether or not orders waited in
\* the position all that time.
Position == [orders : SUBSET Orders, old : BOOLEAN]
NewPosition == [orders |-> {}, old |-> FALSE]

\* `run` numbers the starts of the process.
Message == [symbol : Symbols, orders : SUBSET Orders, run : 0 .. MaxCrashes]

\* A file is absent, torn (a write was not finished) or a checkpoint; `settled`
\* (history) is what had been sent when it was taken, or when the checkpoints
\* before it were.
NoFile == [kind |-> "none"]
Torn == [kind |-> "torn"]
IsCheckpoint(f) == f.kind = "checkpoint"

Quantity(S) == MapThenSumSet(LAMBDA o : info[o].quantity, S)

InSeq(s) == {s[i] : i \in DOMAIN s}
InMessages(m) == UNION {m[i].orders : i \in DOMAIN m}
InPositions == UNION {pos[s].orders : s \in DOMAIN pos}
InFile(f) == IF IsCheckpoint(f) THEN InSeq(f.queue) \cup UNION {f.pos[s] : s \in DOMAIN f.pos}
             ELSE {}

Settled(f) == IF IsCheckpoint(f) THEN f.settled ELSE {}

SentBy(r) == UNION {sent[i].orders : i \in {j \in DOMAIN sent : sent[j].run = r}}
InMemory == InSeq(queue) \cup InSeq(batch) \cup InMessages(ready) \cup InPositions

WithPosition(s, p) == [t \in DOMAIN pos \cup {s} |-> IF t = s THEN p ELSE pos[t]]

Up == pc \notin {"down"}

-----------------------------------------------------------------------------
Init ==
    /\ info = <<>>
    /\ queue = <<>>
    /\ pos = <<>>
    /\ pc = "select" /\ batch = <<>> /\ ready = <<>> /\ final = FALSE
    /\ snap = NoFile /\ tmp = NoFile /\ disk = NoFile
    /\ sent = <<>> /\ executor = TRUE /\ dropped = {}
    /\ crashes = 0
    /\ known = {} /\ durable = {}

\* push(), called by queue_orders() and by the rebalancer, from other threads
\* and at any time; a full queue rejects the order, which changes nothing.
Push(s, q) ==
    /\ Up
    /\ Len(info) < MaxOrders
    /\ Len(queue) < MaxSize
    /\ info' = Append(info, [symbol |-> s, quantity |-> q])
    /\ queue' = Append(queue, Len(info) + 1)
    /\ known' = known \cup {Len(info) + 1}
    /\ UNCHANGED <<pos, loopVars, fileVars, execVars, crashes>>

\* Time passes: a position's started_at is stale_threshold_secs ago.
PositionAges(s) ==
    /\ Up
    /\ s \in DOMAIN pos
    /\ ~ pos[s].old
    /\ pos' = [pos EXCEPT ![s].old = TRUE]
    /\ UNCHANGED <<info, queue, loopVars, fileVars, execVars, crashes, known>>

\* The executor's task ends: sends fail from now on.
ExecutorEnds ==
    /\ executor
    /\ executor' = FALSE
    /\ UNCHANGED <<info, queue, pos, loopVars, fileVars, sent, dropped, crashes, known>>

-----------------------------------------------------------------------------
(* One pass of the loop of run(): process_pending_orders(),                *)
(* flush_stale_buffers(), a checkpoint when it is due.                     *)

\* Mutant: the newest orders are popped.
PopBatchFromBack ==
    /\ pc = "select"
    /\ LET n == IF PopSize < Len(queue) THEN PopSize ELSE Len(queue) IN
       /\ batch' = SubSeq(queue, Len(queue) - n + 1, Len(queue))
       /\ queue' = SubSeq(queue, 1, Len(queue) - n)
    /\ pc' = "process"
    /\ UNCHANGED <<info, pos, ready, final, fileVars, execVars, crashes, known>>

\* The poll interval has passed: pop_batch().
PopBatch ==
    /\ pc = "select"
    /\ LET n == IF PopSize < Len(queue) THEN PopSize ELSE Len(queue) IN
       /\ batch' = SubSeq(queue, 1, n)
       /\ queue' = SubSeq(queue, n + 1, Len(queue))
    /\ pc' = "process"
    /\ UNCHANGED <<info, pos, ready, final, fileVars, execVars, crashes, known>>

\* Mutant: the position is not reset when its quantity is executed.
ProcessOrderKeeps ==
    /\ pc = "process" /\ batch # <<>>
    /\ LET o == Head(batch)
           s == info[o].symbol
           p == IF s \in DOMAIN pos THEN pos[s] ELSE NewPosition
           all == p.orders \cup {o}
           full == Quantity(all) >= MinSize
       IN /\ pos' = WithPosition(s, [p EXCEPT !.orders = all])
          /\ ready' = IF full
                      THEN Append(ready, [symbol |-> s, orders |-> all, run |-> crashes])
                      ELSE ready
    /\ batch' = Tail(batch)
    /\ UNCHANGED <<info, queue, pc, final, fileVars, execVars, crashes, known>>

\* MinSizeHandler::process_order(): the order joins the position of its symbol,
\* all of which is executed once it has reached the minimum.  started_at is set
\* when the entry is made and when it is emptied, not when an order joins.
ProcessOrder ==
    /\ pc = "process" /\ batch # <<>>
    /\ LET o == Head(batch)
           s == info[o].symbol
           p == IF s \in DOMAIN pos THEN pos[s] ELSE NewPosition
           all == p.orders \cup {o}
           full == Quantity(all) >= MinSize
       IN /\ pos' = WithPosition(s, IF full THEN NewPosition ELSE [p EXCEPT !.orders = all])
          /\ ready' = IF full
                      THEN Append(ready, [symbol |-> s, orders |-> all, run |-> crashes])
                      ELSE ready
    /\ batch' = Tail(batch)
    /\ UNCHANGED <<info, queue, pc, final, fileVars, execVars, crashes, known>>

\* tx.send(): a failure is logged, and the orders are gone.
Send(messages) ==
    /\ sent' = IF executor THEN sent \o messages ELSE sent
    /\ dropped' = IF executor THEN dropped ELSE dropped \cup InMessages(messages)
    /\ UNCHANGED executor

SendReady ==
    /\ pc = "process" /\ batch = <<>>
    /\ Send(ready)
    /\ ready' = <<>>
    /\ pc' = "flush"
    /\ UNCHANGED <<info, queue, pos, batch, final, fileVars, crashes, known>>

\* Mutant: only positions that hold several orders are flushed.
StaleSeveral(s) == Cardinality(pos[s].orders) > 1 /\ pos[s].old

Stale(s) == pos[s].orders # {} /\ pos[s].old

\* Mutant: started_at is reset, the quantity is not.
FlushStaleKeeps(s) ==
    /\ pc = "flush"
    /\ s \in DOMAIN pos /\ Stale(s)
    /\ Send(<<[symbol |-> s, orders |-> pos[s].orders, run |-> crashes]>>)
    /\ pos' = [pos EXCEPT ![s].old = FALSE]
    /\ UNCHANGED <<info, queue, loopVars, fileVars, crashes, known>>

\* flush_stale_buffers(), for one of the stale symbols.
FlushStale(s) ==
    /\ pc = "flush"
    /\ s \in DOMAIN pos /\ Stale(s)
    /\ Send(<<[symbol |-> s, orders |-> pos[s].orders, run |-> crashes]>>)
    /\ pos' = [pos EXCEPT ![s] = NewPosition]
    /\ UNCHANGED <<info, queue, loopVars, fileVars, crashes, known>>

\* Nothing stale is left; whether the checkpoint is due is a matter of time.
FlushDone ==
    /\ pc = "flush"
    /\ \A s \in DOMAIN pos : ~ Stale(s)
    /\ pc' \in {"select", "snapshot"}
    /\ UNCHANGED <<info, queue, pos, batch, ready, final, fileVars, execVars, crashes, known>>

\* The cancellation token: a last checkpoint, then the loop ends.
Cancel ==
    /\ pc = "select"
    /\ crashes < MaxCrashes
    /\ pc' = "snapshot"
    /\ final' = TRUE
    /\ UNCHANGED <<info, queue, pos, batch, ready, fileVars, execVars, crashes, known>>

-----------------------------------------------------------------------------
(* save_checkpoint() and checkpoint() *)

\* Mutant: the accumulated quantities are not saved.
SnapshotQueueOnly ==
    /\ pc = "snapshot"
    /\ snap' = [kind |-> "checkpoint", queue |-> queue, pos |-> <<>>,
                settled |-> Settled(disk) \cup SentBy(crashes)]
    /\ pc' = "write"
    /\ UNCHANGED <<info, queue, pos, batch, ready, final, tmp, disk, durable, execVars,
                   crashes, known>>

\* get_all() and get_buffered_quantities(); from here to the rename other
\* threads go on pushing.
Snapshot ==
    /\ pc = "snapshot"
    /\ LET held == {s \in DOMAIN pos : pos[s].orders # {}} IN
       snap' = [kind |-> "checkpoint", queue |-> queue,
                pos |-> [s \in held |-> pos[s].orders],
                settled |-> Settled(disk) \cup SentBy(crashes)]
    /\ pc' = "write"
    /\ UNCHANGED <<info, queue, pos, batch, ready, final, tmp, disk, durable, execVars,
                   crashes, known>>

\* Mutant: the checkpoint file itself is written, without a temporary one.
BeginWriteInPlace ==
    /\ pc = "write"
    /\ disk' = Torn
    /\ pc' = "writing"
    /\ UNCHANGED <<info, queue, pos, batch, ready, final, snap, tmp, durable, execVars,
                   crashes, known>>

\* tokio::fs::write() of the temporary file is not atomic.
BeginWrite ==
    /\ pc = "write"
    /\ tmp' = Torn
    /\ pc' = "writing"
    /\ UNCHANGED <<info, queue, pos, batch, ready, final, snap, disk, durable, execVars,
                   crashes, known>>

EndWrite ==
    /\ pc = "writing"
    /\ tmp' = snap
    /\ pc' = "rename"
    /\ UNCHANGED <<info, queue, pos, batch, ready, final, snap, disk, durable, execVars,
                   crashes, known>>

AfterCheckpoint ==
    /\ pc' = IF final THEN "exited" ELSE "select"
    /\ snap' = NoFile

Rename ==
    /\ pc = "rename"
    /\ disk' = tmp
    /\ tmp' = NoFile
    /\ durable' = durable \cup InFile(tmp)
    /\ AfterCheckpoint
    /\ UNCHANGED <<info, queue, pos, batch, ready, final, execVars, crashes, known>>

\* An I/O error anywhere: it is logged, and the loop goes on (or ends).
CheckpointFails ==
    /\ pc \in {"write", "writing", "rename"}
    /\ AfterCheckpoint
    /\ UNCHANGED <<info, queue, pos, batch, ready, final, tmp, disk, durable, execVars,
                   crashes, known>>

-----------------------------------------------------------------------------
(* The end of the process, by a crash or after the exit, and its restart *)

ProcessEnds ==
    /\ Up
    /\ crashes < MaxCrashes
    /\ crashes' = crashes + 1
    /\ pc' = "down"
    /\ queue' = <<>> /\ pos' = <<>> /\ batch' = <<>> /\ ready' = <<>>
    /\ final' = FALSE /\ snap' = NoFile
    /\ known' = {}
    /\ UNCHANGED <<info, tmp, disk, durable, execVars>>

\* restore_from_checkpoint(), before anything is pushed: the orders go back into
\* the queue, the quantities into new positions.  Without a file, and with one
\* that cannot be parsed, the buffer starts empty.
Restart ==
    /\ pc = "down"
    /\ IF IsCheckpoint(disk)
       THEN /\ queue' = SubSeq(disk.queue, 1,
                               IF MaxSize < Len(disk.queue) THEN MaxSize ELSE Len(disk.queue))
            /\ pos' = [s \in DOMAIN disk.pos |-> [NewPosition EXCEPT !.orders = disk.pos[s]]]
       ELSE UNCHANGED <<queue, pos>>
    /\ known' = InFile(disk)
    /\ executor' = TRUE
    /\ pc' = "select"
    /\ UNCHANGED <<info, batch, ready, final, fileVars, sent, dropped, crashes>>

-----------------------------------------------------------------------------
Loop ==
    \/ PopBatch \/ ProcessOrder \/ SendReady
    \/ \E s \in Symbols : FlushStale(s)
    \/ FlushDone
    \/ Snapshot \/ BeginWrite \/ EndWrite \/ Rename \/ CheckpointFails

Next ==
    \/ \E s \in Symbols, q \in Quantities : Push(s, q)
    \/ \E s \in Symbols : PositionAges(s)
    \/ ExecutorEnds
    \/ Loop
    \/ Cancel
    \/ ProcessEnds
    \/ Restart

Spec == Init /\ [][Next]_vars

\* The loop is a task of its own, which the runtime schedules, and time passes;
\* nothing obliges a checkpoint to be due, or the process to end.
FairSpec ==
    /\ Spec
    /\ WF_vars(Loop)
    /\ \A s \in Symbols : WF_vars(PositionAges(s))

-----------------------------------------------------------------------------
(* Properties *)

Checkpoint(f) ==
    /\ f.queue \in Seq(Orders) /\ Len(f.queue) <= MaxSize
    /\ DOMAIN f.pos \subseteq Symbols
    /\ \A s \in DOMAIN f.pos : f.pos[s] \subseteq Orders
    /\ f.settled \subseteq Orders

\* Type correctness; in particular neither the queue nor a file ever holds more
\* than max_size orders, and the checkpoint file is never a torn one.
BufferTypeOK ==
    /\ info \in Seq([symbol : Symbols, quantity : Quantities]) /\ Len(info) <= MaxOrders
    /\ queue \in Seq(Orders) /\ Len(queue) <= MaxSize
    /\ DOMAIN pos \subseteq Symbols /\ \A s \in DOMAIN pos : pos[s] \in Position
    /\ pc \in {"select", "process", "flush", "snapshot", "write", "writing", "rename",
               "exited", "down"}
    /\ batch \in Seq(Orders) /\ ready \in Seq(Message) /\ final \in BOOLEAN
    /\ \A f \in {snap, tmp, disk} : f \in {NoFile, Torn} \/ Checkpoint(f)
    /\ disk # Torn
    /\ sent \in Seq(Message) /\ executor \in BOOLEAN /\ dropped \subseteq Orders
    /\ crashes \in 0 .. MaxCrashes
    /\ known \subseteq Orders /\ durable \subseteq Orders

\* While the process runs, every order it has accepted or restored is waiting,
\* was sent, or was given to a closed channel; none is in two places, and none
\* is sent twice.
EveryOrderSomewhere ==
    Up => /\ known \subseteq InMemory \cup SentBy(crashes) \cup dropped
          /\ InMemory \cap SentBy(crashes) = {}
          /\ \A i, j \in DOMAIN sent :
                i # j /\ sent[i].run = sent[j].run => sent[i].orders \cap sent[j].orders = {}

\* For each symbol, orders reach the executor in the order of their acceptance,
\* whether they waited in a position, were flushed as stale, or were restored.
SymbolOrderKept ==
    \A i, j \in DOMAIN sent :
        i < j /\ sent[i].run = sent[j].run /\ sent[i].symbol = sent[j].symbol =>
            \A o \in sent[i].orders, p \in sent[j].orders : o < p

\* "Atomic checkpoint/restore for crash recovery": an order that was once in a
\* completed checkpoint is never lost again, whenever the process ends, be it
\* during a later checkpoint or before the first one after a restart.
CheckpointedNeverLost ==
    durable \subseteq InMemory \cup InMessages(sent) \cup dropped \cup InFile(disk)

\* An order is sent again after a restart only if it was sent after the last
\* completed checkpoint was taken: what a completed checkpoint knew to be sent
\* is neither waiting nor in the file, through any number of restarts.
SentBeforeCheckpointNotResent ==
    Settled(disk) \cap (InMemory \cup InFile(disk)) = {}

\* An accepted order does not wait for ever, however small it is, unless the
\* process ends first: what does not reach the minimum is flushed as stale.
EveryOrderLeaves ==
    \A o \in Orders :
        (o \in known) ~> (o \in InMessages(sent) \cup dropped \/ pc \in {"exited", "down"})

=============================================================================
