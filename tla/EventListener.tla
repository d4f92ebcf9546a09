---------------------------- MODULE EventListener ----------------------------
(***************************************************************************)
(* How the Keeper learns of orders: the chain event listener               *)
(* (src/bin/keeper/src/chain/event_listener.rs) and the event processor,   *)
(* the vault refresh and the shutdown that main.rs wires around it.        *)
(*                                                                         *)
(* The listener first backtracks over the last blocks, then lives on a     *)
(* WebSocket subscription, and after ws_failure_threshold connections in a *)
(* row that failed it polls for the rest of its life.  Each of the three   *)
(* ways of watching starts at the block the chain has reached; nothing     *)
(* looks back at what happened between two of them.                        *)
(*                                                                         *)
(* An event is named by its block; a block holds at most one.              *)
(***************************************************************************)
EXTENDS Integers, Sequences, FiniteSets

CONSTANTS
    Vaults,            \* vault addresses
    InitialVaults,     \* those discovered before the listener starts
    MaxBlock,          \* bound: how long the chain grows
    StartBlock,        \* how long the chain is when the Keeper starts
    BacktrackBlocks,   \* BACKTRACK_BLOCKS; 0, which skips the backtrack, is left out
    Threshold          \* ws_failure_threshold

ASSUME ListenerAssumption ==
    /\ InitialVaults \subseteq Vaults /\ InitialVaults # {}
    /\ MaxBlock \in Nat /\ StartBlock \in 0 .. MaxBlock
    /\ BacktrackBlocks \in Nat \ {0}
    /\ Threshold \in Nat \ {0}

VARIABLES
    chain,        \* chain[b] is the event of block b
    since,        \* vault_addresses: the block from which a vault is watched, or 0
    pc,           \* where the listener stands
    failures,     \* consecutive_ws_failures
    subscribed,   \* the vaults of the current subscription
    wire,         \* events the server sent and the listener has not read
    last,         \* last_processed_block
    upTo,         \* to_block of the backtrack or the poll in progress
    sent,         \* every event emitted into the channel, in order
    taken,        \* how many of them the event processor has received
    claim,        \* the claim in the event processor's hands, and what it awaits
    submitted,    \* the orders given to the accumulator, in order
    main,         \* where main() stands
    from          \* first block of the contiguous range that ends at last

listenerVars == <<pc, failures, subscribed, wire, last, upTo, sent, from>>
processorVars == <<taken, claim, submitted>>
vars == <<chain, since, listenerVars, processorVars, main>>

\* Claims are those above the threshold; other: a claim below it, an Acquisition
\* or a Disposal.
ClaimKinds == {"acquisition_claim", "disposal_claim"}
Kinds == ClaimKinds \cup {"order", "other"}
Event == [vault : Vaults, kind : Kinds]
NoEvent == [vault |-> "none", kind |-> "none"]

Blocks == 1 .. MaxBlock
Height == Len(chain)
Watched == {v \in Vaults : since[v] # 0}

\* Blocks as a node returns them: the older ones first.
OldestFirst(B) ==
    CHOOSE s \in [1 .. Cardinality(B) -> B] : \A i, j \in DOMAIN s : i < j => s[i] < s[j]

\* The logs get_logs() returns for a range of blocks and a set of addresses.
Logs(lo, hi, S) ==
    OldestFirst({b \in lo .. hi : chain[b].kind # "none" /\ chain[b].vault \in S})

Cancelled == main # "running"

NoClaim == [kind |-> "none", awaits |-> "none"]

-----------------------------------------------------------------------------
Init ==
    /\ chain \in [1 .. StartBlock -> Event \cup {NoEvent}]
    /\ since = [v \in Vaults |-> IF v \in InitialVaults THEN 1 ELSE 0]
    /\ pc = "start"
    /\ failures = 0
    /\ subscribed = {}
    /\ wire = <<>>
    /\ last = 0
    /\ upTo = 0
    /\ sent = <<>>
    /\ taken = 0
    /\ claim = NoClaim
    /\ submitted = <<>>
    /\ main = "running"
    /\ from = 1

\* A block is mined; the server pushes its event to a subscription that asks
\* for it.
NewBlock(e) ==
    /\ Height < MaxBlock
    /\ chain' = Append(chain, e)
    /\ wire' = IF pc = "connected" /\ e.vault \in subscribed
               THEN Append(wire, Height + 1) ELSE wire
    /\ UNCHANGED <<since, pc, failures, subscribed, last, upTo, sent, from,
                   processorVars, main>>

\* The refresh task: refresh_vault_list() found a vault, add_vaults() adds it.
\* The task starts after the backtrack, and no cancellation reaches it.
AddVault(v) ==
    /\ pc \notin {"start", "backtrack"}
    /\ v \notin Watched
    /\ since' = [since EXCEPT ![v] = Height + 1]
    /\ UNCHANGED <<chain, listenerVars, processorVars, main>>

-----------------------------------------------------------------------------
(* backtrack_events() *)

\* main() computes from_block from the current block, then backtrack_events()
\* reads the current block again.  A failed first call counts as block 0 and
\* backtracks over the whole chain.
BacktrackHead ==
    /\ pc = "start"
    /\ upTo' = Height
    /\ \E head \in {0} \cup StartBlock .. Height :
          from' = IF head - BacktrackBlocks > 1 THEN head - BacktrackBlocks ELSE 1
    /\ pc' = "backtrack"
    /\ UNCHANGED <<chain, since, failures, subscribed, wire, last, sent, processorVars, main>>

BacktrackLogs ==
    /\ pc = "backtrack"
    /\ sent' = sent \o Logs(from, upTo, Watched)
    /\ last' = upTo
    /\ pc' = "loop"
    /\ UNCHANGED <<chain, since, failures, subscribed, wire, upTo, from, processorVars, main>>

\* An RPC call fails: main() logs it and starts the listener anyway.
BacktrackFails ==
    /\ pc = "backtrack"
    /\ from' = last + 1
    /\ pc' = "loop"
    /\ UNCHANGED <<chain, since, failures, subscribed, wire, last, upTo, sent,
                   processorVars, main>>

-----------------------------------------------------------------------------
(* run_websocket_loop() and connect_and_subscribe() *)

\* Top of the loop: cancelled, or too many failures; both lead to polling.
GiveUpWebSocket ==
    /\ pc = "loop"
    /\ Cancelled \/ failures >= Threshold
    /\ pc' = "poll_start"
    /\ UNCHANGED <<chain, since, failures, subscribed, wire, last, upTo, sent, from,
                   processorVars, main>>

\* Mutant: the threshold is never looked at.
WsFailsForEver ==
    /\ pc = "loop"
    /\ ~ Cancelled
    /\ failures' = failures + 1
    /\ UNCHANGED <<chain, since, pc, subscribed, wire, last, upTo, sent, from,
                   processorVars, main>>

\* Connecting or sending the subscription fails; the loop backs off.
WsFails ==
    /\ pc = "loop"
    /\ ~ Cancelled /\ failures < Threshold
    /\ failures' = failures + 1
    /\ UNCHANGED <<chain, since, pc, subscribed, wire, last, upTo, sent, from,
                   processorVars, main>>

\* The subscription names the vaults watched now.
WsSubscribes ==
    /\ pc = "loop"
    /\ ~ Cancelled /\ failures < Threshold
    /\ pc' = "connected"
    /\ subscribed' = Watched
    /\ wire' = <<>>
    /\ UNCHANGED <<chain, since, failures, last, upTo, sent, from, processorVars, main>>

\* handle_ws_message(): a log notification becomes an event in the channel.
WsMessage ==
    /\ pc = "connected"
    /\ wire # <<>>
    /\ sent' = Append(sent, Head(wire))
    /\ wire' = Tail(wire)
    /\ UNCHANGED <<chain, since, pc, failures, subscribed, last, upTo, from,
                   processorVars, main>>

\* Closed by the server, a stream error, a failed ping, a missing pong or the
\* cancellation: Ok(()), which resets the failures.  What was on the wire is lost.
WsEnds ==
    /\ pc = "connected"
    /\ pc' = "loop"
    /\ failures' = 0
    /\ wire' = <<>>
    /\ subscribed' = {}
    /\ UNCHANGED <<chain, since, last, upTo, sent, from, processorVars, main>>

-----------------------------------------------------------------------------
(* run_polling_loop() and poll_events() *)

\* Polling starts at the current block, wherever the listener was before.
PollStart ==
    /\ pc = "poll_start"
    /\ last' = Height
    /\ from' = Height + 1
    /\ pc' = "polling"
    /\ UNCHANGED <<chain, since, failures, subscribed, wire, upTo, sent, processorVars, main>>

\* get_block_number() fails: start() returns the error and the task ends.
PollStartFails ==
    /\ pc = "poll_start"
    /\ pc' = "stopped"
    /\ UNCHANGED <<chain, since, failures, subscribed, wire, last, upTo, sent, from,
                   processorVars, main>>

\* A tick: to_block is read; nothing happens without a new block.
PollHead ==
    /\ pc = "polling"
    /\ Height > last
    /\ upTo' = Height
    /\ pc' = "poll_logs"
    /\ UNCHANGED <<chain, since, failures, subscribed, wire, last, sent, from,
                   processorVars, main>>

\* Mutant: the range starts at from_block, not after it.
PollLogsOverlap ==
    /\ pc = "poll_logs"
    /\ sent' = sent \o Logs(IF last = 0 THEN 1 ELSE last, upTo, Watched)
    /\ last' = upTo
    /\ pc' = "polling"
    /\ UNCHANGED <<chain, since, failures, subscribed, wire, upTo, from, processorVars, main>>

\* The logs of the new blocks, for the vaults watched by now.
PollLogs ==
    /\ pc = "poll_logs"
    /\ sent' = sent \o Logs(last + 1, upTo, Watched)
    /\ last' = upTo
    /\ pc' = "polling"
    /\ UNCHANGED <<chain, since, failures, subscribed, wire, upTo, from, processorVars, main>>

\* Mutant: last_processed_block moves although the logs were not obtained.
PollFailsForward ==
    /\ pc = "poll_logs"
    /\ last' = upTo
    /\ pc' = "polling"
    /\ UNCHANGED <<chain, since, failures, subscribed, wire, upTo, sent, from,
                   processorVars, main>>

\* get_logs() fails: the next tick asks for the same range and what came since.
PollFails ==
    /\ pc = "poll_logs"
    /\ pc' = "polling"
    /\ UNCHANGED <<chain, since, failures, subscribed, wire, last, upTo, sent, from,
                   processorVars, main>>

PollStops ==
    /\ pc = "polling"
    /\ Cancelled
    /\ pc' = "stopped"
    /\ UNCHANGED <<chain, since, failures, subscribed, wire, last, upTo, sent, from,
                   processorVars, main>>

-----------------------------------------------------------------------------
(* The event processor of main.rs, and ClaimHandler *)

\* handle_event(): a claim begins with the request to the Vendor.
Handled(kind) == IF kind \in ClaimKinds THEN [kind |-> kind, awaits |-> "vendor"] ELSE NoClaim

\* recv() returns an event: an order goes to the accumulator, a claim above the
\* threshold is handled before the next event is received.
ProcessEvent ==
    /\ claim = NoClaim
    /\ taken < Len(sent)
    /\ taken' = taken + 1
    /\ LET b == sent[taken + 1] IN
       /\ submitted' = IF chain[b].kind = "order" THEN Append(submitted, b) ELSE submitted
       /\ claim' = Handled(chain[b].kind)
    /\ UNCHANGED <<chain, since, listenerVars, main>>

\* Mutant: a failed call is made again, for ever.
ClaimCallRetries == claim.awaits \in {"vendor", "tx"} /\ claim' = [claim EXCEPT !.awaits = "vendor"]

\* The Vendor confirms and the transaction comes next; or the claim is over: it
\* is processed, or one of its calls failed for good.  Both calls retry a bounded
\* number of times, and a dry run leaves the transaction out.
ClaimCall ==
    \/ claim.awaits = "vendor" /\ claim' = [claim EXCEPT !.awaits = "tx"]
    \/ claim.awaits \in {"vendor", "tx"} /\ claim' = NoClaim

\* processPendingBuyOrder() for the controller of an acquisition.
AcquisitionClaim ==
    /\ claim.kind = "acquisition_claim"
    /\ ClaimCall
    /\ UNCHANGED <<chain, since, listenerVars, taken, submitted, main>>

\* processPendingSellOrder() for the controller of a disposal.
DisposalClaim ==
    /\ claim.kind = "disposal_claim"
    /\ ClaimCall
    /\ UNCHANGED <<chain, since, listenerVars, taken, submitted, main>>

-----------------------------------------------------------------------------
(* Shutdown *)

\* ctrl_c: both cancellation tokens are cancelled, then the tasks are awaited.
CtrlC ==
    /\ main = "running"
    /\ pc \notin {"start", "backtrack"}
    /\ main' = "await_listener"
    /\ UNCHANGED <<chain, since, listenerVars, processorVars>>

ListenerJoined ==
    /\ main = "await_listener"
    /\ pc = "stopped"
    /\ main' = "await_processor"
    /\ UNCHANGED <<chain, since, listenerVars, processorVars>>

\* The channel's only sender is in the ChainEventListener, which two tasks
\* share: the listener's, and the refresh task, whose loop has no exit.
Senders == (IF pc = "stopped" THEN {} ELSE {"listener"}) \cup {"refresh"}

\* recv() returns None, and the event processor ends, when no sender is left.
ProcessorJoined ==
    /\ main = "await_processor"
    /\ Senders = {} /\ claim = NoClaim /\ taken = Len(sent)
    /\ main' = "exited"
    /\ UNCHANGED <<chain, since, listenerVars, processorVars>>

-----------------------------------------------------------------------------
Listener ==
    \/ BacktrackHead \/ BacktrackLogs \/ BacktrackFails
    \/ GiveUpWebSocket \/ WsFails \/ WsSubscribes \/ WsMessage \/ WsEnds
    \/ PollStart \/ PollStartFails \/ PollHead \/ PollLogs \/ PollFails \/ PollStops

Processor == ProcessEvent \/ AcquisitionClaim \/ DisposalClaim

Next ==
    \/ \E e \in Event \cup {NoEvent} : NewBlock(e)
    \/ \E v \in Vaults : AddVault(v)
    \/ Listener
    \/ Processor
    \/ CtrlC
    \/ ListenerJoined

Spec == Init /\ [][Next]_vars

\* The tasks are scheduled, the chain's server closes no connection for ever and
\* an RPC call or a claim's request to the Vendor returns; where a call can fail
\* again and again, it also succeeds again and again.  Nothing is assumed of a
\* claim's transaction, whose receipt is awaited without a timeout.
\* tokio::select! picks among ready branches at random, so the cancellation is
\* not passed over for ever.
ListenerFairness ==
    /\ WF_vars(BacktrackHead)
    /\ WF_vars(BacktrackLogs \/ BacktrackFails)
    /\ WF_vars(GiveUpWebSocket)
    /\ WF_vars(WsFails \/ WsSubscribes)
    /\ WF_vars(WsMessage)
    /\ WF_vars(Cancelled /\ WsEnds)
    /\ WF_vars(PollStart \/ PollStartFails)
    /\ WF_vars(PollHead)
    /\ WF_vars(PollLogs \/ PollFails)
    /\ SF_vars(PollLogs)
    /\ SF_vars(PollStops)
    /\ WF_vars(ProcessEvent)
    /\ WF_vars(claim.awaits = "vendor" /\ (AcquisitionClaim \/ DisposalClaim))
    /\ WF_vars(ListenerJoined)

FairSpec == Spec /\ ListenerFairness

\* The same with the last step of the shutdown.
ShutdownSpec ==
    /\ Init /\ [][Next \/ ProcessorJoined]_vars
    /\ ListenerFairness /\ WF_vars(ProcessorJoined)

-----------------------------------------------------------------------------
(* Properties *)

\* Type correctness; in particular the failures never exceed the threshold.
ListenerTypeOK ==
    /\ chain \in Seq(Event \cup {NoEvent}) /\ Height \in StartBlock .. MaxBlock
    /\ since \in [Vaults -> 0 .. MaxBlock + 1]
    /\ pc \in {"start", "backtrack", "loop", "connected",
               "poll_start", "polling", "poll_logs", "stopped"}
    /\ failures \in 0 .. Threshold
    /\ subscribed \subseteq Watched
    /\ wire \in Seq(Blocks)
    /\ last \in 0 .. Height /\ upTo \in 0 .. Height /\ from \in 1 .. MaxBlock + 1
    /\ sent \in Seq(Blocks)
    /\ taken \in 0 .. Len(sent)
    /\ claim \in {NoClaim} \cup [kind : ClaimKinds, awaits : {"vendor", "tx"}]
    /\ submitted \in Seq(Blocks)
    /\ main \in {"running", "await_listener", "await_processor"}

\* No event is delivered twice or out of order, across the backtrack, any number
\* of subscriptions and the polling: the accumulator's orders are as on the chain.
DeliveredInChainOrder ==
    \A i, j \in DOMAIN sent : i < j => sent[i] < sent[j]

\* Failed polls lose nothing, nor does a vault added while a poll is in progress:
\* every event of a watched vault in the blocks from the start of the backtrack
\* (or of the polling) up to last_processed_block is in the channel.
CoverageComplete ==
    \A v \in Watched : \A b \in from .. last :
        (b >= since[v] /\ chain[b] # NoEvent /\ chain[b].vault = v)
            => \E i \in DOMAIN sent : sent[i] = b

\* The order of block b is one that polling has yet to report.
AwaitedByPolling(b) ==
    /\ pc \in {"polling", "poll_logs"}
    /\ b > last /\ b <= Height
    /\ chain[b].kind = "order"
    /\ since[chain[b].vault] \in 1 .. b

\* While polling goes on, every order of a watched vault reaches the accumulator,
\* whatever RPC calls fail and however many claims are handled before it: only a
\* claim whose transaction never gets its receipt, which the event processor
\* awaits in its loop, keeps the orders behind it waiting for ever.
PolledOrdersReachAccumulator ==
    \A b \in Blocks :
        AwaitedByPolling(b) ~>
            \/ Cancelled
            \/ \E i \in DOMAIN submitted : submitted[i] = b
            \/ [](claim.awaits = "tx")

\* "Get the cancellation token for graceful shutdown" (cancel_token): after
\* ctrl_c the Keeper stops.
GracefulShutdown == Cancelled ~> (main = "exited")

=============================================================================
