---------------------------- MODULE DeltaRebalancer ----------------------------
(***************************************************************************)
(* The Vendor's rebalancing loop (src/bin/vendor/src/delta_rebalancer) over *)
(* the demand on the chain, the recorded supply (Supply) and the supply     *)
(* reported on the chain (onchain/vendor_submitter.rs).                     *)
(*                                                                         *)
(* One task runs the loop; a step is what it does between two awaits, or    *)
(* between two reads of the price tracker, which market data changes        *)
(* meanwhile.  Other tasks of the Vendor report supply on the chain too:    *)
(* mock positions 15 s after the start, zeros for assets registered         *)
(* automatically, placeholders (main.rs, api/routes.rs).  All transactions  *)
(* come from one account and take the next nonce of the chain, so that at   *)
(* most one of those not mined can still be.                                *)
(*                                                                         *)
(* Amounts are whole units.  main() connects neither an OrderBuffer nor an  *)
(* InventorySimulator to the rebalancer and nothing updates its USDC        *)
(* balance, which stays zero: the branches that need them are left out.     *)
(***************************************************************************)
EXTENDS Supply, FiniteSets, Functions

CONSTANTS
    Assets,        \* assets the chain lists for the vendor
    Demands,       \* net demands an asset may have
    Prices,        \* prices an asset may have
    MinOrder,      \* min_order_size_usd
    Exposure,      \* total_exposure_usd
    Configs,       \* configurations of the rebalancer
    Reports,       \* supplies that other tasks, or an earlier run, report on the chain
    MaxChanges     \* bound: how many times a demand or a price changes

ASSUME RebalancerAssumption ==
    /\ IsFiniteSet(Assets)
    /\ Demands \subseteq Nat /\ 0 \in Demands
    /\ Prices \in [Assets -> SUBSET (Nat \ {0})]
    /\ MinOrder \in Nat \ {0}
    /\ {Exposure, MaxChanges} \subseteq Nat
    /\ Reports \subseteq [long : Nat, short : Nat]
    \* `tracked` are the assets that SupplyManager::initialize() has set up,
    \* `sender` says whether there is an OrderSender.
    /\ Configs \subseteq [onchainFirst : BOOLEAN, submit : BOOLEAN,
                          simulation : BOOLEAN, sender : BOOLEAN, tracked : SUBSET Assets]

VARIABLES
    config,      \* RebalancerConfig, and what the rebalancer was given
    demand,      \* net demand of each asset on the chain
    price,       \* what the price tracker has of each asset, or 0
    changes,     \* how many times a demand or a price has changed
    supply,      \* the recorded supply of each asset
    dirty,       \* SupplyState::dirty
    submitted,   \* last_submission is set
    chain,       \* the supply reported on the chain
    pending,     \* what a transaction reports that was given up and may yet be mined
    pc,          \* where the cycle stands
    read,        \* the demand this cycle has read
    quoted,      \* the prices its margins were calculated with, or 0
    orders,      \* the orders of this cycle that are still to be executed
    payload,     \* what the submission in progress reports
    failed,      \* history: the last submission failed, and no other has begun
    reverted,    \* history: assets whose last confirmed submission reverted
    foreign      \* history: assets that the chain shows as others have reported them

cycleVars == <<pc, read, quoted, orders, payload>>
supplyVars == <<supply, dirty, submitted>>
chainVars == <<chain, pending, failed, reverted, foreign>>
worldVars == <<config, demand, price, changes>>
vars == <<worldVars, supplyVars, chainVars, cycleVars>>

Side == {"buy", "sell"}
Nothing == [a \in {} |-> Reported(NewSupply)]

\* The supply starts at zero, whatever the chain shows.
Init ==
    /\ config \in Configs
    /\ demand = [a \in Assets |-> 0] /\ price = [a \in Assets |-> 0] /\ changes = 0
    /\ supply = [a \in Assets |-> NewSupply] /\ dirty = FALSE /\ submitted = FALSE
    /\ chain \in [Assets -> Reports] /\ pending = Nothing
    /\ pc = "idle" /\ read = demand /\ quoted = price /\ orders = {} /\ payload = Nothing
    /\ failed = FALSE /\ reverted = {} /\ foreign = Assets

\* Orders of users change what the chain demands of the vendor.
DemandChanges(a, d) ==
    /\ changes < MaxChanges
    /\ d # demand[a]
    /\ demand' = [demand EXCEPT ![a] = d]
    /\ changes' = changes + 1
    /\ UNCHANGED <<config, price, supplyVars, chainVars, cycleVars>>

\* Market data: the first price of an asset, and a price that moves.
PriceArrives(a, p) ==
    /\ price[a] = 0
    /\ price' = [price EXCEPT ![a] = p]
    /\ UNCHANGED <<config, demand, changes, supplyVars, chainVars, cycleVars>>

PriceMoves(a, p) ==
    /\ changes < MaxChanges
    /\ price[a] \notin {0, p}
    /\ price' = [price EXCEPT ![a] = p]
    /\ changes' = changes + 1
    /\ UNCHANGED <<config, demand, supplyVars, chainVars, cycleVars>>

\* What the chain shows once the supplies of f are reported.
Applied(f) == [a \in Assets |-> IF a \in DOMAIN f THEN f[a] ELSE chain[a]]

\* Another task reports supply r for the assets of S.  Its transaction takes the
\* nonce of one given up.
OthersReport(S, r) ==
    /\ S # {}
    /\ chain' = Applied([a \in S |-> r])
    /\ pending' = Nothing
    /\ foreign' = foreign \cup S
    /\ UNCHANGED <<worldVars, supplyVars, failed, reverted, cycleVars>>

\* A transaction given up is mined after all, or can no longer be: it reverted,
\* or another transaction took its nonce.
LateTransaction ==
    /\ pending # Nothing
    /\ pending' = Nothing
    /\ \/ chain' = Applied(pending) /\ foreign' = foreign \ DOMAIN pending
       \/ UNCHANGED <<chain, foreign>>
    /\ UNCHANGED <<worldVars, supplyVars, failed, reverted, cycleVars>>

-----------------------------------------------------------------------------
(* From demand to orders.                                                  *)

\* An asset the supply manager does not know has no supply.
CountedSupply(a) == IF a \in config.tracked THEN NetSupply(supply[a]) ELSE 0

Unbalanced == {a \in Assets : read[a] # CountedSupply(a)}
SideOf(a) == IF read[a] > CountedSupply(a) THEN "buy" ELSE "sell"
Difference(a) == SaturatingSub(read[a], CountedSupply(a)) + SaturatingSub(CountedSupply(a), read[a])

RoundUp(usd) == ((usd + MinOrder - 1) \div MinOrder) * MinOrder

\* Mutant: every asset may use the whole exposure.
MaxQuantityEach(a) == Exposure \div quoted[a]

\* The exposure is shared by all the unbalanced assets.
MaxQuantity(a) == (Exposure \div Cardinality(Unbalanced)) \div quoted[a]

\* Rounded up to the minimum, then capped at the margin.  An asset without a price
\* when the margins were calculated has none, and its order is not capped.
OrderUsd(a) ==
    LET usd == RoundUp(Difference(a) * price[a])
        max == MaxQuantity(a) * price[a]
    IN IF quoted[a] = 0 \/ usd < max THEN usd ELSE max

\* In simulation mode orders below the minimum are accepted.
SmallestOrder == IF config.simulation THEN 0 ELSE MinOrder

\* Mutant: orders below the minimum are accepted, and rounded up, in any mode.
OrderedAnySize == {a \in Unbalanced : price[a] # 0}

Ordered == {a \in Unbalanced : price[a] # 0 /\ Difference(a) * price[a] >= SmallestOrder}

NewOrder(a) == [asset |-> a, side |-> SideOf(a), quantity |-> OrderUsd(a) \div price[a]]

\* Without USDC every order is simulated, where simulation is enabled.
Mode == IF config.simulation THEN "simulated"
        ELSE IF config.onchainFirst THEN "onchainFirst"
        ELSE "normal"

SubmitsFirst == config.onchainFirst \/ config.submit

\* Outside normal mode the supply is counted before any execution.
CountsAhead == SubmitsFirst /\ Mode # "normal"

\* There is no buffer, so that orders on-chain first are executed at once.
ToExecute(os) == IF Mode = "simulated" \/ ~ config.sender THEN {} ELSE os

-----------------------------------------------------------------------------
(* One cycle of rebalance_once().                                          *)

\* A read that fails ends the cycle and changes nothing.
FetchDemand ==
    /\ pc = "idle"
    /\ read' = demand
    /\ pc' = "margins"
    /\ UNCHANGED <<worldVars, supplyVars, chainVars, quoted, orders, payload>>

\* calculate_margins() reads the prices; the orders read them again.
CalculateMargins ==
    /\ pc = "margins"
    /\ Unbalanced # {}
    /\ quoted' = price
    /\ pc' = "decide"
    /\ UNCHANGED <<worldVars, supplyVars, chainVars, read, orders, payload>>

\* The portfolio is balanced, or no order is worth it: the cycle ends here.
NothingToDo ==
    /\ \/ pc = "margins" /\ Unbalanced = {}
       \/ pc = "decide" /\ Ordered = {}
    /\ pc' = "idle"
    /\ UNCHANGED <<worldVars, supplyVars, chainVars, read, quoted, orders, payload>>

NewOrders == {NewOrder(a) : a \in Ordered}

WithRecorded(os) ==
    [a \in Assets |->
        IF \E o \in os : o.asset = a
        THEN LET o == CHOOSE o \in os : o.asset = a IN Record(supply[a], o.side, o.quantity)
        ELSE supply[a]]

\* Purchases are counted before sales, each in any order, up to the first asset
\* that the supply manager does not know.
CountedBeforeError ==
    LET unknown == {o \in NewOrders : o.asset \notin config.tracked}
        buys == {o \in NewOrders : o.side = "buy"}
        sales == NewOrders \ buys
    IN IF unknown \cap buys # {} THEN SUBSET (buys \ unknown)
       ELSE {buys \cup S : S \in SUBSET (sales \ unknown)}

\* An unknown asset ends the cycle with an error, after some orders were counted.
DecideFails ==
    /\ pc = "decide"
    /\ CountsAhead
    /\ ~ Ordered \subseteq config.tracked
    /\ \E os \in CountedBeforeError :
          /\ supply' = WithRecorded(os)
          /\ dirty' = (dirty \/ os # {})
    /\ pc' = "idle"
    /\ UNCHANGED <<worldVars, submitted, chainVars, read, quoted, orders, payload>>

Changed(s) == {a \in Assets : HasChanged(s[a], submitted)}

\* Mutant: the state read at the start of the cycle is reported.
PayloadBefore(s) == [a \in Changed(s) |-> Reported(supply[a])]

\* What is submitted of the state s, read again once the orders are counted.
Payload(s) == [a \in Changed(s) |-> Reported(s[a])]

Decide ==
    /\ pc = "decide"
    /\ Ordered # {}
    /\ CountsAhead => Ordered \subseteq config.tracked
    /\ supply' = IF CountsAhead THEN WithRecorded(NewOrders) ELSE supply
    /\ dirty' = (dirty \/ CountsAhead)
    /\ orders' = ToExecute(NewOrders)
    /\ IF SubmitsFirst /\ dirty' /\ Changed(supply') # {}
       THEN payload' = Payload(supply') /\ pc' = "submit" /\ failed' = FALSE
       ELSE pc' = "execute" /\ UNCHANGED <<payload, failed>>
    /\ UNCHANGED <<worldVars, submitted, chain, pending, reverted, foreign, read, quoted>>

-----------------------------------------------------------------------------
(* submit_supply(): the transaction is sent and its receipt awaited.       *)

\* The transaction is mined, with the nonce of one given up before; the call
\* succeeds or reverts.
Mine ==
    /\ pc = "submit"
    /\ pending' = Nothing
    /\ \/ /\ pc' = "applied"
          /\ chain' = Applied(payload)
          /\ reverted' = reverted \ DOMAIN payload
          /\ foreign' = foreign \ DOMAIN payload
       \/ pc' = "reverted" /\ UNCHANGED <<chain, reverted, foreign>>
    /\ UNCHANGED <<worldVars, supplyVars, failed, read, quoted, orders, payload>>

MarkSubmitted ==
    /\ supply' = [a \in Assets |-> [supply[a] EXCEPT !.changed = FALSE]]
    /\ dirty' = FALSE
    /\ submitted' = TRUE

\* The receipt comes; its status is not looked at.
SubmitOk ==
    /\ pc \in {"applied", "reverted"}
    /\ MarkSubmitted
    /\ reverted' = IF pc = "reverted" THEN reverted \cup DOMAIN payload ELSE reverted
    /\ pc' = "execute" /\ payload' = Nothing
    /\ UNCHANGED <<worldVars, chain, pending, failed, foreign, read, quoted, orders>>

\* Mutant: the state is marked although the submission failed.
SubmitFailsMarked ==
    /\ pc \in {"submit", "applied", "reverted"}
    /\ MarkSubmitted
    /\ pending' \in {pending} \cup (IF pc = "submit" THEN {payload} ELSE {})
    /\ failed' = TRUE
    /\ pc' = "execute" /\ payload' = Nothing
    /\ UNCHANGED <<worldVars, chain, reverted, foreign, read, quoted, orders>>

\* An error: the transaction was refused, for a nonce another task of the Vendor
\* has used or otherwise, or its receipt was lost, after it was mined or before.
SubmitFails ==
    /\ pc \in {"submit", "applied", "reverted"}
    /\ pending' \in {pending} \cup (IF pc = "submit" THEN {payload} ELSE {})
    /\ failed' = TRUE
    /\ pc' = "execute" /\ payload' = Nothing
    /\ UNCHANGED <<worldVars, supplyVars, chain, reverted, foreign, read, quoted, orders>>

-----------------------------------------------------------------------------
(* execute_orders(): one order after another, in any order.                *)

\* The sender reports a fill, maybe partial; it is counted, for the second time
\* where the supply was counted ahead.
Fill(o, q) ==
    /\ pc = "execute" /\ o \in orders
    /\ o.asset \in config.tracked
    /\ q \in 0 .. o.quantity
    /\ supply' = [supply EXCEPT ![o.asset] = Record(@, o.side, q)]
    /\ dirty' = TRUE
    /\ orders' = orders \ {o}
    /\ UNCHANGED <<worldVars, submitted, chainVars, pc, read, quoted, payload>>

\* The fill of an asset that the supply manager does not know is not counted,
\* and the error ends the cycle.
FillUnknown(o) ==
    /\ pc = "execute" /\ o \in orders
    /\ o.asset \notin config.tracked
    /\ orders' = {}
    /\ pc' = "idle"
    /\ UNCHANGED <<worldVars, supplyVars, chainVars, read, quoted, payload>>

OrderFails(o) ==
    /\ pc = "execute" /\ o \in orders
    /\ orders' = orders \ {o}
    /\ UNCHANGED <<worldVars, supplyVars, chainVars, pc, read, quoted, payload>>

CycleEnds ==
    /\ pc = "execute" /\ orders = {}
    /\ pc' = "idle"
    /\ UNCHANGED <<worldVars, supplyVars, chainVars, read, quoted, orders, payload>>

-----------------------------------------------------------------------------
Execute == \E o \in orders : OrderFails(o) \/ FillUnknown(o) \/ \E q \in 0 .. o.quantity : Fill(o, q)

Cycle ==
    \/ FetchDemand \/ CalculateMargins \/ NothingToDo \/ DecideFails \/ Decide
    \/ SubmitOk \/ SubmitFails
    \/ Execute \/ CycleEnds

Next ==
    \/ \E a \in Assets, d \in Demands : DemandChanges(a, d)
    \/ \E a \in Assets : \E p \in Prices[a] : PriceArrives(a, p) \/ PriceMoves(a, p)
    \/ \E S \in SUBSET Assets, r \in Reports : OthersReport(S, r)
    \/ LateTransaction
    \/ Mine
    \/ Cycle

Spec == Init /\ [][Next]_vars

\* The task's loop goes on and market data arrives.  A transaction may never be
\* mined, and its receipt is awaited without a timeout; of the orders nothing is
\* assumed, as an open circuit breaker makes them all fail.
FairSpec ==
    /\ Spec
    /\ WF_vars(pc # "submit" /\ Cycle)
    /\ \A a \in Assets : WF_vars(\E p \in Prices[a] : PriceArrives(a, p))

-----------------------------------------------------------------------------
(* Properties.                                                             *)

Order == [asset : Assets, side : Side, quantity : Nat]

\* Type invariant.
RebalancerTypeOK ==
    /\ config \in Configs
    /\ demand \in [Assets -> Demands] /\ read \in [Assets -> Demands]
    /\ price \in [Assets -> Nat] /\ quoted \in [Assets -> Nat]
    /\ changes \in 0 .. MaxChanges
    /\ supply \in [Assets -> AssetSupply]
    /\ {dirty, submitted, failed} \subseteq BOOLEAN
    /\ chain \in [Assets -> [long : Nat, short : Nat]]
    /\ pc \in {"idle", "margins", "decide", "submit", "applied", "reverted", "execute"}
    /\ orders \subseteq Order
    /\ \A f \in {payload, pending} :
          DOMAIN f \subseteq Assets /\ \A a \in DOMAIN f : f[a] \in [long : Nat, short : Nat]
    /\ reverted \subseteq Assets /\ foreign \subseteq Assets

\* Bookkeeping of SupplyState: an asset the chain shows wrongly is still counted
\* as changed, and the state as dirty, through failed submissions, lost receipts,
\* transactions mined late and fills.  The exceptions are a submission that
\* reverted unnoticed and an asset that others reported last: the rebalancer
\* neither reads what the chain shows nor learns of the other tasks' reports.
ChangedUntilSubmitted ==
    \A a \in Assets : chain[a] # Reported(supply[a]) =>
        \/ dirty /\ HasChanged(supply[a], submitted)
        \/ a \in reverted
        \/ a \in foreign

\* rebalance_once() reads the state, counts the orders, reads it again and only
\* then waits for the transaction: what it brings to the chain is what is recorded
\* at the moment it is mined.  Only a transaction given up before brings an older
\* supply, and then the asset stays marked, for the next submission to correct.
SubmitsCurrentSupply ==
    [][\A a \in Assets : chain'[a] # chain[a] =>
          \/ chain'[a] = Reported(supply[a])
          \/ a \in foreign'
          \/ /\ a \in DOMAIN pending /\ chain'[a] = pending[a]
             /\ dirty /\ HasChanged(supply[a], submitted)]_vars

\* The orders of one cycle never cost more than total_exposure_usd together at the
\* prices their margins were calculated with, though each is rounded up on its own
\* and prices move meanwhile.  An order whose asset had no price then has no margin,
\* and no bound.
Cost(os) == SumFunction([o \in os |-> o.quantity * quoted[o.asset]])
SpendBounded == Cost({o \in orders : quoted[o.asset] # 0}) <= Exposure

\* In normal mode the loop settles: once demand and prices rest, the recorded supply
\* of every asset comes within the minimum order of it for good, whatever was
\* capped, counted or refused before; unless orders of that asset fail or are filled
\* partially for ever, or the rebalancer waits for ever for a receipt.
MinQuantity(a) == (MinOrder + price[a] - 1) \div price[a]
Balanced(a) ==
    /\ price[a] # 0
    /\ demand[a] - CountedSupply(a) < MinQuantity(a)
    /\ CountedSupply(a) - demand[a] < MinQuantity(a)
Settles == Mode = "normal" /\ config.sender /\ config.tracked = Assets
NotFilled(a) ==
    \E o \in orders : o.asset = a /\ (OrderFails(o) \/ \E q \in 0 .. o.quantity - 1 : Fill(o, q))
DemandMet ==
    \A a \in Assets :
        \/ <>[](Settles => Balanced(a))
        \/ []<><<NotFilled(a)>>_vars
        \/ <>[](pc = "submit")

\* "Continue anyway - we'll retry next cycle" (rebalancer.rs:314): a submission
\* that failed is made again.
FailedSubmissionRetried == failed ~> ~ failed
================================================================================
