----------------------------- MODULE OrderSender -----------------------------
(***************************************************************************)
(* The exchange side of the Vendor: BitgetOrderSender with its retries, its *)
(* circuit breaker, its rate limited batches of immediate-or-cancel orders *)
(* and the refills of RefillManager, against an exchange that may lose a   *)
(* request or a response and whose order status may lag behind.            *)
(*                                                                         *)
(* Calls come one after the other (the sender is behind a RwLock and its   *)
(* batch functions take &mut self):                                        *)
(*   "orders"  send_orders(), send_orders_with_summary(): every order goes *)
(*             through place_order_with_retry();                           *)
(*   "ioc"     send_ioc_orders_rate_limited(), send_index_orders_adaptive();*)
(*   "refill"  execute_ioc_order_with_refill(), one order.                 *)
(*                                                                         *)
(* Prices are left out: a price decides only how much the exchange fills,  *)
(* which is any amount here.                                               *)
(*                                                                         *)
(* An Amount has 18 decimals; the exchange is sent 8 of them, and its      *)
(* answers are read through an f64.  The unit of all quantities here is    *)
(* the most that reading a fill can be wrong by, and Lot units are one in  *)
(* the eighth decimal.                                                     *)
(***************************************************************************)
EXTENDS RateLimiter, Functions

CONSTANTS
    Quantities,      \* quantities of the orders
    Lot,             \* the step of the quantities and fills of the exchange
    MaxBatch,        \* the longest batch of a call
    RetryAttempts,   \* retry_attempts
    MaxFailures,     \* max_consecutive_failures
    MaxRefills,      \* max_retries of the refill manager
    MinFill,         \* min_fill_threshold, in percent
    NearlyFull       \* percentage that makes an order of unknown status filled: 99

ASSUME SenderAssumption ==
    /\ Quantities \subseteq Nat \ {0}
    /\ MaxBatch \in Nat \ {0}
    /\ RetryAttempts \in Nat \ {0}
    /\ MaxFailures \in Nat \ {0}
    /\ MaxRefills \in Nat
    /\ MinFill \in 0 .. 100
    /\ NearlyFull \in 1 .. 100
    /\ Lot \in Nat /\ MaxRefills < Lot    \* all refills together are read less than a step wrong

VARIABLES
    active,      \* between start() and stop()
    trading,     \* trading_enabled
    failures,    \* consecutive_failures
    failedRun,   \* orders executed without success since the last success
    call,        \* the call in progress: its kind, order type and orders left
    pc,          \* where the current order stands
    ordered,     \* its quantity
    attempt,     \* which attempt, or how many refills so far
    quantity,    \* quantity of the attempt
    fills,       \* fills of the attempts before, added up
    answer,      \* its ExecutionResult
    placed,      \* what the exchange has accepted for it, in order
    unseen       \* fills that the statuses it was refilled after did not show,
                 \* for the property

orderVars == <<ordered, attempt, quantity, fills, answer, placed, unseen>>
breakerVars == <<failures, failedRun>>
vars == <<active, trading, breakerVars, call, pc, orderVars, limiterVars>>

NoCall == [kind |-> "none", type |-> "none", left |-> 0]
NoAnswer == [status |-> "none", filled |-> 0]
Success == {"Filled", "PartiallyFilled"}

CircuitOpen == failures >= MaxFailures

Init ==
    /\ active = FALSE
    /\ trading \in BOOLEAN
    /\ failures = 0 /\ failedRun = 0
    /\ call = NoCall
    /\ pc = "idle"
    /\ ordered = 0 /\ attempt = 0 /\ quantity = 0 /\ fills = 0
    /\ answer = NoAnswer
    /\ placed = <<>> /\ unseen = 0
    /\ timestamps = <<>> /\ recent = <<>> /\ earlier = <<>>

-----------------------------------------------------------------------------
(* Calls *)

StartOrStop ==
    /\ call = NoCall
    /\ active' = ~ active
    /\ UNCHANGED <<trading, breakerVars, call, pc, orderVars, limiterVars>>

\* A batch is accepted when the sender is active.  A batch of immediate-or-
\* cancel orders is rejected as a whole, and without a trace, when the circuit
\* breaker is open or trading is disabled.
BeginBatch(kind, type, n) ==
    /\ call = NoCall
    /\ active
    /\ (kind = "orders") <=> (type \in {"limit", "market"})
    /\ kind = "ioc" => ~ CircuitOpen /\ trading
    /\ call' = [kind |-> kind, type |-> type, left |-> n]
    /\ pc' = "next"
    /\ NewLimiter
    /\ UNCHANGED <<active, trading, breakerVars, orderVars>>

\* execute_ioc_order_with_refill() looks at none of these.
BeginRefill ==
    /\ call = NoCall
    /\ call' = [kind |-> "refill", type |-> "ioc", left |-> 1]
    /\ pc' = "next"
    /\ UNCHANGED <<active, trading, breakerVars, orderVars, limiterVars>>

\* Market orders ask for no price.
FirstStep(c) == IF c.type = "market" THEN "place" ELSE "price"

\* The loop over the orders takes the next one.  place_order_with_retry()
\* rejects it if the circuit breaker is open or trading is disabled.
NextOrder(q) ==
    /\ pc \in {"next", "answered"}
    /\ call.left > 0
    /\ IF call.kind = "orders" /\ (CircuitOpen \/ ~ trading)
       THEN pc' = "answered" /\ answer' = [status |-> "Failed", filled |-> 0]
       ELSE pc' = FirstStep(call) /\ answer' = NoAnswer
    /\ IF call.kind = "ioc" THEN WaitForSlot ELSE UNCHANGED limiterVars
    /\ call' = [call EXCEPT !.left = @ - 1]
    /\ ordered' = q /\ quantity' = q
    /\ attempt' = IF call.kind = "refill" THEN 0 ELSE 1
    /\ fills' = 0
    /\ placed' = <<>> /\ unseen' = 0
    /\ UNCHANGED <<active, trading, breakerVars>>

\* The call returns its results.
CallReturns ==
    /\ pc = "answered"
    /\ call.left = 0
    /\ call' = NoCall
    /\ pc' = "idle"
    /\ ordered' = 0 /\ attempt' = 0 /\ quantity' = 0 /\ fills' = 0
    /\ answer' = NoAnswer
    /\ placed' = <<>> /\ unseen' = 0
    /\ NewLimiter
    /\ UNCHANGED <<active, trading, breakerVars>>

-----------------------------------------------------------------------------
(* What becomes of an attempt *)

\* Mutant: a partial fill does not reset the circuit breaker.
ResetBy(status) == status = "Filled"

\* record_success(): a fill, even a partial one, closes the circuit breaker.
Resets(status) == status \in Success

\* The order has its result; n more failures are counted unless it resets them.
\* A rate limited batch records the operation.
Answer(status, filled, n) ==
    /\ pc' = "answered"
    /\ answer' = [status |-> status, filled |-> filled]
    /\ failures' = IF call.kind = "refill" THEN failures
                   ELSE IF Resets(status) THEN 0 ELSE failures + n
    /\ failedRun' = IF call.kind = "refill" THEN failedRun
                    ELSE IF status \in Success THEN 0 ELSE failedRun + 1
    /\ IF call.kind = "ioc" THEN RecordOperation ELSE UNCHANGED limiterVars
    /\ UNCHANGED <<attempt, quantity, fills, unseen>>

Retry ==
    /\ pc' = FirstStep(call)
    /\ attempt' = attempt + 1
    /\ UNCHANGED <<quantity, fills, answer, unseen, breakerVars, limiterVars>>

\* Mutant: an error that may pass is retried without end.
FailsForEver(retryable) ==
    IF retryable /\ call.kind = "orders"
    THEN /\ pc' = FirstStep(call)
         /\ UNCHANGED <<attempt, quantity, fills, answer, unseen, breakerVars, limiterVars>>
    ELSE Answer("Failed", 0, 2)

\* Mutant: one attempt too many.
FailsOneMore(retryable) ==
    IF call.kind = "orders" /\ retryable /\ attempt <= RetryAttempts THEN Retry
    ELSE Answer("Failed", 0, IF retryable /\ call.kind = "orders" THEN 1 ELSE 2)

\* The attempt returns an error.  place_order_with_retry() tries again unless
\* the attempts are used up or the error cannot pass; it counts that one twice.
\* So does a batch: once for the error and once for the failed result.  The
\* error ends a refill, whose earlier fills are not reported.
Fails(retryable) ==
    IF call.kind = "orders" /\ retryable /\ attempt < RetryAttempts THEN Retry
    ELSE Answer("Failed", 0, IF retryable /\ call.kind = "orders" THEN 1 ELSE 2)

ShouldRefill(status, filled) ==
    /\ attempt < MaxRefills
    /\ status # "Failed"
    /\ quantity > 0
    /\ status # "Filled" /\ filled * 10000 < 9999 * quantity
    /\ filled * 100 < MinFill * quantity

\* Mutant: a refill orders the quantity of the attempt before again.
WholeAgain(filled) == quantity

\* compute_refill_order(): the rest, as the status tells it.
Rest(filled) == quantity - filled

\* What the exchange has filled of the order placed last.
LastFilled == placed[Len(placed)].filled

\* Mutant: the last result is in the vector twice.
AggregatedTwice(total, last) == total + last

\* aggregate_fills(): the fills of all attempts.
Aggregated(total, last) == total

\* The status of the aggregated result.
FinalStatus(total) ==
    IF total >= ordered THEN "Filled" ELSE IF total > 0 THEN "PartiallyFilled" ELSE "Cancelled"

\* The attempt returns a result.  A refill waits and asks for a new order book
\* before it goes on with the rest; without an order book it ends.
Returns(status, filled) ==
    LET total == fills + (IF status \in Success THEN filled ELSE 0) IN
    IF call.kind # "refill" THEN Answer(status, filled, 1)
    ELSE IF ShouldRefill(status, filled)
    THEN /\ pc' = "refetch"
         /\ fills' = total
         /\ attempt' = attempt + 1
         /\ quantity' = Rest(filled)
         /\ unseen' = unseen + (IF LastFilled > filled THEN LastFilled - filled ELSE 0)
         /\ UNCHANGED <<answer, breakerVars, limiterVars>>
    ELSE LET sum == Aggregated(total, filled) IN Answer(FinalStatus(sum), sum, 0)

-----------------------------------------------------------------------------
(* The exchange *)

Steps(n) == {k \in 0 .. n : k % Lot = 0}

\* amount_to_quantity_string(): rounded up or down to eight decimals.
Sent(q) == {s \in Steps(q + Lot) : 2 * s <= 2 * q + Lot /\ 2 * q <= 2 * s + Lot}

\* A limit order stays in the book.  Market and immediate-or-cancel orders
\* fill at once as far as they can, and what is left is cancelled.  An order
\* for 0.00000000 is not accepted.
Accepted(q, type) ==
    IF type = "limit"
    THEN {[quantity |-> s, filled |-> 0, open |-> TRUE] : s \in Sent(q) \ {0}}
    ELSE UNION {{[quantity |-> s, filled |-> f, open |-> FALSE] : f \in Steps(s)} :
                    s \in Sent(q) \ {0}}

\* An order in the book is filled or cancelled, that of an attempt given up
\* included.
ExchangeTrades(i) ==
    /\ placed[i].open
    /\ \/ \E f \in Steps(placed[i].quantity) :
             /\ f > placed[i].filled
             /\ placed' = [placed EXCEPT ![i].filled = f,
                                         ![i].open = f < placed[i].quantity]
       \/ placed' = [placed EXCEPT ![i].open = FALSE]
    /\ UNCHANGED <<active, trading, breakerVars, call, pc, ordered, attempt, quantity,
                   fills, answer, unseen, limiterVars>>

StatusOf(x) ==
    IF x.filled = x.quantity THEN "full_fill"
    ELSE IF ~ x.open THEN "cancelled"
    ELSE IF x.filled > 0 THEN "partial_fill" ELSE "new"

\* What get_order() may report of the last order: the truth or, as a status takes
\* its time to propagate, that it is new, filled in part, or in a state that has a
\* name unknown to the code, with as much of the fill as has been booked.
Reports == LET x == placed[Len(placed)] IN
    {[status |-> StatusOf(x), filled |-> x.filled]}
    \cup [status : {"new", "partial_fill", "unknown"}, filled : Steps(x.filled)]

\* The fill as the code reads it, (base_volume * 1e18) as u128.
Read(filled) == IF filled = 0 THEN {0} ELSE {filled - 1, filled, filled + 1}

\* order_detail_to_execution_result().
StatusOfResult(r) ==
    CASE r.status = "full_fill" -> "Filled"
      [] r.status = "partial_fill" -> "PartiallyFilled"
      [] r.status = "new" -> "Pending"
      [] r.status = "cancelled" -> "Cancelled"
      [] OTHER -> "Failed"

\* ioc_order_detail_to_execution_result(): what came of it decides.  A new order
\* is as unknown as any other.
StatusOfIocResult(r) ==
    IF r.status = "full_fill" THEN "Filled"
    ELSE IF r.status \in {"partial_fill", "cancelled"}
    THEN IF r.filled > 0 THEN "PartiallyFilled" ELSE "Cancelled"
    ELSE IF r.filled = 0 THEN "Failed"
    ELSE IF r.filled * 100 >= NearlyFull * quantity THEN "Filled" ELSE "PartiallyFilled"

ResultStatus(r, type) == IF type = "ioc" THEN StatusOfIocResult(r) ELSE StatusOfResult(r)

-----------------------------------------------------------------------------
(* An attempt: execute_limit_order(), execute_market_order(),              *)
(* execute_ioc_order() and execute_ioc_order_adaptive()                    *)

PriceOk ==
    /\ pc = "price"
    /\ pc' = "place"
    /\ UNCHANGED <<active, trading, breakerVars, call, orderVars, limiterVars>>

\* The price is not obtained, or the exchange does not accept the order.
AttemptFails(retryable) ==
    /\ pc \in {"price", "place"}
    /\ Fails(retryable)
    /\ UNCHANGED <<active, trading, call, ordered, placed>>

\* The exchange accepts the order and says so.
PlaceOk ==
    /\ pc = "place"
    /\ \E x \in Accepted(quantity, call.type) : placed' = Append(placed, x)
    /\ pc' = IF call.type = "limit" THEN "wait" ELSE "status"
    /\ UNCHANGED <<active, trading, breakerVars, call, ordered, attempt, quantity,
                   fills, answer, unseen, limiterVars>>

\* The exchange accepts the order, and the response is lost: a network error.
ResponseLost ==
    /\ pc = "place"
    /\ \E x \in Accepted(quantity, call.type) : placed' = Append(placed, x)
    /\ Fails(TRUE)
    /\ UNCHANGED <<active, trading, call, ordered>>

\* wait_for_fill() sees the order filled.
WaitFilled ==
    /\ pc = "wait"
    /\ \E r \in Reports : r.status = "full_fill" /\ \E f \in Read(r.filled) : Returns("Filled", f)
    /\ UNCHANGED <<active, trading, call, ordered, placed>>

\* It times out, or a status request fails.
WaitFails ==
    /\ pc = "wait"
    /\ pc' = "status"
    /\ UNCHANGED <<active, trading, breakerVars, call, orderVars, limiterVars>>

StatusOk ==
    /\ pc = "status"
    /\ \E r \in Reports : \E f \in Read(r.filled) : Returns(ResultStatus(r, call.type), f)
    /\ UNCHANGED <<active, trading, call, ordered, placed>>

\* The context of this error for a limit order mentions a timeout, which makes
\* every such error one that may pass.
StatusFails(retryable) ==
    /\ pc = "status"
    /\ call.type = "limit" => retryable
    /\ Fails(retryable)
    /\ UNCHANGED <<active, trading, call, ordered, placed>>

\* The order book for the refill.
RefetchOk ==
    /\ pc = "refetch"
    /\ pc' = "price"
    /\ UNCHANGED <<active, trading, breakerVars, call, orderVars, limiterVars>>

RefetchFails ==
    /\ pc = "refetch"
    /\ Answer(FinalStatus(fills), fills, 0)
    /\ UNCHANGED <<active, trading, call, ordered, placed>>

-----------------------------------------------------------------------------
Attempt ==
    \/ PriceOk \/ PlaceOk \/ ResponseLost
    \/ WaitFilled \/ WaitFails \/ StatusOk
    \/ RefetchOk \/ RefetchFails
    \/ \E retryable \in BOOLEAN : AttemptFails(retryable) \/ StatusFails(retryable)

TimePasses ==
    /\ Tick
    /\ UNCHANGED <<active, trading, breakerVars, call, pc, orderVars>>

Begin ==
    \/ \E n \in 1 .. MaxBatch, kind \in {"orders", "ioc"}, type \in {"limit", "market", "ioc"} :
          BeginBatch(kind, type, n)
    \/ BeginRefill

Proceed == Attempt \/ CallReturns \/ \E q \in Quantities : NextOrder(q)

Next ==
    \/ StartOrStop
    \/ Begin
    \/ Proceed
    \/ \E i \in DOMAIN placed : ExchangeTrades(i)
    \/ TimePasses

Spec == Init /\ [][Next]_vars

\* A call in progress is run: requests return or time out, sleeps end.
FairSpec == Spec /\ WF_vars(Proceed) /\ WF_vars(TimePasses)

-----------------------------------------------------------------------------
(* Properties *)

Statuses == {"Filled", "PartiallyFilled", "Pending", "Cancelled", "Failed"}
ExchangeOrder == [quantity : Nat \ {0}, filled : Nat, open : BOOLEAN]

\* Type correctness; in particular attempts and refills stay within their limits
\* and the failure counter, of 32 bits in the code, within what one call of an
\* open circuit breaker can add.
SenderTypeOK ==
    /\ active \in BOOLEAN /\ trading \in BOOLEAN
    /\ failures \in 0 .. MaxFailures - 1 + 2 * MaxBatch
    /\ failedRun \in Nat
    /\ call \in [kind : {"none", "orders", "ioc", "refill"},
                 type : {"none", "limit", "market", "ioc"}, left : 0 .. MaxBatch]
    /\ pc \in {"idle", "next", "price", "place", "wait", "status", "refetch", "answered"}
    /\ ordered \in {0} \cup Quantities
    /\ attempt \in 0 .. IF call.kind = "refill" THEN MaxRefills ELSE RetryAttempts
    /\ quantity \in 0 .. ordered /\ fills \in 0 .. ordered
    /\ answer \in [status : Statuses \cup {"none"}, filled : Nat]
    /\ placed \in Seq(ExchangeOrder) /\ unseen \in Nat
    /\ timestamps \in Seq(0 .. Window) /\ recent \in Seq(0 .. Window - 1)
    /\ earlier \in Seq(0 .. Window)
    /\ Len(timestamps) <= RateLimit

Executed == SumFunction([i \in DOMAIN placed |-> placed[i].filled])

\* Through any number of retries, lost responses, late statuses and refills: no
\* fill is reported that the exchange did not make, but for what reading each one
\* can be wrong by; none above the quantity, but for the step it is rounded by; and
\* an order reported as filled lacks no more than such a step, or than what a fill
\* of unknown status may lack.  The Vendor's supply counts what is reported.
ReportedFillsExecuted ==
    pc = "answered" =>
        /\ answer.filled <= Executed + Len(placed)
        /\ answer.filled <= ordered + Lot
        /\ answer.status = "Filled" => \/ Executed + Lot >= ordered
                                       \/ Executed * 100 >= NearlyFull * ordered

\* What an order may come to at the exchange if all that is open fills.
Exposed ==
    SumFunction([i \in DOMAIN placed |-> IF placed[i].open THEN placed[i].quantity
                                         ELSE placed[i].filled])

\* An order comes to no more than its quantity and a step of rounding, once per
\* attempt if it is retried without knowing whether the attempt before was
\* accepted.  Immediate-or-cancel, it comes to that once however often it is
\* refilled, and to the fills that the statuses did not show: those, and nothing
\* else, are bought twice.
ExposureBounded ==
    Exposed <= (ordered + Lot) * (IF call.kind = "orders" THEN RetryAttempts ELSE 1) + unseen

\* The circuit breaker counts every order that failed since the last success,
\* once or twice, and nothing else: it opens after at least half of, and at most
\* max_consecutive_failures failed orders, and then no more than the batch in
\* progress fails.
BreakerTracksFailures ==
    /\ failedRun <= failures /\ failures <= 2 * failedRun
    /\ failedRun <= MaxFailures - 1 + MaxBatch

\* No call goes on for ever, whatever the exchange answers: retries, refills and
\* the waits for a fill and for a slot all end.
EveryCallReturns == (call # NoCall) ~> (call = NoCall)

=============================================================================
