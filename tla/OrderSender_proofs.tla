------------------------- MODULE OrderSender_proofs --------------------------
(***************************************************************************)
(* OrderSender, for all batch sizes, thresholds, numbers of retries and    *)
(* refills, rates, windows and roundings: the circuit breaker counts every *)
(* failed order and bounds how many in a row can fail; no more operations  *)
(* of one batch begin within a window than the limiter allows; what is     *)
(* reported as filled has been filled, but for rounding and reading; an    *)
(* order comes to no more than its quantity, once per attempt, and what    *)
(* late statuses kept from its refills; and every step of a call brings it *)
(* nearer to its end.                                                      *)
(***************************************************************************)
EXTENDS OrderSender, Foundations, SequenceTheorems

Attempting == {"price", "place", "wait", "status", "refetch"}

\* The types that the counting depends on.
BreakerType ==
    /\ failures \in Nat /\ failedRun \in Nat
    /\ call \in [kind : {"none", "orders", "ioc", "refill"},
                 type : {"none", "limit", "market", "ioc"}, left : 0 .. MaxBatch]
    /\ pc \in {"idle", "next", "answered"} \cup Attempting

\* Every failed order is counted, once or twice.
Counted == failedRun <= failures /\ failures <= 2 * failedRun

\* The orders of the call that do not have their result.
Unanswered == call.left + (IF pc \in Attempting THEN 1 ELSE 0)

\* A batch of immediate-or-cancel orders began with the circuit breaker closed,
\* so even if all that is left of it fails the bound holds.
BatchFits == call.kind = "ioc" =>
    /\ failedRun + Unanswered <= MaxFailures - 1 + MaxBatch
    /\ failures + 2 * Unanswered <= MaxFailures - 1 + 2 * MaxBatch

FailuresBounded ==
    /\ failedRun <= MaxFailures - 1 + MaxBatch
    /\ failures <= MaxFailures - 1 + 2 * MaxBatch

\* The circuit breaker does not open while one order is attempted and retried.
ClosedWhileAttempting == call.kind = "orders" /\ pc \in Attempting => failures < MaxFailures

\* Only a refill asks for a new order book; it is not counted.
RefetchIsRefill == pc = "refetch" => call.kind = "refill"

\* Nothing is attempted between calls.
IdleBetweenCalls == call.kind = "none" => pc = "idle"

Inv ==
    /\ BreakerType
    /\ IdleBetweenCalls
    /\ Counted
    /\ BatchFits
    /\ ClosedWhileAttempting
    /\ RefetchIsRefill
    /\ FailuresBounded

-----------------------------------------------------------------------------
\* Initially nothing has failed.
LEMMA InitInv == Init => Inv
<1> SUFFICES ASSUME Init PROVE Inv
    OBVIOUS
<1> USE SenderAssumption DEF Init, NoCall
<1>1. BreakerType
    BY DEF BreakerType
<1>2. Counted /\ BatchFits /\ ClosedWhileAttempting /\ RefetchIsRefill /\ IdleBetweenCalls
    BY DEF Counted, BatchFits, ClosedWhileAttempting, RefetchIsRefill, IdleBetweenCalls, Attempting
<1>3. FailuresBounded
    BY DEF FailuresBounded
<1> QED
    BY <1>1, <1>2, <1>3 DEF Inv

\* An answer counts the order if it failed: by one or two, except for a refill.
LEMMA AnswerInv ==
    ASSUME Inv, NEW status, NEW filled, NEW n \in {0, 1, 2},
           pc \in Attempting, call' = call,
           call.kind # "refill" => n \in {1, 2},
           Answer(status, filled, n)
    PROVE  Inv'
<1> USE SenderAssumption DEF Inv, BreakerType, Answer
<1>1. failures' \in Nat /\ failedRun' \in Nat /\ pc' = "answered"
    OBVIOUS
<1>2. BreakerType'
    BY <1>1
<1>3. Counted'
    BY <1>1 DEF Counted, Resets
<1>4. BatchFits' /\ FailuresBounded'
  <2>1. CASE call.kind = "ioc"
      BY <1>1, <2>1 DEF BatchFits, FailuresBounded, Unanswered, Attempting
  <2>2. CASE call.kind = "orders"
      BY <1>1, <2>2 DEF BatchFits, FailuresBounded, ClosedWhileAttempting, Counted
  <2>3. CASE call.kind = "refill"
      BY <1>1, <2>3 DEF BatchFits, FailuresBounded
  <2> QED
      BY <2>1, <2>2, <2>3 DEF IdleBetweenCalls, Attempting
<1>5. ClosedWhileAttempting' /\ RefetchIsRefill' /\ IdleBetweenCalls'
    BY <1>1 DEF ClosedWhileAttempting, RefetchIsRefill, IdleBetweenCalls, Attempting
<1> QED
    BY <1>2, <1>3, <1>4, <1>5

\* A step within an attempt that counts nothing.
LEMMA AttemptInv ==
    ASSUME Inv, pc \in Attempting, pc' \in Attempting, call' = call,
           pc' = "refetch" => call.kind = "refill",
           UNCHANGED breakerVars
    PROVE  Inv'
BY DEF Inv, BreakerType, Counted, BatchFits, Unanswered, FailuresBounded,
       ClosedWhileAttempting, RefetchIsRefill, IdleBetweenCalls, Attempting, breakerVars

\* A failed attempt is retried or answered.
LEMMA FailsInv ==
    ASSUME Inv, NEW retryable \in BOOLEAN, pc \in Attempting, call' = call,
           Fails(retryable)
    PROVE  Inv'
<1>1. CASE call.kind = "orders" /\ retryable /\ attempt < RetryAttempts
  <2>1. Retry
      BY <1>1 DEF Fails
  <2>2. pc' \in Attempting /\ pc' # "refetch" /\ UNCHANGED breakerVars
      BY <2>1 DEF Retry, FirstStep, Attempting, breakerVars
  <2> QED
      BY <2>2, AttemptInv
<1>2. CASE ~ (call.kind = "orders" /\ retryable /\ attempt < RetryAttempts)
  <2>1. PICK n \in {1, 2} : Answer("Failed", 0, n)
      BY <1>2 DEF Fails
  <2> QED
      BY <2>1, AnswerInv
<1> QED
    BY <1>1, <1>2

\* A result is answered or refilled.
LEMMA ReturnsInv ==
    ASSUME Inv, NEW status, NEW filled, pc \in Attempting, call' = call,
           Returns(status, filled)
    PROVE  Inv'
<1>1. CASE call.kind # "refill"
    BY <1>1, AnswerInv DEF Returns
<1>2. CASE call.kind = "refill" /\ ShouldRefill(status, filled)
  <2>1. pc' = "refetch" /\ UNCHANGED breakerVars
      BY <1>2 DEF Returns, breakerVars
  <2> QED
      BY <1>2, <2>1, AttemptInv DEF Attempting
<1>3. CASE call.kind = "refill" /\ ~ ShouldRefill(status, filled)
  <2>1. PICK s, f : Answer(s, f, 0)
      BY <1>3 DEF Returns
  <2> QED
      BY <1>3, <2>1, AnswerInv
<1> QED
    BY <1>1, <1>2, <1>3

-----------------------------------------------------------------------------
\* A batch begins, with the circuit breaker closed if it is one of immediate-or-
\* cancel orders.
LEMMA BeginInv == Inv /\ Begin => Inv'
<1> SUFFICES ASSUME Inv, Begin PROVE Inv'
    OBVIOUS
<1> USE SenderAssumption DEF Inv, BreakerType, breakerVars
<1>1. UNCHANGED breakerVars /\ pc' = "next"
    BY DEF Begin, BeginBatch, BeginRefill
<1>2. /\ call' \in [kind : {"none", "orders", "ioc", "refill"},
                    type : {"none", "limit", "market", "ioc"}, left : 0 .. MaxBatch]
      /\ call'.kind # "none"
      /\ call'.kind = "ioc" => failures < MaxFailures
    BY DEF Begin, BeginBatch, BeginRefill, CircuitOpen
<1>3. BatchFits'
    BY <1>1, <1>2 DEF BatchFits, Unanswered, Counted, Attempting
<1>4. BreakerType' /\ IdleBetweenCalls'
    BY <1>1, <1>2 DEF IdleBetweenCalls
<1>5. Counted' /\ ClosedWhileAttempting' /\ RefetchIsRefill'
    BY <1>1 DEF Counted, ClosedWhileAttempting, RefetchIsRefill, Attempting
<1>6. FailuresBounded'
    BY <1>1 DEF FailuresBounded
<1> QED
    BY <1>1, <1>3, <1>4, <1>5, <1>6

\* The next order of a call: of a batch of retried orders only if the circuit
\* breaker is closed.
LEMMA NextOrderInv ==
    ASSUME Inv, NEW q, NextOrder(q)
    PROVE  Inv'
<1> USE SenderAssumption DEF Inv, BreakerType, breakerVars
<1>1. UNCHANGED breakerVars /\ pc \in {"next", "answered"} /\ call.left > 0
    BY DEF NextOrder
<1>2. /\ call' = [call EXCEPT !.left = @ - 1]
      /\ pc' \in {"answered", "price", "place"}
      /\ pc' = "answered" \/ (call.kind = "orders" => failures < MaxFailures)
      /\ pc' = "answered" => call.kind = "orders"
    BY DEF NextOrder, FirstStep, CircuitOpen
<1>3. call'.kind = call.kind /\ call'.left = call.left - 1
    BY <1>2
<1>4. BreakerType'
    BY <1>1, <1>2 DEF Attempting
<1>5. BatchFits' /\ ClosedWhileAttempting' /\ RefetchIsRefill' /\ IdleBetweenCalls'
    BY <1>1, <1>2, <1>3 DEF BatchFits, Unanswered, ClosedWhileAttempting, RefetchIsRefill,
                            IdleBetweenCalls, Attempting
<1> QED
    BY <1>1, <1>4, <1>5 DEF Counted, FailuresBounded

LEMMA CallReturnsInv == Inv /\ CallReturns => Inv'
BY SenderAssumption
   DEF CallReturns, NoCall, Inv, BreakerType, Counted, BatchFits, Unanswered,
       FailuresBounded, ClosedWhileAttempting, RefetchIsRefill, IdleBetweenCalls, Attempting, breakerVars

LEMMA AttemptStepInv == Inv /\ Attempt => Inv'
<1> SUFFICES ASSUME Inv, Attempt PROVE Inv'
    OBVIOUS
<1>1. CASE PriceOk \/ PlaceOk \/ WaitFails \/ RefetchOk
    BY <1>1, AttemptInv DEF PriceOk, PlaceOk, WaitFails, RefetchOk, Attempting, breakerVars
<1>2. CASE ResponseLost
    BY <1>2, FailsInv DEF ResponseLost, Attempting
<1>3. CASE WaitFilled
    BY <1>3, ReturnsInv DEF WaitFilled, Attempting
<1>4. CASE StatusOk
    BY <1>4, ReturnsInv DEF StatusOk, Attempting
<1>5. CASE RefetchFails
  <2>1. call.kind = "refill" /\ pc \in Attempting /\ call' = call
      BY <1>5 DEF RefetchFails, Inv, RefetchIsRefill, Attempting
  <2>2. PICK s, f : Answer(s, f, 0)
      BY <1>5 DEF RefetchFails
  <2> QED
      BY <2>1, <2>2, AnswerInv
<1>6. ASSUME NEW retryable \in BOOLEAN, AttemptFails(retryable) \/ StatusFails(retryable)
      PROVE  Inv'
    BY <1>6, FailsInv DEF AttemptFails, StatusFails, Attempting
<1> QED
    BY <1>1, <1>2, <1>3, <1>4, <1>5, <1>6 DEF Attempt

\* Every step preserves the invariant.
LEMMA NextInv == Inv /\ [Next]_vars => Inv'
<1> SUFFICES ASSUME Inv, [Next]_vars PROVE Inv'
    OBVIOUS
<1>1. ASSUME UNCHANGED <<breakerVars, call, pc>>
      PROVE  Inv'
    BY <1>1 DEF Inv, BreakerType, Counted, BatchFits, Unanswered, FailuresBounded,
                ClosedWhileAttempting, RefetchIsRefill, IdleBetweenCalls, breakerVars
<1>2. CASE StartOrStop
    BY <1>1, <1>2 DEF StartOrStop
<1>3. CASE Begin
    BY <1>3, BeginInv
<1>4. CASE Proceed
    BY <1>4, AttemptStepInv, CallReturnsInv, NextOrderInv DEF Proceed
<1>5. CASE \E i \in DOMAIN placed : ExchangeTrades(i)
    BY <1>1, <1>5 DEF ExchangeTrades
<1>6. CASE TimePasses
    BY <1>1, <1>6 DEF TimePasses
<1>7. CASE UNCHANGED vars
    BY <1>1, <1>7 DEF vars
<1> QED
    BY <1>2, <1>3, <1>4, <1>5, <1>6, <1>7 DEF Next

\* The circuit breaker counts every order that failed since the last success,
\* once or twice, and so never lets more than max_consecutive_failures and the
\* rest of one batch fail in a row, whatever the exchange answers.
THEOREM BreakerTracks == Spec => []BreakerTracksFailures
<1>1. Inv => BreakerTracksFailures
    BY DEF Inv, Counted, FailuresBounded, BreakerTracksFailures
<1> QED
    BY <1>1, InitInv, NextInv, PTL DEF Spec

-----------------------------------------------------------------------------
(* The rate limiter.  An operation is recorded when it ends, later than it *)
(* began, so what the limiter counts lags behind what the property counts. *)
(* They are compared from the latest operation backwards.                  *)

OldestInFront(s) == \A i, j \in DOMAIN s : i < j => s[i] >= s[j]

\* The operation in progress is not recorded yet.
Unrecorded == IF call.kind = "ioc" /\ pc \in Attempting THEN 1 ELSE 0

LimiterType ==
    /\ timestamps \in Seq(0 .. Window) /\ recent \in Seq(0 .. Window - 1)
    /\ Len(timestamps) <= RateLimit

\* Every other operation begun within the window has its timestamp, which is no
\* older than its beginning.
Recorded ==
    \A d \in 0 .. Len(recent) - 1 - Unrecorded :
        /\ d < Len(timestamps)
        /\ timestamps[Len(timestamps) - d] <= recent[Len(recent) - Unrecorded - d]

\* Each batch has a limiter of its own, and only those of immediate-or-cancel
\* orders use it.
LimiterInUse ==
    /\ call.kind # "ioc" => timestamps = <<>> /\ recent = <<>>
    /\ call.kind = "ioc" => call.type = "ioc"

LimiterInv ==
    /\ LimiterType
    /\ OldestInFront(timestamps) /\ OldestInFront(recent)
    /\ Recorded
    /\ RateRespectedInBatch
    /\ LimiterInUse

LEMMA ExpiredExists ==
    ASSUME NEW s \in Seq(0 .. Window)
    PROVE  /\ Expired(s) \in 0 .. Len(s)
           /\ \A i \in 1 .. Expired(s) : s[i] >= Window
           /\ Expired(s) < Len(s) => s[Expired(s) + 1] < Window
<1> DEFINE S == {n \in 0 .. Len(s) : \A i \in 1 .. n : s[i] >= Window}
<1>1. Len(s) \in Nat /\ Window \in Nat /\ \A i \in 1 .. Len(s) : s[i] \in 0 .. Window
    BY LimiterAssumption
<1>2. S \subseteq 0 .. Len(s) /\ 0 \in S
    BY <1>1
<1>3. PICK n \in S : \A x \in S : x <= n
  <2> HIDE DEF S
  <2>1. S # {} /\ S \subseteq 0 .. Len(s)
      BY <1>2
  <2> QED
      BY <1>1, <2>1, GreatestNat
<1>4. n < Len(s) => s[n + 1] < Window
  <2> SUFFICES ASSUME n < Len(s), ~ s[n + 1] < Window
               PROVE  FALSE
      OBVIOUS
  <2>1. n \in Nat /\ n + 1 \in 0 .. Len(s) /\ s[n + 1] >= Window
      BY <1>1, <1>2, <1>3
  <2>2. \A i \in 1 .. n + 1 : s[i] >= Window
    <3> SUFFICES ASSUME NEW i \in 1 .. n + 1
                 PROVE  s[i] >= Window
        OBVIOUS
    <3>1. i \in 1 .. n \/ i = n + 1
        BY <2>1
    <3> QED
        BY <1>3, <2>1, <3>1
  <2> QED
      BY <1>3, <2>1, <2>2
<1>5. \E m \in 0 .. Len(s) : (\A i \in 1 .. m : s[i] >= Window) /\ (m < Len(s) => s[m + 1] < Window)
    BY <1>2, <1>3, <1>4
<1> QED
    BY <1>5 DEF Expired

\* What is within the window is the end of the sequence.
LEMMA LiveOf ==
    ASSUME NEW s \in Seq(0 .. Window), OldestInFront(s)
    PROVE  /\ Live(s) \in Seq(0 .. Window - 1) /\ Live(s) \in Seq(0 .. Window)
           /\ Len(Live(s)) \in Nat /\ Len(Live(s)) <= Len(s)
           /\ OldestInFront(Live(s))
           /\ \A d \in 0 .. Len(Live(s)) - 1 : Live(s)[Len(Live(s)) - d] = s[Len(s) - d]
           /\ \A d \in 0 .. Len(s) - 1 : s[Len(s) - d] < Window => d < Len(Live(s))
<1> DEFINE n == Expired(s)
           t == Live(s)
           l == Len(s)
<1>1. /\ l \in Nat /\ Window \in Nat /\ DOMAIN s = 1 .. l
      /\ \A i \in 1 .. l : s[i] \in 0 .. Window
    BY LimiterAssumption
<1>2. n \in 0 .. l /\ (\A i \in 1 .. n : s[i] >= Window) /\ (n < l => s[n + 1] < Window)
    BY ExpiredExists
<1>3. /\ t \in Seq(0 .. Window) /\ Len(t) = l - n
      /\ \A i \in 1 .. l - n : t[i] = s[n + i]
  <2>1. n + 1 \in Int /\ l \in Int /\ \A i \in n + 1 .. l : s[i] \in 0 .. Window
      BY <1>1, <1>2
  <2>2. /\ t \in Seq(0 .. Window)
        /\ Len(t) = IF n + 1 <= l THEN l - (n + 1) + 1 ELSE 0
        /\ \A i \in 1 .. l - (n + 1) + 1 : t[i] = s[(n + 1) + i - 1]
    <3> HIDE DEF n, l
    <3> QED
      BY <2>1, SubSeqProperties DEF Live, n, l
  <2>3. l - (n + 1) + 1 = l - n /\ (~ n + 1 <= l => l - n = 0)
      BY <1>1, <1>2
  <2>4. \A i \in 1 .. l - n : (n + 1) + i - 1 = n + i
      BY <1>1, <1>2
  <2> QED
      BY <2>2, <2>3, <2>4
<1> HIDE DEF n, t, l
<1>4. DOMAIN t = 1 .. l - n /\ l - n \in Nat
    BY <1>1, <1>2, <1>3
<1>5. \A i \in 1 .. l - n : n + i \in DOMAIN s /\ t[i] = s[n + i]
    BY <1>1, <1>2, <1>3
<1>6. OldestInFront(t)
  <2> SUFFICES ASSUME NEW i \in 1 .. l - n, NEW j \in 1 .. l - n, i < j
               PROVE  t[i] >= t[j]
      BY <1>4 DEF OldestInFront
  <2>1. n + i < n + j
      BY <1>1, <1>2
  <2> QED
      BY <1>5, <2>1 DEF OldestInFront
<1>7. t \in Seq(0 .. Window - 1)
  <2>1. ASSUME NEW i \in 1 .. l - n
        PROVE  t[i] \in 0 .. Window - 1
    <3>1. n < l /\ 1 \in 1 .. l - n
        BY <1>1, <1>2
    <3>2. t[1] = s[n + 1] /\ s[n + 1] < Window
        BY <1>2, <1>5, <3>1
    <3>3. t[i] <= t[1]
      <4>1. CASE i = 1
          BY <1>1, <1>5, <3>1, <4>1
      <4>2. CASE i # 1
        <5>1. 1 < i
            BY <4>2
        <5> QED
            BY <1>4, <1>6, <3>1, <5>1 DEF OldestInFront
      <4> QED
          BY <4>1, <4>2
    <3>4. t[i] \in 0 .. Window /\ t[1] \in 0 .. Window
        BY <1>1, <1>5, <3>1
    <3> QED
        BY <1>1, <3>2, <3>3, <3>4
  <2> DEFINE Ages == 0 .. Window - 1
             k == l - n
  <2>2. t \in [1 .. k -> Ages]
      BY <1>3, <1>4, <2>1
  <2>3. k \in Nat
      BY <1>4
  <2> HIDE DEF Ages, k
  <2>4. t \in Seq(Ages)
      BY <2>2, <2>3
  <2> QED
      BY <2>4 DEF Ages
<1>8. \A d \in 0 .. Len(t) - 1 : t[Len(t) - d] = s[l - d]
  <2> SUFFICES ASSUME NEW d \in 0 .. Len(t) - 1
               PROVE  t[Len(t) - d] = s[l - d]
      OBVIOUS
  <2>1. l - n - d \in 1 .. l - n /\ n + (l - n - d) = l - d
      BY <1>1, <1>2, <1>3
  <2> QED
      BY <1>3, <1>5, <2>1
<1>9. \A d \in 0 .. l - 1 : s[l - d] < Window => d < Len(t)
  <2> SUFFICES ASSUME NEW d \in 0 .. l - 1, s[l - d] < Window, ~ d < Len(t)
               PROVE  FALSE
      OBVIOUS
  <2>1. l - d \in 1 .. n /\ l - d \in 1 .. l
      BY <1>1, <1>2, <1>3
  <2>2. s[l - d] >= Window /\ s[l - d] \in 0 .. Window
      BY <1>1, <1>2, <2>1
  <2> QED
      BY <1>1, <2>2
<1>10. Len(t) \in Nat /\ Len(t) <= l
    BY <1>1, <1>2, <1>3
<1> QED
    BY <1>3, <1>6, <1>7, <1>8, <1>9, <1>10 DEF t, l

\* One more operation, the youngest.
LEMMA YoungestAppended ==
    ASSUME NEW n \in Nat, NEW s \in Seq(0 .. n), OldestInFront(s)
    PROVE  /\ Append(s, 0) \in Seq(0 .. n) /\ Len(Append(s, 0)) = Len(s) + 1
           /\ OldestInFront(Append(s, 0))
           /\ Append(s, 0)[Len(s) + 1] = 0
           /\ \A i \in 1 .. Len(s) : Append(s, 0)[i] = s[i]
<1> DEFINE t == Append(s, 0)
           l == Len(s)
<1>1. /\ t \in Seq(0 .. n) /\ Len(t) = l + 1 /\ t[l + 1] = 0
      /\ \A i \in 1 .. l : t[i] = s[i]
  <2>1. 0 \in 0 .. n
      OBVIOUS
  <2> QED
      BY <2>1, AppendProperties
<1>2. l \in Nat /\ DOMAIN s = 1 .. l /\ \A i \in 1 .. l : s[i] \in 0 .. n
    OBVIOUS
<1> HIDE DEF t, l
<1>3. DOMAIN t = 1 .. l + 1
    BY <1>1
<1>4. OldestInFront(t)
  <2> SUFFICES ASSUME NEW i \in 1 .. l + 1, NEW j \in 1 .. l + 1, i < j
               PROVE  t[i] >= t[j]
      BY <1>3 DEF OldestInFront
  <2>1. i \in 1 .. l /\ t[i] = s[i]
      BY <1>1, <1>2
  <2>2. CASE j = l + 1
      BY <1>1, <1>2, <2>1, <2>2
  <2>3. CASE j # l + 1
    <3>1. j \in 1 .. l /\ t[j] = s[j]
        BY <1>1, <1>2, <2>3
    <3> QED
        BY <1>2, <2>1, <3>1 DEF OldestInFront
  <2> QED
      BY <2>2, <2>3
<1> QED
    BY <1>1, <1>4 DEF t, l

LEMMA LimiterBounds ==
    ASSUME LimiterInv
    PROVE  /\ timestamps \in Seq(0 .. Window) /\ recent \in Seq(0 .. Window - 1)
           /\ recent \in Seq(0 .. Window)
           /\ Len(timestamps) \in Nat /\ Len(recent) \in Nat
           /\ Len(timestamps) <= RateLimit /\ Len(recent) <= RateLimit
           /\ RateLimit \in Nat \ {0} /\ Window \in Nat \ {0} /\ Window - 1 \in Nat
           /\ \A i \in 1 .. Len(timestamps) : timestamps[i] \in 0 .. Window
           /\ \A i \in 1 .. Len(recent) : recent[i] \in 0 .. Window - 1
<1>1. timestamps \in Seq(0 .. Window) /\ recent \in Seq(0 .. Window - 1)
    BY DEF LimiterInv, LimiterType
<1>2. Window - 1 \in Nat /\ 0 .. Window - 1 \subseteq 0 .. Window
    BY LimiterAssumption
<1>3. recent \in Seq(0 .. Window)
  <2> DEFINE A == 0 .. Window - 1
             B == 0 .. Window
  <2>1. A \subseteq B /\ recent \in Seq(A)
      BY <1>1, <1>2
  <2> HIDE DEF A, B
  <2>2. recent \in Seq(B)
      BY <2>1, SeqMonotonic
  <2> QED
      BY <2>2 DEF B
<1>4. /\ \A i \in 1 .. Len(timestamps) : timestamps[i] \in 0 .. Window
      /\ Len(timestamps) \in Nat
    BY <1>1, ElementOfSeq, LenProperties
<1>5. /\ \A i \in 1 .. Len(recent) : recent[i] \in 0 .. Window - 1
      /\ Len(recent) \in Nat
    BY <1>1, ElementOfSeq, LenProperties
<1> QED
    BY <1>1, <1>2, <1>3, <1>4, <1>5, LimiterAssumption DEF LimiterInv, LimiterType, RateRespectedInBatch

LEMMA LimiterEmpty ==
    ASSUME timestamps' = <<>>, recent' = <<>>, call'.kind = "ioc" => call'.type = "ioc"
    PROVE  LimiterInv'
<1>1. Len(timestamps') = 0 /\ Len(recent') = 0 /\ Unrecorded' \in {0, 1}
    BY DEF Unrecorded
<1>2. LimiterType'
    BY <1>1, LimiterAssumption DEF LimiterType
<1>3. OldestInFront(timestamps)' /\ OldestInFront(recent)'
    BY DEF OldestInFront
<1>4. Recorded'
  <2>1. \A d : d \notin 0 .. Len(recent') - 1 - Unrecorded'
      BY <1>1
  <2> QED
      BY <2>1 DEF Recorded
<1> QED
    BY <1>1, <1>2, <1>3, <1>4, LimiterAssumption DEF LimiterInv, RateRespectedInBatch, LimiterInUse

LEMMA LimiterKept ==
    ASSUME LimiterInv, UNCHANGED <<limiterVars, call>>, pc' \in Attempting <=> pc \in Attempting
    PROVE  LimiterInv'
<1>1. UNCHANGED <<timestamps, recent, call, Unrecorded>>
    BY DEF limiterVars, Unrecorded
<1> QED
    BY <1>1 DEF LimiterInv, LimiterType, OldestInFront, Recorded, RateRespectedInBatch, LimiterInUse

\* The limiter lets an operation begin only if it counts fewer than RateLimit,
\* and it counts all that began within the window.
LEMMA WaitForSlotInv ==
    ASSUME LimiterInv, call.kind = "ioc", pc \notin Attempting, WaitForSlot,
           pc' \in Attempting, call'.kind = "ioc", call'.type = "ioc"
    PROVE  LimiterInv'
<1> DEFINE lt == Len(timestamps)
           lr == Len(recent)
           live == Live(timestamps)
<1>1. /\ timestamps' = live /\ recent' = Append(recent, 0) /\ Len(live) < RateLimit
    BY DEF WaitForSlot
<1>2. /\ timestamps \in Seq(0 .. Window) /\ OldestInFront(timestamps) /\ recent \in Seq(0 .. Window - 1)
      /\ OldestInFront(recent)
    BY LimiterBounds DEF LimiterInv
<1>3. /\ live \in Seq(0 .. Window)
      /\ Len(live) \in Nat /\ Len(live) <= lt
      /\ OldestInFront(live)
      /\ \A d \in 0 .. Len(live) - 1 : live[Len(live) - d] = timestamps[lt - d]
      /\ \A d \in 0 .. lt - 1 : timestamps[lt - d] < Window => d < Len(live)
    BY <1>2, LiveOf
<1>4. /\ Append(recent, 0) \in Seq(0 .. Window - 1) /\ Len(Append(recent, 0)) = lr + 1
      /\ OldestInFront(Append(recent, 0))
      /\ \A i \in 1 .. lr : Append(recent, 0)[i] = recent[i]
    BY <1>2, LimiterBounds, YoungestAppended
<1>5. Unrecorded = 0 /\ Unrecorded' = 1
    BY DEF Unrecorded
<1>11. /\ lt \in Nat /\ lr \in Nat /\ lt <= RateLimit /\ lr <= RateLimit
       /\ RateLimit \in Nat \ {0} /\ Window \in Nat \ {0}
       /\ \A i \in 1 .. lt : timestamps[i] \in 0 .. Window
       /\ \A i \in 1 .. lr : recent[i] \in 0 .. Window - 1
    BY LimiterBounds
<1> HIDE DEF live, lt, lr
<1>6. ASSUME NEW d \in 0 .. lr - 1
      PROVE  d < Len(live) /\ live[Len(live) - d] <= recent[lr - d]
  <2>1. d < lt /\ timestamps[lt - d] <= recent[lr - d]
      BY <1>5, <1>11 DEF LimiterInv, Recorded, lt, lr
  <2>2. lr - d \in 1 .. lr /\ d \in 0 .. lt - 1 /\ lt - d \in 1 .. lt
      BY <2>1, <1>11
  <2>3. timestamps[lt - d] < Window
      BY <2>1, <2>2, <1>11
  <2>4. d < Len(live)
      BY <1>3, <2>2, <2>3
  <2>5. d \in 0 .. Len(live) - 1
      BY <1>3, <2>4
  <2> QED
      BY <1>3, <2>1, <2>4, <2>5
<1>7. lr <= Len(live)
  <2>1. CASE lr = 0
      BY <1>3, <2>1
  <2>2. CASE lr # 0
    <3>1. lr - 1 \in 0 .. lr - 1
        BY <2>2, <1>11
    <3> QED
        BY <1>3, <1>6, <3>1, <1>11
  <2> QED
      BY <2>1, <2>2
<1>8. Len(recent') = lr + 1 /\ Len(recent') <= RateLimit
    BY <1>1, <1>3, <1>4, <1>7, <1>11
<1>9. Recorded'
  <2> SUFFICES ASSUME NEW d \in 0 .. Len(recent') - 1 - Unrecorded'
               PROVE  /\ d < Len(timestamps')
                      /\ timestamps'[Len(timestamps') - d] <= recent'[Len(recent') - Unrecorded' - d]
      BY DEF Recorded
  <2>1. d \in 0 .. lr - 1 /\ Len(recent') - Unrecorded' - d = lr - d
      BY <1>5, <1>8, <1>11
  <2>2. lr - d \in 1 .. lr
      BY <2>1, <1>11
  <2>3. recent'[lr - d] = recent[lr - d]
      BY <1>1, <1>4, <2>2
  <2> QED
      BY <1>1, <1>6, <2>1, <2>3
<1>10. LimiterType'
    BY <1>1, <1>3, <1>4, <1>11 DEF LimiterType
<1> QED
    BY <1>1, <1>3, <1>4, <1>8, <1>9, <1>10 DEF LimiterInv, RateRespectedInBatch, LimiterInUse, OldestInFront

\* The operation in progress is recorded with an age of 0.
LEMMA RecordInv ==
    ASSUME LimiterInv, call.kind = "ioc", pc \in Attempting, RecordOperation,
           pc' \notin Attempting, call' = call
    PROVE  LimiterInv'
<1> DEFINE lt == Len(timestamps)
           lr == Len(recent)
           s == Append(timestamps, 0)
<1>1. /\ recent' = recent /\ timestamps' = IF Len(s) > RateLimit THEN Tail(s) ELSE s
    BY DEF RecordOperation
<1>2. timestamps \in Seq(0 .. Window) /\ OldestInFront(timestamps) /\ recent \in Seq(0 .. Window - 1) /\ OldestInFront(recent)
    BY LimiterBounds DEF LimiterInv
<1>3. /\ s \in Seq(0 .. Window) /\ Len(s) = lt + 1
      /\ OldestInFront(s) /\ s[lt + 1] = 0
      /\ \A i \in 1 .. lt : s[i] = timestamps[i]
    BY <1>2, LimiterBounds, YoungestAppended
<1>4. Unrecorded = 1 /\ Unrecorded' = 0
    BY DEF Unrecorded
<1>9. /\ lt \in Nat /\ lr \in Nat /\ lt <= RateLimit /\ lr <= RateLimit
      /\ RateLimit \in Nat \ {0} /\ Window \in Nat \ {0}
      /\ \A i \in 1 .. lt : timestamps[i] \in 0 .. Window
      /\ \A i \in 1 .. lr : recent[i] \in 0 .. Window - 1
    BY LimiterBounds
<1> HIDE DEF s, lt, lr
<1>5. ASSUME NEW d \in 0 .. lr - 1
      PROVE  d < Len(s) /\ s[Len(s) - d] <= recent[lr - d]
  <2>1. lr - d \in 1 .. lr /\ recent[lr - d] \in 0 .. Window - 1
      BY <1>9
  <2>2. CASE d = 0
    <3>1. Len(s) - d = lt + 1
        BY <1>3, <2>2, <1>9
    <3> QED
        BY <1>3, <2>1, <2>2, <3>1, <1>9
  <2>3. CASE d # 0
    <3>1. d - 1 \in 0 .. lr - 1 - 1
        BY <2>3, <1>9
    <3>2. d - 1 < lt /\ timestamps[lt - (d - 1)] <= recent[lr - 1 - (d - 1)]
        BY <1>4, <3>1 DEF LimiterInv, Recorded, lt, lr
    <3>3. /\ lt - (d - 1) \in 1 .. lt /\ Len(s) - d = lt - (d - 1)
          /\ lr - 1 - (d - 1) = lr - d
        BY <1>3, <3>1, <3>2, <1>9
    <3> QED
        BY <1>3, <3>2, <3>3, <1>9
  <2> QED
      BY <2>2, <2>3
<1>6. /\ timestamps' \in Seq(0 .. Window) /\ Len(timestamps') <= RateLimit
      /\ OldestInFront(timestamps')
      /\ \A d \in 0 .. lr - 1 : d < Len(timestamps')
      /\ \A d \in 0 .. Len(timestamps') - 1 : timestamps'[Len(timestamps') - d] = s[Len(s) - d]
  <2>1. CASE ~ Len(s) > RateLimit
      BY <1>1, <1>3, <1>5, <2>1, <1>9
  <2>2. CASE Len(s) > RateLimit
    <3>1. /\ timestamps' = Tail(s) /\ s # <<>>
        BY <1>1, <2>2, <1>9
    <3>2. /\ timestamps' \in Seq(0 .. Window) /\ Len(timestamps') = lt
          /\ \A i \in 1 .. lt : timestamps'[i] = s[i + 1]
      <4>1. Len(Tail(s)) = lt
          BY <1>3, <3>1, HeadTailProperties, <1>9
      <4> QED
          BY <1>3, <3>1, <4>1, HeadTailProperties
    <3>3. lt = RateLimit
        BY <1>3, <2>2, <1>9
    <3>4. \A d \in 0 .. lr - 1 : d < Len(timestamps')
        BY <3>2, <3>3, <1>9
    <3>5. \A d \in 0 .. Len(timestamps') - 1 : timestamps'[Len(timestamps') - d] = s[Len(s) - d]
      <4> SUFFICES ASSUME NEW d \in 0 .. lt - 1
                   PROVE  timestamps'[lt - d] = s[Len(s) - d]
          BY <3>2
      <4>1. lt - d \in 1 .. lt /\ (lt - d) + 1 = Len(s) - d
          BY <1>3, <1>9
      <4> QED
          BY <3>2, <4>1
    <3>6. OldestInFront(timestamps')
      <4>1. DOMAIN timestamps' = 1 .. lt /\ DOMAIN s = 1 .. lt + 1
          BY <1>3, <3>2
      <4> SUFFICES ASSUME NEW i \in 1 .. lt, NEW j \in 1 .. lt, i < j
                   PROVE  timestamps'[i] >= timestamps'[j]
          BY <4>1 DEF OldestInFront
      <4>2. i + 1 \in DOMAIN s /\ j + 1 \in DOMAIN s /\ i + 1 < j + 1
          BY <4>1, <1>9
      <4> QED
          BY <1>3, <3>2, <4>2 DEF OldestInFront
    <3> QED
        BY <3>2, <3>3, <3>4, <3>5, <3>6, <1>9
  <2> QED
      BY <2>1, <2>2
<1>7. Recorded'
  <2> SUFFICES ASSUME NEW d \in 0 .. lr - 1 - 0
               PROVE  /\ d < Len(timestamps')
                      /\ timestamps'[Len(timestamps') - d] <= recent[lr - 0 - d]
      BY <1>1, <1>4 DEF Recorded, lr
  <2>1. d \in 0 .. lr - 1 /\ lr - 0 - d = lr - d /\ Len(timestamps') \in Nat
      BY <1>6, <1>9
  <2>2. d < Len(timestamps')
      BY <1>6, <2>1
  <2>3. d \in 0 .. Len(timestamps') - 1
      BY <2>1, <2>2
  <2> QED
      BY <1>5, <1>6, <2>1, <2>2, <2>3
<1>8. LimiterType'
    BY <1>1, <1>2, <1>6 DEF LimiterType
<1> QED
    BY <1>1, <1>6, <1>7, <1>8 DEF LimiterInv, RateRespectedInBatch, LimiterInUse, OldestInFront

Aged(s) == [i \in DOMAIN s |-> IF s[i] < Window THEN s[i] + 1 ELSE Window]

LEMMA AgedOf ==
    ASSUME NEW s \in Seq(0 .. Window), OldestInFront(s)
    PROVE  /\ Aged(s) \in Seq(0 .. Window) /\ Len(Aged(s)) = Len(s)
           /\ OldestInFront(Aged(s))
           /\ \A i \in 1 .. Len(s) : Aged(s)[i] = IF s[i] < Window THEN s[i] + 1 ELSE Window
<1> DEFINE l == Len(s)
           a == Aged(s)
<1>1. l \in Nat /\ Window \in Nat /\ DOMAIN s = 1 .. l /\ \A i \in 1 .. l : s[i] \in 0 .. Window
    BY LimiterAssumption, ElementOfSeq, LenProperties
<1>2. a = [i \in 1 .. l |-> IF s[i] < Window THEN s[i] + 1 ELSE Window]
    BY <1>1 DEF Aged
<1> HIDE DEF l, a
<1>3. \A i \in 1 .. l : a[i] = IF s[i] < Window THEN s[i] + 1 ELSE Window
    BY <1>2
<1>4. a \in [1 .. l -> 0 .. Window]
    BY <1>1, <1>2
<1>5. a \in Seq(0 .. Window) /\ Len(a) = l /\ DOMAIN a = 1 .. l
  <2> DEFINE Ages == 0 .. Window
  <2>1. a \in [1 .. l -> Ages]
      BY <1>4
  <2> HIDE DEF Ages
  <2>2. a \in Seq(Ages) /\ Len(a) = l
      BY <1>1, <2>1
  <2> QED
      BY <1>4, <2>2 DEF Ages
<1>6. OldestInFront(a)
  <2> SUFFICES ASSUME NEW i \in 1 .. l, NEW j \in 1 .. l, i < j
               PROVE  a[i] >= a[j]
      BY <1>5 DEF OldestInFront
  <2>1. s[i] >= s[j] /\ s[i] \in 0 .. Window /\ s[j] \in 0 .. Window
      BY <1>1 DEF OldestInFront
  <2> QED
      BY <1>1, <1>3, <2>1
<1> QED
    BY <1>3, <1>5, <1>6 DEF a, l

\* Time passes for a timestamp as for the beginning of its operation, so what
\* has left the window for the limiter has left it for the property too.
LEMMA TickInv ==
    ASSUME LimiterInv, Tick, UNCHANGED <<call, pc>>
    PROVE  LimiterInv'
<1> DEFINE lt == Len(timestamps)
           lr == Len(recent)
           u == Unrecorded
           t == Aged(timestamps)
           a == Aged(recent)
           r == Live(a)
<1>1. timestamps' = t /\ recent' = r
    BY DEF Tick, Aged
<1>2. /\ lt \in Nat /\ lr \in Nat /\ lt <= RateLimit /\ lr <= RateLimit
      /\ RateLimit \in Nat \ {0} /\ Window \in Nat \ {0}
      /\ \A i \in 1 .. lt : timestamps[i] \in 0 .. Window
      /\ \A i \in 1 .. lr : recent[i] \in 0 .. Window - 1
    BY LimiterBounds
<1>3. /\ t \in Seq(0 .. Window) /\ Len(t) = lt /\ OldestInFront(t)
      /\ \A i \in 1 .. lt : t[i] = IF timestamps[i] < Window THEN timestamps[i] + 1 ELSE Window
  <2>1. timestamps \in Seq(0 .. Window) /\ OldestInFront(timestamps)
      BY LimiterBounds DEF LimiterInv
  <2> QED
      BY <2>1, AgedOf
<1>4. /\ a \in Seq(0 .. Window) /\ Len(a) = lr /\ OldestInFront(a)
      /\ \A i \in 1 .. lr : a[i] = IF recent[i] < Window THEN recent[i] + 1 ELSE Window
  <2>1. recent \in Seq(0 .. Window) /\ OldestInFront(recent)
      BY LimiterBounds DEF LimiterInv
  <2> QED
      BY <2>1, AgedOf
<1> HIDE DEF a, r
<1>5. /\ r \in Seq(0 .. Window - 1)
      /\ Len(r) \in Nat /\ Len(r) <= lr
      /\ OldestInFront(r)
      /\ \A d \in 0 .. Len(r) - 1 : r[Len(r) - d] = a[lr - d]
  <2>1. /\ Live(a) \in Seq(0 .. Window - 1)
        /\ Len(Live(a)) \in Nat /\ Len(Live(a)) <= Len(a)
        /\ OldestInFront(Live(a))
        /\ \A d \in 0 .. Len(Live(a)) - 1 : Live(a)[Len(Live(a)) - d] = a[Len(a) - d]
      BY <1>4, LiveOf
  <2> QED
      BY <1>4, <2>1 DEF r
<1>6. u \in {0, 1} /\ Unrecorded' = u
    BY DEF Unrecorded
<1>7. \A d \in 0 .. lr - 1 - u : d < lt /\ timestamps[lt - d] <= recent[lr - u - d]
    BY DEF LimiterInv, Recorded
<1> HIDE DEF lt, lr, u, t
<1>8. ASSUME NEW d \in 0 .. Len(r) - 1 - u
      PROVE  d < lt /\ t[lt - d] <= r[Len(r) - u - d]
  <2>1. d \in 0 .. lr - 1 - u /\ u + d \in 0 .. Len(r) - 1
      BY <1>2, <1>5, <1>6
  <2>2. d < lt /\ timestamps[lt - d] <= recent[lr - u - d]
      BY <1>7, <2>1
  <2>3. lt - d \in 1 .. lt /\ lr - u - d \in 1 .. lr
      BY <1>2, <1>6, <2>1, <2>2
  <2>4. /\ timestamps[lt - d] \in 0 .. Window /\ recent[lr - u - d] \in 0 .. Window - 1
      BY <1>2, <2>3
  <2>5. t[lt - d] <= a[lr - u - d]
    <3> DEFINE x == timestamps[lt - d]
               y == recent[lr - u - d]
    <3>1. /\ t[lt - d] = IF x < Window THEN x + 1 ELSE Window
          /\ a[lr - u - d] = IF y < Window THEN y + 1 ELSE Window
        BY <1>3, <1>4, <2>3
    <3>2. x <= y /\ x \in 0 .. Window /\ y \in 0 .. Window - 1 /\ Window \in Nat
        BY <1>2, <2>2, <2>4
    <3> HIDE DEF x, y
    <3> QED
        BY <3>1, <3>2
  <2>6. r[Len(r) - (u + d)] = a[lr - (u + d)]
      BY <1>5, <2>1
  <2>7. Len(r) - (u + d) = Len(r) - u - d /\ lr - (u + d) = lr - u - d
    <3>1. u \in Int /\ d \in Int /\ lr \in Int /\ Len(r) \in Int
        BY <1>2, <1>5, <1>6
    <3> QED
        BY <3>1
  <2> QED
      BY <2>2, <2>5, <2>6, <2>7
<1>9. Recorded'
    BY <1>1, <1>3, <1>6, <1>8 DEF Recorded
<1>10. LimiterType'
    BY <1>1, <1>2, <1>3, <1>5 DEF LimiterType
<1>11. RateRespectedInBatch'
    BY <1>1, <1>2, <1>5 DEF RateRespectedInBatch
<1>12. LimiterInUse'
  <2>1. CASE call.kind = "ioc"
      BY <2>1 DEF LimiterInv, LimiterInUse
  <2>2. CASE call.kind # "ioc"
    <3>1. timestamps = <<>> /\ recent = <<>>
        BY <2>2 DEF LimiterInv, LimiterInUse
    <3>2. lt = 0 /\ lr = 0
        BY <3>1 DEF lt, lr
    <3>3. t = <<>> /\ r = <<>>
        BY <1>3, <1>5, <3>2, EmptySeq
    <3> QED
        BY <1>1, <2>2, <3>3 DEF LimiterInUse
  <2> QED
      BY <2>1, <2>2
<1> QED
    BY <1>1, <1>3, <1>5, <1>9, <1>10, <1>11, <1>12 DEF LimiterInv, OldestInFront

\* An answer ends the operation in progress.
LEMMA AnswerLimiterInv ==
    ASSUME LimiterInv, NEW status, NEW filled, NEW n, pc \in Attempting, call' = call,
           Answer(status, filled, n)
    PROVE  LimiterInv'
<1>1. pc' \notin Attempting
    BY DEF Answer, Attempting
<1>2. CASE call.kind = "ioc"
    BY <1>1, <1>2, RecordInv DEF Answer
<1>3. CASE call.kind # "ioc"
  <2>1. timestamps' = <<>> /\ recent' = <<>>
      BY <1>3 DEF Answer, limiterVars, LimiterInv, LimiterInUse
  <2> QED
      BY <1>3, <2>1, LimiterEmpty
<1> QED
    BY <1>2, <1>3

LEMMA FailsLimiterInv ==
    ASSUME LimiterInv, NEW retryable \in BOOLEAN, pc \in Attempting, call' = call, Fails(retryable)
    PROVE  LimiterInv'
<1>1. CASE Retry
    BY <1>1, LimiterKept DEF Retry, FirstStep, Attempting, limiterVars
<1>2. CASE ~ Retry
  <2>1. PICK n : Answer("Failed", 0, n)
      BY <1>2 DEF Fails
  <2> QED
      BY <2>1, AnswerLimiterInv
<1> QED
    BY <1>1, <1>2

LEMMA ReturnsLimiterInv ==
    ASSUME LimiterInv, NEW status, NEW filled, pc \in Attempting, call' = call,
           Returns(status, filled)
    PROVE  LimiterInv'
<1>1. CASE pc' = "refetch" /\ UNCHANGED limiterVars
    BY <1>1, LimiterKept DEF Attempting, limiterVars
<1>2. CASE ~ (pc' = "refetch" /\ UNCHANGED limiterVars)
  <2>1. PICK s, f, n : Answer(s, f, n)
      BY <1>2 DEF Returns
  <2> QED
      BY <2>1, AnswerLimiterInv
<1> QED
    BY <1>1, <1>2

LEMMA LimiterNext ==
    ASSUME Inv, LimiterInv, [Next]_vars
    PROVE  LimiterInv'
<1>1. CASE UNCHANGED <<limiterVars, call>> /\ (pc' \in Attempting <=> pc \in Attempting)
    BY <1>1, LimiterKept
<1>2. CASE Begin
  <2>1. CASE BeginRefill
    <3>1. call.kind # "ioc" /\ UNCHANGED limiterVars /\ call'.type = "ioc"
        BY <2>1 DEF BeginRefill, NoCall
    <3>2. timestamps' = <<>> /\ recent' = <<>>
        BY <3>1 DEF limiterVars, LimiterInv, LimiterInUse
    <3> QED
        BY <3>1, <3>2, LimiterEmpty
  <2>2. ASSUME NEW n, NEW kind \in {"orders", "ioc"}, NEW type \in {"limit", "market", "ioc"},
               BeginBatch(kind, type, n)
        PROVE  LimiterInv'
    <3>1. timestamps' = <<>> /\ recent' = <<>>
        BY <2>2 DEF BeginBatch, NewLimiter
    <3>2. call'.kind = "ioc" => call'.type = "ioc"
        BY <2>2 DEF BeginBatch
    <3> QED
        BY <3>1, <3>2, LimiterEmpty
  <2> QED
      BY <1>2, <2>1, <2>2 DEF Begin
<1>3. ASSUME NEW q, NextOrder(q)
      PROVE  LimiterInv'
  <2>1. /\ call' = [call EXCEPT !.left = call.left - 1] /\ pc \in {"next", "answered"}
        /\ call.kind = "ioc" => WaitForSlot /\ pc' = FirstStep(call)
        /\ call.kind # "ioc" => UNCHANGED limiterVars
      BY <1>3 DEF NextOrder
  <2>2. call'.kind = call.kind /\ call'.type = call.type
      BY <2>1 DEF Inv, BreakerType
  <2>3. CASE call.kind = "ioc"
    <3>1. WaitForSlot /\ call'.kind = "ioc" /\ call'.type = "ioc"
        BY <2>1, <2>2, <2>3 DEF LimiterInv, LimiterInUse
    <3>2. pc \notin Attempting /\ pc' \in Attempting
        BY <2>1, <2>3 DEF FirstStep, Attempting
    <3> QED
        BY <2>3, <3>1, <3>2, WaitForSlotInv
  <2>4. CASE call.kind # "ioc"
    <3>1. timestamps' = <<>> /\ recent' = <<>>
        BY <2>1, <2>4 DEF limiterVars, LimiterInv, LimiterInUse
    <3> QED
        BY <2>2, <2>4, <3>1, LimiterEmpty
  <2> QED
      BY <2>3, <2>4
<1>4. CASE CallReturns
  <2>1. timestamps' = <<>> /\ recent' = <<>> /\ call'.kind # "ioc"
      BY <1>4 DEF CallReturns, NewLimiter, NoCall
  <2> QED
      BY <2>1, LimiterEmpty
<1>5. CASE Attempt
  <2>1. CASE PriceOk \/ PlaceOk \/ WaitFails \/ RefetchOk
      BY <1>1, <2>1 DEF PriceOk, PlaceOk, WaitFails, RefetchOk, Attempting
  <2>2. CASE ResponseLost
      BY <2>2, FailsLimiterInv DEF ResponseLost, Attempting
  <2>3. CASE WaitFilled
      BY <2>3, ReturnsLimiterInv DEF WaitFilled, Attempting
  <2>4. CASE StatusOk
      BY <2>4, ReturnsLimiterInv DEF StatusOk, Attempting
  <2>5. CASE RefetchFails
      BY <2>5, AnswerLimiterInv DEF RefetchFails, Attempting
  <2>6. ASSUME NEW retryable \in BOOLEAN, AttemptFails(retryable) \/ StatusFails(retryable)
        PROVE  LimiterInv'
      BY <2>6, FailsLimiterInv DEF AttemptFails, StatusFails, Attempting
  <2> QED
      BY <1>5, <2>1, <2>2, <2>3, <2>4, <2>5, <2>6 DEF Attempt
<1>6. CASE \E i \in DOMAIN placed : ExchangeTrades(i)
    BY <1>1, <1>6 DEF ExchangeTrades
<1>7. CASE StartOrStop
    BY <1>1, <1>7 DEF StartOrStop
<1>8. CASE TimePasses
    BY <1>8, TickInv DEF TimePasses
<1>9. CASE UNCHANGED vars
    BY <1>1, <1>9 DEF vars
<1> QED
    BY <1>2, <1>3, <1>4, <1>5, <1>6, <1>7, <1>8, <1>9 DEF Next, Proceed

LEMMA LimiterInit == Init => LimiterInv
<1> SUFFICES ASSUME Init PROVE LimiterInv
    OBVIOUS
<1>1. /\ timestamps = <<>> /\ recent = <<>> /\ call.kind = "none" /\ pc = "idle"
    BY DEF Init, NoCall
<1>2. Len(timestamps) = 0 /\ Len(recent) = 0 /\ Unrecorded = 0
    BY <1>1 DEF Unrecorded
<1>3. LimiterType /\ RateRespectedInBatch
    BY <1>1, <1>2, LimiterAssumption DEF LimiterType, RateRespectedInBatch
<1>4. OldestInFront(timestamps) /\ OldestInFront(recent) /\ LimiterInUse
    BY <1>1 DEF OldestInFront, LimiterInUse
<1>5. Recorded
    BY <1>2 DEF Recorded
<1> QED
    BY <1>3, <1>4, <1>5 DEF LimiterInv

\* No more than RateLimit operations of a batch begin within any window, although
\* each is recorded only when it has ended.
THEOREM RateKept == Spec => []RateRespectedInBatch
<1>1. Spec => [](Inv /\ LimiterInv)
  <2>1. Init => Inv /\ LimiterInv
      BY InitInv, LimiterInit
  <2>2. (Inv /\ LimiterInv) /\ [Next]_vars => (Inv /\ LimiterInv)'
      BY NextInv, LimiterNext
  <2> QED
      BY <2>1, <2>2, PTL DEF Spec
<1>2. LimiterInv => RateRespectedInBatch
    BY DEF LimiterInv
<1> QED
    BY <1>1, <1>2, PTL

-----------------------------------------------------------------------------
(* What orders placed at the exchange add up to.                           *)

Filled(s) == SumFunction([i \in DOMAIN s |-> s[i].filled])
Outstanding(s) == SumFunction([i \in DOMAIN s |-> IF s[i].open THEN s[i].quantity ELSE s[i].filled])

LEMMA ExchangeOrders ==
    ASSUME NEW s \in Seq(ExchangeOrder)
    PROVE  /\ Len(s) \in Nat /\ DOMAIN s = 1 .. Len(s)
           /\ IsFiniteSet(1 .. Len(s)) /\ Cardinality(1 .. Len(s)) = Len(s)
           /\ \A i \in DOMAIN s : /\ s[i] \in ExchangeOrder
                                  /\ s[i].filled \in Nat /\ s[i].quantity \in Nat
                                  /\ s[i].open \in BOOLEAN
<1>1. Len(s) \in Nat /\ DOMAIN s = 1 .. Len(s) /\ \A i \in DOMAIN s : s[i] \in ExchangeOrder
    BY ElementOfSeq, LenProperties
<1>2. IsFiniteSet(1 .. Len(s)) /\ Cardinality(1 .. Len(s)) = Len(s)
    BY <1>1, FS_Interval
<1> QED
    BY <1>1, <1>2 DEF ExchangeOrder

LEMMA FilledType ==
    ASSUME NEW s \in Seq(ExchangeOrder)
    PROVE  /\ Filled(s) \in Nat
           /\ \A i \in DOMAIN s : s[i].filled <= Filled(s)
<1> DEFINE f == [i \in 1 .. Len(s) |-> s[i].filled]
<1>1. f \in [1 .. Len(s) -> Nat] /\ Filled(s) = SumFunction(f) /\ DOMAIN s = 1 .. Len(s)
    BY ExchangeOrders DEF Filled
<1>2. \A i \in 1 .. Len(s) : f[i] = s[i].filled
    OBVIOUS
<1>3. IsFiniteSet(1 .. Len(s))
    BY ExchangeOrders
<1> HIDE DEF f
<1>4. SumFunction(f) \in Nat /\ \A i \in 1 .. Len(s) : f[i] <= SumFunction(f)
    BY <1>1, <1>3, SumOfNats
<1> QED
    BY <1>1, <1>2, <1>4

LEMMA NothingFilled == Filled(<<>>) = 0
<1> DEFINE f == [i \in DOMAIN <<>> |-> <<>>[i].filled]
<1>1. DOMAIN <<>> = {} /\ f \in [{} -> Int]
    OBVIOUS
<1>2. Filled(<<>>) = SumFunction(f)
    BY DEF Filled
<1> HIDE DEF f
<1> QED
    BY <1>1, <1>2, SumEmpty

\* One order more.
LEMMA FilledAppend ==
    ASSUME NEW s \in Seq(ExchangeOrder), NEW x \in ExchangeOrder
    PROVE  Filled(Append(s, x)) = Filled(s) + x.filled
<1> DEFINE t == Append(s, x)
           n == Len(s)
           f == [i \in 1 .. n + 1 |-> t[i].filled]
           g == [i \in 1 .. n |-> s[i].filled]
<1>1. /\ t \in Seq(ExchangeOrder) /\ Len(t) = n + 1 /\ t[n + 1] = x
      /\ \A i \in 1 .. n : t[i] = s[i]
    BY AppendProperties
<1>2. /\ n \in Nat /\ DOMAIN s = 1 .. n /\ DOMAIN t = 1 .. n + 1
      /\ \A i \in 1 .. n : s[i].filled \in Nat
      /\ \A i \in 1 .. n + 1 : t[i].filled \in Nat
    BY <1>1, ExchangeOrders
<1>3. Filled(t) = SumFunction(f) /\ Filled(s) = SumFunction(g)
    BY <1>2 DEF Filled
<1>4. (1 .. n + 1) \ {n + 1} = 1 .. n /\ n + 1 \in 1 .. n + 1 /\ IsFiniteSet(1 .. n + 1)
  <2>1. n + 1 \in Int /\ 1 \in Int
      BY <1>2
  <2> HIDE DEF n
  <2>2. IsFiniteSet(1 .. n + 1)
      BY <2>1, FS_Interval
  <2>3. (1 .. n + 1) \ {n + 1} = 1 .. n /\ n + 1 \in 1 .. n + 1
      BY <1>2
  <2> QED
      BY <2>2, <2>3
<1>5. f \in [1 .. n + 1 -> Int] /\ g \in [(1 .. n + 1) \ {n + 1} -> Int] /\ f[n + 1] = x.filled
    BY <1>1, <1>2, <1>4
<1>6. \A y \in (1 .. n + 1) \ {n + 1} : g[y] = f[y]
  <2> SUFFICES ASSUME NEW y \in 1 .. n
               PROVE  g[y] = f[y]
      BY <1>4
  <2>1. y \in 1 .. n + 1
      BY <1>2
  <2> QED
      BY <1>1, <2>1
<1>7. SumFunction(g) \in Nat /\ x.filled \in Nat
    BY <1>3, FilledType DEF ExchangeOrder
<1> HIDE DEF f, g, n, t
<1>8. SumFunction(f) = f[n + 1] + SumFunction(g)
  <2>1. n \in Nat /\ f \in [1 .. n + 1 -> Int] /\ g \in [1 .. n -> Int]
      BY <1>2, <1>4, <1>5
  <2>2. \A y \in 1 .. n : g[y] = f[y]
      BY <1>4, <1>6
  <2> QED
      BY <2>1, <2>2, SumExtended
<1> QED
    BY <1>3, <1>5, <1>7, <1>8 DEF t

\* What is filled stays filled.
LEMMA FilledGrows ==
    ASSUME NEW s \in Seq(ExchangeOrder), NEW t \in Seq(ExchangeOrder), Len(t) = Len(s),
           \A i \in 1 .. Len(s) : s[i].filled <= t[i].filled
    PROVE  Filled(s) <= Filled(t)
<1> DEFINE n == Len(s)
           f == [i \in 1 .. n |-> s[i].filled]
           g == [i \in 1 .. n |-> t[i].filled]
<1>1. /\ n \in Nat /\ DOMAIN s = 1 .. n /\ DOMAIN t = 1 .. n /\ IsFiniteSet(1 .. n)
      /\ \A i \in 1 .. n : s[i].filled \in Nat /\ t[i].filled \in Nat
    BY ExchangeOrders
<1>2. Filled(s) = SumFunction(f) /\ Filled(t) = SumFunction(g)
    BY <1>1 DEF Filled
<1>3. f \in [1 .. n -> Int] /\ g \in [1 .. n -> Int] /\ \A i \in 1 .. n : f[i] <= g[i]
    BY <1>1
<1> HIDE DEF f, g, n
<1> QED
    BY <1>1, <1>2, <1>3, SumMonotone

\* No order comes to more than its quantity.
LEMMA OutstandingBounded ==
    ASSUME NEW s \in Seq(ExchangeOrder), NEW c \in Nat,
           \A i \in DOMAIN s : s[i].quantity <= c /\ s[i].filled <= s[i].quantity
    PROVE  /\ Outstanding(s) \in Int /\ Outstanding(s) <= Len(s) * c
           /\ (\A i \in DOMAIN s : ~ s[i].open) => Outstanding(s) = Filled(s)
<1> DEFINE n == Len(s)
           f == [i \in 1 .. n |-> IF s[i].open THEN s[i].quantity ELSE s[i].filled]
<1>1. /\ n \in Nat /\ DOMAIN s = 1 .. n /\ IsFiniteSet(1 .. n) /\ Cardinality(1 .. n) = n
      /\ \A i \in 1 .. n : s[i].filled \in Nat /\ s[i].quantity \in Nat
    BY ExchangeOrders
<1>2. Outstanding(s) = SumFunction(f)
    BY <1>1 DEF Outstanding
<1>3. f \in [1 .. n -> Int] /\ \A i \in 1 .. n : f[i] <= c
    BY <1>1
<1>4. (\A i \in DOMAIN s : ~ s[i].open) => Outstanding(s) = Filled(s)
    BY <1>1 DEF Outstanding, Filled
<1> HIDE DEF f, n
<1>5. SumFunction(f) \in Int /\ SumFunction(f) <= Cardinality(1 .. n) * c
    BY <1>1, <1>3, SumType, SumBounded
<1> QED
    BY <1>1, <1>2, <1>4, <1>5 DEF n

-----------------------------------------------------------------------------
(* An order and what becomes of it at the exchange.                        *)

Trying == {"price", "place"}
Last == placed[Len(placed)]

OrderType ==
    /\ ordered \in {0} \cup Quantities
    /\ quantity \in 0 .. ordered /\ fills \in 0 .. ordered
    /\ attempt \in 0 .. IF call.kind = "refill" THEN MaxRefills ELSE RetryAttempts
    /\ answer \in [status : Statuses \cup {"none"}, filled : Nat]
    /\ placed \in Seq(ExchangeOrder) /\ unseen \in Nat

\* Each kind of call places its own types of orders; only a limit order waits.
TypeOfCall ==
    /\ call.kind \in {"refill", "ioc"} => call.type = "ioc"
    /\ call.kind = "orders" => call.type \in {"limit", "market"}
    /\ pc = "wait" => call.type = "limit"

\* Before its first order a call has placed nothing.
NoOrderYet == pc \in {"idle", "next"} => ordered = 0 /\ placed = <<>> /\ attempt = 0

\* What is placed is less than a step larger than the order, and only a limit
\* order is open.
EntriesFit ==
    \A i \in DOMAIN placed :
        /\ placed[i].quantity + 1 <= ordered + Lot /\ placed[i].filled <= placed[i].quantity
        /\ placed[i].open => placed[i].filled < placed[i].quantity /\ call.type = "limit"

\* The status that is asked for is that of this attempt.
LastIsCurrent ==
    /\ pc \in Attempting => quantity > 0
    /\ pc \in {"wait", "status"} => /\ placed # <<>>
                                    /\ Last.quantity + 1 <= quantity + Lot
                                    /\ quantity <= Last.quantity + Lot

\* An attempt places at most one order, and without a refill it is for all.
OncePerAttempt ==
    call.kind # "refill" =>
        /\ Len(placed) <= attempt
        /\ pc \in Trying => Len(placed) < attempt
        /\ pc \in Attempting => quantity = ordered
        /\ call.kind # "orders" => attempt <= 1
        /\ fills = 0

\* The fills counted and the quantity of the attempt make up the order.  The fills
\* counted are those made, but for what reading each one can be wrong by and what
\* was not seen; the fills of this attempt are not counted before its status is known.
RefillsAddUp ==
    call.kind = "refill" =>
        /\ pc \in Trying \cup {"refetch", "status"} => fills + quantity = ordered
        /\ pc \in Trying \cup {"refetch"} =>
               /\ fills <= Filled(placed) + Len(placed)
               /\ Filled(placed) <= fills + unseen
               /\ Len(placed) <= attempt
        /\ pc = "status" =>
               /\ fills + Last.filled + 1 <= Filled(placed) + Len(placed)
               /\ Filled(placed) <= fills + unseen + Last.filled
               /\ Len(placed) <= attempt + 1
        /\ Filled(placed) <= ordered + Lot + unseen

\* What an order reported as filled may lack.
NearEnough(n) == n + Lot >= ordered \/ n * 100 >= NearlyFull * ordered

\* ReportedFillsExecuted.
Reported ==
    pc = "answered" =>
        /\ answer.filled <= Filled(placed) + Len(placed)
        /\ answer.filled <= ordered + Lot
        /\ answer.status = "Filled" => NearEnough(Filled(placed))

OrderInv ==
    /\ OrderType /\ TypeOfCall /\ NoOrderYet /\ EntriesFit /\ LastIsCurrent
    /\ OncePerAttempt /\ RefillsAddUp /\ Reported

LEMMA OrderBounds ==
    ASSUME OrderInv
    PROVE  /\ ordered \in Nat /\ quantity \in Nat /\ fills \in Nat /\ attempt \in Nat
           /\ quantity <= ordered /\ fills <= ordered /\ unseen \in Nat
           /\ placed \in Seq(ExchangeOrder) /\ Len(placed) \in Nat /\ DOMAIN placed = 1 .. Len(placed)
           /\ Filled(placed) \in Nat
           /\ \A i \in DOMAIN placed :
                 /\ placed[i] \in ExchangeOrder /\ placed[i].filled \in Nat
                 /\ placed[i].quantity \in Nat /\ placed[i].filled <= Filled(placed)
           /\ RetryAttempts \in Nat \ {0} /\ MaxRefills \in Nat
           /\ Lot \in Nat \ {0} /\ MaxRefills < Lot /\ NearlyFull \in 1 .. 100
<1>1. ordered \in Nat
    BY SenderAssumption DEF OrderInv, OrderType
<1>2. attempt \in Nat
    BY SenderAssumption DEF OrderInv, OrderType
<1>3. placed \in Seq(ExchangeOrder) /\ unseen \in Nat
    BY DEF OrderInv, OrderType
<1>4. /\ Len(placed) \in Nat /\ DOMAIN placed = 1 .. Len(placed)
      /\ \A i \in DOMAIN placed : /\ placed[i] \in ExchangeOrder
                                  /\ placed[i].filled \in Nat /\ placed[i].quantity \in Nat
    BY <1>3, ExchangeOrders
<1>5. Filled(placed) \in Nat /\ \A i \in DOMAIN placed : placed[i].filled <= Filled(placed)
    BY <1>3, FilledType
<1>6. quantity \in Nat /\ fills \in Nat /\ quantity <= ordered /\ fills <= ordered
    BY <1>1 DEF OrderInv, OrderType
<1>7. Lot \in Nat \ {0} /\ MaxRefills < Lot /\ NearlyFull \in 1 .. 100
    BY SenderAssumption
<1> QED
    BY <1>1, <1>2, <1>3, <1>4, <1>5, <1>6, <1>7, SenderAssumption

\* The order placed last, while its status is awaited.
LEMMA LastOrder ==
    ASSUME OrderInv, pc \in {"wait", "status"}
    PROVE  /\ Len(placed) \in DOMAIN placed /\ Len(placed) >= 1
           /\ Last.filled \in Nat /\ Last.quantity \in Nat
           /\ Last.filled <= Last.quantity /\ Last.filled <= Filled(placed)
           /\ Last.quantity + 1 <= quantity + Lot /\ quantity <= Last.quantity + Lot
           /\ quantity > 0
           /\ Last.open => call.type = "limit"
<1>1. /\ placed # <<>> /\ quantity > 0
      /\ Last.quantity + 1 <= quantity + Lot /\ quantity <= Last.quantity + Lot
    BY DEF OrderInv, LastIsCurrent, Attempting
<1>2. Len(placed) \in DOMAIN placed /\ Len(placed) >= 1
  <2>1. placed \in Seq(ExchangeOrder)
      BY OrderBounds
  <2>2. Len(placed) \in Nat \ {0} /\ DOMAIN placed = 1 .. Len(placed)
      BY <1>1, <2>1, EmptySeq, LenProperties
  <2> QED
      BY <2>2
<1> QED
    BY <1>1, <1>2, OrderBounds DEF OrderInv, EntriesFit, Last

\* A quantity is rounded by less than a step.
LEMMA SentBounds ==
    ASSUME NEW q \in Nat, NEW z \in Sent(q) \ {0}
    PROVE  z \in Nat \ {0} /\ z + 1 <= q + Lot /\ q <= z + Lot
<1>1. Lot \in Nat \ {0}
    BY SenderAssumption
<1>2. z \in 0 .. q + Lot /\ z # 0 /\ 2 * z <= 2 * q + Lot /\ 2 * q <= 2 * z + Lot
    BY DEF Sent, Steps
<1> QED
    BY <1>1, <1>2

LEMMA ReadBounds ==
    ASSUME NEW n \in Nat, NEW f \in Read(n)
    PROVE  f \in Nat /\ f <= n + 1 /\ (n = 0 => f = 0)
    BY DEF Read

\* The exchange accepts an order.
LEMMA PlacedMore ==
    ASSUME OrderInv, pc = "place", NEW x \in Accepted(quantity, call.type),
           placed' = Append(placed, x), UNCHANGED <<call, ordered>>
    PROVE  /\ placed' \in Seq(ExchangeOrder) /\ Len(placed') = Len(placed) + 1
           /\ placed' # <<>> /\ placed'[Len(placed) + 1] = x
           /\ x.filled \in Nat /\ x.quantity \in Nat /\ x.filled <= x.quantity
           /\ x.quantity + 1 <= quantity + Lot /\ quantity <= x.quantity + Lot
           /\ Filled(placed') = Filled(placed) + x.filled
           /\ EntriesFit'
<1>1. quantity \in Nat \ {0} /\ quantity <= ordered /\ ordered \in Nat /\ Lot \in Nat \ {0}
    BY OrderBounds DEF OrderInv, LastIsCurrent, Attempting
<1>2. /\ x \in ExchangeOrder /\ x.filled \in Nat /\ x.quantity \in Nat /\ x.filled <= x.quantity
      /\ x.quantity + 1 <= quantity + Lot /\ quantity <= x.quantity + Lot
      /\ x.open => x.filled < x.quantity /\ call.type = "limit"
  <2>1. PICK z \in Sent(quantity) \ {0} :
            \E f \in 0 .. z, o \in BOOLEAN :
                /\ x = [quantity |-> z, filled |-> f, open |-> o]
                /\ o => f = 0 /\ call.type = "limit"
    <3>1. CASE call.type = "limit"
      <4>1. PICK z \in Sent(quantity) \ {0} : x = [quantity |-> z, filled |-> 0, open |-> TRUE]
          BY <3>1 DEF Accepted
      <4>2. 0 \in 0 .. z
          BY <1>1, SentBounds
      <4> QED
          BY <3>1, <4>1, <4>2
    <3>2. CASE call.type # "limit"
      <4>1. PICK z \in Sent(quantity) \ {0} :
                \E f \in Steps(z) : x = [quantity |-> z, filled |-> f, open |-> FALSE]
          BY <3>2 DEF Accepted
      <4> QED
          BY <4>1 DEF Steps
    <3> QED
        BY <3>1, <3>2
  <2>6. PICK f \in 0 .. z, o \in BOOLEAN :
            /\ x = [quantity |-> z, filled |-> f, open |-> o]
            /\ o => f = 0 /\ call.type = "limit"
      BY <2>1
  <2>2. x.quantity = z /\ x.filled = f /\ x.open = o
      BY <2>6
  <2>3. z \in Nat \ {0} /\ z + 1 <= quantity + Lot /\ quantity <= z + Lot
      BY <1>1, SentBounds
  <2>4. f \in Nat /\ f <= z /\ (o => f < z /\ call.type = "limit")
      BY <2>3, <2>6
  <2>5. x \in ExchangeOrder
      BY <2>6, <2>3, <2>4 DEF ExchangeOrder
  <2> QED
      BY <2>2, <2>3, <2>4, <2>5
<1>3. /\ placed' \in Seq(ExchangeOrder) /\ Len(placed') = Len(placed) + 1
      /\ placed' # <<>> /\ placed'[Len(placed) + 1] = x
      /\ \A i \in 1 .. Len(placed) : placed'[i] = placed[i]
  <2>1. placed \in Seq(ExchangeOrder) /\ x \in ExchangeOrder
      BY <1>2, OrderBounds
  <2> QED
      BY <2>1, AppendProperties
<1>4. Filled(placed') = Filled(placed) + x.filled
    BY <1>2, OrderBounds, FilledAppend
<1>5. EntriesFit'
  <2>1. DOMAIN placed' = 1 .. Len(placed) + 1
      BY <1>3, LenProperties
  <2> SUFFICES ASSUME NEW i \in 1 .. Len(placed) + 1
               PROVE  /\ placed'[i].quantity + 1 <= ordered + Lot
                      /\ placed'[i].filled <= placed'[i].quantity
                      /\ placed'[i].open => placed'[i].filled < placed'[i].quantity
                                            /\ call.type = "limit"
      BY <2>1 DEF EntriesFit
  <2>2. CASE i = Len(placed) + 1
      BY <1>1, <1>2, <1>3, <2>2
  <2>3. CASE i # Len(placed) + 1
    <3>1. i \in DOMAIN placed /\ placed'[i] = placed[i]
        BY <1>3, <2>3, OrderBounds
    <3> QED
        BY <3>1 DEF OrderInv, EntriesFit
  <2> QED
      BY <2>2, <2>3
<1> QED
    BY <1>2, <1>3, <1>4, <1>5

\* What get_order() reports never exceeds what the exchange has filled.
LEMMA ReportBounds ==
    ASSUME OrderInv, pc \in {"wait", "status"}, NEW r \in Reports
    PROVE  /\ r.filled \in Nat /\ r.filled <= Last.filled
           /\ r.status = "full_fill" => r.filled = Last.quantity
<1>1. CASE r = [status |-> StatusOf(Last), filled |-> Last.filled]
  <2>1. r.status = StatusOf(Last) /\ r.filled = Last.filled
      BY <1>1
  <2>2. StatusOf(Last) = "full_fill" => Last.filled = Last.quantity
      BY DEF StatusOf
  <2> QED
      BY <2>1, <2>2, LastOrder
<1>2. CASE r \in [status : {"new", "partial_fill", "unknown"}, filled : Steps(Last.filled)]
  <2>1. r.status # "full_fill" /\ r.filled \in 0 .. Last.filled
      BY <1>2 DEF Steps
  <2> QED
      BY <2>1, LastOrder
<1> QED
    BY <1>1, <1>2 DEF Reports, Last

\* Only a complete fill is taken for one, or that of an unknown status which is
\* nearly complete.
LEMMA ResultOf ==
    ASSUME NEW r, NEW type
    PROVE  /\ ResultStatus(r, type) \in Statuses
           /\ ResultStatus(r, type) = "Filled" =>
                 r.status = "full_fill" \/ r.filled * 100 >= NearlyFull * quantity
<1>1. /\ StatusOfResult(r) \in Statuses
      /\ StatusOfResult(r) = "Filled" => r.status = "full_fill"
    BY Zenon DEF StatusOfResult, Statuses
<1>2. /\ StatusOfIocResult(r) \in Statuses
      /\ StatusOfIocResult(r) = "Filled" =>
            r.status = "full_fill" \/ r.filled * 100 >= NearlyFull * quantity
    BY DEF StatusOfIocResult, Statuses
<1> QED
    BY <1>1, <1>2 DEF ResultStatus

\* What becomes of an order that is immediate-or-cancel is never pending.
LEMMA IocResult ==
    ASSUME NEW r, r.filled \in Nat
    PROVE  /\ ResultStatus(r, "ioc") \in {"Filled", "PartiallyFilled", "Cancelled", "Failed"}
           /\ ResultStatus(r, "ioc") = "Cancelled" => r.filled = 0
    BY DEF ResultStatus, StatusOfIocResult

-----------------------------------------------------------------------------
(* Steps of an attempt.                                                    *)

LEMMA Answered ==
    ASSUME OrderInv, NEW status \in Statuses, NEW filled \in Nat,
           pc' = "answered", answer' = [status |-> status, filled |-> filled],
           UNCHANGED <<call, ordered, attempt, quantity, fills, unseen>>,
           placed' \in Seq(ExchangeOrder), EntriesFit',
           call.kind # "refill" => Len(placed') <= attempt,
           call.kind = "refill" => Filled(placed') <= ordered + Lot + unseen,
           filled <= Filled(placed') + Len(placed'), filled <= ordered + Lot,
           status = "Filled" => NearEnough(Filled(placed'))
    PROVE  OrderInv'
<1>1. answer' \in [status : Statuses \cup {"none"}, filled : Nat]
    OBVIOUS
<1>2. OrderType'
    BY <1>1 DEF OrderInv, OrderType
<1>3. TypeOfCall' /\ NoOrderYet' /\ LastIsCurrent'
    BY DEF OrderInv, TypeOfCall, NoOrderYet, LastIsCurrent, Attempting
<1>4. OncePerAttempt'
    BY DEF OrderInv, OncePerAttempt, Trying, Attempting
<1>5. RefillsAddUp'
    BY DEF RefillsAddUp, Filled, Trying
<1>6. Reported'
  <2>1. answer'.status = status /\ answer'.filled = filled
      OBVIOUS
  <2> QED
      BY <2>1 DEF Reported, Filled, NearEnough
<1> QED
    BY <1>2, <1>3, <1>4, <1>5, <1>6 DEF OrderInv

\* A failed attempt, accepted by the exchange or not.
LEMMA FailsOrderInv ==
    ASSUME OrderInv, NEW retryable \in BOOLEAN, pc \in Attempting, Fails(retryable),
           UNCHANGED <<call, ordered>>,
           placed' \in Seq(ExchangeOrder), EntriesFit',
           call.kind # "refill" => Len(placed') <= attempt,
           call.kind = "refill" => Filled(placed') <= ordered + Lot + unseen
    PROVE  OrderInv'
<1>1. CASE call.kind = "orders" /\ attempt < RetryAttempts /\ Retry
  <2>1. /\ pc' \in Trying /\ attempt' = attempt + 1 /\ UNCHANGED <<quantity, fills, answer, unseen>>
        /\ pc' # "answered" /\ pc' \notin {"idle", "next", "wait", "status"}
      BY <1>1 DEF Retry, FirstStep, Trying
  <2>2. OrderType'
    <3>1. attempt' \in 0 .. RetryAttempts
        BY <1>1, <2>1, OrderBounds
    <3> QED
        BY <1>1, <2>1, <3>1 DEF OrderInv, OrderType
  <2>3. TypeOfCall' /\ NoOrderYet' /\ RefillsAddUp' /\ Reported'
      BY <1>1, <2>1 DEF OrderInv, TypeOfCall, NoOrderYet, RefillsAddUp, Reported
  <2>4. quantity = ordered /\ fills = 0 /\ quantity > 0
      BY <1>1 DEF OrderInv, OncePerAttempt, LastIsCurrent
  <2>5. LastIsCurrent'
      BY <2>1, <2>4 DEF LastIsCurrent
  <2>6. OncePerAttempt'
    <3>1. Len(placed') \in Nat
        BY LenProperties
    <3>2. Len(placed') <= attempt' /\ Len(placed') < attempt'
        BY <1>1, <2>1, <3>1, OrderBounds
    <3> QED
        BY <1>1, <2>1, <2>4, <3>2 DEF OncePerAttempt
  <2> QED
      BY <2>2, <2>3, <2>5, <2>6 DEF OrderInv
<1>2. CASE \E n : Answer("Failed", 0, n)
  <2>1. /\ pc' = "answered" /\ answer' = [status |-> "Failed", filled |-> 0]
        /\ UNCHANGED <<attempt, quantity, fills, unseen>>
      BY <1>2 DEF Answer
  <2>2. Filled(placed') \in Nat
      BY FilledType
  <2>3. /\ "Failed" \in Statuses /\ 0 \in Nat /\ "Failed" # "Filled"
        /\ 0 <= Filled(placed') + Len(placed') /\ 0 <= ordered + Lot
    <3>1. Len(placed') \in Nat
        BY LenProperties
    <3> QED
        BY <2>2, <3>1, OrderBounds DEF Statuses
  <2> QED
      BY <2>1, <2>3, Answered
<1> QED
    BY <1>1, <1>2 DEF Fails

\* What is placed, and how much of it is filled, stays as it is.
LEMMA SameOrders ==
    ASSUME OrderInv, UNCHANGED <<call, ordered, placed>>, pc \in Attempting
    PROVE  /\ placed' \in Seq(ExchangeOrder) /\ EntriesFit' /\ Filled(placed') = Filled(placed)
           /\ call.kind # "refill" => Len(placed') <= attempt
           /\ call.kind = "refill" => Filled(placed') <= ordered + Lot + unseen
<1>1. placed' \in Seq(ExchangeOrder)
    BY OrderBounds
<1>2. EntriesFit'
    BY DEF OrderInv, EntriesFit
<1> QED
    BY <1>1, <1>2 DEF OrderInv, OncePerAttempt, RefillsAddUp

\* The exchange has accepted the order and the status says what came of it.
LEMMA ReturnsOrderInv ==
    ASSUME OrderInv, pc \in {"wait", "status"}, NEW r \in Reports, NEW f \in Read(r.filled),
           NEW status,
           \/ status = ResultStatus(r, call.type)
           \/ pc = "wait" /\ status = "Filled" /\ r.status = "full_fill",
           UNCHANGED <<call, ordered, placed>>, Returns(status, f)
    PROVE  OrderInv'
<1>1. /\ r.filled \in Nat /\ r.filled <= Last.filled
      /\ r.status = "full_fill" => r.filled = Last.quantity
    BY ReportBounds
<1>2. f \in Nat /\ f <= r.filled + 1 /\ (r.filled = 0 => f = 0)
    BY <1>1, ReadBounds
<1>3. /\ status \in Statuses
      /\ status = "Filled" => r.status = "full_fill" \/ r.filled * 100 >= NearlyFull * quantity
    BY ResultOf DEF Statuses
<1>4. /\ placed' \in Seq(ExchangeOrder) /\ EntriesFit' /\ Filled(placed') = Filled(placed)
      /\ call.kind # "refill" => Len(placed') <= attempt
      /\ call.kind = "refill" => Filled(placed') <= ordered + Lot + unseen
    BY SameOrders DEF Attempting
<1>5. /\ Last.filled \in Nat /\ Last.quantity \in Nat
      /\ Last.filled <= Last.quantity /\ Last.filled <= Filled(placed)
      /\ Last.quantity + 1 <= quantity + Lot /\ quantity <= Last.quantity + Lot
      /\ Len(placed) >= 1
    BY LastOrder
<1>6. /\ ordered \in Nat /\ quantity \in Nat /\ fills \in Nat /\ attempt \in Nat /\ unseen \in Nat
      /\ Len(placed) \in Nat /\ Filled(placed) \in Nat /\ Lot \in Nat \ {0} /\ MaxRefills \in Nat
      /\ MaxRefills < Lot /\ NearlyFull \in 1 .. 100
    BY OrderBounds
<1>7. CASE call.kind # "refill"
  <2>1. Answer(status, f, 1)
      BY <1>7 DEF Returns
  <2>2. /\ pc' = "answered" /\ answer' = [status |-> status, filled |-> f]
        /\ UNCHANGED <<attempt, quantity, fills, unseen>>
      BY <2>1 DEF Answer
  <2>3. quantity = ordered
      BY <1>7 DEF OrderInv, OncePerAttempt, Attempting
  <2>4. f <= Filled(placed) + Len(placed) /\ f <= ordered + Lot
      BY <1>1, <1>2, <1>5, <1>6, <2>3
  <2>5. status = "Filled" => NearEnough(Filled(placed))
    <3> SUFFICES ASSUME status = "Filled"
                 PROVE  \/ Filled(placed) + Lot >= ordered
                        \/ Filled(placed) * 100 >= NearlyFull * ordered
        BY DEF NearEnough
    <3>1. CASE r.status = "full_fill"
        BY <1>1, <1>5, <1>6, <2>3, <3>1
    <3>2. CASE r.filled * 100 >= NearlyFull * quantity
      <4> DEFINE share == NearlyFull * ordered
      <4>1. r.filled * 100 >= share /\ share \in Int
          BY <1>6, <2>3, <3>2
      <4> HIDE DEF share
      <4>2. Filled(placed) * 100 >= share
          BY <1>1, <1>5, <1>6, <4>1
      <4> QED
          BY <4>2 DEF share
    <3> QED
        BY <1>3, <3>1, <3>2
  <2> QED
      BY <1>2, <1>3, <1>4, <1>7, <2>2, <2>4, <2>5, Answered
<1>8. CASE call.kind = "refill"
  <2> DEFINE total == fills + (IF status \in Success THEN f ELSE 0)
  <2>1. call.type = "ioc" /\ pc = "status"
      BY <1>8 DEF OrderInv, TypeOfCall
  <2>2. /\ status \in {"Filled", "PartiallyFilled", "Cancelled", "Failed"}
        /\ status = "Cancelled" => f = 0
      BY <1>1, <1>2, <2>1, IocResult
  <2>3. /\ fills + quantity = ordered
        /\ fills + Last.filled + 1 <= Filled(placed) + Len(placed)
        /\ Filled(placed) <= fills + unseen + Last.filled
        /\ Len(placed) <= attempt + 1
      BY <1>8, <2>1 DEF OrderInv, RefillsAddUp
  <2>4. total \in Nat /\ total <= Filled(placed) + Len(placed) /\ total <= ordered + Lot
    <3> DEFINE filled == Filled(placed)
               n == Len(placed)
               last == Last.filled
               size == Last.quantity
    <3>1. /\ f \in Nat /\ f <= last + 1 /\ last \in Nat /\ size \in Nat /\ last <= size
          /\ size + 1 <= quantity + Lot /\ filled \in Nat /\ n \in Nat
          /\ fills + last + 1 <= filled + n
      <4>1. r.filled \in Nat /\ r.filled <= last /\ f <= r.filled + 1 /\ last \in Nat /\ f \in Nat
          BY <1>1, <1>2, <1>5
      <4>2. f <= last + 1
          BY <4>1
      <4> QED
          BY <1>5, <1>6, <2>3, <4>1, <4>2
    <3>2. total = fills \/ total = fills + f
        BY <1>2, <1>6
    <3> HIDE DEF filled, n, last, size, total
    <3>3. total \in Nat /\ total <= filled + n
        BY <1>6, <3>1, <3>2
    <3>4. total <= ordered + Lot
        BY <1>6, <2>3, <3>1, <3>2
    <3> QED
        BY <3>3, <3>4 DEF filled, n
  <2>5. attempt <= MaxRefills
      BY <1>6, <1>8 DEF OrderInv, OrderType
  <2>6. CASE ShouldRefill(status, f)
    <3>1. /\ pc' = "refetch" /\ fills' = total /\ attempt' = attempt + 1
          /\ quantity' = quantity - f /\ UNCHANGED answer
          /\ unseen' = unseen + (IF Last.filled > f THEN Last.filled - f ELSE 0)
        BY <1>8, <2>6 DEF Returns, Rest, LastFilled, Last
    <3>2. /\ status \in {"PartiallyFilled", "Cancelled"} /\ attempt < MaxRefills
          /\ f * 10000 < 9999 * quantity
        BY <2>2, <2>6 DEF ShouldRefill
    <3>3. total = fills + f
        BY <1>6, <2>2, <3>2 DEF Success
    <3>4. f < quantity
        BY <1>2, <1>6, <3>2
    <3>5. quantity' \in Nat \ {0} /\ quantity' <= ordered /\ fills' + quantity' = ordered
      <4>1. fills' = fills + f
          BY <3>1, <3>3
      <4> QED
          BY <1>2, <1>6, <2>3, <3>1, <3>4, <4>1
    <3>6. unseen' \in Nat /\ unseen' >= unseen /\ unseen' + f >= unseen + Last.filled
        BY <1>2, <1>5, <1>6, <3>1
    <3>7. OrderType'
      <4>1. attempt' \in 0 .. MaxRefills
          BY <1>6, <3>1, <3>2
      <4>2. quantity' \in 0 .. ordered /\ fills' \in 0 .. ordered
          BY <1>6, <2>4, <3>1, <3>5
      <4> QED
          BY <1>4, <1>8, <3>1, <3>6, <4>1, <4>2 DEF OrderInv, OrderType
    <3>8. TypeOfCall' /\ NoOrderYet' /\ Reported' /\ OncePerAttempt'
        BY <1>8, <3>1 DEF OrderInv, TypeOfCall, NoOrderYet, Reported, OncePerAttempt
    <3>9. LastIsCurrent'
        BY <3>1, <3>5 DEF LastIsCurrent
    <3>10. RefillsAddUp'
      <4>1. /\ fills' <= Filled(placed) + Len(placed)
            /\ Filled(placed) <= fills' + unseen'
            /\ Len(placed) <= attempt'
            /\ Filled(placed) <= ordered + Lot + unseen'
        <5>1. Filled(placed) <= ordered + Lot + unseen
            BY <1>4, <1>8
        <5>2. fills' = fills + f
            BY <3>1, <3>3
        <5>3. /\ fills' <= Filled(placed) + Len(placed)
              /\ Len(placed) <= attempt'
            BY <2>3, <2>4, <3>1
        <5>4. Filled(placed) <= fills' + unseen'
          <6> DEFINE filled == Filled(placed)
                     last == Last.filled
                     uns == unseen'
          <6>1. filled <= fills + unseen + last /\ uns + f >= unseen + last /\ uns \in Nat
              BY <2>3, <3>6
          <6>2. filled \in Nat /\ last \in Nat /\ fills \in Nat /\ unseen \in Nat /\ f \in Nat
              BY <1>2, <1>5, <1>6
          <6> HIDE DEF filled, last, uns
          <6>3. filled <= (fills + f) + uns
              BY <6>1, <6>2
          <6> QED
              BY <5>2, <6>3 DEF filled, uns
        <5>5. Filled(placed) <= ordered + Lot + unseen'
            BY <1>6, <3>6, <5>1
        <5> QED
            BY <5>3, <5>4, <5>5
      <4> QED
          BY <1>8, <3>1, <3>5, <4>1 DEF RefillsAddUp, Filled
    <3> QED
        BY <1>4, <3>7, <3>8, <3>9, <3>10 DEF OrderInv
  <2>7. CASE ~ ShouldRefill(status, f)
    <3>1. Answer(FinalStatus(total), total, 0)
        BY <1>8, <2>7 DEF Returns, Aggregated
    <3> HIDE DEF total
    <3>2. /\ pc' = "answered" /\ answer' = [status |-> FinalStatus(total), filled |-> total]
          /\ UNCHANGED <<attempt, quantity, fills, unseen>>
        BY <3>1 DEF Answer
    <3>3. FinalStatus(total) \in Statuses
        BY DEF FinalStatus, Statuses
    <3>4. FinalStatus(total) = "Filled" => NearEnough(Filled(placed))
      <4>1. FinalStatus(total) = "Filled" => total >= ordered
          BY DEF FinalStatus
      <4>2. Len(placed) <= Lot
          BY <1>6, <2>3, <2>5
      <4> QED
          BY <1>6, <2>4, <4>1, <4>2 DEF NearEnough
    <3> QED
        BY <1>4, <1>8, <2>4, <3>2, <3>3, <3>4, Answered
  <2> QED
      BY <2>6, <2>7
<1> QED
    BY <1>7, <1>8

-----------------------------------------------------------------------------
\* The next order of a call: nothing is placed for it.
LEMMA NextOrderOrderInv ==
    ASSUME Inv, OrderInv, NEW q \in Quantities, NextOrder(q)
    PROVE  OrderInv'
<1>1. /\ call' = [call EXCEPT !.left = call.left - 1]
      /\ ordered' = q /\ quantity' = q /\ fills' = 0 /\ placed' = <<>> /\ unseen' = 0
      /\ attempt' = IF call.kind = "refill" THEN 0 ELSE 1
      /\ \/ pc' = "answered" /\ answer' = [status |-> "Failed", filled |-> 0] /\ call.kind = "orders"
         \/ pc' \in Trying /\ answer' = NoAnswer
      /\ pc \in {"next", "answered"} /\ call.left > 0
    BY DEF NextOrder, FirstStep, Trying
<1>2. call'.kind = call.kind /\ call'.type = call.type
    BY <1>1 DEF Inv, BreakerType
<1>3. q \in Nat \ {0} /\ MaxRefills \in Nat /\ RetryAttempts \in Nat \ {0} /\ Lot \in Nat
    BY SenderAssumption
<1>4. placed' \in Seq(ExchangeOrder) /\ Len(placed') = 0 /\ Filled(placed') = 0
    BY <1>1, NothingFilled
<1>5. /\ "none" \in Statuses \cup {"none"} /\ "Failed" \in Statuses \cup {"none"} /\ 0 \in Nat
      /\ answer'.filled = 0 /\ (pc' = "answered" => answer'.status # "Filled")
      /\ answer' \in [status : Statuses \cup {"none"}, filled : Nat]
    BY <1>1 DEF Statuses, NoAnswer, Trying
<1>6. OrderType'
  <2>1. attempt' \in 0 .. IF call.kind = "refill" THEN MaxRefills ELSE RetryAttempts
      BY <1>1, <1>3
  <2>2. quantity' \in 0 .. q /\ fills' \in 0 .. q
      BY <1>1, <1>3
  <2> QED
      BY <1>1, <1>2, <1>4, <1>5, <2>1, <2>2 DEF OrderType
<1>7. TypeOfCall' /\ NoOrderYet' /\ EntriesFit' /\ LastIsCurrent'
    BY <1>1, <1>2, <1>3 DEF OrderInv, TypeOfCall, NoOrderYet, EntriesFit, LastIsCurrent, Trying
<1>8. OncePerAttempt'
    BY <1>1, <1>2, <1>4 DEF OncePerAttempt
<1>9. RefillsAddUp'
    BY <1>1, <1>2, <1>3, <1>4 DEF RefillsAddUp, Filled, Trying
<1>10. Reported'
    BY <1>1, <1>3, <1>4, <1>5 DEF Reported, Filled, NearEnough
<1> QED
    BY <1>6, <1>7, <1>8, <1>9, <1>10 DEF OrderInv

\* Between calls, and before the first order of one, there is no order.
LEMMA NoOrderInv ==
    ASSUME ordered' = 0, quantity' = 0, fills' = 0, attempt' = 0, placed' = <<>>, unseen' \in Nat,
           pc' \in {"idle", "next"}, answer' \in [status : Statuses \cup {"none"}, filled : Nat],
           call'.kind \in {"refill", "ioc"} => call'.type = "ioc",
           call'.kind = "orders" => call'.type \in {"limit", "market"}
    PROVE  OrderInv'
<1>1. placed' \in Seq(ExchangeOrder) /\ Len(placed') = 0 /\ Filled(placed') = 0
    BY NothingFilled
<1>2. OrderType'
  <2>1. 0 \in 0 .. IF call'.kind = "refill" THEN MaxRefills ELSE RetryAttempts
      BY SenderAssumption
  <2> QED
      BY <1>1, <2>1 DEF OrderType
<1>3. TypeOfCall' /\ NoOrderYet' /\ EntriesFit' /\ LastIsCurrent'
    BY DEF TypeOfCall, NoOrderYet, EntriesFit, LastIsCurrent, Attempting
<1>4. OncePerAttempt' /\ Reported'
    BY <1>1 DEF OncePerAttempt, Reported, Trying, Attempting
<1>5. RefillsAddUp'
  <2>1. Lot \in Nat
      BY SenderAssumption
  <2>2. \A a, b \in Nat : 0 <= 0 + a + b
      OBVIOUS
  <2>3. 0 <= 0 + Lot + unseen'
      BY <2>1, <2>2
  <2> QED
      BY <1>1, <2>3 DEF RefillsAddUp, Filled, Trying
<1> QED
    BY <1>2, <1>3, <1>4, <1>5 DEF OrderInv

LEMMA BeginOrderInv ==
    ASSUME Inv, OrderInv, Begin
    PROVE  OrderInv'
<1>1. /\ call.kind = "none" /\ pc' = "next" /\ UNCHANGED orderVars
      /\ call'.kind \in {"refill", "ioc"} => call'.type = "ioc"
      /\ call'.kind = "orders" => call'.type \in {"limit", "market"}
  <2>1. CASE BeginRefill
      BY <2>1 DEF BeginRefill, NoCall
  <2>2. CASE ~ BeginRefill
    <3>1. PICK n \in 1 .. MaxBatch, kind \in {"orders", "ioc"}, type \in {"limit", "market", "ioc"} :
              BeginBatch(kind, type, n)
        BY <2>2 DEF Begin
    <3> QED
        BY <3>1 DEF BeginBatch, NoCall
  <2> QED
      BY <2>1, <2>2
<1>2. /\ ordered = 0 /\ placed = <<>> /\ attempt = 0
      /\ quantity \in 0 .. ordered /\ fills \in 0 .. ordered
      /\ answer \in [status : Statuses \cup {"none"}, filled : Nat] /\ unseen \in Nat
    BY <1>1 DEF Inv, IdleBetweenCalls, OrderInv, NoOrderYet, OrderType
<1>3. quantity = 0 /\ fills = 0
    BY <1>2
<1> QED
    BY <1>1, <1>2, <1>3, NoOrderInv DEF orderVars

LEMMA CallReturnsOrderInv ==
    ASSUME CallReturns
    PROVE  OrderInv'
<1>1. /\ ordered' = 0 /\ quantity' = 0 /\ fills' = 0 /\ attempt' = 0 /\ placed' = <<>> /\ unseen' = 0
      /\ pc' = "idle" /\ call'.kind = "none" /\ answer' = NoAnswer
    BY DEF CallReturns, NoCall
<1>2. answer' \in [status : Statuses \cup {"none"}, filled : Nat]
    BY <1>1 DEF NoAnswer
<1> QED
    BY <1>1, <1>2, NoOrderInv

\* One order more, of size n and filled by m, in a refill.
LEMMA RefillPlaced ==
    ASSUME OrderInv, NEW n \in Nat, NEW m \in Nat, m <= n, n + 1 <= quantity + Lot,
           fills + quantity = ordered, fills <= Filled(placed) + Len(placed),
           Filled(placed) <= fills + unseen, Len(placed) <= attempt,
           Filled(placed') = Filled(placed) + m, Len(placed') = Len(placed) + 1
    PROVE  /\ fills + m + 1 <= Filled(placed') + Len(placed')
           /\ Filled(placed') <= fills + unseen + m
           /\ Len(placed') <= attempt + 1
           /\ Filled(placed') <= ordered + Lot + unseen
<1> DEFINE filled == Filled(placed)
           l == Len(placed)
<1>1. /\ filled \in Nat /\ l \in Nat /\ fills \in Nat /\ unseen \in Nat /\ attempt \in Nat
      /\ quantity \in Nat /\ ordered \in Nat /\ Lot \in Nat
    BY OrderBounds
<1>2. Filled(placed') = filled + m /\ Len(placed') = l + 1
    OBVIOUS
<1>3. fills <= filled + l /\ filled <= fills + unseen /\ l <= attempt
    OBVIOUS
<1> HIDE DEF filled, l
<1>4. fills + m + 1 <= (filled + m) + (l + 1) /\ l + 1 <= attempt + 1
    BY <1>1, <1>3
<1>5. filled + m <= fills + unseen + m /\ filled + m <= ordered + Lot + unseen
    BY <1>1, <1>3
<1> QED
    BY <1>2, <1>4, <1>5

\* The exchange accepts the order of this attempt and says so.
LEMMA PlaceOkOrderInv ==
    ASSUME OrderInv, PlaceOk
    PROVE  OrderInv'
<1>1. PICK x \in Accepted(quantity, call.type) : placed' = Append(placed, x)
    BY DEF PlaceOk
<1>2. /\ pc = "place" /\ UNCHANGED <<call, ordered, attempt, quantity, fills, answer, unseen>>
      /\ pc' = IF call.type = "limit" THEN "wait" ELSE "status"
    BY DEF PlaceOk
<1>3. /\ placed' \in Seq(ExchangeOrder) /\ Len(placed') = Len(placed) + 1
      /\ placed' # <<>> /\ placed'[Len(placed) + 1] = x
      /\ x.filled \in Nat /\ x.quantity \in Nat /\ x.filled <= x.quantity
      /\ x.quantity + 1 <= quantity + Lot /\ quantity <= x.quantity + Lot
      /\ Filled(placed') = Filled(placed) + x.filled
      /\ EntriesFit'
    BY <1>1, <1>2, PlacedMore
<1>4. Last' = x
    BY <1>3 DEF Last
<1>5. OrderType'
    BY <1>2, <1>3 DEF OrderInv, OrderType
<1>6. TypeOfCall' /\ NoOrderYet' /\ Reported'
    BY <1>2 DEF OrderInv, TypeOfCall, NoOrderYet, Reported
<1>7. LastIsCurrent'
  <2>1. quantity > 0
      BY <1>2 DEF OrderInv, LastIsCurrent, Attempting
  <2> QED
      BY <1>2, <1>3, <1>4, <2>1 DEF LastIsCurrent
<1>8. OncePerAttempt'
  <2> SUFFICES ASSUME call.kind # "refill"
               PROVE  /\ Len(placed') <= attempt /\ quantity = ordered
                      /\ call.kind # "orders" => attempt <= 1
                      /\ fills = 0
      BY <1>2 DEF OncePerAttempt, Trying
  <2>1. Len(placed) < attempt
      BY <1>2 DEF OrderInv, OncePerAttempt, Trying
  <2>2. Len(placed') <= attempt
      BY <1>3, <2>1, OrderBounds
  <2> QED
      BY <1>2, <2>2 DEF OrderInv, OncePerAttempt, Attempting
<1>9. RefillsAddUp'
  <2> SUFFICES ASSUME call.kind = "refill"
               PROVE  /\ fills + quantity = ordered
                      /\ fills + x.filled + 1 <= Filled(placed') + Len(placed')
                      /\ Filled(placed') <= fills + unseen + x.filled
                      /\ Len(placed') <= attempt + 1
                      /\ Filled(placed') <= ordered + Lot + unseen
      BY <1>2, <1>4 DEF RefillsAddUp, Filled, Trying
  <2>1. /\ fills + quantity = ordered /\ fills <= Filled(placed) + Len(placed)
        /\ Filled(placed) <= fills + unseen /\ Len(placed) <= attempt
      BY <1>2 DEF OrderInv, RefillsAddUp, Trying
  <2> QED
      BY <1>3, <2>1, RefillPlaced, OrderBounds
<1> QED
    BY <1>3, <1>5, <1>6, <1>7, <1>8, <1>9 DEF OrderInv

\* The exchange accepts the order, but the attempt fails.
LEMMA ResponseLostOrderInv ==
    ASSUME OrderInv, ResponseLost
    PROVE  OrderInv'
<1>1. PICK x \in Accepted(quantity, call.type) : placed' = Append(placed, x)
    BY DEF ResponseLost
<1>2. pc = "place" /\ UNCHANGED <<call, ordered>> /\ Fails(TRUE)
    BY DEF ResponseLost
<1>3. /\ placed' \in Seq(ExchangeOrder) /\ Len(placed') = Len(placed) + 1
      /\ x.filled \in Nat /\ x.quantity \in Nat /\ x.filled <= x.quantity
      /\ x.quantity + 1 <= quantity + Lot
      /\ Filled(placed') = Filled(placed) + x.filled
      /\ EntriesFit'
    BY <1>1, <1>2, PlacedMore
<1>4. call.kind # "refill" => Len(placed') <= attempt
  <2> SUFFICES ASSUME call.kind # "refill"
               PROVE  Len(placed') <= attempt
      OBVIOUS
  <2>1. Len(placed) < attempt
      BY <1>2 DEF OrderInv, OncePerAttempt, Trying
  <2> QED
      BY <1>3, <2>1, OrderBounds
<1>5. call.kind = "refill" => Filled(placed') <= ordered + Lot + unseen
  <2> SUFFICES ASSUME call.kind = "refill"
               PROVE  Filled(placed') <= ordered + Lot + unseen
      OBVIOUS
  <2>1. /\ fills + quantity = ordered /\ fills <= Filled(placed) + Len(placed)
        /\ Filled(placed) <= fills + unseen /\ Len(placed) <= attempt
      BY <1>2 DEF OrderInv, RefillsAddUp, Trying
  <2> QED
      BY <1>3, <2>1, RefillPlaced, OrderBounds
<1>6. TRUE \in BOOLEAN /\ pc \in Attempting
    BY <1>2 DEF Attempting
<1> QED
    BY <1>2, <1>3, <1>4, <1>5, <1>6, FailsOrderInv

\* The order book for a refill is not obtained: the fills so far are the result.
LEMMA RefetchFailsOrderInv ==
    ASSUME Inv, OrderInv, RefetchFails
    PROVE  OrderInv'
<1>1. /\ pc = "refetch" /\ UNCHANGED <<call, ordered, placed>>
      /\ Answer(FinalStatus(fills), fills, 0)
    BY DEF RefetchFails
<1>2. call.kind = "refill"
    BY <1>1 DEF Inv, RefetchIsRefill
<1>3. /\ fills <= Filled(placed) + Len(placed) /\ Len(placed) <= attempt /\ attempt <= MaxRefills
      /\ fills \in Nat /\ fills <= ordered
    BY <1>1, <1>2, OrderBounds DEF OrderInv, RefillsAddUp, OrderType
<1>4. /\ placed' \in Seq(ExchangeOrder) /\ EntriesFit' /\ Filled(placed') = Filled(placed)
      /\ call.kind # "refill" => Len(placed') <= attempt
      /\ call.kind = "refill" => Filled(placed') <= ordered + Lot + unseen
      /\ placed' = placed
    BY <1>1, SameOrders DEF Attempting
<1>5. /\ FinalStatus(fills) \in Statuses
      /\ FinalStatus(fills) = "Filled" => NearEnough(Filled(placed'))
  <2>1. /\ FinalStatus(fills) \in Statuses
        /\ FinalStatus(fills) = "Filled" => fills >= ordered
      BY DEF FinalStatus, Statuses
  <2>2. Filled(placed) + Lot >= fills
      BY <1>3, OrderBounds
  <2>3. fills >= ordered => Filled(placed) + Lot >= ordered
      BY <1>3, <2>2, OrderBounds
  <2> QED
      BY <1>4, <2>1, <2>3 DEF NearEnough
<1>6. /\ pc' = "answered" /\ answer' = [status |-> FinalStatus(fills), filled |-> fills]
      /\ UNCHANGED <<attempt, quantity, fills, unseen>>
    BY <1>1 DEF Answer
<1>7. fills <= Filled(placed') + Len(placed') /\ fills <= ordered + Lot
    BY <1>3, <1>4, OrderBounds
<1> QED
    BY <1>1, <1>3, <1>4, <1>5, <1>6, <1>7, Answered

\* A step of the attempt that changes nothing of the order.
LEMMA StepOrderInv ==
    ASSUME OrderInv, UNCHANGED <<call, orderVars>>, pc \in Attempting,
           \/ pc \in {"price", "refetch"} /\ pc' \in Trying
           \/ pc = "wait" /\ pc' = "status",
           pc = "refetch" => call.kind = "refill"
    PROVE  OrderInv'
<1>1. OrderType' /\ EntriesFit'
    BY DEF OrderInv, OrderType, EntriesFit, orderVars
<1>2. TypeOfCall' /\ NoOrderYet' /\ LastIsCurrent' /\ Reported'
    BY DEF OrderInv, TypeOfCall, NoOrderYet, LastIsCurrent, Last, Reported, NearEnough, Filled, orderVars, Trying
<1>3. OncePerAttempt'
    BY DEF OrderInv, OncePerAttempt, orderVars, Trying, Attempting
<1>4. RefillsAddUp'
    BY DEF OrderInv, RefillsAddUp, TypeOfCall, Filled, orderVars, Trying
<1> QED
    BY <1>1, <1>2, <1>3, <1>4 DEF OrderInv

LEMMA Shut ==
    ASSUME NEW z \in ExchangeOrder, NEW o \in BOOLEAN
    PROVE  [z EXCEPT !.open = o] = [quantity |-> z.quantity, filled |-> z.filled, open |-> o]
<1>1. z = [quantity |-> z.quantity, filled |-> z.filled, open |-> z.open]
    BY DEF ExchangeOrder
<1> QED
    BY <1>1

\* An order in the book fills further, or is cancelled: a limit order, of which
\* what has filled stays filled.
LEMMA TradedOrder ==
    ASSUME OrderInv, NEW i \in DOMAIN placed, ExchangeTrades(i)
    PROVE  /\ placed[i].open
           /\ \E y \in ExchangeOrder :
                 /\ placed' = [placed EXCEPT ![i] = y]
                 /\ y.quantity = placed[i].quantity
                 /\ placed[i].filled <= y.filled /\ y.filled <= y.quantity
                 /\ y.open => y.filled < y.quantity
<1> DEFINE z == placed[i]
           shut == [quantity |-> z.quantity, filled |-> z.filled, open |-> FALSE]
<1>1. z.open /\ z \in ExchangeOrder /\ z.filled < z.quantity /\ z.filled \in Nat /\ z.quantity \in Nat
    BY OrderBounds DEF ExchangeTrades, OrderInv, EntriesFit
<1>2. CASE placed' = [placed EXCEPT ![i] = [z EXCEPT !.open = FALSE]]
  <2>1. [z EXCEPT !.open = FALSE] = shut
      BY <1>1, Shut
  <2>2. placed' = [placed EXCEPT ![i] = shut]
      BY <1>2, <2>1
  <2>3. shut \in ExchangeOrder
      BY <1>1 DEF ExchangeOrder
  <2>4. /\ shut.quantity = z.quantity /\ z.filled <= shut.filled /\ shut.filled <= shut.quantity
        /\ shut.open => shut.filled < shut.quantity
      BY <1>1
  <2> HIDE DEF shut
  <2> QED
      BY <1>1, <2>2, <2>3, <2>4
<1>3. ASSUME NEW f \in Steps(z.quantity), f > z.filled,
             placed' = [placed EXCEPT ![i] = [z EXCEPT !.filled = f, !.open = f < z.quantity]]
      PROVE  \E y \in ExchangeOrder :
                 /\ placed' = [placed EXCEPT ![i] = y]
                 /\ y.quantity = z.quantity
                 /\ z.filled <= y.filled /\ y.filled <= y.quantity
                 /\ y.open => y.filled < y.quantity
  <2> DEFINE o == f < z.quantity
             more == [quantity |-> z.quantity, filled |-> f, open |-> o]
  <2>1. f \in Nat /\ f <= z.quantity /\ o \in BOOLEAN
      BY <1>1 DEF Steps
  <2>2. o => f < z.quantity
      OBVIOUS
  <2>3. placed' = [placed EXCEPT ![i] = [z EXCEPT !.filled = f, !.open = o]]
      BY <1>3
  <2> HIDE DEF o
  <2>4. [z EXCEPT !.filled = f, !.open = o] = more
    <3>1. z \in ExchangeOrder /\ f \in Nat /\ o \in BOOLEAN
        BY <1>1, <2>1
    <3> HIDE DEF z, o
    <3>2. z = [quantity |-> z.quantity, filled |-> z.filled, open |-> z.open]
        BY <3>1 DEF ExchangeOrder
    <3> DEFINE y == [quantity |-> z.quantity, filled |-> f, open |-> z.open]
    <3>3. [z EXCEPT !.filled = f] = y
        BY <3>2
    <3>4. [y EXCEPT !.open = o] = [quantity |-> z.quantity, filled |-> f, open |-> o]
        OBVIOUS
    <3>5. [z EXCEPT !.filled = f, !.open = o] = [[z EXCEPT !.filled = f] EXCEPT !.open = o]
        OBVIOUS
    <3> HIDE DEF y
    <3> QED
        BY <3>3, <3>4, <3>5
  <2>5. placed' = [placed EXCEPT ![i] = more]
      BY <2>3, <2>4
  <2>6. more \in ExchangeOrder
      BY <1>1, <2>1 DEF ExchangeOrder
  <2>7. more.quantity = z.quantity /\ more.filled = f /\ more.open = o
      OBVIOUS
  <2> HIDE DEF more
  <2>8. z.filled <= more.filled /\ more.filled <= more.quantity /\ (more.open => more.filled < more.quantity)
      BY <1>1, <1>3, <2>1, <2>2, <2>7
  <2> QED
      BY <2>5, <2>6, <2>7, <2>8
<1>4. \/ placed' = [placed EXCEPT ![i] = [z EXCEPT !.open = FALSE]]
      \/ \E f \in Steps(z.quantity) :
             /\ f > z.filled
             /\ placed' = [placed EXCEPT ![i] = [z EXCEPT !.filled = f, !.open = f < z.quantity]]
    BY DEF ExchangeTrades
<1> QED
    BY <1>1, <1>2, <1>3, <1>4

LEMMA ExchangeTradesOrderInv ==
    ASSUME OrderInv, NEW i \in DOMAIN placed, ExchangeTrades(i)
    PROVE  OrderInv'
<1>1. placed[i].open
    BY TradedOrder
<1>2. PICK y \in ExchangeOrder :
          /\ placed' = [placed EXCEPT ![i] = y]
          /\ y.quantity = placed[i].quantity
          /\ placed[i].filled <= y.filled /\ y.filled <= y.quantity
          /\ y.open => y.filled < y.quantity
    BY TradedOrder
<1>3. UNCHANGED <<call, pc, ordered, attempt, quantity, fills, answer, unseen>>
    BY DEF ExchangeTrades
<1>4. call.type = "limit" /\ call.kind # "refill" /\ placed[i].quantity + 1 <= ordered + Lot
    BY <1>1 DEF OrderInv, EntriesFit, TypeOfCall
<1>5. /\ placed' \in Seq(ExchangeOrder) /\ Len(placed') = Len(placed)
      /\ DOMAIN placed' = 1 .. Len(placed) /\ DOMAIN placed = 1 .. Len(placed)
      /\ Len(placed) \in Nat
      /\ \A j \in 1 .. Len(placed) : placed'[j] = IF j = i THEN y ELSE placed[j]
  <2>1. placed \in Seq(ExchangeOrder) /\ Len(placed) \in Nat /\ DOMAIN placed = 1 .. Len(placed)
      BY OrderBounds
  <2>2. placed' \in Seq(ExchangeOrder) /\ Len(placed') = Len(placed)
      BY <1>2, <2>1, ExceptSeq
  <2> QED
      BY <1>2, <2>1, <2>2
<1>6. \A j \in 1 .. Len(placed) : placed[j].filled <= placed'[j].filled
    BY <1>2, <1>5, OrderBounds
<1>7. Filled(placed) <= Filled(placed') /\ Filled(placed) \in Nat /\ Filled(placed') \in Nat
    BY <1>5, <1>6, FilledGrows, FilledType, OrderBounds
<1>8. OrderType'
    BY <1>3, <1>5 DEF OrderInv, OrderType
<1>9. TypeOfCall' /\ RefillsAddUp'
    BY <1>3, <1>4 DEF OrderInv, TypeOfCall, RefillsAddUp
<1>10. NoOrderYet'
  <2>1. placed # <<>>
      BY <1>5
  <2> QED
      BY <1>3, <2>1 DEF OrderInv, NoOrderYet
<1>11. EntriesFit'
  <2> SUFFICES ASSUME NEW j \in 1 .. Len(placed)
               PROVE  /\ placed'[j].quantity + 1 <= ordered + Lot
                      /\ placed'[j].filled <= placed'[j].quantity
                      /\ placed'[j].open => placed'[j].filled < placed'[j].quantity /\ call.type = "limit"
      BY <1>3, <1>5 DEF EntriesFit
  <2>1. CASE j = i
      BY <1>2, <1>4, <1>5, <2>1
  <2>2. CASE j # i
      BY <1>5, <2>2 DEF OrderInv, EntriesFit
  <2> QED
      BY <2>1, <2>2
<1>12. LastIsCurrent'
  <2> SUFFICES ASSUME pc \in {"wait", "status"}
               PROVE  /\ placed' # <<>>
                      /\ placed'[Len(placed)].quantity + 1 <= quantity + Lot
                      /\ quantity <= placed'[Len(placed)].quantity + Lot
      BY <1>3, <1>5 DEF OrderInv, LastIsCurrent, Last
  <2>1. /\ placed # <<>>
        /\ placed[Len(placed)].quantity + 1 <= quantity + Lot
        /\ quantity <= placed[Len(placed)].quantity + Lot
      BY DEF OrderInv, LastIsCurrent, Last
  <2>2. Len(placed) \in 1 .. Len(placed)
      BY <1>5
  <2>3. placed'[Len(placed)].quantity = placed[Len(placed)].quantity /\ placed' # <<>>
      BY <1>2, <1>5, <2>2
  <2> QED
      BY <2>1, <2>3
<1>13. OncePerAttempt'
    BY <1>3, <1>5 DEF OrderInv, OncePerAttempt
<1>14. Reported'
  <2> SUFFICES ASSUME pc = "answered"
               PROVE  /\ answer.filled <= Filled(placed') + Len(placed')
                      /\ answer.filled <= ordered + Lot
                      /\ answer.status = "Filled" => NearEnough(Filled(placed'))
      BY <1>3 DEF Reported, NearEnough, Filled
  <2>1. /\ answer.filled <= Filled(placed) + Len(placed) /\ answer.filled <= ordered + Lot
        /\ answer.status = "Filled" => NearEnough(Filled(placed))
      BY DEF OrderInv, Reported
  <2>2. answer.filled \in Nat /\ ordered \in Nat /\ Lot \in Nat /\ NearlyFull \in Nat
    <3>1. answer.filled \in Nat
        BY DEF OrderInv, OrderType
    <3>2. ordered \in Nat /\ Lot \in Nat \ {0} /\ NearlyFull \in 1 .. 100
        BY OrderBounds
    <3> QED
        BY <3>1, <3>2
  <2>3. NearEnough(Filled(placed)) => NearEnough(Filled(placed'))
    <3> DEFINE share == NearlyFull * ordered
               m == Filled(placed)
               n == Filled(placed')
    <3>1. share \in Int /\ m \in Nat /\ n \in Nat /\ m <= n
        BY <1>7, <2>2
    <3>2. /\ NearEnough(m) = (m + Lot >= ordered \/ m * 100 >= share)
          /\ NearEnough(n) = (n + Lot >= ordered \/ n * 100 >= share)
        BY DEF NearEnough
    <3> HIDE DEF share, m, n
    <3>3. /\ m + Lot >= ordered => n + Lot >= ordered
          /\ m * 100 >= share => n * 100 >= share
        BY <2>2, <3>1
    <3>4. NearEnough(m) => NearEnough(n)
        BY <3>2, <3>3
    <3> QED
        BY <3>4 DEF m, n
  <2>4. answer.filled <= Filled(placed') + Len(placed')
    <3> DEFINE m == Filled(placed)
               n == Filled(placed')
    <3>1. m \in Nat /\ n \in Nat /\ m <= n /\ Len(placed') = Len(placed) /\ Len(placed) \in Nat
        BY <1>5, <1>7
    <3>2. answer.filled <= m + Len(placed)
        BY <2>1
    <3> HIDE DEF m, n
    <3>3. answer.filled <= n + Len(placed')
        BY <2>2, <3>1, <3>2
    <3> QED
        BY <3>3 DEF n
  <2> QED
      BY <2>1, <2>3, <2>4
<1> QED
    BY <1>8, <1>9, <1>10, <1>11, <1>12, <1>13, <1>14 DEF OrderInv

LEMMA OrderNext ==
    ASSUME Inv, OrderInv, [Next]_vars
    PROVE  OrderInv'
<1>1. CASE UNCHANGED <<call, pc, orderVars>>
  <2>1. OrderType' /\ EntriesFit' /\ TypeOfCall' /\ NoOrderYet'
      BY <1>1 DEF OrderInv, OrderType, EntriesFit, TypeOfCall, NoOrderYet, orderVars
  <2>2. LastIsCurrent' /\ OncePerAttempt' /\ RefillsAddUp' /\ Reported'
      BY <1>1 DEF OrderInv, LastIsCurrent, Last, OncePerAttempt, RefillsAddUp, Reported, NearEnough, Filled, orderVars
  <2> QED
      BY <2>1, <2>2 DEF OrderInv
<1>2. CASE Begin
    BY <1>2, BeginOrderInv
<1>3. CASE CallReturns
    BY <1>3, CallReturnsOrderInv
<1>4. ASSUME NEW q \in Quantities, NextOrder(q)
      PROVE  OrderInv'
    BY <1>4, NextOrderOrderInv
<1>5. CASE Attempt
  <2>1. CASE PriceOk \/ WaitFails \/ RefetchOk
    <3>1. /\ UNCHANGED <<call, orderVars>> /\ pc \in Attempting
          /\ \/ pc \in {"price", "refetch"} /\ pc' \in Trying
             \/ pc = "wait" /\ pc' = "status"
        BY <2>1 DEF PriceOk, WaitFails, RefetchOk, Trying, Attempting
    <3> QED
        BY <3>1, StepOrderInv DEF Inv, RefetchIsRefill
  <2>2. CASE PlaceOk
      BY <2>2, PlaceOkOrderInv
  <2>3. CASE ResponseLost
      BY <2>3, ResponseLostOrderInv
  <2>4. CASE RefetchFails
      BY <2>4, RefetchFailsOrderInv
  <2>5. CASE WaitFilled
    <3>1. PICK r \in Reports : r.status = "full_fill" /\ \E f \in Read(r.filled) : Returns("Filled", f)
        BY <2>5 DEF WaitFilled
    <3>2. pc = "wait" /\ UNCHANGED <<call, ordered, placed>>
        BY <2>5 DEF WaitFilled
    <3> QED
        BY <3>1, <3>2, ReturnsOrderInv
  <2>6. CASE StatusOk
    <3>1. PICK r \in Reports : \E f \in Read(r.filled) : Returns(ResultStatus(r, call.type), f)
        BY <2>6 DEF StatusOk
    <3>2. pc = "status" /\ UNCHANGED <<call, ordered, placed>>
        BY <2>6 DEF StatusOk
    <3> QED
        BY <3>1, <3>2, ReturnsOrderInv
  <2>7. ASSUME NEW retryable \in BOOLEAN, AttemptFails(retryable) \/ StatusFails(retryable)
        PROVE  OrderInv'
    <3>1. pc \in Attempting /\ Fails(retryable) /\ UNCHANGED <<call, ordered, placed>>
        BY <2>7 DEF AttemptFails, StatusFails, Attempting
    <3> QED
        BY <3>1, SameOrders, FailsOrderInv
  <2> QED
      BY <1>5, <2>1, <2>2, <2>3, <2>4, <2>5, <2>6, <2>7 DEF Attempt
<1>6. ASSUME NEW i \in DOMAIN placed, ExchangeTrades(i)
      PROVE  OrderInv'
    BY <1>6, ExchangeTradesOrderInv
<1>7. CASE StartOrStop \/ TimePasses \/ UNCHANGED vars
    BY <1>1, <1>7 DEF StartOrStop, TimePasses, vars
<1> QED
    BY <1>2, <1>3, <1>4, <1>5, <1>6, <1>7 DEF Next, Proceed

-----------------------------------------------------------------------------
(* The theorems about orders.                                              *)

Flags == active \in BOOLEAN /\ trading \in BOOLEAN

\* The operations remembered of the limiters before.
EarlierType == earlier \in Seq(0 .. Window)

IInv == Inv /\ LimiterInv /\ OrderInv /\ Flags /\ EarlierType

LEMMA InitIInv == Init => IInv
<1> SUFFICES ASSUME Init PROVE IInv
    OBVIOUS
<1>1. Inv /\ LimiterInv
    BY InitInv, LimiterInit
<1>2. /\ ordered = 0 /\ quantity = 0 /\ fills = 0 /\ attempt = 0 /\ placed = <<>>
      /\ pc = "idle" /\ answer = NoAnswer /\ call.kind = "none" /\ unseen = 0
    BY DEF Init, NoCall
<1>3. placed \in Seq(ExchangeOrder) /\ Len(placed) = 0 /\ Filled(placed) = 0
    BY <1>2, NothingFilled
<1>4. OrderType
  <2>1. answer \in [status : Statuses \cup {"none"}, filled : Nat]
      BY <1>2 DEF NoAnswer
  <2>2. attempt \in 0 .. IF call.kind = "refill" THEN MaxRefills ELSE RetryAttempts
      BY <1>2, SenderAssumption
  <2> QED
      BY <1>2, <1>3, <2>1, <2>2 DEF OrderType
<1>5. TypeOfCall /\ NoOrderYet /\ EntriesFit /\ LastIsCurrent
    BY <1>2 DEF TypeOfCall, NoOrderYet, EntriesFit, LastIsCurrent, Attempting
<1>6. OncePerAttempt /\ RefillsAddUp /\ Reported
    BY <1>2, <1>3 DEF OncePerAttempt, RefillsAddUp, Reported, Trying, Attempting
<1>7. Flags /\ EarlierType
  <2>1. earlier = <<>> /\ active \in BOOLEAN /\ trading \in BOOLEAN
      BY DEF Init
  <2>2. <<>> \in Seq(0 .. Window)
    <3> DEFINE Ages == 0 .. Window
    <3> HIDE DEF Ages
    <3>1. <<>> \in Seq(Ages)
        BY EmptySeq
    <3> QED
        BY <3>1 DEF Ages
  <2> QED
      BY <2>1, <2>2 DEF Flags, EarlierType
<1> QED
    BY <1>1, <1>4, <1>5, <1>6, <1>7 DEF IInv, OrderInv

LEMMA FlagsNext ==
    ASSUME Flags, [Next]_vars
    PROVE  Flags'
<1>1. CASE UNCHANGED <<active, trading>>
    BY <1>1 DEF Flags
<1>2. CASE StartOrStop
    BY <1>2 DEF StartOrStop, Flags
<1>3. CASE Begin
    BY <1>1, <1>3 DEF Begin, BeginBatch, BeginRefill
<1>4. CASE Attempt
    BY <1>1, <1>4 DEF Attempt, PriceOk, PlaceOk, ResponseLost, WaitFilled, WaitFails, StatusOk,
                      RefetchOk, RefetchFails, AttemptFails, StatusFails
<1>5. CASE Next /\ ~ StartOrStop /\ ~ Begin /\ ~ Attempt
    BY <1>1, <1>5 DEF Next, Proceed, CallReturns, NextOrder, ExchangeTrades, TimePasses
<1>6. CASE UNCHANGED vars
    BY <1>1, <1>6 DEF vars
<1> QED
    BY <1>2, <1>3, <1>4, <1>5, <1>6

\* Any sequence of ages stays one when time passes or when only its end is kept.
LEMMA LaterAges ==
    ASSUME NEW s \in Seq(0 .. Window)
    PROVE  Live(Aged(s)) \in Seq(0 .. Window)
<1> DEFINE Ages == 0 .. Window
           a == Aged(s)
<1>1. Len(s) \in Nat /\ DOMAIN s = 1 .. Len(s) /\ \A i \in 1 .. Len(s) : s[i] \in Ages
    BY ElementOfSeq, LenProperties
<1>2. a = [i \in 1 .. Len(s) |-> IF s[i] < Window THEN s[i] + 1 ELSE Window]
    BY <1>1 DEF Aged
<1>3. \A i \in 1 .. Len(s) : (IF s[i] < Window THEN s[i] + 1 ELSE Window) \in Ages
    BY <1>1, LimiterAssumption
<1>4. a \in [1 .. Len(s) -> Ages]
    BY <1>2, <1>3
<1> HIDE DEF Ages, a
<1>5. a \in Seq(Ages)
    BY <1>1, <1>4
<1>6. Expired(a) \in 0 .. Len(a) /\ Len(a) \in Nat
  <2>1. a \in Seq(0 .. Window)
      BY <1>5 DEF Ages
  <2> QED
      BY <2>1, ExpiredExists, LenProperties
<1>7. SubSeq(a, Expired(a) + 1, Len(a)) \in Seq(Ages)
  <2>1. Expired(a) + 1 \in 1 .. Len(a) + 1
      BY <1>6
  <2> QED
      BY <1>5, <1>6, <2>1, SubSeqProperties
<1> QED
    BY <1>7 DEF Live, Ages, a

LEMMA LastAges ==
    ASSUME NEW s \in Seq(0 .. Window), NEW n \in Nat
    PROVE  LastOf(s, n) \in Seq(0 .. Window)
<1> DEFINE Ages == 0 .. Window
           first == Len(s) - (IF Len(s) < n THEN Len(s) ELSE n) + 1
<1>1. Len(s) \in Nat
    BY LenProperties
<1>2. first \in 1 .. Len(s) + 1
  <2> DEFINE l == Len(s)
  <2>1. l \in Nat
      BY <1>1
  <2> HIDE DEF l
  <2>2. l - (IF l < n THEN l ELSE n) + 1 \in 1 .. l + 1
    <3>1. CASE l < n
        BY <2>1, <3>1
    <3>2. CASE ~ (l < n)
        BY <2>1, <3>2
    <3> QED
        BY <3>1, <3>2
  <2> QED
      BY <2>2 DEF l
<1>3. s \in Seq(Ages) /\ LastOf(s, n) = SubSeq(s, first, Len(s))
    BY DEF LastOf
<1> HIDE DEF Ages, first
<1>4. SubSeq(s, first, Len(s)) \in Seq(Ages)
    BY <1>1, <1>2, <1>3, SubSeqProperties
<1> QED
    BY <1>3, <1>4 DEF Ages

LEMMA EarlierNext ==
    ASSUME LimiterInv, EarlierType, [Next]_vars
    PROVE  EarlierType'
<1>1. CASE UNCHANGED earlier
    BY <1>1 DEF EarlierType
<1>2. CASE NewLimiter
  <2>1. recent \in Seq(0 .. Window)
    <3> DEFINE Ages == 0 .. Window
    <3>1. recent \in Seq(0 .. Window - 1)
        BY DEF LimiterInv, LimiterType
    <3>2. Len(recent) \in Nat /\ DOMAIN recent = 1 .. Len(recent)
          /\ \A i \in 1 .. Len(recent) : recent[i] \in 0 .. Window - 1
        BY <3>1, ElementOfSeq, LenProperties
    <3>3. \A i \in 1 .. Len(recent) : recent[i] \in Ages
        BY <3>2, LimiterAssumption
    <3>4. recent = [i \in 1 .. Len(recent) |-> recent[i]]
        BY <3>1, <3>2
    <3> HIDE DEF Ages
    <3>5. recent \in [1 .. Len(recent) -> Ages]
        BY <3>3, <3>4
    <3>6. recent \in Seq(Ages)
        BY <3>2, <3>5
    <3> QED
        BY <3>6 DEF Ages
  <2>2. earlier \o recent \in Seq(0 .. Window)
    <3> DEFINE Ages == 0 .. Window
    <3>1. earlier \in Seq(Ages) /\ recent \in Seq(Ages)
        BY <2>1 DEF EarlierType
    <3> HIDE DEF Ages
    <3>2. earlier \o recent \in Seq(Ages)
        BY <3>1, ConcatProperties
    <3> QED
        BY <3>2 DEF Ages
  <2>3. earlier' = LastOf(earlier \o recent, Remembered) /\ Remembered \in Nat
      BY <1>2, LimiterAssumption DEF NewLimiter
  <2>4. LastOf(earlier \o recent, Remembered) \in Seq(0 .. Window)
      BY <2>2, <2>3, LastAges
  <2> QED
      BY <2>3, <2>4 DEF EarlierType
<1>3. CASE Tick
  <2>1. earlier' = Live(Aged(earlier))
      BY <1>3 DEF Tick, Aged
  <2>2. Live(Aged(earlier)) \in Seq(0 .. Window)
      BY LaterAges DEF EarlierType
  <2> QED
      BY <2>1, <2>2 DEF EarlierType
<1>4. [Next]_vars => UNCHANGED earlier \/ NewLimiter \/ Tick
  <2> USE DEF limiterVars
  <2>1. StartOrStop => UNCHANGED earlier
      BY DEF StartOrStop
  <2>2. Begin => UNCHANGED earlier \/ NewLimiter
      BY DEF Begin, BeginBatch, BeginRefill
  <2>3. \A status, filled, n : Answer(status, filled, n) => UNCHANGED earlier
      BY DEF Answer, RecordOperation
  <2>4. \A retryable : Fails(retryable) => UNCHANGED earlier
      BY <2>3 DEF Fails, Retry
  <2>5. \A status, filled : Returns(status, filled) => UNCHANGED earlier
      BY <2>3 DEF Returns
  <2>6. Attempt => UNCHANGED earlier
      BY <2>3, <2>4, <2>5 DEF Attempt, PriceOk, PlaceOk, ResponseLost, WaitFilled, WaitFails, StatusOk,
                              RefetchOk, RefetchFails, AttemptFails, StatusFails
  <2>7. \A q : NextOrder(q) => UNCHANGED earlier
      BY DEF NextOrder, WaitForSlot
  <2>8. CallReturns => NewLimiter
      BY DEF CallReturns
  <2>9. \A i : ExchangeTrades(i) => UNCHANGED earlier
      BY DEF ExchangeTrades
  <2>10. TimePasses => Tick
      BY DEF TimePasses
  <2>11. UNCHANGED vars => UNCHANGED earlier
      BY DEF vars
  <2> QED
      BY <2>1, <2>2, <2>6, <2>7, <2>8, <2>9, <2>10, <2>11 DEF Next, Proceed
<1> QED
    BY <1>1, <1>2, <1>3, <1>4

\* The invariant of the order sender.
THEOREM SenderInvariant == Spec => []IInv
<1>1. IInv /\ [Next]_vars => IInv'
  <2> SUFFICES ASSUME IInv, [Next]_vars PROVE IInv'
      OBVIOUS
  <2>1. Inv' /\ LimiterInv' /\ OrderInv' /\ Flags' /\ EarlierType'
      BY NextInv, LimiterNext, OrderNext, FlagsNext, EarlierNext DEF IInv
  <2> QED
      BY <2>1 DEF IInv
<1> QED
    BY <1>1, InitIInv, PTL DEF Spec

\* Types, attempts and refills within their limits, and the failure counter within
\* what one batch can add to a closed circuit breaker.
THEOREM SenderTypeCorrect == Spec => []SenderTypeOK
<1>1. IInv => SenderTypeOK
  <2> SUFFICES ASSUME IInv PROVE SenderTypeOK
      OBVIOUS
  <2>1. active \in BOOLEAN /\ trading \in BOOLEAN
      BY DEF IInv, Flags
  <2>2. failures \in 0 .. MaxFailures - 1 + 2 * MaxBatch /\ failedRun \in Nat
      BY SenderAssumption DEF IInv, Inv, BreakerType, FailuresBounded
  <2>3. /\ call \in [kind : {"none", "orders", "ioc", "refill"},
                     type : {"none", "limit", "market", "ioc"}, left : 0 .. MaxBatch]
        /\ pc \in {"idle", "next", "price", "place", "wait", "status", "refetch", "answered"}
      BY DEF IInv, Inv, BreakerType, Attempting
  <2>4. /\ ordered \in {0} \cup Quantities
        /\ attempt \in 0 .. IF call.kind = "refill" THEN MaxRefills ELSE RetryAttempts
        /\ quantity \in 0 .. ordered /\ fills \in 0 .. ordered
        /\ answer \in [status : Statuses \cup {"none"}, filled : Nat]
        /\ placed \in Seq(ExchangeOrder) /\ unseen \in Nat
      BY DEF IInv, OrderInv, OrderType
  <2>5. /\ timestamps \in Seq(0 .. Window) /\ recent \in Seq(0 .. Window - 1)
        /\ Len(timestamps) <= RateLimit /\ earlier \in Seq(0 .. Window)
      BY DEF IInv, LimiterInv, LimiterType, EarlierType
  <2> QED
      BY <2>1, <2>2, <2>3, <2>4, <2>5 DEF SenderTypeOK
<1> QED
    BY <1>1, SenderInvariant, PTL

\* No fill is reported that the exchange did not make, but for what reading each one
\* can be wrong by, nor more than was ordered, but for a step of rounding; and what is
\* reported as filled lacks no more than such a step, or than a fill of unknown
\* status may, whatever is retried, lost, late or refilled.
THEOREM ReportsExecuted == Spec => []ReportedFillsExecuted
<1>1. IInv => ReportedFillsExecuted
    BY DEF IInv, OrderInv, Reported, ReportedFillsExecuted, Executed, Filled, NearEnough
<1> QED
    BY <1>1, SenderInvariant, PTL

LEMMA ExposedWithinAttempts ==
    ASSUME Inv, OrderInv
    PROVE  ExposureBounded
<1> DEFINE size == ordered + Lot
           out == Outstanding(placed)
<1>1. Exposed = out
    BY DEF Exposed, Outstanding
<1>2. /\ out \in Int
      /\ out <= Len(placed) * size
      /\ (\A i \in DOMAIN placed : ~ placed[i].open) => out = Filled(placed)
  <2>1. placed \in Seq(ExchangeOrder) /\ size \in Nat
      BY OrderBounds
  <2>2. \A i \in DOMAIN placed : placed[i].quantity <= size /\ placed[i].filled <= placed[i].quantity
    <3> SUFFICES ASSUME NEW i \in DOMAIN placed
                 PROVE  placed[i].quantity <= size /\ placed[i].filled <= placed[i].quantity
        OBVIOUS
    <3>1. placed[i].quantity + 1 <= size /\ placed[i].filled <= placed[i].quantity
        BY DEF OrderInv, EntriesFit
    <3>2. placed[i].quantity \in Nat
        BY OrderBounds
    <3> QED
        BY <2>1, <3>1, <3>2
  <2> HIDE DEF size
  <2> QED
      BY <2>1, <2>2, OutstandingBounded
<1>3. /\ size \in Nat /\ Len(placed) \in Nat /\ attempt \in Nat /\ RetryAttempts \in Nat
      /\ Filled(placed) \in Nat /\ unseen \in Nat
    BY OrderBounds
<1>4. ExposureBounded = (out <= size * (IF call.kind = "orders" THEN RetryAttempts ELSE 1) + unseen)
    BY <1>1 DEF ExposureBounded
<1>5. size = ordered + Lot
    OBVIOUS
<1> HIDE DEF size, out
<1>6. ASSUME NEW n \in Nat, Len(placed) <= n
      PROVE  out <= size * n + unseen
  <2> DEFINE all == Len(placed) * size
             most == size * n
  <2>1. all <= most
      BY <1>3, <1>6
  <2>2. all \in Int /\ most \in Int
      BY <1>3
  <2>3. out <= Len(placed) * size /\ out \in Int /\ unseen \in Nat
      BY <1>2, <1>3
  <2>4. out <= all
      BY <2>3
  <2> HIDE DEF all, most
  <2>5. out <= most + unseen
      BY <2>1, <2>2, <2>3, <2>4
  <2> QED
      BY <2>5 DEF most
<1>7. CASE call.kind = "orders"
  <2>1. Len(placed) <= attempt /\ attempt <= RetryAttempts
      BY <1>7 DEF OrderInv, OncePerAttempt, OrderType
  <2>2. Len(placed) <= RetryAttempts
      BY <1>3, <2>1
  <2> QED
      BY <1>3, <1>4, <1>6, <1>7, <2>2
<1>8. CASE call.kind = "refill"
  <2>1. \A i \in DOMAIN placed : ~ placed[i].open
      BY <1>8 DEF OrderInv, TypeOfCall, EntriesFit
  <2>2. Filled(placed) <= size + unseen
      BY <1>8, <1>5 DEF OrderInv, RefillsAddUp
  <2>3. out <= size * 1 + unseen
      BY <1>2, <1>3, <2>1, <2>2
  <2> QED
      BY <1>4, <1>8, <2>3
<1>9. CASE call.kind \in {"ioc", "none"}
  <2>1. Len(placed) <= attempt /\ attempt <= 1
      BY <1>9 DEF OrderInv, OncePerAttempt
  <2>2. 1 \in Nat /\ Len(placed) <= 1
      BY <1>3, <2>1
  <2>3. out <= size * 1 + unseen
      BY <1>6, <2>2
  <2> QED
      BY <1>4, <1>9, <2>3
<1> QED
    BY <1>7, <1>8, <1>9 DEF Inv, BreakerType

\* An order comes to no more than its quantity and a step of rounding, once per
\* attempt if attempts are repeated without knowing what became of the one before,
\* and to what the statuses it was refilled after did not show.
THEOREM ExposureKept == Spec => []ExposureBounded
<1>1. IInv => ExposureBounded
    BY ExposedWithinAttempts DEF IInv
<1> QED
    BY <1>1, SenderInvariant, PTL

-----------------------------------------------------------------------------
(* Why calls end.                                                          *)

\* How far an attempt is from its result.
Stage ==
    IF pc = "refetch" THEN 6 ELSE IF pc = "price" THEN 5 ELSE IF pc = "place" THEN 4
    ELSE IF pc = "wait" THEN 3 ELSE 2

AttemptsLeft == (IF call.kind = "refill" THEN MaxRefills ELSE RetryAttempts) - attempt

\* More than all attempts at one order take.
OrderRank == 7 * (RetryAttempts + MaxRefills + 1)

\* A bound on the steps that are left of the call.
Rank == call.left * OrderRank + (IF pc \in Attempting THEN 7 * AttemptsLeft + Stage ELSE 0)

CallAdvances ==
    call # NoCall => IF Proceed THEN call' = NoCall \/ Rank' < Rank ELSE UNCHANGED Rank

LEMMA RankFacts ==
    ASSUME Inv, OrderInv
    PROVE  /\ call.left \in Nat /\ call.left <= MaxBatch
           /\ OrderRank \in Nat /\ call.left * OrderRank \in Nat
           /\ attempt \in Nat /\ AttemptsLeft \in Nat /\ Stage \in 2 .. 6
           /\ Rank \in Nat
<1>1. call.left \in Nat /\ call.left <= MaxBatch
    BY SenderAssumption DEF Inv, BreakerType
<1>2. OrderRank \in Nat
    BY SenderAssumption DEF OrderRank
<1>3. attempt \in Nat /\ AttemptsLeft \in Nat
    BY SenderAssumption DEF OrderInv, OrderType, AttemptsLeft
<1>4. Stage \in 2 .. 6
    BY DEF Stage
<1>5. call.left * OrderRank \in Nat
    BY <1>1, <1>2
<1>6. Rank \in Nat
  <2> DEFINE m == call.left * OrderRank
  <2> HIDE DEF m
  <2>1. m + (IF pc \in Attempting THEN 7 * AttemptsLeft + Stage ELSE 0) \in Nat
      BY <1>3, <1>4, <1>5 DEF m
  <2> QED
      BY <2>1 DEF Rank, m
<1> QED
    BY <1>1, <1>2, <1>3, <1>4, <1>5, <1>6

LEMMA AttemptEnds ==
    ASSUME Inv, OrderInv, pc \in Attempting, pc' = "answered", call' = call
    PROVE  Rank' < Rank
<1> DEFINE m == call.left * OrderRank
<1>1. m \in Nat /\ AttemptsLeft \in Nat /\ Stage \in 2 .. 6
    BY RankFacts
<1>2. Rank = m + (7 * AttemptsLeft + Stage)
    BY DEF Rank
<1>3. Rank' = m
  <2>1. Rank' = m + 0
      BY DEF Rank, Attempting
  <2> QED
      BY <1>1, <2>1
<1> HIDE DEF m
<1> QED
    BY <1>1, <1>2, <1>3

\* Within an order: a later stage of the attempt, or another attempt.
LEMMA AttemptAdvances ==
    ASSUME Inv, OrderInv, pc \in Attempting, pc' \in Attempting, call' = call,
           \/ attempt' = attempt /\ Stage' < Stage
           \/ attempt' = attempt + 1 /\ (pc = "status" \/ Stage' <= 5)
    PROVE  Rank' < Rank
<1> DEFINE m == call.left * OrderRank
<1>1. /\ m \in Nat /\ AttemptsLeft \in Nat /\ Stage \in 2 .. 6 /\ Stage' \in 2 .. 6
      /\ attempt \in Nat /\ (pc = "status" => Stage = 2)
    BY RankFacts DEF Stage
<1>2. Rank = m + (7 * AttemptsLeft + Stage) /\ Rank' = m + (7 * AttemptsLeft' + Stage')
    BY DEF Rank
<1>3. \/ attempt' = attempt /\ AttemptsLeft' = AttemptsLeft
      \/ attempt' = attempt + 1 /\ AttemptsLeft' = AttemptsLeft - 1
    BY <1>1, SenderAssumption DEF AttemptsLeft
<1> HIDE DEF m
<1>4. CASE attempt' = attempt
    BY <1>1, <1>2, <1>3, <1>4
<1>5. CASE attempt' = attempt + 1
    BY <1>1, <1>2, <1>3, <1>5
<1> QED
    BY <1>4, <1>5

LEMMA FailsAdvances ==
    ASSUME Inv, OrderInv, NEW retryable, pc \in Attempting, call' = call, Fails(retryable)
    PROVE  Rank' < Rank
<1>1. CASE Retry
  <2>1. pc' \in {"price", "place"} /\ attempt' = attempt + 1
      BY <1>1 DEF Retry, FirstStep
  <2>2. pc' \in Attempting /\ Stage' <= 5
      BY <2>1 DEF Attempting, Stage
  <2> QED
      BY <2>1, <2>2, AttemptAdvances
<1>2. CASE ~ Retry
  <2>1. pc' = "answered"
      BY <1>2 DEF Fails, Answer
  <2> QED
      BY <2>1, AttemptEnds
<1> QED
    BY <1>1, <1>2

LEMMA ReturnsAdvances ==
    ASSUME Inv, OrderInv, NEW status, NEW filled, pc \in {"wait", "status"}, call' = call,
           Returns(status, filled)
    PROVE  Rank' < Rank
<1>1. pc \in Attempting
    BY DEF Attempting
<1>2. CASE call.kind = "refill" /\ ShouldRefill(status, filled)
  <2>1. pc' = "refetch" /\ attempt' = attempt + 1
      BY <1>2 DEF Returns
  <2>2. pc = "status"
      BY <1>2 DEF OrderInv, TypeOfCall
  <2> QED
      BY <1>1, <2>1, <2>2, AttemptAdvances DEF Attempting
<1>3. CASE ~ (call.kind = "refill" /\ ShouldRefill(status, filled))
  <2>1. pc' = "answered"
      BY <1>3 DEF Returns, Answer
  <2> QED
      BY <1>1, <2>1, AttemptEnds
<1> QED
    BY <1>2, <1>3

\* The next order takes less than one order may take.
LEMMA NextOrderAdvances ==
    ASSUME Inv, OrderInv, NEW q \in Quantities, NextOrder(q)
    PROVE  Rank' < Rank
<1> DEFINE l == call.left
           m == l * OrderRank
           k == (l - 1) * OrderRank
           r == IF pc' \in Attempting THEN 7 * AttemptsLeft' + Stage' ELSE 0
<1>1. /\ pc \in {"next", "answered"} /\ l > 0
      /\ call' = [call EXCEPT !.left = l - 1]
      /\ attempt' = IF call.kind = "refill" THEN 0 ELSE 1
      /\ pc' \in {"answered", "price", "place"}
    BY DEF NextOrder, FirstStep
<1>2. call'.kind = call.kind /\ call'.left = l - 1
    BY <1>1 DEF Inv, BreakerType
<1>3. l \in Nat \ {0} /\ OrderRank \in Nat /\ m \in Nat /\ k \in Nat /\ m = k + OrderRank
  <2>1. l \in Nat \ {0} /\ OrderRank \in Nat /\ m \in Nat
      BY <1>1, RankFacts
  <2> HIDE DEF l
  <2>2. k \in Nat /\ m = k + OrderRank
      BY <2>1
  <2> QED
      BY <2>1, <2>2
<1>4. Rank = m
  <2>1. Rank = m + 0
      BY <1>1 DEF Rank, Attempting
  <2> QED
      BY <1>3, <2>1
<1>5. Rank' = k + r
    BY <1>2 DEF Rank, OrderRank
<1>6. r \in Nat /\ r < OrderRank
  <2>1. AttemptsLeft' \in 0 .. RetryAttempts + MaxRefills
      BY <1>1, <1>2, SenderAssumption DEF AttemptsLeft
  <2>2. Stage' \in 2 .. 5
      BY <1>1 DEF Stage
  <2>3. OrderRank = 7 * (RetryAttempts + MaxRefills) + 7 /\ RetryAttempts + MaxRefills \in Nat
      BY SenderAssumption DEF OrderRank
  <2> DEFINE n == RetryAttempts + MaxRefills
             a == AttemptsLeft'
             s == Stage'
  <2>4. n \in Nat /\ a \in 0 .. n /\ s \in 2 .. 5 /\ OrderRank = 7 * n + 7
      BY <2>1, <2>2, <2>3
  <2>5. r = 7 * a + s \/ r = 0
      OBVIOUS
  <2> HIDE DEF n, a, s, r
  <2> QED
      BY <2>4, <2>5
<1> HIDE DEF m, k, r
<1> QED
    BY <1>3, <1>4, <1>5, <1>6

LEMMA StepAdvances ==
    ASSUME Inv, OrderInv, [Next]_vars
    PROVE  CallAdvances
<1> SUFFICES ASSUME call # NoCall
             PROVE  IF Proceed THEN call' = NoCall \/ Rank' < Rank ELSE UNCHANGED Rank
    BY DEF CallAdvances
<1>1. CASE CallReturns
    BY <1>1 DEF CallReturns, Proceed
<1>2. ASSUME NEW q \in Quantities, NextOrder(q)
      PROVE  Rank' < Rank
    BY <1>2, NextOrderAdvances
<1>3. ASSUME Attempt
      PROVE  Rank' < Rank
  <2>1. CASE PriceOk \/ PlaceOk \/ WaitFails \/ RefetchOk
    <3>1. /\ pc \in Attempting /\ pc' \in Attempting /\ UNCHANGED <<call, attempt>>
          /\ Stage' < Stage
        BY <2>1 DEF PriceOk, PlaceOk, WaitFails, RefetchOk, Attempting, Stage, orderVars
    <3> QED
        BY <3>1, AttemptAdvances
  <2>2. CASE ResponseLost
    <3>1. Fails(TRUE) /\ pc \in Attempting /\ call' = call
        BY <2>2 DEF ResponseLost, Attempting
    <3> QED
        BY <3>1, FailsAdvances
  <2>3. CASE WaitFilled
      BY <2>3, ReturnsAdvances DEF WaitFilled
  <2>4. CASE StatusOk
      BY <2>4, ReturnsAdvances DEF StatusOk
  <2>5. CASE RefetchFails
      BY <2>5, AttemptEnds DEF RefetchFails, Answer, Attempting
  <2>6. ASSUME NEW retryable \in BOOLEAN, AttemptFails(retryable) \/ StatusFails(retryable)
        PROVE  Rank' < Rank
      BY <2>6, FailsAdvances DEF AttemptFails, StatusFails, Attempting
  <2> QED
      BY <1>3, <2>1, <2>2, <2>3, <2>4, <2>5, <2>6 DEF Attempt
<1>4. CASE ~ Proceed
  <2>1. UNCHANGED <<call, pc, attempt>>
      BY <1>4 DEF Next, Begin, BeginBatch, BeginRefill, StartOrStop, ExchangeTrades, TimePasses,
                  vars, orderVars
  <2>2. UNCHANGED Rank
      BY <2>1 DEF Rank, AttemptsLeft, Stage, OrderRank
  <2> QED
      BY <1>4, <2>2
<1> QED
    BY <1>1, <1>2, <1>3, <1>4 DEF Proceed

\* No call goes on for ever: each step that the sender takes brings it nearer to its
\* end, of which it is at first no further away than MaxBatch orders, and nothing
\* else takes it away from it again.
THEOREM CallsAdvance ==
    Spec => [](Rank \in Nat) /\ [][CallAdvances]_vars
<1>1. IInv => Rank \in Nat
    BY RankFacts DEF IInv
<1>2. IInv /\ [Next]_vars => CallAdvances
    BY StepAdvances DEF IInv
<1> QED
    BY <1>1, <1>2, SenderInvariant, PTL DEF Spec

=============================================================================
