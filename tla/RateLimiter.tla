----------------------------- MODULE RateLimiter -----------------------------
(***************************************************************************)
(* The sliding window rate limiter of the order sender.  An Instant is     *)
(* represented by its age, in units of which Window make the window; an    *)
(* age of Window or more is expired.                                       *)
(***************************************************************************)
EXTENDS Naturals, Sequences

CONSTANTS
    RateLimit,   \* operations allowed within the window
    Window,      \* duration of the window
    Remembered   \* bound: operations of earlier limiters that `earlier` remembers

ASSUME LimiterAssumption ==
    RateLimit \in Nat \ {0} /\ Window \in Nat \ {0} /\ Remembered \in Nat

VARIABLES
    timestamps,   \* ages of the operations recorded, the oldest first
    recent,       \* ages of the operations begun within the window under this limiter
    earlier       \* ages of those begun under the limiters before, the oldest first;
                  \* like recent, for the properties only

limiterVars == <<timestamps, recent, earlier>>

\* How many operations at the front have left the window.
Expired(s) ==
    CHOOSE n \in 0 .. Len(s) :
        /\ \A i \in 1 .. n : s[i] >= Window
        /\ n < Len(s) => s[n + 1] < Window

\* cleanup_old_timestamps(): the front is taken away while it is expired.
Live(s) == SubSeq(s, Expired(s) + 1, Len(s))

LastOf(s, n) == SubSeq(s, Len(s) - (IF Len(s) < n THEN Len(s) ELSE n) + 1, Len(s))

\* A limiter knows nothing of the operations under the one before it.
NewLimiter ==
    /\ timestamps' = <<>>
    /\ recent' = <<>>
    /\ earlier' = LastOf(earlier \o recent, Remembered)

\* Mutant: the sleep ends although the oldest operation has not expired.
WaitForSlotShort ==
    /\ \/ Len(Live(timestamps)) < RateLimit
       \/ timestamps # <<>> /\ Head(timestamps) >= Window - 1
    /\ timestamps' = Live(timestamps)
    /\ recent' = Append(recent, 0)
    /\ UNCHANGED earlier

\* wait_for_slot() returns: at capacity it sleeps until the oldest operation
\* has left the window.  The caller begins its operation.
WaitForSlot ==
    /\ Len(Live(timestamps)) < RateLimit
    /\ timestamps' = Live(timestamps)
    /\ recent' = Append(recent, 0)
    /\ UNCHANGED earlier

\* record_operation(): called when the operation is complete.
RecordOperation ==
    LET s == Append(timestamps, 0) IN
    /\ timestamps' = IF Len(s) > RateLimit THEN Tail(s) ELSE s
    /\ UNCHANGED <<recent, earlier>>

\* Time passes.
Tick ==
    LET Age(s) == [i \in DOMAIN s |-> IF s[i] < Window THEN s[i] + 1 ELSE Window] IN
    /\ Live(timestamps) # <<>> \/ recent # <<>> \/ earlier # <<>>
    /\ timestamps' = Age(timestamps)
    /\ recent' = Live(Age(recent))
    /\ earlier' = Live(Age(earlier))

\* Of the operations under one limiter, a batch, at most RateLimit begin within
\* any window, although each is recorded only when it ends, a window or more
\* after it began.
RateRespectedInBatch == Len(recent) <= RateLimit

\* Of all operations at most RateLimit begin within any window: what the comment
\* on send_ioc_orders_rate_limited() says of the exchange's limit.  The next
\* batch has a limiter of its own, so it is not so.
RateRespected == Len(earlier) + Len(recent) <= RateLimit

==============================================================================
