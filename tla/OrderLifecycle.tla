--------------------------- MODULE OrderLifecycle ---------------------------
(***************************************************************************)
(* What the Keeper promises about an order, without saying how: an order   *)
(* is queued, put into the current batch in order of arrival, dispatched   *)
(* together with everything else in that batch, and gets one outcome,      *)
(* which never changes.  An order never goes back and is never in two      *)
(* places.  KeeperPipeline implements this specification.                  *)
(***************************************************************************)
EXTENDS Integers

CONSTANT MaxOrders   \* bound: how many orders the outside world submits

VARIABLE status      \* where each order stands

Orders == 1 .. MaxOrders

\* ok, failed: the result settle_batch() reports; dropped: the batch was given
\* up; merged: the batch was turned into per-index calls by submit_payload().
Outcomes == {"ok", "failed", "dropped", "merged"}
Status == {"new", "queued", "batched", "inflight"} \cup Outcomes

\* The orders of S, and no others, change, and take status s.
Move(S, s) == status' = [o \in Orders |-> IF o \in S THEN s ELSE status[o]]

Init == status = [o \in Orders |-> "new"]

\* Orders enter, and are collected into the current batch, one by one and in
\* order of arrival.
Submit(o) ==
    /\ status[o] = "new"
    /\ \A p \in 1 .. o - 1 : status[p] # "new"
    /\ Move({o}, "queued")

Collect(o) ==
    /\ status[o] = "queued"
    /\ \A p \in 1 .. o - 1 : status[p] # "queued"
    /\ Move({o}, "batched")

\* The current batch leaves whole.
Dispatch ==
    /\ \E o \in Orders : status[o] = "batched"
    /\ Move({o \in Orders : status[o] = "batched"}, "inflight")

\* Some orders in flight, of one batch or a single one, get their outcome.
Resolve ==
    /\ status' \in [Orders -> Status]
    /\ \E r \in Outcomes : \A o \in Orders :
          \/ status'[o] = status[o]
          \/ status[o] = "inflight" /\ status'[o] = r

Next ==
    /\ status' # status
    /\ \/ \E o \in Orders : Submit(o)
       \/ \E o \in Orders : Collect(o)
       \/ Dispatch
       \/ Resolve

Spec == Init /\ [][Next]_status
=============================================================================
