----------------------- MODULE DeltaRebalancer_proofs ------------------------
(***************************************************************************)
(* First the arithmetic of Amount, for every width of the numbers and      *)
(* every scale.  Then DeltaRebalancer, for any assets, demands, prices and *)
(* configurations: what the chain does not show yet is marked as changed,  *)
(* what a submission brings to the chain is the supply recorded at that    *)
(* moment, and the orders of a cycle stay within the exposure.             *)
(***************************************************************************)
EXTENDS DeltaRebalancer, Foundations

-----------------------------------------------------------------------------
(* Integer arithmetic.                                                     *)

\* A product of natural numbers grows with each factor.
LEMMA ProductMonotone ==
    ASSUME NEW a \in Nat, NEW b \in Nat, NEW c \in Nat, NEW d \in Nat, a <= c, b <= d
    PROVE  a * b \in Nat /\ a * b <= c * d
<1>1. a * b \in Nat /\ c * b \in Nat /\ (c - a) * b \in Nat /\ c * (d - b) \in Nat
    BY SMT
<1>2. c * b = a * b + (c - a) * b
    BY SMT
<1>3. c * d = c * b + c * (d - b)
    BY SMT
<1>4. QED
    BY <1>1, <1>2, <1>3

\* Division rounds down.
LEMMA DivisionRounds ==
    ASSUME NEW n \in Nat, NEW d \in Nat \ {0}
    PROVE  /\ n \div d \in Nat
           /\ d * (n \div d) <= n
           /\ n < d * (n \div d) + d
    BY SMT

\* A number that is at most d * q, divided by d, is at most q.
LEMMA DivisionBelow ==
    ASSUME NEW n \in Nat, NEW d \in Nat \ {0}, NEW q \in Nat, n <= d * q
    PROVE  n \div d <= q
<1>1. n \div d \in Nat /\ d * (n \div d) <= n
    BY DivisionRounds
<1>2. SUFFICES ASSUME q + 1 <= n \div d
               PROVE  FALSE
    BY <1>1
<1>3. d * (q + 1) <= d * (n \div d)
    BY <1>1, <1>2, ProductMonotone
<1>4. d * (q + 1) = d * q + d /\ d * q \in Nat
    BY SMT
<1>5. QED
    BY <1>1, <1>3, <1>4

\* A number that is at least d * q, divided by d, is at least q.
LEMMA DivisionAbove ==
    ASSUME NEW n \in Nat, NEW d \in Nat \ {0}, NEW q \in Nat, d * q <= n
    PROVE  q <= n \div d
<1>1. n \div d \in Nat /\ n < d * (n \div d) + d
    BY DivisionRounds
<1>2. SUFFICES ASSUME n \div d + 1 <= q
               PROVE  FALSE
    BY <1>1
<1>3. d * (n \div d + 1) <= d * q
    BY <1>1, <1>2, ProductMonotone
<1>4. d * (n \div d + 1) = d * (n \div d) + d /\ d * (n \div d) \in Nat /\ d * q \in Nat
    BY <1>1, SMT
<1>5. QED
    BY <1>1, <1>3, <1>4

\* Dividing a larger number gives no less.
LEMMA DivisionMonotone ==
    ASSUME NEW m \in Nat, NEW n \in Nat, NEW d \in Nat \ {0}, m <= n
    PROVE  m \div d <= n \div d
<1>1. m \div d \in Nat /\ d * (m \div d) <= m /\ d * (m \div d) \in Nat
    BY DivisionRounds, SMT
<1>2. d * (m \div d) <= n
    BY <1>1
<1>3. QED
    BY <1>1, <1>2, DivisionAbove

-----------------------------------------------------------------------------
(* The widths.                                                             *)

\* The product of two numbers below Limit does not wrap.
LEMMA ProductsFit ==
    ASSUME NEW a \in Nat, NEW b \in Nat, a < Limit, b < Limit
    PROVE  a * b \in Nat /\ Wrap(a * b) = a * b
<1>1. Limit - 1 \in Nat /\ a <= Limit - 1 /\ b <= Limit - 1 /\ Limit \in Nat /\ 2 <= Limit
    BY AmountAssumption
<1>2. a * b \in Nat /\ a * b <= (Limit - 1) * (Limit - 1)
    BY <1>1, ProductMonotone
<1>3. (Limit - 1) * (Limit - 1) = Limit * Limit - Limit - Limit + 1
    BY <1>1, SMT
<1>4. Limit * Limit \in Nat
    BY <1>1, SMT
<1>5. a * b < Limit * Limit
    BY <1>1, <1>2, <1>3, <1>4
<1>6. QED
    BY <1>2, <1>4, <1>5 DEF Wrap

\* Twice the limit does not exceed the width of the computation.
LEMMA WidthsApart == Limit * Limit \in Nat /\ 2 * Limit <= Limit * Limit
<1>1. Limit \in Nat /\ 2 <= Limit
    BY AmountAssumption
<1>2. QED
    BY <1>1, ProductMonotone

-----------------------------------------------------------------------------
(* Sums and differences.                                                   *)

\* A sum is exact, or None when no u128 holds it.
THEOREM AddExact ==
    ASSUME NEW a \in Amount, NEW b \in Amount
    PROVE  CheckedAdd(a, b) = IF a + b \in Amount THEN a + b ELSE None
<1>1. a \in Nat /\ b \in Nat /\ a < Limit /\ b < Limit /\ Limit \in Nat
    BY AmountAssumption DEF Amount
<1>2. a + b < Limit * Limit /\ Limit * Limit \in Nat
    BY <1>1, WidthsApart
<1>3. Wrap(a + b) = a + b
    BY <1>1, <1>2 DEF Wrap
<1>4. QED
    BY <1>1, <1>3 DEF CheckedAdd, Fit, Amount

\* A difference is exact, or None when it is below zero: what the subtraction in
\* 256 bits wraps to is never taken for an amount.
THEOREM SubExact ==
    ASSUME NEW a \in Amount, NEW b \in Amount
    PROVE  CheckedSub(a, b) = IF b <= a THEN a - b ELSE None
<1>1. a \in Nat /\ b \in Nat /\ a < Limit /\ b < Limit /\ Limit \in Nat
    BY AmountAssumption DEF Amount
<1>2. Limit * Limit \in Nat /\ 2 * Limit <= Limit * Limit
    BY WidthsApart
<1>3. CASE b <= a
    <2>1. a - b \in Nat /\ a - b < Limit /\ a - b < Limit * Limit
        BY <1>1, <1>2, <1>3
    <2>2. Wrap(a - b) = a - b
        BY <1>2, <2>1 DEF Wrap
    <2>3. QED
        BY <1>3, <2>1, <2>2 DEF CheckedSub, Fit
<1>4. CASE a < b
    <2>1. Wrap(a - b) = Limit * Limit + a - b
        BY <1>1, <1>2, <1>4 DEF Wrap
    <2>2. ~ (Limit * Limit + a - b < Limit)
        BY <1>1, <1>2
    <2>3. QED
        BY <1>1, <1>4, <2>1, <2>2 DEF CheckedSub, Fit
<1>5. QED
    BY <1>1, <1>3, <1>4

\* The two ways in which the code clips a difference at zero are the same one.
LEMMA SaturatingIsChecked ==
    ASSUME NEW a \in Amount, NEW b \in Amount
    PROVE  /\ SaturatingSub(a, b) \in Amount
           /\ SaturatingSub(a, b) = IF CheckedSub(a, b) = None THEN 0 ELSE CheckedSub(a, b)
<1>1. a \in Nat /\ b \in Nat /\ a < Limit /\ Limit \in Nat
    BY AmountAssumption DEF Amount
<1>2. CheckedSub(a, b) = IF b <= a THEN a - b ELSE None
    BY SubExact
<1>3. QED
    BY <1>1, <1>2 DEF SaturatingSub, Amount, None

-----------------------------------------------------------------------------
(* Products and quotients.                                                 *)

\* A product is the exact one rounded down to a multiple of 1/Scale, or None when
\* no u128 holds it: the 256 bits never wrap.
THEOREM MulRounds ==
    ASSUME NEW a \in Amount, NEW b \in Amount
    PROVE  /\ CheckedMul(a, b) = IF (a * b) \div Scale < Limit THEN (a * b) \div Scale ELSE None
           /\ CheckedMul(a, b) # None =>
                 /\ CheckedMul(a, b) \in Amount
                 /\ Scale * CheckedMul(a, b) <= a * b
                 /\ a * b < Scale * CheckedMul(a, b) + Scale
<1>1. a \in Nat /\ b \in Nat /\ a < Limit /\ b < Limit /\ Limit \in Nat /\ Scale \in Nat \ {0}
    BY AmountAssumption DEF Amount
<1>2. a * b \in Nat /\ Wrap(a * b) = a * b
    BY <1>1, ProductsFit
<1>3. CheckedMul(a, b) = IF (a * b) \div Scale < Limit THEN (a * b) \div Scale ELSE None
    BY <1>2 DEF CheckedMul, Fit
<1>4. /\ (a * b) \div Scale \in Nat
      /\ Scale * ((a * b) \div Scale) <= a * b
      /\ a * b < Scale * ((a * b) \div Scale) + Scale
    BY <1>1, <1>2, DivisionRounds
<1>5. QED
    BY <1>1, <1>3, <1>4 DEF Amount

\* So is a quotient, unless the divisor is zero.
THEOREM DivRounds ==
    ASSUME NEW a \in Amount, NEW b \in Amount, b # 0
    PROVE  /\ CheckedDiv(a, b) = IF (a * Scale) \div b < Limit THEN (a * Scale) \div b ELSE None
           /\ CheckedDiv(a, b) # None =>
                 /\ CheckedDiv(a, b) \in Amount
                 /\ b * CheckedDiv(a, b) <= a * Scale
                 /\ a * Scale < b * CheckedDiv(a, b) + b
<1>1. a \in Nat /\ b \in Nat \ {0} /\ a < Limit /\ Limit \in Nat /\ Scale \in Nat /\ Scale < Limit
    BY AmountAssumption DEF Amount
<1>2. a * Scale \in Nat /\ Wrap(a * Scale) = a * Scale
    BY <1>1, ProductsFit
<1>3. CheckedDiv(a, b) = IF (a * Scale) \div b < Limit THEN (a * Scale) \div b ELSE None
    BY <1>1, <1>2 DEF CheckedDiv, Fit
<1>4. /\ (a * Scale) \div b \in Nat
      /\ b * ((a * Scale) \div b) <= a * Scale
      /\ a * Scale < b * ((a * Scale) \div b) + b
    BY <1>1, <1>2, DivisionRounds
<1>5. QED
    BY <1>1, <1>3, <1>4 DEF Amount

\* The whole part of a quotient is never more than the quotient, and is None only
\* when the quotient is.
LEMMA WholePartBelow ==
    ASSUME NEW a \in Amount, NEW b \in Amount, b # 0, CheckedDiv(a, b) # None
    PROVE  CheckedIdiv(a, b) \in Amount /\ CheckedIdiv(a, b) <= CheckedDiv(a, b)
<1>1. a \in Nat /\ b \in Nat \ {0} /\ a < Limit /\ Limit \in Nat /\ Scale \in Nat /\ Scale < Limit
    BY AmountAssumption DEF Amount
<1>2. a \div b \in Nat /\ b * (a \div b) <= a /\ b * (a \div b) \in Nat
    BY <1>1, DivisionRounds, SMT
<1>3. a \div b < Limit
    <2>1. a <= b * a
        BY <1>1, SMT
    <2>2. QED
        BY <1>1, <1>2, <2>1, DivisionBelow
<1>4. (a \div b) * Scale \in Nat /\ Wrap((a \div b) * Scale) = (a \div b) * Scale
    BY <1>1, <1>2, <1>3, ProductsFit
<1>5. b * ((a \div b) * Scale) <= a * Scale /\ a * Scale \in Nat
    <2>1. (b * (a \div b)) * Scale <= a * Scale /\ a * Scale \in Nat
        BY <1>1, <1>2, ProductMonotone
    <2>2. (b * (a \div b)) * Scale = b * ((a \div b) * Scale)
        BY <1>1, <1>2, SMT
    <2>3. QED
        BY <2>1, <2>2
<1>6. (a \div b) * Scale <= (a * Scale) \div b
    BY <1>1, <1>4, <1>5, DivisionAbove
<1>7. CheckedDiv(a, b) = (a * Scale) \div b /\ CheckedDiv(a, b) \in Amount
    BY DivRounds
<1>8. CheckedIdiv(a, b) = (a \div b) * Scale
    BY <1>1, <1>4, <1>6, <1>7 DEF CheckedIdiv, Fit, Amount
<1>9. QED
    BY <1>1, <1>4, <1>6, <1>7, <1>8 DEF Amount

\* What an amount of money buys never costs more than it: neither the division
\* that gives the quantity nor the product that prices it rounds up.
THEOREM BoughtCostsNoMore ==
    ASSUME NEW usd \in Amount, NEW p \in Amount, p # 0,
           CheckedDiv(usd, p) # None
    PROVE  /\ CheckedMul(CheckedDiv(usd, p), p) \in Amount
           /\ CheckedMul(CheckedDiv(usd, p), p) <= usd
<1> DEFINE q == CheckedDiv(usd, p)
<1>1. q \in Amount /\ p * q <= usd * Scale
    BY DivRounds
<1>2. /\ q \in Nat /\ p \in Nat /\ usd \in Nat /\ usd < Limit
      /\ Limit \in Nat /\ Scale \in Nat \ {0}
    BY <1>1, AmountAssumption DEF Amount
<1>3. q * p \in Nat /\ q * p <= Scale * usd
    BY <1>1, <1>2, SMT
<1>4. (q * p) \div Scale \in Nat /\ (q * p) \div Scale <= usd
    BY <1>2, <1>3, DivisionBelow, DivisionRounds
<1>5. CheckedMul(q, p) = (q * p) \div Scale
    BY <1>1, <1>2, <1>4, MulRounds
<1>6. QED
    BY <1>2, <1>4, <1>5 DEF Amount

\* create_order() of the rebalancer: whatever the wish in USD, the quantity
\* ordered is at most the margin's, so that its value at the price of the margin
\* is within the exposure the margin was made from, though the price the order is
\* made with may be another, and through three roundings.  If what the margin is
\* worth does not fit, the order is not capped, and need not be.
THEOREM OrderWithinExposure ==
    ASSUME NEW exposure \in Amount,
           NEW before \in Amount, before # 0, CheckedDiv(exposure, before) # None,
           NEW now \in Amount, now # 0,
           NEW usd \in Amount,
           \/ usd <= CheckedMul(CheckedDiv(exposure, before), now)
           \/ CheckedMul(CheckedDiv(exposure, before), now) = None
    PROVE  /\ CheckedDiv(usd, now) \in Amount
           /\ CheckedDiv(usd, now) <= CheckedDiv(exposure, before)
           /\ before * CheckedDiv(usd, now) <= exposure * Scale
<1> DEFINE margin == CheckedDiv(exposure, before)
<1> DEFINE quantity == (usd * Scale) \div now
<1>1. margin \in Amount /\ before * margin <= exposure * Scale
    BY DivRounds
<1>2. /\ margin \in Nat /\ margin < Limit /\ now \in Nat \ {0} /\ before \in Nat
      /\ usd \in Nat /\ usd < Limit
      /\ exposure \in Nat /\ Limit \in Nat /\ Scale \in Nat \ {0}
    BY <1>1, AmountAssumption DEF Amount
<1>3. margin * now \in Nat /\ (margin * now) \div Scale \in Nat
    BY <1>2, DivisionRounds
<1>4. Scale * ((margin * now) \div Scale) <= margin * now
    BY <1>2, <1>3, DivisionRounds
<1>5. usd <= (margin * now) \div Scale
  <2> HIDE DEF margin
  <2>1. CheckedMul(margin, now) =
            IF (margin * now) \div Scale < Limit THEN (margin * now) \div Scale ELSE None
      BY <1>1, MulRounds
  <2>2. usd <= CheckedMul(margin, now) \/ CheckedMul(margin, now) = None
      BY DEF margin
  <2>3. None = -1
      BY DEF None
  <2> QED
      BY <1>2, <1>3, <2>1, <2>2, <2>3
<1>6. usd * Scale \in Nat /\ usd * Scale <= now * margin
  <2> HIDE DEF margin
  <2>1. usd * Scale \in Nat /\ usd * Scale <= ((margin * now) \div Scale) * Scale
      BY <1>2, <1>3, <1>5, ProductMonotone
  <2>2. /\ ((margin * now) \div Scale) * Scale = Scale * ((margin * now) \div Scale)
        /\ margin * now = now * margin
        /\ Scale * ((margin * now) \div Scale) \in Int
      BY <1>2, <1>3, SMT
  <2> QED
      BY <1>3, <1>4, <2>1, <2>2
<1>7. quantity \in Nat /\ quantity <= margin
    BY <1>2, <1>6, DivisionBelow, DivisionRounds
<1>8. CheckedDiv(usd, now) = quantity
    BY <1>2, <1>7, DivRounds
<1>9. before * quantity \in Nat /\ before * quantity <= before * margin
    BY <1>2, <1>7, ProductMonotone
<1>10. exposure * Scale \in Int /\ before * margin \in Int
    BY <1>2, SMT
<1>11. before * quantity <= exposure * Scale
    BY <1>1, <1>9, <1>10
<1>12. QED
    BY <1>2, <1>7, <1>8, <1>11 DEF Amount

-----------------------------------------------------------------------------
(* The square root.                                                        *)

\* The product of two numbers is at most the square of their mean.
LEMMA MeansCompared ==
    ASSUME NEW u \in Nat, NEW v \in Nat
    PROVE  4 * (v * u) <= (u + v) * (u + v)
<1>1. /\ (u + v) * (u + v) = u * u + 2 * (v * u) + v * v
      /\ (u - v) * (u - v) = u * u - 2 * (v * u) + v * v
    BY SMT
<1>2. /\ u * u \in Int /\ v * u \in Int /\ v * v \in Int
      /\ (u - v) * (u - v) \in Int /\ 0 <= (u - v) * (u - v)
    BY SMT
<1>3. QED
    BY <1>1, <1>2

\* The loop of sqrt_u256() never falls below the root it looks for, and its
\* value never becomes zero: no division by zero, and no further from the root
\* than where it stops.
THEOREM SqrtStaysAbove ==
    ASSUME NEW n \in Nat \ {0}, NEW x \in Nat \ {0}
    PROVE  /\ SqrtNext(n, x) \in Nat
           /\ n < (SqrtNext(n, x) + 1) * (SqrtNext(n, x) + 1)
           /\ SqrtNext(n, x) # 0
<1> DEFINE q == n \div x
<1> DEFINE s == SqrtNext(n, x)
<1>1. q \in Nat /\ n < x * q + x /\ x * q \in Nat
    BY DivisionRounds, SMT
<1>2. s \in Nat /\ q + x + 1 <= 2 * (s + 1)
    BY <1>1, DivisionRounds DEF SqrtNext
<1>3. x * (q + 1) = x * q + x /\ x * (q + 1) \in Nat
    BY <1>1, SMT
<1>4. 4 * (x * (q + 1)) <= (q + 1 + x) * (q + 1 + x)
    BY <1>1, MeansCompared
<1>5. (q + 1 + x) * (q + 1 + x) <= (2 * (s + 1)) * (2 * (s + 1))
    BY <1>1, <1>2, ProductMonotone
<1>6. (2 * (s + 1)) * (2 * (s + 1)) = 4 * ((s + 1) * (s + 1)) /\ (s + 1) * (s + 1) \in Nat
    BY <1>2, SMT
<1>7. (q + 1 + x) * (q + 1 + x) \in Nat
    BY <1>1, SMT
<1>8. n < (s + 1) * (s + 1)
    BY <1>1, <1>3, <1>4, <1>5, <1>6, <1>7
<1>9. s # 0
    BY <1>8
<1>10. QED
    BY <1>2, <1>8, <1>9

\* Where the loop stops, it stands at the root, rounded down: it starts at n and
\* then only moves to values that stay above the root.
THEOREM SqrtExact ==
    ASSUME NEW n \in Nat \ {0}, NEW x \in Nat \ {0},
           n < (x + 1) * (x + 1), SqrtDone(n, x)
    PROVE  x * x <= n /\ n < (x + 1) * (x + 1)
<1> DEFINE q == n \div x
<1>1. q \in Nat /\ x * q <= n /\ x * q \in Nat
    BY DivisionRounds, SMT
<1>2. x <= (q + x) \div 2 /\ (q + x) \div 2 \in Nat
    BY <1>1, DivisionRounds DEF SqrtDone, SqrtNext
<1>3. 2 * ((q + x) \div 2) <= q + x
    BY <1>1, DivisionRounds
<1>4. x <= q
    BY <1>1, <1>2, <1>3
<1>5. x * x <= x * q /\ x * x \in Nat
    BY <1>1, <1>4, ProductMonotone
<1>6. QED
    BY <1>1, <1>5

-----------------------------------------------------------------------------
(* The inductive invariant of the rebalancer.                              *)

Position == [long : Nat, short : Nat]

Submitting == {"submit", "applied", "reverted"}

\* What the submission in progress reports is still what is recorded, although
\* it was read before the submission, and nothing has been marked meanwhile.
PayloadCurrent == pc \in Submitting => payload = Payload(supply) /\ dirty

\* While the receipt of a transaction that succeeded is awaited, the chain shows
\* what it reported, or what others did.
AppliedShown ==
    pc = "applied" => \A a \in DOMAIN payload : a \in foreign \/ chain[a] = Reported(supply[a])

\* What a transaction given up may still bring to the chain is marked as changed:
\* no submission is confirmed before the transaction is out of the way.
PendingMarked ==
    pending # Nothing =>
        /\ pc \notin {"applied", "reverted"}
        /\ dirty
        /\ \A a \in DOMAIN pending : HasChanged(supply[a], submitted)

\* Before the first submission that was confirmed, has_changed() only compares
\* with zero; this is enough because a supply never returns to zero, even if a
\* submission whose receipt was lost has reached the chain.
NotZeroAgain ==
    ~ submitted =>
        \A a \in Assets \ foreign :
            chain[a] # Reported(NewSupply) => Reported(supply[a]) # Reported(NewSupply)

Bookkeeping ==
    PayloadCurrent /\ AppliedShown /\ PendingMarked /\ NotZeroAgain /\ ChangedUntilSubmitted

\* The margins are calculated when the orders of the cycle before are gone.
OrdersGone == pc \in {"idle", "margins", "decide"} => orders = {}

Inv == RebalancerTypeOK /\ Bookkeeping /\ OrdersGone

-----------------------------------------------------------------------------
(* The operators of Supply.                                                *)

\* Recording a fill gives a supply that is marked as changed.
LEMMA RecordType ==
    ASSUME NEW s \in AssetSupply, NEW side \in Side, NEW q \in Nat
    PROVE  Record(s, side, q) \in AssetSupply /\ Record(s, side, q).changed
<1>1. AddLong(s, q) \in AssetSupply /\ AddLong(s, q).changed
    BY DEF AddLong, SaturatingSub, AssetSupply
<1>2. AddShort(s, q) \in AssetSupply /\ AddShort(s, q).changed
    BY DEF AddShort, SaturatingSub, AssetSupply
<1> QED
    BY <1>1, <1>2 DEF Record

\* The long position less the short one.
Net(s) == s.long - s.short

\* By how much the net position moves for a purchase or a sale of q, against a
\* position of x on the other side: by q exactly when none is there, or one of at
\* least twice q; otherwise by more, up to twice q.
Moved(q, x, change) ==
    /\ change = q <=> (x = 0 \/ 2 * q <= x)
    /\ q <= change /\ change <= 2 * q

\* What add_long() and add_short() record of a trade is never less than the trade,
\* and at most twice as much; it is the trade unless the other side is open and
\* smaller than twice the trade.
THEOREM RecordMoves ==
    ASSUME NEW s \in AssetSupply, NEW q \in Nat
    PROVE  /\ Moved(q, s.short, Net(AddLong(s, q)) - Net(s))
           /\ Moved(q, s.long, Net(s) - Net(AddShort(s, q)))
<1> DEFINE rest(x) == SaturatingSub(x, q)
           more(x) == SaturatingSub(q, rest(x))
<1>1. ASSUME NEW x \in Nat
      PROVE  rest(x) \in Nat /\ more(x) \in Nat /\ Moved(q, x, more(x) + x - rest(x))
  <2>1. CASE q <= x
    <3>1. rest(x) = x - q /\ rest(x) \in Nat
        BY <2>1 DEF SaturatingSub
    <3>2. more(x) = IF 2 * q > x THEN 2 * q - x ELSE 0
        BY <2>1, <3>1 DEF SaturatingSub
    <3> QED
        BY <2>1, <3>1, <3>2 DEF Moved
  <2>2. CASE ~ q <= x
    <3>1. rest(x) = 0 /\ more(x) = q
        BY <2>2 DEF SaturatingSub
    <3> QED
        BY <2>2, <3>1 DEF Moved
  <2> QED
      BY <2>1, <2>2
<1>2. s.long \in Nat /\ s.short \in Nat
    BY DEF AssetSupply
<1>3. /\ AddLong(s, q).long = s.long + more(s.short) /\ AddLong(s, q).short = rest(s.short)
      /\ AddShort(s, q).long = rest(s.long) /\ AddShort(s, q).short = s.short + more(s.long)
    BY DEF AddLong, AddShort
<1> HIDE DEF rest, more
<1>4. Net(AddLong(s, q)) - Net(s) = more(s.short) + s.short - rest(s.short)
    BY <1>1, <1>2, <1>3 DEF Net
<1>5. Net(s) - Net(AddShort(s, q)) = more(s.long) + s.long - rest(s.long)
    BY <1>1, <1>2, <1>3 DEF Net
<1> QED
    BY <1>1, <1>2, <1>4, <1>5

\* Because of how the remainder of a purchase or a sale is netted, a supply that
\* is not zero does not become zero.
LEMMA RecordNotZero ==
    ASSUME NEW s \in AssetSupply, NEW side \in Side, NEW q \in Nat,
           Reported(s) # Reported(NewSupply)
    PROVE  Reported(Record(s, side, q)) # Reported(NewSupply)
<1>1. s.long # 0 \/ s.short # 0
    BY DEF Reported, NewSupply
<1>2. s.long \in Nat /\ s.short \in Nat
    BY DEF AssetSupply
<1>3. AddLong(s, q).long # 0 \/ AddLong(s, q).short # 0
    BY <1>1, <1>2 DEF AddLong, SaturatingSub
<1>4. AddShort(s, q).long # 0 \/ AddShort(s, q).short # 0
    BY <1>1, <1>2 DEF AddShort, SaturatingSub
<1>5. Record(s, side, q).long # 0 \/ Record(s, side, q).short # 0
    BY <1>3, <1>4 DEF Record
<1> QED
    BY <1>5 DEF Reported, NewSupply

\* has_changed() notices every fill that makes a difference to what is reported.
LEMMA RecordNoticed ==
    ASSUME NEW s \in AssetSupply, NEW side \in Side, NEW q \in Nat,
           Reported(Record(s, side, q)) # Reported(NewSupply) \/ submitted
    PROVE  HasChanged(Record(s, side, q), submitted)
<1>1. CASE submitted
    BY <1>1, RecordType DEF HasChanged
<1>2. CASE ~ submitted
    BY <1>2 DEF HasChanged, Reported, NewSupply
<1> QED
    BY <1>1, <1>2

-----------------------------------------------------------------------------
(* The orders of a cycle.                                                  *)

LEMMA DifferenceType ==
    ASSUME RebalancerTypeOK, NEW a \in Assets
    PROVE  Difference(a) \in Nat
<1>1. CountedSupply(a) \in Nat
    BY DEF CountedSupply, NetSupply, SaturatingSub, RebalancerTypeOK, AssetSupply
<1>2. read[a] \in Nat
    BY RebalancerAssumption DEF RebalancerTypeOK
<1> QED
    BY <1>1, <1>2 DEF Difference, SaturatingSub

\* Sizing an order never divides by zero and gives a natural number.
LEMMA NewOrderType ==
    ASSUME RebalancerTypeOK, NEW a \in Ordered
    PROVE  NewOrder(a) \in Order /\ NewOrder(a).asset = a
<1> USE RebalancerAssumption
<1>1. a \in Assets /\ a \in Unbalanced
    BY DEF Ordered, Unbalanced
<1>2. Cardinality(Unbalanced) \in Nat \ {0}
    <2>1. IsFiniteSet(Unbalanced)
        BY FS_Subset DEF Unbalanced
    <2> QED
        BY <2>1, <1>1, FS_CardinalityType, FS_EmptySet
<1>3. price[a] \in Nat \ {0} /\ Exposure \in Nat /\ MinOrder \in Nat \ {0}
    BY <1>1 DEF Ordered, RebalancerTypeOK
<1>4. Difference(a) \in Nat
    BY <1>1, DifferenceType
<1>5. RoundUp(Difference(a) * price[a]) \in Nat
    <2>1. Difference(a) * price[a] \in Nat
        BY <1>3, <1>4
    <2>2. Difference(a) * price[a] + MinOrder - 1 \in Nat
        BY <1>3, <2>1
    <2>3. (Difference(a) * price[a] + MinOrder - 1) \div MinOrder \in Nat
        BY <1>3, <2>2, DivisionRounds
    <2> QED
        BY <1>3, <2>3 DEF RoundUp
<1>6. OrderUsd(a) \in Nat
    <2>1. CASE quoted[a] = 0
        BY <1>5, <2>1 DEF OrderUsd
    <2>2. CASE quoted[a] # 0
        <3>1. quoted[a] \in Nat \ {0}
            BY <1>1, <2>2 DEF Unbalanced, RebalancerTypeOK
        <3>2. MaxQuantity(a) \in Nat
            BY <1>2, <1>3, <3>1, DivisionRounds DEF MaxQuantity
        <3>3. MaxQuantity(a) * price[a] \in Nat
            BY <1>3, <3>2
        <3> QED
            BY <1>5, <3>3 DEF OrderUsd
    <2> QED
        BY <2>1, <2>2
<1>7. OrderUsd(a) \div price[a] \in Nat
    BY <1>3, <1>6, DivisionRounds
<1> QED
    BY <1>1, <1>7 DEF NewOrder, Order, SideOf, Side

\* Counting some of the new orders gives supplies again; each is either as it was
\* or the outcome of recording one order.
LEMMA WithRecordedType ==
    ASSUME RebalancerTypeOK, NEW os \in SUBSET NewOrders
    PROVE  /\ WithRecorded(os) \in [Assets -> AssetSupply]
           /\ \A a \in Assets :
                \/ WithRecorded(os)[a] = supply[a]
                \/ /\ os # {}
                   /\ \E side \in Side, q \in Nat : WithRecorded(os)[a] = Record(supply[a], side, q)
<1>1. ASSUME NEW o \in os PROVE o \in Order
    BY NewOrderType DEF NewOrders
<1>2. ASSUME NEW a \in Assets, \E o \in os : o.asset = a
      PROVE  /\ WithRecorded(os)[a] \in AssetSupply
             /\ \E side \in Side, q \in Nat : WithRecorded(os)[a] = Record(supply[a], side, q)
    <2> DEFINE o == CHOOSE o \in os : o.asset = a
    <2>1. o \in os
        BY <1>2
    <2>2. o.side \in Side /\ o.quantity \in Nat
        BY <1>1, <2>1 DEF Order
    <2>3. WithRecorded(os)[a] = Record(supply[a], o.side, o.quantity)
        BY <1>2 DEF WithRecorded
    <2>4. supply[a] \in AssetSupply
        BY DEF RebalancerTypeOK
    <2> QED
        BY <2>2, <2>3, <2>4, RecordType
<1>3. ASSUME NEW a \in Assets, ~ \E o \in os : o.asset = a
      PROVE  WithRecorded(os)[a] = supply[a] /\ supply[a] \in AssetSupply
    BY <1>3 DEF WithRecorded, RebalancerTypeOK
<1>4. WithRecorded(os) = [a \in Assets |-> WithRecorded(os)[a]]
    BY DEF WithRecorded
<1>5. \A a \in Assets : WithRecorded(os)[a] \in AssetSupply
    BY <1>2, <1>3
<1>6. WithRecorded(os) \in [Assets -> AssetSupply]
    BY <1>4, <1>5
<1> QED
    BY <1>2, <1>3, <1>6

\* Counting keeps what is asked of the supplies, if the state becomes dirty.
LEMMA CountingKeeps ==
    ASSUME Inv, UNCHANGED <<chain, pending, submitted, reverted, foreign>>, dirty' \in BOOLEAN,
           pc' \notin {"applied", "reverted"}, dirty => dirty',
           \A a \in Assets :
                \/ supply'[a] = supply[a]
                \/ dirty' /\ \E side \in Side, q \in Nat : supply'[a] = Record(supply[a], side, q)
    PROVE  AppliedShown' /\ PendingMarked' /\ NotZeroAgain' /\ ChangedUntilSubmitted'
<1> USE DEF Inv, Bookkeeping
<1>1. ASSUME NEW a \in Assets, Reported(supply[a]) # Reported(NewSupply)
      PROVE  Reported(supply'[a]) # Reported(NewSupply)
    BY <1>1, RecordNotZero DEF RebalancerTypeOK
<1>2. ASSUME NEW a \in Assets, NEW side \in Side, NEW q \in Nat,
             supply'[a] = Record(supply[a], side, q),
             submitted \/ Reported(supply'[a]) # Reported(NewSupply)
      PROVE  HasChanged(supply'[a], submitted)
    <2>1. supply[a] \in AssetSupply
        BY DEF RebalancerTypeOK
    <2> QED
        BY <1>2, <2>1, RecordNoticed
<1>3. ASSUME NEW a \in Assets, HasChanged(supply[a], submitted)
      PROVE  HasChanged(supply'[a], submitted)
    <2>1. CASE supply'[a] = supply[a]
        BY <1>3, <2>1
    <2>2. ASSUME NEW side \in Side, NEW q \in Nat, supply'[a] = Record(supply[a], side, q)
          PROVE  HasChanged(supply'[a], submitted)
        <3>1. CASE submitted
            BY <1>2, <2>2, <3>1
        <3>2. CASE ~ submitted
            <4>1. Reported(supply[a]) # Reported(NewSupply)
                BY <1>3, <3>2 DEF HasChanged, Reported, NewSupply
            <4> QED
                BY <1>1, <1>2, <2>2, <4>1
        <3> QED
            BY <3>1, <3>2
    <2> QED
        BY <2>1, <2>2
<1>4. ASSUME NEW a \in Assets, ~ submitted, a \notin foreign, chain[a] # Reported(NewSupply)
      PROVE  Reported(supply'[a]) # Reported(NewSupply)
    BY <1>1, <1>4 DEF NotZeroAgain
<1>5. ASSUME NEW a \in Assets, chain[a] # Reported(supply'[a]), a \notin reverted, a \notin foreign
      PROVE  dirty' /\ HasChanged(supply'[a], submitted)
    <2>1. CASE supply'[a] = supply[a]
        BY <1>5, <2>1 DEF ChangedUntilSubmitted
    <2>2. ASSUME NEW side \in Side, NEW q \in Nat, dirty', supply'[a] = Record(supply[a], side, q)
          PROVE  dirty' /\ HasChanged(supply'[a], submitted)
        <3>1. CASE submitted
            BY <1>2, <2>2, <3>1
        <3>2. CASE ~ submitted
            <4>1. Reported(supply'[a]) # Reported(NewSupply)
                BY <1>4, <1>5, <3>2
            <4> QED
                BY <1>2, <2>2, <4>1
        <3> QED
            BY <3>1, <3>2
    <2> QED
        BY <2>1, <2>2
<1>6. PendingMarked'
    <2>1. DOMAIN pending \subseteq Assets
        BY DEF RebalancerTypeOK
    <2>2. ASSUME pending # Nothing
          PROVE  dirty' /\ \A a \in DOMAIN pending : HasChanged(supply'[a], submitted)
        BY <1>3, <2>1, <2>2 DEF PendingMarked
    <2> QED
        BY <2>2 DEF PendingMarked, Nothing
<1>7. NotZeroAgain'
    BY <1>4 DEF NotZeroAgain
<1>8. ChangedUntilSubmitted'
    BY <1>5 DEF ChangedUntilSubmitted
<1>9. AppliedShown'
    BY DEF AppliedShown
<1> QED
    BY <1>6, <1>7, <1>8, <1>9

-----------------------------------------------------------------------------
(* The steps.                                                              *)

\* Nothing is recorded and nothing submitted.
LEMMA InitInv == Init => Inv
<1> SUFFICES ASSUME Init PROVE Inv
    OBVIOUS
<1>1. NewSupply \in AssetSupply
    BY DEF NewSupply, AssetSupply
<1>2. RebalancerTypeOK
    <2>1. /\ config \in Configs /\ {dirty, submitted, failed} \subseteq BOOLEAN
          /\ price \in [Assets -> Nat] /\ quoted \in [Assets -> Nat]
        BY DEF Init
    <2>2. demand \in [Assets -> Demands] /\ read \in [Assets -> Demands] /\ changes \in 0 .. MaxChanges
        BY RebalancerAssumption DEF Init
    <2>3. supply \in [Assets -> AssetSupply] /\ chain \in [Assets -> [long : Nat, short : Nat]]
        BY <1>1, RebalancerAssumption DEF Init
    <2>4. /\ DOMAIN payload = {} /\ DOMAIN pending = {} /\ orders = {}
          /\ reverted = {} /\ foreign = Assets /\ pc = "idle"
        BY DEF Init, Nothing
    <2> QED
        BY <2>1, <2>2, <2>3, <2>4 DEF RebalancerTypeOK
<1>3. Bookkeeping /\ OrdersGone
    BY DEF Init, Bookkeeping, Submitting, PayloadCurrent, AppliedShown, PendingMarked, NotZeroAgain,
           ChangedUntilSubmitted, OrdersGone
<1> QED
    BY <1>2, <1>3 DEF Inv

\* Steps that touch neither the supply nor the chain.
LEMMA BookkeepingUnchanged ==
    ASSUME Inv, UNCHANGED <<supplyVars, chain, pending, reverted, foreign>>,
           pc' \in Submitting => pc' = pc /\ payload' = payload
    PROVE  Bookkeeping'
<1> USE DEF Inv, Bookkeeping, supplyVars
<1>1. PayloadCurrent'
    BY DEF PayloadCurrent, Payload, Changed
<1>2. AppliedShown' /\ PendingMarked'
    BY DEF AppliedShown, PendingMarked, Submitting, Nothing
<1>3. NotZeroAgain'
    BY DEF NotZeroAgain
<1>4. ChangedUntilSubmitted'
    BY DEF ChangedUntilSubmitted
<1> QED
    BY <1>1, <1>2, <1>3, <1>4

\* Steps of the world that do not touch the chain.
LEMMA WorldInv ==
    ASSUME Inv,
           \/ \E a \in Assets, d \in Demands : DemandChanges(a, d)
           \/ \E a \in Assets : \E p \in Prices[a] : PriceArrives(a, p) \/ PriceMoves(a, p)
    PROVE  Inv'
<1>1. /\ UNCHANGED <<supplyVars, chainVars, cycleVars, config>>
      /\ demand' \in [Assets -> Demands] /\ changes' \in 0 .. MaxChanges
      /\ price' \in [Assets -> Nat]
    <2> USE DEF Inv, RebalancerTypeOK
    <2>1. CASE \E a \in Assets, d \in Demands : DemandChanges(a, d)
        BY <2>1, RebalancerAssumption DEF DemandChanges
    <2>2. ASSUME NEW a \in Assets, NEW p \in Prices[a], PriceArrives(a, p) \/ PriceMoves(a, p)
          PROVE  /\ UNCHANGED <<supplyVars, chainVars, cycleVars, config, demand>>
                 /\ changes' \in 0 .. MaxChanges /\ price' \in [Assets -> Nat]
        <3>1. p \in Nat
            BY RebalancerAssumption
        <3>2. changes' \in 0 .. MaxChanges
            BY <2>2, RebalancerAssumption DEF PriceArrives, PriceMoves
        <3> QED
            BY <2>2, <3>1, <3>2 DEF PriceArrives, PriceMoves
    <2> QED
        BY <2>1, <2>2
<1>2. RebalancerTypeOK'
    BY <1>1 DEF Inv, RebalancerTypeOK, supplyVars, chainVars, cycleVars
<1>3. Bookkeeping'
    BY <1>1, BookkeepingUnchanged DEF chainVars, cycleVars
<1>4. OrdersGone'
    BY <1>1 DEF Inv, OrdersGone, cycleVars
<1> QED
    BY <1>2, <1>3, <1>4 DEF Inv

\* What the chain shows after a report of supplies.
LEMMA AppliedType ==
    ASSUME Inv, NEW f, DOMAIN f \subseteq Assets, \A a \in DOMAIN f : f[a] \in Position
    PROVE  Applied(f) \in [Assets -> Position]
    BY DEF Applied, Inv, RebalancerTypeOK, Position

\* What others report is theirs; it takes the nonce of a transaction given up.
LEMMA OthersInv ==
    ASSUME Inv, NEW S \in SUBSET Assets, NEW r \in Reports, OthersReport(S, r)
    PROVE  Inv'
<1> DEFINE f == [a \in S |-> r]
<1>1. /\ chain' = Applied(f) /\ pending' = Nothing /\ foreign' = foreign \cup S
      /\ UNCHANGED <<worldVars, supplyVars, failed, reverted, cycleVars>>
    BY DEF OthersReport
<1>2. Applied(f) \in [Assets -> Position]
    BY AppliedType, RebalancerAssumption DEF Position
<1>3. \A a \in Assets : chain'[a] = chain[a] \/ a \in foreign'
    BY <1>1 DEF Applied
<1> HIDE DEF f
<1>4. RebalancerTypeOK'
    <2>1. DOMAIN pending' = {}
        BY <1>1 DEF Nothing
    <2> QED
        BY <1>1, <1>2, <2>1 DEF Inv, RebalancerTypeOK, worldVars, supplyVars, cycleVars, Position
<1>5. PayloadCurrent'
    BY <1>1 DEF Inv, Bookkeeping, PayloadCurrent, Payload, Changed, supplyVars, cycleVars
<1>6. AppliedShown'
    <2>1. DOMAIN payload \subseteq Assets
        BY DEF Inv, RebalancerTypeOK
    <2> QED
        BY <1>1, <1>3, <2>1 DEF Inv, Bookkeeping, AppliedShown, supplyVars, cycleVars
<1>7. PendingMarked'
    BY <1>1 DEF PendingMarked, Nothing
<1>8. NotZeroAgain'
    BY <1>1, <1>3 DEF Inv, Bookkeeping, NotZeroAgain, supplyVars
<1>9. ChangedUntilSubmitted'
    BY <1>1, <1>3 DEF Inv, Bookkeeping, ChangedUntilSubmitted, supplyVars
<1>10. OrdersGone'
    BY <1>1 DEF Inv, OrdersGone, cycleVars
<1> QED
    BY <1>4, <1>5, <1>6, <1>7, <1>8, <1>9, <1>10 DEF Inv, Bookkeeping

\* A transaction mined late brings an older supply of assets that are marked.
LEMMA LateInv ==
    ASSUME Inv, LateTransaction
    PROVE  Inv'
<1>1. /\ pending # Nothing /\ pending' = Nothing
      /\ UNCHANGED <<worldVars, supplyVars, failed, reverted, cycleVars>>
      /\ \/ chain' = Applied(pending) /\ foreign' = foreign \ DOMAIN pending
         \/ UNCHANGED <<chain, foreign>>
    BY DEF LateTransaction
<1>2. Applied(pending) \in [Assets -> Position]
    BY AppliedType DEF Inv, RebalancerTypeOK, Position
<1>3. /\ DOMAIN pending \subseteq Assets
      /\ pc \notin {"applied", "reverted"} /\ dirty
      /\ \A a \in DOMAIN pending : HasChanged(supply[a], submitted)
    BY <1>1 DEF Inv, RebalancerTypeOK, Bookkeeping, PendingMarked
<1>4. \A a \in Assets : a \in DOMAIN pending \/ (chain'[a] = chain[a] /\ (a \in foreign => a \in foreign'))
    BY <1>1 DEF Applied
<1>5. RebalancerTypeOK'
    <2>1. DOMAIN pending' = {}
        BY <1>1 DEF Nothing
    <2>2. chain' \in [Assets -> Position] /\ foreign' \subseteq Assets
        BY <1>1, <1>2 DEF Inv, RebalancerTypeOK, Position
    <2> QED
        BY <1>1, <2>1, <2>2 DEF Inv, RebalancerTypeOK, worldVars, supplyVars, cycleVars, Position
<1>6. PayloadCurrent'
    BY <1>1 DEF Inv, Bookkeeping, PayloadCurrent, Payload, Changed, supplyVars, cycleVars
<1>7. AppliedShown'
    BY <1>1, <1>3 DEF AppliedShown, cycleVars
<1>8. PendingMarked'
    BY <1>1 DEF PendingMarked, Nothing
<1>9. NotZeroAgain'
    <2>1. \A a \in DOMAIN pending : ~ submitted => Reported(supply[a]) # Reported(NewSupply)
        BY <1>3 DEF HasChanged, Reported, NewSupply
    <2> QED
        BY <1>1, <1>4, <2>1 DEF Inv, Bookkeeping, NotZeroAgain, supplyVars
<1>10. ChangedUntilSubmitted'
    <2>1. UNCHANGED <<supply, dirty, submitted, reverted>>
        BY <1>1 DEF supplyVars
    <2> QED
        BY <1>3, <1>4, <2>1 DEF Inv, Bookkeeping, ChangedUntilSubmitted
<1>11. OrdersGone'
    BY <1>1 DEF Inv, OrdersGone, cycleVars
<1> QED
    BY <1>5, <1>6, <1>7, <1>8, <1>9, <1>10, <1>11 DEF Inv, Bookkeeping

\* Steps of a cycle that neither count nor submit.
LEMMA QuietInv ==
    ASSUME Inv,
           \/ FetchDemand \/ CalculateMargins \/ NothingToDo \/ CycleEnds
           \/ \E o \in orders : OrderFails(o) \/ FillUnknown(o)
    PROVE  Inv'
<1>1. /\ UNCHANGED <<worldVars, supplyVars, chainVars, payload>>
      /\ read' \in [Assets -> Demands] /\ quoted' \in [Assets -> Nat] /\ orders' \subseteq orders
      /\ pc' \in {"idle", "margins", "decide", "execute"}
      /\ pc' \in {"idle", "margins", "decide"} => orders' = {}
    BY DEF Inv, OrdersGone, RebalancerTypeOK, FetchDemand, CalculateMargins, NothingToDo, CycleEnds,
           OrderFails, FillUnknown
<1>2. RebalancerTypeOK'
    BY <1>1 DEF Inv, RebalancerTypeOK, worldVars, supplyVars, chainVars
<1>3. Bookkeeping'
    BY <1>1, BookkeepingUnchanged DEF chainVars, Submitting
<1> QED
    BY <1>1, <1>2, <1>3 DEF Inv, OrdersGone

\* The cycle that ends at an unknown asset has counted some of its orders.
LEMMA DecideFailsInv ==
    ASSUME Inv, DecideFails
    PROVE  Inv'
<1>1. PICK os \in CountedBeforeError : supply' = WithRecorded(os) /\ dirty' = (dirty \/ os # {})
    BY DEF DecideFails
<1>2. os \in SUBSET NewOrders
    BY DEF CountedBeforeError
<1>3. /\ pc = "decide" /\ pc' = "idle"
      /\ UNCHANGED <<worldVars, submitted, chainVars, read, quoted, orders, payload>>
    BY DEF DecideFails
<1>4. RebalancerTypeOK'
    BY <1>1, <1>2, <1>3, WithRecordedType DEF Inv, RebalancerTypeOK, worldVars, chainVars
<1>5. AppliedShown' /\ PendingMarked' /\ NotZeroAgain' /\ ChangedUntilSubmitted'
    <2>1. UNCHANGED <<chain, pending, submitted, reverted, foreign>> /\ pc' \notin {"applied", "reverted"}
        BY <1>3 DEF chainVars
    <2>2. dirty' \in BOOLEAN /\ (dirty => dirty') /\ (os # {} => dirty')
        BY <1>1 DEF Inv, RebalancerTypeOK
    <2>3. \A a \in Assets :
                \/ supply'[a] = supply[a]
                \/ dirty' /\ \E side \in Side, q \in Nat : supply'[a] = Record(supply[a], side, q)
        BY <1>1, <1>2, <2>2, WithRecordedType DEF Inv
    <2> QED
        BY <2>1, <2>2, <2>3, CountingKeeps
<1>6. PayloadCurrent' /\ OrdersGone'
    BY <1>3 DEF Inv, PayloadCurrent, Submitting, OrdersGone
<1> QED
    BY <1>4, <1>5, <1>6 DEF Inv, Bookkeeping

\* The orders are counted, where they are counted ahead, before the payload is
\* read.
LEMMA DecideInv ==
    ASSUME Inv, Decide
    PROVE  Inv'
<1>1. /\ UNCHANGED <<worldVars, submitted, chain, pending, reverted, foreign, read, quoted>>
      /\ orders' = ToExecute(NewOrders)
      /\ supply' = IF CountsAhead THEN WithRecorded(NewOrders) ELSE supply
      /\ dirty' = (dirty \/ CountsAhead)
      /\ \/ payload' = Payload(supply') /\ pc' = "submit" /\ failed' = FALSE /\ dirty'
         \/ pc' = "execute" /\ UNCHANGED <<payload, failed>>
    BY DEF Decide
<1>2. orders' \subseteq Order
    BY <1>1, NewOrderType DEF ToExecute, NewOrders, Inv
<1>3. /\ supply' \in [Assets -> AssetSupply]
      /\ \A a \in Assets :
            \/ supply'[a] = supply[a]
            \/ CountsAhead /\ \E side \in Side, q \in Nat : supply'[a] = Record(supply[a], side, q)
    <2>1. NewOrders \in SUBSET NewOrders
        OBVIOUS
    <2>2. CASE CountsAhead
        BY <1>1, <2>1, <2>2, WithRecordedType DEF Inv
    <2>3. CASE ~ CountsAhead
        BY <1>1, <2>3 DEF Inv, RebalancerTypeOK
    <2> QED
        BY <2>2, <2>3
<1>4. dirty' \in BOOLEAN /\ (dirty => dirty') /\ (CountsAhead => dirty')
    <2>1. dirty \in BOOLEAN
        BY DEF Inv, RebalancerTypeOK
    <2>2. CASE CountsAhead
        BY <1>1, <2>1, <2>2
    <2>3. CASE ~ CountsAhead
        BY <1>1, <2>1, <2>3
    <2> QED
        BY <2>2, <2>3
<1>5. DOMAIN payload' \subseteq Assets /\ \A a \in DOMAIN payload' : payload'[a] \in Position
    <2>1. CASE payload' = Payload(supply')
        BY <1>3, <2>1 DEF Payload, Changed, Reported, AssetSupply, Position
    <2>2. CASE payload' = payload
        BY <2>2 DEF Inv, RebalancerTypeOK, Position
    <2> QED
        BY <1>1, <2>1, <2>2
<1>6. RebalancerTypeOK'
    BY <1>1, <1>2, <1>3, <1>4, <1>5 DEF Inv, RebalancerTypeOK, worldVars, Position
<1>7. PayloadCurrent' /\ OrdersGone'
    BY <1>1 DEF PayloadCurrent, Payload, Changed, Submitting, OrdersGone
<1>8. AppliedShown' /\ PendingMarked' /\ NotZeroAgain' /\ ChangedUntilSubmitted'
    BY <1>1, <1>3, <1>4, CountingKeeps
<1> QED
    BY <1>6, <1>7, <1>8 DEF Inv, Bookkeeping

\* A transaction that is mined brings what is recorded, or reverts; one given up
\* before can no longer be mined.
LEMMA MineInv ==
    ASSUME Inv, Mine
    PROVE  Inv'
<1>1. /\ pc = "submit" /\ pc' \in {"applied", "reverted"} /\ pending' = Nothing
      /\ UNCHANGED <<worldVars, supplyVars, failed, read, quoted, orders, payload>>
      /\ \/ /\ chain' = Applied(payload)
            /\ reverted' = reverted \ DOMAIN payload /\ foreign' = foreign \ DOMAIN payload
         \/ pc' = "reverted" /\ UNCHANGED <<chain, reverted, foreign>>
    BY DEF Mine
<1>2. payload = Payload(supply) /\ dirty
    BY <1>1 DEF Inv, Bookkeeping, PayloadCurrent, Submitting
<1>3. Applied(payload) \in [Assets -> Position]
    BY AppliedType DEF Inv, RebalancerTypeOK, Position
<1>4. RebalancerTypeOK'
    <2>1. DOMAIN pending' = {}
        BY <1>1 DEF Nothing
    <2>2. chain' \in [Assets -> Position] /\ reverted' \subseteq Assets /\ foreign' \subseteq Assets
        BY <1>1, <1>3 DEF Inv, RebalancerTypeOK, Position
    <2> QED
        BY <1>1, <2>1, <2>2 DEF Inv, RebalancerTypeOK, worldVars, supplyVars, Position
<1>5. ASSUME NEW a \in Assets
      PROVE  \/ a \in DOMAIN payload /\ HasChanged(supply[a], submitted) /\ chain'[a] = Reported(supply[a])
             \/ chain'[a] = chain[a] /\ (a \in reverted => a \in reverted') /\ (a \in foreign => a \in foreign')
    BY <1>1, <1>2 DEF Applied, Payload, Changed
<1>6. PayloadCurrent' /\ OrdersGone'
    BY <1>1, <1>2 DEF PayloadCurrent, Payload, Changed, OrdersGone, supplyVars
<1>7. AppliedShown'
    <2>1. ASSUME pc' = "applied", NEW a \in DOMAIN payload PROVE chain'[a] = Reported(supply[a])
        BY <1>1, <1>2, <2>1 DEF Applied, Payload, Changed
    <2> QED
        BY <1>1, <2>1 DEF AppliedShown, supplyVars
<1>8. PendingMarked'
    BY <1>1 DEF PendingMarked, Nothing
<1>9. NotZeroAgain'
    BY <1>1, <1>5 DEF Inv, Bookkeeping, NotZeroAgain, supplyVars
<1>10. ChangedUntilSubmitted'
    <2>1. UNCHANGED <<supply, dirty, submitted>>
        BY <1>1 DEF supplyVars
    <2> QED
        BY <1>5, <2>1 DEF Inv, Bookkeeping, ChangedUntilSubmitted
<1> QED
    BY <1>4, <1>6, <1>7, <1>8, <1>9, <1>10 DEF Inv, Bookkeeping

\* A submission that the Vendor believes in: what it reported is on the chain or,
\* if it reverted, noted as such; what it did not report was on the chain already.
LEMMA SubmitOkInv ==
    ASSUME Inv, SubmitOk
    PROVE  Inv'
<1>1. /\ pc \in {"applied", "reverted"} /\ pc' = "execute" /\ payload' = Nothing
      /\ UNCHANGED <<worldVars, chain, pending, failed, foreign, read, quoted, orders>>
      /\ supply' = [a \in Assets |-> [supply[a] EXCEPT !.changed = FALSE]]
      /\ dirty' = FALSE /\ submitted' = TRUE
      /\ reverted' = IF pc = "reverted" THEN reverted \cup DOMAIN payload ELSE reverted
    BY DEF SubmitOk, MarkSubmitted
<1>2. \A a \in Assets : supply'[a] \in AssetSupply /\ Reported(supply'[a]) = Reported(supply[a])
    BY <1>1 DEF Inv, RebalancerTypeOK, AssetSupply, Reported
<1>3. payload = Payload(supply) /\ pending = Nothing
    BY <1>1 DEF Inv, Bookkeeping, PayloadCurrent, PendingMarked, Submitting
<1>4. RebalancerTypeOK'
    <2>1. supply' \in [Assets -> AssetSupply]
        BY <1>1, <1>2
    <2>2. DOMAIN payload' = {}
        BY <1>1 DEF Nothing
    <2>3. reverted' \subseteq Assets
        BY <1>1 DEF Inv, RebalancerTypeOK
    <2>4. {dirty', submitted', failed'} \subseteq BOOLEAN
        BY <1>1 DEF Inv, RebalancerTypeOK
    <2> QED
        BY <1>1, <2>1, <2>2, <2>3, <2>4 DEF Inv, RebalancerTypeOK, worldVars
<1>5. ASSUME NEW a \in Assets, chain'[a] # Reported(supply'[a])
      PROVE  a \in reverted' \/ a \in foreign'
    <2>1. chain[a] # Reported(supply[a])
        BY <1>1, <1>2, <1>5
    <2>2. CASE a \in DOMAIN payload
        BY <1>1, <2>1, <2>2 DEF Inv, Bookkeeping, AppliedShown
    <2>3. CASE a \notin DOMAIN payload
        <3>1. ~ HasChanged(supply[a], submitted)
            BY <1>3, <2>3 DEF Payload, Changed
        <3>2. a \in reverted \/ a \in foreign
            BY <2>1, <3>1 DEF Inv, Bookkeeping, ChangedUntilSubmitted
        <3> QED
            BY <1>1, <3>2
    <2> QED
        BY <2>2, <2>3
<1>6. ChangedUntilSubmitted'
    BY <1>5 DEF ChangedUntilSubmitted
<1>7. PayloadCurrent' /\ AppliedShown' /\ PendingMarked' /\ NotZeroAgain' /\ OrdersGone'
    BY <1>1, <1>3 DEF PayloadCurrent, AppliedShown, PendingMarked, NotZeroAgain, OrdersGone, Submitting,
                      Nothing
<1> QED
    BY <1>4, <1>6, <1>7 DEF Inv, Bookkeeping

\* A submission that failed leaves everything marked that it reported.
LEMMA SubmitFailsInv ==
    ASSUME Inv, SubmitFails
    PROVE  Inv'
<1>1. /\ pc \in Submitting /\ pc' = "execute" /\ payload' = Nothing /\ failed' = TRUE
      /\ UNCHANGED <<worldVars, supplyVars, chain, reverted, foreign, read, quoted, orders>>
      /\ pending' = pending \/ pending' = payload
    BY DEF SubmitFails, Submitting
<1>2. payload = Payload(supply) /\ dirty
    BY <1>1 DEF Inv, Bookkeeping, PayloadCurrent
<1>3. RebalancerTypeOK'
    <2>1. DOMAIN payload' = {}
        BY <1>1 DEF Nothing
    <2>2. DOMAIN pending' \subseteq Assets /\ \A a \in DOMAIN pending' : pending'[a] \in Position
        BY <1>1 DEF Inv, RebalancerTypeOK, Position
    <2> QED
        BY <1>1, <2>1, <2>2 DEF Inv, RebalancerTypeOK, worldVars, supplyVars, Position
<1>4. PendingMarked'
    <2>1. UNCHANGED <<supply, dirty, submitted>>
        BY <1>1 DEF supplyVars
    <2>2. CASE pending' = pending
        <3>1. pending # Nothing => \A a \in DOMAIN pending : HasChanged(supply[a], submitted)
            BY DEF Inv, Bookkeeping, PendingMarked
        <3> QED
            BY <1>1, <1>2, <2>1, <2>2, <3>1 DEF PendingMarked, Nothing
    <2>3. CASE pending' = payload
        <3>1. \A a \in DOMAIN payload : HasChanged(supply[a], submitted)
            BY <1>2 DEF Payload, Changed
        <3> QED
            BY <1>1, <1>2, <2>1, <2>3, <3>1 DEF PendingMarked
    <2> QED
        BY <1>1, <2>2, <2>3
<1>5. NotZeroAgain' /\ ChangedUntilSubmitted'
    BY <1>1 DEF Inv, Bookkeeping, NotZeroAgain, ChangedUntilSubmitted, supplyVars
<1>6. PayloadCurrent' /\ AppliedShown' /\ OrdersGone'
    BY <1>1 DEF PayloadCurrent, AppliedShown, OrdersGone, Submitting
<1> QED
    BY <1>3, <1>4, <1>5, <1>6 DEF Inv, Bookkeeping

\* A fill is counted.
LEMMA FillInv ==
    ASSUME Inv, NEW o \in orders, NEW q \in 0 .. o.quantity, Fill(o, q)
    PROVE  Inv'
<1>1. o \in Order /\ o.asset \in Assets /\ o.side \in Side /\ q \in Nat
    BY DEF Inv, RebalancerTypeOK, Order
<1>2. /\ pc = "execute" /\ dirty' = TRUE /\ orders' = orders \ {o}
      /\ supply' = [supply EXCEPT ![o.asset] = Record(supply[o.asset], o.side, q)]
      /\ UNCHANGED <<worldVars, submitted, chainVars, pc, read, quoted, payload>>
    BY DEF Fill
<1>3. supply[o.asset] \in AssetSupply
    BY <1>1 DEF Inv, RebalancerTypeOK
<1>4. supply' \in [Assets -> AssetSupply]
    BY <1>1, <1>2, <1>3, RecordType DEF Inv, RebalancerTypeOK
<1>5. RebalancerTypeOK'
    BY <1>2, <1>4 DEF Inv, RebalancerTypeOK, worldVars, chainVars
<1>6. \A a \in Assets :
            \/ supply'[a] = supply[a]
            \/ dirty' /\ \E side \in Side, n \in Nat : supply'[a] = Record(supply[a], side, n)
    BY <1>1, <1>2 DEF Inv, RebalancerTypeOK
<1>7. AppliedShown' /\ PendingMarked' /\ NotZeroAgain' /\ ChangedUntilSubmitted'
    BY <1>2, <1>6, CountingKeeps DEF chainVars
<1>8. PayloadCurrent' /\ OrdersGone'
    BY <1>2 DEF PayloadCurrent, OrdersGone, Submitting
<1> QED
    BY <1>5, <1>7, <1>8 DEF Inv, Bookkeeping

\* Every step of the rebalancer and of its world keeps the invariant.
LEMMA NextInv == Inv /\ [Next]_vars => Inv'
<1> SUFFICES ASSUME Inv, [Next]_vars PROVE Inv'
    OBVIOUS
<1>1. CASE \E a \in Assets, d \in Demands : DemandChanges(a, d)
    BY <1>1, WorldInv
<1>2. CASE \E a \in Assets : \E p \in Prices[a] : PriceArrives(a, p) \/ PriceMoves(a, p)
    BY <1>2, WorldInv
<1>3. CASE \E S \in SUBSET Assets, r \in Reports : OthersReport(S, r)
    BY <1>3, OthersInv
<1>4. CASE LateTransaction
    BY <1>4, LateInv
<1>5. CASE Mine
    BY <1>5, MineInv
<1>6. CASE FetchDemand \/ CalculateMargins \/ NothingToDo \/ CycleEnds
    BY <1>6, QuietInv
<1>7. CASE DecideFails
    BY <1>7, DecideFailsInv
<1>8. CASE Decide
    BY <1>8, DecideInv
<1>9. CASE SubmitOk
    BY <1>9, SubmitOkInv
<1>10. CASE SubmitFails
    BY <1>10, SubmitFailsInv
<1>11. CASE Execute
    BY <1>11, QuietInv, FillInv DEF Execute
<1>12. CASE UNCHANGED vars
    <2>1. RebalancerTypeOK' /\ OrdersGone'
        BY <1>12 DEF Inv, RebalancerTypeOK, OrdersGone, vars, worldVars, supplyVars, chainVars, cycleVars
    <2>2. Bookkeeping'
        BY <1>12, BookkeepingUnchanged DEF vars, supplyVars, chainVars, cycleVars
    <2> QED
        BY <2>1, <2>2 DEF Inv
<1> QED
    BY <1>1, <1>2, <1>3, <1>4, <1>5, <1>6, <1>7, <1>8, <1>9, <1>10, <1>11, <1>12 DEF Next, Cycle

\* What a step may bring to the chain.
ChainChange(a) ==
    \/ chain'[a] = Reported(supply[a])
    \/ a \in foreign'
    \/ /\ a \in DOMAIN pending /\ chain'[a] = pending[a]
       /\ dirty /\ HasChanged(supply[a], submitted)

LEMMA ChainStep ==
    ASSUME Inv, Next, NEW a \in Assets, chain'[a] # chain[a]
    PROVE  ChainChange(a)
<1>1. \/ \E S \in SUBSET Assets, r \in Reports : OthersReport(S, r)
      \/ LateTransaction \/ Mine
    BY DEF Next, Cycle, Execute, DemandChanges, PriceArrives, PriceMoves, FetchDemand, CalculateMargins,
           NothingToDo, DecideFails, Decide, SubmitOk, SubmitFails, Fill, FillUnknown, OrderFails,
           CycleEnds, chainVars
<1>2. ASSUME NEW S \in SUBSET Assets, NEW r \in Reports, OthersReport(S, r)
      PROVE  a \in foreign'
    BY <1>2 DEF OthersReport, Applied
<1>3. CASE LateTransaction
    <2>1. a \in DOMAIN pending /\ chain'[a] = pending[a] /\ pending # Nothing
        BY <1>3 DEF LateTransaction, Applied
    <2> QED
        BY <2>1 DEF Inv, Bookkeeping, PendingMarked, ChainChange
<1>4. CASE Mine
    <2>1. pc = "submit" /\ chain' = Applied(payload)
        BY <1>4 DEF Mine
    <2>2. payload = Payload(supply)
        BY <2>1 DEF Inv, Bookkeeping, PayloadCurrent, Submitting
    <2> QED
        BY <2>1, <2>2 DEF Applied, Payload, ChainChange
<1> QED
    BY <1>1, <1>2, <1>3, <1>4 DEF ChainChange

-----------------------------------------------------------------------------
\* The invariant holds in every behaviour.
LEMMA Invariance == Spec => []Inv
    BY InitInv, NextInv, PTL DEF Spec

\* Type correctness: every supply, order and report stays a natural number.
THEOREM TypeCorrect == Spec => []RebalancerTypeOK
    BY Invariance, PTL DEF Inv

\* An asset that the chain shows wrongly is still marked as changed, for any
\* number of assets, fills, failed submissions and transactions mined late; unless
\* its submission reverted unnoticed or another task reported it last.
THEOREM ChangedMarked == Spec => []ChangedUntilSubmitted
    BY Invariance, PTL DEF Inv, Bookkeeping

\* What a submission brings to the chain is the supply recorded at that moment; a
\* transaction given up brings an older one only of assets that stay marked.
THEOREM CurrentSubmitted == Spec => SubmitsCurrentSupply
<1>1. Inv /\ [Next]_vars =>
          [\A a \in Assets : chain'[a] # chain[a] =>
              \/ chain'[a] = Reported(supply[a])
              \/ a \in foreign'
              \/ /\ a \in DOMAIN pending /\ chain'[a] = pending[a]
                 /\ dirty /\ HasChanged(supply[a], submitted)]_vars
    BY ChainStep DEF ChainChange
<1> QED
    BY <1>1, Invariance, PTL DEF Spec, SubmitsCurrentSupply

-----------------------------------------------------------------------------
(* What the orders cost.                                                   *)

\* The orders that have a margin.
Margined(os) == {o \in os : quoted[o.asset] # 0}

Paid(os) == IsFiniteSet(os) /\ Cost(os) <= Exposure

LEMMA OrderCost ==
    ASSUME RebalancerTypeOK, NEW os \in SUBSET Order
    PROVE  [o \in os |-> o.quantity * quoted[o.asset]] \in [os -> Nat]
<1> SUFFICES ASSUME NEW o \in os
             PROVE  o.quantity * quoted[o.asset] \in Nat
    OBVIOUS
<1>1. o.quantity \in Nat /\ quoted[o.asset] \in Nat
    BY DEF RebalancerTypeOK, Order
<1> QED
    BY <1>1, ProductMonotone

LEMMA NothingPaid == Paid({})
<1> DEFINE f == [o \in {} |-> o.quantity * quoted[o.asset]]
<1>1. f \in [{} -> Int]
    OBVIOUS
<1>2. SumFunction(f) = 0
  <2> HIDE DEF f
  <2> QED
    BY <1>1, SumEmpty
<1> QED
    BY <1>2, FS_EmptySet, RebalancerAssumption DEF Paid, Cost

\* An order less costs no more.
LEMMA LessPaid ==
    ASSUME RebalancerTypeOK, NEW os \in SUBSET Order, Paid(os), NEW o \in os
    PROVE  Paid(os \ {o})
<1> DEFINE f == [x \in os |-> x.quantity * quoted[x.asset]]
           g == [x \in os \ {o} |-> x.quantity * quoted[x.asset]]
<1>1. f \in [os -> Nat] /\ g \in [os \ {o} -> Nat]
    BY OrderCost
<1>2. \A x \in os \ {o} : g[x] = f[x]
    OBVIOUS
<1>3. IsFiniteSet(os) /\ IsFiniteSet(os \ {o})
    BY FS_Subset DEF Paid
<1>4. Cost(os) = SumFunction(f) /\ Cost(os \ {o}) = SumFunction(g)
    BY DEF Cost
<1> HIDE DEF f, g
<1>5. f \in [os -> Int] /\ g \in [os \ {o} -> Int]
    BY <1>1
<1>6. SumFunction(f) = f[o] + SumFunction(g)
    BY <1>2, <1>3, <1>5, SumSplit
<1>7. SumFunction(g) \in Int /\ f[o] \in Nat /\ Exposure \in Int
    BY <1>1, <1>3, <1>5, SumType, RebalancerAssumption
<1>8. SumFunction(f) <= Exposure
    BY <1>4 DEF Paid
<1> QED
    BY <1>3, <1>4, <1>6, <1>7, <1>8 DEF Paid

\* The exposure is divided by the number of unbalanced assets, of which those
\* ordered are a part; an order is worth no more than its share, although it was
\* rounded up to the minimum first.
LEMMA NewOrdersPaid ==
    ASSUME RebalancerTypeOK
    PROVE  Paid(Margined(NewOrders))
<1> DEFINE n == Cardinality(Unbalanced)
           share == Exposure \div n
           priced == {a \in Ordered : quoted[a] # 0}
           os == Margined(NewOrders)
<1>1. IsFiniteSet(Unbalanced) /\ IsFiniteSet(priced) /\ n \in Nat /\ Cardinality(priced) <= n
  <2>1. Unbalanced \in SUBSET Assets /\ priced \in SUBSET Unbalanced
      BY DEF Unbalanced, Ordered
  <2>2. IsFiniteSet(Unbalanced)
      BY <2>1, FS_Subset, RebalancerAssumption
  <2> HIDE DEF priced
  <2> QED
      BY <2>1, <2>2, FS_Subset, FS_CardinalityType
<1>2. IsFiniteSet(os) /\ Cardinality(os) \in Nat /\ Cardinality(os) <= n
  <2> DEFINE f == [a \in priced |-> NewOrder(a)]
  <2>1. f \in Surjection(priced, os)
      BY NewOrderType DEF Surjection, NewOrders, Margined
  <2>2. IsFiniteSet(os) /\ Cardinality(os) <= Cardinality(priced)
    <3> HIDE DEF f, priced, os
    <3> QED
      BY <1>1, <2>1, FS_Surjection
  <2> HIDE DEF n, priced, os
  <2>3. Cardinality(os) \in Nat /\ Cardinality(priced) \in Nat
      BY <1>1, <2>2, FS_CardinalityType
  <2> QED
      BY <1>1, <2>2, <2>3
<1>3. os \in SUBSET Order
    BY NewOrderType DEF NewOrders, Margined
<1>4. CASE n = 0
  <2>1. os = {}
    <3> HIDE DEF os, n
    <3> QED
      BY <1>2, <1>4, FS_EmptySet
  <2> QED
      BY <2>1, NothingPaid
<1>5. CASE n # 0
  <2>1. n \in Nat \ {0} /\ share \in Nat /\ n * share <= Exposure
    <3>1. n \in Nat \ {0} /\ Exposure \in Nat
        BY <1>1, <1>5, RebalancerAssumption
    <3> HIDE DEF n
    <3> QED
        BY <3>1, DivisionRounds
  <2>2. ASSUME NEW a \in priced
        PROVE  NewOrder(a).quantity * quoted[a] <= share
    <3> DEFINE q == quoted[a]
               p == price[a]
               most == share \div q
               usd == OrderUsd(a)
    <3>1. a \in Ordered /\ a \in Assets /\ q # 0 /\ p # 0
        BY DEF Ordered, Unbalanced
    <3>2. q \in Nat \ {0} /\ p \in Nat \ {0}
        BY <3>1 DEF RebalancerTypeOK
    <3>3. MaxQuantity(a) = most
        BY DEF MaxQuantity
    <3>4. most \in Nat /\ q * most <= share
      <4> HIDE DEF q, share
      <4> QED
        BY <2>1, <3>2, DivisionRounds
    <3>5. usd \in Nat /\ usd <= p * most
      <4>1. Difference(a) * p \in Nat
        <5>1. Difference(a) \in Nat
            BY <3>1, DifferenceType
        <5> HIDE DEF p
        <5> QED
            BY <3>2, <5>1, ProductMonotone
      <4>2. RoundUp(Difference(a) * p) \in Nat
        <5> DEFINE d == Difference(a) * p
                   r == (d + MinOrder - 1) \div MinOrder
        <5>1. MinOrder \in Nat \ {0}
            BY RebalancerAssumption
        <5>2. d \in Nat
            BY <4>1
        <5>3. r \in Nat
          <6> HIDE DEF d
          <6>1. d + MinOrder - 1 \in Nat
              BY <5>1, <5>2
          <6> QED
              BY <5>1, <6>1, DivisionRounds
        <5>4. RoundUp(d) = r * MinOrder
            BY DEF RoundUp
        <5> HIDE DEF d, r
        <5>5. r * MinOrder \in Nat
            BY <5>1, <5>3, ProductMonotone
        <5> QED
            BY <5>4, <5>5 DEF d
      <4>3. most * p \in Nat /\ most * p = p * most
        <5> HIDE DEF p, most
        <5>1. most * p \in Nat
            BY <3>2, <3>4, ProductMonotone
        <5> QED
            BY <3>2, <3>4, <5>1
      <4>4. usd = IF RoundUp(Difference(a) * p) < most * p
                  THEN RoundUp(Difference(a) * p) ELSE most * p
          BY <3>1, <3>3 DEF OrderUsd
      <4> HIDE DEF p, most, usd
      <4> QED
          BY <4>2, <4>3, <4>4
    <3>6. NewOrder(a).quantity = usd \div p
        BY DEF NewOrder
    <3>7. usd \div p \in Nat /\ usd \div p <= most
      <4> HIDE DEF p, usd, most
      <4> QED
        BY <3>2, <3>4, <3>5, DivisionBelow, DivisionRounds
    <3> DEFINE z == usd \div p
    <3> HIDE DEF z, q, most, share
    <3>8. z * q <= most * q /\ most * q = q * most /\ z * q \in Int /\ q * most \in Int
      <4>1. z \in Nat /\ z <= most
          BY <3>7 DEF z
      <4>2. z * q \in Nat /\ z * q <= most * q /\ most * q \in Nat
          BY <3>2, <3>4, <4>1, ProductMonotone
      <4>3. most * q = q * most
          BY <3>2, <3>4
      <4> QED
          BY <4>2, <4>3
    <3>9. z * q <= share
        BY <2>1, <3>4, <3>8
    <3> QED
        BY <3>6, <3>9 DEF z, q
  <2> DEFINE f == [o \in os |-> o.quantity * quoted[o.asset]]
  <2>3. f \in [os -> Int]
    <3> HIDE DEF os
    <3> QED
      BY <1>3, OrderCost
  <2>4. \A o \in os : f[o] <= share
    <3>1. ASSUME NEW o \in os PROVE \E a \in priced : o = NewOrder(a) /\ o.asset = a
        BY NewOrderType DEF NewOrders, Margined
    <3> HIDE DEF share, os, priced
    <3> QED
      BY <2>2, <3>1
  <2>5. Cost(os) = SumFunction(f)
      BY DEF Cost
  <2>6. SumFunction(f) <= Cardinality(os) * share
    <3> HIDE DEF f, share, os
    <3> QED
      BY <1>2, <2>1, <2>3, <2>4, SumBounded
  <2>7. SumFunction(f) \in Int
    <3> HIDE DEF f, os
    <3> QED
      BY <1>2, <2>3, SumType
  <2> HIDE DEF f, n, share, os
  <2>8. Cardinality(os) * share <= n * share /\ Cardinality(os) * share \in Nat
      BY <1>2, <2>1, ProductMonotone
  <2>9. n * share \in Nat /\ Exposure \in Nat
      BY <2>1, RebalancerAssumption, ProductMonotone
  <2>10. Paid(os)
      BY <1>2, <2>1, <2>5, <2>6, <2>7, <2>8, <2>9 DEF Paid
  <2> QED
      BY <2>10 DEF os
<1> QED
    BY <1>4, <1>5

LEMMA PaidNext == Inv /\ Paid(Margined(orders)) /\ [Next]_vars => Paid(Margined(orders))'
<1> SUFFICES ASSUME Inv, Paid(Margined(orders)), [Next]_vars PROVE Paid(Margined(orders))'
    OBVIOUS
<1>1. Margined(orders) \in SUBSET Order /\ RebalancerTypeOK
    BY DEF Inv, RebalancerTypeOK, Margined
<1>2. ASSUME quoted' = quoted, Paid(Margined(orders'))
      PROVE  Paid(Margined(orders))'
    BY <1>2 DEF Paid, Margined, Cost
<1>3. Paid(Margined({}))
    BY NothingPaid DEF Margined
<1>4. CASE Decide
  <2>1. (orders' = {} \/ orders' = NewOrders) /\ quoted' = quoted
      BY <1>4 DEF Decide, ToExecute
  <2> QED
      BY <1>1, <1>2, <1>3, <2>1, NewOrdersPaid
<1>5. CASE Execute
  <2>1. quoted' = quoted
      BY <1>5 DEF Execute, OrderFails, FillUnknown, Fill
  <2>2. orders' = {} \/ \E o \in orders : orders' = orders \ {o}
      BY <1>5 DEF Execute, OrderFails, FillUnknown, Fill
  <2>3. ASSUME NEW o \in orders PROVE Paid(Margined(orders \ {o}))
    <3>1. CASE o \in Margined(orders)
      <4>1. Margined(orders \ {o}) = Margined(orders) \ {o}
          BY DEF Margined
      <4> QED
          BY <1>1, <3>1, <4>1, LessPaid
    <3>2. CASE o \notin Margined(orders)
      <4>1. Margined(orders \ {o}) = Margined(orders)
          BY <3>2 DEF Margined
      <4> QED
          BY <4>1
    <3> QED
        BY <3>1, <3>2
  <2> QED
      BY <1>2, <1>3, <2>1, <2>2, <2>3
<1>6. CASE CalculateMargins
  <2>1. orders = {} /\ orders' = {}
      BY <1>6 DEF CalculateMargins, Inv, OrdersGone
  <2>2. Margined(orders)' = {}
      BY <2>1 DEF Margined
  <2>3. IsFiniteSet(Margined(orders)')
      BY <2>2, FS_EmptySet
  <2>4. Cost(Margined(orders))' = Cost({})
    <3> DEFINE f(os) == [o \in os |-> o.quantity * quoted[o.asset]]
    <3>1. f({}) = f({})'
        OBVIOUS
    <3> QED
        BY <2>2, <3>1 DEF Cost
  <2> QED
      BY <2>3, <2>4, NothingPaid DEF Paid
<1>7. CASE ~ Decide /\ ~ Execute /\ ~ CalculateMargins
  <2>1. orders' = orders /\ quoted' = quoted
      BY <1>7 DEF Next, Cycle, vars, cycleVars, DemandChanges, PriceArrives, PriceMoves, OthersReport,
                  LateTransaction, FetchDemand, NothingToDo, DecideFails, Mine, SubmitOk, SubmitFails,
                  CycleEnds
  <2> QED
      BY <1>2, <2>1
<1> QED
    BY <1>4, <1>5, <1>6, <1>7

\* The orders of one cycle that have a margin cost no more than the total exposure,
\* for any number of assets, prices that move, minimum and exposure, whatever has
\* been counted and executed.
THEOREM SpendingBounded == Spec => []SpendBounded
<1>1. Init => Paid(Margined(orders))
    BY NothingPaid DEF Init, Margined
<1>2. Paid(Margined(orders)) => SpendBounded
    BY DEF Paid, SpendBounded, Margined
<1>3. Inv /\ Paid(Margined(orders)) /\ [Next]_vars => Paid(Margined(orders))'
    BY PaidNext
<1> QED
    BY <1>1, <1>2, <1>3, Invariance, PTL DEF Spec
=============================================================================
