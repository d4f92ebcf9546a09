------------------------------- MODULE Amounts -------------------------------
(***************************************************************************)
(* Amount (src/libs/common/src/amount.rs): the fixed-point numbers in which *)
(* the Keeper and the Vendor count money and assets.  An amount is a u128   *)
(* in units of 1/Scale; every operation computes in 256 bits, which wrap,   *)
(* and converts back.                                                      *)
(***************************************************************************)
EXTENDS Integers

CONSTANTS
    Limit,   \* 2^128, the first number that is not a u128
    Scale    \* SCALE: 10^18, the amount ONE

ASSUME AmountAssumption ==
    /\ Limit \in Nat /\ Scale \in Nat
    /\ 1 <= Scale /\ Scale < Limit

Amount == 0 .. Limit - 1

\* Option::None, and the panic of a division by zero.
None == -1
Panic == -2

\* The operators of U256.
Wrap(n) == n % (Limit * Limit)

\* try_convert_to_u128().
Fit(n) == IF n < Limit THEN n ELSE None

CheckedAdd(a, b) == Fit(Wrap(a + b))

\* What is below zero wraps to a number no u128 holds.
CheckedSub(a, b) == Fit(Wrap(a - b))

SaturatingSub(a, b) == IF a > b THEN a - b ELSE 0

CheckedMul(a, b) == Fit(Wrap(a * b) \div Scale)

\* Dividing by zero does not give None.
CheckedDiv(a, b) == IF b = 0 THEN Panic ELSE Fit(Wrap(a * Scale) \div b)

CheckedIdiv(a, b) == IF b = 0 THEN Panic ELSE Fit(Wrap((a \div b) * Scale))

CheckedSq(a) == CheckedMul(a, a)

-----------------------------------------------------------------------------
(* sqrt_u256(): a loop over x, from x = n on, that ends when the next value *)
(* is not smaller.                                                         *)

SqrtNext(n, x) == (n \div x + x) \div 2

SqrtDone(n, x) == ~ (SqrtNext(n, x) < x)
==============================================================================
