-------------------------------- MODULE Supply --------------------------------
(***************************************************************************)
(* The Vendor's record of its positions (src/bin/vendor/src/supply) and    *)
(* what DeltaCalculator derives from it, as operators: the state they work *)
(* on belongs to DeltaRebalancer.                                          *)
(*                                                                         *)
(* A supply is kept without its simulated_long and simulated_short, which  *)
(* nothing in the program increases.  `changed` stands for                 *)
(* last_updated > last_submission.                                         *)
(***************************************************************************)
EXTENDS Amounts

AssetSupply == [long : Nat, short : Nat, changed : BOOLEAN]

NewSupply == [long |-> 0, short |-> 0, changed |-> FALSE]

\* The remainder is taken against the short position that is left, as in the
\* code: a purchase larger than half of the short position also adds to the
\* long one.
AddLong(s, q) ==
    LET short == SaturatingSub(s.short, q) IN
    [long |-> s.long + SaturatingSub(q, short), short |-> short, changed |-> TRUE]

\* Mutant: the long position is overdrawn.
AddShortUnsaturated(s, q) ==
    [long |-> s.long - q, short |-> s.short + SaturatingSub(q, s.long), changed |-> TRUE]

AddShort(s, q) ==
    LET long == SaturatingSub(s.long, q) IN
    [long |-> long, short |-> s.short + SaturatingSub(q, long), changed |-> TRUE]

Record(s, side, q) == IF side = "buy" THEN AddLong(s, q) ELSE AddShort(s, q)

\* has_changed(): before the first submission, any position counts.
HasChanged(s, submitted) ==
    IF submitted THEN s.changed ELSE s.long # 0 \/ s.short # 0

\* A net short position counts as no supply at all.
NetSupply(s) == SaturatingSub(s.long, s.short)

\* What submitSupply() reports of an asset.
Reported(s) == [long |-> s.long, short |-> s.short]
===============================================================================
