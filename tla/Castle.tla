-------------------------------- MODULE Castle --------------------------------
(***************************************************************************)
(* What the programs read from the chain about the indices: the Steward's   *)
(* view calls and the logs of the Castle proxy, as src/libs/onchain-sync    *)
(* and src/bin/keeper/src/chain/steward_client.rs use them.  The contracts  *)
(* are not in this repository.                                             *)
(*                                                                         *)
(* A block holds at most one event of interest, and time is counted in      *)
(* blocks.  An index and its vault have one name.                          *)
(***************************************************************************)
EXTENDS Naturals, Sequences, FiniteSets, FiniteSetsExt

CONSTANTS
    Indices,     \* index ids, from 1 on
    Baskets,     \* the sets of assets an index may hold, the empty one included
    MaxHeight    \* bound: length of the chain

ASSUME CastleAssumption ==
    /\ IsFiniteSet(Indices) /\ Indices \subseteq Nat \ {0} /\ MaxHeight \in Nat
    /\ \A s \in Baskets : IsFiniteSet(s)

VARIABLE chain

Height == Len(chain)

\* IndexCreated, IndexWeightsUpdated, IndexQuoteUpdated, or a block without any
\* of them.
NoEvent == [kind |-> "none"]
Compositions == [kind : {"created", "reweighted"}, index : Indices, assets : Baskets]
Quotes == [kind : {"quoted"}, index : Indices]
Events == {NoEvent} \cup Compositions \cup Quotes

\* The blocks from .. to that hold an event of one of these kinds about i.
Logs(i, kinds, from, to) ==
    {b \in from .. to : b \in DOMAIN chain /\ chain[b].kind \in kinds /\ chain[b].index = i}

Created(to) == {i \in Indices : Logs(i, {"created"}, 1, to) # {}}

\* The block that gave i the composition it has at block b, and its assets.
VersionAt(i, b) == Max(Logs(i, {"created", "reweighted"}, 1, b))
AssetsAt(i, b) == chain[VersionAt(i, b)].assets

Mine(e) ==
    /\ Height < MaxHeight
    /\ e.kind = "created" => e.index \notin Created(Height)
    /\ e.kind \in {"reweighted", "quoted"} => e.index \in Created(Height)
    /\ chain' = Append(chain, e)

===============================================================================
