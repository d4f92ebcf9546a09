------------------------- MODULE MCKeeperPipeline -------------------------
(* Bounded instance of KeeperPipeline for TLC. *)
EXTENDS KeeperPipeline, TLC

CONSTANTS i1, i2

MCIndices == {i1, i2}
OneIndex == {i1}
OneAmount == {1}

\* The two indices are interchangeable.
IndexSymmetry == Permutations(MCIndices)
===========================================================================
