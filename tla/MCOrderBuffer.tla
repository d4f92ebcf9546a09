-------------------------- MODULE MCOrderBuffer --------------------------
(* Bounded instance of OrderBuffer for TLC. *)
EXTENDS OrderBuffer

CONSTANTS s1, s2

OneSymbol == {s1}
OneAndTwo == {1, 2}
==========================================================================
