------------------------- MODULE MCEventListener -------------------------
(* Bounded instance of EventListener for TLC. *)
EXTENDS EventListener

CONSTANTS v1, v2

BothVaults == {v1, v2}
OneVault == {v1}
==========================================================================
