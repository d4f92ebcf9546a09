--------------------------- MODULE MCVaultDirectory ---------------------------
(* Bounded instance of VaultDirectory for TLC. *)
EXTENDS VaultDirectory

CONSTANTS a, b

\* Baskets the service supports, without assets or with one, and one it does not.
SmallBaskets == {{}, {a}, {a, b}}

CreatedWith(s) == {e \in Compositions : e.kind = "created" /\ e.assets = s}

\* Each reader sees the events it can tell apart, and blocks without any: to a scan
\* a supported composition may as well be empty; of the indices a batch extracts one
\* is reweighted.
PerReader ==
    [scan |-> {e \in Compositions : e.assets # {a}},
     quote |-> CreatedWith({a}) \cup Quotes \cup {NoEvent},
     extraction |-> CreatedWith({a}) \cup
        {e \in Compositions : e.kind = "reweighted" /\ e.index = 1 /\ e.assets # {}},
     refresh |-> CreatedWith({a}) \cup {NoEvent}]
===============================================================================
