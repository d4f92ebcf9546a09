---------------------------- MODULE VaultDirectory ----------------------------
(***************************************************************************)
(* What the Keeper knows of the indices, as main.rs wires it: at the start  *)
(* OnchainSync decides which vaults the KeeperLoop's StewardClient gets,    *)
(* and another StewardClient finds, now and again, the vaults that the      *)
(* event listener watches; the KeeperLoop's batch tasks extract assets.    *)
(*                                                                         *)
(* The readers of the chain share nothing else, and none of them writes it: *)
(* a behaviour follows one of them and leaves the others at rest.          *)
(***************************************************************************)
EXTENDS OnchainSync, StewardClient

CONSTANTS
    Readers,     \* which of them the behaviours follow
    Mined        \* bound: the events a block may hold, per reader

AllReaders == {"scan", "quote", "extraction", "refresh"}
ASSUME ReadersAssumption ==
    Readers \subseteq AllReaders /\ \A r \in Readers : Mined[r] \subseteq Events

\* The vault of the configuration, registered for an index of its own.
Config == 0

VARIABLES
    reader,       \* the one followed
    registered,   \* the vaults the KeeperLoop's StewardClient has been given
    watched       \* the listener's vault_addresses; empty before it is created

mainVars == <<reader, registered, watched>>
vars == <<chain, syncVars, stewardVars, mainVars>>

Init ==
    /\ chain = <<>>
    /\ SyncInit /\ StewardInit
    /\ reader \in Readers
    /\ registered = {} /\ watched = {}

Block(e) ==
    /\ e \in Mined[reader]
    /\ Mine(e)
    /\ UNCHANGED <<syncVars, stewardVars, mainVars>>

Scan ==
    /\ reader = "scan"
    /\ ScanStep
    /\ UNCHANGED <<chain, stewardVars, mainVars>>

\* register_vault()
Registered(vaults) == registered' = registered \cup vaults

\* Each accepted ITP is registered, or the vault of the configuration is.
RegisterAccepted ==
    /\ reader = "scan"
    /\ scan.pc \in {"done", "failed"} /\ registered = {}
    /\ Registered(IF scan.pc = "failed" THEN {Config} ELSE {itp.index : itp \in scan.accepted})
    /\ UNCHANGED <<chain, syncVars, stewardVars, reader, watched>>

Quote ==
    /\ reader = "quote"
    /\ QuoteStep
    /\ UNCHANGED <<chain, stewardVars, mainVars>>

\* A batch holds orders of indices that exist.
Extraction ==
    /\ reader = "extraction"
    /\ \E t \in Tasks :
          \/ \E S \in SUBSET Created(Height) \ {{}} : StartExtraction(t, S)
          \/ ExtractionStep(t)
    /\ UNCHANGED <<chain, syncVars, mainVars>>

Refresh ==
    /\ reader = "refresh"
    /\ RefreshStep
    /\ UNCHANGED <<chain, syncVars, mainVars>>

AtRest == [pc |-> "idle", todo |-> {}, found |-> {}]

\* main(): the first refresh gives the listener its vaults, or the configuration
\* does when none is found.
FirstVaults ==
    /\ watched = {}
    /\ refresh.pc = "failed" \/ RefreshOk
    /\ watched' = IF refresh.found = {} THEN {Config} ELSE refresh.found
    /\ refresh' = AtRest
    /\ UNCHANGED <<chain, syncVars, assetCache, task, known, reader, registered>>

\* The refresh task: add_vaults(), nothing after a failed refresh.
AddVaults ==
    /\ watched # {}
    /\ refresh.pc = "failed" \/ RefreshOk
    /\ watched' = watched \cup refresh.found
    /\ refresh' = AtRest
    /\ UNCHANGED <<chain, syncVars, assetCache, task, known, reader, registered>>

Next ==
    \/ \E e \in Events : Block(e)
    \/ Scan \/ RegisterAccepted
    \/ Quote
    \/ Extraction
    \/ Refresh \/ FirstVaults \/ AddVaults

Spec == Init /\ [][Next]_vars

\* The refresh task runs, and a node asked again and again for the logs gives
\* them again and again; getVault() may fail for ever.
FairSpec ==
    /\ Spec
    /\ WF_vars(Refresh) /\ WF_vars(FirstVaults) /\ WF_vars(AddVaults)
    /\ SF_vars(Refresh /\ RefreshLogs)

-----------------------------------------------------------------------------
(* Properties                                                              *)

\* Type invariant; an index has one entry in the cache, and what the listener
\* watches is known to the client that found it.
DirectoryTypeOK ==
    /\ chain \in Seq(Events) /\ Height <= MaxHeight
    /\ scan.pc \in {"idle", "next", "assets", "weights", "done", "failed"}
    /\ quote.pc \in {"idle", "logs", "age", "fresh", "stale", "failed"}
    /\ assetCache \subseteq Entry
    /\ \A t \in Tasks : task[t].pc \in {"idle", "next", "call", "insert", "sent", "failed"}
    /\ \A e, f \in assetCache : e.index = f.index => e = f
    /\ refresh.pc \in {"idle", "vaults", "failed"}
    /\ known \subseteq Indices
    /\ registered \subseteq Indices \cup {Config}
    /\ watched \subseteq known \cup {Config}

\* Each vault is in the end, and from then on, on the list of the listener (from
\* which each poll and each new subscription takes its filter; a subscription in
\* place keeps the one it has), however many refreshes fail and whichever getVault()
\* calls never succeed.
EveryVaultWatched ==
    \A i \in Indices :
        reader = "refresh" /\ i \in Created(Height) ~> [](i \in watched)

===============================================================================
