-------------------------- MODULE MCDeltaRebalancer --------------------------
(* Bounded instance of DeltaRebalancer for TLC. *)
EXTENDS DeltaRebalancer, TLC

CONSTANTS btc, eth

TwoAssets == {btc, eth}
OneAsset == {btc}
MCPrices == [x \in Assets |-> IF x = btc THEN {1} ELSE {2, 3}]

\* The mock positions.
MCReports == {[long |-> 1, short |-> 1]}

Config(onchainFirst, submit, simulation, tracked) ==
    [onchainFirst |-> onchainFirst, submit |-> submit, simulation |-> simulation,
     sender |-> TRUE, tracked |-> tracked]

\* What main() sets, with all assets initialised or, after a failure, only one.
MainConfig == {Config(TRUE, TRUE, TRUE, {btc})}
MainConfigs == MainConfig \cup {Config(TRUE, TRUE, TRUE, {btc, eth})}
\* Simulation and the on-chain first mode switched off.
NormalConfigs == {Config(FALSE, TRUE, FALSE, {btc, eth}), Config(FALSE, TRUE, FALSE, {btc})}
AllConfigs == MainConfigs \cup NormalConfigs
==============================================================================
