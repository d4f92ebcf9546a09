\* Two assets of different prices, in the configuration of main() and in normal
\* mode, all assets initialised or only one; demands and prices change twice.
CONSTANTS
    Limit = 1000
    Scale = 1
    btc = btc
    eth = eth
    Assets <- TwoAssets
    Demands = {0, 1, 4}
    Prices <- MCPrices
    MinOrder = 2
    Exposure = 6
    Configs <- AllConfigs
    Reports <- MCReports
    MaxChanges = 2
SPECIFICATION FairSpec
INVARIANTS
    RebalancerTypeOK
    ChangedUntilSubmitted
    SpendBounded
PROPERTIES
    SubmitsCurrentSupply
    DemandMet
