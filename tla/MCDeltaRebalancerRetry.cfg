\* One asset in the configuration of main(); its demand changes twice.
CONSTANTS
    Limit = 1000
    Scale = 1
    btc = btc
    eth = eth
    Assets <- OneAsset
    Demands = {0, 2, 4}
    Prices <- MCPrices
    MinOrder = 2
    Exposure = 8
    Configs <- MainConfig
    Reports <- MCReports
    MaxChanges = 2
SPECIFICATION FairSpec
PROPERTY FailedSubmissionRetried
