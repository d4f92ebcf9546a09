\* Two indices, four blocks, two batch tasks; each reader of the chain followed by
\* itself.
SPECIFICATION FairSpec
CONSTANTS
    a = a
    b = b
    Indices = {1, 2}
    Baskets <- SmallBaskets
    MaxHeight = 4
    Known = {a}
    Lookback = 2
    MaxAge = 1
    Tasks = {1, 2}
    TTL = 2
    Readers = {"scan", "quote", "extraction", "refresh"}
    Mined <- PerReader
INVARIANTS
    DirectoryTypeOK
    DiscoveryConsistent
    QuoteVerdictsRight
    SentAssetsFresh
PROPERTY EveryVaultWatched
CHECK_DEADLOCK FALSE
