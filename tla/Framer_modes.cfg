SPECIFICATION FairSpec
CONSTANTS
    ByteBase = 4
    UsizeBytes = 4
    Byte = {0, 3}
    MaxFed = 6
    MaxOut = 2
    Configs <- MCConfigs
INVARIANTS
    NothingLost
    SplitByRule
PROPERTIES
    FeedReturns
    CutsWhereQuiet
