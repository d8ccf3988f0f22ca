CONSTANTS
    Factory <- MCFactory
    Pair <- MCPair
    Genuine <- MCGenuine
    Readable <- MCReadable
    Eater <- MCEater
    V3 <- MCV3
    Contract <- MCContract
    Rank <- MCRank
    Addresses <- MCAddresses
    Configs <- MCConfigs
    Failures = 3
    MaxUnknown = 2
    ChunkSize = 6
    MaxGarbage = 1
SPECIFICATION Spec
INVARIANTS TypeOK Aligned RequiredRight StarvedOnlyBehindEater OneBadCallIsCheap WatchedRightly MetadataKnown
PROPERTIES CacheSpec
