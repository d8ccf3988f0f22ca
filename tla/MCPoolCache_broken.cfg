CONSTANTS
    Factory <- MCFactory
    Pair <- MCPair
    Genuine <- MCGenuine
    Readable <- MCReadable
    Eater <- MCEater
    Addresses <- MCAddresses
    Configs <- MCConfigs
    Failures = 1
SPECIFICATION CacheSpec
INVARIANTS BrokenIgnored
