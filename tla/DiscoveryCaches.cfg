SPECIFICATION Spec
CONSTANTS
    n1 = n1  n2 = n2  s1 = s1  s2 = s2  c1 = c1  c2 = c2  w = w
    Names <- MCOneName
    Scanners <- MCScanner
    Callers <- MCCallers
    Watcher = w
    MaxGen = 2
    MaxPaths = 2
    DiscoveryEnabled = FALSE
    NoEntry = NoEntry
INVARIANTS TypeOK CachesCurrent
