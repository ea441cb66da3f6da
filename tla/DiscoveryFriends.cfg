\* Two concurrent scans against the signals of two names; no caches.
SPECIFICATION FairSpec
CONSTANTS
    n1 = n1  n2 = n2  s1 = s1  s2 = s2  c1 = c1  c2 = c2  w = w
    Names <- MCNames
    Scanners <- MCScanners
    Callers = {}
    Watcher = w
    MaxGen = 3
    MaxPaths = 1
    DiscoveryEnabled = TRUE
    NoEntry = NoEntry
INVARIANT FriendSetExact
PROPERTIES WatchKept FriendSetConverges
