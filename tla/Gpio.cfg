SPECIFICATION FairSpec
CONSTANTS
    o1 = o1  o2 = o2  n = n
    Offsets <- MCOffsets
    Aliases <- MCAliases
    Configs <- MCConfigs
    QueueSize = 2
INVARIANTS TypeOK ReportedCurrent OutputsReset
PROPERTY ChangesReported
\* The process ends.
CHECK_DEADLOCK FALSE
