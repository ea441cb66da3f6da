SPECIFICATION FairSpec
CONSTANTS
    a = a  b = b  c = c  j = j
    NoName = NoName
    Classes <- MCClasses
    Programmatic <- MCProgrammatic
    Configured <- MCConfigured
    Jobs <- MCJobs
INVARIANTS TypeOK ConfigWins TornDown
PROPERTIES SignalEnds JobsRestart
\* The process ends.
CHECK_DEADLOCK FALSE
