SPECIFICATION Spec
\* A system on which nobody runs another command stays as it is.
CHECK_DEADLOCK FALSE
CONSTANTS
    Unset = Unset
    NoSection = NoSection
    CpuLists <- MCCpuLists
    Countable <- MCCountable
    Sections <- MCSections
    Environs <- MCEnvirons
    Unreadable <- MCUnreadable
    Commands <- MCCommands
    Ships = TRUE
    MaxCommands = 2
    MaxEvents = 2
INVARIANTS
    TypeOK
    RtSound
    Installed
    ReportTrue
