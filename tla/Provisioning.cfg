SPECIFICATION DeviceSpec
\* Where nobody edits and the service runs, nothing more happens.
CHECK_DEADLOCK FALSE
CONSTANTS
    Schemas <- MCSchemas
    Patterns <- MCPatterns
    Formats <- MCFormats
    LogFiles <- MCLogFiles
    Files <- MCFiles
    Docs <- MCDocs
    Edits <- MCEdits
    Probes <- MCProbes
    LowerCase <- MCLowerCase
    MaxMishaps = 2

    
PROPERTIES
    Settles
    Provisions
