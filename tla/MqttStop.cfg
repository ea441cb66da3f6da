SPECIFICATION MessagesSpec
CONSTANTS
    k1 = k1  t1 = t1  t2 = t2
    Users = {}
    Clients <- MCClients
    Topics <- MCTopics
    Configured <- MCConfigured
    DirectUse = FALSE
    QueueSize = 2
    MaxMessages = 4
INVARIANTS StopFinal InboxLatest
PROPERTY RetrySucceeds
\* After Stop, with no user left, nothing more happens.
CHECK_DEADLOCK FALSE
