SPECIFICATION FairSpec
CONSTANTS
    r1 = r1  r2 = r2  p = p
    NoPath = NoPath
    Tokens <- MCTokens
    Paths <- MCPaths
    MaxRetries = 1
INVARIANTS TypeOK SessionOutlivesRequests
PROPERTIES AnswersOnce NeverLost CloseEnds
