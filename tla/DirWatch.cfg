SPECIFICATION WatchSpec
CONSTANTS
    Job = job
    NoToken = NoToken
    Tokens <- MCTokens
    Stages = 3
INVARIANTS
    AtMostOneLateReport
PROPERTIES
    NoThreadOutlivesJob
CHECK_DEADLOCK FALSE
