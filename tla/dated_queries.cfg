SPECIFICATION FairSpec
CONSTANTS
    Amount <- MCAmount
    Clients <- MCClients
    Formats <- MCFormats
    Threshold = 2
    Hash <- MCHash
    CodeOf <- MCCodeOf
    Unsupported = {"Bitcoin"}
    Rates <- MCRates
    MaxRetries = 1
    MaxFailures = 1
INVARIANTS
    ClosedAfterAll
    KeysNotSplit
PROPERTIES
    ImplementsAnswers
CHECK_DEADLOCK FALSE
