SPECIFICATION Spec
CONSTANTS
    Amount <- MCAmount
    Clients <- MCClients
    Formats <- MCFormats
    Threshold = 2
    Hash <- MCHash
    CodeOf <- MCCodeOf
    Unsupported = {"Bitcoin"}
    Rates <- MCRates
    MaxRetries = 1
    MaxFailures = 1
INVARIANT
    AsIfAgreed
CHECK_DEADLOCK FALSE
