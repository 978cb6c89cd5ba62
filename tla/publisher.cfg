CONSTANTS
    s1 = s1
    s2 = s2
    d1 = d1
    d2 = d2
    Senders <- MCSenders
    Destinations <- MCDestinations
    BatchMax = 2
    MaxAge = 1
    MaxMessages = 3
SPECIFICATION FairSpec
CHECK_DEADLOCK FALSE
INVARIANT SentInOrder
INVARIANT CloseTellsTheTruth
INVARIANT DeadlineWhileWaiting
INVARIANT BatchesBounded
PROPERTY EventuallyPublished
PROPERTY CloseReturns
