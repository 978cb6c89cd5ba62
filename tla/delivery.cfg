SPECIFICATION FairSpec
CONSTANTS
  w1 = w1
  w2 = w2
  b1 = b1
  b2 = b2
  uuid = uuid
  NoId = NoId
  NoBatch = NoBatch
  Workers = {w1, w2}
  Batches = {b1, b2}
  Messages <- MCMessages
  Body <- MCBody
  TypeFactor = 1000
  Styles = {TRUE, FALSE}
  Unreadable <- MCUnreadable
  MaxFaults = 1
INVARIANTS TypeOK AckedIsCounted OncePerLife OutputsKept
PROPERTIES EventuallyAcked
CHECK_DEADLOCK FALSE
