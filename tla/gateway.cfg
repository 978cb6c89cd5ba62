SPECIFICATION FairSpec
CONSTANTS
  alice = alice
  bob = bob
  q1 = q1
  Clients = {alice, bob}
  Queries = {q1}
  Script <- MCScript
  Window = 2
  Slots = 1
  BatchMax = 2
  MaxFaults = 1
  MaxNacks = 1
INVARIANTS TypeOK EofTotalsExact AcksBalance ResultsExact OwnResults
PROPERTIES ServedFinishes
CHECK_DEADLOCK FALSE
