SPECIFICATION FairSpec
CONSTANTS
  RawIds <- MCRawIds
  Number <- MCNumber
  Accounts <- MCAccounts
  Transactions <- MCTransactions
  Hash <- MCHash
  FilterAmount = 2
  MapAmount = 2
  JoinAmount = 3
INVARIANTS MaximumIsWhole NameMeetsMaximum
PROPERTIES ImplementsAnswers SmallAnswered
CHECK_DEADLOCK FALSE
