SPECIFICATION FairSpec
CONSTANTS
  N = 3
  Fluxes = {"gateway"}
  Aux = {}
  EofToAll = {}
  Total <- MCTotal
  PacketOutputs = {1}
  CallbackOutputs = {1}
  MaxRedeliveries = 1
INVARIANTS
  TypeOK
  PostprocessAfterAllData
  ForwardedTotalExact
  ExactlyOnce
  FinishedIsClean
  NeverOverreported
PROPERTIES
  ClientFinishes
  ImplementsBarrier
