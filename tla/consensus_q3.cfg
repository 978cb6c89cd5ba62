SPECIFICATION Spec
CONSTANTS
  N = 2
  Fluxes <- MCFluxes
  Aux <- MCAux
  EofToAll <- MCAux
  Total <- MCTotal
  PacketOutputs = {1}
  CallbackOutputs = {1}
  MaxRedeliveries = 0
INVARIANTS
  ExactlyOnce
CHECK_DEADLOCK FALSE
