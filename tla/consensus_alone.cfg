SPECIFICATION Spec
CONSTANTS
  N = 1
  Fluxes = {"usd_filter_q3", "average_per_pay_format_joiner"}
  Aux = {"average_per_pay_format_joiner"}
  EofToAll = {"average_per_pay_format_joiner"}
  Total <- MCTotal
  PacketOutputs = {0, 1}
  CallbackOutputs = {0, 1}
  MaxRedeliveries = 0
INVARIANTS
  ExactlyOnce
