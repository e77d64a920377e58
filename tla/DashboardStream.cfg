\* One tab that may reconnect once, a link change, two ship states, one turn.
SPECIFICATION Spec
CONSTANTS
  Dashboards = {d1}
  QueueSize = 2
  MaxChanges = 1
  MaxSamples = 2
  MaxTurns = 1
  MaxOpens = 2
INVARIANTS StreamIntact SettledIsExplained
PROPERTY ShipPanelMonotone
\* Every tab may be closed, and then nothing is left to do.
CHECK_DEADLOCK FALSE
