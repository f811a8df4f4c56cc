SPECIFICATION Spec
CONSTANTS
  Topics = {network, alert}
  Holders = {h1, h2, h3}
  MaxTransports = 2
  Threshold = 2
  None = None
INVARIANTS ServerAgrees OneConnection
PROPERTIES Reconnects
CHECK_DEADLOCK FALSE
