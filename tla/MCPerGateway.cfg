SPECIFICATION Spec
CONSTANTS
  Vaults = {v1, v2}
  Nonces = {n1, n2}
  Programs = {rollup, stranger}
  Commitments = {c1}
  PublicInputs = {c1, c2}
  NullProgram = NullProgram
  MaxPerSessionSlots = 1
  FreshNonces = TRUE
  MaxSlot = 2
  MaxEvents = 3
  MaxSent = 2
INVARIANTS SettledByItsRollup
PROPERTIES ImplementsLog AuditTrailKept StalledAreReleased
CHECK_DEADLOCK FALSE
