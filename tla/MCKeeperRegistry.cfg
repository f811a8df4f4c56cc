SPECIFICATION Spec
CONSTANTS
  rebalance = rebalance
  archive = archive
  disclose = disclose
  RebalanceKeeper = RebalanceKeeper
  ArchiveKeeper = ArchiveKeeper
  Keepers = {k1, k2}
  Roles <- MCRoles
  Actions <- MCActions
  CanonicalScope <- MCScope
  Terms <- MCTerms
  Notionals = {1, 2}
  NotionalMax = 3
  MaxTx = 3
  MaxSlot = 2
INVARIANTS LimitsRespected RevocationIsFinal OneHome
PROPERTIES NeverEdited
CHECK_DEADLOCK FALSE
