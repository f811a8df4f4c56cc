SPECIFICATION VaultSpec
CONSTANTS
  Users = {alice, bob}
  Signers = {rebalancer, anyone}
  Rebalancer = rebalancer
  U64Max = 7
  MaxTvl = 5
  Cooldown = 1
  MaxSlot = 2
INVARIANTS BooksBalance
PROPERTIES NoDilution NothingStranded
CHECK_DEADLOCK FALSE
