SPECIFICATION Spec
CONSTANTS
  Tasks = {t1, t2}
  Events <- MCEvents
  SeqNos <- MCSeqNos
  CommitmentCapacity = 2
  MonitoringCapacity = 1
  DedupWindow = 2
  MaxReorderWindow = 1
  MaxWindow = 2
  MaxCalls = 4
INVARIANTS TypeOK DedupSpacing NothingLostSilently ReleasedInOrder HoldsOnlyBehindGap
PROPERTIES InjectReturns
CHECK_DEADLOCK FALSE
