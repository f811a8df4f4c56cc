SPECIFICATION Spec
CONSTANTS
  Tasks = {t1, t2}
  Events <- MCEvents
  SeqNos <- MCSeqNos
  CommitmentCapacity = 2
  MonitoringCapacity = 1
  DedupWindow = 2
  MaxReorderWindow = 1
  MaxWindow = 2
  MaxCalls = 3
INVARIANTS ChannelWithinWindow
CHECK_DEADLOCK FALSE
