SPECIFICATION Spec
CONSTANTS
  Writers = {w1, w2}
  Rows <- MCRows
  Receipts <- MCRows
  MaxCalls = 5
  FlushEveryNLeaves = 3
  FlushEveryNSlots = 3
  MaxPendingLeaves = 4
  ReceiptBuffer = 1
  AnchorBuffer = 1
INVARIANTS TypeOK SubmittedIsArchived EachLeafOnce BatchesCoverLeaves SlotThresholdKept
PROPERTIES FullChannelDrains AllAnchoredAtEnd
CHECK_DEADLOCK FALSE
