SPECIFICATION Spec
CONSTANTS
  Events <- MCEvents
  Topics <- MCTopics
  Critical <- MCCritical
  Tolerance = 1
  BufferMax = 1
  DedupEntries = 2
  MaxPushes = 4
  None = None
INVARIANTS DedupWindow EventsAccounted CriticalKept
PROPERTIES BackByTolerance BufferedIsShown
CHECK_DEADLOCK FALSE
