SPECIFICATION ExtensionSpec
CONSTANTS
  Windows = {"w1"}
  Tabs = {"t1", "t2"}
  Origins = {"o1"}
  Home <- MCHome
  OriginOf <- MCOriginOf
  MaxRequests = 2
  MaxEdits = 2
  NoOrigin = NoOrigin
INVARIANTS ListShownIsStored
PROPERTIES AttendedIsReleased
CHECK_DEADLOCK FALSE
