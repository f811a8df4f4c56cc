SPECIFICATION ExtensionSpec
CONSTANTS
  Windows = {"w1"}
  Tabs = {"t1", "t2"}
  Origins = {"o1"}
  Home <- MCHome
  OriginOf <- MCOriginOf
  MaxRequests = 1
  MaxEdits = 0
  NoOrigin = NoOrigin
PROPERTIES OverlayIsReleased
CHECK_DEADLOCK FALSE
