SPECIFICATION FairSpec
CONSTANTS
  f1 = f1
  Nothing = Nothing
  Finding = {f1}
  Disturbances = {"disconnect"}
  SocketAtMount = {"connected", "error"}
  Elapsed = {1}
  MaxReconnects = 0
  MaxDisturbances = 1
CHECK_DEADLOCK FALSE

INVARIANTS TypeOK
PROPERTIES StatusForward EndingShown FindingsShownIfLoaded
