SPECIFICATION Spec
CONSTANTS
  f1 = f1
  Nothing = Nothing
  Finding = {f1}
  Disturbances = {"pause", "cancel", "engage", "refresh", "disconnect", "loss", "expiry"}
  SocketAtMount = {"connecting"}
  Elapsed = {1}
  MaxReconnects = 1
  MaxDisturbances = 1
CHECK_DEADLOCK FALSE

INVARIANTS ShownIsStored
PROPERTIES FindingsOnlyImprove
