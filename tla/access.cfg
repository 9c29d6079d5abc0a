SPECIFICATION AccessSpec
CONSTANTS
  u1 = u1
  u2 = u2
  i1 = i1
  i2 = i2
  q1 = q1
  q2 = q2
  o1 = o1
  a1 = a1
  a2 = a2
  e1 = e1
  v1 = v1
  v2 = v2
  r1 = r1
  none = none
  User = {u1, u2}
  SignIn = {i1, i2}
  AdminCall = {q1, q2}
  MaxChanges = 3
  AccountFaults = {"hook_fails", "delete_fails", "signup_dies", "audit_fails"}
  MaxAccountFaults = 1
  NoUser = none
  Origin = {o1}
  Address = {a1, a2}
  Private = {a2}
  Hostings = {{a1}, {a2}}
  Entry = {e1}
  Covers <- MCCovers
  Verifier = {v1, v2}
  Registrar = {r1}
  MaxPerHour = 1
  MaxInFlight = 1
  ValidDays = 1
  LastDay = 1
  MaxRows = 2
  MaxAttempts = 2
  MaxOutside = 4
  TargetFaults = {"redis", "dies"}
  MaxTargetFaults = 1
  NoOrigin = none
  Answers <- MCAnswers
  Pattern <- MCPattern
  Refused <- MCRefused
  MaxMoves = 3
INVARIANTS
  AccessTypeOK
  
  SuspensionsHold
  
  CounterExpires
  
  AnswersAgree
SYMMETRY MCSymmetry
CHECK_DEADLOCK FALSE
