SPECIFICATION Spec
CONSTANTS
  s1 = s1  s2 = s2  s3 = s3  t1 = t1  t2 = t2  o1 = o1
  h1 = h1  h2 = h2  h3 = h3  w1 = w1  w2 = w2  r1 = r1
  NoOne = NoOne
  Scan = {s1}
  Target = {t1}
  Org = {o1}
  TargetOf <- MCTargetOf
  OrgOf <- MCOrgOf
  MaxConcurrent <- Quota2
  Handler = {h1, h2}
  Sweeper = {}
  Worker = {w1, w2}
  Controls = {"pause", "resume", "cancel"}
  MaxAttempt = 2
  MaxFaults = 1
  MaxStalledCount = 1
SYMMETRY Processes
INVARIANTS TypeOK KillSwitchClears OneWorkerPerScan DrivenUntilResumed
PROPERTIES TerminalAbsorbing
