SPECIFICATION ServicesSpec
CONSTANTS
  p1 = p1
  g1 = g1
  g2 = g2
  d1 = d1
  e1 = e1
  e2 = e2
  m1 = m1
  m2 = m2
  auto = auto
  op = op
  w1 = w1
  w2 = w2
  f1 = f1
  f2 = f2
  open = open
  fp = fp
  none = none
  a = a
  b = b
  c = c
  x = x
  map = map
  h1 = h1
  h2 = h2
  Host = {h1, h2}
  RawFinding <- MCRawFinding
  MaxScans = 3
  MaxDecisions = 1
  TrendScans = 2
  NoReport = none
  Scheduled = auto
  MaxAttempts = 3
  BatchSize = 1
  MaxPasses = 2
  Decision = {open, fp}
  Open = open
  Nobody = none
  ExpiresAt <- MCExpiresAt
  Followed = {"reports", "mail", "triage", "engine", "results"}
  Report = {p1}
  Generator = {g1, g2}
  Downloader = {d1}
  Evidence = {e1, e2}
  MaxTime = 2
  ShareDays = {1, 2}
  MaxLinks = 1
  ReportFaults = {"refused", "throws", "dies", "mark_fails", "api_dies"}
  MaxReportFaults = 2
  Mail = {m1, m2}
  Operators = {op}
  MailFaults = {"record_fails", "mark_fails", "count_fails", "dies", "by_hand"}
  MaxMailFaults = 1
  Analyst = {w1, w2}
  Fingerprint = {f1, f2}
  MaxClock = 2
  Url = {a, b, c, x, map}
  Sitemap = map
  Sites <- MCSites
  Robots = Robots
  NoUrl = NoUrl
  MaxSitemaps = 1
  MaxDepth = 2
  MaxPages = 5
  MaxRequests = 12
  Handshakes = 1
  Probes = 2
  MaxAttempt = 2
  EngineFaults = {"unanswered", "dns", "unledgered", "dies", "misread"}
  MaxEngineFaults = 1
SYMMETRY MCHosts
INVARIANTS
  ServicesTypeOK
  
  ToldOnce
  OutboxHonest
  ProjectionIsLatest
  
  OneAfterHalt
  CrawlCovers
  ResultsAgree
CHECK_DEADLOCK FALSE
