SPECIFICATION ServicesSpec
CONSTANTS
  p1 = p1
  g1 = g1
  g2 = g2
  d1 = d1
  e1 = e1
  e2 = e2
  m1 = m1
  m2 = m2
  auto = auto
  op = op
  w1 = w1
  w2 = w2
  f1 = f1
  f2 = f2
  open = open
  fp = fp
  none = none
  a = a
  b = b
  c = c
  x = x
  map = map
  h1 = h1
  h2 = h2
  Host = {h1, h2}
  RawFinding <- MCRawFinding
  MaxScans = 0
  MaxDecisions = 0
  TrendScans = 2
  NoReport = none
  Scheduled = auto
  MaxAttempts = 3
  BatchSize = 1
  MaxPasses = 2
  Decision = {open, fp}
  Open = open
  Nobody = none
  ExpiresAt <- MCExpiresAt
  Followed = {"reports"}
  Report = {p1}
  Generator = {g1, g2}
  Downloader = {}
  Evidence = {e1}
  MaxTime = 1
  ShareDays = {1}
  MaxLinks = 0
  ReportFaults = {"reply_lost"}
  MaxReportFaults = 1
  Mail = {m1, m2}
  Operators = {}
  MailFaults = {"record_fails", "mark_fails", "count_fails", "dies"}
  MaxMailFaults = 1
  Analyst = {w1, w2}
  Fingerprint = {f1, f2}
  MaxClock = 1
  Url = {a, b, c, x, map}
  Sitemap = map
  Sites <- MCSites
  Robots = Robots
  NoUrl = NoUrl
  MaxSitemaps = 0
  MaxDepth = 0
  MaxPages = 0
  MaxRequests = 0
  Handshakes = 0
  Probes = 0
  MaxAttempt = 1
  EngineFaults = {}
  MaxEngineFaults = 0
PROPERTIES
  ReportFinal
CHECK_DEADLOCK FALSE
