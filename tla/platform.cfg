SPECIFICATION PlatformSpec
CONSTANTS
  Part = {"deals", "documents", "impact", "compliance", "breaker", "consumer", "cache", "health"}
  Deal = {d1}
  Request = {r1, r2}
  Document = {f1, f2}
  Call = {c1, c2, c3}
  Threshold = 2
  MaxTests = 2
  Reported = {p1}
  Metrics = {g1, g2}
  ReportRequest = {r1, r2}
  None = None
  Case = {1, 2, 3}
  Personal = {1, 3}
  CaseBatch = 1
  Evaluation = {r1, r2}
  Failing = {0, 1, 3}
  Consumer = {c1, c2}
  MaxLog = 3
  MaxRetries = 2
  CacheRequest = {r1, r2}
  MaxVersion = 1
  Dependency = {d1, d2}
CHECK_DEADLOCK FALSE
INVARIANTS PlatformTypeOK OpenedFirst AccountsAreTrue DecisionsAreTrue
PROPERTIES BreakerRecovers MessagesAreKept TimersEnd
