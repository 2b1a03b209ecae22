SPECIFICATION Spec
CONSTANTS
  Part = {"projects", "diligence", "logins", "sessions", "kyc", "votes", "disputes", "paging", "reports",
          "inbox", "messages", "watchlist", "advisor", "gallery", "milestones"}
  Project = {p1}
  ProjectRequest = {r1, r2}
  Assessed = {x1}
  Assessor = {a1}
  Admin = admin
  Asked = {"", "COMPLETED", "NEEDS_INFORMATION"}
  Task = {j1}
  CaseRequest = {r1, r2}
  LoginRequest = {r1, r2}
  Tries = 3
  MaxFailures = 4
  SessionRequest = {r1, r2}
  Token = {t1, t2, t3}
  Reset = {x1}
  NoToken = NoToken
  Application = {k1, b1}
  Business = {b1}
  AnswerNow = {"PENDING", "VERIFIED"}
  Voter = {u1, u2}
  VoteRequest = {r1, r2}
  VoteChanges = 2
  Dispute = {d1, d2}
  DisputeRequest = {r1, r2}
  DisputeAsked = {"UNDER_REVIEW", "RESOLVED", "CLOSED"}
  MaxRows = 3
  Limit = 1
  MaxChanges = 2
  ReportRow = {1, 2}
  ReportChanges = 2
  Note = {n1, n2}
  Reader = {u1, u2}
  NoteRequest = {r1, r2}
  Recent = 1
  ReadAlls = 2
  Writer = {u1, u2, u3}
  MaxMessages = 3
  FetchLimit = 2
  Watched = {d1, d2}
  WatchRequest = {r1, r2}
  ChatSession = {s1, s2}
  Question = {q1, q2, q3}
  Picture = {x1, x2, x3}
  Reorder = {r1, r2}
  SortOrders = {0}
  Milestone = {m1}
  StageRequest = {r1, r2}
SYMMETRY MCServicesSymmetry
CHECK_DEADLOCK FALSE
INVARIANTS TypeOK OfferedWasApproved SessionsAreKept VerdictsAreKept RecordsAreKept FiguresAreClose
PROPERTIES DecisionsStand
