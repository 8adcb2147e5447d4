CONSTANTS
  w1 = w1
  w2 = w2
  m1 = m1
  a1 = a1
  a2 = a2
  email = email
  text = text
  note = note
  s1 = s1
  s2 = s2
  c1 = c1
  c2 = c2
  None = None
  Senders = {s1, s2}
  Keys = {"key"}
  Reports = {"sent", "delivered", "undelivered"}
  Clerks = {c1, c2}
  MaxAttempts = 2
  Heard = {"stop", "start", "hello"}
  KeywordOf <- Keyword
  Absent = Absent
  Importers = {"d1", "d2"}
  Pollers = {"d1"}
  Warm = {"qualified"}
  Unmapped = {"odd"}
  Cold = {}
  Transcripts = {"text"}
  Choices = {"approve", "reject", "cancel", "map", "unmap"}
  MaxRetries = 1
  MaxFetches = 1
  MaxChanges = 2
  MaxCallFaults = 0
  NoDelivery = NoDelivery
  Workers = {w1, w2}
  Emails = {}
  Texts = {text}
  Refusals = {"failed_retryable", "suppressed"}
  Blocks = {"ineligible", "transient"}
  Controls = {"approve", "release", "resume", "cancel", "retry"}
  MaxVersion = 6
  MaxFaults = 3
  Readers = {w1, w2}
  Admins = {a1}
  Mails = {m1}
  EventAttempts = 2
  MaxReviews = 1
  NoEvent = NoEvent
  Tellers = {w1, w2}
  Notices <- MixedReports
  NoticeAttempts = 2
  NoNotice = NoNotice
  Keepers = {w1, w2}
  Received <- TwoMessages
  MaxTotal = 4
  MediaAttempts = 3
  NoKeeper = NoKeeper
SPECIFICATION DeliveriesSpec
SYMMETRY WorkerSymmetry
INVARIANTS
  RowsTyped
  ShownIsTrue
  TextSentOnce
  ImportsTrue
  PhotosKept
  Converges
  SentOncePerKey
  ReportsKept
  LeadRestsOnEvidence
PROPERTIES
  EndedStaysEnded
  StopHolds
CHECK_DEADLOCK FALSE
