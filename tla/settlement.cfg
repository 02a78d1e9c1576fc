SPECIFICATION Spec
CONSTANTS
  Docs = {d1, d2}
  Events = {e1, e2}
  Requests = {s1, s2, s3}
  Runners = {r1}
  NoDoc = NoDoc
  NoEvent = NoEvent
  Ops = {"create", "send", "credit", "remind", "pay"}
  MayFail = FALSE
  GrossTotals <- TwoGross
  DueTimes <- DueAtOnce
  DayLength = 1
  MaxNow = 2
  MaxNumber = 2
SYMMETRY Symmetry
INVARIANTS TypeOK LedgerRowsMatchStatus AuditIsTruthful
PROPERTIES StatusFollowsTable ImplementsReceivable
CHECK_DEADLOCK FALSE
