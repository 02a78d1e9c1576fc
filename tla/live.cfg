SPECIFICATION FairSpec
CONSTANTS
  Docs = {d1}
  Events = {e1}
  Requests = {s1, s2}
  Runners = {r1}
  NoDoc = NoDoc
  NoEvent = NoEvent
  Ops = {"create", "send", "pay", "overdue"}
  MayFail = TRUE
  GrossTotals <- OneGross
  DueTimes <- DueAtOnce
  DayLength = 1
  MaxNow = 3
  MaxNumber = 1
PROPERTIES PastDueEventuallyCharged PaymentEventuallyApplied
CHECK_DEADLOCK FALSE
