SPECIFICATION ReportsSpec
CONSTANTS
  Docs = {d1, d2}
  Events = {e1}
  Requests = {s1}
  Runners = {}
  NoDoc = NoDoc
  NoEvent = NoEvent
  Ops = {"create", "send"}
  MayFail = FALSE
  GrossTotals <- TotalsOfBaskets
  DueTimes <- DueAtOnce
  DayLength = 2
  MaxNow = 6
  MaxNumber = 2
  Baskets <- TwoBaskets
  BucketDays = 30
  YearLength = 12
  MonthLength = 4
  Ahead = 1
  MONTHS_SHOWN = 2
INVARIANT MonthsAreSwedish
CHECK_DEADLOCK FALSE
