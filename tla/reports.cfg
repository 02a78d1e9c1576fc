SPECIFICATION ReportsSpec
CONSTANTS
  Docs = {d1, d2}
  Events = {e1}
  Requests = {s1}
  Runners = {r1}
  NoDoc = NoDoc
  NoEvent = NoEvent
  Ops = {"create", "send", "credit", "remind", "pay", "overdue"}
  MayFail = FALSE
  GrossTotals <- TotalsOfBaskets
  DueTimes <- DueAtOnce
  DayLength = 1
  MaxNow = 2
  MaxNumber = 2
  Baskets <- TwoBaskets
  BucketDays = 1
  YearLength = 2
  MonthLength = 2
  Ahead = 0
  MONTHS_SHOWN = 2
SYMMETRY Symmetry
VIEW WithoutTrail
CONSTRAINT FewReminders
INVARIANTS SieBalances VatReconciles OutstandingAgrees
CHECK_DEADLOCK FALSE
