SPECIFICATION Spec
CONSTANTS
  Docs = {d1, d2}
  Events = {e1}
  Requests = {s1, s2}
  Runners = {r1}
  NoDoc = NoDoc
  NoEvent = NoEvent
  Ops = {"create", "send", "delete", "credit", "pay", "overdue"}
  MayFail = TRUE
  GrossTotals <- OneGross
  DueTimes <- DueAtOnce
  DayLength = 1
  MaxNow = 4
  MaxNumber = 2
SYMMETRY Symmetry
VIEW WithoutTrail
INVARIANTS NeverOvercharged LedgerExplainsDebt WaivedAtMostCharged
  CreditNotesPairUp NumbersNeverReused
CHECK_DEADLOCK FALSE
