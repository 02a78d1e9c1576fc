SPECIFICATION CheckoutSpec
CONSTANTS
  Docs = {d1}
  Events = {e1, e2, e3}
  Requests = {s1, s2}
  Runners = {}
  LinkRequests = {l1, l2}
  NoDoc = NoDoc
  NoEvent = NoEvent
  Ops = {"create", "send", "remind", "pay"}
  MayFail = TRUE
  GrossTotals <- OneGross
  DueTimes <- DueAtOnce
  DayLength = 1
  MaxNow = 1
  MaxNumber = 1
SYMMETRY Symmetry
VIEW WithoutTrail
INVARIANTS OneLinkUnlessCrossed PaidOnceUnlessCrossed PaidNamesItsPayment
  NeverOverpaid
PROPERTIES ImplementsInvoiceService
CHECK_DEADLOCK FALSE
