SPECIFICATION Spec
CONSTANTS
  Docs = {d1, d2}
  Events = {}
  Clients = {c1, c2}
  Admin = Admin
  NoDoc = NoDoc
  PageLimit = 1
  GrossTotals <- OneGross
  MaxLateFee = 1
  MaxWrites = 4
  MaxFlights = 1
SYMMETRY Symmetry
INVARIANTS RefusedOnlyWhenBehind OwnWritesShow ShownDebtIsLedger
CHECK_DEADLOCK FALSE
