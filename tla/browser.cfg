SPECIFICATION BrowserSpec
CONSTANTS
  Users = {u1}
  Passwords = {p1}
  Pairs = {t1, t2}
  Requests = {s1, s2}
  Tabs = {b1, b2}
  NoTab = NoTab
  Absent = Absent
  Temporary = Temporary
  NoUser = NoUser
  NoPair = NoPair
  NoPassword = NoPassword
  MAX_ATTEMPTS = 2
  MayFail = FALSE
  MayLose = TRUE
SYMMETRY Symmetry
INVARIANTS HonestRaisesNoAlarm LogoutSticks
CHECK_DEADLOCK FALSE
