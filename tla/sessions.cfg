SPECIFICATION Spec
CONSTANTS
  Users = {u1}
  Passwords = {p1, p2}
  Pairs = {t1, t2}
  Requests = {s1, s2}
  Absent = Absent
  Temporary = Temporary
  NoUser = NoUser
  NoPair = NoPair
  NoPassword = NoPassword
  MAX_ATTEMPTS = 2
  MayFail = TRUE
SYMMETRY Symmetry
INVARIANTS FailuresBounded AlarmsBounded FamilyHasUnspent
PROPERTIES PasswordSetOnce DeadStaysDead
CHECK_DEADLOCK FALSE
