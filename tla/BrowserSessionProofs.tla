------------------------ MODULE BrowserSessionProofs ------------------------
(***************************************************************************)
(* Theorems about AuthService and about BrowserSession, which extends it.  *)
(*                                                                         *)
(* The first part is about the server alone: for any number of accounts,   *)
(* passwords, tokens and requests in flight, and any limit of attempts.    *)
(* The second, from "Types, and the step a call is served by", puts the    *)
(* browser in front of it: for any number of tabs and calls, whatever      *)
(* answers are lost or come late.                                          *)
(***************************************************************************)
EXTENDS BrowserSession, FiniteSetTheorems, TLAPS

-----------------------------------------------------------------------------
(* Type correctness                                                        *)

\* What the fields of a slot hold depends on the step it is at; the token it
\* has read stays in the table.
UserSteps     == {"invalidate", "issue", "spend", "store", "retire", "revoke",
                  "verify", "count", "clear", "clear_weak", "upgrade", "open"}
PasswordSteps == {"spend", "store", "verify", "clear_weak", "upgrade"}
PairSteps     == {"alarm", "rotate", "end"}

SlotOK(slot) ==
    /\ slot \in Request
    /\ slot.step \in UserSteps => slot.user \in Users
    /\ slot.step \in PasswordSteps => slot.password \in Passwords
    /\ slot.step \in PairSteps => slot.pair \in Pairs /\ Stored(slot.pair)
    /\ slot.step = "deny" => slot.access \in Pairs
    /\ slot.step = "end" => slot.access \in Pairs \cup {NoPair}

TypeInv ==
    /\ password \in [Users -> Passwords \cup {Absent, Temporary}]
    /\ weak \in SUBSET Users
    /\ link \in [Users -> Link]
    /\ session \in [Pairs -> Row]
    /\ attempts \in [Users -> Nat]
    /\ alarms \in [Pairs -> Nat]
    /\ req \in [Requests -> Request]
    /\ \A s \in Requests : SlotOK(req[s])

\* A row, once there, is never removed.
RowsStay == \A t \in Pairs : Stored(t) => Stored(t)'

\* An idle slot is well formed.
LEMMA IdleOK == SlotOK(Idle)
BY DEF SlotOK, Idle, Request, Steps, UserSteps, PasswordSteps, PairSteps

\* A step that replaces one slot by a good one, and removes no row, keeps
\* the slots good.
LEMMA SlotsKept ==
    ASSUME TypeInv, RowsStay, NEW s \in Requests, NEW slot,
           SlotOK(slot), req' = [req EXCEPT ![s] = slot]
    PROVE  req' \in [Requests -> Request] /\ \A r \in Requests : SlotOK(req[r])'
BY DEF TypeInv, RowsStay, SlotOK, Stored

\* The same of a step that leaves every slot alone.
LEMMA SlotsUntouched ==
    ASSUME TypeInv, RowsStay, UNCHANGED req
    PROVE  req' \in [Requests -> Request] /\ \A r \in Requests : SlotOK(req[r])'
BY DEF TypeInv, RowsStay, SlotOK, Stored

\* What the writes to the RefreshToken table leave is a table again, with all
\* the rows it had.
SessionsOK == session' \in [Pairs -> Row] /\ RowsStay

\* Each way to write the table of tokens keeps its type.
LEMMA SessionWrites ==
    ASSUME TypeInv
    PROVE  /\ UNCHANGED session => SessionsOK
           /\ \A t \in Pairs, u \in Users : CreateRefreshToken(t, u) => SessionsOK
           /\ \A spent, t \in Pairs :
                Stored(spent) /\ RotateRefreshToken(spent, t) => SessionsOK
           /\ \A f : RevokeFamily(f) => SessionsOK
           /\ \A u : RevokeAllForUser(u) => SessionsOK
           /\ \A t \in Pairs, e \in {"valid", "denied", "expired"} :
                session' = [session EXCEPT ![t].access = e] => SessionsOK
           /\ \A t \in Pairs :
                session' = [session EXCEPT ![t].expired = TRUE] => SessionsOK
<1> USE DEF SessionsOK, RowsStay, Stored
<1>0. session \in [Pairs -> Row]
  BY DEF TypeInv
<1>1. UNCHANGED session => SessionsOK
  BY <1>0
<1>2. ASSUME NEW t \in Pairs, NEW u \in Users, CreateRefreshToken(t, u) PROVE SessionsOK
  <2>1. Created(t, u, t) \in Row /\ Created(t, u, t).family = t
    BY DEF Created, NoSession, Row
  <2>2. session' = [session EXCEPT ![t] = Created(t, u, t)]
    BY <1>2 DEF CreateRefreshToken
  <2>3. QED
    BY <1>0, <2>1, <2>2, AuthNullsAssumption
<1>3. ASSUME NEW spent \in Pairs, NEW t \in Pairs, Stored(spent),
             RotateRefreshToken(spent, t) PROVE SessionsOK
  <2> DEFINE new == Created(t, session[spent].user, session[spent].family)
             old == [session[spent] EXCEPT !.rotated = TRUE]
  <2>1. old \in Row /\ old.family = session[spent].family
    BY <1>0 DEF Row
  <2>2. new \in Row /\ new.family = session[spent].family
    BY <1>0 DEF Created, NoSession, Row
  <2>3. session' = [session EXCEPT ![spent] = old, ![t] = new]
    BY <1>0, <1>3 DEF RotateRefreshToken
  <2> HIDE DEF new, old
  <2>4. QED
    BY <1>0, <1>3, <2>1, <2>2, <2>3
<1>4. ASSUME NEW f, RevokeFamily(f) PROVE SessionsOK
  BY <1>0, <1>4 DEF RevokeFamily, Row
<1>5. ASSUME NEW u, RevokeAllForUser(u) PROVE SessionsOK
  BY <1>0, <1>5 DEF RevokeAllForUser, Row
<1>6. ASSUME NEW t \in Pairs, NEW e \in {"valid", "denied", "expired"},
             session' = [session EXCEPT ![t].access = e] PROVE SessionsOK
  BY <1>0, <1>6 DEF Row
<1>7. ASSUME NEW t \in Pairs, session' = [session EXCEPT ![t].expired = TRUE] PROVE SessionsOK
  BY <1>0, <1>7 DEF Row
<1>8. QED
  BY <1>1, <1>2, <1>3, <1>4, <1>5, <1>6, <1>7

\* What a handler does to its slot: return, go on, or start.
ReqOK == req' \in [Requests -> Request] /\ \A r \in Requests : SlotOK(req[r])'

\* Each way to write a slot keeps its type.
LEMMA SlotMoves ==
    ASSUME TypeInv, RowsStay, NEW s \in Requests
    PROVE  /\ UNCHANGED req => ReqOK
           /\ Return(s) => ReqOK
           /\ \A step \in UserSteps \ PasswordSteps :
                req[s].step \in UserSteps /\ Goto(s, step) => ReqOK
           /\ \A step \in PasswordSteps :
                req[s].step \in PasswordSteps /\ Goto(s, step) => ReqOK
           /\ req[s].access \in Pairs /\ Goto(s, "deny") => ReqOK
           /\ \A slot : SlotOK(slot) /\ req' = [req EXCEPT ![s] = slot] => ReqOK
<1> USE DEF ReqOK
<1>0. req \in [Requests -> Request] /\ SlotOK(req[s])
  BY DEF TypeInv
<1>1. UNCHANGED req => ReqOK
  BY SlotsUntouched
<1>2. Return(s) => ReqOK
  BY IdleOK, SlotsKept DEF Return
<1>3. ASSUME NEW step \in UserSteps \ PasswordSteps,
             req[s].step \in UserSteps, Goto(s, step) PROVE ReqOK
  <2>1. SlotOK([req[s] EXCEPT !.step = step])
    BY <1>0, <1>3 DEF SlotOK, Request, Steps, UserSteps, PasswordSteps, PairSteps
  <2>2. QED
    BY <1>3, <2>1, SlotsKept DEF Goto
<1>4. ASSUME NEW step \in PasswordSteps,
             req[s].step \in PasswordSteps, Goto(s, step) PROVE ReqOK
  <2>1. SlotOK([req[s] EXCEPT !.step = step])
    BY <1>0, <1>4 DEF SlotOK, Request, Steps, UserSteps, PasswordSteps, PairSteps
  <2>2. QED
    BY <1>4, <2>1, SlotsKept DEF Goto
<1>5. ASSUME req[s].access \in Pairs, Goto(s, "deny") PROVE ReqOK
  <2>1. SlotOK([req[s] EXCEPT !.step = "deny"])
    BY <1>0, <1>5 DEF SlotOK, Request, Steps, UserSteps, PasswordSteps, PairSteps
  <2>2. QED
    BY <1>5, <2>1, SlotsKept DEF Goto
<1>6. ASSUME NEW slot, SlotOK(slot), req' = [req EXCEPT ![s] = slot] PROVE ReqOK
  BY <1>6, SlotsKept
<1>7. QED
  BY <1>1, <1>2, <1>3, <1>4, <1>5, <1>6

\* The slots a request starts with are good ones.
LEMMA StartsOK ==
    /\ \A u \in Users : SlotOK([Idle EXCEPT !.step = "invalidate", !.user = u])
    /\ \A u \in Users, p \in Passwords, step \in {"spend", "verify"} :
        SlotOK([Idle EXCEPT !.step = step, !.user = u, !.password = p])
    /\ \A t \in Pairs, step \in {"alarm", "rotate"} :
        Stored(t) => SlotOK([Idle EXCEPT !.step = step, !.pair = t])
    /\ \A t, a \in Pairs \cup {NoPair} :
        (t # NoPair => Stored(t)) /\ (t # NoPair \/ a # NoPair) =>
            SlotOK([Idle EXCEPT !.step = IF t # NoPair THEN "end" ELSE "deny",
                                !.pair = t, !.access = a])
<1> USE DEF SlotOK, Idle, Request, Steps, UserSteps, PasswordSteps, PairSteps
<1>1. ASSUME NEW u \in Users
      PROVE  SlotOK([Idle EXCEPT !.step = "invalidate", !.user = u])
  OBVIOUS
<1>2. ASSUME NEW u \in Users, NEW p \in Passwords, NEW step \in {"spend", "verify"}
      PROVE  SlotOK([Idle EXCEPT !.step = step, !.user = u, !.password = p])
  OBVIOUS
<1>3. ASSUME NEW t \in Pairs, NEW step \in {"alarm", "rotate"}, Stored(t)
      PROVE  SlotOK([Idle EXCEPT !.step = step, !.pair = t])
  BY <1>3
<1>4. ASSUME NEW t \in Pairs \cup {NoPair}, NEW a \in Pairs \cup {NoPair},
             t # NoPair => Stored(t), t # NoPair \/ a # NoPair
      PROVE  SlotOK([Idle EXCEPT !.step = IF t # NoPair THEN "end" ELSE "deny",
                                 !.pair = t, !.access = a])
  <2>1. CASE t # NoPair
    BY <1>4, <2>1
  <2>2. CASE t = NoPair
    BY <1>4, <2>2
  <2>3. QED
    BY <2>1, <2>2
<1> HIDE DEF SlotOK, Idle, Request, Steps, UserSteps, PasswordSteps, PairSteps
<1>5. QED
  BY <1>1, <1>2, <1>3, <1>4

\* The steps of createClient keep TypeInv.
LEMMA InviteTypes ==
    ASSUME TypeInv, NEW s \in Requests, InviteStep(s)
    PROVE  TypeInv'
<1> USE DEF TypeInv, SessionsOK, ReqOK
<1>0. SlotOK(req[s])
  OBVIOUS
<1>1. ASSUME NEW u \in Users, CreateClient(s, u) PROVE TypeInv'
  <2>1. SessionsOK
    BY <1>1, SessionWrites DEF CreateClient, CreateClientWithUser
  <2>2. ReqOK
    BY <1>1, <2>1, SlotMoves, StartsOK, Zenon DEF CreateClient
  <2>3. QED
    BY <1>1, <2>1, <2>2 DEF CreateClient, CreateClientWithUser, GenerateTemporaryPassword
<1>2. ASSUME InvalidateLinks(s) PROVE TypeInv'
  <2>1. SessionsOK
    BY <1>2, SessionWrites DEF InvalidateLinks
  <2>2. ReqOK
    BY <1>2, <2>1, SlotMoves DEF InvalidateLinks, At, UserSteps, PasswordSteps
  <2>3. link' \in [Users -> Link]
    BY <1>2, ZenonT(40) DEF InvalidateLinks, InvalidateAllForUser, Link
  <2>4. QED
    BY <1>2, <2>1, <2>2, <2>3 DEF InvalidateLinks
<1>3. ASSUME IssueLink(s) PROVE TypeInv'
  <2>1. SessionsOK
    BY <1>3, SessionWrites DEF IssueLink
  <2>2. ReqOK
    BY <1>3, <2>1, SlotMoves DEF IssueLink
  <2>3. link' \in [Users -> Link]
    BY <1>3 DEF IssueLink, Link
  <2>4. QED
    BY <1>3, <2>1, <2>2, <2>3 DEF IssueLink
<1>4. QED
  BY <1>1, <1>2, <1>3 DEF InviteStep

\* The steps of redeemPasswordToken keep TypeInv.
LEMMA RedeemTypes ==
    ASSUME TypeInv, NEW s \in Requests, RedeemStep(s)
    PROVE  TypeInv'
<1> USE DEF TypeInv, SessionsOK, ReqOK
<1>0. SlotOK(req[s])
  OBVIOUS
<1>1. ASSUME NEW u \in Users, NEW p \in Passwords, ReadLink(s, u, p) PROVE TypeInv'
  <2>1. SessionsOK
    BY <1>1, SessionWrites DEF ReadLink, tables
  <2>2. ReqOK
    BY <1>1, <2>1, SlotMoves, StartsOK, Zenon DEF ReadLink
  <2>3. QED
    BY <1>1, <2>1, <2>2 DEF ReadLink, tables
<1>2. ASSUME SpendLink(s) PROVE TypeInv'
  <2>1. SessionsOK
    BY <1>2, SessionWrites DEF SpendLink, MarkUsed
  <2>2. ReqOK
    BY <1>2, <2>1, SlotMoves DEF SpendLink, MarkUsed, At, PasswordSteps
  <2>3. link' \in [Users -> Link]
    BY <1>2 DEF SpendLink, MarkUsed, Link
  <2>4. QED
    BY <1>2, <2>1, <2>2, <2>3 DEF SpendLink, MarkUsed
<1>3. ASSUME StorePassword(s) PROVE TypeInv'
  <2>1. SessionsOK
    BY <1>3, SessionWrites DEF StorePassword
  <2>2. ReqOK
    BY <1>3, <2>1, SlotMoves DEF StorePassword, At, UserSteps, PasswordSteps
  <2>3. password' \in [Users -> Passwords \cup {Absent, Temporary}] /\ weak' \in SUBSET Users
    BY <1>0, <1>3 DEF StorePassword, UpdatePasswordHash, At, SlotOK, PasswordSteps
  <2>4. QED
    BY <1>3, <2>1, <2>2, <2>3 DEF StorePassword
<1>4. ASSUME RetireLinks(s) PROVE TypeInv'
  <2>1. SessionsOK
    BY <1>4, SessionWrites DEF RetireLinks
  <2>2. ReqOK
    BY <1>4, <2>1, SlotMoves DEF RetireLinks, At, UserSteps, PasswordSteps
  <2>3. link' \in [Users -> Link]
    BY <1>4, ZenonT(40) DEF RetireLinks, InvalidateAllForUser, Link
  <2>4. QED
    BY <1>4, <2>1, <2>2, <2>3 DEF RetireLinks
<1>5. ASSUME RevokeSessions(s) PROVE TypeInv'
  <2>1. SessionsOK
    BY <1>5, SessionWrites DEF RevokeSessions
  <2>2. ReqOK
    BY <1>5, <2>1, SlotMoves DEF RevokeSessions
  <2>3. QED
    BY <1>5, <2>1, <2>2 DEF RevokeSessions
<1>6. QED
  BY <1>1, <1>2, <1>3, <1>4, <1>5 DEF RedeemStep

\* The steps of login keep TypeInv.
LEMMA LoginTypes ==
    ASSUME TypeInv, NEW s \in Requests, LoginStep(s)
    PROVE  TypeInv'
<1> USE DEF TypeInv, SessionsOK, ReqOK
<1>0. SlotOK(req[s])
  OBVIOUS
<1>1. ASSUME NEW u \in Users, NEW p \in Passwords, CheckAttempts(s, u, p) PROVE TypeInv'
  <2>1. SessionsOK
    BY <1>1, SessionWrites DEF CheckAttempts, tables
  <2>2. ReqOK
    BY <1>1, <2>1, SlotMoves, StartsOK, Zenon DEF CheckAttempts
  <2>3. QED
    BY <1>1, <2>1, <2>2 DEF CheckAttempts, tables
<1>2. ASSUME Verify(s) PROVE TypeInv'
  <2>1. SessionsOK
    BY <1>2, SessionWrites DEF Verify, tables
  <2>2. ReqOK
    BY <1>2, <2>1, SlotMoves DEF Verify, At, UserSteps, PasswordSteps
  <2>3. QED
    BY <1>2, <2>1, <2>2 DEF Verify, tables
<1>3. ASSUME CountFailure(s) PROVE TypeInv'
  <2>1. SessionsOK
    BY <1>3, SessionWrites DEF CountFailure
  <2>2. ReqOK
    BY <1>3, <2>1, SlotMoves DEF CountFailure
  <2>3. req[s].user \in Users
    BY <1>0, <1>3 DEF CountFailure, At, SlotOK, UserSteps
  <2>4. attempts' \in [Users -> Nat]
    BY <1>3, <2>3 DEF CountFailure
  <2>5. QED
    BY <1>3, <2>1, <2>2, <2>4 DEF CountFailure
<1>4. ASSUME ClearFailures(s) PROVE TypeInv'
  <2>1. SessionsOK
    BY <1>4, SessionWrites DEF ClearFailures
  <2>2. ReqOK
    BY <1>4, <2>1, SlotMoves DEF ClearFailures, At, UserSteps, PasswordSteps
  <2>3. QED
    BY <1>4, <2>1, <2>2 DEF ClearFailures
<1>5. ASSUME UpgradeHash(s) PROVE TypeInv'
  <2>1. SessionsOK
    BY <1>5, SessionWrites DEF UpgradeHash
  <2>2. ReqOK
    BY <1>5, <2>1, SlotMoves DEF UpgradeHash, At, UserSteps, PasswordSteps
  <2>3. password' \in [Users -> Passwords \cup {Absent, Temporary}] /\ weak' \in SUBSET Users
    BY <1>0, <1>5 DEF UpgradeHash, UpdatePasswordHash, At, SlotOK, PasswordSteps
  <2>4. QED
    BY <1>5, <2>1, <2>2, <2>3 DEF UpgradeHash
<1>6. ASSUME NEW t \in Pairs, OpenSession(s, t) PROVE TypeInv'
  <2>0. req[s].user \in Users
    BY <1>0, <1>6 DEF OpenSession, At, SlotOK, UserSteps
  <2>1. SessionsOK
    BY <1>6, <2>0, SessionWrites DEF OpenSession
  <2>2. ReqOK
    BY <1>6, <2>1, SlotMoves DEF OpenSession
  <2>3. QED
    BY <1>6, <2>1, <2>2 DEF OpenSession
<1>7. QED
  BY <1>1, <1>2, <1>3, <1>4, <1>5, <1>6 DEF LoginStep

\* The steps of refresh keep TypeInv.
LEMMA RefreshTypes ==
    ASSUME TypeInv, NEW s \in Requests, RefreshStep(s)
    PROVE  TypeInv'
<1> USE DEF TypeInv, SessionsOK, ReqOK
<1>0. SlotOK(req[s])
  OBVIOUS
<1>1. ASSUME NEW t \in Pairs, PresentToken(s, t) PROVE TypeInv'
  <2>1. SessionsOK
    BY <1>1, SessionWrites DEF PresentToken, Asked, tables
  <2>2. ReqOK
    BY <1>1, <2>1, SlotMoves, StartsOK, Zenon DEF PresentToken, Asked, Refused, Live
  <2>3. QED
    BY <1>1, <2>1, <2>2 DEF PresentToken, Asked, tables
<1>2. ASSUME NEW t \in Pairs, Rotate(s, t) PROVE TypeInv'
  <2>0. req[s].pair \in Pairs /\ Stored(req[s].pair)
    BY <1>0, <1>2 DEF Rotate, At, SlotOK, PairSteps
  <2>1. SessionsOK
    BY <1>2, <2>0, SessionWrites DEF Rotate
  <2>2. ReqOK
    BY <1>2, <2>1, SlotMoves DEF Rotate
  <2>3. QED
    BY <1>2, <2>1, <2>2 DEF Rotate
<1>3. ASSUME RaiseAlarm(s) PROVE TypeInv'
  <2>0. req[s].pair \in Pairs
    BY <1>0, <1>3 DEF RaiseAlarm, At, SlotOK, PairSteps
  <2>1. SessionsOK
    BY <1>3, SessionWrites DEF RaiseAlarm
  <2>2. ReqOK
    BY <1>3, <2>1, SlotMoves DEF RaiseAlarm
  <2>3. alarms' \in [Pairs -> Nat]
    BY <1>3, <2>0 DEF RaiseAlarm
  <2>4. QED
    BY <1>3, <2>1, <2>2, <2>3 DEF RaiseAlarm
<1>4. QED
  BY <1>1, <1>2, <1>3 DEF RefreshStep

\* The steps of logout keep TypeInv.
LEMMA LogoutTypes ==
    ASSUME TypeInv, NEW s \in Requests, LogoutStep(s)
    PROVE  TypeInv'
<1> USE DEF TypeInv, SessionsOK, ReqOK
<1>0. SlotOK(req[s])
  OBVIOUS
<1>1. ASSUME NEW t \in Pairs \cup {NoPair}, NEW a \in Pairs \cup {NoPair},
             AskLogout(s, t, a) PROVE TypeInv'
  <2>1. SessionsOK
    BY <1>1, SessionWrites DEF AskLogout, tables
  <2>2. ReqOK
    BY <1>1, <2>1, SlotMoves, StartsOK, Zenon DEF AskLogout
  <2>3. QED
    BY <1>1, <2>1, <2>2 DEF AskLogout, tables
<1>2. ASSUME EndFamily(s) PROVE TypeInv'
  <2>0. req[s].access \in Pairs \cup {NoPair}
    BY <1>0, <1>2 DEF EndFamily, At, SlotOK
  <2>1. SessionsOK
    BY <1>2, SessionWrites DEF EndFamily
  <2>2. ReqOK
    BY <1>2, <2>0, <2>1, SlotMoves DEF EndFamily
  <2>3. QED
    BY <1>2, <2>1, <2>2 DEF EndFamily
<1>3. ASSUME DenyAccess(s) PROVE TypeInv'
  <2>0. req[s].access \in Pairs
    BY <1>0, <1>3 DEF DenyAccess, At, SlotOK
  <2> DEFINE e == IF session[req[s].access].access = "expired" THEN "expired" ELSE "denied"
  <2>1. session' = [session EXCEPT ![req[s].access].access = e]
    BY <1>3 DEF DenyAccess
  <2>2. e \in {"valid", "denied", "expired"}
    OBVIOUS
  <2> HIDE DEF e
  <2>3. SessionsOK
    BY <2>0, <2>1, <2>2, SessionWrites
  <2>4. ReqOK
    BY <1>3, <2>3, SlotMoves DEF DenyAccess
  <2>5. QED
    BY <1>3, <2>3, <2>4 DEF DenyAccess
<1>4. QED
  BY <1>1, <1>2, <1>3 DEF LogoutStep

\* A refused hash, a failed request, expiry and stuttering keep TypeInv.
LEMMA OtherTypes ==
    ASSUME TypeInv
    PROVE  /\ \A s \in Requests : Busy(s) \/ FailRequest(s) => TypeInv'
           /\ Expiry => TypeInv'
           /\ UNCHANGED vars => TypeInv'
<1> USE DEF TypeInv, SessionsOK, ReqOK
<1>1. ASSUME NEW s \in Requests, Busy(s) \/ FailRequest(s) PROVE TypeInv'
  <2>1. SessionsOK
    BY <1>1, SessionWrites DEF Busy, FailRequest, tables
  <2>2. ReqOK
    BY <1>1, <2>1, SlotMoves DEF Busy, FailRequest
  <2>3. QED
    BY <1>1, <2>1, <2>2 DEF Busy, FailRequest, tables
<1>2. ASSUME NEW u \in Users, LinkExpires(u) \/ WindowEnds(u) PROVE TypeInv'
  <2>1. SessionsOK
    BY <1>2, SessionWrites DEF LinkExpires, WindowEnds
  <2>2. ReqOK
    BY <1>2, <2>1, SlotsUntouched DEF LinkExpires, WindowEnds
  <2>3. link' \in [Users -> Link]
    BY <1>2 DEF LinkExpires, WindowEnds, Link
  <2>4. QED
    BY <1>2, <2>1, <2>2, <2>3 DEF LinkExpires, WindowEnds
<1>3. ASSUME NEW t \in Pairs, SessionExpires(t) \/ AccessExpires(t) PROVE TypeInv'
  <2>1. SessionsOK
    BY <1>3, SessionWrites DEF SessionExpires, AccessExpires
  <2>2. ReqOK
    BY <1>3, <2>1, SlotsUntouched DEF SessionExpires, AccessExpires
  <2>3. QED
    BY <1>3, <2>1, <2>2 DEF SessionExpires, AccessExpires
<1>4. ASSUME UNCHANGED vars PROVE TypeInv'
  <2>1. SessionsOK
    BY <1>4, SessionWrites DEF vars, tables
  <2>2. ReqOK
    BY <1>4, <2>1, SlotsUntouched DEF vars
  <2>3. QED
    BY <1>4, <2>1, <2>2 DEF vars, tables
<1>5. QED
  BY <1>1, <1>2, <1>3, <1>4 DEF Expiry

\* TypeInv holds at first.
LEMMA TypeInvInit == Init => TypeInv
BY IdleOK DEF Init, TypeInv, Link, Row, NoSession, SlotOK

\* TypeInv is inductive.
LEMMA TypeInvStep == TypeInv /\ [Next]_vars => TypeInv'
BY InviteTypes, RedeemTypes, LoginTypes, RefreshTypes, LogoutTypes, OtherTypes DEF Next

\* Every table and every slot holds what its type says, whatever the
\* handlers read before and write after each other.
THEOREM TypeCorrect == Spec => []TypeOK
<1>1. TypeInv => TypeOK
  BY DEF TypeInv, TypeOK
<1>2. QED
  BY <1>1, TypeInvInit, TypeInvStep, PTL DEF Spec

-----------------------------------------------------------------------------
(* Families of tokens                                                      *)

\* A step that creates no row keeps every row's family, owner and rotation,
\* and brings none back that was revoked.
SessionsKept ==
    \A t \in Pairs :
        /\ session'[t].family = session[t].family
        /\ session'[t].rotated = session[t].rotated
        /\ session[t].revoked => session'[t].revoked

\* Only a login and a rotation change a family or spend a token.
LEMMA SessionEffect ==
    ASSUME TypeInv, [Next]_vars
    PROVE  \/ SessionsKept
           \/ \E s \in Requests, t \in Pairs : OpenSession(s, t) \/ Rotate(s, t)
<1> USE DEF SessionsKept
<1>0. session \in [Pairs -> Row] /\ \A s \in Requests : SlotOK(req[s])
  BY DEF TypeInv
<1>1. UNCHANGED session => SessionsKept
  OBVIOUS
<1>2. \A f : RevokeFamily(f) => SessionsKept
  BY <1>0 DEF RevokeFamily, Row
<1>3. \A u : RevokeAllForUser(u) => SessionsKept
  BY <1>0 DEF RevokeAllForUser, Row
<1>4. \A t \in Pairs : SessionExpires(t) \/ AccessExpires(t) => SessionsKept
  BY <1>0 DEF SessionExpires, AccessExpires, Row
<1>5. \A s \in Requests : DenyAccess(s) => SessionsKept
  BY <1>0 DEF DenyAccess, At, SlotOK, Row
<1>6. ASSUME NEW s \in Requests, InviteStep(s) PROVE SessionsKept
  <2>1. \A u \in Users : CreateClient(s, u) => UNCHANGED session
    BY DEF CreateClient
  <2>2. InvalidateLinks(s) \/ IssueLink(s) => UNCHANGED session
    BY DEF InvalidateLinks, IssueLink
  <2>3. QED
    BY <1>1, <1>6, <2>1, <2>2 DEF InviteStep
<1>7. ASSUME NEW s \in Requests, RedeemStep(s) PROVE SessionsKept
  <2>1. \A u \in Users, p \in Passwords : ReadLink(s, u, p) => UNCHANGED session
    BY DEF ReadLink, tables
  <2>2. SpendLink(s) \/ StorePassword(s) \/ RetireLinks(s) => UNCHANGED session
    BY DEF SpendLink, StorePassword, RetireLinks
  <2>3. RevokeSessions(s) => SessionsKept
    BY <1>3 DEF RevokeSessions
  <2>4. QED
    BY <1>1, <1>7, <2>1, <2>2, <2>3 DEF RedeemStep
<1>8. ASSUME NEW s \in Requests, LoginStep(s)
      PROVE  SessionsKept \/ \E t \in Pairs : OpenSession(s, t)
  <2>1. \A u \in Users, p \in Passwords : CheckAttempts(s, u, p) => UNCHANGED session
    BY DEF CheckAttempts, tables
  <2>2. Verify(s) \/ CountFailure(s) \/ ClearFailures(s) \/ UpgradeHash(s) =>
            UNCHANGED session
    BY DEF Verify, CountFailure, ClearFailures, UpgradeHash, tables
  <2>3. QED
    BY <1>1, <1>8, <2>1, <2>2 DEF LoginStep
<1>9. ASSUME NEW s \in Requests, RefreshStep(s)
      PROVE  SessionsKept \/ \E t \in Pairs : Rotate(s, t)
  <2>1. \A t \in Pairs : PresentToken(s, t) => UNCHANGED session
    BY DEF PresentToken, Asked, tables
  <2>2. RaiseAlarm(s) => SessionsKept
    BY <1>2 DEF RaiseAlarm
  <2>3. QED
    BY <1>1, <1>9, <2>1, <2>2 DEF RefreshStep
<1>10. ASSUME NEW s \in Requests, LogoutStep(s) PROVE SessionsKept
  <2>1. \A t, a \in Pairs \cup {NoPair} : AskLogout(s, t, a) => UNCHANGED session
    BY DEF AskLogout, tables
  <2>2. EndFamily(s) => SessionsKept
    BY <1>2 DEF EndFamily
  <2>3. QED
    BY <1>1, <1>5, <1>10, <2>1, <2>2 DEF LogoutStep
<1>11. ASSUME NEW s \in Requests, Busy(s) \/ FailRequest(s) PROVE SessionsKept
  BY <1>1, <1>11 DEF Busy, FailRequest, tables
<1>12. Expiry => SessionsKept
  BY <1>1, <1>4 DEF Expiry, LinkExpires, WindowEnds
<1>13. UNCHANGED vars => SessionsKept
  BY <1>1 DEF vars, tables
<1>14. QED
  BY <1>6, <1>7, <1>8, <1>9, <1>10, <1>11, <1>12, <1>13 DEF Next

\* What the two creating steps do to the table.
LEMMA OpenEffect ==
    ASSUME TypeInv, NEW s \in Requests, NEW t \in Pairs, OpenSession(s, t)
    PROVE  /\ ~Stored(t) /\ session'[t].family = t /\ ~session'[t].rotated
           /\ \A x \in Pairs \ {t} : session'[x] = session[x]
BY DEF TypeInv, OpenSession, CreateRefreshToken, Created, NoSession

\* A rotation stores one new token, in the family of the one it spends.
LEMMA RotateEffect ==
    ASSUME TypeInv, NEW s \in Requests, NEW t \in Pairs, Rotate(s, t)
    PROVE  /\ ~Stored(t) /\ At(s, "rotate")
           /\ req[s].pair \in Pairs /\ Stored(req[s].pair)
           /\ session'[t].family = session[req[s].pair].family
           /\ ~session'[t].rotated
           /\ session'[req[s].pair].family = session[req[s].pair].family
           /\ session'[req[s].pair].revoked = session[req[s].pair].revoked
           /\ \A x \in Pairs \ {t, req[s].pair} : session'[x] = session[x]
<1> DEFINE spent == req[s].pair
           new == Created(t, session[spent].user, session[spent].family)
           old == [session[spent] EXCEPT !.rotated = TRUE]
<1>1. At(s, "rotate") /\ RotateRefreshToken(spent, t)
  BY DEF Rotate
<1>2. spent \in Pairs /\ Stored(spent) /\ ~Stored(t) /\ spent # t
  BY <1>1 DEF TypeInv, SlotOK, At, PairSteps, RotateRefreshToken
<1>3. session \in [Pairs -> Row] /\ session[spent] \in Row
  BY <1>2 DEF TypeInv
<1>4. new.family = session[spent].family /\ ~new.rotated
  BY DEF Created, NoSession
<1>5. old.family = session[spent].family /\ old.revoked = session[spent].revoked
  BY <1>3 DEF Row
<1>6. session' = [session EXCEPT ![spent] = old, ![t] = new]
  BY <1>1, <1>3 DEF RotateRefreshToken
<1> HIDE DEF new, old
<1>7. /\ session'[t] = new /\ session'[spent] = old
      /\ \A x \in Pairs \ {t, spent} : session'[x] = session[x]
  BY <1>2, <1>3, <1>6
<1>8. QED
  BY <1>1, <1>2, <1>4, <1>5, <1>7

\* A family is never left without an unspent token: a rotation spends one
\* and creates one.
THEOREM FamiliesHaveUnspent == Spec => []FamilyHasUnspent
<1>1. Init => FamilyHasUnspent
  BY DEF Init, FamilyHasUnspent, Stored, NoSession
<1>2. TypeInv /\ FamilyHasUnspent /\ [Next]_vars => FamilyHasUnspent'
  <2> SUFFICES ASSUME TypeInv, FamilyHasUnspent, [Next]_vars,
                      NEW x \in Pairs, Stored(x)'
               PROVE  \E new \in Pairs :
                        /\ session'[new].family = session'[x].family
                        /\ ~session'[new].rotated
    BY DEF FamilyHasUnspent
  <2>1. CASE SessionsKept
    BY <2>1 DEF SessionsKept, FamilyHasUnspent, Stored
  <2>2. ASSUME NEW s \in Requests, NEW t \in Pairs, OpenSession(s, t)
        PROVE  \E new \in Pairs :
                /\ session'[new].family = session'[x].family
                /\ ~session'[new].rotated
    <3>1. CASE x = t
      BY <2>2, <3>1, OpenEffect
    <3>2. CASE x # t
      <4>1. PICK new \in Pairs :
                session[new].family = session[x].family /\ ~session[new].rotated
        BY <2>2, <3>2, OpenEffect DEF FamilyHasUnspent, Stored
      <4>2. new # t
        BY <2>2, <3>2, <4>1, OpenEffect DEF Stored
      <4>3. QED
        BY <2>2, <3>2, <4>1, <4>2, OpenEffect
    <3>3. QED
      BY <3>1, <3>2
  <2>3. ASSUME NEW s \in Requests, NEW t \in Pairs, Rotate(s, t)
        PROVE  \E new \in Pairs :
                /\ session'[new].family = session'[x].family
                /\ ~session'[new].rotated
    <3>1. CASE session'[x].family = session[req[s].pair].family
      BY <2>3, <3>1, RotateEffect
    <3>2. CASE session'[x].family # session[req[s].pair].family
      <4>1. x \notin {t, req[s].pair} /\ session'[x] = session[x]
        BY <2>3, <3>2, RotateEffect
      <4>2. PICK new \in Pairs :
                session[new].family = session[x].family /\ ~session[new].rotated
        BY <4>1 DEF FamilyHasUnspent, Stored
      <4>3. new \notin {t, req[s].pair}
        BY <2>3, <3>2, <4>1, <4>2, RotateEffect DEF Stored
      <4>4. QED
        BY <2>3, <4>1, <4>2, <4>3, RotateEffect
    <3>3. QED
      BY <3>1, <3>2
  <2>4. QED
    BY <2>1, <2>2, <2>3, SessionEffect
<1>3. QED
  BY <1>1, <1>2, TypeInvInit, TypeInvStep, PTL DEF Spec

\* A family has the name of its first token, so the token of a new family
\* belongs to no other.
Rooted ==
    \A t \in Pairs : Stored(t) =>
        session[t].family \in Pairs /\ Stored(session[t].family)

\* The first pair of each family stays stored.
LEMMA RootedStep == TypeInv /\ Rooted /\ [Next]_vars => Rooted'
<1> SUFFICES ASSUME TypeInv, Rooted, [Next]_vars PROVE Rooted'
  OBVIOUS
<1>1. CASE SessionsKept
  BY <1>1 DEF SessionsKept, Rooted, Stored
<1>2. ASSUME NEW s \in Requests, NEW t \in Pairs, OpenSession(s, t) PROVE Rooted'
  BY <1>2, OpenEffect, AuthNullsAssumption DEF Rooted, Stored
<1>3. ASSUME NEW s \in Requests, NEW t \in Pairs, Rotate(s, t) PROVE Rooted'
  BY <1>3, RotateEffect DEF Rooted, Stored
<1>4. QED
  BY <1>1, <1>2, <1>3, SessionEffect

\* A rotation is under way only where it was, or for a token that has just
\* been read as not revoked.
LEMMA RotateSlots ==
    ASSUME TypeInv, [Next]_vars, NEW r \in Requests, At(r, "rotate")'
    PROVE  \/ At(r, "rotate") /\ req'[r].pair = req[r].pair
           \/ UNCHANGED session /\ Live(req'[r].pair)
<1> USE DEF At
<1>0. req \in [Requests -> Request]
  BY DEF TypeInv
<1>1. \A s \in Requests : Return(s) =>
        At(r, "rotate") /\ req'[r].pair = req[r].pair
  BY <1>0 DEF Return, Idle
<1>2. \A s \in Requests : \A step \in Steps \ {"rotate"} : Goto(s, step) =>
        At(r, "rotate") /\ req'[r].pair = req[r].pair
  BY <1>0 DEF Goto, Request
<1>3. UNCHANGED req => At(r, "rotate") /\ req'[r].pair = req[r].pair
  OBVIOUS
<1>4. \A s \in Requests : \A slot : slot.step # "rotate" /\ req' = [req EXCEPT ![s] = slot] =>
        At(r, "rotate") /\ req'[r].pair = req[r].pair
  BY <1>0
<1>5. ASSUME NEW s \in Requests, InviteStep(s)
      PROVE  At(r, "rotate") /\ req'[r].pair = req[r].pair
  <2>1. \A u : [Idle EXCEPT !.step = "invalidate", !.user = u].step # "rotate"
    BY DEF Idle
  <2>2. QED
    <3>1. \A u \in Users : CreateClient(s, u) =>
              At(r, "rotate") /\ req'[r].pair = req[r].pair
      BY <1>4, <2>1 DEF CreateClient
    <3>2. InvalidateLinks(s) \/ IssueLink(s) =>
              At(r, "rotate") /\ req'[r].pair = req[r].pair
      BY <1>1, <1>2 DEF InvalidateLinks, IssueLink, Steps
    <3>3. QED
      BY <1>5, <3>1, <3>2 DEF InviteStep
<1>6. ASSUME NEW s \in Requests, RedeemStep(s)
      PROVE  At(r, "rotate") /\ req'[r].pair = req[r].pair
  <2>1. \A u, p : [Idle EXCEPT !.step = "spend", !.user = u, !.password = p].step # "rotate"
    BY DEF Idle
  <2>2. \A u \in Users, p \in Passwords : ReadLink(s, u, p) =>
            At(r, "rotate") /\ req'[r].pair = req[r].pair
    BY <1>4, <2>1 DEF ReadLink
  <2>3. SpendLink(s) \/ StorePassword(s) \/ RetireLinks(s) \/ RevokeSessions(s) =>
            At(r, "rotate") /\ req'[r].pair = req[r].pair
    BY <1>1, <1>2 DEF SpendLink, MarkUsed, StorePassword, RetireLinks, RevokeSessions, Steps
  <2>4. QED
    BY <1>6, <2>2, <2>3 DEF RedeemStep
<1>7. ASSUME NEW s \in Requests, LoginStep(s)
      PROVE  At(r, "rotate") /\ req'[r].pair = req[r].pair
  <2>1. \A u, p : [Idle EXCEPT !.step = "verify", !.user = u, !.password = p].step # "rotate"
    BY DEF Idle
  <2>2. \A u \in Users, p \in Passwords : CheckAttempts(s, u, p) =>
            At(r, "rotate") /\ req'[r].pair = req[r].pair
    BY <1>4, <2>1 DEF CheckAttempts
  <2>3. Verify(s) => At(r, "rotate") /\ req'[r].pair = req[r].pair
    BY <1>2 DEF Verify, Steps
  <2>4. CountFailure(s) \/ ClearFailures(s) \/ UpgradeHash(s) =>
            At(r, "rotate") /\ req'[r].pair = req[r].pair
    BY <1>1, <1>2 DEF CountFailure, ClearFailures, UpgradeHash, Steps
  <2>5. \A t \in Pairs : OpenSession(s, t) =>
            At(r, "rotate") /\ req'[r].pair = req[r].pair
    BY <1>1 DEF OpenSession
  <2>6. QED
    BY <1>7, <2>2, <2>3, <2>4, <2>5 DEF LoginStep
<1>8. ASSUME NEW s \in Requests, RefreshStep(s)
      PROVE  \/ At(r, "rotate") /\ req'[r].pair = req[r].pair
             \/ UNCHANGED session /\ Live(req'[r].pair)
  <2>1. ASSUME NEW t \in Pairs, PresentToken(s, t)
        PROVE  \/ At(r, "rotate") /\ req'[r].pair = req[r].pair
               \/ UNCHANGED session /\ Live(req'[r].pair)
    BY <1>0, <2>1 DEF PresentToken, Asked, Refused, Idle, tables
  <2>2. QED
    BY <1>1, <1>8, <2>1 DEF RefreshStep, Rotate, RaiseAlarm
<1>9. ASSUME NEW s \in Requests, LogoutStep(s)
      PROVE  At(r, "rotate") /\ req'[r].pair = req[r].pair
  <2>1. \A t, a, step : step \in {"end", "deny"} =>
            [Idle EXCEPT !.step = step, !.pair = t, !.access = a].step # "rotate"
    BY DEF Idle
  <2>2. \A t, a \in Pairs \cup {NoPair} : AskLogout(s, t, a) =>
            At(r, "rotate") /\ req'[r].pair = req[r].pair
    BY <1>4, <2>1 DEF AskLogout
  <2>3. QED
    BY <1>1, <1>2, <1>9, <2>2 DEF LogoutStep, EndFamily, DenyAccess, Steps
<1>10. ASSUME NEW s \in Requests, Busy(s) \/ FailRequest(s)
       PROVE  At(r, "rotate") /\ req'[r].pair = req[r].pair
  BY <1>1, <1>10 DEF Busy, FailRequest
<1>11. Expiry \/ UNCHANGED vars => At(r, "rotate") /\ req'[r].pair = req[r].pair
  BY <1>3 DEF Expiry, LinkExpires, WindowEnds, SessionExpires, AccessExpires, vars
<1>12. QED
  BY <1>5, <1>6, <1>7, <1>8, <1>9, <1>10, <1>11 DEF Next

\* A dead family stays dead: its tokens are refused, a new family has a new
\* name, and a rotation of another family adds to that one.
LEMMA DeadStep == TypeInv /\ Rooted /\ [Next]_vars => \A f \in Pairs : Dead(f) => Dead(f)'
<1> SUFFICES ASSUME TypeInv, Rooted, [Next]_vars, NEW f \in Pairs, Dead(f)
             PROVE  Dead(f)'
  OBVIOUS
<1>0. f # NoPair
  BY AuthNullsAssumption
<1>1. /\ Members(f) # {} /\ \A t \in Members(f) : t \in Pairs /\ session[t].revoked
      /\ \A r \in Requests : At(r, "rotate") => req[r].pair \notin Members(f)
  BY DEF Dead, Members
<1>2. Members(f)' # {} /\ (\A t \in Members(f)' : session'[t].revoked)
        /\ \A t \in Pairs : Stored(t) /\ t \in Members(f)' => t \in Members(f)
  <2>1. CASE SessionsKept
    BY <1>1, <2>1 DEF SessionsKept, Members
  <2>2. ASSUME NEW s \in Requests, NEW t \in Pairs, OpenSession(s, t)
        PROVE  /\ Members(f)' # {} /\ (\A x \in Members(f)' : session'[x].revoked)
               /\ \A x \in Pairs : Stored(x) /\ x \in Members(f)' => x \in Members(f)
    <3>1. f # t
      BY <1>0, <1>1, <2>2, OpenEffect DEF Rooted, Members, Stored
    <3>2. Members(f)' = Members(f) /\ t \notin Members(f)
      BY <1>0, <2>2, <3>1, OpenEffect DEF Members, Stored
    <3>3. \A x \in Members(f) : session'[x] = session[x]
      BY <1>1, <2>2, <3>2, OpenEffect
    <3>4. QED
      BY <1>1, <3>2, <3>3
  <2>3. ASSUME NEW s \in Requests, NEW t \in Pairs, Rotate(s, t)
        PROVE  /\ Members(f)' # {} /\ (\A x \in Members(f)' : session'[x].revoked)
               /\ \A x \in Pairs : Stored(x) /\ x \in Members(f)' => x \in Members(f)
    <3>1. req[s].pair \notin Members(f) /\ session[req[s].pair].family # f
      BY <1>1, <2>3, RotateEffect DEF Members
    <3>2. Members(f)' = Members(f) /\ t \notin Members(f)
      BY <1>0, <2>3, <3>1, RotateEffect DEF Members, Stored
    <3>3. \A x \in Members(f) : session'[x] = session[x]
      BY <1>1, <2>3, <3>1, <3>2, RotateEffect
    <3>4. QED
      BY <1>1, <3>2, <3>3
  <2>4. QED
    BY <2>1, <2>2, <2>3, SessionEffect
<1>3. ASSUME NEW r \in Requests, At(r, "rotate")' PROVE req'[r].pair \notin Members(f)'
  <2>1. CASE At(r, "rotate") /\ req'[r].pair = req[r].pair
    <3>1. req[r].pair \in Pairs /\ Stored(req[r].pair)
      BY <2>1 DEF TypeInv, SlotOK, At, PairSteps
    <3>2. QED
      BY <1>1, <1>2, <2>1, <3>1
  <2>2. CASE UNCHANGED session /\ Live(req'[r].pair)
    <3>1. Members(f)' = Members(f)
      BY <2>2 DEF Members
    <3>2. QED
      BY <1>1, <2>2, <3>1 DEF Live
  <2>3. QED
    BY <1>3, <2>1, <2>2, RotateSlots
<1>4. QED
  BY <1>2, <1>3 DEF Dead

\* Once a family is revoked and no rotation of it is under way, no request
\* brings it back.
THEOREM DeadFamiliesStayDead == Spec => DeadStaysDead
<1>1. Init => Rooted
  BY DEF Init, Rooted, Stored, NoSession
<1>2. TypeInv /\ Rooted /\ [Next]_vars => [\A f \in Pairs : Dead(f) => Dead(f)']_vars
  BY DeadStep
<1>3. QED
  BY <1>1, <1>2, RootedStep, TypeInvInit, TypeInvStep, PTL DEF Spec, DeadStaysDead

-----------------------------------------------------------------------------
(* The one password of a link                                              *)

\* A step touches one slot at most: what the moves do to it.
Others(s) == \A r \in Requests \ {s} : req'[r] = req[r]

\* What the three ways to write a slot do to it and to the others.
LEMMA SlotEffects ==
    ASSUME TypeInv, NEW s \in Requests
    PROVE  /\ Return(s) => Others(s) /\ req'[s] = Idle
           /\ \A step : Goto(s, step) =>
                /\ Others(s) /\ req'[s].step = step
                /\ req'[s].user = req[s].user /\ req'[s].pair = req[s].pair
                /\ req'[s].password = req[s].password
           /\ \A slot : req' = [req EXCEPT ![s] = slot] => Others(s) /\ req'[s] = slot
BY DEF TypeInv, Return, Goto, Others, Request

\* The steps that write a password, and what they rely on: for a new user
\* there is none, a spent link has set none yet, and a login that verified the
\* password writes the one that is there.
Inviting(s)  == req[s].step \in {"invalidate", "issue"}
Storing(s)   == At(s, "store")
Upgrading(s) == req[s].step \in {"clear_weak", "upgrade"}

PasswordInv ==
    /\ \A u \in Users :
        /\ password[u] = Absent => link[u].state = "none"
        /\ link[u].state = "unused" => password[u] = Temporary
    /\ \A s \in Requests :
        /\ Inviting(s) => /\ password[req[s].user] = Temporary
                          /\ link[req[s].user].state = "none"
        /\ At(s, "spend") => link[req[s].user].state # "none"
        /\ Storing(s) => /\ password[req[s].user] = Temporary
                         /\ link[req[s].user].state = "used"
        /\ Upgrading(s) => password[req[s].user] = req[s].password
    /\ \A s, r \in Requests : s # r /\ req[s].user = req[r].user =>
        ~(Inviting(s) /\ Inviting(r)) /\ ~(Storing(s) /\ Storing(r))

\* A step that changes no password and no link's state, and starts or
\* advances no slot of these but a login whose password is the one stored, is
\* of no consequence.
Harmless ==
    /\ UNCHANGED password
    /\ \A u \in Users : link'[u].state = link[u].state
    /\ \A r \in Requests :
        /\ req'[r].step \in {"invalidate", "issue", "spend", "store"} => req'[r] = req[r]
        /\ Upgrading(r)' => \/ password[req'[r].user] = req'[r].password
                            \/ Upgrading(r) /\ req'[r] = req[r]

\* A harmless step keeps PasswordInv.
LEMMA HarmlessKeeps ==
    ASSUME TypeInv, TypeInv', PasswordInv, Harmless
    PROVE  PasswordInv'
<1>1. \A r \in Requests : SlotOK(req[r])
  BY DEF TypeInv
<1>2. \A r \in Requests :
        (Inviting(r) \/ At(r, "spend") \/ Storing(r))' =>
            req'[r] = req[r] /\ req[r].user \in Users
  BY <1>1 DEF Harmless, Inviting, Storing, At, SlotOK, UserSteps
<1>3. QED
  BY <1>2 DEF PasswordInv, Harmless, Inviting, Storing, Upgrading, At

\* Every step is harmless but those of an invitation and of a redemption.
LEMMA OthersHarmless ==
    ASSUME TypeInv, PasswordInv, [Next]_vars
    PROVE  Harmless \/ \E s \in Requests : InviteStep(s) \/ RedeemStep(s)
<1> USE DEF Harmless, Upgrading
<1>0. \A r \in Requests : SlotOK(req[r])
  BY DEF TypeInv
<1>1. ASSUME NEW s \in Requests, LoginStep(s) PROVE Harmless
  <2>1. \A u \in Users, p \in Passwords : CheckAttempts(s, u, p) => Harmless
    BY SlotEffects DEF CheckAttempts, tables, Others, Idle
  <2>2. Verify(s) => Harmless
    BY SlotEffects DEF Verify, FindAuthUser, VerifyPassword, tables, Others
  <2>3. CountFailure(s) => Harmless
    BY SlotEffects DEF CountFailure, Others, Idle
  <2>4. ClearFailures(s) => Harmless
    BY SlotEffects DEF ClearFailures, PasswordInv, Others, At
  <2>5. ASSUME UpgradeHash(s) PROVE Harmless
    <3>1. /\ Others(s) /\ req'[s].step = "open" /\ UNCHANGED link
          /\ password' = [password EXCEPT ![req[s].user] = req[s].password]
      BY <2>5, SlotEffects DEF UpgradeHash, UpdatePasswordHash
    <3>2. password[req[s].user] = req[s].password
      BY <2>5 DEF UpgradeHash, At, PasswordInv
    <3>3. UNCHANGED password
      BY <3>1, <3>2 DEF TypeInv
    <3>4. QED
      BY <3>1, <3>3 DEF Others
  <2>6. \A t \in Pairs : OpenSession(s, t) => Harmless
    BY SlotEffects DEF OpenSession, Others, Idle
  <2>7. QED
    BY <1>1, <2>1, <2>2, <2>3, <2>4, <2>5, <2>6 DEF LoginStep
<1>2. ASSUME NEW s \in Requests, RefreshStep(s) PROVE Harmless
  <2>1. \A t \in Pairs : PresentToken(s, t) => Harmless
    BY SlotEffects DEF PresentToken, Asked, tables, Others, Idle
  <2>2. \A t \in Pairs : Rotate(s, t) => Harmless
    BY SlotEffects DEF Rotate, Others, Idle
  <2>3. RaiseAlarm(s) => Harmless
    BY SlotEffects DEF RaiseAlarm, Others, Idle
  <2>4. QED
    BY <1>2, <2>1, <2>2, <2>3 DEF RefreshStep
<1>3. ASSUME NEW s \in Requests, LogoutStep(s) PROVE Harmless
  <2>1. \A t, a \in Pairs \cup {NoPair} : AskLogout(s, t, a) => Harmless
    BY SlotEffects DEF AskLogout, tables, Others, Idle
  <2>2. EndFamily(s) \/ DenyAccess(s) => Harmless
    BY SlotEffects DEF EndFamily, DenyAccess, Others, Idle
  <2>3. QED
    BY <1>3, <2>1, <2>2 DEF LogoutStep
<1>4. ASSUME NEW s \in Requests, Busy(s) \/ FailRequest(s) PROVE Harmless
  BY <1>4, SlotEffects DEF Busy, FailRequest, tables, Others, Idle
<1>5. Expiry => Harmless
  BY DEF TypeInv, Link, Expiry, LinkExpires, WindowEnds, SessionExpires, AccessExpires
<1>6. UNCHANGED vars => Harmless
  BY DEF vars, tables
<1>7. QED
  BY <1>1, <1>2, <1>3, <1>4, <1>5, <1>6 DEF Next

\* What the slot of an invitation or a redemption holds when it starts.
LEMMA SlotStarts ==
    ASSUME TypeInv, NEW s \in Requests
    PROVE  /\ \A u \in Users : CreateClient(s, u) =>
                Others(s) /\ req'[s].step = "invalidate" /\ req'[s].user = u
           /\ \A u \in Users, p \in Passwords : ReadLink(s, u, p) =>
                Others(s) /\ req'[s].step = "spend" /\ req'[s].user = u
<1>1. ASSUME NEW u \in Users, CreateClient(s, u)
      PROVE  Others(s) /\ req'[s].step = "invalidate" /\ req'[s].user = u
  <2>1. Others(s) /\ req'[s] = [Idle EXCEPT !.step = "invalidate", !.user = u]
    BY <1>1, SlotEffects DEF CreateClient, CreateClientWithUser
  <2>2. QED
    BY <2>1 DEF Idle
<1>2. ASSUME NEW u \in Users, NEW p \in Passwords, ReadLink(s, u, p)
      PROVE  Others(s) /\ req'[s].step = "spend" /\ req'[s].user = u
  <2>1. /\ Others(s)
        /\ req'[s] = [Idle EXCEPT !.step = "spend", !.user = u, !.password = p]
    BY <1>2, SlotEffects DEF ReadLink
  <2>2. QED
    BY <2>1 DEF Idle
<1>3. QED
  BY <1>1, <1>2

\* The steps of an invitation keep PasswordInv.
LEMMA InviteKeeps ==
    ASSUME TypeInv, PasswordInv, NEW s \in Requests, InviteStep(s)
    PROVE  PasswordInv'
<1> USE DEF PasswordInv, Inviting, Storing, Upgrading, At, Others
<1>0. /\ password \in [Users -> Passwords \cup {Absent, Temporary}]
      /\ link \in [Users -> Link]
      /\ \A r \in Requests : SlotOK(req[r])
  BY DEF TypeInv
<1>1. ASSUME NEW u \in Users, CreateClient(s, u) PROVE PasswordInv'
  <2>1. Others(s) /\ req'[s].step = "invalidate" /\ req'[s].user = u
    BY <1>1, SlotStarts
  <2>2. /\ password[u] = Absent /\ password' = [password EXCEPT ![u] = Temporary]
        /\ UNCHANGED link
    BY <1>1 DEF CreateClient, CreateClientWithUser, GenerateTemporaryPassword
  <2>3. \A r \in Requests \ {s} :
            Inviting(r) \/ Storing(r) \/ Upgrading(r) => req[r].user # u
    BY <1>0, <2>2, AuthNullsAssumption DEF SlotOK, PasswordSteps
  <2>4. QED
    BY <1>0, <2>1, <2>2, <2>3, AuthNullsAssumption DEF SlotOK, UserSteps
<1>2. ASSUME InvalidateLinks(s) PROVE PasswordInv'
  <2>1. Others(s) /\ req'[s].step = "issue" /\ req'[s].user = req[s].user
    BY <1>2, SlotEffects DEF InvalidateLinks
  <2>2. req[s].user \in Users /\ link[req[s].user].state = "none"
    BY <1>0, <1>2 DEF InvalidateLinks, SlotOK, UserSteps
  <2>3. \A u \in Users : link'[u].state = link[u].state
    BY <1>0, <1>2, <2>2 DEF InvalidateLinks, InvalidateAllForUser, Link
  <2>4. UNCHANGED password /\ At(s, "invalidate")
    BY <1>2 DEF InvalidateLinks
  <2>5. QED
    BY <1>0, <2>1, <2>2, <2>3, <2>4 DEF SlotOK, UserSteps
<1>3. ASSUME IssueLink(s) PROVE PasswordInv'
  <2> DEFINE u == req[s].user
  <2>1. Others(s) /\ req'[s].step = "idle"
    BY <1>3, SlotEffects DEF IssueLink, Idle
  <2>2. u \in Users /\ password[u] = Temporary /\ link[u].state = "none" /\ Inviting(s)
    BY <1>0, <1>3 DEF IssueLink, SlotOK, UserSteps
  <2>3. /\ UNCHANGED password /\ link'[u].state = "unused"
        /\ \A v \in Users \ {u} : link'[v] = link[v]
    BY <1>0, <1>3, <2>2 DEF IssueLink
  <2>4. \A r \in Requests \ {s} : Inviting(r) \/ Storing(r) => req[r].user # u
    BY <2>2
  <2> HIDE DEF u
  <2>5. QED
    BY <1>0, <2>1, <2>2, <2>3, <2>4, AuthNullsAssumption DEF SlotOK, UserSteps
<1>4. QED
  BY <1>1, <1>2, <1>3 DEF InviteStep

\* The steps of a redemption keep PasswordInv: the guard of markUsed is used here.
LEMMA RedeemKeeps ==
    ASSUME TypeInv, TypeInv', PasswordInv, NEW s \in Requests, RedeemStep(s)
    PROVE  PasswordInv'
<1> USE DEF PasswordInv, Inviting, Storing, Upgrading, At, Others
<1>0. /\ password \in [Users -> Passwords \cup {Absent, Temporary}]
      /\ link \in [Users -> Link]
      /\ \A r \in Requests : SlotOK(req[r])
  BY DEF TypeInv
<1>1. ASSUME NEW u \in Users, NEW p \in Passwords, ReadLink(s, u, p) PROVE PasswordInv'
  <2>1. Others(s) /\ req'[s].step = "spend" /\ req'[s].user = u
    BY <1>1, SlotStarts
  <2>2. UNCHANGED <<password, link>> /\ link[u].state = "unused"
    BY <1>1 DEF ReadLink, tables
  <2>3. QED
    BY <2>1, <2>2
<1>2. ASSUME SpendLink(s) PROVE PasswordInv'
  <2> DEFINE u == req[s].user
  <2>0. u \in Users
    BY <1>0, <1>2 DEF SpendLink, MarkUsed, SlotOK, UserSteps
  <2>1. CASE link[u].state = "unused"
    <3>1. Others(s) /\ req'[s].step = "store" /\ req'[s].user = u
      BY <1>2, <2>1, SlotEffects DEF SpendLink, MarkUsed
    <3>2. /\ UNCHANGED password /\ link'[u].state = "used"
          /\ \A v \in Users \ {u} : link'[v] = link[v]
      BY <1>0, <1>2, <2>0, <2>1 DEF SpendLink, MarkUsed, Link
    <3>3. password[u] = Temporary
      BY <2>0, <2>1
    <3>4. \A r \in Requests \ {s} : Inviting(r) \/ Storing(r) => req[r].user # u
      BY <2>1
    <3> HIDE DEF u
    <3>5. QED
      BY <1>0, <2>0, <3>1, <3>2, <3>3, <3>4, AuthNullsAssumption DEF SlotOK, UserSteps
  <2>2. CASE link[u].state # "unused"
    <3>1. Return(s) /\ UNCHANGED <<password, link>>
      BY <1>2, <2>2 DEF SpendLink, MarkUsed
    <3>2. QED
      BY <3>1, SlotEffects DEF Idle
  <2>3. QED
    BY <2>1, <2>2
<1>3. ASSUME StorePassword(s) PROVE PasswordInv'
  <2> DEFINE u == req[s].user
  <2>1. Others(s) /\ req'[s].step = "retire"
    BY <1>3, SlotEffects DEF StorePassword
  <2>2. u \in Users /\ req[s].password \in Passwords /\ link[u].state = "used" /\ Storing(s)
    BY <1>0, <1>3 DEF StorePassword, SlotOK, UserSteps, PasswordSteps
  <2>3. /\ UNCHANGED link /\ password'[u] = req[s].password
        /\ \A v \in Users \ {u} : password'[v] = password[v]
    BY <1>0, <1>3, <2>2 DEF StorePassword, UpdatePasswordHash
  <2>4. \A r \in Requests \ {s} :
            Inviting(r) \/ Storing(r) \/ Upgrading(r) => req[r].user # u
    BY <1>0, <2>2, AuthNullsAssumption DEF SlotOK, PasswordSteps
  <2> HIDE DEF u
  <2>5. QED
    BY <1>0, <2>1, <2>2, <2>3, <2>4, AuthNullsAssumption DEF SlotOK, UserSteps
<1>4. ASSUME RetireLinks(s) PROVE PasswordInv'
  <2>1. Others(s) /\ req'[s].step = "revoke"
    BY <1>4, SlotEffects DEF RetireLinks
  <2>2. UNCHANGED password /\ \A u \in Users :
            \/ link'[u].state = link[u].state
            \/ link[u].state = "unused" /\ link'[u].state = "used"
    BY <1>0, <1>4 DEF RetireLinks, InvalidateAllForUser, Link
  <2>3. QED
    BY <1>0, <2>1, <2>2, AuthNullsAssumption DEF SlotOK, UserSteps
<1>5. ASSUME RevokeSessions(s) PROVE PasswordInv'
  BY <1>5, SlotEffects DEF RevokeSessions, Idle
<1>6. QED
  BY <1>1, <1>2, <1>3, <1>4, <1>5 DEF RedeemStep

\* PasswordInv is inductive.
LEMMA PasswordInvStep == TypeInv /\ PasswordInv /\ [Next]_vars => PasswordInv'
BY TypeInvStep, HarmlessKeeps, OthersHarmless, InviteKeeps, RedeemKeeps

\* A password that was chosen is never replaced: two submissions of one link
\* cannot both get past the spending of it, no other request chooses one, and
\* the hash a login upgrades is of the password that is there.
THEOREM OnePasswordPerLink == Spec => PasswordSetOnce
<1>1. Init => PasswordInv
  BY AuthNullsAssumption
     DEF Init, PasswordInv, Inviting, Storing, Upgrading, At, Idle
<1>2. TypeInv /\ PasswordInv /\ [Next]_vars =>
        [\A u \in Users : password[u] \in Passwords => password'[u] = password[u]]_vars
  <2> SUFFICES ASSUME TypeInv, PasswordInv, [Next]_vars, NEW u \in Users,
                      password[u] \in Passwords
               PROVE  password'[u] = password[u]
    OBVIOUS
  <2>1. CASE Harmless
    BY <2>1 DEF Harmless
  <2>2. ASSUME NEW s \in Requests, InviteStep(s) PROVE password'[u] = password[u]
    <3>1. ASSUME NEW v \in Users, CreateClient(s, v) PROVE password'[u] = password[u]
      <4>1. password[v] = Absent /\ password' = [password EXCEPT ![v] = Temporary]
        BY <3>1 DEF CreateClient, CreateClientWithUser, GenerateTemporaryPassword
      <4>2. QED
        BY <4>1, AuthNullsAssumption DEF TypeInv
    <3>2. InvalidateLinks(s) \/ IssueLink(s) => UNCHANGED password
      BY DEF InvalidateLinks, IssueLink
    <3>3. QED
      BY <2>2, <3>1, <3>2 DEF InviteStep
  <2>3. ASSUME NEW s \in Requests, RedeemStep(s) PROVE password'[u] = password[u]
    BY <2>3, AuthNullsAssumption, ZenonT(40)
       DEF TypeInv, PasswordInv, Storing, RedeemStep, ReadLink, SpendLink, MarkUsed,
           StorePassword, UpdatePasswordHash, RetireLinks, RevokeSessions, tables
  <2>4. QED
    BY <2>1, <2>2, <2>3, OthersHarmless
<1>3. QED
  BY <1>1, <1>2, PasswordInvStep, TypeInvInit, TypeInvStep, PTL
     DEF Spec, PasswordSetOnce

-----------------------------------------------------------------------------
(* Guesses and alarms: what a table has counted and what requests in       *)
(* flight may still add                                                    *)

\* The logins past the check that may still count a failure, and the
\* refreshes that may still raise an alarm.
Guessing(u) == {s \in Requests : req[s].step \in {"verify", "count"} /\ req[s].user = u}
Alarming(t) == {s \in Requests : At(s, "alarm") /\ req[s].pair = t}

\* A step that lets no slot into a set of steps: the sets above only shrink.
LEMMA ShrinkingSlots ==
    ASSUME TypeInv, NEW s \in Requests, NEW slot,
           req' = [req EXCEPT ![s] = slot] \/ UNCHANGED req,
           NEW u, NEW t
    PROVE  /\ slot.step \notin {"verify", "count"} => Guessing(u)' \subseteq Guessing(u)
           /\ slot.step # "alarm" => Alarming(t)' \subseteq Alarming(t)
<1>1. CASE UNCHANGED req
  BY <1>1 DEF Guessing, Alarming, At
<1>2. CASE req' = [req EXCEPT ![s] = slot]
  BY <1>2 DEF TypeInv, Guessing, Alarming, At
<1>3. QED
  BY <1>1, <1>2

\* Of a set of slots that shrinks, or of any, the size is bounded.
LEMMA SlotCounts ==
    ASSUME NEW S \in SUBSET Requests
    PROVE  /\ IsFiniteSet(S) /\ Cardinality(S) \in Nat
           /\ Cardinality(S) <= Cardinality(Requests)
           /\ Cardinality(Requests) \in Nat
           /\ \A T \in SUBSET S : Cardinality(T) \in Nat /\ Cardinality(T) <= Cardinality(S)
           /\ \A s \in S : Cardinality(S \ {s}) = Cardinality(S) - 1
<1>0. IsFiniteSet(Requests)
  BY AuthBoundsAssumption
<1>1. IsFiniteSet(S) /\ Cardinality(S) <= Cardinality(Requests)
  BY <1>0, FS_Subset
<1>2. Cardinality(S) \in Nat /\ Cardinality(Requests) \in Nat
  BY <1>0, <1>1, FS_CardinalityType
<1>3. \A T \in SUBSET S : Cardinality(T) \in Nat /\ Cardinality(T) <= Cardinality(S)
  BY <1>1, FS_Subset, FS_CardinalityType
<1>4. \A s \in S : Cardinality(S \ {s}) = Cardinality(S) - 1
  BY <1>1, FS_RemoveElement
<1>5. QED
  BY <1>1, <1>2, <1>3, <1>4

\* What a step does to the failures of an address: it adds none and admits
\* nobody, it admits a login under the limit, or it counts one that was in.
GuessStep(u) ==
    \/ attempts'[u] <= attempts[u] /\ Guessing(u)' \subseteq Guessing(u)
    \/ attempts[u] < MAX_ATTEMPTS /\ attempts'[u] = attempts[u]
    \/ \E s \in Guessing(u) :
        attempts'[u] = attempts[u] + 1 /\ Guessing(u)' \subseteq Guessing(u) \ {s}

\* A step counts a guess of a user only by a request that had passed the check.
LEMMA GuessEffect ==
    ASSUME TypeInv, [Next]_vars, NEW u \in Users
    PROVE  GuessStep(u)
<1> DEFINE Quiet == attempts'[u] <= attempts[u] /\ Guessing(u)' \subseteq Guessing(u)
<1>0. attempts \in [Users -> Nat] /\ req \in [Requests -> Request]
  BY DEF TypeInv
<1>1. ASSUME NEW s \in Requests, Return(s) PROVE Guessing(u)' \subseteq Guessing(u)
  <2>1. Others(s) /\ req'[s].step = "idle"
    BY <1>1, SlotEffects DEF Idle
  <2>2. QED
    BY <2>1 DEF Guessing, Others
<1>2. ASSUME NEW s \in Requests, NEW step, Goto(s, step), step \notin {"verify", "count"}
      PROVE  Guessing(u)' \subseteq Guessing(u)
  BY <1>0, <1>2, SlotEffects DEF Guessing, Others
<1>3. ASSUME NEW s \in Requests, NEW slot, req' = [req EXCEPT ![s] = slot],
             slot.step \notin {"verify", "count"}
      PROVE  Guessing(u)' \subseteq Guessing(u)
  BY <1>3, ShrinkingSlots
<1>4. UNCHANGED req => Guessing(u)' \subseteq Guessing(u)
  BY DEF Guessing
<1>5. UNCHANGED attempts => attempts'[u] <= attempts[u]
  BY <1>0
<1>6. ASSUME NEW s \in Requests, InviteStep(s) PROVE Quiet
  <2>1. \A v \in Users : CreateClient(s, v) => Quiet
    BY <1>3, <1>5 DEF CreateClient, CreateClientWithUser, Idle
  <2>2. InvalidateLinks(s) \/ IssueLink(s) => Quiet
    BY <1>1, <1>2, <1>5 DEF InvalidateLinks, IssueLink
  <2>3. QED
    BY <1>6, <2>1, <2>2 DEF InviteStep
<1>7. ASSUME NEW s \in Requests, RedeemStep(s) PROVE Quiet
  <2>1. \A v \in Users, p \in Passwords : ReadLink(s, v, p) => Quiet
    BY <1>3, <1>5 DEF ReadLink, tables, Idle
  <2>2. SpendLink(s) \/ StorePassword(s) \/ RetireLinks(s) \/ RevokeSessions(s) => Quiet
    BY <1>1, <1>2, <1>5 DEF SpendLink, StorePassword, RetireLinks, RevokeSessions
  <2>3. QED
    BY <1>7, <2>1, <2>2 DEF RedeemStep
<1>8. ASSUME NEW s \in Requests, LoginStep(s) PROVE GuessStep(u)
  <2>1. ASSUME NEW v \in Users, NEW p \in Passwords, CheckAttempts(s, v, p)
        PROVE  GuessStep(u)
    <3>1. UNCHANGED attempts /\ attempts[v] < MAX_ATTEMPTS
      BY <2>1 DEF CheckAttempts, NotLocked, tables
    <3>2. CASE v = u
      BY <3>1, <3>2 DEF GuessStep
    <3>3. CASE v # u
      <4>1. /\ Others(s)
            /\ req'[s] = [Idle EXCEPT !.step = "verify", !.user = v, !.password = p]
        BY <2>1, SlotEffects DEF CheckAttempts
      <4>2. req'[s].user = v
        BY <4>1 DEF Idle
      <4>3. Guessing(u)' \subseteq Guessing(u)
        BY <3>3, <4>1, <4>2 DEF Guessing, Others
      <4>4. QED
        BY <1>5, <3>1, <4>3 DEF GuessStep
    <3>4. QED
      BY <3>2, <3>3
  <2>2. ASSUME Verify(s) PROVE Quiet
    <3>1. /\ Others(s) /\ req'[s].user = req[s].user
          /\ req[s].step = "verify" /\ UNCHANGED attempts
      BY <2>2, SlotEffects DEF Verify, At, tables
    <3>2. QED
      BY <1>5, <3>1 DEF Guessing, Others
  <2>3. ASSUME CountFailure(s) PROVE GuessStep(u)
    <3>1. /\ Others(s) /\ req'[s] = Idle /\ req[s].step = "count"
          /\ attempts' = [attempts EXCEPT ![req[s].user] = @ + 1]
      BY <2>3, SlotEffects DEF CountFailure, At
    <3>2. Guessing(u)' \subseteq Guessing(u) \ {s}
      BY <3>1 DEF Guessing, Others, Idle
    <3>3. CASE req[s].user = u
      <4>1. s \in Guessing(u) /\ attempts'[u] = attempts[u] + 1
        BY <1>0, <3>1, <3>3 DEF Guessing
      <4>2. QED
        BY <3>2, <4>1 DEF GuessStep
    <3>4. CASE req[s].user # u
      <4>1. attempts'[u] = attempts[u]
        BY <1>0, <3>1, <3>4
      <4>2. QED
        BY <1>0, <3>2, <4>1 DEF GuessStep
    <3>5. QED
      BY <3>3, <3>4
  <2>4. ASSUME ClearFailures(s) PROVE Quiet
    <3>1. attempts'[u] <= attempts[u]
      BY <1>0, <2>4 DEF ClearFailures
    <3>2. QED
      BY <1>2, <2>4, <3>1 DEF ClearFailures
  <2>5. \A t \in Pairs : OpenSession(s, t) => Quiet
    BY <1>1, <1>5 DEF OpenSession
  <2>6. UpgradeHash(s) => Quiet
    BY <1>2, <1>5 DEF UpgradeHash
  <2>7. QED
    BY <1>8, <2>1, <2>2, <2>3, <2>4, <2>5, <2>6 DEF LoginStep, GuessStep
<1>9. ASSUME NEW s \in Requests, RefreshStep(s) PROVE Quiet
  <2>1. ASSUME NEW t \in Pairs, PresentToken(s, t) PROVE Quiet
    <3>1. PICK step \in {"alarm", "rotate"} :
            req' = [req EXCEPT ![s] = [Idle EXCEPT !.step = step, !.pair = t]]
      BY <2>1 DEF PresentToken, Asked
    <3>2. QED
      BY <1>3, <1>5, <2>1, <3>1 DEF PresentToken, Asked, tables, Idle
  <2>2. \A t \in Pairs : Rotate(s, t) => Quiet
    BY <1>1, <1>5 DEF Rotate
  <2>3. RaiseAlarm(s) => Quiet
    BY <1>1, <1>5 DEF RaiseAlarm
  <2>4. QED
    BY <1>9, <2>1, <2>2, <2>3 DEF RefreshStep
<1>10. ASSUME NEW s \in Requests, LogoutStep(s) PROVE Quiet
  <2>1. ASSUME NEW t \in Pairs \cup {NoPair}, NEW a \in Pairs \cup {NoPair},
               AskLogout(s, t, a)
        PROVE  Quiet
    <3>1. PICK step \in {"end", "deny"} :
            req' = [req EXCEPT ![s] = [Idle EXCEPT !.step = step, !.pair = t, !.access = a]]
      BY <2>1 DEF AskLogout
    <3>2. QED
      BY <1>3, <1>5, <2>1, <3>1 DEF AskLogout, tables, Idle
  <2>2. EndFamily(s) \/ DenyAccess(s) => Quiet
    BY <1>1, <1>2, <1>5 DEF EndFamily, DenyAccess
  <2>3. QED
    BY <1>10, <2>1, <2>2 DEF LogoutStep
<1>11. ASSUME NEW s \in Requests, Busy(s) \/ FailRequest(s) PROVE Quiet
  BY <1>1, <1>5, <1>11 DEF Busy, FailRequest, tables
<1>12. ASSUME Expiry PROVE Quiet
  <2>1. \A v \in Users : WindowEnds(v) => Quiet
    BY <1>0, <1>4 DEF WindowEnds
  <2>2. QED
    BY <1>4, <1>5, <1>12, <2>1 DEF Expiry, LinkExpires, SessionExpires, AccessExpires
<1>13. UNCHANGED vars => Quiet
  BY <1>4, <1>5 DEF vars, tables
<1>14. QED
  BY <1>6, <1>7, <1>8, <1>9, <1>10, <1>11, <1>12, <1>13 DEF Next, GuessStep

GuessInv ==
    \A u \in Users :
        attempts[u] + Cardinality(Guessing(u)) <= MAX_ATTEMPTS - 1 + Cardinality(Requests)

\* However many logins pass the check together, an address never collects
\* more failures over the limit than there are other requests.
THEOREM GuessesBounded == Spec => []FailuresBounded
<1>1. Init => GuessInv
  <2> SUFFICES ASSUME Init, NEW u \in Users
               PROVE  attempts[u] + Cardinality(Guessing(u))
                        <= MAX_ATTEMPTS - 1 + Cardinality(Requests)
    BY DEF GuessInv
  <2>1. attempts[u] = 0 /\ Guessing(u) \in SUBSET Requests
    BY DEF Init, Guessing
  <2>2. QED
    BY <2>1, SlotCounts, AuthBoundsAssumption
<1>2. TypeInv /\ GuessInv /\ [Next]_vars => GuessInv'
  <2> SUFFICES ASSUME TypeInv, TypeInv', GuessInv, [Next]_vars, NEW u \in Users
               PROVE  attempts'[u] + Cardinality(Guessing(u)')
                        <= MAX_ATTEMPTS - 1 + Cardinality(Requests)
    BY TypeInvStep DEF GuessInv
  <2> DEFINE before == Guessing(u)
             after  == Guessing(u)'
  <2>1. before \in SUBSET Requests /\ after \in SUBSET Requests
    BY DEF Guessing
  <2>2. attempts[u] + Cardinality(before) <= MAX_ATTEMPTS - 1 + Cardinality(Requests)
    BY DEF GuessInv
  <2>3. attempts[u] \in Nat /\ attempts'[u] \in Nat /\ MAX_ATTEMPTS \in Nat
    BY AuthBoundsAssumption DEF TypeInv
  <2>4. /\ Cardinality(before) \in Nat /\ Cardinality(after) \in Nat
        /\ Cardinality(Requests) \in Nat /\ Cardinality(after) <= Cardinality(Requests)
    BY <2>1, SlotCounts
  <2>5. CASE attempts'[u] <= attempts[u] /\ after \subseteq before
    <3>1. Cardinality(after) <= Cardinality(before)
      BY <2>1, <2>5, SlotCounts
    <3>2. QED
      BY <2>2, <2>3, <2>4, <2>5, <3>1
  <2>6. CASE attempts[u] < MAX_ATTEMPTS /\ attempts'[u] = attempts[u]
    BY <2>3, <2>4, <2>6
  <2>7. ASSUME NEW s \in before, attempts'[u] = attempts[u] + 1, after \subseteq before \ {s}
        PROVE  attempts'[u] + Cardinality(after) <= MAX_ATTEMPTS - 1 + Cardinality(Requests)
    <3>1. Cardinality(before \ {s}) = Cardinality(before) - 1
      BY <2>1, SlotCounts
    <3>2. Cardinality(after) <= Cardinality(before \ {s})
      BY <2>1, <2>7, SlotCounts
    <3>3. QED
      BY <2>2, <2>3, <2>4, <2>7, <3>1, <3>2
  <2>8. QED
    BY <2>5, <2>6, <2>7, GuessEffect DEF GuessStep
<1>3. TypeInv /\ GuessInv => FailuresBounded
  <2> SUFFICES ASSUME TypeInv, GuessInv, NEW u \in Users
               PROVE  attempts[u] <= MAX_ATTEMPTS + Cardinality(Requests) - 1
    BY DEF FailuresBounded
  <2>1. Guessing(u) \in SUBSET Requests /\ attempts[u] \in Nat /\ MAX_ATTEMPTS \in Nat
    BY AuthBoundsAssumption DEF TypeInv, Guessing
  <2>2. Cardinality(Guessing(u)) \in Nat /\ Cardinality(Requests) \in Nat
    BY <2>1, SlotCounts
  <2>3. QED
    BY <2>1, <2>2 DEF GuessInv
<1>4. QED
  BY <1>1, <1>2, <1>3, TypeInvInit, TypeInvStep, PTL DEF Spec

\* The same of the alarms a token has raised.  A token that has raised one is
\* in the table, revoked.
AlarmStep(t) ==
    \/ alarms'[t] = alarms[t] /\ Alarming(t)' \subseteq Alarming(t)
    \/ Live(t) /\ alarms'[t] = alarms[t]
    \/ \E s \in Alarming(t) :
        /\ alarms'[t] \in {alarms[t], alarms[t] + 1}
        /\ Alarming(t)' \subseteq Alarming(t) \ {s}
        /\ session'[t].revoked

\* A step raises an alarm for a token only by a request that had read it unrevoked.
LEMMA AlarmEffect ==
    ASSUME TypeInv, [Next]_vars, NEW t \in Pairs
    PROVE  AlarmStep(t)
<1> DEFINE Quiet == alarms'[t] = alarms[t] /\ Alarming(t)' \subseteq Alarming(t)
<1>0. /\ alarms \in [Pairs -> Nat] /\ req \in [Requests -> Request]
      /\ session \in [Pairs -> Row] /\ \A s \in Requests : SlotOK(req[s])
  BY DEF TypeInv
<1>1. ASSUME NEW s \in Requests, Return(s) PROVE Alarming(t)' \subseteq Alarming(t) \ {s}
  <2>1. Others(s) /\ req'[s].step = "idle"
    BY <1>1, SlotEffects DEF Idle
  <2>2. QED
    BY <2>1 DEF Alarming, Others, At
<1>2. ASSUME NEW s \in Requests, NEW step, Goto(s, step), step # "alarm"
      PROVE  Alarming(t)' \subseteq Alarming(t)
  BY <1>0, <1>2, SlotEffects DEF Alarming, Others, At
<1>3. ASSUME NEW s \in Requests, NEW slot, req' = [req EXCEPT ![s] = slot],
             slot.step # "alarm"
      PROVE  Alarming(t)' \subseteq Alarming(t)
  BY <1>3, ShrinkingSlots
<1>4. UNCHANGED req => Alarming(t)' \subseteq Alarming(t)
  BY DEF Alarming, At
<1>5. ASSUME NEW s \in Requests, InviteStep(s) PROVE Quiet
  <2>0. \A v : [Idle EXCEPT !.step = "invalidate", !.user = v].step # "alarm"
    BY DEF Idle
  <2>1. \A v \in Users : CreateClient(s, v) => Quiet
    BY <1>3, <2>0 DEF CreateClient, CreateClientWithUser
  <2>2. InvalidateLinks(s) \/ IssueLink(s) => Quiet
    BY <1>1, <1>2 DEF InvalidateLinks, IssueLink
  <2>3. QED
    BY <1>5, <2>1, <2>2 DEF InviteStep
<1>6. ASSUME NEW s \in Requests, RedeemStep(s) PROVE Quiet
  <2>1. ASSUME NEW v \in Users, NEW p \in Passwords, ReadLink(s, v, p) PROVE Quiet
    <3>1. [Idle EXCEPT !.step = "spend", !.user = v, !.password = p].step # "alarm"
      BY DEF Idle
    <3>2. QED
      BY <1>3, <2>1, <3>1 DEF ReadLink, tables
  <2>2. SpendLink(s) \/ StorePassword(s) \/ RetireLinks(s) \/ RevokeSessions(s) => Quiet
    BY <1>1, <1>2 DEF SpendLink, StorePassword, RetireLinks, RevokeSessions
  <2>3. QED
    BY <1>6, <2>1, <2>2 DEF RedeemStep
<1>7. ASSUME NEW s \in Requests, LoginStep(s) PROVE Quiet
  <2>1. ASSUME NEW v \in Users, NEW p \in Passwords, CheckAttempts(s, v, p) PROVE Quiet
    <3>1. [Idle EXCEPT !.step = "verify", !.user = v, !.password = p].step # "alarm"
      BY DEF Idle
    <3>2. QED
      BY <1>3, <2>1, <3>1 DEF CheckAttempts, tables
  <2>2. Verify(s) => Quiet
    BY <1>2 DEF Verify, tables
  <2>3. CountFailure(s) \/ ClearFailures(s) \/ UpgradeHash(s) => Quiet
    BY <1>1, <1>2 DEF CountFailure, ClearFailures, UpgradeHash
  <2>4. \A x \in Pairs : OpenSession(s, x) => Quiet
    BY <1>1 DEF OpenSession
  <2>5. QED
    BY <1>7, <2>1, <2>2, <2>3, <2>4 DEF LoginStep
<1>8. ASSUME NEW s \in Requests, RefreshStep(s) PROVE AlarmStep(t)
  <2>1. ASSUME NEW x \in Pairs, PresentToken(s, x) PROVE AlarmStep(t)
    <3>1. PICK step \in {"alarm", "rotate"} :
            req' = [req EXCEPT ![s] = [Idle EXCEPT !.step = step, !.pair = x]]
      BY <2>1 DEF PresentToken, Asked
    <3>2. UNCHANGED alarms /\ Live(x)
      BY <2>1 DEF PresentToken, Asked, Refused, tables
    <3>3. CASE x = t
      BY <3>2, <3>3 DEF AlarmStep
    <3>4. CASE x # t
      <4>1. /\ Others(s)
            /\ req'[s] = [Idle EXCEPT !.step = step, !.pair = x]
        BY <3>1, SlotEffects
      <4>2. req'[s].pair = x
        BY <4>1 DEF Idle
      <4>3. Alarming(t)' \subseteq Alarming(t)
        BY <3>4, <4>1, <4>2 DEF Alarming, Others, At
      <4>4. QED
        BY <3>2, <4>3 DEF AlarmStep
    <3>5. QED
      BY <3>3, <3>4
  <2>2. \A x \in Pairs : Rotate(s, x) => Quiet
    BY <1>1 DEF Rotate
  <2>3. ASSUME RaiseAlarm(s) PROVE AlarmStep(t)
    <3>1. /\ At(s, "alarm") /\ req[s].pair \in Pairs
          /\ RevokeFamily(session[req[s].pair].family) /\ Return(s)
          /\ alarms' = [alarms EXCEPT ![req[s].pair] = @ + 1] \/ UNCHANGED alarms
      BY <1>0, <2>3 DEF RaiseAlarm, At, SlotOK, PairSteps
    <3>2. Alarming(t)' \subseteq Alarming(t) \ {s}
      BY <1>1, <3>1
    <3>3. CASE req[s].pair = t
      <4>1. session'[t].revoked
        BY <1>0, <3>1, <3>3 DEF RevokeFamily, Row
      <4>2. s \in Alarming(t) /\ alarms'[t] \in {alarms[t], alarms[t] + 1}
        BY <1>0, <3>1, <3>3 DEF Alarming
      <4>3. QED
        BY <3>2, <4>1, <4>2 DEF AlarmStep
    <3>4. CASE req[s].pair # t
      <4>1. alarms'[t] = alarms[t]
        BY <1>0, <3>1, <3>4
      <4>2. QED
        BY <3>2, <4>1 DEF AlarmStep
    <3>5. QED
      BY <3>3, <3>4
  <2>4. QED
    BY <1>8, <2>1, <2>2, <2>3 DEF RefreshStep, AlarmStep
<1>9. ASSUME NEW s \in Requests, LogoutStep(s) PROVE Quiet
  <2>1. ASSUME NEW x \in Pairs \cup {NoPair}, NEW a \in Pairs \cup {NoPair},
               AskLogout(s, x, a)
        PROVE  Quiet
    <3>1. PICK step \in {"end", "deny"} :
            req' = [req EXCEPT ![s] = [Idle EXCEPT !.step = step, !.pair = x, !.access = a]]
      BY <2>1 DEF AskLogout
    <3>2. [Idle EXCEPT !.step = step, !.pair = x, !.access = a].step # "alarm"
      BY <3>1 DEF Idle
    <3>3. QED
      BY <1>3, <2>1, <3>1, <3>2 DEF AskLogout, tables
  <2>2. EndFamily(s) \/ DenyAccess(s) => Quiet
    BY <1>1, <1>2 DEF EndFamily, DenyAccess
  <2>3. QED
    BY <1>9, <2>1, <2>2 DEF LogoutStep
<1>10. ASSUME NEW s \in Requests, Busy(s) \/ FailRequest(s) PROVE Quiet
  BY <1>1, <1>10 DEF Busy, FailRequest, tables
<1>11. Expiry \/ UNCHANGED vars => Quiet
  BY <1>4 DEF Expiry, LinkExpires, WindowEnds, SessionExpires, AccessExpires, vars, tables
<1>12. QED
  BY <1>5, <1>6, <1>7, <1>8, <1>9, <1>10, <1>11 DEF Next, AlarmStep

\* A revoked row stays one.
LEMMA RevokedStays ==
    ASSUME TypeInv, [Next]_vars, NEW t \in Pairs, Stored(t)
    PROVE  Stored(t)' /\ (session[t].revoked => session'[t].revoked)
<1>1. CASE SessionsKept
  BY <1>1 DEF SessionsKept, Stored
<1>2. ASSUME NEW s \in Requests, NEW x \in Pairs, OpenSession(s, x)
      PROVE  session'[t] = session[t]
  BY <1>2, OpenEffect
<1>3. ASSUME NEW s \in Requests, NEW x \in Pairs, Rotate(s, x)
      PROVE  Stored(t)' /\ (session[t].revoked => session'[t].revoked)
  BY <1>3, RotateEffect DEF Stored
<1>4. QED
  BY <1>1, <1>2, <1>3, SessionEffect DEF Stored

AlarmInv ==
    \A t \in Pairs :
        /\ alarms[t] + Cardinality(Alarming(t)) <= Cardinality(Requests)
        /\ alarms[t] > 0 => Stored(t) /\ session[t].revoked

\* One old token raises at most one alarm for each request that may be in
\* flight, however often it is presented.
THEOREM AlarmsLimited == Spec => []AlarmsBounded
<1>1. Init => AlarmInv
  <2> SUFFICES ASSUME Init, NEW t \in Pairs
               PROVE  /\ alarms[t] = 0
                      /\ 0 + Cardinality(Alarming(t)) <= Cardinality(Requests)
    BY DEF AlarmInv, Init
  <2>1. alarms[t] = 0 /\ Alarming(t) \in SUBSET Requests
    BY DEF Init, Alarming
  <2>2. QED
    BY <2>1, SlotCounts
<1>2. TypeInv /\ AlarmInv /\ [Next]_vars => AlarmInv'
  <2> SUFFICES ASSUME TypeInv, TypeInv', AlarmInv, [Next]_vars, NEW t \in Pairs
               PROVE  /\ alarms'[t] + Cardinality(Alarming(t)') <= Cardinality(Requests)
                      /\ alarms'[t] > 0 => Stored(t)' /\ session'[t].revoked
    BY TypeInvStep DEF AlarmInv
  <2> DEFINE before == Alarming(t)
             after  == Alarming(t)'
  <2>1. before \in SUBSET Requests /\ after \in SUBSET Requests
    BY DEF Alarming
  <2>2. /\ alarms[t] + Cardinality(before) <= Cardinality(Requests)
        /\ alarms[t] > 0 => Stored(t) /\ session[t].revoked
    BY DEF AlarmInv
  <2>3. alarms[t] \in Nat /\ alarms'[t] \in Nat
    BY DEF TypeInv
  <2>4. /\ Cardinality(before) \in Nat /\ Cardinality(after) \in Nat
        /\ Cardinality(Requests) \in Nat /\ Cardinality(after) <= Cardinality(Requests)
    BY <2>1, SlotCounts
  <2>5. CASE alarms'[t] = alarms[t] /\ after \subseteq before
    <3>1. Cardinality(after) <= Cardinality(before)
      BY <2>1, <2>5, SlotCounts
    <3>2. alarms'[t] + Cardinality(after) <= Cardinality(Requests)
      BY <2>2, <2>3, <2>4, <2>5, <3>1
    <3>3. QED
      BY <2>2, <2>5, <3>2, RevokedStays
  <2>6. CASE Live(t) /\ alarms'[t] = alarms[t]
    <3>1. alarms[t] = 0
      BY <2>2, <2>3, <2>6 DEF Live
    <3>2. QED
      BY <2>4, <2>6, <3>1
  <2>7. ASSUME NEW s \in before, alarms'[t] \in {alarms[t], alarms[t] + 1},
               after \subseteq before \ {s}, session'[t].revoked
        PROVE  /\ alarms'[t] + Cardinality(after) <= Cardinality(Requests)
               /\ Stored(t)' /\ session'[t].revoked
    <3>1. Cardinality(before \ {s}) = Cardinality(before) - 1
      BY <2>1, SlotCounts
    <3>2. Cardinality(after) <= Cardinality(before \ {s})
      BY <2>1, <2>7, SlotCounts
    <3>3. alarms'[t] + Cardinality(after) <= Cardinality(Requests)
      BY <2>2, <2>3, <2>4, <2>7, <3>1, <3>2
    <3>4. Stored(t)
      BY <2>7 DEF Alarming, At, TypeInv, SlotOK, PairSteps
    <3>5. QED
      BY <2>7, <3>3, <3>4, RevokedStays
  <2>8. QED
    BY <2>5, <2>6, <2>7, AlarmEffect DEF AlarmStep
<1>3. TypeInv /\ AlarmInv => AlarmsBounded
  <2> SUFFICES ASSUME TypeInv, AlarmInv, NEW t \in Pairs
               PROVE  alarms[t] <= Cardinality(Requests)
    BY DEF AlarmsBounded
  <2>1. Alarming(t) \in SUBSET Requests /\ alarms[t] \in Nat
    BY DEF TypeInv, Alarming
  <2>2. Cardinality(Alarming(t)) \in Nat /\ Cardinality(Requests) \in Nat
    BY <2>1, SlotCounts
  <2>3. QED
    BY <2>1, <2>2 DEF AlarmInv
<1>4. QED
  BY <1>1, <1>2, <1>3, TypeInvInit, TypeInvStep, PTL DEF Spec

-----------------------------------------------------------------------------
(* Types, and the step a call is served by                                 *)

RefreshSteps == {"alarm", "rotate"}
LoginSteps   == {"verify", "count", "clear", "clear_weak", "upgrade", "open"}
LogoutSteps  == {"end", "deny"}

\* While a call is served its slot is at a step of its handler; a logout ends
\* the family of the cookie it carried; only an answer brings a pair.
CallOK(s) ==
    /\ fetch[s].call = "login" => fetch[s].user \in Users
    /\ Flying(s, "served") =>
        \/ fetch[s].call = "refresh" /\ req[s].step \in RefreshSteps
        \/ fetch[s].call = "login" /\ req[s].step \in LoginSteps
        \/ fetch[s].call = "logout" /\ req[s].step \in LogoutSteps
    /\ Flying(s, "served") /\ At(s, "end") => req[s].pair = fetch[s].cookie
    /\ fetch[s].pair # NoPair => fetch[s].ok /\ fetch[s].phase = "answered"

BrowserTypes ==
    /\ cookie \in Pairs \cup {NoPair}
    /\ tab \in [Tabs -> Tab]
    /\ fetch \in [Requests -> Fetch]
    /\ ended \in Pairs \cup {NoPair}
    /\ mishaps \in SUBSET Mishap

\* Everybody has an account, and keeps it.
Known == \A u \in Users : password[u] \in Passwords

ServerInv == TypeInv /\ Rooted /\ Known
CallsInv  == BrowserTypes /\ \A s \in Requests : CallOK(s)
BaseInv   == ServerInv /\ CallsInv

\* The calls but that of one slot are left alone.
Apart(s) == \A r \in Requests \ {s} : fetch'[r] = fetch[r]

\* What each way to write the table of calls makes of it.
LEMMA FetchWrites ==
    ASSUME BrowserTypes, NEW s \in Requests
    PROVE  /\ \A call \in {"login", "refresh", "logout"}, b \in Tabs,
                 u \in Users \cup {NoUser}, a \in Pairs \cup {NoPair} :
                Send(s, call, b, u, a) =>
                    /\ fetch' \in [Requests -> Fetch] /\ Apart(s)
                    /\ fetch[s] = NoFetch
                    /\ fetch'[s].call = call /\ fetch'[s].phase = "sent"
                    /\ fetch'[s].tab = b /\ fetch'[s].user = u
                    /\ fetch'[s].cookie = cookie /\ fetch'[s].pair = NoPair
           /\ Served(s) =>
                /\ fetch' \in [Requests -> Fetch] /\ Apart(s)
                /\ fetch'[s].call = fetch[s].call /\ fetch'[s].phase = "served"
                /\ fetch'[s].tab = fetch[s].tab /\ fetch'[s].user = fetch[s].user
                /\ fetch'[s].cookie = IF fetch[s].call = "logout"
                                      THEN fetch[s].cookie ELSE NoPair
                /\ fetch'[s].pair = fetch[s].pair /\ fetch'[s].ok = fetch[s].ok
           /\ \A ok \in BOOLEAN, t \in Pairs \cup {NoPair} : Answered(s, ok, t) =>
                /\ fetch' \in [Requests -> Fetch] /\ Apart(s)
                /\ fetch'[s].call = fetch[s].call /\ fetch'[s].phase = "answered"
                /\ fetch'[s].tab = fetch[s].tab /\ fetch'[s].user = fetch[s].user
                /\ fetch'[s].cookie \in {fetch[s].cookie, NoPair}
                /\ fetch'[s].pair = t /\ fetch'[s].ok = ok
           /\ Done(s) =>
                fetch' \in [Requests -> Fetch] /\ Apart(s) /\ fetch'[s] = NoFetch
<1> USE DEF Apart
<1>0. fetch \in [Requests -> Fetch] /\ fetch[s] \in Fetch /\ NoFetch \in Fetch
  BY DEF BrowserTypes, Fetch, NoFetch
<1>1. ASSUME NEW call \in {"login", "refresh", "logout"}, NEW b \in Tabs,
             NEW u \in Users \cup {NoUser}, NEW a \in Pairs \cup {NoPair},
             Send(s, call, b, u, a)
      PROVE  /\ fetch' \in [Requests -> Fetch] /\ Apart(s)
             /\ fetch[s] = NoFetch
             /\ fetch'[s].call = call /\ fetch'[s].phase = "sent"
             /\ fetch'[s].tab = b /\ fetch'[s].user = u
             /\ fetch'[s].cookie = cookie /\ fetch'[s].pair = NoPair
  <2> DEFINE new == [NoFetch EXCEPT !.call = call, !.tab = b, !.user = u,
                                    !.cookie = cookie, !.access = a]
  <2>1. /\ new \in Fetch /\ new.call = call /\ new.phase = "sent" /\ new.tab = b
        /\ new.user = u /\ new.cookie = cookie /\ new.pair = NoPair
    BY DEF NoFetch, Fetch, BrowserTypes
  <2>2. fetch[s] = NoFetch /\ fetch' = [fetch EXCEPT ![s] = new]
    BY <1>1 DEF Send
  <2> HIDE DEF new
  <2>3. QED
    BY <1>0, <2>1, <2>2
<1>2. ASSUME Served(s)
      PROVE  /\ fetch' \in [Requests -> Fetch] /\ Apart(s)
             /\ fetch'[s].call = fetch[s].call /\ fetch'[s].phase = "served"
             /\ fetch'[s].tab = fetch[s].tab /\ fetch'[s].user = fetch[s].user
             /\ fetch'[s].cookie = IF fetch[s].call = "logout"
                                   THEN fetch[s].cookie ELSE NoPair
             /\ fetch'[s].pair = fetch[s].pair /\ fetch'[s].ok = fetch[s].ok
  <2> DEFINE kept == IF fetch[s].call = "logout" THEN fetch[s].cookie ELSE NoPair
             new  == [fetch[s] EXCEPT !.phase = "served", !.access = NoPair,
                                      !.cookie = kept]
  <2>1. kept \in Pairs \cup {NoPair}
    BY <1>0 DEF Fetch
  <2>2. fetch' = [fetch EXCEPT ![s] = new]
    BY <1>2 DEF Served
  <2> HIDE DEF kept
  <2>3. new \in Fetch
    BY <1>0, <2>1 DEF Fetch
  <2>4. /\ new.call = fetch[s].call /\ new.phase = "served"
        /\ new.tab = fetch[s].tab /\ new.user = fetch[s].user
    BY <1>0 DEF Fetch
  <2>5. new.cookie = kept /\ new.pair = fetch[s].pair /\ new.ok = fetch[s].ok
    BY <1>0 DEF Fetch
  <2> HIDE DEF new
  <2>6. QED
    BY <1>0, <2>2, <2>3, <2>4, <2>5 DEF kept
<1>3. ASSUME NEW ok \in BOOLEAN, NEW t \in Pairs \cup {NoPair}, Answered(s, ok, t)
      PROVE  /\ fetch' \in [Requests -> Fetch] /\ Apart(s)
             /\ fetch'[s].call = fetch[s].call /\ fetch'[s].phase = "answered"
             /\ fetch'[s].tab = fetch[s].tab /\ fetch'[s].user = fetch[s].user
             /\ fetch'[s].cookie \in {fetch[s].cookie, NoPair}
             /\ fetch'[s].pair = t /\ fetch'[s].ok = ok
  <2> DEFINE kept == IF fetch[s].call = "logout" /\ ok THEN fetch[s].cookie ELSE NoPair
             new  == [fetch[s] EXCEPT !.phase = "answered", !.access = NoPair,
                                      !.cookie = kept, !.ok = ok, !.pair = t]
  <2>1. kept \in Pairs \cup {NoPair} /\ kept \in {fetch[s].cookie, NoPair}
    BY <1>0 DEF Fetch
  <2>2. fetch' = [fetch EXCEPT ![s] = new]
    BY <1>3 DEF Answered
  <2> HIDE DEF kept
  <2>3. new \in Fetch
    BY <1>0, <1>3, <2>1 DEF Fetch
  <2>4. /\ new.call = fetch[s].call /\ new.phase = "answered"
        /\ new.tab = fetch[s].tab /\ new.user = fetch[s].user
    BY <1>0 DEF Fetch
  <2>5. new.cookie = kept /\ new.pair = t /\ new.ok = ok
    BY <1>0 DEF Fetch
  <2> HIDE DEF new
  <2>6. QED
    BY <1>0, <2>1, <2>2, <2>3, <2>4, <2>5
<1>4. Done(s) => fetch' \in [Requests -> Fetch] /\ Apart(s) /\ fetch'[s] = NoFetch
  BY <1>0 DEF Done
<1>5. QED
  BY <1>1, <1>2, <1>3, <1>4

\* A page that is loaded anew keeps its calls under way, without waiting for
\* their answers.
LEMMA ReloadEffect ==
    ASSUME BrowserTypes, NEW b \in Tabs, Reload(b)
    PROVE  /\ UNCHANGED <<vars, cookie, ended, mishaps>>
           /\ tab' \in [Tabs -> Tab] /\ fetch' \in [Requests -> Fetch]
           /\ \A c \in Tabs \ {b} : tab'[c] = tab[c]
           /\ \A s \in Requests :
                /\ fetch'[s].call = fetch[s].call /\ fetch'[s].phase = fetch[s].phase
                /\ fetch'[s].user = fetch[s].user /\ fetch'[s].cookie = fetch[s].cookie
                /\ fetch'[s].pair = fetch[s].pair /\ fetch'[s].ok = fetch[s].ok
                /\ \/ fetch'[s].tab = fetch[s].tab /\ fetch[s].tab # b
                   \/ fetch'[s].tab = NoTab
                   \/ fetch[s].call = "none"
<1>0. fetch \in [Requests -> Fetch] /\ tab \in [Tabs -> Tab] /\ NewTab \in Tab
  BY DEF BrowserTypes, NewTab, Tab
<1>1. \A s \in Requests :
        fetch'[s] = IF fetch[s].tab = b THEN Orphan(fetch[s]) ELSE fetch[s]
  BY <1>0 DEF Reload
<1>2. \A s \in Requests : Orphan(fetch[s]) \in Fetch
  BY <1>0 DEF Orphan, Fetch
<1>3. fetch' \in [Requests -> Fetch]
  BY <1>0, <1>2 DEF Reload
<1>4. tab' \in [Tabs -> Tab] /\ \A c \in Tabs \ {b} : tab'[c] = tab[c]
  BY <1>0 DEF Reload
<1>5. ASSUME NEW s \in Requests
      PROVE  /\ fetch'[s].call = fetch[s].call /\ fetch'[s].phase = fetch[s].phase
             /\ fetch'[s].user = fetch[s].user /\ fetch'[s].cookie = fetch[s].cookie
             /\ fetch'[s].pair = fetch[s].pair /\ fetch'[s].ok = fetch[s].ok
             /\ \/ fetch'[s].tab = fetch[s].tab /\ fetch[s].tab # b
                \/ fetch'[s].tab = NoTab
                \/ fetch[s].call = "none"
  <2>1. PICK f \in Fetch : f = fetch[s]
    BY <1>0
  <2>2. CASE f.tab = b /\ f.call # "none"
    <3>1. fetch'[s] = [f EXCEPT !.tab = NoTab]
      BY <1>1, <2>1, <2>2 DEF Orphan
    <3>2. QED
      BY <2>1, <3>1 DEF Fetch
  <2>3. CASE f.tab # b \/ f.call = "none"
    BY <1>1, <2>1, <2>3 DEF Orphan
  <2>4. QED
    BY <2>2, <2>3
<1>6. QED
  BY <1>3, <1>4, <1>5 DEF Reload

\* What a logout, a login or a refresh carries is a pair, or none.
LEMMA CallFields ==
    ASSUME BrowserTypes, NEW s \in Requests
    PROVE  /\ fetch[s].call \in {"none", "login", "refresh", "logout"}
           /\ fetch[s].phase \in {"sent", "served", "answered"}
           /\ fetch[s].tab \in Tabs \cup {NoTab} /\ fetch[s].user \in Users \cup {NoUser}
           /\ fetch[s].cookie \in Pairs \cup {NoPair} /\ fetch[s].ok \in BOOLEAN
           /\ fetch[s].pair \in Pairs \cup {NoPair}
           /\ ReadAccessTokenClaims(fetch[s]) \in Pairs \cup {NoPair}
BY DEF BrowserTypes, Fetch, ReadAccessTokenClaims

\* The ways a call may arrive: it is let through to its handler, or answered
\* at once.
ArrivesAtHandler(s) ==
    \/ /\ fetch[s].call = "refresh" /\ fetch[s].cookie \in Pairs
       /\ PresentToken(s, fetch[s].cookie)
    \/ /\ fetch[s].call = "login" /\ fetch[s].user \in Users
       /\ CheckAttempts(s, fetch[s].user, password[fetch[s].user])
    \/ /\ fetch[s].call = "logout"
       /\ AskLogout(s, fetch[s].cookie, ReadAccessTokenClaims(fetch[s]))

\* A call that arrives changes no table and nothing of the browser.
LEMMA ArriveEffect ==
    ASSUME BaseInv, NEW s \in Requests, Arrive(s)
    PROVE  /\ Flying(s, "sent") /\ UNCHANGED <<tables, cookie, tab, ended, mishaps>>
           /\ \/ ArrivesAtHandler(s) /\ Served(s)
              \/ /\ UNCHANGED vars
                 /\ \E ok \in BOOLEAN : Answered(s, ok, NoPair)
                 /\ fetch[s].call = "logout" => fetch[s].cookie = NoPair
<1>1. CallOK(s) /\ fetch[s].cookie \in Pairs \cup {NoPair}
  BY CallFields DEF BaseInv, CallsInv
<1>2. CASE fetch[s].call = "refresh"
  BY <1>1, <1>2 DEF Arrive, ArrivesAtHandler, PresentToken, Asked, vars
<1>3. CASE fetch[s].call = "login"
  BY <1>1, <1>3 DEF Arrive, ArrivesAtHandler, CallOK, CheckAttempts
<1>4. CASE fetch[s].call = "logout"
  BY <1>1, <1>4 DEF Arrive, ArrivesAtHandler, AskLogout, vars
<1>5. QED
  BY <1>2, <1>3, <1>4 DEF Arrive

\* The ways a call may be served, one for each step of the handlers.
Proceeds(s) == UNCHANGED fetch /\ (Verify(s) \/ ClearFailures(s) \/ UpgradeHash(s))

\* A handler takes one of its steps; nothing of the pages changes.
LEMMA ServeEffect ==
    ASSUME NEW s \in Requests, Serve(s) \/ ServerBusy(s)
    PROVE  /\ Flying(s, "served") /\ UNCHANGED <<cookie, tab, ended>>
           /\ mishaps \subseteq mishaps'
           /\ mishaps' \subseteq mishaps \cup {"crossed"}
           /\ \/ Proceeds(s)
              \/ \E t \in Pairs : OpenSession(s, t) /\ Answered(s, TRUE, t)
              \/ \E t \in Pairs : Rotate(s, t) /\ Answered(s, TRUE, t)
              \/ RaiseAlarm(s) /\ Answered(s, FALSE, NoPair)
              \/ /\ EndFamily(s) /\ (Rotating(req[s].pair) => "crossed" \in mishaps')
                 /\ \/ req'[s] = Idle /\ Answered(s, TRUE, NoPair)
                    \/ req'[s] # Idle /\ UNCHANGED fetch
              \/ DenyAccess(s) /\ Answered(s, TRUE, NoPair)
              \/ Busy(s) /\ Answered(s, FALSE, NoPair)
<1>1. CASE ServerBusy(s)
  BY <1>1 DEF ServerBusy
<1>2. CASE Serve(s)
  BY <1>2 DEF Serve, Proceeds, Met, EndFamily
<1>3. QED
  BY <1>1, <1>2

\* Every step of the browser is one of the server, or leaves it alone.
LEMMA ServerStep ==
    ASSUME BaseInv, [BrowserNext]_allVars
    PROVE  [Next]_vars
<1>1. ASSUME NEW b \in Tabs, NEW s \in Requests,
             SendRefresh(b, s) \/ (\E u \in Users : SendLogin(b, s, u)) \/ SendLogout(b, s)
      PROVE  UNCHANGED vars
  BY <1>1 DEF SendRefresh, SendLogin, SendLogout
<1>2. ASSUME NEW b \in Tabs, Reload(b) \/ LoadUser(b) \/ GiveUp(b) PROVE UNCHANGED vars
  BY <1>2 DEF Reload, LoadUser, GiveUp
<1>3. ASSUME NEW s \in Requests, Arrive(s) PROVE [Next]_vars
  <2>1. ReadAccessTokenClaims(fetch[s]) \in Pairs \cup {NoPair}
        /\ fetch[s].cookie \in Pairs \cup {NoPair}
    BY CallFields DEF BaseInv, CallsInv
  <2>2. fetch[s].user \in Users => password[fetch[s].user] \in Passwords
    BY DEF BaseInv, ServerInv, Known
  <2>3. ArrivesAtHandler(s) => RefreshStep(s) \/ LoginStep(s) \/ LogoutStep(s)
    BY <2>1, <2>2 DEF ArrivesAtHandler, RefreshStep, LoginStep, LogoutStep
  <2>4. QED
    BY <1>3, <2>3, ArriveEffect DEF Next
<1>4. ASSUME NEW s \in Requests, Serve(s) \/ ServerBusy(s) PROVE Next
  BY <1>4, ServeEffect DEF Proceeds, Next, LoginStep, RefreshStep, LogoutStep
<1>5. ASSUME NEW s \in Requests, TakeAnswer(s) \/ LoseAnswer(s) PROVE UNCHANGED vars
  BY <1>5 DEF TakeAnswer, LoseAnswer
<1>6. ASSUME NEW t \in Pairs, AccessExpires(t) PROVE Next
  BY <1>6 DEF Next, Expiry
<1>7. QED
  BY <1>1, <1>2, <1>3, <1>4, <1>5, <1>6 DEF BrowserNext, allVars

\* What an answer, or its loss, does to the pages: a page waits for a refresh
\* until its answer comes.
LEMMA AnswerEffect ==
    ASSUME BaseInv, NEW s \in Requests, TakeAnswer(s) \/ LoseAnswer(s)
    PROVE  /\ UNCHANGED vars /\ Done(s) /\ fetch[s].call # "none"
           /\ fetch[s].phase # "served"
           /\ tab' \in [Tabs -> Tab]
           /\ \A b \in Tabs :
                \/ tab'[b].refreshing = tab[b].refreshing
                \/ fetch[s].call = "refresh" /\ fetch[s].tab = b
           /\ cookie' \in {cookie, fetch[s].pair}
           /\ mishaps \subseteq mishaps'
           /\ mishaps' \subseteq mishaps \cup {"lost"}
           /\ LoseAnswer(s) => "lost" \in mishaps' /\ ended' = ended
<1>0. tab \in [Tabs -> Tab]
  BY DEF BaseInv, CallsInv, BrowserTypes
<1>1. ASSUME NEW f, f \in Fetch, f.call # "none", NEW b \in Tabs
      PROVE  /\ After(tab[b], f) \in Tab
             /\ f.call # "refresh" => After(tab[b], f).refreshing = tab[b].refreshing
  <2>0. /\ tab[b] \in Tab /\ f.ok \in BOOLEAN /\ f.pair \in Pairs \cup {NoPair}
        /\ f.user \in Users \cup {NoUser} /\ f.call \in {"login", "refresh", "logout"}
    BY <1>0, <1>1 DEF Fetch
  <2>1. CASE f.call = "refresh"
    <3>1. After(tab[b], f) = AfterRefresh(tab[b], f)
      BY <2>1 DEF After
    <3>2. AfterRefresh(tab[b], f) \in Tab
      BY <2>0 DEF AfterRefresh, Tab
    <3>3. QED
      BY <2>1, <3>1, <3>2
  <2>2. CASE f.call = "login"
    <3>1. After(tab[b], f) = AfterLogin(tab[b], f)
      BY <2>2 DEF After
    <3>2. /\ AfterLogin(tab[b], f) \in Tab
          /\ AfterLogin(tab[b], f).refreshing = tab[b].refreshing
      BY <2>0 DEF AfterLogin, Tab
    <3>3. QED
      BY <3>1, <3>2
  <2>3. CASE f.call = "logout"
    <3>1. After(tab[b], f) = AfterLogout(tab[b])
      BY <2>3 DEF After
    <3>2. /\ AfterLogout(tab[b]) \in Tab
          /\ AfterLogout(tab[b]).refreshing = tab[b].refreshing
      BY <2>0 DEF AfterLogout, Tab
    <3>3. QED
      BY <3>1, <3>2
  <2>4. QED
    BY <2>0, <2>1, <2>2, <2>3
<1>2. ASSUME NEW f, f \in Fetch, f.call # "none", tab' = ToTab(f)
      PROVE  /\ tab' \in [Tabs -> Tab]
             /\ \A b \in Tabs :
                    \/ tab'[b].refreshing = tab[b].refreshing
                    \/ f.call = "refresh" /\ f.tab = b
  <2>1. CASE f.tab = NoTab
    BY <1>0, <1>2, <2>1 DEF ToTab
  <2>2. CASE f.tab # NoTab
    <3>1. f.tab \in Tabs
      BY <1>2, <2>2 DEF Fetch
    <3>2. tab' = [tab EXCEPT ![f.tab] = After(tab[f.tab], f)]
      BY <1>2, <2>2 DEF ToTab
    <3>3. QED
      BY <1>0, <1>1, <1>2, <3>1, <3>2
  <2>3. QED
    BY <2>1, <2>2
<1>3. fetch[s] \in Fetch /\ fetch[s].call # "none" /\ fetch[s].phase # "served"
  BY DEF BaseInv, CallsInv, BrowserTypes, TakeAnswer, LoseAnswer, Flying
<1>4. CASE TakeAnswer(s)
  BY <1>2, <1>3, <1>4 DEF TakeAnswer, CookieAfter, LoseAnswer
<1>5. CASE LoseAnswer(s)
  <2> DEFINE f == [fetch[s] EXCEPT !.ok = FALSE, !.pair = NoPair]
  <2>1. f \in Fetch /\ f.call = fetch[s].call /\ f.tab = fetch[s].tab
    BY <1>3 DEF Fetch
  <2>2. tab' = ToTab(f)
    BY <1>5 DEF LoseAnswer
  <2> HIDE DEF f
  <2>3. QED
    BY <1>2, <1>3, <1>5, <2>1, <2>2 DEF LoseAnswer
<1>6. QED
  BY <1>4, <1>5

\* A loaded page knows its user, and a page that gives up has none.
LEMMA LoadEffect ==
    ASSUME BaseInv, NEW b \in Tabs, LoadUser(b) \/ GiveUp(b)
    PROVE  /\ UNCHANGED <<vars, cookie, fetch, ended, mishaps>>
           /\ tab' \in [Tabs -> Tab]
           /\ \A c \in Tabs : tab'[c].refreshing = tab[c].refreshing
<1>1. tab \in [Tabs -> Tab] /\ session \in [Pairs -> Row]
  BY DEF BaseInv, CallsInv, ServerInv, BrowserTypes, TypeInv
<1>2. CASE LoadUser(b)
  <2>1. tab[b].token \in Pairs
    BY <1>1, <1>2 DEF LoadUser, Speaks, Tab
  <2>2. session[tab[b].token].user \in Users \cup {NoUser}
    BY <1>1, <2>1 DEF Row
  <2> DEFINE new == [tab[b] EXCEPT !.page = "ready",
                                   !.user = session[tab[b].token].user]
  <2>3. new \in Tab /\ new.refreshing = tab[b].refreshing
    BY <1>1, <2>2 DEF Tab
  <2>4. /\ tab' = [tab EXCEPT ![b] = new]
        /\ UNCHANGED <<vars, cookie, fetch, ended, mishaps>>
    BY <1>2 DEF LoadUser
  <2> HIDE DEF new
  <2>5. QED
    BY <1>1, <2>3, <2>4
<1>3. CASE GiveUp(b)
  BY <1>1, <1>3 DEF GiveUp, Tab
<1>4. QED
  BY <1>2, <1>3

\* The three ways to send a call.
LEMMA SendEffect ==
    ASSUME BaseInv, NEW b \in Tabs, NEW s \in Requests,
           \/ SendRefresh(b, s)
           \/ \E u \in Users : SendLogin(b, s, u)
           \/ SendLogout(b, s)
    PROVE  /\ UNCHANGED <<vars, cookie, ended>>
           /\ tab' \in [Tabs -> Tab] /\ \A c \in Tabs \ {b} : tab'[c] = tab[c]
           /\ fetch' \in [Requests -> Fetch] /\ Apart(s) /\ fetch[s] = NoFetch
           /\ fetch'[s].call \in {"login", "refresh", "logout"}
           /\ fetch'[s].phase = "sent" /\ fetch'[s].pair = NoPair
           /\ fetch'[s].cookie = cookie /\ fetch'[s].tab = b
           /\ fetch'[s].call = "login" => fetch'[s].user \in Users
           /\ \/ /\ fetch'[s].call # "refresh" /\ UNCHANGED <<tab, mishaps>>
              \/ /\ fetch'[s].call = "refresh" /\ MayRefresh(b) /\ tab'[b].refreshing
                 /\ mishaps' = mishaps \cup Met("two pages",
                        \E r \in Requests : fetch[r].call = "refresh" /\ fetch[r].tab # b)
<1>0. tab \in [Tabs -> Tab] /\ BrowserTypes
  BY DEF BaseInv, CallsInv, BrowserTypes
<1>1. tab[b].token \in Pairs \cup {NoPair}
  BY <1>0 DEF Tab
<1>2. CASE SendRefresh(b, s)
  <2>1. Send(s, "refresh", b, NoUser, NoPair)
    BY <1>2 DEF SendRefresh
  <2>2. /\ tab' \in [Tabs -> Tab] /\ tab'[b].refreshing
        /\ \A c \in Tabs \ {b} : tab'[c] = tab[c]
    BY <1>0, <1>2 DEF SendRefresh, Tab
  <2>3. /\ fetch' \in [Requests -> Fetch] /\ Apart(s) /\ fetch[s] = NoFetch
        /\ fetch'[s].call = "refresh" /\ fetch'[s].phase = "sent"
        /\ fetch'[s].pair = NoPair /\ fetch'[s].cookie = cookie /\ fetch'[s].tab = b
    BY <1>0, <2>1, FetchWrites
  <2>4. /\ UNCHANGED <<vars, cookie, ended>> /\ MayRefresh(b)
        /\ mishaps' = mishaps \cup Met("two pages",
                \E r \in Requests : fetch[r].call = "refresh" /\ fetch[r].tab # b)
    BY <1>2 DEF SendRefresh
  <2>5. QED
    BY <2>2, <2>3, <2>4
<1>3. ASSUME NEW u \in Users, SendLogin(b, s, u)
      PROVE  /\ Send(s, "login", b, u, tab[b].token)
             /\ UNCHANGED <<vars, cookie, tab, ended, mishaps>>
  BY <1>3 DEF SendLogin
<1>4. CASE SendLogout(b, s)
  <2>1. /\ Send(s, "logout", b, NoUser, tab[b].token)
        /\ UNCHANGED <<vars, cookie, tab, ended, mishaps>>
    BY <1>4 DEF SendLogout
  <2>2. QED
    BY <1>0, <1>1, <2>1, FetchWrites
<1>5. ASSUME NEW u \in Users, SendLogin(b, s, u)
      PROVE  /\ UNCHANGED <<vars, cookie, tab, ended, mishaps>>
             /\ fetch' \in [Requests -> Fetch] /\ Apart(s) /\ fetch[s] = NoFetch
             /\ fetch'[s].call = "login" /\ fetch'[s].user \in Users
             /\ fetch'[s].phase = "sent" /\ fetch'[s].pair = NoPair
             /\ fetch'[s].cookie = cookie /\ fetch'[s].tab = b
  BY <1>0, <1>1, <1>3, <1>5, FetchWrites
<1>6. QED
  BY <1>0, <1>2, <1>4, <1>5

\* A handler moves its own slot, and stays among its steps until it ends.
LEMMA HandlerMoves ==
    ASSUME BaseInv, NEW s \in Requests
    PROVE  /\ ArrivesAtHandler(s) =>
                /\ Others(s) /\ UNCHANGED tables
                /\ fetch[s].call = "refresh" =>
                    /\ req'[s].pair = fetch[s].cookie
                    /\ req'[s].step = IF session[fetch[s].cookie].rotated
                                      THEN "alarm" ELSE "rotate"
                /\ fetch[s].call = "login" => req'[s].step = "verify"
                /\ fetch[s].call = "logout" =>
                    \/ req'[s].step = "end" /\ req'[s].pair = fetch[s].cookie
                    \/ req'[s].step = "deny" /\ fetch[s].cookie = NoPair
                /\ fetch[s].call \in {"login", "refresh", "logout"}
           /\ Verify(s) \/ ClearFailures(s) \/ UpgradeHash(s) =>
                /\ Others(s) /\ UNCHANGED <<session, alarms>>
                /\ req[s].step \in LoginSteps /\ req'[s].step \in LoginSteps
           /\ (\E t \in Pairs : OpenSession(s, t) \/ Rotate(s, t))
                \/ RaiseAlarm(s) \/ DenyAccess(s) \/ Busy(s) =>
                    Others(s) /\ req'[s] = Idle
           /\ EndFamily(s) =>
                /\ Others(s) /\ At(s, "end")
                /\ req'[s] = Idle \/ req'[s].step = "deny"
<1> USE DEF At
<1>0. TypeInv /\ req[s] \in Request /\ req \in [Requests -> Request]
  BY DEF BaseInv, ServerInv, TypeInv
<1>1. ASSUME ArrivesAtHandler(s)
      PROVE  /\ Others(s) /\ UNCHANGED tables
             /\ fetch[s].call = "refresh" =>
                    /\ req'[s].pair = fetch[s].cookie
                    /\ req'[s].step = IF session[fetch[s].cookie].rotated
                                      THEN "alarm" ELSE "rotate"
             /\ fetch[s].call = "login" => req'[s].step = "verify"
             /\ fetch[s].call = "logout" =>
                    \/ req'[s].step = "end" /\ req'[s].pair = fetch[s].cookie
                    \/ req'[s].step = "deny" /\ fetch[s].cookie = NoPair
             /\ fetch[s].call \in {"login", "refresh", "logout"}
  <2>2. CASE fetch[s].call = "refresh"
    <3> DEFINE step == IF session[fetch[s].cookie].rotated THEN "alarm" ELSE "rotate"
               slot == [Idle EXCEPT !.step = step, !.pair = fetch[s].cookie]
    <3>1. slot.step = step /\ slot.pair = fetch[s].cookie
      BY DEF Idle
    <3>2. req' = [req EXCEPT ![s] = slot] /\ UNCHANGED tables
      BY <1>1, <2>2 DEF ArrivesAtHandler, PresentToken, Asked
    <3> HIDE DEF slot
    <3>3. Others(s) /\ req'[s] = slot
      BY <1>0, <3>2, SlotEffects
    <3>4. QED
      BY <2>2, <3>1, <3>2, <3>3
  <2>3. CASE fetch[s].call = "login"
    <3> DEFINE slot == [Idle EXCEPT !.step = "verify", !.user = fetch[s].user,
                                    !.password = password[fetch[s].user]]
    <3>1. slot.step = "verify"
      BY DEF Idle
    <3>2. req' = [req EXCEPT ![s] = slot] /\ UNCHANGED tables
      BY <1>1, <2>3 DEF ArrivesAtHandler, CheckAttempts
    <3> HIDE DEF slot
    <3>3. Others(s) /\ req'[s] = slot
      BY <1>0, <3>2, SlotEffects
    <3>4. QED
      BY <2>3, <3>1, <3>2, <3>3
  <2>4. CASE fetch[s].call = "logout"
    <3> DEFINE step == IF fetch[s].cookie # NoPair THEN "end" ELSE "deny"
               slot == [Idle EXCEPT !.step = step, !.pair = fetch[s].cookie,
                                    !.access = ReadAccessTokenClaims(fetch[s])]
    <3>1. slot.step = step /\ slot.pair = fetch[s].cookie
      BY DEF Idle
    <3>2. req' = [req EXCEPT ![s] = slot] /\ UNCHANGED tables
      BY <1>1, <2>4 DEF ArrivesAtHandler, AskLogout
    <3> HIDE DEF slot
    <3>3. Others(s) /\ req'[s] = slot
      BY <1>0, <3>2, SlotEffects
    <3>4. QED
      BY <2>4, <3>1, <3>2, <3>3
  <2>5. QED
    BY <1>1, <2>2, <2>3, <2>4 DEF ArrivesAtHandler
<1>2. Verify(s) \/ ClearFailures(s) \/ UpgradeHash(s) =>
        /\ Others(s) /\ UNCHANGED <<session, alarms>>
        /\ req[s].step \in LoginSteps /\ req'[s].step \in LoginSteps
  <2>1. Verify(s) =>
            /\ \E step \in {"count", "clear", "clear_weak"} : Goto(s, step)
            /\ At(s, "verify") /\ UNCHANGED <<session, alarms>>
    BY DEF Verify, tables
  <2>2. ClearFailures(s) =>
            /\ \E step \in {"open", "upgrade"} : Goto(s, step)
            /\ req[s].step \in {"clear", "clear_weak"} /\ UNCHANGED <<session, alarms>>
    BY DEF ClearFailures
  <2>3. UpgradeHash(s) =>
            Goto(s, "open") /\ At(s, "upgrade") /\ UNCHANGED <<session, alarms>>
    BY DEF UpgradeHash
  <2>4. QED
    BY <1>0, <2>1, <2>2, <2>3, SlotEffects DEF LoginSteps
<1>3. (\E t \in Pairs : OpenSession(s, t) \/ Rotate(s, t))
        \/ RaiseAlarm(s) \/ DenyAccess(s) \/ Busy(s) => Return(s)
  BY DEF OpenSession, Rotate, RaiseAlarm, DenyAccess, Busy
<1>4. EndFamily(s) => At(s, "end") /\ (Return(s) \/ Goto(s, "deny"))
  BY DEF EndFamily
<1>5. QED
  BY <1>0, <1>1, <1>2, <1>3, <1>4, SlotEffects

\* A slot and a call that are left alone still fit together.
LEMMA CallKept ==
    ASSUME NEW s \in Requests, CallOK(s), req'[s] = req[s],
           fetch'[s].call = fetch[s].call, fetch'[s].phase = fetch[s].phase,
           fetch'[s].user = fetch[s].user, fetch'[s].cookie = fetch[s].cookie,
           fetch'[s].pair = fetch[s].pair, fetch'[s].ok = fetch[s].ok
    PROVE  CallOK(s)'
BY DEF CallOK, Flying, At

\* Calls, pages and cookie keep their types, and calls fit their slots.
LEMMA CallsNext ==
    ASSUME BaseInv, [BrowserNext]_allVars
    PROVE  CallsInv'
<1>0. BrowserTypes /\ TypeInv /\ \A s \in Requests : CallOK(s)
  BY DEF BaseInv, CallsInv, ServerInv
<1>1. ASSUME NEW b \in Tabs, NEW s \in Requests,
             \/ SendRefresh(b, s)
             \/ \E u \in Users : SendLogin(b, s, u)
             \/ SendLogout(b, s)
      PROVE  CallsInv'
  <2>0. /\ UNCHANGED <<vars, cookie, ended>> /\ Apart(s)
        /\ tab' \in [Tabs -> Tab] /\ fetch' \in [Requests -> Fetch]
        /\ \/ mishaps' = mishaps
           \/ mishaps' = mishaps \cup Met("two pages",
                    \E r \in Requests : fetch[r].call = "refresh" /\ fetch[r].tab # b)
    BY <1>1, SendEffect
  <2>1. BrowserTypes'
    <3>1. mishaps' \subseteq mishaps \cup {"two pages"}
      BY <2>0 DEF Met
    <3>2. mishaps' \in SUBSET Mishap
      BY <1>0, <3>1 DEF BrowserTypes, Mishap
    <3>3. QED
      BY <1>0, <2>0, <3>2 DEF BrowserTypes
  <2>2. CallOK(s)'
    <3>1. /\ fetch'[s].phase = "sent" /\ fetch'[s].pair = NoPair
          /\ fetch'[s].call = "login" => fetch'[s].user \in Users
      BY <1>1, SendEffect
    <3>2. QED
      BY <3>1 DEF CallOK, Flying
  <2>3. \A r \in Requests \ {s} : CallOK(r)'
    BY <1>0, <2>0, CallKept DEF Apart, vars
  <2>4. QED
    BY <2>1, <2>2, <2>3 DEF CallsInv
<1>2. ASSUME NEW b \in Tabs, Reload(b) PROVE CallsInv'
  <2>1. BrowserTypes'
    BY <1>0, <1>2, ReloadEffect DEF BrowserTypes
  <2>2. \A s \in Requests : CallOK(s)'
    BY <1>0, <1>2, ReloadEffect, CallKept DEF vars
  <2>3. QED
    BY <2>1, <2>2 DEF CallsInv
<1>3. ASSUME NEW b \in Tabs, LoadUser(b) \/ GiveUp(b) PROVE CallsInv'
  <2>1. BrowserTypes'
    BY <1>0, <1>3, LoadEffect DEF BrowserTypes
  <2>2. \A s \in Requests : CallOK(s)'
    BY <1>0, <1>3, LoadEffect, CallKept DEF vars
  <2>3. QED
    BY <2>1, <2>2 DEF CallsInv
<1>4. ASSUME NEW s \in Requests, Arrive(s) PROVE CallsInv'
  <2>1. Others(s) /\ Apart(s) /\ fetch' \in [Requests -> Fetch]
    BY <1>0, <1>4, ArriveEffect, FetchWrites, HandlerMoves DEF vars, Others
  <2>2. BrowserTypes'
    BY <1>0, <1>4, <2>1, ArriveEffect DEF BrowserTypes
  <2>3. CallOK(s)'
    <3>1. CASE ArrivesAtHandler(s) /\ Served(s)
      <4>1. /\ fetch'[s].call = fetch[s].call /\ fetch'[s].phase = "served"
            /\ fetch'[s].user = fetch[s].user /\ fetch'[s].pair = fetch[s].pair
            /\ fetch[s].call = "logout" => fetch'[s].cookie = fetch[s].cookie
        BY <1>0, <3>1, FetchWrites
      <4>2. fetch[s].pair = NoPair /\ (fetch[s].call = "login" => fetch[s].user \in Users)
        BY <1>0, <1>4, ArriveEffect DEF CallOK, Flying
      <4>3. QED
        BY <3>1, <4>1, <4>2, HandlerMoves
           DEF CallOK, Flying, At, RefreshSteps, LoginSteps, LogoutSteps
    <3>2. ASSUME NEW ok \in BOOLEAN, Answered(s, ok, NoPair) PROVE CallOK(s)'
      BY <1>0, <3>2, FetchWrites DEF CallOK, Flying
    <3>3. QED
      BY <1>4, <3>1, <3>2, ArriveEffect
  <2>4. \A r \in Requests \ {s} : CallOK(r)'
    BY <1>0, <2>1, CallKept DEF Others, Apart
  <2>5. QED
    BY <2>2, <2>3, <2>4 DEF CallsInv
<1>5. ASSUME NEW s \in Requests, Serve(s) \/ ServerBusy(s) PROVE CallsInv'
  <2>0. Flying(s, "served") /\ fetch[s].pair = NoPair
    BY <1>0, <1>5, ServeEffect DEF CallOK, Flying
  <2>1. Others(s)
    <3>1. \/ Verify(s) \/ ClearFailures(s) \/ UpgradeHash(s) \/ EndFamily(s)
          \/ \E t \in Pairs : OpenSession(s, t) \/ Rotate(s, t)
          \/ RaiseAlarm(s) \/ DenyAccess(s) \/ Busy(s)
      BY <1>5, ServeEffect DEF Proceeds
    <3>2. EndFamily(s) => Others(s)
      BY HandlerMoves
    <3>3. Verify(s) \/ ClearFailures(s) \/ UpgradeHash(s) => Others(s)
      BY HandlerMoves
    <3>4. (\E t \in Pairs : OpenSession(s, t) \/ Rotate(s, t))
            \/ RaiseAlarm(s) \/ DenyAccess(s) \/ Busy(s) => Others(s)
      BY HandlerMoves
    <3>5. QED
      BY <3>1, <3>2, <3>3, <3>4
  <2>2. \/ UNCHANGED fetch
        \/ \E t \in Pairs \cup {NoPair} : Answered(s, TRUE, t)
        \/ Answered(s, FALSE, NoPair)
    BY <1>5, ServeEffect DEF Proceeds
  <2>3. Apart(s) /\ fetch' \in [Requests -> Fetch]
    BY <1>0, <2>2, FetchWrites DEF Apart, BrowserTypes
  <2>4. BrowserTypes'
    BY <1>0, <1>5, <2>3, ServeEffect DEF BrowserTypes, Mishap
  <2>5. CallOK(s)'
    <3>1. ASSUME NEW ok \in BOOLEAN, NEW t \in Pairs \cup {NoPair}, Answered(s, ok, t),
                 t # NoPair => ok
          PROVE  CallOK(s)'
      BY <1>0, <3>1, FetchWrites DEF CallOK, Flying
    <3>2. CASE Proceeds(s)
      <4>1. /\ fetch[s].call = "login" /\ req'[s].step \in LoginSteps /\ UNCHANGED fetch
            /\ fetch[s].user \in Users
        BY <1>0, <2>0, <3>2, HandlerMoves
           DEF Proceeds, CallOK, Flying, RefreshSteps, LoginSteps, LogoutSteps
      <4>2. QED
        BY <2>0, <4>1 DEF CallOK, Flying, At, LoginSteps
    <3>3. CASE EndFamily(s) /\ UNCHANGED fetch /\ req'[s] # Idle
      <4>1. fetch[s].call = "logout" /\ req'[s].step = "deny"
        BY <1>0, <2>0, <3>3, HandlerMoves
           DEF CallOK, Flying, At, RefreshSteps, LoginSteps
      <4>2. QED
        BY <2>0, <3>3, <4>1 DEF CallOK, Flying, At, LogoutSteps
    <3>4. QED
      BY <1>5, <3>1, <3>2, <3>3, ServeEffect
  <2>6. \A r \in Requests \ {s} : CallOK(r)'
    BY <1>0, <2>1, <2>3, CallKept DEF Others, Apart
  <2>7. QED
    BY <2>4, <2>5, <2>6 DEF CallsInv
<1>6. ASSUME NEW s \in Requests, TakeAnswer(s) \/ LoseAnswer(s) PROVE CallsInv'
  <2>1. UNCHANGED vars /\ Apart(s) /\ fetch' \in [Requests -> Fetch] /\ fetch'[s] = NoFetch
    BY <1>0, <1>6, AnswerEffect, FetchWrites
  <2>2. ended' \in Pairs \cup {NoPair}
    <3>1. CASE LoseAnswer(s)
      BY <1>0, <3>1 DEF LoseAnswer, BrowserTypes
    <3>2. CASE TakeAnswer(s)
      <4>1. fetch[s].cookie # NoPair =>
                session[fetch[s].cookie].family \in Pairs \cup {NoPair}
        BY <1>0, CallFields DEF TypeInv, Row
      <4>2. QED
        BY <1>0, <3>2, <4>1 DEF TakeAnswer, BrowserTypes
    <3>3. QED
      BY <1>6, <3>1, <3>2
  <2>3. BrowserTypes'
    <3>1. /\ tab' \in [Tabs -> Tab] /\ cookie' \in Pairs \cup {NoPair}
          /\ mishaps' \subseteq mishaps \cup {"lost"}
      BY <1>0, <1>6, AnswerEffect, CallFields DEF BrowserTypes
    <3>2. QED
      BY <1>0, <2>1, <2>2, <3>1 DEF BrowserTypes, Mishap
  <2>4. \A r \in Requests : CallOK(r)'
    BY <1>0, <2>1, CallKept DEF CallOK, Flying, NoFetch, Apart, vars
  <2>5. QED
    BY <2>3, <2>4 DEF CallsInv
<1>7. ASSUME NEW t \in Pairs, AccessExpires(t), UNCHANGED browserVars PROVE CallsInv'
  <2>1. \A s \in Requests : CallOK(s)'
    BY <1>0, <1>7, CallKept DEF browserVars, AccessExpires
  <2>2. QED
    BY <1>0, <1>7, <2>1 DEF CallsInv, BrowserTypes, browserVars
<1>8. CASE UNCHANGED allVars
  BY <1>0, <1>8 DEF allVars, browserVars, vars, CallsInv, CallOK, BrowserTypes, Flying, At
<1>9. QED
  BY <1>1, <1>2, <1>3, <1>4, <1>5, <1>6, <1>7, <1>8 DEF BrowserNext

\* Nobody has called anything yet.
LEMMA BaseInit == BrowserInit => BaseInv
<1> SUFFICES ASSUME BrowserInit PROVE BaseInv
  OBVIOUS
<1>1. TypeInv /\ Rooted
  BY TypeInvInit DEF BrowserInit, Init, Rooted, Stored, NoSession
<1>2. BrowserTypes
  BY DEF BrowserInit, BrowserTypes, Tab, NewTab, Fetch, NoFetch
<1>3. \A s \in Requests : CallOK(s)
  BY DEF BrowserInit, CallOK, Flying, NoFetch
<1>4. QED
  BY <1>1, <1>2, <1>3 DEF BrowserInit, BaseInv, ServerInv, CallsInv, Known

\* No call of the browser takes an account's password away: an upgrade stores
\* the one that was typed.
LEMMA KnownNext ==
    ASSUME BaseInv, [BrowserNext]_allVars
    PROVE  Known'
<1>0. password \in [Users -> Passwords \cup {Absent, Temporary}] /\ Known /\ TypeInv
  BY DEF BaseInv, ServerInv, TypeInv
<1>1. UNCHANGED password => Known'
  BY <1>0 DEF Known
<1>2. ASSUME NEW s \in Requests, UpgradeHash(s) PROVE Known'
  <2>1. req[s].user \in Users /\ req[s].password \in Passwords
    BY <1>0, <1>2 DEF UpgradeHash, At, TypeInv, SlotOK, UserSteps, PasswordSteps
  <2>2. QED
    BY <1>0, <1>2, <2>1 DEF UpgradeHash, UpdatePasswordHash, Known
<1>3. ASSUME NEW s \in Requests, Serve(s) \/ ServerBusy(s) PROVE Known'
  <2>1. Proceeds(s) => Known'
    BY <1>1, <1>2 DEF Proceeds, Verify, ClearFailures, tables
  <2>2. (\E t \in Pairs : OpenSession(s, t) \/ Rotate(s, t))
            \/ RaiseAlarm(s) \/ EndFamily(s) \/ DenyAccess(s) \/ Busy(s) =>
                UNCHANGED password
    BY DEF OpenSession, Rotate, RaiseAlarm, EndFamily, DenyAccess, Busy, tables
  <2>3. QED
    BY <1>1, <1>3, <2>1, <2>2, ServeEffect
<1>4. ASSUME NEW s \in Requests, Arrive(s) PROVE UNCHANGED password
  BY <1>4, ArriveEffect DEF tables
<1>5. ASSUME NEW s \in Requests, TakeAnswer(s) \/ LoseAnswer(s) PROVE UNCHANGED password
  BY <1>5 DEF TakeAnswer, LoseAnswer, vars, tables
<1>6. ASSUME NEW b \in Tabs, NEW s \in Requests,
             SendRefresh(b, s) \/ (\E u \in Users : SendLogin(b, s, u)) \/ SendLogout(b, s)
      PROVE  UNCHANGED password
  BY <1>6 DEF SendRefresh, SendLogin, SendLogout, vars, tables
<1>7. ASSUME NEW b \in Tabs, Reload(b) \/ LoadUser(b) \/ GiveUp(b) PROVE UNCHANGED password
  BY <1>7 DEF Reload, LoadUser, GiveUp, vars, tables
<1>8. \A t \in Pairs : AccessExpires(t) => UNCHANGED password
  BY DEF AccessExpires
<1>9. QED
  BY <1>1, <1>3, <1>4, <1>5, <1>6, <1>7, <1>8 DEF BrowserNext, allVars, vars, tables

\* Server, calls and pages together: inductive.
LEMMA BaseNext ==
    ASSUME BaseInv, [BrowserNext]_allVars
    PROVE  BaseInv'
<1>1. [Next]_vars
  BY ServerStep
<1>2. TypeInv' /\ Rooted'
  BY <1>1, TypeInvStep, RootedStep DEF BaseInv, ServerInv
<1>3. QED
  BY <1>2, CallsNext, KnownNext DEF BaseInv, ServerInv

\* Cookie, pages and calls keep their types, whatever is lost or comes late.
THEOREM BrowserTypeCorrect == BrowserSpec => []BrowserTypeOK
<1>1. BaseInv => BrowserTypeOK
  BY DEF BaseInv, ServerInv, CallsInv, BrowserTypes, BrowserTypeOK, TypeInv, TypeOK
<1>2. BaseInv /\ [BrowserNext]_allVars => BaseInv'
  BY BaseNext
<1>3. QED
  BY <1>1, <1>2, BaseInit, PTL DEF BrowserSpec

\* A browser with its tabs is one of the callers AuthService allows: hiding it
\* leaves a behaviour of the server, so that what is proved of logins, tokens
\* and links holds of it.
THEOREM BrowserIsACaller == BrowserSpec => Spec
<1>1. BrowserInit => Init
  BY DEF BrowserInit
<1>2. BaseInv /\ [BrowserNext]_allVars => BaseInv' /\ [Next]_vars
  BY BaseNext, ServerStep
<1>3. QED
  BY <1>1, <1>2, BaseInit, PTL DEF BrowserSpec, Spec

-----------------------------------------------------------------------------
(* Logout                                                                  *)

\* A logout has ended the family of the cookie it carried.
EndedBy(s) ==
    /\ fetch[s].call = "logout" /\ fetch[s].cookie # NoPair
    /\ \/ fetch[s].phase = "answered"
       \/ fetch[s].phase = "served" /\ At(s, "deny")

\* Unless a rotation was crossed, such a family is dead; and so is the one
\* that the browser last heard the end of.
LogoutInv ==
    "crossed" \notin mishaps =>
        /\ ended # NoPair => Dead(ended)
        /\ \A s \in Requests : EndedBy(s) =>
            Stored(fetch[s].cookie) /\ Dead(session[fetch[s].cookie].family)

\* A logout ends a family at one step, and says so if that crosses a rotation.
Ends(s) ==
    /\ EndFamily(s) /\ At(s, "end") /\ req[s].pair = fetch[s].cookie
    /\ Rotating(req[s].pair) => "crossed" \in mishaps'

\* Only the step that ends a family makes a logout one that ended it.
LEMMA EndedMoves ==
    ASSUME BaseInv, [BrowserNext]_allVars, NEW s \in Requests, EndedBy(s)'
    PROVE  fetch'[s].cookie = fetch[s].cookie /\ (EndedBy(s) \/ Ends(s))
<1> DEFINE Goal == fetch'[s].cookie = fetch[s].cookie /\ (EndedBy(s) \/ Ends(s))
<1>0. BrowserTypes /\ \A r \in Requests : CallOK(r)
  BY DEF BaseInv, CallsInv
<1>1. fetch'[s].call = fetch[s].call /\ fetch'[s].phase = fetch[s].phase
        /\ fetch'[s].cookie = fetch[s].cookie /\ req'[s] = req[s] => Goal
  BY DEF EndedBy, At
<1>2. ASSUME NEW r \in Requests, r # s, Apart(r) /\ (Others(r) \/ UNCHANGED req) PROVE Goal
  BY <1>1, <1>2 DEF Apart, Others
<1>3. ASSUME NEW b \in Tabs, NEW r \in Requests,
             \/ SendRefresh(b, r)
             \/ \E u \in Users : SendLogin(b, r, u)
             \/ SendLogout(b, r)
      PROVE  Goal
  <2>1. Apart(r) /\ fetch'[r].phase = "sent" /\ UNCHANGED req
    BY <1>3, SendEffect DEF vars
  <2>2. r # s
    BY <2>1 DEF EndedBy
  <2>3. QED
    BY <1>2, <2>1, <2>2
<1>4. ASSUME NEW b \in Tabs, Reload(b) PROVE Goal
  BY <1>0, <1>1, <1>4, ReloadEffect DEF vars
<1>5. ASSUME NEW b \in Tabs, LoadUser(b) \/ GiveUp(b) PROVE Goal
  BY <1>1, <1>5, LoadEffect DEF vars
<1>6. ASSUME NEW r \in Requests, Arrive(r) PROVE Goal
  <2>1. Apart(r) /\ Others(r)
    BY <1>0, <1>6, ArriveEffect, FetchWrites, HandlerMoves DEF vars, Others
  <2>2. r # s
    <3>1. CASE ArrivesAtHandler(r) /\ Served(r)
      BY <1>0, <3>1, FetchWrites, HandlerMoves DEF EndedBy, At
    <3>2. ASSUME NEW ok \in BOOLEAN, Answered(r, ok, NoPair),
                 fetch[r].call = "logout" => fetch[r].cookie = NoPair
          PROVE  r # s
      BY <1>0, <3>2, FetchWrites DEF EndedBy
    <3>3. QED
      BY <1>6, <3>1, <3>2, ArriveEffect
  <2>3. QED
    BY <1>2, <2>1, <2>2
<1>7. ASSUME NEW r \in Requests, Serve(r) \/ ServerBusy(r) PROVE Goal
  <2>0. Flying(r, "served")
    BY <1>7, ServeEffect
  <2>1. CASE Proceeds(r)
    <3>1. fetch[r].call = "login" /\ Others(r) /\ Apart(r) /\ UNCHANGED fetch
      BY <1>0, <2>0, <2>1, HandlerMoves
         DEF Proceeds, CallOK, RefreshSteps, LoginSteps, LogoutSteps, Apart
    <3>2. r # s
      BY <3>1 DEF EndedBy
    <3>3. QED
      BY <1>2, <3>1, <3>2
  <2>2. ASSUME NEW ok \in BOOLEAN, NEW t \in Pairs \cup {NoPair}, Answered(r, ok, t),
               OpenSession(r, t) \/ Rotate(r, t) \/ RaiseAlarm(r) \/ Busy(r)
        PROVE  Goal
    <3>1. fetch'[r].call = fetch[r].call /\ Apart(r)
      BY <1>0, <2>2, FetchWrites
    <3>2. fetch[r].call # "logout"
      BY <1>0, <2>0, <2>2
         DEF OpenSession, Rotate, RaiseAlarm, Busy, At, CallOK, LogoutSteps
    <3>3. r # s
      BY <3>1, <3>2 DEF EndedBy
    <3>4. Others(r)
      BY <2>2, SlotEffects DEF OpenSession, Rotate, RaiseAlarm, Busy, BaseInv, ServerInv
    <3>5. QED
      BY <1>2, <3>1, <3>3, <3>4
  <2>3. CASE EndFamily(r) /\ (Rotating(req[r].pair) => "crossed" \in mishaps')
             /\ (Answered(r, TRUE, NoPair) \/ UNCHANGED fetch)
    <3>1. Others(r) /\ At(r, "end") /\ req[r].pair = fetch[r].cookie
      BY <1>0, <2>0, <2>3, HandlerMoves DEF CallOK
    <3>2. Apart(r) /\ fetch'[r].cookie \in {fetch[r].cookie, NoPair}
      BY <1>0, <2>3, FetchWrites DEF Apart
    <3>3. CASE r # s
      BY <1>2, <3>1, <3>2, <3>3
    <3>4. CASE r = s
      BY <2>3, <3>1, <3>2, <3>4 DEF Ends, EndedBy
    <3>5. QED
      BY <3>3, <3>4
  <2>4. CASE DenyAccess(r) /\ Answered(r, TRUE, NoPair)
    <3>1. Others(r) /\ At(r, "deny")
      BY <2>4, HandlerMoves DEF DenyAccess
    <3>2. /\ Apart(r) /\ fetch'[r].cookie \in {fetch[r].cookie, NoPair}
          /\ fetch'[r].call = fetch[r].call
      BY <1>0, <2>4, FetchWrites
    <3>3. CASE r # s
      BY <1>2, <3>1, <3>2, <3>3
    <3>4. CASE r = s
      BY <2>0, <3>1, <3>2, <3>4 DEF EndedBy, Flying
    <3>5. QED
      BY <3>3, <3>4
  <2>5. QED
    BY <1>7, <2>1, <2>2, <2>3, <2>4, ServeEffect
<1>8. ASSUME NEW r \in Requests, TakeAnswer(r) \/ LoseAnswer(r) PROVE Goal
  <2>1. UNCHANGED vars /\ Apart(r) /\ fetch'[r] = NoFetch
    BY <1>0, <1>8, AnswerEffect, FetchWrites
  <2>2. r # s
    BY <2>1 DEF EndedBy, NoFetch
  <2>3. QED
    BY <1>2, <2>1, <2>2 DEF vars
<1>9. ASSUME NEW t \in Pairs, AccessExpires(t), UNCHANGED browserVars PROVE Goal
  BY <1>1, <1>9 DEF AccessExpires, browserVars
<1>10. CASE UNCHANGED allVars
  BY <1>1, <1>10 DEF allVars, vars, browserVars
<1>11. QED
  BY <1>3, <1>4, <1>5, <1>6, <1>7, <1>8, <1>9, <1>10 DEF BrowserNext

\* What went wrong is remembered, and only these steps write the family that
\* was ended.
LEMMA HistoryMoves ==
    ASSUME BaseInv, [BrowserNext]_allVars
    PROVE  /\ mishaps \subseteq mishaps'
           /\ \/ ended' \in {ended, NoPair}
              \/ \E s \in Requests :
                    /\ EndedBy(s) /\ UNCHANGED vars
                    /\ ended' = session[fetch[s].cookie].family
<1>1. ASSUME NEW b \in Tabs, NEW s \in Requests,
             SendRefresh(b, s) \/ (\E u \in Users : SendLogin(b, s, u)) \/ SendLogout(b, s)
      PROVE  mishaps \subseteq mishaps' /\ ended' = ended
  BY <1>1 DEF SendRefresh, SendLogin, SendLogout
<1>2. ASSUME NEW b \in Tabs, Reload(b) \/ LoadUser(b) \/ GiveUp(b)
      PROVE  mishaps \subseteq mishaps' /\ ended' = ended
  BY <1>2 DEF Reload, LoadUser, GiveUp
<1>3. ASSUME NEW s \in Requests, Arrive(s) \/ Serve(s) \/ ServerBusy(s) \/ LoseAnswer(s)
      PROVE  mishaps \subseteq mishaps' /\ ended' = ended
  BY <1>3 DEF Arrive, Serve, ServerBusy, LoseAnswer
<1>4. ASSUME NEW s \in Requests, TakeAnswer(s)
      PROVE  /\ mishaps \subseteq mishaps'
             /\ \/ ended' \in {ended, NoPair}
                \/ EndedBy(s) /\ UNCHANGED vars /\ ended' = session[fetch[s].cookie].family
  BY <1>4 DEF TakeAnswer, EndedBy, Flying
<1>5. UNCHANGED browserVars => mishaps \subseteq mishaps' /\ ended' = ended
  BY DEF browserVars
<1>6. QED
  BY <1>1, <1>2, <1>3, <1>4, <1>5 DEF BrowserNext, allVars

\* A pair keeps its family.
LEMMA FamiliesStay ==
    ASSUME TypeInv, [Next]_vars, NEW t \in Pairs, Stored(t)
    PROVE  session'[t].family = session[t].family /\ Stored(t)'
BY SessionEffect, OpenEffect, RotateEffect DEF SessionsKept, Stored

\* A logout that crosses no rotation leaves a dead family.
LEMMA EndingKills ==
    ASSUME BaseInv, NEW s \in Requests, Ends(s), ~Rotating(req[s].pair),
           NEW x, x = req[s].pair, NEW f, f = session[x].family
    PROVE  session'[x].family = f /\ Stored(x)' /\ Dead(f)'
<1>0. TypeInv /\ session \in [Pairs -> Row] /\ x \in Pairs /\ Stored(x)
  BY DEF BaseInv, ServerInv, TypeInv, SlotOK, Ends, At, PairSteps
<1>1. \A t \in Pairs :
        /\ session'[t].family = session[t].family
        /\ session'[t].revoked = (session[t].revoked \/ session[t].family = f)
  BY <1>0 DEF Ends, EndFamily, RevokeFamily, Row
<1>2. session'[x].family = f /\ Members(f)' = Members(f) /\ x \in Members(f)
  BY <1>0, <1>1 DEF Members
<1>3. \A t \in Members(f) : session'[t].revoked
  BY <1>1 DEF Members
<1>4. \A r \in Requests : At(r, "rotate")' => At(r, "rotate") /\ req'[r] = req[r]
  BY HandlerMoves DEF Ends, Others, At, Idle
<1>5. \A r \in Requests : At(r, "rotate")' => req'[r].pair \notin Members(f)
  BY <1>4 DEF Rotating, Members
<1>6. Dead(f)'
  BY <1>2, <1>3, <1>5 DEF Dead
<1>7. QED
  BY <1>0, <1>1, <1>2, <1>6 DEF Stored

\* LogoutInv is inductive: DeadStep keeps what is dead.
LEMMA LogoutNext ==
    ASSUME BaseInv, LogoutInv, [BrowserNext]_allVars
    PROVE  LogoutInv'
<1> SUFFICES ASSUME "crossed" \notin mishaps'
             PROVE  /\ (ended # NoPair => Dead(ended))'
                    /\ \A s \in Requests : EndedBy(s)' =>
                        (Stored(fetch[s].cookie) /\ Dead(session[fetch[s].cookie].family))'
  BY DEF LogoutInv
<1>0. TypeInv /\ Rooted /\ [Next]_vars /\ BrowserTypes
  BY ServerStep DEF BaseInv, ServerInv, CallsInv
<1>1. "crossed" \notin mishaps /\ (ended # NoPair => Dead(ended))
  BY HistoryMoves DEF LogoutInv
<1>2. \A f \in Pairs : Dead(f) => Dead(f)'
  BY <1>0, DeadStep
<1>3. ASSUME NEW s \in Requests, EndedBy(s),
             NEW x, x = fetch[s].cookie, NEW f, f = session[x].family
      PROVE  f \in Pairs /\ Dead(f)' /\ session'[x].family = f /\ Stored(x)'
  <2>1. x \in Pairs /\ Stored(x) /\ Dead(f)
    BY <1>0, <1>1, <1>3, CallFields DEF LogoutInv, EndedBy
  <2>2. f \in Pairs
    BY <1>0, <1>3, <2>1 DEF Rooted
  <2>3. QED
    BY <1>0, <1>2, <1>3, <2>1, <2>2, FamiliesStay
<1>4. ASSUME NEW s \in Requests, EndedBy(s)', NEW x, x = fetch'[s].cookie
      PROVE  Stored(x)' /\ Dead(session[x].family)'
  <2>1. PICK f : f = session[x].family
    OBVIOUS
  <2>2. CASE EndedBy(s) /\ x = fetch[s].cookie
    <3>1. Dead(f)' /\ session'[x].family = f /\ Stored(x)'
      BY <1>3, <2>1, <2>2
    <3>2. QED
      BY <3>1 DEF Dead, Members
  <2>3. CASE Ends(s) /\ x = fetch[s].cookie
    <3>1. ~Rotating(req[s].pair) /\ x = req[s].pair
      BY <2>3 DEF Ends
    <3>2. Dead(f)' /\ session'[x].family = f /\ Stored(x)'
      BY <2>1, <2>3, <3>1, EndingKills
    <3>3. QED
      BY <3>2 DEF Dead, Members
  <2>4. QED
    BY <1>4, <2>2, <2>3, EndedMoves
<1>5. (ended # NoPair => Dead(ended))'
  <2>1. CASE ended' \in {ended, NoPair}
    BY <1>0, <1>1, <1>2, <2>1 DEF BrowserTypes, Dead, Members
  <2>2. ASSUME NEW s \in Requests, EndedBy(s), UNCHANGED vars,
               ended' = session[fetch[s].cookie].family
        PROVE  Dead(ended)'
    <3>1. PICK f : f = session[fetch[s].cookie].family
      OBVIOUS
    <3>2. Dead(f)'
      BY <1>3, <2>2, <3>1
    <3>3. QED
      BY <2>2, <3>1, <3>2 DEF Dead, Members
  <2>3. QED
    BY <2>1, <2>2, HistoryMoves
<1>6. QED
  BY <1>4, <1>5 DEF Dead, Members, Stored

\* After a logout that the browser heard of, and that crossed no rotation,
\* the family it ended has no live token left and gets none.
THEOREM LogoutLasts == BrowserSpec => []LogoutSticks
<1>1. BrowserInit => LogoutInv
  BY DEF BrowserInit, LogoutInv, EndedBy, NoFetch
<1>2. BaseInv /\ LogoutInv /\ [BrowserNext]_allVars => BaseInv' /\ LogoutInv'
  BY BaseNext, LogoutNext
<1>3. LogoutInv => LogoutSticks
  BY DEF LogoutInv, LogoutSticks, Dead
<1>4. QED
  BY <1>1, <1>2, <1>3, BaseInit, PTL DEF BrowserSpec

-----------------------------------------------------------------------------
(* The theft alarm                                                         *)

Honest == {"two pages", "lost"} \cap mishaps = {}

Unspent(t)    == Stored(t) /\ ~session[t].rotated
Refreshing(s) == fetch[s].call = "refresh"

\* The token a refresh presents: it is in the call, and then in its slot.
Carries(s, t) ==
    /\ Refreshing(s)
    /\ \/ fetch[s].phase = "sent" /\ fetch[s].cookie = t
       \/ fetch[s].phase = "served" /\ req[s].pair = t

\* There is one refresh at a time, and its page waits for it; what it carries
\* is unspent, and no answer will bring it again.
OneRefresh == \A r, s \in Requests : Refreshing(r) /\ Refreshing(s) => r = s
PagesWait ==
    \A s \in Requests, b \in Tabs :
        Refreshing(s) /\ fetch[s].tab = b => tab[b].refreshing
Rotates ==
    \A s \in Requests : Refreshing(s) /\ fetch[s].phase = "served" => At(s, "rotate")
CarriedUnspent ==
    \A s \in Requests, t \in Pairs : Carries(s, t) =>
        Unspent(t) /\ \A r \in Requests : fetch[r].pair # t

\* An answer brings an unspent token that nobody else has; the cookie is spent
\* only while the answer that replaces it is under way.
AnswersUnspent ==
    \A s \in Requests, t \in Pairs : fetch[s].pair = t =>
        Unspent(t) /\ t # cookie /\ \A r \in Requests : fetch[r].pair = t => r = s
CookieUnspent ==
    cookie # NoPair =>
        /\ Stored(cookie)
        /\ session[cookie].rotated =>
            \E s \in Requests : Refreshing(s) /\ fetch[s].pair # NoPair
NoAlarms == \A t \in Pairs : alarms[t] = 0

TokensInv ==
    /\ OneRefresh /\ PagesWait /\ Rotates
    /\ CarriedUnspent /\ AnswersUnspent /\ CookieUnspent /\ NoAlarms
HonestInv == Honest => TokensInv

\* A call that a step leaves alone, or that is no refresh and brings nothing
\* new, changes nothing in this.
Still(s) ==
    /\ fetch'[s].call = fetch[s].call /\ fetch'[s].phase = fetch[s].phase
    /\ fetch'[s].cookie = fetch[s].cookie /\ fetch'[s].pair = fetch[s].pair
    /\ req'[s] = req[s]
NoRefresh(s) ==
    /\ fetch[s].call # "refresh" /\ fetch'[s].call # "refresh"
    /\ fetch'[s].pair = fetch[s].pair

\* A step that spends no token and moves no refresh keeps the invariant.
LEMMA TokensKept ==
    ASSUME TokensInv, BrowserTypes, SessionsKept, UNCHANGED <<cookie, alarms>>, PagesWait',
           \A s \in Requests : Still(s) \/ NoRefresh(s)
    PROVE  TokensInv'
<1>1. \A t \in Pairs : Unspent(t)' <=> Unspent(t)
  BY DEF SessionsKept, Unspent, Stored
<1>2. \A s \in Requests :
        /\ fetch'[s].pair = fetch[s].pair
        /\ Refreshing(s)' <=> Refreshing(s)
        /\ Refreshing(s) => Still(s)
  BY DEF Still, NoRefresh, Refreshing
<1>3. \A s \in Requests, t \in Pairs : Carries(s, t)' => Carries(s, t)
  BY <1>2 DEF Carries, Still
<1>4. OneRefresh' /\ Rotates'
  BY <1>2 DEF TokensInv, OneRefresh, Rotates, Still, At
<1>5. CarriedUnspent' /\ AnswersUnspent'
  BY <1>1, <1>2, <1>3 DEF TokensInv, CarriedUnspent, AnswersUnspent
<1>6. CookieUnspent'
  BY <1>2 DEF TokensInv, CookieUnspent, SessionsKept, Stored, BrowserTypes
<1>7. NoAlarms'
  BY DEF TokensInv, NoAlarms
<1>8. QED
  BY <1>4, <1>5, <1>6, <1>7 DEF TokensInv

\* A refresh that is sent is the only one, and carries an unspent token.
LEMMA RefreshSent ==
    ASSUME BaseInv, TokensInv, Honest', NEW b \in Tabs, NEW s \in Requests, SendRefresh(b, s)
    PROVE  TokensInv'
<1>0. BrowserTypes /\ Apart(s) /\ UNCHANGED <<vars, cookie>>
  BY SendEffect DEF BaseInv, CallsInv
<1>1. \A r \in Requests : ~Refreshing(r)
  <2>1. ~\E r \in Requests : fetch[r].call = "refresh" /\ fetch[r].tab # b
    BY DEF SendRefresh, Honest, Met
  <2>2. ~tab[b].refreshing
    BY DEF SendRefresh, MayRefresh
  <2>3. QED
    BY <2>1, <2>2 DEF TokensInv, PagesWait, Refreshing
<1>2. /\ fetch'[s].phase = "sent" /\ fetch'[s].cookie = cookie /\ fetch'[s].tab = b
      /\ fetch'[s].pair = NoPair /\ tab'[b].refreshing
  <2>1. Send(s, "refresh", b, NoUser, NoPair)
    BY DEF SendRefresh
  <2>2. tab'[b].refreshing
    BY <1>0 DEF SendRefresh, BrowserTypes, Tab
  <2>3. QED
    BY <1>0, <2>1, <2>2, FetchWrites
<1>3. \A r \in Requests : Refreshing(r)' => r = s
  BY <1>0, <1>1 DEF Apart, Refreshing
<1>4. \A t \in Pairs : Unspent(t)' <=> Unspent(t)
  BY <1>0 DEF Unspent, Stored, vars, tables
<1>5. \A r \in Requests, t \in Pairs : fetch'[r].pair = t => fetch[r].pair = t
  BY <1>0, <1>2, AuthNullsAssumption DEF Apart
<1>6. OneRefresh' /\ PagesWait' /\ Rotates'
  BY <1>2, <1>3 DEF OneRefresh, PagesWait, Rotates, Refreshing
<1>7. CarriedUnspent'
  <2>1. \A t \in Pairs : cookie = t => Unspent(t) /\ \A r \in Requests : fetch[r].pair # t
    BY <1>1, AuthNullsAssumption
       DEF TokensInv, CookieUnspent, AnswersUnspent, Unspent
  <2>2. \A r \in Requests, t \in Pairs : Carries(r, t)' => t = cookie
    BY <1>2, <1>3 DEF Carries, Refreshing
  <2>3. QED
    BY <1>4, <1>5, <2>1, <2>2 DEF CarriedUnspent
<1>8. AnswersUnspent'
  BY <1>0, <1>4, <1>5 DEF TokensInv, AnswersUnspent
<1>9. CookieUnspent' /\ NoAlarms'
  BY <1>0, <1>1 DEF TokensInv, CookieUnspent, NoAlarms, Stored, vars, tables
<1>10. QED
  BY <1>6, <1>7, <1>8, <1>9 DEF TokensInv

\* A refresh that arrives is let through to rotate what it carries, or refused.
LEMMA RefreshArrives ==
    ASSUME BaseInv, TokensInv, NEW s \in Requests, Arrive(s), Refreshing(s)
    PROVE  TokensInv'
<1>0. /\ BrowserTypes /\ CallOK(s) /\ Flying(s, "sent")
      /\ UNCHANGED <<tables, cookie, tab>>
  BY ArriveEffect DEF BaseInv, CallsInv
<1>1. /\ Apart(s) /\ Others(s) /\ fetch'[s].call = "refresh" /\ fetch'[s].pair = NoPair
      /\ fetch'[s].tab = fetch[s].tab /\ fetch[s].pair = NoPair
      /\ \/ fetch'[s].phase = "answered"
         \/ /\ fetch'[s].phase = "served" /\ req'[s].pair = fetch[s].cookie
            /\ fetch[s].cookie \in Pairs
            /\ req'[s].step = IF session[fetch[s].cookie].rotated THEN "alarm" ELSE "rotate"
  <2>1. fetch[s].pair = NoPair
    BY <1>0 DEF CallOK, Flying
  <2>2. CASE ArrivesAtHandler(s) /\ Served(s)
    BY <1>0, <2>1, <2>2, FetchWrites, HandlerMoves DEF Refreshing, ArrivesAtHandler
  <2>3. ASSUME NEW ok \in BOOLEAN, Answered(s, ok, NoPair), UNCHANGED vars
        PROVE  /\ Apart(s) /\ Others(s) /\ fetch'[s].call = "refresh"
               /\ fetch'[s].pair = NoPair /\ fetch'[s].tab = fetch[s].tab
               /\ fetch'[s].phase = "answered"
    BY <1>0, <2>3, FetchWrites DEF Refreshing, vars, Others
  <2>4. QED
    BY <2>1, <2>2, <2>3, ArriveEffect
<1>2. \A r \in Requests : r # s => fetch'[r] = fetch[r] /\ req'[r] = req[r]
  BY <1>1 DEF Apart, Others
<1>3. \A r \in Requests : fetch'[r].pair = fetch[r].pair /\ fetch'[r].call = fetch[r].call
        /\ fetch'[r].tab = fetch[r].tab
  BY <1>1, <1>2 DEF Refreshing
<1>4. \A t \in Pairs : Unspent(t)' <=> Unspent(t)
  BY <1>0 DEF Unspent, Stored, tables
<1>5. \A r \in Requests, t \in Pairs : Carries(r, t)' => Carries(r, t)
  BY <1>0, <1>1, <1>2 DEF Carries, Refreshing, Flying
<1>6. OneRefresh' /\ PagesWait'
  BY <1>0, <1>3 DEF TokensInv, OneRefresh, PagesWait, Refreshing
<1>7. Rotates'
  <2>1. \A t \in Pairs : fetch[s].cookie = t => ~session[t].rotated
    BY <1>0 DEF TokensInv, CarriedUnspent, Carries, Flying, Unspent
  <2>2. fetch'[s].phase = "served" => At(s, "rotate")'
    BY <1>1, <2>1 DEF At
  <2>3. QED
    BY <1>2, <2>2 DEF TokensInv, Rotates, Refreshing, At
<1>8. CarriedUnspent' /\ AnswersUnspent'
  BY <1>0, <1>3, <1>4, <1>5 DEF TokensInv, CarriedUnspent, AnswersUnspent
<1>9. CookieUnspent' /\ NoAlarms'
  BY <1>0, <1>3 DEF TokensInv, CookieUnspent, NoAlarms, Stored, Refreshing, tables
<1>10. QED
  BY <1>6, <1>7, <1>8, <1>9 DEF TokensInv

\* A login that is answered brings a token that was not there before.
LEMMA LoginAnswers ==
    ASSUME BaseInv, TokensInv, NEW s \in Requests, NEW t \in Pairs, OpenSession(s, t),
           Answered(s, TRUE, t), Flying(s, "served"), UNCHANGED <<cookie, tab>>
    PROVE  TokensInv'
<1>0. BrowserTypes /\ CallOK(s) /\ UNCHANGED alarms
  BY DEF BaseInv, CallsInv, OpenSession
<1>1. Apart(s) /\ Others(s)
  BY <1>0, FetchWrites, HandlerMoves
<1>2. /\ fetch[s].call = "login" /\ fetch'[s].call = "login"
      /\ fetch'[s].pair = t /\ fetch[s].pair = NoPair
  <2>1. fetch'[s].call = fetch[s].call /\ fetch'[s].pair = t
    BY <1>0, FetchWrites
  <2>2. At(s, "open")
    BY DEF OpenSession
  <2>3. QED
    BY <1>0, <2>1, <2>2
       DEF CallOK, Flying, At, RefreshSteps, LoginSteps, LogoutSteps
<1>3. /\ ~Stored(t) /\ Unspent(t)'
      /\ \A x \in Pairs \ {t} : session'[x] = session[x]
  BY OpenEffect, AuthNullsAssumption DEF BaseInv, ServerInv, Unspent, Stored
<1>4. \A x \in Pairs : Unspent(x) => x # t /\ Unspent(x)'
  BY <1>3 DEF Unspent, Stored
<1>5. \A r \in Requests : r # s => fetch'[r] = fetch[r] /\ req'[r] = req[r]
  BY <1>1 DEF Apart, Others
<1>6. \A r \in Requests, x \in Pairs : Carries(r, x)' => Carries(r, x)
  BY <1>2, <1>5 DEF Carries, Refreshing
<1>7. \A r \in Requests, x \in Pairs :
        fetch'[r].pair = x => fetch[r].pair = x \/ (r = s /\ x = t)
  BY <1>2, <1>5
<1>8. OneRefresh' /\ PagesWait' /\ Rotates'
  BY <1>2, <1>5 DEF TokensInv, OneRefresh, PagesWait, Rotates, Refreshing, At
<1>9. CarriedUnspent'
  BY <1>4, <1>6, <1>7 DEF TokensInv, CarriedUnspent
<1>10. AnswersUnspent'
  <2>1. t # cookie /\ \A r \in Requests : fetch[r].pair # t
    BY <1>3, AuthNullsAssumption
       DEF TokensInv, CookieUnspent, AnswersUnspent, Unspent
  <2>2. QED
    BY <1>2, <1>3, <1>4, <1>7, <2>1 DEF TokensInv, AnswersUnspent
<1>11. CookieUnspent'
  <2>1. cookie # NoPair => cookie \in Pairs \ {t} /\ session'[cookie] = session[cookie]
    BY <1>0, <1>3 DEF TokensInv, CookieUnspent, BrowserTypes
  <2>2. QED
    BY <1>2, <1>5, <2>1 DEF TokensInv, CookieUnspent, Stored, Refreshing
<1>12. NoAlarms'
  BY <1>0 DEF TokensInv, NoAlarms
<1>13. QED
  BY <1>8, <1>9, <1>10, <1>11, <1>12 DEF TokensInv

\* A refresh that is answered has spent what it carried, and the answer brings
\* the replacement.
LEMMA RefreshAnswers ==
    ASSUME BaseInv, TokensInv, NEW s \in Requests, NEW t \in Pairs, Rotate(s, t),
           Answered(s, TRUE, t), Flying(s, "served"), UNCHANGED <<cookie, tab>>
    PROVE  TokensInv'
<1>0. BrowserTypes /\ CallOK(s) /\ UNCHANGED alarms
  BY DEF BaseInv, CallsInv, Rotate
<1>1. Apart(s) /\ Others(s)
  BY <1>0, FetchWrites, HandlerMoves
<1>2. /\ fetch[s].call = "refresh" /\ fetch[s].phase = "served"
      /\ fetch'[s].call = "refresh" /\ fetch'[s].phase = "answered"
      /\ fetch'[s].pair = t /\ fetch'[s].tab = fetch[s].tab
  <2>1. /\ fetch'[s].call = fetch[s].call /\ fetch'[s].phase = "answered"
        /\ fetch'[s].pair = t /\ fetch'[s].tab = fetch[s].tab
    BY <1>0, FetchWrites
  <2>2. At(s, "rotate")
    BY DEF Rotate
  <2>3. QED
    BY <1>0, <2>1, <2>2
       DEF CallOK, Flying, At, RefreshSteps, LoginSteps, LogoutSteps
<1>3. PICK spent : spent = req[s].pair
  OBVIOUS
<1>4. /\ ~Stored(t) /\ Unspent(t)' /\ spent \in Pairs /\ Stored(spent)
      /\ Stored(spent)' /\ \A x \in Pairs \ {t, spent} : session'[x] = session[x]
  BY <1>3, RotateEffect DEF BaseInv, ServerInv, Unspent, Stored
<1>5. Carries(s, spent) /\ \A r \in Requests : fetch[r].pair # spent
  BY <1>2, <1>3, <1>4 DEF Carries, Refreshing, TokensInv, CarriedUnspent
<1>6. \A r \in Requests : r # s => fetch'[r] = fetch[r] /\ req'[r] = req[r]
  BY <1>1 DEF Apart, Others
<1>7. \A x \in Pairs : Unspent(x) /\ x # spent => x # t /\ Unspent(x)'
  BY <1>4 DEF Unspent, Stored
<1>8. \A r \in Requests : Refreshing(r)' => r = s
  BY <1>2, <1>6 DEF TokensInv, OneRefresh, Refreshing
<1>9. OneRefresh' /\ Rotates' /\ CarriedUnspent'
  BY <1>2, <1>8 DEF OneRefresh, Rotates, CarriedUnspent, Carries
<1>10. PagesWait'
  BY <1>2, <1>8 DEF TokensInv, PagesWait, Refreshing
<1>11. AnswersUnspent'
  <2>1. t # cookie /\ \A r \in Requests : fetch[r].pair # t
    BY <1>4, AuthNullsAssumption
       DEF TokensInv, CookieUnspent, AnswersUnspent, Unspent
  <2>2. \A r \in Requests, x \in Pairs :
            fetch'[r].pair = x => (r # s /\ fetch[r].pair = x /\ x # t) \/ (r = s /\ x = t)
    BY <1>2, <1>6, <2>1
  <2>3. QED
    BY <1>4, <1>5, <1>7, <2>1, <2>2 DEF TokensInv, AnswersUnspent
<1>12. CookieUnspent'
  <2>1. cookie # NoPair => cookie \in Pairs \ {t} /\ Stored(cookie)
    BY <1>0, <1>4 DEF TokensInv, CookieUnspent, BrowserTypes
  <2>2. cookie # NoPair => Stored(cookie)'
    BY <1>4, <2>1 DEF Stored
  <2>3. Refreshing(s)' /\ fetch'[s].pair # NoPair
    BY <1>2, AuthNullsAssumption DEF Refreshing
  <2>4. QED
    BY <2>2, <2>3 DEF CookieUnspent
<1>13. NoAlarms'
  BY <1>0 DEF TokensInv, NoAlarms
<1>14. QED
  BY <1>9, <1>10, <1>11, <1>12, <1>13 DEF TokensInv

\* With an answer the browser takes the token it brings, and the page stops
\* waiting.
LEMMA AnswerTaken ==
    ASSUME BaseInv, TokensInv, NEW s \in Requests, TakeAnswer(s)
    PROVE  TokensInv'
<1>0. /\ BrowserTypes /\ UNCHANGED vars /\ Apart(s) /\ fetch'[s] = NoFetch
      /\ \A b \in Tabs :
            \/ tab'[b].refreshing = tab[b].refreshing
            \/ fetch[s].call = "refresh" /\ fetch[s].tab = b
  BY AnswerEffect, FetchWrites DEF BaseInv, CallsInv
<1>1. /\ fetch[s].pair # NoPair => fetch[s].ok
      /\ cookie' = IF fetch[s].ok THEN fetch[s].pair ELSE cookie
  BY DEF BaseInv, CallsInv, CallOK, TakeAnswer, CookieAfter
<1>2. \A r \in Requests : r # s => fetch'[r] = fetch[r]
  BY <1>0 DEF Apart
<1>3. \A r \in Requests :
        /\ Refreshing(r)' => Refreshing(r) /\ r # s
        /\ fetch'[r].pair # NoPair => r # s /\ fetch'[r].pair = fetch[r].pair
  BY <1>0, <1>2 DEF Refreshing, NoFetch
<1>4. /\ \A t \in Pairs : Unspent(t)' <=> Unspent(t)
      /\ \A r \in Requests, t \in Pairs : Carries(r, t)' => Carries(r, t)
  BY <1>0, <1>2, <1>3 DEF Unspent, Stored, Carries, vars, tables
<1>5. \A r \in Requests, t \in Pairs : fetch'[r].pair = t => r # s /\ fetch[r].pair = t
  BY <1>3, AuthNullsAssumption
<1>6. OneRefresh' /\ Rotates'
  BY <1>0, <1>2, <1>3
     DEF TokensInv, OneRefresh, Rotates, At, vars
<1>7. PagesWait'
  <2>1. \A r \in Requests : Refreshing(r)' => Refreshing(r) /\ ~Refreshing(s)
    BY <1>3 DEF TokensInv, OneRefresh
  <2>2. QED
    BY <1>0, <1>2, <1>3, <2>1 DEF TokensInv, PagesWait, Refreshing
<1>8. CarriedUnspent'
  BY <1>4, <1>5 DEF TokensInv, CarriedUnspent
<1>9. AnswersUnspent'
  BY <1>1, <1>4, <1>5 DEF TokensInv, AnswersUnspent
<1>10. CookieUnspent'
  <2>1. CASE fetch[s].ok
    <3>1. fetch[s].pair \in Pairs \cup {NoPair}
      BY <1>0, CallFields
    <3>2. cookie' # NoPair => Unspent(fetch[s].pair) /\ cookie' = fetch[s].pair
      BY <1>1, <2>1, <3>1 DEF TokensInv, AnswersUnspent
    <3>3. QED
      BY <1>0, <3>2 DEF CookieUnspent, Unspent, Stored, vars, tables
  <2>2. CASE ~fetch[s].ok
    <3>1. cookie' = cookie /\ fetch[s].pair = NoPair
      BY <1>1, <2>2
    <3>2. \A r \in Requests : Refreshing(r) /\ fetch[r].pair # NoPair =>
                Refreshing(r)' /\ fetch'[r].pair # NoPair
      BY <1>2, <3>1 DEF Refreshing
    <3>3. QED
      BY <1>0, <3>1, <3>2 DEF TokensInv, CookieUnspent, Stored, vars, tables
  <2>3. QED
    BY <2>1, <2>2
<1>11. NoAlarms'
  BY <1>0 DEF TokensInv, NoAlarms, vars, tables
<1>12. QED
  BY <1>6, <1>7, <1>8, <1>9, <1>10, <1>11 DEF TokensInv

\* A step of a handler that is not a refresh's, and opens no session.
LEMMA OtherHandlers ==
    ASSUME BaseInv, TokensInv, NEW s \in Requests, Flying(s, "served"),
           UNCHANGED <<cookie, tab>>,
           \/ Proceeds(s)
           \/ EndFamily(s) /\ (Answered(s, TRUE, NoPair) \/ UNCHANGED fetch)
           \/ DenyAccess(s) /\ Answered(s, TRUE, NoPair)
           \/ Busy(s) /\ Answered(s, FALSE, NoPair)
    PROVE  TokensInv'
<1>0. /\ BrowserTypes /\ TypeInv /\ CallOK(s) /\ session \in [Pairs -> Row]
      /\ fetch[s].pair = NoPair
  BY DEF BaseInv, CallsInv, ServerInv, TypeInv, CallOK, Flying
<1>1. Others(s)
  <2>1. \/ Verify(s) \/ ClearFailures(s) \/ UpgradeHash(s)
        \/ EndFamily(s) \/ DenyAccess(s) \/ Busy(s)
    BY DEF Proceeds
  <2>2. QED
    BY <2>1, HandlerMoves
<1>2. fetch[s].call # "refresh"
  <2>1. req[s].step \notin RefreshSteps
    BY HandlerMoves
       DEF Proceeds, EndFamily, DenyAccess, Busy, At, RefreshSteps, LoginSteps
  <2>2. QED
    BY <1>0, <2>1 DEF CallOK, Flying
<1>3. /\ Apart(s) /\ fetch'[s].call = fetch[s].call /\ fetch'[s].tab = fetch[s].tab
      /\ fetch'[s].pair = NoPair
  BY <1>0, FetchWrites DEF Proceeds, Apart
<1>4. SessionsKept /\ UNCHANGED alarms
  <2>1. CASE Proceeds(s)
    BY <2>1, HandlerMoves DEF Proceeds, SessionsKept
  <2>2. CASE EndFamily(s)
    BY <1>0, <2>2 DEF EndFamily, RevokeFamily, SessionsKept, Row
  <2>3. CASE DenyAccess(s)
    BY <1>0, <2>3 DEF DenyAccess, SessionsKept, Row
  <2>4. CASE Busy(s)
    BY <2>4 DEF Busy, SessionsKept, tables
  <2>5. QED
    BY <2>1, <2>2, <2>3, <2>4
<1>5. \A r \in Requests : Still(r) \/ NoRefresh(r)
  BY <1>0, <1>1, <1>2, <1>3 DEF Still, NoRefresh, Apart, Others
<1>6. PagesWait'
  BY <1>2, <1>3 DEF TokensInv, PagesWait, Refreshing, Apart
<1>7. QED
  BY <1>0, <1>4, <1>5, <1>6, TokensKept

\* A browser that is honest after a step was honest before it, and every step
\* of such a browser leaves it with one unspent token.
LEMMA HonestNext ==
    ASSUME BaseInv, HonestInv, [BrowserNext]_allVars
    PROVE  HonestInv'
<1> SUFFICES ASSUME Honest' PROVE TokensInv'
  BY DEF HonestInv
<1>0. TokensInv /\ BrowserTypes /\ session \in [Pairs -> Row]
  BY HistoryMoves DEF HonestInv, Honest, BaseInv, CallsInv, ServerInv, TypeInv
<1>1. UNCHANGED vars => SessionsKept /\ UNCHANGED alarms
  BY DEF vars, tables, SessionsKept
<1>2. ASSUME NEW b \in Tabs, NEW s \in Requests,
             (\E u \in Users : SendLogin(b, s, u)) \/ SendLogout(b, s)
      PROVE  TokensInv'
  <2>1. /\ UNCHANGED <<vars, cookie, tab>> /\ Apart(s) /\ fetch[s] = NoFetch
        /\ fetch'[s].call # "refresh" /\ fetch'[s].pair = NoPair
    <3>1. /\ UNCHANGED <<vars, cookie, tab>>
          /\ \/ \E u \in Users : Send(s, "login", b, u, tab[b].token)
             \/ Send(s, "logout", b, NoUser, tab[b].token)
      BY <1>2 DEF SendLogin, SendLogout
    <3>2. tab[b].token \in Pairs \cup {NoPair}
      BY <1>0 DEF BrowserTypes, Tab
    <3>3. QED
      BY <1>0, <3>1, <3>2, FetchWrites
  <2>2. \A r \in Requests : Still(r) \/ NoRefresh(r)
    BY <2>1 DEF Still, NoRefresh, NoFetch, Apart, vars
  <2>3. PagesWait'
    BY <1>0, <2>1 DEF TokensInv, PagesWait, Refreshing, Apart
  <2>4. QED
    BY <1>0, <1>1, <2>1, <2>2, <2>3, TokensKept
<1>3. ASSUME NEW b \in Tabs, Reload(b) PROVE TokensInv'
  <2>1. \A s \in Requests : Still(s)
    BY <1>0, <1>3, ReloadEffect DEF Still, vars
  <2>2. PagesWait'
    <3>1. ASSUME NEW s \in Requests, NEW c \in Tabs, Refreshing(s)', fetch'[s].tab = c
          PROVE  tab'[c].refreshing
      <4>1. Refreshing(s) /\ fetch[s].tab = c /\ tab'[c] = tab[c]
        BY <1>0, <1>3, <3>1, ReloadEffect, BrowserAssumption DEF Refreshing
      <4>2. QED
        BY <1>0, <4>1 DEF TokensInv, PagesWait
    <3>2. QED
      BY <3>1 DEF PagesWait
  <2>3. QED
    BY <1>0, <1>1, <1>3, <2>1, <2>2, ReloadEffect, TokensKept
<1>4. ASSUME NEW b \in Tabs, LoadUser(b) \/ GiveUp(b) PROVE TokensInv'
  <2>1. /\ UNCHANGED <<vars, cookie, fetch>>
        /\ \A c \in Tabs : tab'[c].refreshing = tab[c].refreshing
    BY <1>4, LoadEffect
  <2>2. PagesWait' /\ \A s \in Requests : Still(s)
    BY <1>0, <2>1 DEF TokensInv, PagesWait, Refreshing, Still, vars
  <2>3. QED
    BY <1>0, <1>1, <2>1, <2>2, TokensKept
<1>5. ASSUME NEW s \in Requests, Arrive(s), ~Refreshing(s) PROVE TokensInv'
  <2>1. /\ Flying(s, "sent") /\ UNCHANGED <<tables, cookie, tab>>
        /\ fetch[s].pair = NoPair
    BY <1>5, ArriveEffect DEF BaseInv, CallsInv, CallOK, Flying
  <2>2. /\ Apart(s) /\ Others(s) /\ fetch'[s].call = fetch[s].call
        /\ fetch'[s].pair = NoPair
    BY <1>0, <1>5, <2>1, ArriveEffect, FetchWrites, HandlerMoves DEF vars, Others
  <2>3. \A r \in Requests : Still(r) \/ NoRefresh(r)
    BY <1>5, <2>1, <2>2 DEF Still, NoRefresh, Apart, Others, Refreshing
  <2>4. PagesWait'
    BY <1>0, <1>5, <2>1, <2>2 DEF TokensInv, PagesWait, Refreshing, Apart
  <2>5. SessionsKept /\ UNCHANGED alarms
    BY <2>1 DEF tables, SessionsKept
  <2>6. QED
    BY <1>0, <2>1, <2>3, <2>4, <2>5, TokensKept
<1>6. ASSUME NEW s \in Requests, Serve(s) \/ ServerBusy(s) PROVE TokensInv'
  <2>1. Flying(s, "served") /\ UNCHANGED <<cookie, tab>>
    BY <1>6, ServeEffect
  <2>2. ~RaiseAlarm(s)
    <3>1. At(s, "alarm") => Refreshing(s)
      BY <2>1 DEF BaseInv, CallsInv, CallOK, Flying, At, Refreshing,
                  LoginSteps, LogoutSteps
    <3>2. ~At(s, "alarm")
      BY <1>0, <2>1, <3>1 DEF TokensInv, Rotates, At, Flying
    <3>3. QED
      BY <3>2 DEF RaiseAlarm
  <2>3. ASSUME NEW t \in Pairs, OpenSession(s, t), Answered(s, TRUE, t) PROVE TokensInv'
    BY <1>0, <2>1, <2>3, LoginAnswers
  <2>4. ASSUME NEW t \in Pairs, Rotate(s, t), Answered(s, TRUE, t) PROVE TokensInv'
    BY <1>0, <2>1, <2>4, RefreshAnswers
  <2>5. QED
    BY <1>0, <1>6, <2>1, <2>2, <2>3, <2>4, ServeEffect, OtherHandlers
<1>7. ASSUME NEW s \in Requests, LoseAnswer(s) PROVE FALSE
  BY <1>7, AnswerEffect DEF Honest
<1>8. ASSUME NEW t \in Pairs, AccessExpires(t), UNCHANGED browserVars PROVE TokensInv'
  <2>1. SessionsKept /\ UNCHANGED <<alarms, cookie>>
    BY <1>0, <1>8 DEF AccessExpires, SessionsKept, Row, browserVars
  <2>2. PagesWait' /\ \A s \in Requests : Still(s)
    BY <1>0, <1>8
       DEF TokensInv, PagesWait, Refreshing, Still, AccessExpires, browserVars
  <2>3. QED
    BY <1>0, <2>1, <2>2, TokensKept
<1>9. CASE UNCHANGED allVars
  <2>1. PagesWait' /\ \A s \in Requests : Still(s)
    BY <1>0, <1>9
       DEF TokensInv, PagesWait, Refreshing, Still, allVars, vars, browserVars
  <2>2. QED
    BY <1>0, <1>1, <1>9, <2>1, TokensKept DEF allVars, browserVars
<1>10. QED
  BY <1>0, <1>2, <1>3, <1>4, <1>5, <1>6, <1>7, <1>8, <1>9,
     RefreshSent, RefreshArrives, AnswerTaken DEF BrowserNext

\* A browser that loses no answer and never refreshes in two pages at once (a
\* page reloaded while it refreshes is two) never presents a spent token, and
\* is never taken for a thief: its logins, logouts and late 401s may cross as
\* they like.
THEOREM HonestIsNoThief == BrowserSpec => []HonestRaisesNoAlarm
<1>1. BrowserInit => HonestInv
  BY AuthNullsAssumption
     DEF BrowserInit, Init, HonestInv, TokensInv, OneRefresh, PagesWait, Rotates,
         CarriedUnspent, Carries, AnswersUnspent, CookieUnspent, NoAlarms,
         Refreshing, NoFetch
<1>2. BaseInv /\ HonestInv /\ [BrowserNext]_allVars => BaseInv' /\ HonestInv'
  BY BaseNext, HonestNext
<1>3. HonestInv => HonestRaisesNoAlarm
  BY DEF HonestInv, Honest, TokensInv, NoAlarms, HonestRaisesNoAlarm
<1>4. QED
  BY <1>1, <1>2, <1>3, BaseInit, PTL DEF BrowserSpec
=============================================================================
