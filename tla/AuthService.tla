---------------------------- MODULE AuthService ----------------------------
(***************************************************************************)
(* Accounts and sessions: inviting a client (services/client.service.ts,   *)
(* passwordToken.service.ts), login with its failure counter               *)
(* (auth.service.ts, loginAttempts.service.ts), rotation of refresh        *)
(* tokens, and logout.                                                     *)
(*                                                                         *)
(* As in InvoiceService a request is a slot that remembers what its        *)
(* handler has read and what it does next.  A caller may present any token *)
(* that was ever given out, as often as it likes: a second tab, a lost     *)
(* response and a copied cookie all look alike to the server.              *)
(*                                                                         *)
(* A refresh token and the access token issued with it are one pair, and a *)
(* family has the name of its first pair.  Of the audit trail only         *)
(* TOKEN_THEFT_DETECTED is kept; nothing reads the rest, and no property   *)
(* here is about it.  No user is ever deleted, so the branch for one whose *)
(* token survived is not here.                                             *)
(***************************************************************************)
EXTENDS Integers, FiniteSets

CONSTANTS
    Users,        \* accounts, by email address
    Passwords,    \* what people type
    Pairs,        \* refresh tokens, each with its access token
    Requests,     \* slots for requests in flight
    Absent,       \* the account does not exist
    Temporary,    \* the generated password that nobody knows
    NoUser, NoPair, NoPassword,
    MAX_ATTEMPTS, \* failed logins before an address is blocked
    MayFail       \* whether a request may fail between any two steps

ASSUME AuthNullsAssumption ==
    /\ Absent \notin Passwords /\ Temporary \notin Passwords
    /\ Absent # Temporary
    /\ NoUser \notin Users /\ NoPair \notin Pairs /\ NoPassword \notin Passwords
ASSUME AuthBoundsAssumption ==
    /\ MAX_ATTEMPTS \in Nat \ {0} /\ MayFail \in BOOLEAN
    /\ IsFiniteSet(Requests)

VARIABLES
    password, \* the User table: the password whose hash it holds
    weak,     \* the users whose hash was made with weaker parameters
    link,     \* the PasswordToken table: the one invite of each user
    session,  \* the RefreshToken table, and what became of the access token
    attempts, \* Redis: failed logins of the window, by address
    alarms,   \* AuditLog: TOKEN_THEFT_DETECTED, by the token replayed
    req       \* the requests in flight

tables == <<password, weak, link, session, attempts, alarms>>
vars == <<tables, req>>

-----------------------------------------------------------------------------
(* Rows                                                                    *)

\* PasswordToken.  Only createClient issues one, once for each user.
Link == [state: {"none", "unused", "used"}, expired: BOOLEAN]

\* RefreshToken: rotatedAt, revokedAt and expiresAt by what is asked of them.
Row ==
    [user: Users \cup {NoUser}, family: Pairs \cup {NoPair},
     rotated: BOOLEAN, revoked: BOOLEAN, expired: BOOLEAN,
     access: {"none", "valid", "denied", "expired"}]
NoSession ==
    [user |-> NoUser, family |-> NoPair, rotated |-> FALSE, revoked |-> FALSE,
     expired |-> FALSE, access |-> "none"]

Stored(t)  == session[t].family # NoPair
Live(t)    == Stored(t) /\ ~session[t].revoked
Members(f) == {t \in Pairs : session[t].family = f}

\* refreshTokenRepository.createRefreshToken, without and with the token that
\* is spent in the same transaction.
Created(t, u, f) ==
    [NoSession EXCEPT !.user = u, !.family = f, !.access = "valid"]
CreateRefreshToken(t, u) ==
    /\ ~Stored(t)
    /\ session' = [session EXCEPT ![t] = Created(t, u, t)]

RotateRefreshToken_Halfway(spent, t) ==
    session' = [session EXCEPT ![spent].rotated = TRUE]
RotateRefreshToken(spent, t) ==
    /\ ~Stored(t)
    /\ session' = [session EXCEPT
            ![spent].rotated = TRUE,
            ![t] = Created(t, session[spent].user, session[spent].family)]

RevokeFamily(f) ==
    session' = [t \in Pairs |->
        [session[t] EXCEPT !.revoked = @ \/ session[t].family = f]]
RevokeAllForUser(u) ==
    session' = [t \in Pairs |->
        [session[t] EXCEPT !.revoked = @ \/ session[t].user = u]]

\* findAuthUserByEmail and findAuthUserById: what is asked of the hash.
FindAuthUser(u) == [password |-> password[u], weak |-> u \in weak]

\* Without an account it is the dummy hash that is verified, and a hash that
\* does not parse is a wrong password.
VerifyPassword(user, p) == user.password = p

\* Only ever upwards: a hash that is stronger than asked for is left alone.
NeedsRehash(user) == user.weak

\* Every new hash is made with today's parameters; the row is named by its id
\* alone.
UpdatePasswordHash(u, p) ==
    /\ password' = [password EXCEPT ![u] = p]
    /\ weak' = weak \ {u}

\* 32 random bytes, which nobody is told.
GenerateTemporaryPassword == Temporary

\* clientRepository.createClientWithUser: User and Client in one transaction; a
\* taken address is refused.
CreateClientWithUser(u) ==
    /\ password[u] = Absent
    /\ password' = [password EXCEPT ![u] = GenerateTemporaryPassword]
    /\ UNCHANGED weak

\* passwordTokenRepository.markUsed has `usedAt: null` in its WHERE clause.
MarkUsed(u) ==
    /\ link[u].state = "unused"
    /\ link' = [link EXCEPT ![u].state = "used"]

\* passwordTokenRepository.invalidateAllForUser
InvalidateAllForUser(u) ==
    link' = [link EXCEPT ![u].state = IF @ = "unused" THEN "used" ELSE @]

-----------------------------------------------------------------------------
(* Requests                                                                *)

Steps == {"idle", "invalidate", "issue", "spend", "store", "retire", "revoke",
          "verify", "count", "clear", "clear_weak", "upgrade", "open",
          "alarm", "rotate", "end", "deny"}
Request ==
    [step: Steps, user: Users \cup {NoUser}, password: Passwords \cup {NoPassword},
     pair: Pairs \cup {NoPair}, access: Pairs \cup {NoPair}]
Idle ==
    [step |-> "idle", user |-> NoUser, password |-> NoPassword,
     pair |-> NoPair, access |-> NoPair]

At(s, step)   == req[s].step = step
Return(s)     == req' = [req EXCEPT ![s] = Idle]
Goto(s, step) == req' = [req EXCEPT ![s].step = step]

TypeOK ==
    /\ password \in [Users -> Passwords \cup {Absent, Temporary}]
    /\ weak \in SUBSET Users
    /\ link \in [Users -> Link]
    /\ session \in [Pairs -> Row]
    /\ attempts \in [Users -> Nat]
    /\ alarms \in [Pairs -> Nat]
    /\ req \in [Requests -> Request]

\* Accounts from the seed have a password and were never invited; the
\* parameters may have been raised since.
Init ==
    /\ password \in [Users -> Passwords \cup {Absent}]
    /\ weak \in SUBSET {u \in Users : password[u] # Absent}
    /\ link = [u \in Users |-> [state |-> "none", expired |-> FALSE]]
    /\ session = [t \in Pairs |-> NoSession]
    /\ attempts = [u \in Users |-> 0]
    /\ alarms = [t \in Pairs |-> 0]
    /\ req = [s \in Requests |-> Idle]

-----------------------------------------------------------------------------
(* createClient and its invite                                             *)

CreateClient(s, u) ==
    /\ At(s, "idle")
    /\ CreateClientWithUser(u)
    /\ req' = [req EXCEPT ![s] = [Idle EXCEPT !.step = "invalidate", !.user = u]]
    /\ UNCHANGED <<link, session, attempts, alarms>>

InvalidateLinks(s) ==
    /\ At(s, "invalidate")
    /\ InvalidateAllForUser(req[s].user)
    /\ Goto(s, "issue")
    /\ UNCHANGED <<password, weak, session, attempts, alarms>>

IssueLink(s) ==
    /\ At(s, "issue")
    /\ link' = [link EXCEPT ![req[s].user] = [state |-> "unused", expired |-> FALSE]]
    /\ Return(s)
    /\ UNCHANGED <<password, weak, session, attempts, alarms>>

-----------------------------------------------------------------------------
(* redeemPasswordToken                                                     *)

\* The link is read and the password looked up among the breached ones.
ReadLink(s, u, p) ==
    /\ At(s, "idle")
    /\ link[u].state = "unused" /\ ~link[u].expired
    /\ req' = [req EXCEPT ![s] =
            [Idle EXCEPT !.step = "spend", !.user = u, !.password = p]]
    /\ UNCHANGED tables

\* Of two submissions that read the link unused, the second is refused here.
SpendLink_Unguarded(s) ==
    /\ At(s, "spend")
    /\ link' = [link EXCEPT ![req[s].user].state = "used"]
    /\ Goto(s, "store")
    /\ UNCHANGED <<password, weak, session, attempts, alarms>>
SpendLink(s) ==
    /\ At(s, "spend")
    /\ \/ MarkUsed(req[s].user) /\ Goto(s, "store")
       \/ /\ link[req[s].user].state = "used"
          /\ Return(s)
          /\ UNCHANGED link
    /\ UNCHANGED <<password, weak, session, attempts, alarms>>

StorePassword(s) ==
    /\ At(s, "store")
    /\ UpdatePasswordHash(req[s].user, req[s].password)
    /\ Goto(s, "retire")
    /\ UNCHANGED <<link, session, attempts, alarms>>

RetireLinks(s) ==
    /\ At(s, "retire")
    /\ InvalidateAllForUser(req[s].user)
    /\ Goto(s, "revoke")
    /\ UNCHANGED <<password, weak, session, attempts, alarms>>

RevokeSessions(s) ==
    /\ At(s, "revoke")
    /\ RevokeAllForUser(req[s].user)
    /\ Return(s)
    /\ UNCHANGED <<password, weak, link, attempts, alarms>>

-----------------------------------------------------------------------------
(* login                                                                   *)

\* assertAccountNotLocked: any address counts, with an account or without.
NotLocked_OneMore(u) == attempts[u] <= MAX_ATTEMPTS
NotLocked(u) == attempts[u] < MAX_ATTEMPTS

CheckAttempts(s, u, p) ==
    /\ At(s, "idle")
    /\ NotLocked(u)
    /\ req' = [req EXCEPT ![s] =
            [Idle EXCEPT !.step = "verify", !.user = u, !.password = p]]
    /\ UNCHANGED tables

\* The row is read; the verification that follows, and whether the hash is to
\* be made anew, need nothing but the hash.
Verify(s) ==
    LET user == FindAuthUser(req[s].user)
    IN  /\ At(s, "verify")
        /\ Goto(s, IF ~VerifyPassword(user, req[s].password) THEN "count"
                   ELSE IF NeedsRehash(user) THEN "clear_weak" ELSE "clear")
        /\ UNCHANGED tables

CountFailure(s) ==
    /\ At(s, "count")
    /\ attempts' = [attempts EXCEPT ![req[s].user] = @ + 1]
    /\ Return(s)
    /\ UNCHANGED <<password, weak, link, session, alarms>>

ClearFailures(s) ==
    /\ req[s].step \in {"clear", "clear_weak"}
    /\ attempts' = [attempts EXCEPT ![req[s].user] = 0]
    /\ Goto(s, IF At(s, "clear") THEN "open" ELSE "upgrade")
    /\ UNCHANGED <<password, weak, link, session, alarms>>

\* What was verified is hashed again and stored, whatever the row holds by
\* now.
UpgradeHash(s) ==
    /\ At(s, "upgrade")
    /\ UpdatePasswordHash(req[s].user, req[s].password)
    /\ Goto(s, "open")
    /\ UNCHANGED <<link, session, attempts, alarms>>

OpenSession(s, t) ==
    /\ At(s, "open")
    /\ CreateRefreshToken(t, req[s].user)
    /\ Return(s)
    /\ UNCHANGED <<password, weak, link, attempts, alarms>>

-----------------------------------------------------------------------------
(* refresh                                                                 *)

\* Unknown, revoked and expired tokens are refused; a spent one is a theft.
Asked(s, t, step) ==
    /\ At(s, "idle")
    /\ req' = [req EXCEPT ![s] = [Idle EXCEPT !.step = step, !.pair = t]]
    /\ UNCHANGED tables

Refused_SpentFirst(t) ==
    ~Stored(t) \/ (~session[t].rotated /\ (session[t].revoked \/ session[t].expired))
Refused_SpentOnly(t) ==
    ~Stored(t) \/ (~session[t].rotated /\ session[t].expired)
        \/ (session[t].rotated /\ session[t].revoked)
Refused(t) ==
    ~Live(t) \/ (~session[t].rotated /\ session[t].expired)

PresentToken(s, t) ==
    /\ ~Refused(t)
    /\ Asked(s, t, IF session[t].rotated THEN "alarm" ELSE "rotate")

RaiseAlarm(s) ==
    /\ At(s, "alarm")
    /\ RevokeFamily(session[req[s].pair].family)
    /\ \/ alarms' = [alarms EXCEPT ![req[s].pair] = @ + 1]
       \/ MayFail /\ UNCHANGED alarms
    /\ Return(s)
    /\ UNCHANGED <<password, weak, link, attempts>>

\* `where: { id }`: whether the token is still unspent and its family alive
\* is not asked again.
Rotate(s, t) ==
    /\ At(s, "rotate")
    /\ RotateRefreshToken(req[s].pair, t)
    /\ Return(s)
    /\ UNCHANGED <<password, weak, link, attempts, alarms>>

-----------------------------------------------------------------------------
(* logout                                                                  *)

\* With a cookie, with an access token whose signature still verifies, or
\* with both; each may be of another session.
AskLogout(s, t, a) ==
    /\ At(s, "idle")
    /\ t # NoPair => Stored(t)
    /\ a # NoPair => session[a].access \in {"valid", "denied"}
    /\ t # NoPair \/ a # NoPair
    /\ req' = [req EXCEPT ![s] =
            [Idle EXCEPT !.step = IF t # NoPair THEN "end" ELSE "deny",
                         !.pair = t, !.access = a]]
    /\ UNCHANGED tables

EndFamily_TokenOnly(s) ==
    /\ At(s, "end")
    /\ session' = [session EXCEPT ![req[s].pair].revoked = TRUE]
    /\ IF req[s].access # NoPair THEN Goto(s, "deny") ELSE Return(s)
    /\ UNCHANGED <<password, weak, link, attempts, alarms>>
EndFamily(s) ==
    /\ At(s, "end")
    /\ RevokeFamily(session[req[s].pair].family)
    /\ IF req[s].access # NoPair THEN Goto(s, "deny") ELSE Return(s)
    /\ UNCHANGED <<password, weak, link, attempts, alarms>>

\* An access token that ran out meanwhile needs no entry.
DenyAccess(s) ==
    /\ At(s, "deny")
    /\ session' = [session EXCEPT ![req[s].access].access =
            IF @ = "expired" THEN @ ELSE "denied"]
    /\ Return(s)
    /\ UNCHANGED <<password, weak, link, attempts, alarms>>

-----------------------------------------------------------------------------
(* Time, load and failure                                                  *)

\* A link, a refresh token or an access token (and the denylist entry, whose
\* TTL is the token's) runs out; a window of failures ends.
LinkExpires(u) ==
    /\ link[u].state # "none" /\ ~link[u].expired
    /\ link' = [link EXCEPT ![u].expired = TRUE]
    /\ UNCHANGED <<password, weak, session, attempts, alarms, req>>

SessionExpires(t) ==
    /\ Stored(t) /\ ~session[t].expired /\ session[t].access = "expired"
    /\ session' = [session EXCEPT ![t].expired = TRUE]
    /\ UNCHANGED <<password, weak, link, attempts, alarms, req>>

AccessExpires(t) ==
    /\ session[t].access \in {"valid", "denied"}
    /\ session' = [session EXCEPT ![t].access = "expired"]
    /\ UNCHANGED <<password, weak, link, attempts, alarms, req>>

WindowEnds(u) ==
    /\ attempts[u] > 0
    /\ attempts' = [attempts EXCEPT ![u] = 0]
    /\ UNCHANGED <<password, weak, link, session, alarms, req>>

\* Argon2 runs behind the gate of BoundedConcurrency: a login may be refused
\* at its verification, a redemption and an upgrade at the hash, with 503.
Busy(s) ==
    /\ req[s].step \in {"verify", "store", "upgrade"}
    /\ Return(s)
    /\ UNCHANGED tables

FailRequest(s) ==
    /\ MayFail
    /\ ~At(s, "idle")
    /\ Return(s)
    /\ UNCHANGED tables

-----------------------------------------------------------------------------

InviteStep(s) ==
    \/ \E u \in Users : CreateClient(s, u)
    \/ InvalidateLinks(s) \/ IssueLink(s)
RedeemStep(s) ==
    \/ \E u \in Users, p \in Passwords : ReadLink(s, u, p)
    \/ SpendLink(s) \/ StorePassword(s) \/ RetireLinks(s) \/ RevokeSessions(s)
LoginStep(s) ==
    \/ \E u \in Users, p \in Passwords : CheckAttempts(s, u, p)
    \/ Verify(s) \/ CountFailure(s) \/ ClearFailures(s) \/ UpgradeHash(s)
    \/ \E t \in Pairs : OpenSession(s, t)
RefreshStep(s) ==
    \/ \E t \in Pairs : PresentToken(s, t) \/ Rotate(s, t)
    \/ RaiseAlarm(s)
LogoutStep(s) ==
    \/ \E t, a \in Pairs \cup {NoPair} : AskLogout(s, t, a)
    \/ EndFamily(s) \/ DenyAccess(s)
Expiry ==
    \/ \E u \in Users : LinkExpires(u) \/ WindowEnds(u)
    \/ \E t \in Pairs : SessionExpires(t) \/ AccessExpires(t)

Next ==
    \/ \E s \in Requests :
        \/ InviteStep(s) \/ RedeemStep(s) \/ LoginStep(s)
        \/ RefreshStep(s) \/ LogoutStep(s)
        \/ Busy(s) \/ FailRequest(s)
    \/ Expiry

Spec == Init /\ [][Next]_vars

-----------------------------------------------------------------------------
(* What must hold                                                          *)

\* Guesses sent at once all pass the check before any of them is counted,
\* but no more than there are requests: an address collects at most that
\* many failures over the limit in a window.
FailuresBounded ==
    \A u \in Users : attempts[u] <= MAX_ATTEMPTS + Cardinality(Requests) - 1

\* A token that was replayed is revoked with its family and refused from then
\* on, so the highest-severity alarm cannot be flooded with one old cookie:
\* only requests that read it before the first alarm raise another.
AlarmsBounded == \A t \in Pairs : alarms[t] <= Cardinality(Requests)

\* A token is spent together with the creation of its replacement: a family
\* always has an unspent token, for its owner to go on with.
FamilyHasUnspent ==
    \A t \in Pairs : Stored(t) =>
        \E new \in Pairs :
            session[new].family = session[t].family /\ ~session[new].rotated

\* One link sets one password: once it is chosen it stays, however many
\* submissions of the link were read while it was unused, and whatever hash a
\* login that is still under way upgrades.
PasswordSetOnce ==
    [][\A u \in Users : password[u] \in Passwords => password'[u] = password[u]]_vars

\* A family that is revoked and has no rotation under way stays dead: no
\* token of it, newest or old, brings it back to life.
Dead(f) ==
    /\ Members(f) # {}
    /\ \A t \in Members(f) : session[t].revoked
    /\ \A s \in Requests : At(s, "rotate") => req[s].pair \notin Members(f)
DeadStaysDead == [][\A f \in Pairs : Dead(f) => Dead(f)']_vars

-----------------------------------------------------------------------------
(* What the repository says and the code does not do                       *)

\* "it does not matter which link in the chain the attacker holds - the whole
\* chain dies at once" (refreshToken.repository.ts:91-93): not the link that
\* a refresh under way is adding.
ChainDiesAtOnce ==
    \A t, other \in Pairs :
        Stored(t) /\ session[t].family = session[other].family =>
            session[t].revoked = session[other].revoked

\* "Check the password BEFORE spending the token" lest the only link the user
\* has be burnt (passwordToken.service.ts:112-114): but the hash is made after
\* it is spent, and may be refused.
SpentLinkSetPassword ==
    \A u \in Users :
        link[u].state = "used" /\ (\A s \in Requests : req[s].user # u) =>
            password[u] \in Passwords
=============================================================================
