# Fakturly: a formal model of its receivables, payments, sessions and mail

Fakturly is an invoicing system: a Fastify API on PostgreSQL (through Prisma),
Redis with BullMQ for background jobs, Stripe for payments, and a React
frontend. This directory holds TLA+ modules translated from that code, the TLC
configurations that check them on small instances, and theorems about them that
TLAPS proves for every value of the constants.

What the code has to get right is money owed. An invoice is a row whose status
moves DRAFT -> SENT -> OVERDUE -> PAID or CREDITED; beside it an append-only
ledger must explain every figure. Six handlers in three kinds of actor write
both, none of them holds a lock across its awaits, and any of them may die half
way. That is modelled first and deepest. Around it stand the payment links and
their sessions at Stripe, the mails that demand the money, the reports that add
it up, the pages that show it, and the accounts: a client is invited, chooses a
password through a link, logs in, and is carried from access token to access
token by refresh tokens that are spent in turn.

## 1. Inventory

| Component | State | Operations | Modelled in |
|---|---|---|---|
| Receivables store (`repositories/invoice*.ts`, `webhookEvent.repository.ts`, `schema.prisma`) | Invoice, Transaction (ledger), InvoiceNumberSeries, ProcessedWebhookEvent | one guarded transaction per operation | `InvoiceStore` |
| Invoice service (`services/invoice.service.ts`) | what a request has read | create, send, delete draft, credit, remind | `InvoiceService` |
| Stripe webhook (`payment.service.ts: handleStripeEvent`) | the event in hand | claim and apply | `InvoiceService`, `Checkout` |
| Checkout sessions (`createPaymentLink`, `lib/stripe.ts`) | sessions at Stripe, `stripePaymentId` | create, expire, attach, pay | `Checkout` |
| Overdue run (`overdue.service.ts`, `overdue.worker.ts`, `scheduler.ts`) | candidates read, what is done, notices to send | start, apply, skip, notify | `InvoiceService` |
| Audit trail (`audit.service.ts`) | AuditLog | `record`, which swallows errors | `InvoiceService`, `AuthService` |
| Email queue and worker (`queues.ts`, `email.worker.ts`, `email.service.ts`, `mailer.ts`, `server.ts`) | jobs, attempts, locks, EmailLog, the process | enqueue, read, send, log, retry; crash, shutdown, restart | `EmailQueue` |
| Money (`lib/money.ts`) | none | rounding, lines, totals, interest, days | `Money`, `MCMoney` |
| OCR references (`lib/ocr.ts`) | none | length digit, check digit | `Ocr`, `MCMoney` |
| Reports, dashboard, SIE | none (reads) | ageing, VAT, journal export, monthly bars | `Reports` |
| Hash gate (`lib/concurrency.ts`) | counter, queue | `run` | `BoundedConcurrency` |
| Accounts and sessions (`auth.service.ts`, `token.service.ts`, `refreshToken.repository.ts`) | refresh tokens in families, denylist | login, refresh, logout | `AuthService` |
| Password links (`passwordToken.service.ts`, `client.service.ts: createClient`) | one-time tokens, hash | invite, redeem | `AuthService` |
| Login attempts (`loginAttempts.service.ts`) | counter in Redis | check, count, clear | `AuthService` |
| Browser session (frontend `lib/api.ts`, `lib/auth.tsx`, `LoginPage.tsx`) | cookie; per tab a token, a user, one promise | load, refresh, log in, log out, retry, reload | `BrowserSession` |
| Invoice pages and ownership (`InvoiceDetailPage`, `ClientInvoicesPage`, `NewInvoicePage`, `authorize.ts`) | query cache, fetches and mutations in the air | visit, fetch, act, invalidate | `Portal` |
| Client details, PDF, demo data, wiring, texts and layout | | | not modelled, see section 8 |

How they interact. Requests, webhook deliveries and the overdue worker share the
database and nothing else; PostgreSQL runs at READ COMMITTED. The handlers read
without a lock, decide, and then run a transaction whose first statement is an
`updateMany` with the expected status in its WHERE clause; zero rows means that
somebody else was first. After its transaction a handler writes an audit row and
may add an email job, outside any transaction. cron enqueues one overdue job a
night; BullMQ runs it, one at a time per process, and starts it over when it
fails. The email worker reads its invoice again, sends, and logs. Stripe repeats
an event until it is answered 200, and lets anybody with a link pay it for a day.
The account services share nothing with the invoicing but the database and the
email queue; among themselves they share the user row, the tokens and the failure
counter in Redis, and they wait at the hash gate. A browser's tabs share one
cookie; its pages keep copies of what the API answered.

What is hard, and listed line by line under `hazards` in `PROJECT.json`: state
that was read before an await and is used after it (the fees of a credit, the
candidates of a run, the session a link replaces); handlers that meet on one row;
deliveries that repeat and overlap; a process that dies between two steps of a
handler, of a run or of a mail; numbers that are allocated in a transaction of
their own; one figure computed along four paths; tokens that are read, and
spent only later; answers that come late, or never; copies that are stale.

What makes each component correct:

- *store and handlers*: status and ledger agree; an invoice is paid once or
  credited once, never both; the customer owes what ledger rows explain; the
  transition table holds although most handlers never consult it; numbers are
  never reused; a payment that came in is applied;
- *checkout sessions*: one link of an invoice works, it is paid once, and no more
  is posted than is due;
- *overdue run*: interest telescopes to the statutory amount however often a run
  is repeated, replayed or broken off; whatever is past due is charged;
- *audit trail*: incomplete perhaps, untrue never;
- *email*: no demand for what is settled, none for more than is owed, a log that
  is true, jobs that end;
- *money, reports*: rounding is to nearest and symmetric, so that a credit note
  cancels; journal, ageing list and dashboard tell one story, and the VAT report
  the same one but for what the end of a year finds between two clocks;
- *accounts*: one link sets one password; a family is revoked for good, and until
  then never without a token its owner can go on with; wrong guesses and alarms
  are bounded although requests overlap;
- *browser*: an honest user is not taken for a thief, and a logout lasts;
- *pages*: a button is refused only when its page was behind, one's own writes
  show, and a customer is asked for what they owe, if one page holds it;
- *gate*: no slot is leaked or doubled, arrival order, no caller forgotten.

## 2. The modules

| Module | Builds on | Is |
|---|---|---|
| `Money`, `Ocr` | | pure operators |
| `InvoiceStore` | `Money` | tables and transactions |
| `Receivable` | | the abstract specification of a receivable |
| `InvoiceService` | `InvoiceStore`; instantiates `Receivable` | handlers, webhook, overdue run |
| `Checkout` | `InvoiceService`, which it implements | payment links and Stripe sessions |
| `Reports` | `InvoiceService` | readings of the tables, as invariants |
| `Portal` | `InvoiceStore` | pages, cache and API |
| `EmailQueue` | `Receivable` | queue, worker, provider and process |
| `AuthService` | | accounts, links, tokens, attempts |
| `BrowserSession` | `AuthService` | tabs, cookie and calls |
| `BoundedConcurrency` | | the hash gate |
| `MC...` | the module of that name | values for TLC |
| `StoreProofs` | `InvoiceStore`, `Ocr` | theorems about `Money` and `Ocr`, sums over finite sets, lemmas about the transactions |
| `InvoiceServiceProofs`, `PortalProofs` | their modules, `StoreProofs` | theorems |
| `CheckoutProofs`, `ReportsProofs` | their modules, `InvoiceServiceProofs` | theorems |
| `BrowserSessionProofs` | `BrowserSession` | theorems about `AuthService` and `BrowserSession` |
| `EmailQueueProofs`, `BoundedConcurrencyProofs` | the module of that name | theorems |

**`Money`**: the pure operators of `lib/money.ts` over integers of öre. A quotient
that the code rounds is a pair n/d. JavaScript doubles agree with that for lines
that fit the int4 columns and for interest on up to some five million kronor
(the module's comment says why); beyond int4 an INSERT fails.

**`Ocr`**: the payment reference of an invoice number, digit by digit, and the
control a bank makes of it.

**`MCMoney`**: invoices of a few lines and the days they get late, and references
of numbers, as states, so that TLC compares every figure with its definition.

**`InvoiceStore`**: the tables and one operator per transaction. A transaction is
one step from its guarded UPDATE on: that UPDATE takes the row lock, a
concurrent one waits and then re-evaluates its WHERE clause, and a crash before
the commit leaves nothing. A SELECT ahead of the UPDATE is *not* part of that
step: the lock does not cover it. The ledger is kept per invoice and type as the
number of rows and their sum, which is all that any property tells apart.

**`InvoiceService`**: the handlers as sequences of steps over `InvoiceStore`. A
request is a slot in `req` with the next step and what it has read; `run` is the
same for overdue workers, `payment` what customers paid, by Stripe event.
Between two awaits of one handler everything else may happen. `FailRequest` and
`FailRun` drop a handler between two steps; `MayFail` also lets audit rows and
jobs get lost. The correspondence:

| Code | Actions |
|---|---|
| `createInvoice` | `AllocateForInvoice`, `InsertDraft` |
| `sendInvoice` | `ReadToSend`, `Send` |
| `deleteDraft` | `ReadToDelete`, `Delete` |
| `issueCreditNote`, `createCreditNote` | `ReadToCredit`, `AllocateForCredit`, `ReadFees`, `IssueCredit` |
| `sendReminder` | `ReadToRemind`, `ChargeReminder`, `StampReminder` |
| `handleStripeEvent`, `claimEventAndRun` | `ReceiveEvent`, `ApplyEvent` |
| `runOverdueCheck`, `applyOverdue`, `processOverdueJob` | `StartRun`, `ApplyOverdue`, `SkipOverdue`, `ReportRun`, `EnqueueNotice` |
| a customer at Stripe (external) | `CustomerPays` |

**`Receivable`**: the abstract specification. A document is drafted, perhaps
discarded, issued for an amount; its claim only grows while it is open; then it
is paid or cancelled, once, and nothing about it moves again.
`InvoiceService!ImplementsReceivable` is the refinement: the phase is read off
the row, principal and claim off the ledger.

**`Checkout`**: `createPaymentLink` as a slot of its own beside the handlers:
`ReadForLink`, `CreateSession`, `ExpireOld`, `AttachSession`, and `FailLink`
between any two. A session is open, complete or expired; `PayThroughLink` takes
the place of `CustomerPays`, `SessionTimesOut` is the day's end. `ApplyEventWithId`
is the webhook's step with the payment id it stores. `crossed` remembers the
invoices one of whose links met another link request, a payment, or an expiry
that failed: the exceptions of the first three properties.
`ImplementsInvoiceService` says that hiding all this leaves a behaviour of
`InvoiceService`, so its properties hold of the composition; they need not be
checked twice.

**`EmailQueue`**: a job of BullMQ with its attempts, its backoff and its lock, the
worker's steps (`Pick`, `ReadInvoice`, `SendMail`, `WriteLog`, `Finish`), and the
process they run in (`Crash`, `Shutdown`, `Exit`, `Restart`). `SendMail` may be
accepted, refused, or accepted with the answer lost. The invoices move as
`Receivable` lets them, so what is shown holds for whatever implements it.

**`Reports`**: the columns only reports read (lines, `sentAt`, and the ledger once
more by instant), written by the handlers' own steps, and the reports over them:
`SumVatByRate`, `VerificationOf` with its `Split` and `Transfer`, `AgingTotals`,
`SumOutstanding`, `SumOverdue`, `SumByMonth`. There is no report action: a report may
be read in every state. What a handler issues is dated by two clocks: `sentAt` by
its own `new Date()` (`SentAtWritten`), the ledger's rows by the database's default
for `createdAt` (`RowsDated`). For a credit the first is read before the transaction
waits for the row (`ClockRead`, kept in `clock` until it is written); for a send,
while its transaction runs, which PostgreSQL may have dated at its BEGIN. So each
date is any instant since the last step of the handler (`Readings`), independently
of the other, and the end of a year may fall between them. The rows of one
transaction carry one `createdAt`.

**`Portal`**: one user's pages over the API. `cache` and `flight` are the query
cache and the fetches in the air, `acting` the mutation in the air. `Press` offers
what `InvoiceDetail` offers by its copy; `Accepts` is the API's role and status
guard; `Hear...` is `onSuccess` with what it invalidates. A handler is one step
here (its steps are `InvoiceService`'s subject); other writers act at any time. A
list is answered with the newest `PageLimit` of the rows its caller may see
(`FirstPage`): no page of the frontend asks for a second one. Of the keys of lists,
the one that `ClientInvoicesPage` sums is modelled; the administrator's
(`['invoices', {status, clientId}]`, and the `['invoices', {status: 'OVERDUE'}]` of the
dashboard) show rows and offer nothing to act on, and it stands for them.

**`BoundedConcurrency`**: the gate before Argon2id. Each synchronous stretch of
`run()` is one action; a waiter whose promise is resolved is `granted` until its
continuation runs a microtask later, and others may call in between.

**`AuthService`**: accounts and sessions, as slots again. A caller may present
any token that was ever given out, any number of times: a second tab, an answer
that was lost and a copied cookie look alike to the server, so no client is
modelled. A refresh token and the access token issued with it are one pair; the
time stamps rotatedAt, revokedAt, usedAt and expiresAt become what is asked of
them, and expiry is an action of its own. The correspondence:

| Code | Actions |
|---|---|
| `createClient`, `issuePasswordToken` | `CreateClient`, `InvalidateLinks`, `IssueLink` |
| `redeemPasswordToken` | `ReadLink`, `SpendLink`, `StorePassword`, `RetireLinks`, `RevokeSessions` |
| `login`, `assertAccountNotLocked`, ... | `CheckAttempts`, `Verify`, `CountFailure`, `ClearFailures`, `UpgradeHash`, `OpenSession` |
| `refresh`, `createRefreshToken` | `PresentToken`, then `Rotate` or `RaiseAlarm` |
| `logout`, `revokeAccessToken` | `AskLogout`, `EndFamily`, `DenyAccess` |
| `ServiceBusyError` of the gate | `Busy` |
| TTLs | `LinkExpires`, `SessionExpires`, `AccessExpires`, `WindowEnds` |

`weak` holds the accounts whose hash was made with weaker parameters than today's:
a login that verifies one hashes the password anew and stores it by user id,
whatever the row holds by then (`UpgradeHash`).

Left out there: the progressive delay (a wait before the answer), `DEMO_MODE`,
the deletion of users (no code deletes one), and all audit rows but
TOKEN_THEFT_DETECTED. The gate itself is
`BoundedConcurrency`; here it only refuses or not.

**`BrowserSession`**: the client `AuthService` does without. A call is sent with
what the browser holds at that moment (`SendRefresh`, `SendLogin`, `SendLogout`),
arrives and is served by the steps of `AuthService` (`Arrive`, `Serve`), and its
answer is taken later (`TakeAnswer`) or lost. `LoadUser` is `/auth/me` at the mount
of a page, `Reload` forgets the page's memory and leaves its calls under way.
Every step is one of `AuthService`'s, or leaves its variables alone. `mishaps`
remembers what the two properties except: two pages refreshing at once, a lost
answer, a rotation that a logout crossed.

Names with an underscore (`Increment_Total`) are mutated forms of the definition
after them: bugs the code could plausibly have. No definition uses them; TLC,
run with one in place, must find the property of the `mutants` list violated.

## 3. Properties and runs

Every property of a passing run is broken by at least one mutant.

| Run | Instance | Checks |
|---|---|---|
| `settlement` | 1 receivable (positive or below zero) and its note, 3 requests, 2 events; create, send, credit, remind, pay | `TypeOK`, `LedgerRowsMatchStatus`, `AuditIsTruthful`, `StatusFollowsTable`, `ImplementsReceivable` |
| `accrual` | 2 documents, 2 requests, 1 event, 1 worker, 4 days, deletes, failures | `NeverOvercharged`, `LedgerExplainsDebt`, `WaivedAtMostCharged`, `CreditNotesPairUp`, `NumbersNeverReused` |
| `live` | 1 invoice, 2 requests, 1 event, 1 worker, 3 days, failures | `PastDueEventuallyCharged`, `PaymentEventuallyApplied` |
| `checkout` | 1 invoice, 2 requests, 2 link requests, 3 sessions, failures | `OneLinkUnlessCrossed`, `PaidOnceUnlessCrossed`, `PaidNamesItsPayment`, `NeverOverpaid`, `ImplementsInvoiceService` |
| `mail` | 2 invoices, 1 job, 1 worker, 3 attempts, 1 stalled check | `NeverDemandsMore`, `LogIsTruthful`, `OnlyCrashesLock`, `SettledSilencesJob`, `EveryJobEnds` |
| `reports` | 2 documents, 2 baskets of lines (every rate, a discount; one basket below zero), 1 request, 1 worker, 1 event, 3 instants in 2 years | `SieBalances`, `VatReconciles`, `OutstandingAgrees` |
| `portal` | 2 documents, 2 clients and an administrator, a list of 1 row, 4 writes, 1 fetch at once | `RefusedOnlyWhenBehind`, `OwnWritesShow`, `ShownDebtIsLedger` |
| `sessions` | 1 account, 2 passwords, 2 token pairs, 2 requests, failures | `FailuresBounded`, `AlarmsBounded`, `FamilyHasUnspent`, `PasswordSetOnce`, `DeadStaysDead` |
| `browser` | 1 account, 2 tabs, 2 token pairs, 2 calls, losses | `HonestRaisesNoAlarm`, `LogoutSticks` |
| `money` | all invoices of 1 or 2 lines over 3 quantities, 3 prices, 4 rates, 0 to 9 days late; 151 references | `FiguresAreNearest`, `ReferenceCatchesMistakes` |
| `gate` | 6 callers, 2 slots, queue of 3 | `SlotsAccounted`, `ArrivalOrder`, `WaiterEventuallyRuns` |
| `month_shift` | 2 invoices, months of 2 days, Stockholm 1 ahead | `MonthsAreSwedish`, violated: section 4 |

What they say, shortly. `LedgerRowsMatchStatus`: the ledger has exactly the rows
the status calls for, once each. `LedgerExplainsDebt`: gross, interest and
reminder fee on the row equal the ledger sums; with one worker.
`WaivedAtMostCharged`: a credit never writes off more than was charged, however
stale what it read. `NeverOvercharged`: the interest is at most the statutory
one for the days passed. `StatusFollowsTable`: a step changes a status only as
ALLOWED_TRANSITIONS says.

`OneLinkUnlessCrossed`, `PaidOnceUnlessCrossed`, `PaidNamesItsPayment`: links made one
at a time, whichever of their requests died half way, leave one that works; so
the customer pays once, and the PAID row names that payment. The exceptions are
real: see section 4. `NeverOverpaid` has none: whichever links are paid, the
webhook posts no more than is due.

`SettledSilencesJob`: once an invoice is settled, only an attempt that had read it
before may still send. `NeverDemandsMore`: the figure in a late mail is at most
what is owed. `LogIsTruthful`: no row claims a mail that did not go out.
`OnlyCrashesLock`: a shutdown leaves no job behind locked. `EveryJobEnds`.

`SieBalances`: no ledger row makes a verification whose entries do not sum to
zero, for which `buildSie` would refuse the year. `VatReconciles`: the one goes by
ledger rows and `createdAt`, the other by documents and `sentAt`; per rate and year,
accounts 3001 ff. and 2611 ff. of the export and the boxes of the VAT report differ
by the documents that the year's end, or its beginning, found between their two
dates, and by nothing else; over all years no document is in one and not in the
other; and a credited invoice and its note cancel rate by rate. `OutstandingAgrees`: ageing
list, dashboard and account 1510 are the same sum, and so is the overdue part.

`RefusedOnlyWhenBehind`: the buttons of a page ask for nothing the API would refuse
if the page were up to date. `OwnWritesShow`: a copy that counts as fresh has what
one wrote oneself. `ShownDebtIsLedger`: the sum a customer is shown is what the
ledger says of their own open invoices on that page of the list, and of all of them
while the page can hold every document of theirs.

`FailuresBounded`: guesses that overlap all pass the check before one is counted,
but an address collects no more failures over the limit than there are requests
at once. `AlarmsBounded`: one old cookie cannot flood the alarm. `FamilyHasUnspent`:
a refresh that fails does not turn its owner's next one into a theft.
`DeadStaysDead`: a family that is revoked, with no rotation of it under way, gets
no live token again. `HonestRaisesNoAlarm`: without two pages refreshing at once
and without a lost answer, an honest browser never presents a spent token.
`LogoutSticks`: after an answered logout, no answer still under way brings the
cookie of a live family.

`FiguresAreNearest`: line VAT and interest are the exact figure, to the nearest
öre. `ReferenceCatchesMistakes`: a wrong, missing, doubled or added digit of the
number, and swapped neighbours other than 0 and 9, are refused.

### Bounds, and why they are enough

- *Documents.* Receivables do not interact except through the number series, so
  one receivable and its note show every race on a row. Ids of deleted drafts and
  numbers of dead handlers are used up by the same handlers that use the others.
- *Requests.* Three meet on one row in `settlement` (say a credit between its two
  reads, a reminder and a payment); two suffice where failures or an overdue run
  add the third party. Slots are reused, so any number of handlers run in turn.
  `reports` has one: rows that handlers leave are read there, not their races; and its
  reminders are only of invoices above zero and only at the first instant
  (`FewReminders`): a fee is one amount that no line bears on, but each one multiplies
  the states by payments of what was read before it. `accrual` and `settlement` have
  reminders at any time, and so do the theorems.
- *Events and sessions.* Two in `settlement`: the same payment told twice (a
  duplicate) and a second payment through an older link. Three sessions in
  `checkout`: one that is replaced, and two that are made at once.
- *Accounts.* Users and families do not interact, so one account suffices. Two
  pairs are a login and its rotation, or two logins; two requests meet in every
  pairing of the five handlers, and slots are reused. `MAX_ATTEMPTS` is 2, not 5:
  only the comparison matters. Failures are bounded by the check itself.
- *Tabs.* Two are enough for a token to be spent behind a page's back.
- *Jobs.* Jobs do not interact but for the workers they occupy and the process
  they die with; a second invoice shows that a job stays with its own.
- *Time.* 3650 öre earn one öre a day, so each day makes one increment: four
  instants give three of them, and replays for each earlier day. In `reports` a
  year has two instants: a document of one year is credited in the next, and
  a year ends between the two dates of a document, both ways round.
- *Pages.* Four writes let a page fall behind, act, be refused and catch up;
  `MaxFlights` is 1 fetch in the air beside one that an invalidation starts.
  `PageLimit` is 1 row where the code has 100: one document fills the list and the
  second is beyond it. That the sum of a longer page is right as well is what the
  theorem adds, for every `PageLimit`.
- *MaxNumber* bounds the series. Requests that are still to allocate are counted
  in (`MayAllocate`), so the bound never stops a handler half way, and there is
  a document for every number.
- `CHECK_DEADLOCK FALSE` everywhere but in `gate` and `mail`: with the clock, the
  numbers, the events, the pairs or the writes used up the model stops. The gate
  and the queue never do, and their deadlocks are checked.
- Documents, requests and events, and passwords and pairs, are symmetric (no
  order; the one `CHOOSE` is from a singleton); symmetry is off where liveness is
  checked. `accrual`, `checkout` and `reports` identify states that differ only in
  the audit trail and the email jobs (`WithoutTrail`), `reports` also those that
  differ in the day of a reminder: no guard and none of their properties reads them.

### Fairness

`FairSpec` of `InvoiceService`: a handler that has started goes on (weak
fairness: the event loop, a live process); Stripe delivers an unanswered event
again, and the night's run starts, again and again, and not every one of
infinitely many attempts fails (strong fairness: Stripe retries for days, cron
fires nightly and BullMQ makes three attempts each). Starting a request, paying,
failing and time are not fair. That strong fairness stands for "failures do not
hit every attempt"; nothing is assumed of a single attempt.

`QueueFairness` of `EmailQueue`: the host restarts the process; a process that is
shutting down exits once its jobs are done; a worker with a job in hand takes its
next step or dies; a backoff ends; and the process is up often enough for a
waiting job to be picked and a stalled one to be found in the end (strong
fairness, since each crash disables both). That a mail is accepted is not assumed:
a job ends as failed as well. In `BoundedConcurrency`: a hash ends, and a
continuation that was resolved runs.

## 4. Where the code does something else

`month_shift`: the bars of the dashboard. `sumByMonth` truncates
`"createdAt" AT TIME ZONE 'Europe/Stockholm'`, lest "an invoice sent at 00:30 on the
1st (Swedish time) lands in the previous month" (`dashboard.repository.ts:87-90`).
The column is a timestamp without time zone that holds UTC; AT TIME ZONE takes such
a value to *be* Stockholm time and moves it back to UTC. The offset is subtracted
where it should be added: the invoice of 00:30 is still in the month before, and so
is that of 03:30. `"createdAt" AT TIME ZONE 'UTC' AT TIME ZONE 'Europe/Stockholm'`
would do it. (The database session is taken to be in UTC.)

The modules keep more sentences of the repository that TLC refutes; name one in
the cfg of the run on the right to get the trace.

| Definition | The sentence | What the code does | With |
|---|---|---|---|
| `CreditedLedgerIsZero` | the ledger of a credited invoice "now sums to zero, which is the whole point" (`invoice.repository.ts:373`) | A reminder fee (or interest) that commits between the SELECT of the fees and the guarded UPDATE is charged but not waived; the balance stays at the fee. The read would have to follow the UPDATE. | `settlement` |
| `AccrualsSumToFee` | a status condition "guards against" two overdue runs at once (`overdue.worker.ts:49`); "the entries sum to the fee" (`overdue.service.ts:126`) | OVERDUE matches for both: each posts its increment, the row shows one. Only `concurrency: 1`, that is one worker in one process, prevents it. | `accrual`, two `Runners` |
| `MarkedOverdueWasOpen` | an invoice paid meanwhile "is not marked overdue after the fact" (`overdue.service.ts:139`) | Its row is not, but INVOICE_OVERDUE is recorded, and a notice enqueued (the email worker then skips it). | `accrual`, without its VIEW |
| `NoticeEventuallyEnqueued` | BullMQ "guarantees it eventually happens" (`scheduler.ts:3`) | Notices are enqueued after all statuses are committed. A run that dies in between starts over, reads OVERDUE, and tells nobody. | `live` |
| `ChainDiesAtOnce` | "it does not matter which link in the chain the attacker holds — the whole chain dies at once" (`refreshToken.repository.ts:91`) | A refresh that read its token before the revocation rotates it afterwards (`where: { id }`): the family has a live token again. `DeadStaysDead` is what remains. | `sessions` |
| `SpentLinkSetPassword` | the password is checked first, lest "the only link the user has" be burnt (`passwordToken.service.ts:112`) | The hash is made after the link is spent, and the gate may refuse it. No route issues another invite. | `sessions` |
| `LegitimateNeverSpent` | "A legitimate client therefore never presents a spent token" (`auth.service.ts:203`) | With two tabs it may: each refreshes on its own, with the one cookie. The second is taken for a thief and the family is revoked. | `browser` |
| `ShownDebtIsWhole` | "What is owed is the API's totalDueOre per open invoice" (`ClientInvoicesPage.tsx:31`); a sum over a page of invoices "is wrong the moment there is a second page" (`DashboardPage.tsx:4`) | The customer's page adds up the answer to `/invoices?limit=100`: the newest hundred documents, the most the API gives (`invoice.validator.ts:100`). An older open invoice is owed, and not in "Att betala". Up to one page the sum is right: `ShownDebtIsLedger`. | `portal` |

And some that the models show, or that were met while translating, without a
definition of their own:

- *Payments.* A link request that crosses a payment writes its session over the
  payment intent (`attachCheckoutSession` by id alone); two link requests at once
  leave two links that work; the link of an invoice that was settled otherwise
  stays payable for the rest of its day (its payment is recorded as unapplied).
  These are what `crossed` excepts. A payment method that settles later completes
  its session unpaid; that event is acknowledged, and the one that would tell of
  the payment is of a type nobody handles (`payment.service.ts:151-156`).
- *Mail.* A demand may go out for an invoice that was paid between the worker's
  read and its send, which the comment at `email.worker.ts:36-39` sets out to
  prevent: the window is one HTTP call wide instead of minutes.
- *Schedule.* A tick of cron that the process is down for is not made up for until
  the next day, though "nothing is lost" (`scheduler.ts:3-5`).
- *Credit notes.* schema.prisma says of CREDITED that "nothing can happen to it
  again", but a second reminder that finds its invoice just credited stamps
  `reminderSentAt` by id alone, and is recorded and enqueued (`StampReminder`).
- *Reports.* The ageing list takes a date, but which invoices are open and their
  fees are today's (`report.service.ts:7-9`); "current" includes an invoice less
  than a day late, since `daysBetween` floors (`:25`); the VAT report and the SIE
  file cut years by UTC, invoice numbers and the dashboard by Stockholm. A document
  that is issued or credited across the end of a year may be in the VAT report of the
  one year and the SIE file of the next: `sentAt` is read before the row is dated, for
  a credit even before the transaction waits for its row (`invoice.service.ts:367`).
  Nothing in the repository promises that the two agree per year; with the two
  differences of `VatReconciles` left out TLC finds a send or a credit in the last
  instant of a year that breaks the equality.
- *References.* A bank also accepts some references with the length or check digit
  left out or a digit appended, so "a digit missing or added" (`ocr.ts:67-70`) is
  caught within the number, not always at its end.
- *Pages.* A refused action does not refresh the stale page that offered it; a new
  invoice is missing from a fresh list for up to 30 seconds; a first load that was
  in the air when one wrote is not restarted, and then counts as fresh. The page
  says of what is due that for a paid invoice it is zero, which is false when fees
  accrued after the link was made; the preview of a new invoice rounds half up.
  The query cache is not cleared at logout.
- *Sessions.* A refresh that is answered after a logout and another login in the
  same page overwrites the new access token; another tab's access token outlives
  the logout by up to 15 minutes; a login that is answered 401 while the cookie is
  live starts a refresh and is sent again, which counts two failures.

## 5. What is proved

TLAPS checks every theorem to the last leaf; the theorems that name a property
state what a run checks, without the bounds.

`InvoiceServiceProofs` (any sets of documents, events, requests and workers, any
totals, any clock, failures or not), from `NullsAssumption` (the null values are
not documents or events), `InputsAssumption` (totals are non-zero integers, due
dates naturals: the validator and `createInvoice`) and `BoundsAssumption` (a day
has a length):

- `TypeCorrect`: `Spec => []TypeOK`. TypeOK is inductive. Its two conjuncts about
  `req` carry the argument: a slot that is to work on a document has one, and a
  slot that is to claim an event is for the document that event pays.
- `LedgerRowsCorrect`: `Spec => []LedgerRowsMatchStatus`. The invariant does not
  hold up by itself: a credit note is SENT and has no ledger rows, so it must be
  known that a note never leaves SENT (`NotesStaySent`); `RowsInv` is the
  conjunction of both. The proof goes by the one transaction a step performs
  (`StoreStep`: every step is a store operation or leaves the store alone), and
  for each by its effect lemma (`SendEffect`, `PayEffect`, `CreditEffect`, ...):
  which row changes, and which postings are made to which ledger.
- `NumbersCorrect`: `Spec => []NumbersNeverReused`. Inductive with TypeOK: the
  number a request holds counts as used, which is the point, since it is
  allocated in another transaction than the one that uses it.
- `TableObeyed`: `Spec => StatusFollowsTable`, from TypeOK alone: each WHERE
  clause implies its entry of the table.
- `WaiversCovered`: `Spec => []WaivedAtMostCharged`, by `BookInv`. A credit waives
  what it read some time before, so the invariant must say of every request and
  every run that what it holds of a fee is at most what the ledger was charged:
  the ledger only grows, and the fee on the row never passes it (`Explained`).
- `DebtExplained`: `Spec => []LedgerExplainsDebt`, assuming `OneWorker`, that is
  `concurrency: 1` in one process (`overdue.worker.ts`); with two it is false
  (`AccrualsSumToFee`). `WorkerInv` is the reason it holds with one: a candidate
  that the run has not applied yet still has the fee the run read of it.
  `RefersInv` is also needed: what requests, runs and payments refer to is
  numbered, or issued, and not an id that a new draft may take.
- `InterestWithinStatute`: `Spec => []NeverOvercharged`, with any number of
  workers: `InterestInv` says that what a run read, and the instant it computes
  for, are within the interest owed by now, which never falls
  (`LateInterestMonotonic`). Overlapping runs may post twice, never beyond the row.
- `NotesPairUp`: `Spec => []CreditNotesPairUp`. `PairInv` states the pairing as a
  bijection (each note is of one credited invoice of the opposite total, nothing
  but a note credits anything), from which the cardinality of the property follows.
- `TrailIsTrue`: `Spec => []AuditIsTruthful`: what a row of the audit trail tells has
  happened (`Happened`), and no later step takes it back.
- `ReceivableImplemented`: `Spec => ImplementsReceivable`, step by step: initial
  states map to initial states, and each of the handlers' steps is one of the
  abstract receivable or a stutter. Since other documents must stutter, it goes by
  what a step does to one document, field by field (`Drafts`, `Sends`, `Pays`, ...),
  lemmas that the theorems above use too.

`CheckoutProofs` (any requests for links, sessions and failures), with the same
assumptions and `OneWorker`, since with two workers interest on a row may fall and
a link be for more than was ever due:

- `LinksImplementService`: `CheckoutSpec => ImplementsInvoiceService`. Each step of
  the links leaves the handlers alone, or is a customer's payment that
  `InvoiceService` allows: what a session is for was due at some time (`LinksInv`).
  So every theorem of `InvoiceServiceProofs` holds beside the links.
- `NoOverpayment`: `CheckoutSpec => []NeverOverpaid`. `PaymentInv`: a payment for an
  open invoice is covered by its balance, which only grows while it is open.
- `OneLinkWorks`, `PaidOnceWhenStraight`, `PaidNamesPayment`, by `CrossInv`: for an
  invoice that is not in `crossed`, one request makes a link at a time, the session
  that can be paid is the one the invoice names, a request that is under way is
  alone with an unpaid invoice, and after a payment nothing else can be paid. One
  lemma for each step that may break this shows that it then enters `crossed`.

`ReportsProofs` (any lines of whole quantities and prices, any year, month and
bucket length), from the assumptions of `InvoiceService` and `ReportsAssumption`:
a table has finitely many rows, the validator takes integers and the four rates, a
year has a length, and the clock is past the 0 that stands for null from its start.

- `ReportsKeepService`: `ReportsSpec => Spec`. The columns that only reports read
  restrict no handler, so every theorem of `InvoiceServiceProofs` is at hand.
- `TablesAgree`: `ReportsSpec => [](StoreInv /\ ReportsInv)`, the inductive
  invariant. `StoreInv` joins what `InvoiceServiceProofs` knows of the tables: types,
  `RowsInv`, `BookInv`, `PairInv`. `ReportsInv` is: the column types; `ItemsInv`,
  lines make the total of their invoice and a note has the mirrored ones;
  `DatesInv`, what was issued has a `sentAt` and one row, and so has a note and the
  credit of its invoice, each with a date of its own between the start and now, of
  which neither follows from the other; `JournalInv`, the dated rows of a document
  and type sum to its ledger, and no amount is without a row. None of it is in any
  guard: it is what the transactions have in common. A credit needs the pairing,
  since its row is on the invoice and its `sentAt` on the note. Part of the column
  types is `ClocksRead`: a handler that is to write a `sentAt` has read its clock.
- `EveryYearExports`: `ReportsSpec => []SieBalances`. A charge, a waiver and a payment
  move one amount between two accounts; an issue and a credit are split by rate, and
  balance because the totals by rate add up to the total (`RatesAddUp`) and the row
  is of the gross that the lines make.
- `ReturnMatchesFile`: `ReportsSpec => []VatReconciles`. `RowOf` pairs each document
  entered in a period with one row of it, the issue of an invoice and the credit
  that a note stands for, one to one and onto (`DocumentOfRow`, `IssuesMatch`); what is
  booked for the row is what the return would add for the document (`IssueRow`,
  `CreditRow`), and `SumMoved` carries the sum over. So file and return are sums of one
  figure over two sets: the documents entered in the period and those sent in it.
  Each is a difference of what was before the period's end and before its beginning
  (`SumsOfPeriod`), and two sets that differ sum to what is in one and not in the
  other (`SumsApart`); `PeriodReconciles` puts this together for any period
  and `ApartAtRate` reads it as the property states it. That all
  that is sent is entered is `AllEntered`, from `DatesInv`.
- `OwedIsOneFigure`: `ReportsSpec => []OutstandingAgrees`, with `OneWorker`: that
  account 1510 of an open invoice is what its row says is due is `DebtExplained`,
  which two workers break. Buckets and rows are sums over parts of one set
  (`SumByKey`), columns sums of one sum (`SumAddsUp`).

`PortalProofs` (any clients, totals, writes, fetches in the air and size of the list's
page), from `PortalAssumption`: a table of finitely many rows, and names that are
apart:

- `PortalTypeCorrect`, with `Books` (the ledger of an open invoice balances with
  its row), gives `DebtShownIsDebtOwed`: `Spec => []ShownDebtIsLedger`. What the page
  adds up and what the ledger says of the open invoices on it are then sums of one
  and the same function (`PageSumIsOwed`); and the first page of a set no larger than
  `PageLimit` is the set, for any `PageLimit` (`OnePageHoldsAll`).
- `RefusalsMeanChange`: `Spec => []RefusedOnlyWhenBehind`. `OfferInv`: a copy, however
  old, was true of the table once, and no transaction takes a status back
  (`Onward`); so what a page offers by its copy is refused only if the row moved.
- `UsersSeeTheirWrites`: `Spec => []OwnWritesShow`. `ShowInv` follows each key of the
  cache from the write to the answer that is heard: while a copy or a fetch misses
  the write, the action is still to be heard and will invalidate that key.

`EmailQueueProofs` (any invoices, jobs, workers, attempts and stalled checks), from
`EmailAssumption`:

- `QueueInvariant`: `QueueSpec => []QueueInv`, the inductive invariant: types; a
  worker that is not idle has a job, which is active; two workers never have the same job (so an attempt is
  not overtaken by another); a process that is down has no workers; the ledger of
  attempts (mails so far, plus the one about to go out, within the attempts and
  stalls used up).
- from it `LogTruthful`, `DemandsNoMore` (what was read was owed then, and a claim
  only grows while it is open), `CrashesLock`, `SettledIsSilent`, `MailsAreBounded`
  and `NothingIsDropped`; the last two only there, since a run would show less.

`BrowserSessionProofs`, of `AuthService` (any accounts, passwords, pairs and finite
set of requests), from `AuthNullsAssumption` and `AuthBoundsAssumption`:

- `TypeCorrect`: `Spec => []TypeOK`, by `TypeInv`, which adds what each step of a
  handler holds in its slot (a user, a password, a stored pair).
- `GuessesBounded`: `Spec => []FailuresBounded`, and `AlarmsLimited`: `Spec =>
  []AlarmsBounded`. Both count: what has been counted so far, plus the requests
  that are past the check and may still count, is bounded, since a request passes
  the check only while the count is below the limit (or the token not revoked).
- `FamiliesHaveUnspent`: `Spec => []FamilyHasUnspent`. Inductive with `TypeInv`: of
  all steps only a login and a rotation change a family or a `rotated`
  (`SessionEffect`), and a rotation puts the new token where it spends the old.
- `DeadFamiliesStayDead`: `Spec => DeadStaysDead`, with the invariant `Rooted`: the
  first pair of each family is stored, so no new login falls into an old family.
  Then a family grows only by rotating a member, which `Dead` excludes, and a
  slot comes to rotate only a token that is live (`RotateSlots`).
- `OnePasswordPerLink`: `Spec => PasswordSetOnce`. The invariant `PasswordInv`: a
  link is unused only while the password is the generated one; a handler that is
  to issue, or to store, is alone with its user; the guard in markUsed is what
  keeps two from storing; and a login that is about to upgrade a hash holds the
  password that is stored, which nobody replaces. Steps that touch neither
  passwords nor links are handled together (`Harmless`).

and of the browser (any tabs, calls, accounts and pairs; answers late or lost):

- `BrowserIsACaller`: `BrowserSpec => Spec`: every step of the browser is one of
  `AuthService` or leaves its variables alone, so that the theorems above hold of a
  server with such browsers. `BaseInv` (with it `BrowserTypeCorrect`) fits each call
  to the handler that serves it: the step its slot is at is one of its own, and only
  an answer brings a pair.
- `LogoutLasts`: `BrowserSpec => []LogoutSticks`. `LogoutInv` says it of every logout
  that has ended its family and is not heard of yet: that family is `Dead`, unless
  a rotation was crossed. `DeadStep`, of the first part, keeps it so.
- `HonestIsNoThief`: `BrowserSpec => []HonestRaisesNoAlarm`. `HonestInv`, for a browser
  that lost no answer and never refreshed in two pages at once: there is one refresh
  at most, and its page waits for it; the token it carries is unspent and no answer
  brings it again; an answer brings an unspent token that nobody else has; and the
  cookie is spent only while the answer that replaces it is under way. None of them
  is inductive alone: that the cookie is unspent when a refresh is sent needs that
  the answer was not lost, which needs that its page was still waiting.

`BoundedConcurrencyProofs` (any finite set of callers, any limits): `GateType`,
`GateCountsHolders`, `GateServesQueueFirst`, `GateKeepsArrivalOrder`. `GateInv` is
the conjunction TypeOK, SlotsAccounted, NoSlotFreeWhileWaiting, QueueIsWaiters.
None is inductive alone: handing a slot to the head of the queue keeps the count
only if the head holds none (QueueIsWaiters), and a newcomer cannot overtake
only if a slot is never free while somebody waits.

`StoreProofs` (every integer, every list of lines, every sequence of digits):

- `RoundsToNearest`: `RoundOre` returns the integer nearest to its fraction, and of two
  the one further from zero; hence `VatIsNearest` (of every line) and
  `InterestIsNearest` (of every gross and number of days).
- `FiguresNearest`: `NearestFigures(lines, days)` for any number of lines. That is all
  that `FiguresAreNearest` says of the invoices `money` tries.
- `RoundOreSymmetric`, and from it `MirroredLineCancels`: a line with its quantity
  negated has exactly the negated net, VAT and gross. By induction over the lines,
  `MirroredTotalsCancel` and `MirroredRatesCancel`: so have the totals, and the totals
  at each rate: what the credit note rests on, and why `CreateCreditNote` may use
  minus the gross.
- `RatesAddUp`: the totals of an invoice, rounded line by line, are the sums of its
  totals by rate.
- `LateInterestMonotonic`: interest owed never falls with time, so an increment is
  negative only for a replay of an earlier day.
- `MistakesCaught`: `CatchesMistakes(OcrReference(digits))` for every non-empty sequence
  of digits, which is what `ReferenceCatchesMistakes` says of the numbers `money`
  tries. A digit left out or added leaves the length digit telling another length
  (`WrongLengthCaught`); one that is wrong, or two that are swapped, change the Luhn
  sum by less than ten and by something (`OneDigitShows`, `TwoDigitsShow`), because
  doubling keeps digits apart (`DoubledDigits`) and only 0 and 9 change places
  without a trace (`SwapsShow`).

Sums are `SumFunction` of the community modules, a fold over a CHOOSE. The library's
induction theorems take a predicate, which no prover here can instantiate; so
`SubsetInduction` states induction over the subsets of a finite set by the *set* of
good ones, and follows from the least element of a well-founded order (`WFMin`).
From it: what is picked first does not matter (`SumTakeOut`), sums add, negate,
split, and move along a bijection. `ReportsProofs` is written in these lemmas.

The rest of the module are lemmas about the transactions of `InvoiceStore`: which
row each changes, and which postings it makes.

Proving showed one fault of the model: the alternatives of `AgingBucket` and of the
lines a step inserts were CASEs whose guards overlapped, where TLA+ chooses any;
they are IFs now, in the order of the code. And it showed what had gone unsaid:
`ReportsAssumption`, of which only the finite tables and the types are the code's,
the others being about the bounds of the model; and `IsFiniteSet(Docs)` of
`PortalAssumption`, without which the first page of a list would have no meaning.

## 6. What is only model-checked

- Liveness under fairness: `PaymentEventuallyApplied`, `PastDueEventuallyCharged`,
  `EveryJobEnds` and `WaiterEventuallyRuns`. They are out of the prover's reach, as is
  ENABLED.
- That a payment reference is made of digits at all (`InvoiceNumberDigits` uses
  powers of ten, which the SMT translation leaves uninterpreted), for the numbers
  that `money` tries. `MistakesCaught` starts from the digits.
- `MonthsAreSwedish` is violated, and so are the definitions of the table in section 4.

`FiguresAreNearest` and `ReferenceCatchesMistakes` are invariants of `MCMoney`, whose
states are only the inputs that TLC tries. What they say of one input is an operator
(`NearestFigures`, `CatchesMistakes`), and the theorems are about that, for every
input. Every other safety property of a passing run is stated by a theorem of
section 5.

## 7. Plan

Done: every module of section 2 and the theorems of section 5.

Next, in order:

1. In `AuthService`: a browser that is dishonest beside one that is honest, to say
   what a copied cookie costs the owner.
2. In `Checkout`: payment methods that settle later, once the code handles them.

## 8. What is not modelled, and why

- The demo data set (`demo/seed.ts`): it wipes every table in one transaction and
  fills them again outside it, in demo mode only. A crash in between leaves a
  partial demo until the next night; no property is meant to survive the wipe.
- The PDF, the landing page, charts, forms, texts, the API description, the CSV
  and the text of the SIE file: layout of figures that are computed elsewhere.
- Wiring: plugins, CORS, rate limits of libraries, configuration, TLS, logging,
  error reporting. Of `server.ts` the shutdown is modelled (`EmailQueue`).
- Years and the calendar: one series, one year, in `InvoiceService`; `Reports` has
  years and months of a few instants. Daylight saving is left out: Stockholm is a
  constant `Ahead`.
- The details of clients, updated by single statements; filters of lists, and pages
  of a list after the first, which no page of the frontend asks for;
  `topClients` and the grouping of the ageing list by client.
- Inside `InvoiceService` an invoice is its gross total; `Reports` has its lines,
  and `Money` covers how the one comes about from the other.
- `logoutEverywhere` (no route calls it).
- Hosts, networks and databases that fail otherwise than by a call that throws or
  a process that dies: PostgreSQL keeps what it committed, Redis what it was given.
