--------------------------- MODULE InvoiceService ---------------------------
(***************************************************************************)
(* The handlers that change a receivable, interleaved: the admin's         *)
(* (services/invoice.service.ts), Stripe's webhook                         *)
(* (payment.service.handleStripeEvent) and the nightly overdue run         *)
(* (services/overdue.service.ts, jobs/workers/overdue.worker.ts).          *)
(*                                                                         *)
(* A request is a slot that remembers what its handler has read and, in    *)
(* step, what it does next; between two awaits on the database any other   *)
(* slot may run.  A failure drops a request between two steps, with what   *)
(* it has committed left in place.                                         *)
(*                                                                         *)
(* After its last transaction a handler only adds: an audit row, an email  *)
(* job.  Nothing here reads either, so they are added in the step of that  *)
(* transaction, and, where MayFail, any of them may be missing: record()   *)
(* swallows its errors, and the process may die first.                     *)
(***************************************************************************)
EXTENDS InvoiceStore

CONSTANTS
    Requests,    \* slots for requests in flight
    Runners,     \* overdue workers; one process starts one, concurrency 1
    Ops,         \* the handlers this instance interleaves
    MayFail,     \* whether requests fail and side writes get lost
    NoDoc,       \* no invoice
    NoEvent,     \* no event
    GrossTotals, \* totals an invoice may be created with
    DueTimes,    \* due dates an invoice may be created with
    DayLength,   \* instants in a day
    MaxNow,      \* bound on the clock
    MaxNumber    \* bound on the numbers allocated

AllOps == {"create", "send", "delete", "credit", "remind", "pay", "overdue"}

ASSUME NullsAssumption == NoDoc \notin Docs /\ NoEvent \notin Events
ASSUME OpsAssumption == Ops \subseteq AllOps /\ MayFail \in BOOLEAN
\* The validator refuses a zero total and bounds the due date.
ASSUME InputsAssumption ==
    GrossTotals \subseteq Int \ {0} /\ DueTimes \subseteq Nat
ASSUME BoundsAssumption ==
    DayLength \in Nat \ {0} /\ MaxNow \in Nat /\ MaxNumber \in Nat

VARIABLES
    req,        \* the requests in flight
    run,        \* the overdue runs in progress
    payment,    \* what the customer paid, by the Stripe event that tells of it
    audit,      \* the AuditLog table: which action on which invoice
    emailJobs,  \* the jobs ever added to the email queue
    now         \* the clock

serviceVars == <<req, run, payment, audit, emailJobs, now>>
vars == <<storeVars, serviceVars>>

-----------------------------------------------------------------------------
(* State of a handler                                                      *)

\* Handlers of one invoice, by what they do next.
DocSteps == {"markSent", "deleteDraft", "allocate", "readFees", "cancel",
             "charge", "stamp", "claim"}
Steps == DocSteps \cup {"idle", "insert"}

\* fees is what createCreditNote reads ahead of its guarded update.
NoFees == [lateFee |-> 0, reminderFee |-> 0]
Request ==
    [step: Steps, doc: Docs \cup {NoDoc}, event: Events \cup {NoEvent},
     number: Nat, fees: [lateFee: Nat, reminderFee: Nat]]
IdleRequest ==
    [step |-> "idle", doc |-> NoDoc, event |-> NoEvent, number |-> 0,
     fees |-> NoFees]

\* at is the job's runAt; todo the candidates still to be applied, of which
\* fresh were read as SENT; lateFee what was read of each candidate's fee;
\* notify the results whose notice is still to be enqueued.
Run ==
    [step: {"idle", "apply", "notify"}, at: Nat, todo: SUBSET Docs,
     fresh: SUBSET Docs, lateFee: [Docs -> Nat], notify: SUBSET Docs]
IdleRun ==
    [step |-> "idle", at |-> 0, todo |-> {}, fresh |-> {},
     lateFee |-> [d \in Docs |-> 0], notify |-> {}]

Payment == [doc: Docs, amount: Int]
NoPayment == [doc |-> NoDoc, amount |-> 0]

AuditAction == {"INVOICE_CREATED", "INVOICE_SENT", "INVOICE_DELETED",
                "CREDIT_NOTE_ISSUED", "REMINDER_SENT", "PAYMENT_RECEIVED",
                "PAYMENT_UNAPPLIED", "INVOICE_OVERDUE"}
EmailKind == {"overdue-notice", "payment-reminder"}

TypeOK ==
    /\ StoreTypeOK
    /\ req \in [Requests -> Request]
    /\ \A s \in Requests :
        /\ req[s].step \in DocSteps => req[s].doc \in Docs
        /\ req[s].step = "claim" =>
            req[s].event \in Events /\ payment[req[s].event].doc = req[s].doc
    /\ run \in [Runners -> Run]
    /\ payment \in [Events -> Payment \cup {NoPayment}]
    /\ audit \in SUBSET (AuditAction \X Docs)
    /\ emailJobs \in SUBSET (EmailKind \X Docs)
    /\ now \in Nat

Init ==
    /\ StoreInit
    /\ req = [s \in Requests |-> IdleRequest]
    /\ run = [r \in Runners |-> IdleRun]
    /\ payment = [e \in Events |-> NoPayment]
    /\ audit = {}
    /\ emailJobs = {}
    /\ now = 1

-----------------------------------------------------------------------------
(* Steps all handlers share                                                *)

\* A handler starts on invoice d; its first await is the read of d, which
\* its caller constrains.
Begin(s, op, d, step) ==
    /\ op \in Ops
    /\ req[s].step = "idle"
    /\ req' = [req EXCEPT ![s] = [IdleRequest EXCEPT !.step = step, !.doc = d]]
    /\ UNCHANGED <<storeVars, run, payment, audit, emailJobs, now>>

At(s, step) == req[s].step = step
Goto(s, step) == req' = [req EXCEPT ![s].step = step]
Finish(s) == req' = [req EXCEPT ![s] = IdleRequest]

\* The bound on the series: requests that are to allocate a number are
\* counted in, so that none of them is ever stopped half way by the bound.
MayAllocate ==
    lastNumber + Cardinality({s \in Requests : At(s, "allocate")}) < MaxNumber

\* S grows by what, unless the write is lost.
Added(S, S_, what) == S_ = S \cup what \/ (MayFail /\ S_ = S)

Recorded(action, d) == Added(audit, audit', {<<action, d>>})

-----------------------------------------------------------------------------
(* createInvoice                                                           *)

\* The client is found, the totals are not zero: the number is allocated, in
\* a transaction of its own.
AllocateForInvoice(s) ==
    /\ "create" \in Ops
    /\ At(s, "idle")
    /\ MayAllocate
    /\ AllocateInvoiceNumber
    /\ req' = [req EXCEPT ![s] = [IdleRequest EXCEPT !.step = "insert",
                                                     !.number = NextNumber]]
    /\ UNCHANGED <<invoice, ledger, processed, run, payment, audit, emailJobs, now>>

InsertDraft(s) ==
    /\ At(s, "insert")
    /\ \E d \in Docs, gross \in GrossTotals, due \in DueTimes :
        /\ CreateInvoiceWithItems(d, req[s].number, gross, due)
        /\ Recorded("INVOICE_CREATED", d)
    /\ Finish(s)
    /\ UNCHANGED <<lastNumber, processed, run, payment, emailJobs, now>>

-----------------------------------------------------------------------------
(* sendInvoice and deleteDraft                                             *)

ReadToSend(s, d) ==
    /\ Exists(d)
    /\ CanTransition(invoice[d].status, "SENT")
    /\ Begin(s, "send", d, "markSent")

ReadToDelete(s, d) ==
    IsDraft(d) /\ Begin(s, "delete", d, "deleteDraft")

\* Zero rows matched: someone else sent or deleted it first.
Send(s) ==
    /\ At(s, "markSent")
    /\ \/ MarkSent(req[s].doc) /\ Recorded("INVOICE_SENT", req[s].doc)
       \/ ~IsDraft(req[s].doc) /\ UNCHANGED <<invoice, ledger, audit>>
    /\ Finish(s)
    /\ UNCHANGED <<lastNumber, processed, run, payment, emailJobs, now>>

Delete(s) ==
    /\ At(s, "deleteDraft")
    /\ \/ DeleteDraftInvoice(req[s].doc) /\ Recorded("INVOICE_DELETED", req[s].doc)
       \/ ~IsDraft(req[s].doc) /\ UNCHANGED <<invoice, ledger, audit>>
    /\ Finish(s)
    /\ UNCHANGED <<lastNumber, processed, run, payment, emailJobs, now>>

\* What an invoice with gross g due at due owes in interest at an instant.
InterestAt(g, due, at) ==
    CalculateLateInterest(g, DaysBetween(due, at, DayLength))

-----------------------------------------------------------------------------
(* issueCreditNote                                                         *)

ReadToCredit(s, d) ==
    /\ Exists(d)
    /\ invoice[d].type = "INVOICE"
    /\ CanTransition(invoice[d].status, "CREDITED")
    /\ MayAllocate
    /\ Begin(s, "credit", d, "allocate")

AllocateForCredit(s) ==
    /\ At(s, "allocate")
    /\ AllocateInvoiceNumber
    /\ req' = [req EXCEPT ![s].step = "readFees", ![s].number = NextNumber]
    /\ UNCHANGED <<invoice, ledger, processed, run, payment, audit, emailJobs, now>>

FeesOf_OwedToday(d) ==
    [lateFee |-> InterestAt(invoice[d].gross, invoice[d].due, now),
     reminderFee |-> invoice[d].reminderFee]
FeesOf(d) ==
    [lateFee |-> invoice[d].lateFee, reminderFee |-> invoice[d].reminderFee]

\* The SELECT ahead of the guarded update: it locks nothing.
ReadFees(s) ==
    /\ At(s, "readFees")
    /\ req' = [req EXCEPT ![s].step = "cancel", ![s].fees = FeesOf(req[s].doc)]
    /\ UNCHANGED <<storeVars, run, payment, audit, emailJobs, now>>

\* When the guard matches nothing the number allocated stays unused.  A note
\* falls due on its issuedAt, which is read a little earlier: no one asks when
\* a note is due, so the step's time stands for it.
IssueCredit(s) ==
    /\ At(s, "cancel")
    /\ \/ \E note \in Docs :
            /\ CreateCreditNote(req[s].doc, note, req[s].number, req[s].fees, now)
            /\ Recorded("CREDIT_NOTE_ISSUED", note)
       \/ ~IsOpen(req[s].doc) /\ UNCHANGED <<invoice, ledger, audit>>
    /\ Finish(s)
    /\ UNCHANGED <<lastNumber, processed, run, payment, emailJobs, now>>

-----------------------------------------------------------------------------
(* sendReminder                                                            *)

ReadToRemind(s, d) == IsOpen(d) /\ Begin(s, "remind", d, "charge")

\* What follows the write of a reminder.
ReminderRecorded(d) ==
    /\ Recorded("REMINDER_SENT", d)
    /\ Added(emailJobs, emailJobs', {<<"payment-reminder", d>>})

ChargeReminder(s) ==
    /\ At(s, "charge")
    /\ \/ /\ ChargeReminderFee(req[s].doc, now)
          /\ ReminderRecorded(req[s].doc)
          /\ Finish(s)
       \/ /\ ~NotYetReminded(req[s].doc)
          /\ Goto(s, "stamp")
          /\ UNCHANGED <<invoice, ledger, audit, emailJobs>>
    /\ UNCHANGED <<lastNumber, processed, run, payment, now>>

StampReminder(s) ==
    /\ At(s, "stamp")
    /\ MarkReminderSent(req[s].doc, now)
    /\ ReminderRecorded(req[s].doc)
    /\ Finish(s)
    /\ UNCHANGED <<lastNumber, processed, run, payment, now>>

-----------------------------------------------------------------------------
(* handleStripeEvent, for a checkout.session.completed that is paid        *)

\* What d may have been due at some time: its gross, with the reminder fee or
\* without, and with the interest of today or less.
EverDue(d) ==
    {TotalDueOre(invoice[d].gross, late, reminder) :
        late \in 0 .. invoice[d].lateFee, reminder \in {0, invoice[d].reminderFee}}

\* Stripe and the customer: a checkout is completed, for what was due when
\* its link was made.  The link may be an old one: the invoice need not be
\* open any more.
CustomerPays(e, d) ==
    /\ "pay" \in Ops
    /\ payment[e] = NoPayment
    /\ invoice[d].type = "INVOICE"
    /\ invoice[d].status \in {"SENT", "OVERDUE", "PAID", "CREDITED"}
    /\ \E amount \in EverDue(d) :
        /\ amount > 0
        /\ payment' = [payment EXCEPT ![e] = [doc |-> d, amount |-> amount]]
    /\ UNCHANGED <<storeVars, req, run, audit, emailJobs, now>>

\* The invoice is found by the amount; the event is claimed in
\* a transaction of its own, ahead of the work.
ReceiveEvent_ByAmount(s, e) ==
    /\ "pay" \in Ops
    /\ payment[e] # NoPayment
    /\ At(s, "idle")
    /\ \E d \in Docs :
        /\ IsOpen(d) /\ TotalDue(d) = payment[e].amount
        /\ req' = [req EXCEPT ![s] = [IdleRequest EXCEPT
                !.step = "claim", !.doc = d, !.event = e]]
    /\ UNCHANGED <<storeVars, run, payment, audit, emailJobs, now>>

ReceiveEvent_ClaimsFirst(s, e) ==
    /\ "pay" \in Ops
    /\ payment[e] # NoPayment
    /\ At(s, "idle")
    /\ processed' = processed \cup {e}
    /\ req' = [req EXCEPT ![s] = [IdleRequest EXCEPT
            !.step = "claim", !.doc = payment[e].doc, !.event = e]]
    /\ UNCHANGED <<invoice, ledger, lastNumber, run, payment, audit, emailJobs, now>>

\* A delivery, which Stripe may repeat and which may overlap another.
ReceiveEvent(s, e) ==
    /\ "pay" \in Ops
    /\ payment[e] # NoPayment
    /\ At(s, "idle")
    /\ Exists(payment[e].doc)
    /\ req' = [req EXCEPT ![s] = [IdleRequest EXCEPT
            !.step = "claim", !.doc = payment[e].doc, !.event = e]]
    /\ UNCHANGED <<storeVars, run, payment, audit, emailJobs, now>>

\* What a claimed event is audited as.
Outcome_Received(d) == "PAYMENT_RECEIVED"
Outcome(d) == IF IsOpen(d) THEN "PAYMENT_RECEIVED" ELSE "PAYMENT_UNAPPLIED"

ApplyEvent(s) ==
    LET e == req[s].event
        d == req[s].doc
    IN  /\ At(s, "claim")
        /\ ClaimEventAndRun(e, d, payment[e].amount)
        /\ IF e \in processed THEN UNCHANGED audit ELSE Recorded(Outcome(d), d)
        /\ Finish(s)
        /\ UNCHANGED <<lastNumber, run, payment, emailJobs, now>>

-----------------------------------------------------------------------------
(* runOverdueCheck and processOverdueJob                                   *)

\* where: { type: 'INVOICE', status: { in: ['SENT', 'OVERDUE'] }, dueDate: { lt } }
Candidate_OnlySent(d, at) ==
    invoice[d].type = "INVOICE" /\ invoice[d].status = "SENT" /\ invoice[d].due < at
Candidate(d, at) == IsOpen(d) /\ invoice[d].due < at

\* Of the fee read and the interest owed in total: what is charged now, and
\* what the row says afterwards.
Increment_Total(read, owed) == owed
Increment(read, owed) == owed - read

NewLateFee_Compound(read, owed) == read + owed
NewLateFee(read, owed) == IF owed > read THEN owed ELSE read

\* A job is picked up, for the first time, again, or replayed for an earlier
\* day; findMany reads its candidates in one statement.
StartRun(r, at) ==
    LET candidates == {d \in Docs : Candidate(d, at)}
    IN  /\ "overdue" \in Ops
        /\ run[r].step = "idle"
        /\ run' = [run EXCEPT ![r] =
                [step |-> "apply", at |-> at, todo |-> candidates,
                 fresh |-> {d \in candidates : invoice[d].status = "SENT"},
                 lateFee |-> [d \in Docs |->
                    IF d \in candidates THEN invoice[d].lateFee ELSE 0],
                 notify |-> {}]]
        /\ UNCHANGED <<storeVars, req, payment, audit, emailJobs, now>>

\* The next candidate, in whatever order the database returned them.  The
\* fee is computed from what the run read; the audit row of a newly overdue
\* invoice and its place among the results do not depend on the write.
ApplyOverdue(r, d) ==
    LET totalOwed == InterestAt(invoice[d].gross, invoice[d].due, run[r].at)
        increment == Increment(run[r].lateFee[d], totalOwed)
        newFee    == NewLateFee(run[r].lateFee[d], totalOwed)
        newly     == d \in run[r].fresh
    IN  /\ run[r].step = "apply"
        /\ d \in run[r].todo
        /\ newly \/ increment > 0
        /\ \/ ApplyOverdueTx(d, newFee, increment)
           \/ ~IsOpen(d) /\ UNCHANGED <<invoice, ledger>>
        /\ IF newly THEN Recorded("INVOICE_OVERDUE", d) ELSE UNCHANGED audit
        /\ run' = [run EXCEPT ![r].todo = @ \ {d},
                              ![r].notify = IF newly THEN @ \cup {d} ELSE @]
        /\ UNCHANGED <<lastNumber, processed, req, payment, emailJobs, now>>

\* Nothing to do: already OVERDUE and no further interest has accrued.
SkipOverdue(r, d) ==
    /\ run[r].step = "apply"
    /\ d \in run[r].todo \ run[r].fresh
    /\ Increment(run[r].lateFee[d],
                 InterestAt(invoice[d].gross, invoice[d].due, run[r].at)) <= 0
    /\ run' = [run EXCEPT ![r].todo = @ \ {d}]
    /\ UNCHANGED <<storeVars, req, payment, audit, emailJobs, now>>

\* Only when every candidate is done are the notices enqueued, one by one.
ReportRun(r) ==
    /\ run[r].step = "apply"
    /\ run[r].todo = {}
    /\ run' = [run EXCEPT ![r] =
            IF run[r].notify = {} THEN IdleRun
            ELSE [IdleRun EXCEPT !.step = "notify", !.notify = run[r].notify]]
    /\ UNCHANGED <<storeVars, req, payment, audit, emailJobs, now>>

EnqueueNotice(r, d) ==
    /\ run[r].step = "notify"
    /\ d \in run[r].notify
    /\ emailJobs' = emailJobs \cup {<<"overdue-notice", d>>}
    /\ run' = [run EXCEPT ![r] =
            IF run[r].notify = {d} THEN IdleRun
            ELSE [run[r] EXCEPT !.notify = @ \ {d}]]
    /\ UNCHANGED <<storeVars, req, payment, audit, now>>

-----------------------------------------------------------------------------
(* Failure and time                                                        *)

\* A request throws or its process dies: 500, and nothing of it is undone.
FailRequest(s) ==
    /\ MayFail
    /\ ~At(s, "idle")
    /\ Finish(s)
    /\ UNCHANGED <<storeVars, run, payment, audit, emailJobs, now>>

\* The job fails or stalls; BullMQ starts it again from the beginning.
FailRun(r) ==
    /\ MayFail
    /\ run[r].step # "idle"
    /\ run' = [run EXCEPT ![r] = IdleRun]
    /\ UNCHANGED <<storeVars, req, payment, audit, emailJobs, now>>

Tick ==
    /\ now < MaxNow
    /\ now' = now + 1
    /\ UNCHANGED <<storeVars, req, run, payment, audit, emailJobs>>

-----------------------------------------------------------------------------

AdminStep(s) ==
    \/ AllocateForInvoice(s)
    \/ InsertDraft(s)
    \/ \E d \in Docs : \/ ReadToSend(s, d)
                       \/ ReadToDelete(s, d)
                       \/ ReadToCredit(s, d)
                       \/ ReadToRemind(s, d)
    \/ Send(s)
    \/ Delete(s)
    \/ AllocateForCredit(s)
    \/ ReadFees(s)
    \/ IssueCredit(s)
    \/ ChargeReminder(s)
    \/ StampReminder(s)

WebhookStep(s) ==
    \/ \E e \in Events : ReceiveEvent(s, e)
    \/ ApplyEvent(s)

RunStep(r) ==
    \/ \E at \in 1 .. now : StartRun(r, at)
    \/ \E d \in Docs : ApplyOverdue(r, d) \/ SkipOverdue(r, d)
    \/ ReportRun(r)
    \/ \E d \in Docs : EnqueueNotice(r, d)

Next ==
    \/ \E s \in Requests : AdminStep(s) \/ WebhookStep(s) \/ FailRequest(s)
    \/ \E e \in Events, d \in Docs : CustomerPays(e, d)
    \/ \E r \in Runners : RunStep(r) \/ FailRun(r)
    \/ Tick

Spec == Init /\ [][Next]_vars

-----------------------------------------------------------------------------
(* What must hold                                                          *)

\* d is a receivable: an invoice that left the house.
Issued(d) ==
    /\ invoice[d].type = "INVOICE"
    /\ invoice[d].status \in {"SENT", "OVERDUE", "PAID", "CREDITED"}

If(condition, n) == IF condition THEN n ELSE 0

\* However sends, deletes, reminders, credits, payments and overdue runs
\* interleave, an invoice is in the ledger once when it was issued, paid once
\* when it is PAID, credited once when it is CREDITED and never both, charged
\* one reminder fee when its row shows one; fees are waived only by a credit,
\* and a draft or a credit note has no rows at all.
RowsMatch(d) ==
    LET credited == Issued(d) /\ invoice[d].status = "CREDITED"
        paid     == Issued(d) /\ invoice[d].status = "PAID"
    IN  /\ Rows(d, "INVOICE_CREATED") = If(Issued(d), 1)
        /\ Rows(d, "PAYMENT_RECEIVED") = If(paid, 1)
        /\ Rows(d, "CREDIT_NOTE_ISSUED") = If(credited, 1)
        /\ Rows(d, "REMINDER_FEE_ADDED") = If(invoice[d].reminderFee > 0, 1)
        /\ Rows(d, "LATE_FEE_WAIVED") <= If(credited, 1)
        /\ Rows(d, "REMINDER_FEE_WAIVED") <= If(credited, 1)
        /\ ~Issued(d) => Rows(d, "LATE_FEE_ADDED") = 0
                          /\ invoice[d].reminderFee = 0

LedgerRowsMatchStatus == \A d \in Docs : RowsMatch(d)

\* Every figure the customer is asked for is explained by ledger rows: the
\* gross by the row of its issue, the interest and the reminder fee by the
\* rows that accrued them.  What an open invoice shows as due is its ledger's
\* balance, and a payment is the only thing between the two once it is paid.
LedgerExplainsDebt ==
    \A d \in Docs : Issued(d) =>
        /\ Sum(d, "INVOICE_CREATED") = invoice[d].gross
        /\ Sum(d, "LATE_FEE_ADDED") = invoice[d].lateFee
        /\ Sum(d, "REMINDER_FEE_ADDED") = invoice[d].reminderFee
        /\ IsOpen(d) => Balance(d) = TotalDue(d)
        /\ invoice[d].status = "PAID" =>
                Balance(d) + Sum(d, "PAYMENT_RECEIVED") = TotalDue(d)

\* A credit writes off the gross and never more than the fees that were
\* charged: the fees it read may have grown by the time it commits, they
\* cannot have shrunk.
WaivedAtMostCharged ==
    \A d \in Docs :
        /\ -Sum(d, "LATE_FEE_WAIVED") \in 0 .. Sum(d, "LATE_FEE_ADDED")
        /\ -Sum(d, "REMINDER_FEE_WAIVED") \in 0 .. Sum(d, "REMINDER_FEE_ADDED")
        /\ Issued(d) /\ invoice[d].status = "CREDITED" =>
                Sum(d, "CREDIT_NOTE_ISSUED") = -invoice[d].gross

\* Every credited invoice has exactly one credit note, for minus its gross,
\* and every credit note belongs to a credited invoice.
CreditNotesPairUp ==
    /\ \A note \in Docs : invoice[note].type = "CREDIT_NOTE" =>
        \E d \in Docs :
            /\ invoice[note].credits = {d}
            /\ invoice[d].type = "INVOICE"
            /\ invoice[d].status = "CREDITED"
            /\ invoice[note].gross = -invoice[d].gross
    /\ \A d \in Docs : invoice[d].status = "CREDITED" =>
        Cardinality({note \in Docs : invoice[note].credits = {d}}) = 1

\* Invoices and credit notes draw on one series, and no number is given out
\* twice: not to two rows, not to a row and a request that is still to use
\* it, and not again after the draft that had it was deleted.
Numbered(d) == invoice[d].status # "ABSENT"
Holding(s)  == req[s].step \in {"insert", "readFees", "cancel"}

NumbersNeverReused ==
    /\ \A d \in Docs : Numbered(d) => invoice[d].number \in 1 .. lastNumber
    /\ \A s \in Requests : Holding(s) => req[s].number \in 1 .. lastNumber
    /\ \A d, e \in Docs : Numbered(d) /\ Numbered(e) /\ d # e =>
            invoice[d].number # invoice[e].number
    /\ \A s \in Requests, d \in Docs : Holding(s) /\ Numbered(d) =>
            req[s].number # invoice[d].number
    /\ \A s, t \in Requests : Holding(s) /\ Holding(t) /\ s # t =>
            req[s].number # req[t].number

\* The interest charged so far is never more than the statutory interest on
\* the gross for the days that have really passed, whichever runs failed
\* half way, started over or were replayed for an earlier day.
NeverOvercharged ==
    \A d \in Docs :
        invoice[d].lateFee <= InterestAt(invoice[d].gross, invoice[d].due, now)

\* The audit trail says only what happened: a row exists only for an invoice
\* the ledger shows issued, paid, credited or charged, a note or a deletion
\* that is really there, a payment that came in and could not be applied.
\* INVOICE_OVERDUE is left out: see MarkedOverdueWasOpen.
AuditIsTruthful ==
    \A entry \in audit :
        LET d == entry[2]
        IN  CASE entry[1] = "INVOICE_CREATED"    -> Numbered(d)
              [] entry[1] = "INVOICE_SENT"       -> Rows(d, "INVOICE_CREATED") = 1
              [] entry[1] = "INVOICE_DELETED"    -> invoice[d].status = "DELETED"
              [] entry[1] = "CREDIT_NOTE_ISSUED" -> invoice[d].type = "CREDIT_NOTE"
              [] entry[1] = "REMINDER_SENT"      -> invoice[d].reminderSentAt > 0
              [] entry[1] = "PAYMENT_RECEIVED"   -> Rows(d, "PAYMENT_RECEIVED") = 1
              [] entry[1] = "PAYMENT_UNAPPLIED"  ->
                    invoice[d].status \in {"PAID", "CREDITED"}
              [] OTHER -> TRUE

-----------------------------------------------------------------------------
(* What a step may do                                                      *)

\* ALLOWED_TRANSITIONS is consulted by two handlers of six; the others rely
\* on their WHERE clauses.  Whatever the interleaving, the table is obeyed.
StatusFollowsTable ==
    [][\A d \in Docs :
        Exists(d) /\ Exists(d)' /\ invoice'[d].status # invoice[d].status =>
            CanTransition(invoice[d].status, invoice'[d].status)]_vars

\* The receivable as the outside sees it: its phase is read off the row, its
\* principal and its claim off the ledger.
PhaseOf(row) ==
    IF row.type = "CREDIT_NOTE" THEN "creditNote"
    ELSE CASE row.status = "ABSENT"              -> "none"
           [] row.status = "DRAFT"               -> "draft"
           [] row.status = "DELETED"             -> "discarded"
           [] row.status \in {"SENT", "OVERDUE"} -> "open"
           [] row.status = "PAID"                -> "paid"
           [] row.status = "CREDITED"            -> "cancelled"

Abstract == INSTANCE Receivable WITH
    phase     <- [d \in Docs |-> PhaseOf(invoice[d])],
    principal <- [d \in Docs |-> Sum(d, "INVOICE_CREATED")],
    claim     <- [d \in Docs |-> Balance(d)]

\* The handlers implement that promise: between them they charge an open
\* invoice, settle it once and never touch the ledger of a settled one.
ImplementsReceivable == Abstract!Spec

-----------------------------------------------------------------------------
(* What must happen                                                        *)

\* Handlers go on (the event loop), Stripe delivers an event again until it
\* is answered 200, cron enqueues a run for the day, and failures do not hit
\* every one of infinitely many attempts at the same step.
Fairness ==
    /\ \A s \in Requests : WF_vars(AdminStep(s) /\ ~At(s, "idle"))
    /\ \A e \in Events :
        /\ SF_vars(\E s \in Requests : ReceiveEvent(s, e) /\ e \notin processed)
        /\ SF_vars(\E s \in Requests : ApplyEvent(s) /\ req[s].event = e)
    /\ \A s \in Requests : WF_vars(ApplyEvent(s))
    /\ \A r \in Runners :
        /\ SF_vars(StartRun(r, now))
        /\ \A d \in Docs : SF_vars(ApplyOverdue(r, d)) /\ WF_vars(SkipOverdue(r, d))
        /\ WF_vars(ReportRun(r))
        /\ WF_vars(\E d \in Docs : EnqueueNotice(r, d))

FairSpec == Spec /\ Fairness

\* Money that came in settles its invoice in the end, however often the
\* request that should do it dies: a claim that did not commit with its work
\* is not there, and the next delivery does the work.
PaymentEventuallyApplied ==
    \A e \in Events, d \in Docs :
        payment[e].doc = d ~>
            \/ Rows(d, "PAYMENT_RECEIVED") = 1
            \/ invoice[d].status = "CREDITED" /\ e \in processed

\* An invoice past due does not stay SENT, and once the clock stands still
\* its interest catches up with the days that passed, whatever run failed
\* half way: unless it is settled first.
PastDueEventuallyCharged ==
    \A d \in Docs :
        (IsOpen(d) /\ invoice[d].due < now /\ now = MaxNow)
          ~> \/ ~IsOpen(d)
             \/ /\ invoice[d].status = "OVERDUE"
                /\ invoice[d].lateFee
                     = InterestAt(invoice[d].gross, invoice[d].due, MaxNow)

-----------------------------------------------------------------------------
(* What the repository says and the code does not do                       *)

\* "its ledger now sums to zero, which is the whole point"
\* (invoice.repository.ts:373-374).  Of an invoice issued by itself, not of
\* the fees alone.
CreditedLedgerIsZero ==
    \A d \in Docs : invoice[d].status = "CREDITED" => Balance(d) = 0

\* "the entries sum to the fee on the invoice" (overdue.service.ts:125-127),
\* with two runs at once, which overdue.worker.ts:46-51 says the service
\* guards against.
AccrualsSumToFee ==
    \A d \in Docs : Sum(d, "LATE_FEE_ADDED") = invoice[d].lateFee

\* "an invoice paid between the query above and this write is not marked
\* overdue after the fact" (overdue.service.ts:139-140): not in its row, but
\* in the audit trail.
MarkedOverdueWasOpen ==
    [][\A d \in Docs :
        <<"INVOICE_OVERDUE", d>> \in audit' \ audit =>
            invoice'[d].status = "OVERDUE"]_vars

\* "BullMQ owns execution and guarantees it eventually happens"
\* (scheduler.ts:5): every invoice that becomes overdue is told of.
NoticeEventuallyEnqueued ==
    \A d \in Docs :
        invoice[d].status = "OVERDUE"
          ~> invoice[d].status # "OVERDUE" \/ <<"overdue-notice", d>> \in emailJobs
=============================================================================
