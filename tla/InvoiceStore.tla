---------------------------- MODULE InvoiceStore ----------------------------
(***************************************************************************)
(* The tables the receivable lives in and the transactions that write      *)
(* them: Invoice, Transaction (the ledger), InvoiceNumberSeries and        *)
(* ProcessedWebhookEvent, as repositories/*.repository.ts and              *)
(* overdue.service.ts write them.                                          *)
(*                                                                         *)
(* PostgreSQL runs at READ COMMITTED.  A transaction here is the part of   *)
(* one that starts with its guarded UPDATE: that UPDATE locks the row, a   *)
(* concurrent one on the same row waits and then re-evaluates its WHERE    *)
(* clause, so from there to the commit the transaction is one step, and a  *)
(* crash inside it leaves nothing.  A SELECT that precedes the UPDATE is   *)
(* not covered by the lock: it is a step of its own, in InvoiceService.    *)
(*                                                                         *)
(* A ledger is kept per invoice and type as the number of its rows and     *)
(* their sum: rows are only ever inserted.                                 *)
(*                                                                         *)
(* A name with an underscore, here and in the other modules, is a mutated  *)
(* form of the definition after it: a bug that code could plausibly have.  *)
(* Nothing uses them; they show which property would tell.                 *)
(***************************************************************************)
EXTENDS Money, FiniteSets

CONSTANTS
    Docs,       \* ids an Invoice row may get (cuids, never reused)
    Events      \* ids of Stripe events

VARIABLES
    invoice,    \* the Invoice table, by id
    ledger,     \* the Transaction table, by invoice and type
    lastNumber, \* InvoiceNumberSeries.lastNumber of the year
    processed   \* the ProcessedWebhookEvent table

storeVars == <<invoice, ledger, lastNumber, processed>>

-----------------------------------------------------------------------------
(* Rows                                                                    *)

InvoiceStatus == {"DRAFT", "SENT", "OVERDUE", "PAID", "CREDITED"}

\* ALLOWED_TRANSITIONS; everything absent from it is refused.
AllowedTransitions ==
    [from \in InvoiceStatus |->
        CASE from = "DRAFT"   -> {"SENT"}
          [] from = "SENT"    -> {"PAID", "OVERDUE", "CREDITED"}
          [] from = "OVERDUE" -> {"PAID", "CREDITED"}
          [] OTHER            -> {}]

CanTransition(from, to) == to \in AllowedTransitions[from]

\* A row that was never inserted is ABSENT.  A deleted one is DELETED and
\* keeps its last contents, so that properties can speak of its number.
RowStatus == InvoiceStatus \cup {"ABSENT", "DELETED"}

TransactionType ==
    {"INVOICE_CREATED", "PAYMENT_RECEIVED", "LATE_FEE_ADDED",
     "REMINDER_FEE_ADDED", "CREDIT_NOTE_ISSUED", "LATE_FEE_WAIVED",
     "REMINDER_FEE_WAIVED"}

\* number is 0 and credits is empty where the row has none; reminderSentAt is
\* 0 for null.
InvoiceRow ==
    [type: {"INVOICE", "CREDIT_NOTE"}, status: RowStatus, number: Nat,
     gross: Int, lateFee: Nat, reminderFee: Nat, reminderSentAt: Nat,
     due: Nat, credits: SUBSET Docs]

NoRow ==
    [type |-> "INVOICE", status |-> "ABSENT", number |-> 0, gross |-> 0,
     lateFee |-> 0, reminderFee |-> 0, reminderSentAt |-> 0, due |-> 0,
     credits |-> {}]

Entry == [rows: Nat, sum: Int]

StoreTypeOK ==
    /\ invoice \in [Docs -> InvoiceRow]
    /\ ledger \in [Docs -> [TransactionType -> Entry]]
    /\ lastNumber \in Nat
    /\ processed \in SUBSET Events

StoreInit ==
    /\ invoice = [d \in Docs |-> NoRow]
    /\ ledger = [d \in Docs |-> [t \in TransactionType |-> [rows |-> 0, sum |-> 0]]]
    /\ lastNumber = 0
    /\ processed = {}

-----------------------------------------------------------------------------
(* Reading                                                                 *)

Exists(d) == invoice[d].status \in InvoiceStatus

\* The statuses the WHERE clauses of a receivable's writes name.
OpenStatuses_AndCredited == {"SENT", "OVERDUE", "CREDITED"}
OpenStatuses == {"SENT", "OVERDUE"}

\* where: { id, type: 'INVOICE', status: { in: ['SENT', 'OVERDUE'] } }
IsOpen_ByType(d) == invoice[d].type = "INVOICE" /\ Exists(d)
IsOpen(d) == invoice[d].type = "INVOICE" /\ invoice[d].status \in OpenStatuses

\* where: { id, status: 'DRAFT' }
IsDraft(d) == invoice[d].status = "DRAFT"

\* What the row says is owed.
TotalDue(d) ==
    TotalDueOre(invoice[d].gross, invoice[d].lateFee, invoice[d].reminderFee)

\* What the ledger says is owed.
Sum(d, t)  == ledger[d][t].sum
Rows(d, t) == ledger[d][t].rows

Balance(d) ==
    Sum(d, "INVOICE_CREATED") + Sum(d, "LATE_FEE_ADDED")
      + Sum(d, "REMINDER_FEE_ADDED") + Sum(d, "CREDIT_NOTE_ISSUED")
      + Sum(d, "LATE_FEE_WAIVED") + Sum(d, "REMINDER_FEE_WAIVED")
      - Sum(d, "PAYMENT_RECEIVED")

-----------------------------------------------------------------------------
(* Writing                                                                 *)

\* The ledger l with one row more.
Posted(l, d, t, amount) ==
    [l EXCEPT ![d][t] = [rows |-> @.rows + 1, sum |-> @.sum + amount]]

\* A row inserted only for a positive amount.
PostedIfPositive(l, d, t, amount, sign) ==
    IF amount > 0 THEN Posted(l, d, t, sign * amount) ELSE l

\* INSERT ... ON CONFLICT DO UPDATE ... RETURNING, one statement.
NextNumber_ByCount == Cardinality({d \in Docs : Exists(d)}) + 1
NextNumber == lastNumber + 1
AllocateInvoiceNumber == lastNumber' = NextNumber

\* invoiceRepository.createInvoiceWithItems
CreateInvoiceWithItems(d, number, gross, due) ==
    /\ invoice[d].status = "ABSENT"
    /\ invoice' = [invoice EXCEPT ![d] =
            [NoRow EXCEPT !.status = "DRAFT", !.number = number,
                          !.gross = gross, !.due = due]]
    /\ UNCHANGED ledger

\* invoiceRepository.markSent
MarkSent_Unguarded(d) ==
    /\ invoice' = [invoice EXCEPT ![d].status = "SENT"]
    /\ ledger' = Posted(ledger, d, "INVOICE_CREATED", invoice[d].gross)
MarkSent(d) ==
    /\ IsDraft(d)
    /\ invoice' = [invoice EXCEPT ![d].status = "SENT"]
    /\ ledger' = Posted(ledger, d, "INVOICE_CREATED", invoice[d].gross)

\* invoiceRepository.deleteDraftInvoice
DeleteDraftInvoice(d) ==
    /\ IsDraft(d)
    /\ invoice' = [invoice EXCEPT ![d].status = "DELETED"]
    /\ UNCHANGED ledger

\* invoiceRepository.markPaidWithin
MarkPaidWithin_Unguarded(d, amount) ==
    /\ invoice' = [invoice EXCEPT ![d].status = "PAID"]
    /\ ledger' = Posted(ledger, d, "PAYMENT_RECEIVED", amount)
MarkPaidWithin(d, amount) ==
    /\ IsOpen(d)
    /\ invoice' = [invoice EXCEPT ![d].status = "PAID"]
    /\ ledger' = Posted(ledger, d, "PAYMENT_RECEIVED", amount)

\* invoiceRepository.createCreditNote from its guarded update on.  before is
\* what the transaction read of the fees ahead of that update; the totals of
\* the mirrored lines are minus the original's (StoreProofs).
CreateCreditNote(d, note, number, before, today) ==
    LET issued == Posted(ledger, d, "CREDIT_NOTE_ISSUED", -invoice[d].gross)
        late   == PostedIfPositive(issued, d, "LATE_FEE_WAIVED", before.lateFee, -1)
    IN  /\ IsOpen(d)
        /\ invoice[note].status = "ABSENT"
        /\ invoice' = [invoice EXCEPT
                ![d].status = "CREDITED",
                ![note] = [NoRow EXCEPT
                    !.type = "CREDIT_NOTE", !.status = "SENT", !.number = number,
                    !.gross = -invoice[d].gross, !.due = today, !.credits = {d}]]
        /\ ledger' = PostedIfPositive(late, d, "REMINDER_FEE_WAIVED",
                                      before.reminderFee, -1)

\* invoiceRepository.chargeReminderFee; `reminderFeeOre: 0` is the "once" rule.
NotYetReminded(d) == IsOpen(d) /\ invoice[d].reminderFee = 0

ChargeReminderFee(d, today) ==
    /\ NotYetReminded(d)
    /\ invoice' = [invoice EXCEPT ![d] =
            [@ EXCEPT !.reminderFee = REMINDER_FEE_ORE, !.reminderSentAt = today]]
    /\ ledger' = Posted(ledger, d, "REMINDER_FEE_ADDED", REMINDER_FEE_ORE)

\* invoiceRepository.markReminderSent: by id alone.
MarkReminderSent(d, today) ==
    /\ invoice' = [invoice EXCEPT ![d].reminderSentAt = today]
    /\ UNCHANGED ledger

\* The transaction of applyOverdue.
ApplyOverdueTx(d, newLateFee, increment) ==
    /\ IsOpen(d)
    /\ invoice' = [invoice EXCEPT ![d] =
            [@ EXCEPT !.status = "OVERDUE", !.lateFee = newLateFee]]
    /\ ledger' = PostedIfPositive(ledger, d, "LATE_FEE_ADDED", increment, 1)

\* claimEventAndRun around markPaidWithin: a repeat fails the claim and rolls
\* back; otherwise the claim commits with the payment, or alone when the
\* invoice is not payable.
ClaimEventAndRun(e, d, amount) ==
    \/ e \in processed /\ UNCHANGED <<processed, invoice, ledger>>
    \/ /\ e \notin processed
       /\ processed' = processed \cup {e}
       /\ \/ MarkPaidWithin(d, amount)
          \/ ~IsOpen(d) /\ UNCHANGED <<invoice, ledger>>
=============================================================================
