------------------------------ MODULE Reports ------------------------------
(***************************************************************************)
(* What the accounts department reads: the ageing list, the VAT return and *)
(* the SIE file (services/report.service.ts, repositories/                 *)
(* report.repository.ts, lib/sie.ts), and the figures of the dashboard     *)
(* (services/dashboard.service.ts, repositories/dashboard.repository.ts).  *)
(*                                                                         *)
(* Each is a pure reading of the tables, along a path of its own: by the   *)
(* documents' lines and sentAt, by the ledger's rows and createdAt, by the *)
(* invoices' status and fees.  The handlers of InvoiceService write the    *)
(* tables; this module adds the columns only reports read.                 *)
(*                                                                         *)
(* Instants count UTC time in units of which DayLength make a day.  A      *)
(* handler dates what it issues twice, by two clocks: sentAt is its own    *)
(* new Date(), createdAt of the ledger row the default of a column.  Each  *)
(* is read at some instant between two steps of the handler, so a send or  *)
(* a credit that waits may carry two dates.                                *)
(***************************************************************************)
EXTENDS InvoiceService

CONSTANTS
    Baskets,     \* the lines an invoice may be created with
    BucketDays,  \* days to a bucket of the ageing list: 30
    YearLength,  \* instants in a financial year
    MonthLength, \* instants in a month
    Ahead,       \* by how much Stockholm's clock is ahead of UTC
    MONTHS_SHOWN

\* The tables hold finitely many rows; the validator takes whole quantities
\* and prices and the four rates.
ASSUME ReportsAssumption ==
    /\ IsFiniteSet(Docs)
    /\ Baskets \subseteq Seq([quantity: Int, unitPriceOre: Int, vatRate: VatRates])
    /\ YearLength \in Nat \ {0} /\ BucketDays \in Nat
    /\ MaxNow > 0

VARIABLES
    items,       \* the InvoiceItem table, by invoice
    sentAt,      \* Invoice.sentAt, 0 for null
    journal,     \* the ledger's rows once more, by the instant of createdAt
    clock        \* by request that is to date a document: the instant of its
                 \* last step or, once it has read it, issuedAt

reportVars == <<vars, items, sentAt, journal, clock>>

-----------------------------------------------------------------------------
(* The columns only reports read                                           *)

NoEntries == [d \in Docs |-> [t \in TransactionType |-> [rows |-> 0, sum |-> 0]]]

ReportsInit ==
    /\ Init
    /\ items = [d \in Docs |-> <<>>]
    /\ sentAt = [d \in Docs |-> 0]
    /\ journal = [at \in 0 .. MaxNow |-> NoEntries]
    /\ clock = [s \in Requests |-> 0]

GrossOf(lines) == SumLines(Calculated(lines)).grossTotalOre

\* A new invoice gets the lines its total was made from, a credit note the
\* mirrored lines of the invoice it credits.
ItemsInserted ==
    LET Inserted(d) == ~Numbered(d) /\ Numbered(d)'
    IN  \E basket \in Baskets :
            /\ \A d \in Docs : Inserted(d) /\ invoice'[d].type = "INVOICE" =>
                    GrossOf(basket) = invoice'[d].gross
            /\ items' = [d \in Docs |->
                    IF ~Inserted(d) THEN items[d]
                    ELSE IF invoice'[d].type = "INVOICE" THEN basket
                    ELSE Mirrored(items[CHOOSE o \in invoice'[d].credits : TRUE])]

\* markSent, and issueCreditNote from its number on, read both clocks; what
\* another handler dates has one date, which its step is taken to happen at.
DatingSteps == {"markSent", "readFees", "cancel"}
DatesTwice(s) == req[s].step \in DatingSteps /\ req'[s] # req[s]

\* What a clock may have shown the handler that makes this step, since its
\* last one.
Readings == {now} \cup UNION {clock[s] .. now : s \in {t \in Requests : DatesTwice(t)}}

\* issueCreditNote reads issuedAt between the number and the transaction.
ClockRead(read) ==
    clock' = [s \in Requests |->
        IF req'[s].step \notin DatingSteps THEN 0
        ELSE IF req'[s] = req[s]           THEN clock[s]
        ELSE IF req'[s].step = "cancel"    THEN read
        ELSE now]

\* markSent reads its clock in its transaction: before its row is inserted,
\* but before or after the BEGIN that the column's default may be the time
\* of.  createCreditNote writes the issuedAt it was given.
Sends(d) == invoice'[d].status = "SENT" /\ invoice[d].status # "SENT"

SentAtWritten(read) ==
    /\ sentAt' = [d \in Docs |-> IF Sends(d) THEN read ELSE sentAt[d]]
    /\ \A s \in Requests : At(s, "cancel") /\ DatesTwice(s) => read = clock[s]

\* Rows are only inserted: the new ones are what the ledger has grown by.
RowsDated(createdAt) ==
    journal' = [journal EXCEPT ![createdAt] =
        [d \in Docs |-> [t \in TransactionType |->
            [rows |-> @[d][t].rows + ledger'[d][t].rows - ledger[d][t].rows,
             sum  |-> @[d][t].sum + ledger'[d][t].sum - ledger[d][t].sum]]]]

ReportsNext ==
    /\ Next
    /\ ItemsInserted
    /\ \E read \in Readings : ClockRead(read) /\ SentAtWritten(read)
    /\ \E createdAt \in Readings : RowsDated(createdAt)

ReportsSpec == ReportsInit /\ [][ReportsNext]_reportVars

-----------------------------------------------------------------------------
(* The lines of a document by rate                                         *)

LinesAt(d, rate) ==
    SumLines(Calculated(RestrictValues(items[d], LAMBDA item : item.vatRate = rate)))

-----------------------------------------------------------------------------
(* VAT return                                                              *)

\* where: { status: { not: 'DRAFT' }, sentAt: { gte: from, lt: to } }; a row
\* that was deleted is gone.
IssuedWithin_ToInclusive(d, from, to) ==
    /\ Exists(d) /\ ~IsDraft(d)
    /\ sentAt[d] >= from /\ sentAt[d] <= to
IssuedWithin(d, from, to) ==
    /\ Exists(d) /\ ~IsDraft(d)
    /\ sentAt[d] >= from /\ sentAt[d] < to

NetOver(docs, rate) == SumFunction([d \in docs |-> LinesAt(d, rate).netTotalOre])
VatOver(docs, rate) == SumFunction([d \in docs |-> LinesAt(d, rate).vatTotalOre])

SumVatByRate(from, to) ==
    LET documents == {d \in Docs : IssuedWithin(d, from, to)}
    IN  [rate \in VatRates |-> [netOre |-> NetOver(documents, rate),
                                vatOre |-> VatOver(documents, rate)]]

-----------------------------------------------------------------------------
(* SIE: the ledger as journal entries                                      *)

\* The BAS accounts, by purpose and VAT rate: revenue and VAT are split by
\* rate, 0 % has no VAT, and the others (1510, 1930, 8313, 3590) are under 0.
Account ==
    ({"receivables", "bank", "interest", "fees"} \X {0})
      \cup ({"sales"} \X VatRates) \cup ({"vat"} \X (VatRates \ {0}))

Split(d, sign) ==
    [a \in Account |->
        CASE a[1] = "sales" -> -sign * LinesAt(d, a[2]).netTotalOre
          [] a[1] = "vat"   -> -sign * LinesAt(d, a[2]).vatTotalOre
          [] OTHER -> 0]

Transfer(from, to, amount) ==
    [a \in Account |->
        CASE a[1] = to -> amount [] a[1] = from -> -amount [] OTHER -> 0]

\* A credit note's row sits on the original: the original's lines, negated.
SignOf_Same(type) == 1
SignOf(type) == IF type = "CREDIT_NOTE_ISSUED" THEN -1 ELSE 1

\* toVerification: debit positive, credit negative.
Verification(d, type, amount) ==
    CASE type \in {"INVOICE_CREATED", "CREDIT_NOTE_ISSUED"} ->
            [Split(d, SignOf(type)) EXCEPT ![<<"receivables", 0>>] = amount]
      [] type = "PAYMENT_RECEIVED" -> Transfer("receivables", "bank", amount)
      [] type \in {"LATE_FEE_ADDED", "LATE_FEE_WAIVED"} ->
            Transfer("interest", "receivables", amount)
      [] type \in {"REMINDER_FEE_ADDED", "REMINDER_FEE_WAIVED"} ->
            Transfer("fees", "receivables", amount)

\* findLedgerRowsForYear.  A row is its instant, its invoice and its type:
\* rows that have all three in common are taken together, which only moves
\* sums within an account.
EntryOf(row) == journal[row[1]][row[2]][row[3]]
RowsBetween(from, to) ==
    {row \in (0 .. MaxNow) \X Docs \X TransactionType :
        row[1] >= from /\ row[1] < to /\ EntryOf(row).rows > 0}

VerificationOf(row) == Verification(row[2], row[3], EntryOf(row).sum)

\* What the file of the rows in [from, to) books on an account.
Booked(a, rows) == SumFunction([row \in rows |-> VerificationOf(row)[a]])

\* buildSie throws on a verification that does not sum to zero.
Balances(verification) == SumFunction(verification) = 0

-----------------------------------------------------------------------------
(* Ageing list and dashboard                                               *)

\* findOpenInvoices, and the filter of sumOutstanding, which is written out
\* a second time there.
OpenInvoices_AnyType == {d \in Docs : invoice[d].status \in OpenStatuses}
OpenInvoices == {d \in Docs : IsOpen(d)}

AGING_BUCKETS == {"current", "days1to30", "days31to60", "days61to90", "over90"}

\* Upper bounds are inclusive.
AgingBucket(daysLate) ==
    IF daysLate <= 0                   THEN "current"
    ELSE IF daysLate <= BucketDays     THEN "days1to30"
    ELSE IF daysLate <= 2 * BucketDays THEN "days31to60"
    ELSE IF daysLate <= 3 * BucketDays THEN "days61to90"
    ELSE "over90"

BucketOf(d, asOf) == AgingBucket(DaysBetween(invoice[d].due, asOf, DayLength))

AgingTotals(asOf) ==
    [bucket \in AGING_BUCKETS |->
        SumFunction([d \in {c \in OpenInvoices : BucketOf(c, asOf) = bucket} |->
            TotalDue(d)])]

\* SUM(gross) + SUM(lateFee) + SUM(reminderFee), each over the rows.
SumOf(docs) ==
    SumFunction([d \in docs |-> invoice[d].gross])
      + SumFunction([d \in docs |-> invoice[d].lateFee])
      + SumFunction([d \in docs |-> invoice[d].reminderFee])

SumOutstanding == SumOf({d \in Docs : IsOpen(d)})
SumOverdue == SumOf({d \in Docs : IsOpen(d) /\ invoice[d].status = "OVERDUE"})

\* The month an instant falls in by Stockholm's clock: monthKey.
StockholmMonth(at) == (at + Ahead) \div MonthLength

\* The month sumByMonth groups a row by.  createdAt is a timestamp without
\* time zone that holds UTC: AT TIME ZONE reads it as Stockholm's clock and
\* takes it back to UTC, where date_trunc truncates it.
TruncatedMonth(at) == (at - Ahead) \div MonthLength

\* startOfMonthStockholm(now, MONTHS_SHOWN - 1), as an instant.
ShownFrom == (StockholmMonth(now) - (MONTHS_SHOWN - 1)) * MonthLength - Ahead

AmountOf(rows) == SumFunction([row \in rows |-> EntryOf(row).sum])
SumByMonth(month, type) ==
    AmountOf({row \in RowsBetween(ShownFrom, MaxNow + 1) :
        row[3] = type /\ TruncatedMonth(row[1]) = month})

-----------------------------------------------------------------------------
(* What must hold                                                          *)

Year(y) == RowsBetween(y * YearLength, (y + 1) * YearLength)
Years == 0 .. MaxNow \div YearLength

\* Whatever was issued, credited, charged, waived and paid, in whatever
\* order, every ledger row makes a verification that balances, so the year
\* can be exported at all: the totals an invoice was issued for, the
\* totals of its note and the lines both were made from never disagree by
\* the öre that a second rounding would cost.
SieBalances ==
    \A y \in Years : \A row \in Year(y) : Balances(VerificationOf(row))

\* A credited invoice and its note, whose lines are rounded on their own,
\* cancel rate by rate, in net and in VAT (report.service.ts:142-144).
CreditCancelsVat ==
    \A d, note \in Docs : invoice[note].credits = {d} =>
        \A rate \in VatRates :
            /\ LinesAt(d, rate).netTotalOre + LinesAt(note, rate).netTotalOre = 0
            /\ LinesAt(d, rate).vatTotalOre + LinesAt(note, rate).vatTotalOre = 0

\* A document enters the file by the row of its issue, a note by the row of
\* the invoice it credits.
EntersAt(at, d) ==
    \/ EntryOf(<<at, d, "INVOICE_CREATED">>).rows > 0
    \/ \E o \in invoice[d].credits : EntryOf(<<at, o, "CREDIT_NOTE_ISSUED">>).rows > 0

EnteredBefore(at) == {d \in Docs : \E t \in 0 .. MaxNow : t < at /\ EntersAt(t, d)}
SentBefore(at) == {d \in Docs : Exists(d) /\ ~IsDraft(d) /\ sentAt[d] < at}

\* What a return for all that was sent before an instant has, and the file of
\* all that was entered before it has not.
Unentered(at) == SentBefore(at) \ EnteredBefore(at)
Unsent(at)    == EnteredBefore(at) \ SentBefore(at)
Apart(at) ==
    LET unentered == Unentered(at)
        unsent    == Unsent(at)
    IN  [rate \in VatRates |->
            [netOre |-> NetOver(unentered, rate) - NetOver(unsent, rate),
             vatOre |-> VatOver(unentered, rate) - VatOver(unsent, rate)]]

\* The file and the VAT return of a year, per rate: what the ledger's rows
\* book on sales and on VAT is what the documents issued in that year add up
\* to, although a credit is found by the original's row there and by the
\* note's own lines here, but for the documents that the year's end or its
\* beginning found between their two dates.  Such a document is missing from
\* neither: it is in the one year's return and in the other year's file.
VatReconciles ==
    /\ CreditCancelsVat
    /\ SentBefore(MaxNow + 1) = EnteredBefore(MaxNow + 1)
    /\ \A y \in Years :
           LET rows   == Year(y)
               vat    == SumVatByRate(y * YearLength, (y + 1) * YearLength)
               before == Apart(y * YearLength)
               after  == Apart((y + 1) * YearLength)
           IN  \A rate \in VatRates :
                   /\ Booked(<<"sales", rate>>, rows) + vat[rate].netOre
                         = after[rate].netOre - before[rate].netOre
                   /\ IF rate = 0 THEN vat[rate].vatOre = 0
                      ELSE Booked(<<"vat", rate>>, rows) + vat[rate].vatOre
                             = after[rate].vatOre - before[rate].vatOre

\* Three readings of what is owed agree: the ageing list over its buckets,
\* the dashboard, and account 1510 of the open invoices over all years.  So
\* do the dashboard and account 1510 on the part that is OVERDUE.
OutstandingAgrees ==
    LET aged    == AgingTotals(now)
        open    == {row \in RowsBetween(0, MaxNow + 1) : IsOpen(row[2])}
        overdue == {row \in open : invoice[row[2]].status = "OVERDUE"}
    IN  /\ SumFunction(aged) = SumOutstanding
        /\ Booked(<<"receivables", 0>>, open) = SumOutstanding
        /\ Booked(<<"receivables", 0>>, overdue) = SumOverdue

-----------------------------------------------------------------------------
(* What the repository says and the code does not do                       *)

\* "AT TIME ZONE 'Europe/Stockholm' before truncating, or an invoice sent at
\* 00:30 on the 1st (Swedish time) lands in the previous month"
\* (dashboard.repository.ts:87-90): the bar of a month shows what was
\* invoiced in that month of the Swedish calendar.
MonthsAreSwedish ==
    \A month \in (StockholmMonth(now) - (MONTHS_SHOWN - 1)) .. StockholmMonth(now) :
        SumByMonth(month, "INVOICE_CREATED")
          = AmountOf({row \in RowsBetween(0, MaxNow + 1) :
                row[3] = "INVOICE_CREATED" /\ StockholmMonth(row[1]) = month})
=============================================================================
