--------------------------- MODULE ReportsProofs ---------------------------
(***************************************************************************)
(* Theorems about Reports: for any number of invoices, requests, events    *)
(* and overdue workers, any lines, any clock and any length of the year.   *)
(*                                                                         *)
(* A report is a sum over tables that many handlers write.  The invariants *)
(* tie the columns a report reads to those the handlers guard: the lines   *)
(* of a document make its total, a credit note mirrors the lines of its    *)
(* invoice (ItemsInv), what was issued or credited has a sentAt and one    *)
(* row, each with a date of its own (DatesInv), and the dated rows are the *)
(* ledger (JournalInv).  From them each report is a rearrangement of       *)
(* another, which the lemmas on sums of StoreProofs make.                  *)
(***************************************************************************)
EXTENDS Reports, InvoiceServiceProofs

-----------------------------------------------------------------------------
(* The columns only reports read leave the handlers as they are            *)

\* A step of Reports is a step of InvoiceService that writes more columns.
LEMMA ReportsStep == [ReportsNext]_reportVars => [Next]_vars
BY DEF ReportsNext, reportVars

\* Every theorem about the handlers holds where the reports are read.
THEOREM ReportsKeepService == ReportsSpec => Spec
<1>1. ReportsInit => Init
  BY DEF ReportsInit
<1>2. QED
  BY <1>1, ReportsStep, PTL DEF ReportsSpec, Spec

-----------------------------------------------------------------------------
(* What the invariants say                                                 *)

Instants == 0 .. MaxNow

\* A handler that is to date a document has read a clock.
ClocksRead ==
    /\ clock \in [Requests -> Nat]
    /\ \A s \in Requests :
            req[s].step \in DatingSteps => clock[s] \in 1 .. now

ColumnTypes ==
    /\ now \in 1 .. MaxNow
    /\ ClocksRead
    /\ \A d \in Docs : LineList(items[d])
    /\ sentAt \in [Docs -> Nat]
    /\ journal \in [Instants -> Ledger]

\* The lines of an invoice make its total; those of a note are mirrored.
ItemsInv ==
    /\ \A d \in Docs : invoice[d].type = "INVOICE" /\ Numbered(d) =>
            GrossOf(items[d]) = invoice[d].gross
    /\ \A d, note \in Docs : invoice[note].credits = {d} =>
            items[note] = Mirrored(items[d])

NoEntry == [rows |-> 0, sum |-> 0]

\* d's ledger has one row of type t, of that instant, or none at all.
OnlyAt(d, t, instant, amount) ==
    \A at \in Instants :
        journal[at][d][t] = IF at = instant THEN [rows |-> 1, sum |-> amount]
                                            ELSE NoEntry
Never(d, t) == \A at \in Instants : journal[at][d][t] = NoEntry

\* One row of type t, of some instant that has been.
Once(d, t, amount) == \E at \in 1 .. now : OnlyAt(d, t, at, amount)

\* What was issued has a sentAt and one row of its issue, and so has a note
\* and the credit of its invoice: two dates, of which neither follows from
\* the other.
IssueDated(d) ==
    IF Issued(d)
    THEN sentAt[d] \in 1 .. now /\ Once(d, "INVOICE_CREATED", invoice[d].gross)
    ELSE Never(d, "INVOICE_CREATED")

CreditDated(d, note) ==
    invoice[note].credits = {d} =>
        /\ sentAt[note] \in 1 .. now
        /\ Once(d, "CREDIT_NOTE_ISSUED", -invoice[d].gross)

DatesInv ==
    /\ \A d \in Docs : IssueDated(d)
    /\ \A d, note \in Docs : CreditDated(d, note)
    /\ \A d \in Docs : invoice[d].status # "CREDITED" => Never(d, "CREDIT_NOTE_ISSUED")

\* The dated rows sum to the ledger, and an amount needs a row.
SumsAt(d, t) == [at \in Instants |-> journal[at][d][t].sum]

JournalInv ==
    \A d \in Docs, t \in TransactionType :
        /\ SumFunctionOnSet(SumsAt(d, t), Instants) = Sum(d, t)
        /\ \A at \in Instants : journal[at][d][t].rows = 0 => journal[at][d][t].sum = 0

StoreInv   == TypeOK /\ RowsInv /\ BookInv /\ PairInv
ReportsInv == ColumnTypes /\ ItemsInv /\ DatesInv /\ JournalInv

-----------------------------------------------------------------------------
(* What a step adds to the ledger and to its dates                         *)

\* The handlers' invariants, in one step.
LEMMA StoreInvNext ==
    ASSUME StoreInv, [ReportsNext]_reportVars
    PROVE  StoreInv'
BY ReportsStep, NextType, RowsNext, BookNext, PairNext DEF StoreInv

\* Rows are only added, and what adds none changes no sum.
Grows(d, t) ==
    /\ Rows(d, t)' >= Rows(d, t)
    /\ Rows(d, t)' = Rows(d, t) => Sum(d, t)' = Sum(d, t)

\* No handler removes a row, or changes the amount of one.
LEMMA LedgerGrows ==
    ASSUME TypeOK, [Next]_vars, NEW d \in Docs, NEW t \in TransactionType
    PROVE  Grows(d, t)
<1>1. Rows(d, t) \in Nat /\ Sum(d, t) \in Int
  BY Figures
<1>2. CASE Same(d) \/ UNCHANGED <<invoice, ledger>>
  BY <1>1, <1>2 DEF Same, Grows, Rows, Sum
<1>3. CASE AddsNothing(d)
  BY <1>1, <1>3 DEF AddsNothing, Grows
<1>4. ASSUME NEW u \in TransactionType, NEW amount, Adds(d, u, amount)
      PROVE  Grows(d, t)
  <2>1. Rows(d, t)' = IF t = u THEN Rows(d, t) + 1 ELSE Rows(d, t)
    BY <1>4 DEF Adds
  <2>2. t # u => Sum(d, t)' = Sum(d, t)
    BY <1>4 DEF Adds
  <2>3. QED
    BY <1>1, <2>1, <2>2 DEF Grows
<1>5. CASE AloneSteps(d)
  BY <1>3, <1>4, <1>5
     DEF AloneSteps, Drafts, NewRow, Issues, Discards, Pays, Charges, Stamps, Accrues,
         TransactionType
<1>6. ASSUME NEW c \in Docs, NEW note \in Docs, Credits(c, note), d \in {c, note}
      PROVE  Grows(d, t)
  <2>1. CASE d = note
    BY <1>3, <1>6, <2>1 DEF Credits, NewRow
  <2>2. CASE d = c /\ t = "CREDIT_NOTE_ISSUED"
    BY <1>1, <1>6, <2>2 DEF Credits, Grows
  <2>3. CASE d = c /\ t \in {"LATE_FEE_WAIVED", "REMINDER_FEE_WAIVED"}
    <3>1. PICK s \in Requests :
              /\ Waives(c, "LATE_FEE_WAIVED", req[s].fees.lateFee)
              /\ Waives(c, "REMINDER_FEE_WAIVED", req[s].fees.reminderFee)
      BY <1>6 DEF Credits
    <3>2. req[s].fees.lateFee \in Nat /\ req[s].fees.reminderFee \in Nat
      BY Figures
    <3>3. QED
      BY <1>1, <2>3, <3>1, <3>2 DEF Waives, Grows
  <2>4. CASE /\ d = c
             /\ t \notin {"CREDIT_NOTE_ISSUED", "LATE_FEE_WAIVED", "REMINDER_FEE_WAIVED"}
    BY <1>1, <1>6, <2>4 DEF Credits, Grows
  <2>5. QED
    BY <1>6, <2>1, <2>2, <2>3, <2>4
<1>7. QED
  BY <1>2, <1>5, <1>6, StepEffect DEF StoreEffect

\* No clock has shown a handler more than the time.
LEMMA ReadingsAre ==
    ASSUME ColumnTypes
    PROVE  Readings \subseteq 1 .. now
<1>1. now \in 1 .. now
  BY BoundsAssumption DEF ColumnTypes
<1>2. ASSUME NEW s \in Requests, DatesTwice(s)
      PROVE  clock[s] .. now \subseteq 1 .. now
  BY <1>2, BoundsAssumption DEF DatesTwice, ColumnTypes, ClocksRead
<1>3. QED
  BY <1>1, <1>2 DEF Readings

\* The rows of a step are of one instant: there the dated ledger gets what
\* the ledger gets, at no other anything.
DatedAt(createdAt) ==
    \A at \in Instants, d \in Docs, t \in TransactionType :
        /\ at # createdAt => journal'[at][d][t] = journal[at][d][t]
        /\ at = createdAt => journal'[at][d][t] =
                [rows |-> journal[at][d][t].rows + Rows(d, t)' - Rows(d, t),
                 sum  |-> journal[at][d][t].sum + Sum(d, t)' - Sum(d, t)]
        /\ Rows(d, t)' = Rows(d, t) => journal'[at][d][t] = journal[at][d][t]

\* That instant is one that has been.
LEMMA JournalStep ==
    ASSUME TypeOK, ColumnTypes, ReportsNext
    PROVE  \E createdAt \in 1 .. now : createdAt \in Instants /\ DatedAt(createdAt)
<1>1. PICK createdAt \in Readings : RowsDated(createdAt)
  BY DEF ReportsNext
<1>2. createdAt \in 1 .. now /\ createdAt \in Instants
  BY <1>1, ReadingsAre, BoundsAssumption DEF ColumnTypes, Instants
<1>3. ASSUME NEW at \in Instants, NEW d \in Docs, NEW t \in TransactionType
      PROVE  /\ at # createdAt => journal'[at][d][t] = journal[at][d][t]
             /\ at = createdAt => journal'[at][d][t] =
                  [rows |-> journal[at][d][t].rows + Rows(d, t)' - Rows(d, t),
                   sum  |-> journal[at][d][t].sum + Sum(d, t)' - Sum(d, t)]
             /\ Rows(d, t)' = Rows(d, t) => journal'[at][d][t] = journal[at][d][t]
  <2>1. journal \in [Instants -> Ledger]
    BY DEF ColumnTypes
  <2>2. journal[at][d][t] \in Entry
    BY <2>1 DEF Ledger
  <2>3. at # createdAt => journal'[at] = journal[at]
    BY <1>1, <2>1 DEF RowsDated
  <2>4. at = createdAt => journal'[at][d][t] =
            [rows |-> journal[at][d][t].rows + Rows(d, t)' - Rows(d, t),
             sum  |-> journal[at][d][t].sum + Sum(d, t)' - Sum(d, t)]
    BY <1>1, <2>1 DEF RowsDated, Rows, Sum
  <2>5. Rows(d, t)' = Rows(d, t) => Sum(d, t)' = Sum(d, t)
    BY ReportsStep, LedgerGrows DEF Grows
  <2>6. Rows(d, t) \in Nat /\ Sum(d, t) \in Int
    BY Figures
  <2>7. CASE at = createdAt /\ Rows(d, t)' = Rows(d, t)
    <3>1. journal'[at][d][t] = [rows |-> journal[at][d][t].rows, sum |-> journal[at][d][t].sum]
      BY <2>2, <2>4, <2>5, <2>6, <2>7 DEF Entry
    <3>2. QED
      BY <2>2, <2>4, <2>7, <3>1 DEF Entry
  <2>8. QED
    BY <2>3, <2>4, <2>7
<1>4. QED
  BY <1>2, <1>3 DEF DatedAt

\* The clock goes on by one at most, and not beyond its bound.
LEMMA ClockStep ==
    ASSUME [Next]_vars
    PROVE  now' = now \/ (now < MaxNow /\ now' = now + 1)
BY ZenonT(40) DEF Next, AdminStep, WebhookStep, RunStep, AllocateForInvoice, InsertDraft, ReadToSend,
       ReadToDelete, ReadToCredit, ReadToRemind, Begin, Send, Delete, AllocateForCredit,
       ReadFees, IssueCredit, ChargeReminder, StampReminder, ReceiveEvent, ApplyEvent,
       CustomerPays, StartRun, ApplyOverdue, SkipOverdue, ReportRun, EnqueueNotice,
       FailRequest, FailRun, Tick, vars, serviceVars

-----------------------------------------------------------------------------
(* The invariants are inductive                                            *)

\* A basket is a list of lines.
LEMMA BasketLines ==
    ASSUME NEW basket \in Baskets
    PROVE  LineList(basket)
<1>1. basket \in Seq(LineItem)
  BY ReportsAssumption DEF LineItem
<1>2. PICK n \in Nat : basket \in [1 .. n -> LineItem]
  BY <1>1
<1>3. IsFiniteSet(1 .. n)
  BY FS_Interval
<1>4. QED
  BY <1>2, <1>3 DEF LineList

\* A document gets its lines with its row, and keeps them.
LEMMA LinesStep ==
    ASSUME ReportsNext, NEW d \in Docs
    PROVE  /\ Numbered(d) \/ ~Numbered(d)' => items'[d] = items[d]
           /\ ~Numbered(d) /\ Numbered(d)' =>
                IF invoice'[d].type = "INVOICE"
                THEN \E basket \in Baskets :
                        items'[d] = basket /\ GrossOf(basket) = invoice'[d].gross
                ELSE items'[d] = Mirrored(items[CHOOSE o \in invoice'[d].credits : TRUE])
<1> DEFINE Inserted(e) == ~Numbered(e) /\ Numbered(e)'
<1>1. PICK basket \in Baskets :
        /\ \A e \in Docs : Inserted(e) /\ invoice'[e].type = "INVOICE" =>
                GrossOf(basket) = invoice'[e].gross
        /\ items' = [e \in Docs |->
                IF ~Inserted(e) THEN items[e]
                ELSE IF invoice'[e].type = "INVOICE" THEN basket
                ELSE Mirrored(items[CHOOSE o \in invoice'[e].credits : TRUE])]
  BY DEF ReportsNext, ItemsInserted
<1> HIDE DEF Inserted
<1>2. CASE ~Inserted(d)
  <2>1. items'[d] = items[d]
    BY <1>1, <1>2
  <2>2. QED
    BY <1>2, <2>1 DEF Inserted
<1>3. CASE Inserted(d) /\ invoice'[d].type = "INVOICE"
  <2>1. items'[d] = basket /\ GrossOf(basket) = invoice'[d].gross
    BY <1>1, <1>3
  <2>2. QED
    BY <1>3, <2>1 DEF Inserted
<1>4. CASE Inserted(d) /\ invoice'[d].type # "INVOICE"
  <2>1. items'[d] = Mirrored(items[CHOOSE o \in invoice'[d].credits : TRUE])
    BY <1>1, <1>4
  <2>2. QED
    BY <1>4, <2>1 DEF Inserted
<1>5. QED
  BY <1>2, <1>3, <1>4

\* A row that a step inserts is that of a draft, or of the note of an open
\* invoice.
LEMMA InsertedRow ==
    ASSUME TypeOK, [Next]_vars, NEW d \in Docs, ~Numbered(d), Numbered(d)'
    PROVE  \/ invoice'[d].type = "INVOICE" /\ invoice'[d].credits = {}
           \/ /\ invoice'[d].type = "CREDIT_NOTE"
              /\ \E c \in Docs : /\ Credits(c, d)
                                 /\ invoice'[d].credits = {c} /\ Numbered(c)
<1>1. CASE Same(d) \/ UNCHANGED <<invoice, ledger>>
  BY <1>1 DEF Same, Numbered
<1>2. CASE AloneSteps(d)
  BY <1>2 DEF AloneSteps, Drafts, Issues, Discards, Pays, Charges, Stamps, Accrues,
              Moves, Closes, IsOpen, OpenStatuses, Numbered
<1>3. ASSUME NEW c \in Docs, NEW note \in Docs, Credits(c, note), d \in {c, note}
      PROVE  /\ invoice'[d].type = "CREDIT_NOTE"
             /\ Credits(c, d) /\ invoice'[d].credits = {c} /\ Numbered(c)
  <2>1. Numbered(c)
    BY <1>3 DEF Credits, Closes, IsOpen, OpenStatuses, Numbered
  <2>2. d = note
    BY <1>3, <2>1
  <2>3. QED
    BY <1>3, <2>1, <2>2 DEF Credits
<1>4. QED
  BY <1>1, <1>2, <1>3, StepEffect DEF StoreEffect

\* The columns keep their types.
LEMMA ColumnTypesNext ==
    ASSUME TypeOK, ColumnTypes, ReportsNext
    PROVE  ColumnTypes'
<1>1. now' \in 1 .. MaxNow
  BY ReportsStep, ClockStep, BoundsAssumption DEF ColumnTypes
<1>2. ASSUME NEW d \in Docs
      PROVE  LineList(items'[d])
  <2>1. CASE Numbered(d) \/ ~Numbered(d)'
    BY <2>1, LinesStep DEF ColumnTypes
  <2>2. CASE ~Numbered(d) /\ Numbered(d)'
    <3>1. CASE invoice'[d].type = "INVOICE"
      BY <2>2, <3>1, LinesStep, BasketLines
    <3>2. CASE invoice'[d].type # "INVOICE"
      <4>1. PICK c \in Docs : invoice'[d].credits = {c}
        BY <2>2, <3>2, ReportsStep, InsertedRow
      <4>2. items'[d] = Mirrored(items[c])
        BY <2>2, <3>2, <4>1, LinesStep
      <4>3. QED
        BY <4>2, MirroredLines DEF ColumnTypes
    <3>3. QED
      BY <3>1, <3>2
  <2>3. QED
    BY <2>1, <2>2
<1>3. sentAt' \in [Docs -> Nat] /\ ClocksRead'
  <2>1. PICK read \in Readings : ClockRead(read) /\ SentAtWritten(read)
    BY DEF ReportsNext
  <2>2. read \in 1 .. now /\ read \in Nat /\ now \in Nat
    BY ReadingsAre, BoundsAssumption DEF ColumnTypes
  <2>3. sentAt' \in [Docs -> Nat]
    BY <2>1, <2>2 DEF SentAtWritten, ColumnTypes
  <2>4. now' \in Nat /\ now <= now'
    BY ReportsStep, ClockStep, BoundsAssumption DEF ColumnTypes
  <2>5. ASSUME NEW s \in Requests
        PROVE  /\ clock'[s] \in Nat
               /\ req'[s].step \in DatingSteps =>
                        clock'[s] \in 1 .. now'
    <3>1. /\ clock[s] \in Nat
          /\ req[s].step \in DatingSteps => clock[s] \in 1 .. now
      BY DEF ColumnTypes, ClocksRead
    <3>2. clock'[s] =
            IF req'[s].step \notin DatingSteps THEN 0
            ELSE IF req'[s] = req[s] THEN clock[s]
            ELSE IF req'[s].step = "cancel" THEN read ELSE now
      BY <2>1 DEF ClockRead
    <3>3. QED
      BY <2>2, <2>4, <3>1, <3>2 DEF ColumnTypes
  <2>6. clock' = [s \in Requests |-> clock'[s]]
    BY <2>1 DEF ClockRead
  <2>7. QED
    BY <2>3, <2>5, <2>6 DEF ClocksRead
<1>4. journal' \in [Instants -> Ledger]
  <2> PICK createdAt \in Readings : RowsDated(createdAt)
    BY DEF ReportsNext
  <2>0. createdAt \in Instants
    BY ReadingsAre, BoundsAssumption DEF ColumnTypes, Instants
  <2>1. ASSUME NEW d \in Docs, NEW t \in TransactionType
        PROVE  [rows |-> journal[createdAt][d][t].rows + ledger'[d][t].rows - ledger[d][t].rows,
                sum  |-> journal[createdAt][d][t].sum + ledger'[d][t].sum - ledger[d][t].sum]
                  \in Entry
    <3>1. Rows(d, t) \in Nat /\ Sum(d, t) \in Int
      BY Figures
    <3>2. Rows(d, t)' \in Nat /\ Sum(d, t)' \in Int
      <4>1. TypeOK'
        BY ReportsStep, NextType
      <4>2. QED
        BY <4>1 DEF TypeOK, StoreTypeOK, Entry, Rows, Sum
    <3>3. Rows(d, t)' >= Rows(d, t)
      BY ReportsStep, LedgerGrows DEF Grows
    <3>4. journal[createdAt][d][t] \in Entry
      BY <2>0 DEF ColumnTypes, Ledger
    <3>5. QED
      BY <3>1, <3>2, <3>3, <3>4 DEF Rows, Sum, Entry
  <2>2. [d \in Docs |-> [t \in TransactionType |->
          [rows |-> journal[createdAt][d][t].rows + ledger'[d][t].rows - ledger[d][t].rows,
           sum  |-> journal[createdAt][d][t].sum + ledger'[d][t].sum - ledger[d][t].sum]]]
            \in Ledger
    BY <2>1 DEF Ledger
  <2>3. QED
    BY <2>0, <2>2 DEF RowsDated, ColumnTypes
<1>5. QED
  BY <1>1, <1>2, <1>3, <1>4 DEF ColumnTypes

\* What a document was made of stays with it.
LEMMA DocumentStays ==
    ASSUME TypeOK, [Next]_vars, NEW d \in Docs, Numbered(d)
    PROVE  /\ Numbered(d)'
           /\ invoice'[d].type = invoice[d].type
           /\ invoice'[d].gross = invoice[d].gross
           /\ invoice'[d].credits = invoice[d].credits
<1>1. CASE Same(d) \/ UNCHANGED <<invoice, ledger>>
  BY <1>1 DEF Same, Numbered
<1>2. CASE AloneSteps(d)
  BY <1>2 DEF AloneSteps, Drafts, NewRow, Issues, Discards, Pays, Charges, Stamps, Accrues,
              Fixed, Moves, Closes, Numbered
<1>3. ASSUME NEW c \in Docs, NEW note \in Docs, Credits(c, note), d \in {c, note}
      PROVE  Fixed(d) /\ Numbered(d)'
  BY <1>3 DEF Credits, NewRow, Closes, Numbered
<1>4. QED
  BY <1>1, <1>2, <1>3, StepEffect DEF StoreEffect, Fixed, Numbered

\* The lines of each document stay those its total was made from.
LEMMA ItemsNext ==
    ASSUME StoreInv, ItemsInv, ReportsNext
    PROVE  ItemsInv'
<1>1. TypeOK /\ PairInv /\ RowsInv /\ [Next]_vars
  BY ReportsStep DEF StoreInv
<1>2. ASSUME NEW d \in Docs, invoice'[d].type = "INVOICE", Numbered(d)'
      PROVE  GrossOf(items'[d]) = invoice'[d].gross
  <2>1. CASE Numbered(d)
    BY <1>1, <1>2, <2>1, DocumentStays, LinesStep DEF ItemsInv
  <2>2. CASE ~Numbered(d)
    BY <1>2, <2>2, LinesStep
  <2>3. QED
    BY <2>1, <2>2
<1>3. ASSUME NEW d \in Docs, NEW note \in Docs, invoice'[note].credits = {d}
      PROVE  items'[note] = Mirrored(items'[d])
  <2>1. CASE Numbered(note)
    <3>1. invoice[note].credits = {d}
      BY <1>1, <1>3, <2>1, DocumentStays
    <3>2. invoice[note].type = "CREDIT_NOTE"
      BY <1>1, <3>1 DEF PairInv
    <3>3. PICK e \in Docs : NoteOf(note, e)
      BY <1>1, <3>2 DEF PairInv
    <3>4. e = d /\ Numbered(d)
      BY <3>1, <3>3 DEF NoteOf, Numbered
    <3>5. items'[note] = items[note] /\ items'[d] = items[d]
      BY <2>1, <3>4, LinesStep
    <3>6. QED
      BY <3>1, <3>5 DEF ItemsInv
  <2>2. CASE ~Numbered(note) /\ Numbered(note)'
    <3>1. PICK c \in Docs : invoice'[note].credits = {c} /\ Numbered(c)
      BY <1>1, <1>3, <2>2, InsertedRow
    <3>2. c = d
      BY <1>3, <3>1
    <3>3. invoice'[note].type # "INVOICE"
      BY <1>1, <1>3, <2>2, InsertedRow
    <3>4. (CHOOSE o \in invoice'[note].credits : TRUE) = d
      BY <1>3
    <3>5. items'[note] = Mirrored(items[d])
      BY <2>2, <3>3, <3>4, LinesStep
    <3>6. items'[d] = items[d]
      BY <3>1, <3>2, LinesStep
    <3>7. QED
      BY <3>5, <3>6
  <2>3. CASE ~Numbered(note)'
    <3>1. TypeOK' /\ PairInv' /\ RowsInv'
      BY <1>1, NextType, RowsNext, PairNext DEF StoreInv
    <3>2. invoice'[note].type = "CREDIT_NOTE"
      BY <1>3, <3>1 DEF PairInv
    <3>3. invoice'[note].status = "SENT"
      BY <3>1, <3>2 DEF RowsInv, NotesStaySent
    <3>4. QED
      BY <2>3, <3>3 DEF Numbered
  <2>4. QED
    BY <2>1, <2>2, <2>3
<1>4. QED
  BY <1>2, <1>3 DEF ItemsInv

\* A document that becomes SENT is dated by an instant that has been; no
\* other gets a new date.
LEMMA SentStep ==
    ASSUME ReportsNext, ColumnTypes, NEW d \in Docs
    PROVE  /\ Sends(d) => sentAt'[d] \in 1 .. now
           /\ ~Sends(d) => sentAt'[d] = sentAt[d]
<1>1. PICK read \in Readings : SentAtWritten(read)
  BY DEF ReportsNext
<1>2. read \in 1 .. now
  BY ReadingsAre
<1>3. QED
  BY <1>1, <1>2 DEF SentAtWritten

\* The issue of an invoice: of a draft, once.
LEMMA IssueStep ==
    ASSUME StoreInv, [Next]_vars, NEW d \in Docs
    PROVE  LET t == "INVOICE_CREATED"
           IN  \/ /\ ~Issued(d) /\ Issued(d)'
                  /\ invoice[d].status = "DRAFT" /\ invoice'[d].status = "SENT"
                  /\ invoice'[d].gross = invoice[d].gross
                  /\ Rows(d, t)' = Rows(d, t) + 1
                  /\ Sum(d, t)' = Sum(d, t) + invoice[d].gross
               \/ /\ Issued(d) <=> Issued(d)'
                  /\ Issued(d) => invoice'[d].gross = invoice[d].gross
                  /\ Issued(d) => ~(invoice'[d].status = "SENT" /\ invoice[d].status # "SENT")
                  /\ Rows(d, t)' = Rows(d, t)
<1>1. TypeOK /\ RowsInv /\ PairInv
  BY DEF StoreInv
<1>2. CASE Same(d) \/ UNCHANGED <<invoice, ledger>>
  BY <1>2 DEF Same, Issued, Rows, TransactionType
<1>3. CASE Issues(d)
  <2>1. invoice[d].type = "INVOICE"
    BY <1>1, <1>3, Figures DEF Issues, Moves, RowsInv, NotesStaySent, InvoiceRow
  <2>2. QED
    BY <1>3, <2>1 DEF Issues, Moves, Fixed, Adds, Issued, TransactionType
<1>4. CASE AloneSteps(d) /\ ~Issues(d)
  <2>1. Rows(d, "INVOICE_CREATED")' = Rows(d, "INVOICE_CREATED")
    BY <1>4 DEF AloneSteps, Drafts, NewRow, Discards, Pays, Charges, Stamps, Accrues,
                Adds, AddsNothing, TransactionType
  <2>2. CASE Drafts(d)
    BY <2>1, <2>2 DEF Drafts, NewRow, Issued
  <2>3. CASE ~Drafts(d)
    <3>1. Fixed(d) /\ (invoice'[d].status = "SENT" => invoice[d].status = "SENT")
      BY <1>4, <2>3 DEF AloneSteps, Discards, Pays, Charges, Stamps, Accrues, Moves, Closes
    <3>2. Issued(d) <=> Issued(d)'
      BY <1>4, <2>3 DEF AloneSteps, Discards, Pays, Charges, Stamps, Accrues, Moves, Closes,
                        Fixed, IsOpen, OpenStatuses, Issued
    <3>3. QED
      BY <2>1, <3>1, <3>2 DEF Fixed
  <2>4. QED
    BY <2>2, <2>3
<1>5. ASSUME NEW c \in Docs, NEW note \in Docs, Credits(c, note), d \in {c, note}
      PROVE  /\ Issued(d) <=> Issued(d)'
             /\ Issued(d) => invoice'[d].gross = invoice[d].gross
             /\ Issued(d) => ~(invoice'[d].status = "SENT" /\ invoice[d].status # "SENT")
             /\ Rows(d, "INVOICE_CREATED")' = Rows(d, "INVOICE_CREATED")
  BY <1>5 DEF Credits, NewRow, AddsNothing, Fixed, Closes, IsOpen, OpenStatuses, Issued,
              TransactionType
<1>6. QED
  BY <1>2, <1>3, <1>4, <1>5, StepEffect, <1>1 DEF StoreEffect

\* The credit of an invoice: once, with the note that is made in the step.
LEMMA CreditStep ==
    ASSUME StoreInv, [Next]_vars, NEW d \in Docs
    PROVE  LET t == "CREDIT_NOTE_ISSUED"
           IN  \/ /\ invoice[d].status # "CREDITED" /\ invoice'[d].status = "CREDITED"
                  /\ Rows(d, t)' = Rows(d, t) + 1
                  /\ Sum(d, t)' = Sum(d, t) - invoice[d].gross
                  /\ invoice'[d].gross = invoice[d].gross
                  /\ \E note \in Docs : /\ ~Numbered(note) /\ invoice'[note].status = "SENT"
                                        /\ invoice'[note].credits = {d}
               \/ /\ invoice'[d].status = "CREDITED" <=> invoice[d].status = "CREDITED"
                  /\ Rows(d, t)' = Rows(d, t)
<1>1. TypeOK
  BY DEF StoreInv
<1>2. CASE Same(d) \/ UNCHANGED <<invoice, ledger>>
  BY <1>2 DEF Same, Rows, TransactionType
<1>3. CASE AloneSteps(d)
  <2>1. Rows(d, "CREDIT_NOTE_ISSUED")' = Rows(d, "CREDIT_NOTE_ISSUED")
    BY <1>3 DEF AloneSteps, Drafts, NewRow, Issues, Discards, Pays, Charges, Stamps,
                Accrues, Adds, AddsNothing, TransactionType
  <2>2. invoice'[d].status = "CREDITED" <=> invoice[d].status = "CREDITED"
    BY <1>3 DEF AloneSteps, Drafts, NewRow, Issues, Discards, Pays, Charges, Stamps,
                Accrues, Moves, Closes, IsOpen, OpenStatuses
  <2>3. QED
    BY <2>1, <2>2
<1>4. ASSUME NEW c \in Docs, NEW note \in Docs, Credits(c, note), d = c
      PROVE  /\ invoice[d].status # "CREDITED" /\ invoice'[d].status = "CREDITED"
             /\ Rows(d, "CREDIT_NOTE_ISSUED")' = Rows(d, "CREDIT_NOTE_ISSUED") + 1
             /\ Sum(d, "CREDIT_NOTE_ISSUED")'
                  = Sum(d, "CREDIT_NOTE_ISSUED") - invoice[d].gross
             /\ invoice'[d].gross = invoice[d].gross
             /\ ~Numbered(note) /\ invoice'[note].status = "SENT"
             /\ invoice'[note].credits = {d}
  BY <1>4 DEF Credits, NewRow, Closes, Fixed, IsOpen, OpenStatuses, Numbered
<1>5. ASSUME NEW c \in Docs, NEW note \in Docs, Credits(c, note), d = note
      PROVE  /\ invoice'[d].status = "CREDITED" <=> invoice[d].status = "CREDITED"
             /\ Rows(d, "CREDIT_NOTE_ISSUED")' = Rows(d, "CREDIT_NOTE_ISSUED")
  BY <1>5 DEF Credits, NewRow, AddsNothing, TransactionType
<1>6. QED
  BY <1>1, <1>2, <1>3, <1>4, <1>5, StepEffect DEF StoreEffect

\* What is issued is dated, and its row too, once; both dates stay.
LEMMA IssueDatesNext ==
    ASSUME StoreInv, ColumnTypes, DatesInv, ReportsNext, NEW d \in Docs
    PROVE  IssueDated(d)'
<1> DEFINE t == "INVOICE_CREATED"
<1>1. /\ TypeOK /\ [Next]_vars /\ StoreInv /\ t \in TransactionType
      /\ now \in 1 .. MaxNow /\ now \in Instants /\ now' \in 1 .. MaxNow /\ now <= now'
      /\ Rows(d, t) \in Nat /\ Sum(d, t) \in Int /\ invoice[d].gross \in Int
  <2>1. TypeOK /\ [Next]_vars
    BY ReportsStep DEF StoreInv
  <2>2. now \in 1 .. MaxNow /\ now' \in 1 .. MaxNow /\ now <= now'
    BY <2>1, ClockStep, ColumnTypesNext, BoundsAssumption DEF ColumnTypes
  <2>3. QED
    BY <2>1, <2>2, Figures, BoundsAssumption DEF Instants, TransactionType
<1>2. IssueDated(d)
  BY DEF DatesInv
<1>0. PICK createdAt \in 1 .. now : createdAt \in Instants /\ DatedAt(createdAt)
  BY <1>1, JournalStep
<1>3. CASE /\ ~Issued(d) /\ Issued(d)'
           /\ invoice[d].status = "DRAFT" /\ invoice'[d].status = "SENT"
           /\ invoice'[d].gross = invoice[d].gross
           /\ Rows(d, t)' = Rows(d, t) + 1
           /\ Sum(d, t)' = Sum(d, t) + invoice[d].gross
  <2>1. sentAt'[d] \in 1 .. now
    BY <1>3, SentStep DEF Sends
  <2>2. ASSUME NEW at \in Instants
        PROVE  journal'[at][d][t] = IF at = createdAt THEN [rows |-> 1, sum |-> invoice[d].gross]
                                                      ELSE NoEntry
    <3>1. journal[at][d][t] = NoEntry
      BY <1>2, <1>3 DEF IssueDated, Never
    <3>2. CASE at # createdAt
      BY <1>0, <1>1, <3>1, <3>2 DEF DatedAt
    <3>3. CASE at = createdAt
      <4>1. journal'[at][d][t] =
              [rows |-> journal[at][d][t].rows + Rows(d, t)' - Rows(d, t),
               sum  |-> journal[at][d][t].sum + Sum(d, t)' - Sum(d, t)]
        BY <1>0, <1>1, <3>3 DEF DatedAt
      <4>2. journal[at][d][t].rows = 0 /\ journal[at][d][t].sum = 0
        BY <3>1 DEF NoEntry
      <4>3. /\ journal[at][d][t].rows + Rows(d, t)' - Rows(d, t) = 1
            /\ journal[at][d][t].sum + Sum(d, t)' - Sum(d, t) = invoice[d].gross
        BY <1>1, <1>3, <4>2
      <4>4. QED
        BY <3>3, <4>1, <4>3
    <3>4. QED
      BY <3>2, <3>3
  <2>3. Once(d, t, invoice[d].gross)'
    <3>1. \A at \in Instants : journal'[at][d][t] =
              IF at = createdAt THEN [rows |-> 1, sum |-> invoice'[d].gross] ELSE NoEntry
      BY <1>3, <2>2
    <3>2. createdAt \in 1 .. now'
      BY <1>0, <1>1
    <3>3. QED
      BY <3>1, <3>2 DEF Once, OnlyAt, Instants
  <2>4. QED
    BY <1>1, <1>3, <2>1, <2>3 DEF IssueDated
<1>4. CASE /\ Issued(d) <=> Issued(d)'
           /\ Issued(d) => invoice'[d].gross = invoice[d].gross
           /\ Issued(d) => ~(invoice'[d].status = "SENT" /\ invoice[d].status # "SENT")
           /\ Rows(d, t)' = Rows(d, t)
  <2>1. \A at \in Instants : journal'[at][d][t] = journal[at][d][t]
    BY <1>0, <1>1, <1>4 DEF DatedAt
  <2>2. CASE Issued(d)
    <3>1. sentAt'[d] = sentAt[d] /\ sentAt[d] \in 1 .. now'
      BY <1>1, <1>2, <1>4, <2>2, SentStep DEF IssueDated, Sends
    <3>2. Once(d, t, invoice[d].gross)'
      <4>1. PICK at \in 1 .. now : OnlyAt(d, t, at, invoice[d].gross)
        BY <1>2, <2>2 DEF IssueDated, Once
      <4>2. OnlyAt(d, t, at, invoice[d].gross)' /\ at \in 1 .. now'
        BY <1>1, <1>4, <2>1, <2>2, <4>1 DEF OnlyAt, Instants
      <4>3. QED
        BY <4>2 DEF Once
    <3>3. QED
      BY <1>4, <2>2, <3>1, <3>2 DEF IssueDated
  <2>3. CASE ~Issued(d)
    BY <1>2, <1>4, <2>1, <2>3 DEF IssueDated, Never, Instants
  <2>4. QED
    BY <2>2, <2>3
<1>5. QED
  BY <1>1, <1>3, <1>4, IssueStep

\* A note is dated, and the row of the credit too, once; both dates stay, and
\* what was not credited has no such row.
LEMMA CreditDatesNext ==
    ASSUME StoreInv, ColumnTypes, DatesInv, ReportsNext, NEW d \in Docs
    PROVE  /\ \A note \in Docs : CreditDated(d, note)'
           /\ invoice'[d].status # "CREDITED" => Never(d, "CREDIT_NOTE_ISSUED")'
<1> DEFINE t == "CREDIT_NOTE_ISSUED"
<1>1. /\ TypeOK /\ PairInv /\ RowsInv /\ [Next]_vars /\ StoreInv /\ t \in TransactionType
      /\ now \in 1 .. MaxNow /\ now \in Instants /\ now' \in 1 .. MaxNow /\ now <= now'
      /\ Rows(d, t) \in Nat /\ Sum(d, t) \in Int /\ invoice[d].gross \in Int
  <2>1. TypeOK /\ PairInv /\ RowsInv /\ [Next]_vars
    BY ReportsStep DEF StoreInv
  <2>2. now \in 1 .. MaxNow /\ now' \in 1 .. MaxNow /\ now <= now'
    BY <2>1, ClockStep, ColumnTypesNext, BoundsAssumption DEF ColumnTypes
  <2>3. QED
    BY <2>1, <2>2, Figures, BoundsAssumption DEF Instants, TransactionType
<1>2. /\ TypeOK' /\ PairInv' /\ RowsInv'
  BY StoreInvNext DEF StoreInv
<1>0. PICK createdAt \in 1 .. now : createdAt \in Instants /\ DatedAt(createdAt)
  BY <1>1, JournalStep
<1>3. ASSUME NEW note \in Docs, invoice'[note].credits = {d}
      PROVE  /\ invoice'[d].status = "CREDITED" /\ invoice'[d].gross = invoice[d].gross
             /\ \A m \in Docs : invoice'[m].credits = {d} => m = note
             /\ invoice'[note].status = "SENT" /\ Numbered(d)
  <2>1. invoice'[note].type = "CREDIT_NOTE"
    BY <1>2, <1>3 DEF PairInv
  <2>2. PICK e \in Docs : NoteOf(note, e)'
    BY <1>2, <2>1 DEF PairInv
  <2>3. e = d /\ invoice'[d].status = "CREDITED"
    BY <1>3, <2>2 DEF NoteOf
  <2>4. PICK n \in Docs : \A m \in Docs : invoice'[m].credits = {d} <=> m = n
    BY <1>2, <2>3 DEF PairInv
  <2>5. invoice'[note].status = "SENT"
    BY <1>2, <2>1 DEF RowsInv, NotesStaySent
  <2>6. Numbered(d)
    <3>1. SUFFICES ASSUME ~Numbered(d) PROVE FALSE
      OBVIOUS
    <3>2. invoice'[d].type = "INVOICE" /\ Numbered(d)'
      BY <2>2, <2>3 DEF NoteOf, Numbered
    <3>3. invoice[d].status # "CREDITED"
      BY <3>1 DEF Numbered
    <3>4. Rows(d, t)' = Rows(d, t) + 1 /\ Rows(d, t) = 0
      <4>1. Rows(d, t) = 0
        BY <1>1, <3>3 DEF RowsInv, LedgerRowsMatchStatus, RowsMatch, If
      <4>2. QED
        BY <1>1, <2>3, <3>3, <4>1, CreditStep
    <3>5. \E c \in Docs : Credits(c, d) \/ AloneSteps(d)
      BY <1>1, <3>1, <3>2, <3>4, StepEffect
         DEF StoreEffect, Same, Numbered, Credits, Closes, IsOpen, OpenStatuses, Rows
    <3>6. QED
      BY <2>3, <3>1, <3>5 DEF Credits, AloneSteps, Drafts, NewRow, Issues, Discards, Pays,
                              Charges, Stamps, Accrues, Moves, Closes, IsOpen, OpenStatuses,
                              Numbered
  <2>7. invoice'[d].gross = invoice[d].gross
    BY <1>1, <2>6, DocumentStays
  <2>8. QED
    BY <1>3, <2>3, <2>4, <2>5, <2>6, <2>7
<1>4. CASE /\ invoice[d].status # "CREDITED" /\ invoice'[d].status = "CREDITED"
           /\ Rows(d, t)' = Rows(d, t) + 1
           /\ Sum(d, t)' = Sum(d, t) - invoice[d].gross
           /\ invoice'[d].gross = invoice[d].gross
           /\ \E note \in Docs : /\ ~Numbered(note) /\ invoice'[note].status = "SENT"
                                 /\ invoice'[note].credits = {d}
  <2>1. ASSUME NEW note \in Docs, invoice'[note].credits = {d}
        PROVE  sentAt'[note] \in 1 .. now
    <3>1. ~Numbered(note) /\ invoice'[note].status = "SENT"
      BY <1>3, <1>4, <2>1
    <3>2. QED
      BY <3>1, SentStep DEF Numbered, Sends
  <2>2. ASSUME NEW at \in Instants
        PROVE  journal'[at][d][t] = IF at = createdAt THEN [rows |-> 1, sum |-> -invoice[d].gross]
                                                      ELSE NoEntry
    <3>1. journal[at][d][t] = NoEntry
      BY <1>4 DEF DatesInv, Never
    <3>2. CASE at # createdAt
      BY <1>0, <1>1, <3>1, <3>2 DEF DatedAt
    <3>3. CASE at = createdAt
      <4>1. journal'[at][d][t] =
              [rows |-> journal[at][d][t].rows + Rows(d, t)' - Rows(d, t),
               sum  |-> journal[at][d][t].sum + Sum(d, t)' - Sum(d, t)]
        BY <1>0, <1>1, <3>3 DEF DatedAt
      <4>2. journal[at][d][t].rows = 0 /\ journal[at][d][t].sum = 0
        BY <3>1 DEF NoEntry
      <4>3. /\ journal[at][d][t].rows + Rows(d, t)' - Rows(d, t) = 1
            /\ journal[at][d][t].sum + Sum(d, t)' - Sum(d, t) = -invoice[d].gross
        BY <1>1, <1>4, <4>2
      <4>4. QED
        BY <3>3, <4>1, <4>3
    <3>4. QED
      BY <3>2, <3>3
  <2>3. ASSUME NEW note \in Docs, invoice'[note].credits = {d}
        PROVE  Once(d, t, -invoice[d].gross)'
    <3>1. \A at \in Instants : journal'[at][d][t] =
              IF at = createdAt THEN [rows |-> 1, sum |-> -invoice'[d].gross] ELSE NoEntry
      BY <1>4, <2>2
    <3>2. createdAt \in 1 .. now'
      BY <1>0, <1>1
    <3>3. QED
      BY <3>1, <3>2 DEF Once, OnlyAt, Instants
  <2>4. QED
    BY <1>1, <1>4, <2>1, <2>3 DEF CreditDated
<1>5. CASE /\ invoice'[d].status = "CREDITED" <=> invoice[d].status = "CREDITED"
           /\ Rows(d, t)' = Rows(d, t)
  <2>1. \A at \in Instants : journal'[at][d][t] = journal[at][d][t]
    BY <1>0, <1>1, <1>5 DEF DatedAt
  <2>2. ASSUME NEW note \in Docs, invoice'[note].credits = {d}
        PROVE  /\ sentAt'[note] \in 1 .. now'
               /\ Once(d, t, -invoice[d].gross)'
    <3>1. /\ invoice[d].status = "CREDITED" /\ invoice'[d].gross = invoice[d].gross
          /\ \A m \in Docs : invoice'[m].credits = {d} => m = note
      BY <1>3, <1>5, <2>2
    <3>2. PICK m \in Docs : invoice[m].credits = {d}
      BY <1>1, <3>1 DEF PairInv
    <3>3. invoice[m].type = "CREDIT_NOTE" /\ invoice[m].status = "SENT" /\ Numbered(m)
      BY <1>1, <3>2 DEF PairInv, RowsInv, NotesStaySent, Numbered
    <3>4. m = note
      BY <1>1, <3>1, <3>2, <3>3, DocumentStays
    <3>5. sentAt'[note] = sentAt[note]
      BY <3>3, <3>4, SentStep DEF Sends
    <3>6. sentAt[note] \in 1 .. now /\ Once(d, t, -invoice[d].gross)
      BY <3>2, <3>4 DEF DatesInv, CreditDated
    <3>7. Once(d, t, -invoice[d].gross)'
      <4>1. PICK at \in 1 .. now : OnlyAt(d, t, at, -invoice[d].gross)
        BY <3>6 DEF Once
      <4>2. OnlyAt(d, t, at, -invoice[d].gross)' /\ at \in 1 .. now'
        BY <1>1, <2>1, <3>1, <4>1 DEF OnlyAt, Instants
      <4>3. QED
        BY <4>2 DEF Once
    <3>8. QED
      BY <1>1, <3>5, <3>6, <3>7
  <2>3. invoice'[d].status # "CREDITED" => Never(d, t)'
    BY <1>5, <2>1 DEF DatesInv, Never, Instants
  <2>4. QED
    BY <2>2, <2>3 DEF CreditDated
<1>6. QED
  BY <1>1, <1>4, <1>5, CreditStep

\* There are finitely many instants, invoices and types of a row.
LEMMA InstantsFinite == IsFiniteSet(Instants)
<1> DEFINE upTo(n) == 0 .. n
<1>1. \A n \in Nat : IsFiniteSet(upTo(n))
  BY FS_Interval
<1> HIDE DEF upTo
<1>2. IsFiniteSet(upTo(MaxNow))
  BY <1>1, BoundsAssumption
<1>3. QED
  BY <1>2 DEF upTo, Instants

\* A step adds to the dated rows what it adds to the ledger.
LEMMA JournalNext ==
    ASSUME StoreInv, ColumnTypes, JournalInv, ReportsNext
    PROVE  JournalInv'
<1>1. TypeOK /\ [Next]_vars
  BY ReportsStep DEF StoreInv
<1>0. PICK createdAt \in Instants : DatedAt(createdAt)
  BY <1>1, JournalStep
<1>2. SUFFICES ASSUME NEW d \in Docs, NEW t \in TransactionType
               PROVE  /\ SumFunctionOnSet(SumsAt(d, t)', Instants) = Sum(d, t)'
                      /\ \A at \in Instants :
                            journal'[at][d][t].rows = 0 => journal'[at][d][t].sum = 0
  BY DEF JournalInv, Instants
<1>3. /\ SumFunctionOnSet(SumsAt(d, t), Instants) = Sum(d, t)
      /\ \A at \in Instants : journal[at][d][t].rows = 0 => journal[at][d][t].sum = 0
  BY DEF JournalInv
<1>4. /\ Sum(d, t) \in Int /\ Sum(d, t)' \in Int
      /\ Rows(d, t) \in Nat /\ Rows(d, t)' \in Nat /\ Rows(d, t)' >= Rows(d, t)
  <2>1. TypeOK'
    BY <1>1, NextType
  <2>2. Sum(d, t)' \in Int /\ Rows(d, t)' \in Nat
    BY <2>1 DEF TypeOK, StoreTypeOK, Entry, Rows, Sum
  <2>3. QED
    BY <1>1, <2>2, Figures, LedgerGrows DEF Grows
<1>5. \A at \in Instants : /\ journal[at][d][t].sum \in Int /\ journal[at][d][t].rows \in Nat
                           /\ journal'[at][d][t].sum \in Int
  <2>1. ColumnTypes'
    BY <1>1, ColumnTypesNext
  <2>2. /\ journal \in [Instants -> Ledger] /\ journal' \in [Instants -> Ledger]
    BY <2>1 DEF ColumnTypes, Instants, Ledger, Entry
  <2>3. QED
    BY <2>2 DEF Ledger, Entry
<1>6. /\ journal'[createdAt][d][t].rows = journal[createdAt][d][t].rows + Rows(d, t)' - Rows(d, t)
      /\ journal'[createdAt][d][t].sum = journal[createdAt][d][t].sum + Sum(d, t)' - Sum(d, t)
  <2>1. journal'[createdAt][d][t] =
          [rows |-> journal[createdAt][d][t].rows + Rows(d, t)' - Rows(d, t),
           sum  |-> journal[createdAt][d][t].sum + Sum(d, t)' - Sum(d, t)]
    BY <1>0 DEF DatedAt
  <2>2. QED
    BY <2>1
<1>7. SumFunctionOnSet(SumsAt(d, t)', Instants) = Sum(d, t)'
  <2> DEFINE before == SumsAt(d, t)
             after  == [at \in Instants |-> journal'[at][d][t].sum]
  <2>1. after = SumsAt(d, t)'
    BY DEF SumsAt, Instants
  <2>2. /\ \A at \in Instants : before[at] \in Int /\ after[at] \in Int
        /\ \A at \in Instants \ {createdAt} : after[at] = before[at]
        /\ after[createdAt] = before[createdAt] + Sum(d, t)' - Sum(d, t)
    <3>1. \A at \in Instants : before[at] = journal[at][d][t].sum
                               /\ after[at] = journal'[at][d][t].sum
      BY DEF SumsAt
    <3>2. \A at \in Instants \ {createdAt} : journal'[at][d][t] = journal[at][d][t]
      BY <1>0 DEF DatedAt
    <3> HIDE DEF before, after
    <3>3. QED
      BY <1>0, <1>5, <1>6, <3>1, <3>2
  <2>3. SumFunctionOnSet(before, Instants) = Sum(d, t)
    BY <1>3
  <2> HIDE DEF before, after
  <2>4. SumFunctionOnSet(after, Instants)
          = SumFunctionOnSet(before, Instants) - before[createdAt] + after[createdAt]
    BY <1>0, <2>2, InstantsFinite, SumChanged
  <2>5. before[createdAt] \in Int /\ after[createdAt] \in Int
    BY <1>0, <2>2
  <2>6. SumFunctionOnSet(after, Instants) = Sum(d, t)'
    BY <1>4, <2>2, <2>3, <2>4, <2>5
  <2>7. QED
    BY <2>1, <2>6
<1>8. ASSUME NEW at \in Instants, journal'[at][d][t].rows = 0
      PROVE  journal'[at][d][t].sum = 0
  <2>1. CASE journal'[at][d][t] = journal[at][d][t]
    BY <1>3, <1>8, <2>1
  <2>2. CASE journal'[at][d][t] # journal[at][d][t]
    <3>1. at = createdAt /\ Rows(d, t)' # Rows(d, t)
      BY <1>0, <2>2 DEF DatedAt
    <3>2. journal'[at][d][t].rows
            = journal[at][d][t].rows + Rows(d, t)' - Rows(d, t)
      BY <1>6, <3>1
    <3>3. journal[at][d][t].rows \in Nat
      BY <1>5
    <3>4. \A m, n, k \in Nat : n >= m /\ n # m => k + n - m # 0
      OBVIOUS
    <3>5. journal[at][d][t].rows + Rows(d, t)' - Rows(d, t) # 0
      BY <1>4, <3>1, <3>3, <3>4
    <3>6. QED
      BY <1>8, <3>2, <3>5
  <2>3. QED
    BY <2>1, <2>2
<1>9. QED
  BY <1>7, <1>8

\* At first there are no documents, no lines and no rows of any instant.
LEMMA ColumnsInit == ReportsInit => ReportsInv
<1> SUFFICES ASSUME ReportsInit PROVE ReportsInv
  OBVIOUS
<1>1. /\ \A d \in Docs : invoice[d] = NoRow /\ items[d] = <<>> /\ sentAt[d] = 0
      /\ \A d \in Docs, t \in TransactionType : ledger[d][t] = NoEntry
      /\ \A at \in Instants, d \in Docs, t \in TransactionType :
            journal[at][d][t] = NoEntry
  BY DEF ReportsInit, Init, StoreInit, NoEntries, NoEntry, Instants
<1>2. ColumnTypes
  <2>1. now \in 1 .. MaxNow
    BY BoundsAssumption, ReportsAssumption DEF ReportsInit, Init
  <2>2. LineList(<<>>)
    <3>1. DOMAIN <<>> = {}
      OBVIOUS
    <3>2. IsFiniteSet({})
      BY FS_EmptySet
    <3>3. QED
      BY <3>1, <3>2 DEF LineList
  <2>3. NoEntries \in Ledger
    BY DEF NoEntries, Ledger, Entry
  <2>4. QED
    BY <1>1, <2>1, <2>2, <2>3 DEF ColumnTypes, ClocksRead, DatingSteps, IdleRequest, ReportsInit, Init,
                               Instants
<1>3. ItemsInv
  BY <1>1 DEF ItemsInv, NoRow, Numbered
<1>4. DatesInv
  BY <1>1 DEF DatesInv, IssueDated, CreditDated, Never, Issued, NoRow, TransactionType
<1>5. JournalInv
  <2>1. ASSUME NEW d \in Docs, NEW t \in TransactionType
        PROVE  SumFunctionOnSet(SumsAt(d, t), Instants) = Sum(d, t)
    <3>1. \A at \in Instants : SumsAt(d, t)[at] = 0
      BY <1>1 DEF SumsAt, NoEntry
    <3>2. SumFunctionOnSet(SumsAt(d, t), Instants) = 0
      BY <3>1, InstantsFinite, SumZero
    <3>3. Sum(d, t) = 0
      BY <1>1 DEF Sum, NoEntry
    <3>4. QED
      BY <3>2, <3>3
  <2>2. QED
    BY <1>1, <2>1 DEF JournalInv, NoEntry
<1>6. QED
  BY <1>2, <1>3, <1>4, <1>5 DEF ReportsInv

\* All of it is inductive.
LEMMA ReportsInvNext ==
    ASSUME StoreInv, ReportsInv, [ReportsNext]_reportVars
    PROVE  StoreInv' /\ ReportsInv'
<1>1. StoreInv'
  BY StoreInvNext
<1>2. CASE ReportsNext
  <2>1. ColumnTypes' /\ ItemsInv' /\ JournalInv'
    BY <1>2, ColumnTypesNext, ItemsNext, JournalNext DEF ReportsInv, StoreInv
  <2>2. DatesInv'
    <3>1. StoreInv /\ ColumnTypes /\ DatesInv
      BY DEF ReportsInv
    <3>2. \A d \in Docs : IssueDated(d)'
      BY <1>2, <3>1, IssueDatesNext
    <3>3. \A d \in Docs : /\ \A note \in Docs : CreditDated(d, note)'
                          /\ invoice'[d].status # "CREDITED" =>
                                Never(d, "CREDIT_NOTE_ISSUED")'
      BY <1>2, <3>1, CreditDatesNext
    <3>4. QED
      BY <3>2, <3>3 DEF DatesInv
  <2>3. QED
    BY <1>1, <2>1, <2>2 DEF ReportsInv
<1>3. CASE UNCHANGED reportVars
  <2>1. /\ UNCHANGED <<invoice, ledger, now, req, items, sentAt, journal, clock>>
    BY <1>3 DEF reportVars, vars, storeVars, serviceVars
  <2>2. ColumnTypes' /\ ItemsInv'
    BY <2>1 DEF ReportsInv, ColumnTypes, ClocksRead, ItemsInv, Numbered
  <2>3. DatesInv'
    BY <2>1 DEF ReportsInv, DatesInv, IssueDated, CreditDated, Issued, Once, OnlyAt, Never
  <2>4. JournalInv'
    BY <2>1 DEF ReportsInv, JournalInv, SumsAt, Sum
  <2>5. QED
    BY <1>1, <2>2, <2>3, <2>4 DEF ReportsInv
<1>4. QED
  BY <1>2, <1>3

\* What a report reads belongs together, whatever handlers, deliveries,
\* failures and runs interleave: lines and totals, a document and the one row
\* of its issue or credit, the dated rows and the ledger.  A document and its
\* row each have a date of their own.
THEOREM TablesAgree == ReportsSpec => [](StoreInv /\ ReportsInv)
<1>1. ReportsInit => StoreInv /\ ReportsInv
  BY ColumnsInit, InitType, RowsInit, BookInit, PairInit DEF ReportsInit, StoreInv
<1>2. QED
  BY <1>1, ReportsInvNext, PTL DEF ReportsSpec

-----------------------------------------------------------------------------
(* Rows and accounts are finitely many                                     *)

RowsOf(docs) == Instants \X docs \X TransactionType

\* There are finitely many types of a row.
LEMMA TypesFinite == IsFiniteSet(TransactionType)
<1> DEFINE three == {"INVOICE_CREATED", "PAYMENT_RECEIVED", "LATE_FEE_ADDED"}
           five  == three \cup {"REMINDER_FEE_ADDED"} \cup {"CREDIT_NOTE_ISSUED"}
<1>1. \A S, x : IsFiniteSet(S) => IsFiniteSet(S \cup {x})
  BY FS_AddElement
<1>2. IsFiniteSet({"INVOICE_CREATED"})
  BY FS_Singleton
<1>3. IsFiniteSet({"INVOICE_CREATED"} \cup {"PAYMENT_RECEIVED"} \cup {"LATE_FEE_ADDED"})
  BY <1>1, <1>2
<1>4. IsFiniteSet(three)
  <2>1. three = {"INVOICE_CREATED"} \cup {"PAYMENT_RECEIVED"} \cup {"LATE_FEE_ADDED"}
    OBVIOUS
  <2> HIDE DEF three
  <2>2. QED
    BY <1>3, <2>1
<1> HIDE DEF three
<1>5. IsFiniteSet(five \cup {"LATE_FEE_WAIVED"} \cup {"REMINDER_FEE_WAIVED"})
  BY <1>1, <1>4
<1>6. TransactionType = five \cup {"LATE_FEE_WAIVED"} \cup {"REMINDER_FEE_WAIVED"}
  BY DEF three, TransactionType
<1>7. QED
  BY <1>5, <1>6

\* There are finitely many rows.
LEMMA RowsFinite ==
    ASSUME NEW docs \in SUBSET Docs
    PROVE  IsFiniteSet(RowsOf(docs))
<1> DEFINE pairs == Instants \X docs
           flat  == pairs \X TransactionType
           f     == [row \in RowsOf(docs) |-> <<<<row[1], row[2]>>, row[3]>>]
<1>1. IsFiniteSet(docs)
  BY ReportsAssumption, FS_Subset
<1>2. IsFiniteSet(pairs)
  BY <1>1, InstantsFinite, FS_Product
<1>3. IsFiniteSet(flat)
  BY <1>2, TypesFinite, FS_Product
<1>4. f \in Injection(RowsOf(docs), flat)
  BY DEF RowsOf, Injection, IsInjective
<1>5. QED
  BY <1>3, <1>4, FS_Injection

\* There are finitely many accounts.
LEMMA AccountsFinite == IsFiniteSet(Account)
<1> DEFINE own   == {"receivables", "bank", "interest", "fees"}
           ofVat == VatRates \ {0}
<1>1. IsFiniteSet(own)
  <2>1. \A S, x : IsFiniteSet(S) => IsFiniteSet(S \cup {x})
    BY FS_AddElement
  <2>2. IsFiniteSet({"receivables"})
    BY FS_Singleton
  <2>3. IsFiniteSet({"receivables"} \cup {"bank"} \cup {"interest"} \cup {"fees"})
    BY <2>1, <2>2
  <2>4. own = {"receivables"} \cup {"bank"} \cup {"interest"} \cup {"fees"}
    OBVIOUS
  <2> HIDE DEF own
  <2>5. QED
    BY <2>3, <2>4
<1>2. IsFiniteSet(ofVat)
  BY RatesFinite, FS_Subset
<1>3. IsFiniteSet({"sales"}) /\ IsFiniteSet({"vat"}) /\ IsFiniteSet({0})
  BY FS_Singleton
<1> HIDE DEF own, ofVat
<1>4. /\ IsFiniteSet(own \X {0})
      /\ IsFiniteSet({"sales"} \X VatRates)
      /\ IsFiniteSet({"vat"} \X ofVat)
  BY <1>1, <1>2, <1>3, RatesFinite, FS_Product
<1>5. IsFiniteSet(((own \X {0}) \cup ({"sales"} \X VatRates)) \cup ({"vat"} \X ofVat))
  BY <1>4, FS_Union
<1>6. QED
  BY <1>5 DEF own, ofVat, Account

-----------------------------------------------------------------------------
(* The SIE file: every verification balances                               *)

OwnAccounts == {"receivables", "bank", "interest", "fees"}

\* Which accounts there are.
LEMMA Accounts ==
    /\ \A name \in OwnAccounts : <<name, 0>> \in Account
    /\ \A rate \in VatRates : <<"sales", rate>> \in Account
    /\ \A rate \in VatRates \ {0} : <<"vat", rate>> \in Account
    /\ \A a \in Account : \/ \E name \in OwnAccounts : a = <<name, 0>>
                          \/ \E rate \in VatRates : a = <<"sales", rate>>
                          \/ \E rate \in VatRates \ {0} : a = <<"vat", rate>>
<1>1. OwnAccounts \X {0} \subseteq Account
  BY DEF Account, OwnAccounts
<1>2. {"sales"} \X VatRates \subseteq Account
  BY DEF Account
<1>3. {"vat"} \X (VatRates \ {0}) \subseteq Account
  BY DEF Account
<1>4. \A a \in Account : \/ a \in OwnAccounts \X {0}
                         \/ a \in {"sales"} \X VatRates
                         \/ a \in {"vat"} \X (VatRates \ {0})
  BY DEF Account, OwnAccounts
<1>5. QED
  BY <1>1, <1>2, <1>3, <1>4

\* What is moved from one account to another balances.
LEMMA TransferBalances ==
    ASSUME NEW from \in OwnAccounts, NEW to \in OwnAccounts, from # to,
           NEW amount \in Int
    PROVE  Balances(Transfer(from, to, amount))
<1> DEFINE v == Transfer(from, to, amount)
           taken == <<to, 0>>
           given == <<from, 0>>
           rest == Account \ {taken}
<1>1. /\ taken \in Account /\ given \in Account /\ given # taken
      /\ taken[1] = to /\ given[1] = from
  BY Accounts
<1>2. \A a \in Account : v[a] = IF a[1] = to THEN amount
                                ELSE IF a[1] = from THEN -amount ELSE 0
  BY DEF Transfer
<1>3. DOMAIN v = Account
  BY DEF Transfer
<1>4. \A a \in Account : /\ a[1] = to => a = taken
                         /\ a[1] = from => a = given
  BY Accounts DEF OwnAccounts
<1> HIDE DEF v, taken, given
<1>5. /\ v[taken] = amount /\ v[given] = -amount
      /\ \A a \in rest \ {given} : v[a] = 0
  BY <1>1, <1>2, <1>4
<1>6. \A a \in Account : v[a] \in Int
  BY <1>2
<1>7. IsFiniteSet(Account) /\ IsFiniteSet(rest) /\ IsFiniteSet(rest \ {given})
  BY AccountsFinite, FS_Subset
<1>8. SumFunctionOnSet(v, Account) = v[taken] + SumFunctionOnSet(v, rest)
  BY <1>1, <1>6, <1>7, SumTakeOut
<1>9. SumFunctionOnSet(v, rest) = v[given] + SumFunctionOnSet(v, rest \ {given})
  BY <1>1, <1>6, <1>7, SumTakeOut
<1>10. SumFunctionOnSet(v, rest \ {given}) = 0
  BY <1>5, <1>7, SumZero
<1>11. SumFunctionOnSet(v, Account) = 0
  BY <1>5, <1>8, <1>9, <1>10
<1>12. QED
  BY <1>3, <1>11 DEF Balances, SumFunction, v

\* An amount booked on one account of its own, net and VAT by rate on theirs.
LEMMA AccountsAddUp ==
    ASSUME NEW v, \A a \in Account : v[a] \in Int,
           v[<<"bank", 0>>] = 0, v[<<"interest", 0>>] = 0, v[<<"fees", 0>>] = 0,
           NEW net, NEW vat, vat[0] = 0,
           \A rate \in VatRates : net[rate] = v[<<"sales", rate>>],
           \A rate \in VatRates \ {0} : vat[rate] = v[<<"vat", rate>>]
    PROVE  SumFunctionOnSet(v, Account) =
                v[<<"receivables", 0>>] + SumFunctionOnSet(net, VatRates)
                                        + SumFunctionOnSet(vat, VatRates)
<1> DEFINE ofSales == {"sales"} \X VatRates
           ofVat  == {"vat"} \X (VatRates \ {0})
           own   == <<"receivables", 0>>
           rest  == (Account \ ofSales) \ ofVat
<1>1. /\ ofSales \in SUBSET Account
      /\ ofVat \in SUBSET (Account \ ofSales)
      /\ own \in rest
  BY Accounts DEF OwnAccounts
<1>2. \A a \in rest \ {own} : v[a] = 0
  BY Accounts DEF OwnAccounts
<1>3. \A rate \in VatRates : net[rate] \in Int /\ vat[rate] \in Int
  <2>1. /\ \A rate \in VatRates : v[<<"sales", rate>>] \in Int
        /\ \A rate \in VatRates \ {0} : v[<<"vat", rate>>] \in Int
    BY Accounts
  <2>2. 0 \in Int
    OBVIOUS
  <2>3. QED
    BY <2>1, <2>2
<1>4. IsFiniteSet(VatRates) /\ IsFiniteSet(VatRates \ {0}) /\ 0 \in VatRates
  <2>1. 0 \in VatRates
    BY DEF VatRates
  <2>2. QED
    BY <2>1, RatesFinite, FS_Subset
<1>5. SumFunctionOnSet(v, ofSales) = SumFunctionOnSet(net, VatRates)
  <2> DEFINE R == VatRates
             h == [rate \in R |-> <<"sales", rate>>]
  <2>1. \A rate \in R : h[rate] = <<"sales", rate>>
    OBVIOUS
  <2>2. /\ \A rate \in R : <<"sales", rate>> \in ofSales
        /\ \A a \in ofSales : \E rate \in R : <<"sales", rate>> = a
    OBVIOUS
  <2>3. \A rate \in R : net[rate] = v[<<"sales", rate>>]
    OBVIOUS
  <2>4. \A rate \in R : net[rate] \in Int
    BY <1>3
  <2>5. IsFiniteSet(R) /\ IsFiniteSet(ofSales)
    BY <1>4, FS_Singleton, FS_Product
  <2> HIDE DEF ofSales, ofVat, own, R, h
  <2>6. \A rate \in R : h[rate] \in ofSales /\ v[h[rate]] = net[rate]
    BY <2>1, <2>2, <2>3
  <2>7. \A q, r \in R : h[q] = h[r] => q = r
    BY <2>1
  <2>8. \A a \in ofSales : \E rate \in R : h[rate] = a
    BY <2>1, <2>2
  <2>9. SumFunctionOnSet(net, R) = SumFunctionOnSet(v, ofSales)
    BY <2>4, <2>5, <2>6, <2>7, <2>8, SumMoved
  <2>10. QED
    BY <2>9 DEF R
<1>6. SumFunctionOnSet(v, ofVat) = SumFunctionOnSet(vat, VatRates \ {0})
  <2> DEFINE R == VatRates \ {0}
             h == [rate \in R |-> <<"vat", rate>>]
  <2>1. \A rate \in R : h[rate] = <<"vat", rate>>
    OBVIOUS
  <2>2. /\ \A rate \in R : <<"vat", rate>> \in ofVat
        /\ \A a \in ofVat : \E rate \in R : <<"vat", rate>> = a
    OBVIOUS
  <2>3. \A rate \in R : vat[rate] = v[<<"vat", rate>>]
    OBVIOUS
  <2>4. \A rate \in R : vat[rate] \in Int
    BY <1>3
  <2>5. IsFiniteSet(R) /\ IsFiniteSet(ofVat)
    BY <1>4, FS_Singleton, FS_Product
  <2> HIDE DEF ofSales, ofVat, own, R, h
  <2>6. \A rate \in R : h[rate] \in ofVat /\ v[h[rate]] = vat[rate]
    BY <2>1, <2>2, <2>3
  <2>7. \A q, r \in R : h[q] = h[r] => q = r
    BY <2>1
  <2>8. \A a \in ofVat : \E rate \in R : h[rate] = a
    BY <2>1, <2>2
  <2>9. SumFunctionOnSet(vat, R) = SumFunctionOnSet(v, ofVat)
    BY <2>4, <2>5, <2>6, <2>7, <2>8, SumMoved
  <2>10. QED
    BY <2>9 DEF R
<1>7. SumFunctionOnSet(vat, VatRates) = vat[0] + SumFunctionOnSet(vat, VatRates \ {0})
  <2>1. \A rate \in VatRates : vat[rate] \in Int
    BY <1>3
  <2>2. QED
    BY <1>4, <2>1, SumTakeOut
<1>8. SumFunctionOnSet(vat, VatRates \ {0}) \in Int
  BY <1>3, <1>4, SumType
<1> HIDE DEF ofSales, ofVat, own
<1>9. IsFiniteSet(Account) /\ IsFiniteSet(Account \ ofSales) /\ IsFiniteSet(rest)
      /\ IsFiniteSet(rest \ {own})
  BY AccountsFinite, FS_Subset
<1>10. SumFunctionOnSet(v, Account)
         = SumFunctionOnSet(v, ofSales) + SumFunctionOnSet(v, Account \ ofSales)
  BY <1>1, <1>9, SumSplit
<1>11. SumFunctionOnSet(v, Account \ ofSales)
         = SumFunctionOnSet(v, ofVat) + SumFunctionOnSet(v, rest)
  <2>1. \A a \in Account \ ofSales : v[a] \in Int
    OBVIOUS
  <2>2. QED
    BY <1>1, <1>9, <2>1, SumSplit
<1>12. SumFunctionOnSet(v, rest) = v[own] + SumFunctionOnSet(v, rest \ {own})
  <2>1. \A a \in rest : v[a] \in Int
    OBVIOUS
  <2>2. QED
    BY <1>1, <1>9, <2>1, SumTakeOut
<1>13. SumFunctionOnSet(v, rest \ {own}) = 0
  BY <1>2, <1>9, SumZero
<1>14. v[own] \in Int
  BY <1>1
<1>15. SumFunctionOnSet(net, VatRates) \in Int
  BY <1>3, <1>4, SumType
<1>16. SumFunctionOnSet(v, Account)
         = v[own] + SumFunctionOnSet(net, VatRates) + SumFunctionOnSet(vat, VatRates)
  BY <1>5, <1>6, <1>7, <1>8, <1>10, <1>11, <1>12, <1>13, <1>14, <1>15
<1>17. QED
  BY <1>16 DEF own

\* A sum takes the sign of its terms.
LEMMA SumSigned ==
    ASSUME NEW f, NEW g, NEW S, IsFiniteSet(S), NEW sign \in {1, -1},
           \A x \in S : f[x] \in Int, \A x \in S : g[x] = -sign * f[x]
    PROVE  SumFunctionOnSet(g, S) = -sign * SumFunctionOnSet(f, S)
<1>1. SumFunctionOnSet(f, S) \in Int
  BY SumType
<1>2. CASE sign = 1
  <2>1. \A x \in S : f[x] \in Int /\ g[x] = -f[x]
    BY <1>2
  <2>2. SumFunctionOnSet(g, S) = -SumFunctionOnSet(f, S)
    BY <2>1, SumNegated
  <2>3. QED
    BY <1>1, <1>2, <2>2
<1>3. CASE sign = -1
  <2>1. \A x \in S : f[x] \in Int /\ f[x] = g[x]
    BY <1>3
  <2>2. SumFunctionOnSet(f, S) = SumFunctionOnSet(g, S)
    BY <2>1, SumSame
  <2>3. QED
    BY <1>1, <1>3, <2>2
<1>4. QED
  BY <1>2, <1>3

\* What a document's lines come to at a rate.
NetOf(d) == [rate \in VatRates |-> LinesAt(d, rate).netTotalOre]
VatOf(d) == [rate \in VatRates |-> LinesAt(d, rate).vatTotalOre]

\* The rates of a document's lines add up to its total.
LEMMA DocumentAddsUp ==
    ASSUME NEW d \in Docs, LineList(items[d])
    PROVE  /\ SumFunctionOnSet(NetOf(d), VatRates) + SumFunctionOnSet(VatOf(d), VatRates)
                = GrossOf(items[d])
           /\ \A rate \in VatRates : /\ NetOf(d)[rate] \in Int
                                     /\ VatOf(d)[rate] \in Int
           /\ VatOf(d)[0] = 0
           /\ SumFunctionOnSet(NetOf(d), VatRates) \in Int
           /\ SumFunctionOnSet(VatOf(d), VatRates) \in Int
<1> DEFINE lines == items[d]
           net == [rate \in VatRates |-> RateTotals(lines, rate).netTotalOre]
           vat == [rate \in VatRates |-> RateTotals(lines, rate).vatTotalOre]
<1>1. NetOf(d) = net /\ VatOf(d) = vat
  BY DEF NetOf, VatOf, LinesAt, RateTotals, TotalsOf, AtRate
<1>2. /\ SumFunctionOnSet(net, VatRates) = TotalsOf(lines).netTotalOre
      /\ SumFunctionOnSet(vat, VatRates) = TotalsOf(lines).vatTotalOre
      /\ \A rate \in VatRates : net[rate] \in Int /\ vat[rate] \in Int
      /\ vat[0] = 0
  BY RatesAddUp
<1>3. GrossOf(lines) = TotalsOf(lines).grossTotalOre
  BY DEF GrossOf, TotalsOf
<1>4. /\ TotalsOf(lines).grossTotalOre =
            TotalsOf(lines).netTotalOre + TotalsOf(lines).vatTotalOre
      /\ TotalsOf(lines).netTotalOre \in Int /\ TotalsOf(lines).vatTotalOre \in Int
  BY TotalsAreSums
<1> HIDE DEF net, vat, lines
<1>5. QED
  BY <1>1, <1>2, <1>3, <1>4 DEF lines

\* The lines of a document, split by rate, balance its total.
LEMMA SplitBalances ==
    ASSUME NEW d \in Docs, LineList(items[d]),
           NEW type \in {"INVOICE_CREATED", "CREDIT_NOTE_ISSUED"},
           NEW amount, amount = SignOf(type) * GrossOf(items[d])
    PROVE  Balances(Verification(d, type, amount))
<1> DEFINE sign == SignOf(type)
           v    == Verification(d, type, amount)
           net  == [rate \in VatRates |-> -sign * NetOf(d)[rate]]
           vat  == [rate \in VatRates |-> -sign * VatOf(d)[rate]]
           nets == SumFunctionOnSet(NetOf(d), VatRates)
           vats == SumFunctionOnSet(VatOf(d), VatRates)
<1>1. sign \in {1, -1}
  BY DEF SignOf
<1>2. /\ \A rate \in VatRates : NetOf(d)[rate] \in Int /\ VatOf(d)[rate] \in Int
      /\ VatOf(d)[0] = 0
      /\ nets + vats = GrossOf(items[d]) /\ nets \in Int /\ vats \in Int
  BY DocumentAddsUp
<1>3. /\ \A a \in Account : v[a] =
            IF a = <<"receivables", 0>> THEN amount
            ELSE IF a[1] = "sales" THEN -sign * NetOf(d)[a[2]]
            ELSE IF a[1] = "vat" THEN -sign * VatOf(d)[a[2]] ELSE 0
      /\ DOMAIN v = Account
  <2>1. v = [Split(d, sign) EXCEPT ![<<"receivables", 0>>] = amount]
    BY DEF Verification
  <2>2. ASSUME NEW a \in Account
        PROVE  Split(d, sign)[a] =
                IF a[1] = "sales" THEN -sign * NetOf(d)[a[2]]
                ELSE IF a[1] = "vat" THEN -sign * VatOf(d)[a[2]] ELSE 0
    <3>1. a[1] = "sales" \/ a[1] = "vat" => a[2] \in VatRates
      BY Accounts DEF OwnAccounts
    <3>2. a[1] = "sales" => NetOf(d)[a[2]] = LinesAt(d, a[2]).netTotalOre
      BY <3>1 DEF NetOf
    <3>3. a[1] = "vat" => VatOf(d)[a[2]] = LinesAt(d, a[2]).vatTotalOre
      BY <3>1 DEF VatOf
    <3> HIDE DEF sign
    <3>4. QED
      BY <3>2, <3>3 DEF Split
  <2>3. DOMAIN Split(d, sign) = Account
    BY DEF Split
  <2>4. <<"receivables", 0>> \in Account
    BY Accounts DEF OwnAccounts
  <2> HIDE DEF sign, v
  <2>5. QED
    BY <2>1, <2>2, <2>3, <2>4
<1>4. amount \in Int
  BY <1>1, <1>2
<1> HIDE DEF sign, v
<1>5. /\ v[<<"receivables", 0>>] = amount
      /\ v[<<"bank", 0>>] = 0 /\ v[<<"interest", 0>>] = 0 /\ v[<<"fees", 0>>] = 0
  BY <1>3, Accounts DEF OwnAccounts
<1>6. /\ \A rate \in VatRates : net[rate] = v[<<"sales", rate>>]
      /\ \A rate \in VatRates \ {0} : vat[rate] = v[<<"vat", rate>>]
  BY <1>3, Accounts
<1>7. vat[0] = 0
  BY <1>1, <1>2 DEF VatRates
<1>8. \A a \in Account : v[a] \in Int
  <2>1. \A rate \in VatRates : -sign * NetOf(d)[rate] \in Int /\ -sign * VatOf(d)[rate] \in Int
    BY <1>1, <1>2
  <2>2. \A a \in Account : a[1] = "sales" \/ a[1] = "vat" => a[2] \in VatRates
    BY Accounts DEF OwnAccounts
  <2>3. QED
    BY <1>3, <1>4, <2>1, <2>2
<1>9. /\ \A rate \in VatRates : net[rate] = -sign * NetOf(d)[rate]
      /\ \A rate \in VatRates : vat[rate] = -sign * VatOf(d)[rate]
  OBVIOUS
<1> HIDE DEF net, vat
<1>10. SumFunctionOnSet(v, Account) = amount + SumFunctionOnSet(net, VatRates)
                                             + SumFunctionOnSet(vat, VatRates)
  BY <1>5, <1>6, <1>7, <1>8, AccountsAddUp
<1>11. /\ SumFunctionOnSet(net, VatRates) = -sign * nets
       /\ SumFunctionOnSet(vat, VatRates) = -sign * vats
  BY <1>1, <1>2, <1>9, RatesFinite, SumSigned
<1> HIDE DEF nets, vats
<1>12. amount = sign * (nets + vats)
  BY <1>2 DEF sign
<1>13. SumFunctionOnSet(v, Account) = 0
  BY <1>1, <1>2, <1>10, <1>11, <1>12
<1>14. SumFunctionOnSet(v, DOMAIN v) = 0
  BY <1>3, <1>13
<1>15. QED
  BY <1>14 DEF Balances, SumFunction, v

\* The row of an issue carries the total that the invoice's lines make.
LEMMA IssueRow ==
    ASSUME StoreInv, ReportsInv, NEW at \in Instants, NEW d \in Docs,
           journal[at][d]["INVOICE_CREATED"].rows > 0
    PROVE  /\ Issued(d)
           /\ \A in \in Instants : journal[in][d]["INVOICE_CREATED"].rows > 0 => in = at
           /\ journal[at][d]["INVOICE_CREATED"].sum = GrossOf(items[d])
<1>1. IssueDated(d)
  BY DEF ReportsInv, DatesInv
<1>2. Issued(d)
  BY <1>1 DEF IssueDated, Never, NoEntry
<1>3. /\ \A in \in Instants : journal[in][d]["INVOICE_CREATED"].rows > 0 => in = at
      /\ journal[at][d]["INVOICE_CREATED"].sum = invoice[d].gross
  <2>1. PICK only \in 1 .. now : OnlyAt(d, "INVOICE_CREATED", only, invoice[d].gross)
    BY <1>1, <1>2 DEF IssueDated, Once
  <2>2. QED
    BY <2>1 DEF OnlyAt, NoEntry
<1>4. GrossOf(items[d]) = invoice[d].gross
  BY <1>2 DEF Issued, Numbered, ReportsInv, ItemsInv
<1>5. QED
  BY <1>2, <1>3, <1>4

\* What a note credits is an invoice that was issued and is CREDITED, and the
\* note is the only one of it.
LEMMA NoteCredits ==
    ASSUME StoreInv, NEW note \in Docs, NEW d \in Docs, invoice[note].credits = {d}
    PROVE  /\ NoteOf(note, d)
           /\ invoice[note].type = "CREDIT_NOTE" /\ invoice[note].status = "SENT"
           /\ \A n \in Docs : invoice[n].credits = {d} => n = note
<1>1. invoice[note].type = "CREDIT_NOTE"
  BY DEF StoreInv, PairInv
<1>2. invoice[note].status = "SENT"
  BY <1>1 DEF StoreInv, RowsInv, NotesStaySent
<1>3. NoteOf(note, d)
  <2>1. PICK e \in Docs : NoteOf(note, e)
    BY <1>1 DEF StoreInv, PairInv
  <2>2. e = d
    BY <2>1 DEF NoteOf
  <2>3. QED
    BY <2>1, <2>2
<1>4. PICK only \in Docs : \A n \in Docs : invoice[n].credits = {d} <=> n = only
  BY <1>3 DEF NoteOf, StoreInv, PairInv
<1>5. QED
  BY <1>1, <1>2, <1>3, <1>4

\* The row of a credit is of an invoice that a note credits, is the only one,
\* and carries the opposite of that total.
LEMMA CreditRow ==
    ASSUME StoreInv, ReportsInv, NEW at \in Instants, NEW d \in Docs,
           journal[at][d]["CREDIT_NOTE_ISSUED"].rows > 0
    PROVE  /\ \E note \in Docs : invoice[note].credits = {d}
           /\ \A in \in Instants : journal[in][d]["CREDIT_NOTE_ISSUED"].rows > 0 => in = at
           /\ journal[at][d]["CREDIT_NOTE_ISSUED"].sum = -GrossOf(items[d])
<1>1. invoice[d].status = "CREDITED"
  BY DEF ReportsInv, DatesInv, Never, NoEntry
<1>2. PICK note \in Docs : invoice[note].credits = {d}
  BY <1>1 DEF StoreInv, PairInv
<1>3. PICK only \in 1 .. now : OnlyAt(d, "CREDIT_NOTE_ISSUED", only, -invoice[d].gross)
  BY <1>2 DEF ReportsInv, DatesInv, CreditDated, Once
<1>4. /\ \A in \in Instants : journal[in][d]["CREDIT_NOTE_ISSUED"].rows > 0 => in = at
      /\ journal[at][d]["CREDIT_NOTE_ISSUED"].sum = -invoice[d].gross
  BY <1>3 DEF OnlyAt, NoEntry
<1>5. GrossOf(items[d]) = invoice[d].gross
  BY <1>1, <1>2, NoteCredits DEF NoteOf, Numbered, ReportsInv, ItemsInv
<1>6. QED
  BY <1>2, <1>4, <1>5

\* A row is of an instant, a document and a type.
LEMMA RowParts ==
    ASSUME NEW row \in RowsOf(Docs)
    PROVE  /\ row[1] \in Instants /\ row[2] \in Docs /\ row[3] \in TransactionType
           /\ row = <<row[1], row[2], row[3]>>
           /\ EntryOf(row) = journal[row[1]][row[2]][row[3]]
BY DEF RowsOf, EntryOf

\* Rows that are selected for a period are rows.
LEMMA RowsSelected ==
    ASSUME NEW from, NEW to
    PROVE  /\ RowsBetween(from, to) \subseteq RowsOf(Docs)
           /\ \A row \in RowsOf(Docs) : row \in RowsBetween(from, to) <=>
                row[1] >= from /\ row[1] < to /\ EntryOf(row).rows > 0
BY DEF RowsBetween, RowsOf, Instants

\* The amounts of the rows are integers.
LEMMA EntryType ==
    ASSUME ColumnTypes, NEW row \in RowsOf(Docs)
    PROVE  EntryOf(row).sum \in Int /\ EntryOf(row).rows \in Nat
<1>1. /\ row[1] \in Instants /\ row[2] \in Docs /\ row[3] \in TransactionType
      /\ EntryOf(row) = journal[row[1]][row[2]][row[3]]
  BY RowParts
<1>2. journal[row[1]] \in Ledger
  BY <1>1 DEF ColumnTypes
<1>3. journal[row[1]][row[2]][row[3]] \in Entry
  BY <1>1, <1>2 DEF Ledger
<1>4. QED
  BY <1>1, <1>3 DEF Entry

\* Every row there is makes a verification that balances.
LEMMA RowBalances ==
    ASSUME StoreInv, ReportsInv, NEW row \in RowsOf(Docs), EntryOf(row).rows > 0
    PROVE  Balances(VerificationOf(row))
<1> DEFINE d == row[2]
           t == row[3]
           amount == EntryOf(row).sum
<1>1. /\ row[1] \in Instants /\ d \in Docs /\ t \in TransactionType
      /\ EntryOf(row) = journal[row[1]][d][t]
  BY RowParts
<1>2. amount \in Int
  BY EntryType DEF ReportsInv
<1>3. VerificationOf(row) = Verification(d, t, amount)
  BY DEF VerificationOf
<1>4. CASE t \in {"INVOICE_CREATED", "CREDIT_NOTE_ISSUED"}
  <2>1. LineList(items[d])
    BY <1>1 DEF ReportsInv, ColumnTypes
  <2>2. GrossOf(items[d]) \in Int
    BY <1>1, <2>1, DocumentAddsUp
  <2>3. amount = SignOf(t) * GrossOf(items[d])
    <3>1. CASE t = "INVOICE_CREATED"
      BY <1>1, <2>2, <3>1, IssueRow DEF SignOf
    <3>2. CASE t = "CREDIT_NOTE_ISSUED"
      BY <1>1, <2>2, <3>2, CreditRow DEF SignOf
    <3>3. QED
      BY <1>4, <3>1, <3>2
  <2> HIDE DEF d, t, amount
  <2>4. Balances(Verification(d, t, amount))
    BY <1>1, <1>4, <2>1, <2>3, SplitBalances
  <2>5. QED
    BY <1>3, <2>4
<1>5. ASSUME NEW from \in OwnAccounts, NEW to \in OwnAccounts, from # to,
             Verification(d, t, amount) = Transfer(from, to, amount)
      PROVE  Balances(VerificationOf(row))
  BY <1>2, <1>3, <1>5, TransferBalances
<1>6. CASE t = "PAYMENT_RECEIVED"
  <2>1. Verification(d, t, amount) = Transfer("receivables", "bank", amount)
    BY <1>6 DEF Verification
  <2>2. QED
    BY <1>5, <2>1 DEF OwnAccounts
<1>7. CASE t \in {"LATE_FEE_ADDED", "LATE_FEE_WAIVED"}
  <2>1. Verification(d, t, amount) = Transfer("interest", "receivables", amount)
    BY <1>7 DEF Verification
  <2>2. QED
    BY <1>5, <2>1 DEF OwnAccounts
<1>8. CASE t \in {"REMINDER_FEE_ADDED", "REMINDER_FEE_WAIVED"}
  <2>1. Verification(d, t, amount) = Transfer("fees", "receivables", amount)
    BY <1>8 DEF Verification
  <2>2. QED
    BY <1>5, <2>1 DEF OwnAccounts
<1>9. QED
  BY <1>1, <1>4, <1>6, <1>7, <1>8 DEF TransactionType

\* The file of every year can be exported: buildSie never meets a row whose
\* verification does not sum to zero, whatever was issued, credited, charged,
\* waived and paid, and however the handlers interleaved.
THEOREM EveryYearExports == ReportsSpec => []SieBalances
<1>1. ASSUME StoreInv, ReportsInv
      PROVE  SieBalances
  <2>1. ASSUME NEW y \in Years, NEW row \in Year(y)
        PROVE  Balances(VerificationOf(row))
    <3>1. row \in RowsOf(Docs) /\ EntryOf(row).rows > 0
      BY <2>1, RowsSelected DEF Year
    <3>2. QED
      BY <1>1, <3>1, RowBalances
  <2>2. QED
    BY <2>1 DEF SieBalances
<1>2. QED
  BY <1>1, TablesAgree, PTL

-----------------------------------------------------------------------------
(* The VAT return and the file: the documents of a period and its rows     *)

IssuingTypes == {"INVOICE_CREATED", "CREDIT_NOTE_ISSUED"}

\* The invoice that a note credits.
Original(note) == CHOOSE d \in Docs : invoice[note].credits = {d}

\* The instant of a document's only row of a type.
EntryAt(d, t) == CHOOSE at \in Instants : journal[at][d][t].rows > 0

\* The row that a document's issue left in the ledger: for a note, with the
\* invoice it credits.
RowOf(d) ==
    IF invoice[d].type = "INVOICE"
    THEN <<EntryAt(d, "INVOICE_CREATED"), d, "INVOICE_CREATED">>
    ELSE <<EntryAt(Original(d), "CREDIT_NOTE_ISSUED"), Original(d), "CREDIT_NOTE_ISSUED">>

\* The document that a row tells of: issued, or the note of a credit.
TellsOf(row, d) ==
    \/ row[3] = "INVOICE_CREATED" /\ row[2] = d
    \/ row[3] = "CREDIT_NOTE_ISSUED" /\ invoice[d].credits = {row[2]}

\* The documents that the rows of a period tell of.
EnteredWithin(from, to) ==
    {d \in Docs : \E row \in RowsBetween(from, to) : TellsOf(row, d)}

\* A note's original is what it credits, and the note is the only one of it.
LEMMA OriginalIs ==
    ASSUME StoreInv, NEW note \in Docs, invoice[note].type = "CREDIT_NOTE"
    PROVE  /\ Original(note) \in Docs
           /\ invoice[note].credits = {Original(note)}
           /\ \A n \in Docs : invoice[n].credits = {Original(note)} => n = note
<1>1. \E d \in Docs : invoice[note].credits = {d}
  BY DEF StoreInv, PairInv, NoteOf
<1>2. Original(note) \in Docs /\ invoice[note].credits = {Original(note)}
  BY <1>1 DEF Original
<1>3. QED
  BY <1>2, NoteCredits

\* A document is an invoice or a note.
LEMMA DocumentTypes ==
    ASSUME StoreInv, NEW d \in Docs
    PROVE  invoice[d].type = "INVOICE" \/ invoice[d].type = "CREDIT_NOTE"
<1>1. invoice[d] \in InvoiceRow
  BY Figures DEF StoreInv
<1>2. QED
  BY <1>1 DEF InvoiceRow

\* The row of an issue tells of one document, whose row it is.
LEMMA RowTells ==
    ASSUME StoreInv, ReportsInv, NEW row \in RowsOf(Docs), EntryOf(row).rows > 0,
           row[3] \in IssuingTypes
    PROVE  /\ \E d \in Docs : TellsOf(row, d)
           /\ \A d \in Docs : TellsOf(row, d) <=> RowOf(d) = row
<1>1. /\ row[1] \in Instants /\ row[2] \in Docs
      /\ row = <<row[1], row[2], row[3]>>
      /\ journal[row[1]][row[2]][row[3]].rows > 0
  BY RowParts
<1>2. CASE row[3] = "INVOICE_CREATED"
  <2>1. /\ Issued(row[2])
        /\ \A in \in Instants : journal[in][row[2]]["INVOICE_CREATED"].rows > 0 => in = row[1]
    BY <1>1, <1>2, IssueRow
  <2>2. EntryAt(row[2], "INVOICE_CREATED") = row[1]
    BY <1>1, <1>2, <2>1 DEF EntryAt
  <2>3. invoice[row[2]].type = "INVOICE"
    BY <2>1 DEF Issued
  <2>4. RowOf(row[2]) = row
    BY <1>1, <1>2, <2>2, <2>3 DEF RowOf
  <2>5. ASSUME NEW d \in Docs
        PROVE  TellsOf(row, d) <=> d = row[2]
    BY <1>2 DEF TellsOf
  <2>6. ASSUME NEW d \in Docs, RowOf(d) = row
        PROVE  d = row[2]
    <3>1. RowOf(d)[3] = row[3] /\ RowOf(d)[2] = row[2]
      BY <2>6
    <3>2. invoice[d].type = "INVOICE"
      BY <1>2, <3>1 DEF RowOf
    <3>3. RowOf(d)[2] = d
      BY <3>2 DEF RowOf
    <3>4. QED
      BY <3>1, <3>3
  <2>7. QED
    BY <1>1, <2>4, <2>5, <2>6
<1>3. CASE row[3] = "CREDIT_NOTE_ISSUED"
  <2>1. PICK note \in Docs : invoice[note].credits = {row[2]}
    BY <1>1, <1>3, CreditRow
  <2>2. \A in \in Instants : journal[in][row[2]]["CREDIT_NOTE_ISSUED"].rows > 0 => in = row[1]
    BY <1>1, <1>3, CreditRow
  <2>3. EntryAt(row[2], "CREDIT_NOTE_ISSUED") = row[1]
    BY <1>1, <1>3, <2>2 DEF EntryAt
  <2>4. ASSUME NEW d \in Docs
        PROVE  TellsOf(row, d) <=> invoice[d].credits = {row[2]}
    BY <1>3 DEF TellsOf
  <2>5. ASSUME NEW d \in Docs, invoice[d].credits = {row[2]}
        PROVE  RowOf(d) = row
    <3>1. invoice[d].type = "CREDIT_NOTE"
      BY <1>1, <2>5, NoteCredits
    <3>2. Original(d) = row[2]
      BY <2>5, <3>1, OriginalIs
    <3>3. QED
      BY <1>1, <1>3, <2>3, <3>1, <3>2 DEF RowOf
  <2>6. ASSUME NEW d \in Docs, RowOf(d) = row
        PROVE  invoice[d].credits = {row[2]}
    <3>1. RowOf(d)[3] = row[3] /\ RowOf(d)[2] = row[2]
      BY <2>6
    <3>2. invoice[d].type # "INVOICE" /\ Original(d) = row[2]
      BY <1>3, <3>1 DEF RowOf
    <3>3. QED
      BY <3>2, DocumentTypes, OriginalIs
  <2>7. QED
    BY <2>1, <2>4, <2>5, <2>6
<1>4. QED
  BY <1>2, <1>3 DEF IssuingTypes

\* What entered before an instant is what the rows until then tell of.
LEMMA EnteredIs ==
    ASSUME StoreInv, NEW at
    PROVE  EnteredBefore(at) = EnteredWithin(0, at)
<1>1. \A d, o \in Docs : o \in invoice[d].credits <=> invoice[d].credits = {o}
  BY DEF StoreInv, PairInv, NoteOf
<1>2. \A d \in Docs : invoice[d].credits \subseteq Docs
  BY Figures DEF StoreInv, InvoiceRow
<1>3. ASSUME NEW d \in Docs, NEW t \in Instants, t < at, EntersAt(t, d)
      PROVE  \E row \in RowsBetween(0, at) : TellsOf(row, d)
  <2>1. t >= 0
    BY BoundsAssumption DEF Instants
  <2>2. CASE EntryOf(<<t, d, "INVOICE_CREATED">>).rows > 0
    <3>1. <<t, d, "INVOICE_CREATED">> \in RowsBetween(0, at)
      BY <1>3, <2>1, <2>2 DEF RowsBetween, Instants, TransactionType
    <3>2. QED
      BY <3>1 DEF TellsOf
  <2>3. ASSUME NEW o \in invoice[d].credits,
               EntryOf(<<t, o, "CREDIT_NOTE_ISSUED">>).rows > 0
        PROVE  \E row \in RowsBetween(0, at) : TellsOf(row, d)
    <3>1. o \in Docs /\ invoice[d].credits = {o}
      BY <1>1, <1>2, <2>3
    <3>2. <<t, o, "CREDIT_NOTE_ISSUED">> \in RowsBetween(0, at)
      BY <1>3, <2>1, <2>3, <3>1 DEF RowsBetween, Instants, TransactionType
    <3>3. QED
      BY <3>1, <3>2 DEF TellsOf
  <2>4. QED
    BY <1>3, <2>2, <2>3 DEF EntersAt
<1>4. ASSUME NEW d \in Docs, NEW row \in RowsBetween(0, at), TellsOf(row, d)
      PROVE  \E t \in Instants : t < at /\ EntersAt(t, d)
  <2>1. /\ row[1] \in Instants /\ row[2] \in Docs /\ row[1] < at
        /\ EntryOf(row).rows > 0 /\ row = <<row[1], row[2], row[3]>>
    BY RowsSelected, RowParts
  <2>2. EntersAt(row[1], d)
    <3>1. CASE row[3] = "INVOICE_CREATED" /\ row[2] = d
      BY <2>1, <3>1 DEF EntersAt
    <3>2. CASE row[3] = "CREDIT_NOTE_ISSUED" /\ invoice[d].credits = {row[2]}
      BY <2>1, <3>2 DEF EntersAt
    <3>3. QED
      BY <1>4, <3>1, <3>2 DEF TellsOf
  <2>3. QED
    BY <2>1, <2>2
<1>5. QED
  BY <1>3, <1>4 DEF EnteredBefore, EnteredWithin, Instants

\* A document has entered by its row.
LEMMA EntersByRow ==
    ASSUME StoreInv, ReportsInv, NEW from, NEW to, NEW d \in Docs
    PROVE  d \in EnteredWithin(from, to) <=>
                RowOf(d) \in RowsBetween(from, to) /\ RowOf(d)[3] \in IssuingTypes
<1>1. \A row \in RowsBetween(from, to) : row \in RowsOf(Docs) /\ EntryOf(row).rows > 0
  BY RowsSelected
<1>2. ASSUME NEW row \in RowsBetween(from, to), TellsOf(row, d)
      PROVE  RowOf(d) = row /\ row[3] \in IssuingTypes
  <2>1. row[3] \in IssuingTypes
    BY <1>2 DEF TellsOf, IssuingTypes
  <2>2. QED
    BY <1>1, <1>2, <2>1, RowTells
<1>3. ASSUME RowOf(d) \in RowsBetween(from, to), RowOf(d)[3] \in IssuingTypes
      PROVE  TellsOf(RowOf(d), d)
  BY <1>1, <1>3, RowTells
<1>4. QED
  BY <1>2, <1>3 DEF EnteredWithin

\* No two documents have the same row.
LEMMA RowOfOne ==
    ASSUME StoreInv, NEW d \in Docs, NEW e \in Docs, RowOf(d) = RowOf(e)
    PROVE  d = e
<1>1. invoice[d].type = invoice[e].type
  BY DocumentTypes DEF RowOf
<1>2. CASE invoice[d].type = "INVOICE"
  BY <1>1, <1>2 DEF RowOf
<1>3. CASE invoice[d].type = "CREDIT_NOTE"
  <2>1. Original(d) = Original(e)
    BY <1>1, <1>3 DEF RowOf
  <2>2. QED
    BY <1>1, <1>3, <2>1, OriginalIs
<1>4. QED
  BY <1>2, <1>3, DocumentTypes

\* A row of an issue in a period is that of a document that entered in it.
LEMMA DocumentOfRow ==
    ASSUME StoreInv, ReportsInv, NEW from, NEW to,
           NEW row \in RowsBetween(from, to), row[3] \in IssuingTypes
    PROVE  \E d \in EnteredWithin(from, to) : RowOf(d) = row
<1>1. row \in RowsOf(Docs) /\ EntryOf(row).rows > 0
  BY RowsSelected
<1>2. PICK d \in Docs : TellsOf(row, d)
  BY <1>1, RowTells
<1>3. RowOf(d) = row
  BY <1>1, <1>2, RowTells
<1>4. QED
  BY <1>2, <1>3 DEF EnteredWithin

\* What the rows of the issues of a period add up to is what the documents
\* they tell of do, of any figure that a note has the opposite of from its
\* invoice.
LEMMA IssuesMatch ==
    ASSUME StoreInv, ReportsInv, NEW from, NEW to,
           NEW val, \A d \in Docs : val[d] \in Int,
           \A d, note \in Docs : invoice[note].credits = {d} => val[note] = -val[d],
           NEW w, \A row \in RowsBetween(from, to) :
                w[row] = IF row[3] \in IssuingTypes
                         THEN -SignOf(row[3]) * val[row[2]] ELSE 0
    PROVE  SumFunctionOnSet(w, RowsBetween(from, to))
                = -SumFunctionOnSet(val, EnteredWithin(from, to))
<1> DEFINE rows   == RowsBetween(from, to)
           issues == {row \in rows : row[3] \in IssuingTypes}
           docs   == EnteredWithin(from, to)
           h      == [d \in docs |-> RowOf(d)]
           neg    == [row \in issues |-> -w[row]]
<1>1. /\ IsFiniteSet(rows) /\ IsFiniteSet(issues) /\ IsFiniteSet(rows \ issues)
      /\ IsFiniteSet(docs)
  <2>1. IsFiniteSet(RowsOf(Docs))
    BY RowsFinite
  <2>2. rows \subseteq RowsOf(Docs)
    BY RowsSelected
  <2>3. IsFiniteSet(rows)
    BY <2>1, <2>2, FS_Subset
  <2> HIDE DEF rows
  <2>4. IsFiniteSet(issues) /\ IsFiniteSet(rows \ issues)
    BY <2>3, FS_Subset
  <2>5. IsFiniteSet(docs)
    BY ReportsAssumption, FS_Subset DEF EnteredWithin
  <2>6. QED
    BY <2>3, <2>4, <2>5
<1>2. \A row \in rows : row[2] \in Docs
  BY RowsSelected, RowParts
<1>3. \A row \in rows : w[row] \in Int
  BY <1>2 DEF SignOf
<1>4. ASSUME NEW d \in docs
      PROVE  RowOf(d) \in issues /\ w[RowOf(d)] = -val[d]
  <2>0. d \in Docs
    BY DEF EnteredWithin
  <2>1. RowOf(d) \in rows /\ RowOf(d)[3] \in IssuingTypes
    BY EntersByRow DEF EnteredWithin
  <2>2. w[RowOf(d)] = -SignOf(RowOf(d)[3]) * val[RowOf(d)[2]]
    BY <2>1
  <2>3. CASE invoice[d].type = "INVOICE"
    <3>1. RowOf(d)[3] = "INVOICE_CREATED" /\ RowOf(d)[2] = d
      BY <2>3 DEF RowOf
    <3>2. QED
      BY <2>0, <2>1, <2>2, <3>1 DEF SignOf
  <2>4. CASE invoice[d].type = "CREDIT_NOTE"
    <3>1. RowOf(d)[3] = "CREDIT_NOTE_ISSUED" /\ RowOf(d)[2] = Original(d)
      BY <2>4 DEF RowOf
    <3>2. Original(d) \in Docs /\ val[d] = -val[Original(d)]
      BY <2>0, <2>4, OriginalIs
    <3>3. w[RowOf(d)] = val[Original(d)]
      BY <2>2, <3>1, <3>2 DEF SignOf
    <3>4. val[Original(d)] \in Int
      BY <3>2
    <3>5. QED
      BY <2>0, <2>1, <3>2, <3>3, <3>4
  <2>5. QED
    BY <2>0, <2>3, <2>4, DocumentTypes
<1>5. \A row \in issues : \E d \in docs : RowOf(d) = row
  BY DocumentOfRow
<1>6. \A d, e \in docs : RowOf(d) = RowOf(e) => d = e
  BY RowOfOne DEF EnteredWithin
<1>7. /\ \A d \in docs : h[d] = RowOf(d) /\ val[d] \in Int
      /\ \A row \in issues : neg[row] = -w[row]
      /\ issues \in SUBSET rows
      /\ \A row \in rows \ issues : w[row] = 0
  BY DEF EnteredWithin
<1> HIDE DEF rows, issues, docs, h, neg
<1>8. SumFunctionOnSet(val, docs) = SumFunctionOnSet(neg, issues)
  <2>1. \A d \in docs : h[d] \in issues
    BY <1>4, <1>7
  <2>2. \A d, e \in docs : h[d] = h[e] => d = e
    BY <1>6, <1>7
  <2>3. \A row \in issues : \E d \in docs : h[d] = row
    BY <1>5, <1>7
  <2>4. \A d \in docs : neg[h[d]] = val[d]
    BY <1>4, <1>7
  <2>5. \A d \in docs : val[d] \in Int
    BY <1>7
  <2>6. QED
    BY <1>1, <2>1, <2>2, <2>3, <2>4, <2>5, SumMoved
<1>9. SumFunctionOnSet(neg, issues) = -SumFunctionOnSet(w, issues)
  BY <1>1, <1>3, <1>7, SumNegated
<1>10. SumFunctionOnSet(w, rows)
         = SumFunctionOnSet(w, issues) + SumFunctionOnSet(w, rows \ issues)
  BY <1>1, <1>3, <1>7, SumSplit
<1>11. SumFunctionOnSet(w, rows \ issues) = 0
  BY <1>1, <1>7, SumZero
<1>12. SumFunctionOnSet(w, issues) \in Int
  BY <1>1, <1>3, <1>7, SumType
<1>13. SumFunctionOnSet(w, rows) = -SumFunctionOnSet(val, docs)
  BY <1>8, <1>9, <1>10, <1>11, <1>12
<1>14. QED
  BY <1>13 DEF rows, docs

\* The figures of a note are the opposite of its invoice's, rate by rate.
LEMMA NotesCancelRates ==
    ASSUME StoreInv, ReportsInv, NEW d \in Docs, NEW note \in Docs,
           invoice[note].credits = {d}, NEW rate \in VatRates
    PROVE  /\ LinesAt(note, rate).netTotalOre = -LinesAt(d, rate).netTotalOre
           /\ LinesAt(note, rate).vatTotalOre = -LinesAt(d, rate).vatTotalOre
<1>1. LineList(items[d]) /\ items[note] = Mirrored(items[d])
  BY DEF ReportsInv, ColumnTypes, ItemsInv
<1>2. /\ LinesAt(note, rate) = RateTotals(items[note], rate)
      /\ LinesAt(d, rate) = RateTotals(items[d], rate)
  BY DEF LinesAt, RateTotals, TotalsOf, AtRate
<1>3. QED
  BY <1>1, <1>2, MirroredRatesCancel

\* A document's figures are integers, and without VAT there is none.
LEMMA RateFiguresType ==
    ASSUME ReportsInv, NEW d \in Docs, NEW rate \in VatRates
    PROVE  /\ LinesAt(d, rate).netTotalOre \in Int
           /\ LinesAt(d, rate).vatTotalOre \in Int
           /\ rate = 0 => LinesAt(d, rate).vatTotalOre = 0
<1>1. LineList(items[d])
  BY DEF ReportsInv, ColumnTypes
<1>2. NetOf(d)[rate] \in Int /\ VatOf(d)[rate] \in Int /\ VatOf(d)[0] = 0
  BY <1>1, DocumentAddsUp
<1>3. NetOf(d)[rate] = LinesAt(d, rate).netTotalOre
      /\ VatOf(d)[rate] = LinesAt(d, rate).vatTotalOre
  BY DEF NetOf, VatOf
<1>4. QED
  BY <1>2, <1>3

\* What a row books on the accounts of a rate.
LEMMA BookedOfRates ==
    ASSUME NEW row \in RowsOf(Docs), NEW rate \in VatRates
    PROVE  /\ VerificationOf(row)[<<"sales", rate>>] =
                IF row[3] \in IssuingTypes
                THEN -SignOf(row[3]) * LinesAt(row[2], rate).netTotalOre ELSE 0
           /\ rate # 0 => VerificationOf(row)[<<"vat", rate>>] =
                IF row[3] \in IssuingTypes
                THEN -SignOf(row[3]) * LinesAt(row[2], rate).vatTotalOre ELSE 0
<1> DEFINE d == row[2]
           t == row[3]
           amount == EntryOf(row).sum
           sales == <<"sales", rate>>
           vat == <<"vat", rate>>
<1>1. t \in TransactionType
  BY RowParts
<1>2. VerificationOf(row) = Verification(d, t, amount)
  BY DEF VerificationOf
<1>3. /\ sales \in Account /\ rate # 0 => vat \in Account
      /\ sales \in Account
      /\ sales[1] = "sales" /\ sales[2] = rate
      /\ vat[1] = "vat" /\ vat[2] = rate
      /\ sales # <<"receivables", 0>> /\ vat # <<"receivables", 0>>
  BY Accounts
<1>4. CASE t \in IssuingTypes
  <2>1. Verification(d, t, amount)
          = [Split(d, SignOf(t)) EXCEPT ![<<"receivables", 0>>] = amount]
    BY <1>4 DEF Verification, IssuingTypes
  <2>2. \A a \in Account : a # <<"receivables", 0>> =>
            Verification(d, t, amount)[a] = Split(d, SignOf(t))[a]
    BY <2>1 DEF Split
  <2>3. /\ Split(d, SignOf(t))[sales] = -SignOf(t) * LinesAt(d, rate).netTotalOre
        /\ rate # 0 =>
                Split(d, SignOf(t))[vat] = -SignOf(t) * LinesAt(d, rate).vatTotalOre
    BY <1>3 DEF Split
  <2> HIDE DEF sales, vat, d, t, amount
  <2>4. QED
    BY <1>2, <1>3, <1>4, <2>2, <2>3 DEF d, t, sales, vat
<1>5. CASE t \notin IssuingTypes
  <2>1. \E from, to \in OwnAccounts : Verification(d, t, amount) = Transfer(from, to, amount)
    BY <1>1, <1>5 DEF Verification, IssuingTypes, TransactionType, OwnAccounts
  <2>2. PICK from, to \in OwnAccounts : Verification(d, t, amount) = Transfer(from, to, amount)
    BY <2>1
  <2>3. \A a \in Account : a[1] \notin OwnAccounts => Verification(d, t, amount)[a] = 0
    BY <2>2 DEF Transfer
  <2>4. sales[1] \notin OwnAccounts /\ vat[1] \notin OwnAccounts
    BY <1>3 DEF OwnAccounts
  <2>5. QED
    BY <1>2, <1>3, <1>5, <2>3, <2>4
<1>6. QED
  BY <1>4, <1>5

\* What the figures of documents add up to, as one function on all of them.
LEMMA FiguresOver ==
    ASSUME ReportsInv, NEW docs \in SUBSET Docs, NEW rate \in VatRates
    PROVE  LET net == [d \in Docs |-> LinesAt(d, rate).netTotalOre]
               vat == [d \in Docs |-> LinesAt(d, rate).vatTotalOre]
           IN  /\ NetOver(docs, rate) = SumFunctionOnSet(net, docs)
               /\ VatOver(docs, rate) = SumFunctionOnSet(vat, docs)
<1> DEFINE net == [d \in Docs |-> LinesAt(d, rate).netTotalOre]
           vat == [d \in Docs |-> LinesAt(d, rate).vatTotalOre]
           netIn == [d \in docs |-> LinesAt(d, rate).netTotalOre]
           vatIn == [d \in docs |-> LinesAt(d, rate).vatTotalOre]
<1>1. IsFiniteSet(docs)
  BY ReportsAssumption, FS_Subset
<1>2. /\ NetOver(docs, rate) = SumFunctionOnSet(netIn, DOMAIN netIn)
      /\ VatOver(docs, rate) = SumFunctionOnSet(vatIn, DOMAIN vatIn)
  BY DEF NetOver, VatOver, SumFunction
<1>3. DOMAIN netIn = docs /\ DOMAIN vatIn = docs
  OBVIOUS
<1>4. \A d \in docs : /\ netIn[d] = LinesAt(d, rate).netTotalOre
                      /\ net[d] = LinesAt(d, rate).netTotalOre
                      /\ vatIn[d] = LinesAt(d, rate).vatTotalOre
                      /\ vat[d] = LinesAt(d, rate).vatTotalOre
                      /\ d \in Docs
  OBVIOUS
<1> HIDE DEF net, vat, netIn, vatIn
<1>5. \A d \in docs : /\ netIn[d] \in Int /\ netIn[d] = net[d]
                      /\ vatIn[d] \in Int /\ vatIn[d] = vat[d]
  BY <1>4, RateFiguresType
<1>6. /\ SumFunctionOnSet(netIn, docs) = SumFunctionOnSet(net, docs)
      /\ SumFunctionOnSet(vatIn, docs) = SumFunctionOnSet(vat, docs)
  BY <1>1, <1>5, SumSame
<1>7. QED
  BY <1>2, <1>3, <1>6 DEF net, vat

\* What the file books on an account is the sum over its rows.
LEMMA BookedIs ==
    ASSUME NEW a, NEW rows
    PROVE  LET w == [row \in rows |-> VerificationOf(row)[a]]
           IN  Booked(a, rows) = SumFunctionOnSet(w, rows)
<1> DEFINE w == [row \in rows |-> VerificationOf(row)[a]]
<1>1. Booked(a, rows) = SumFunctionOnSet(w, DOMAIN w)
  BY DEF Booked, SumFunction
<1>2. DOMAIN w = rows
  OBVIOUS
<1> HIDE DEF w
<1>3. Booked(a, rows) = SumFunctionOnSet(w, rows)
  BY <1>1, <1>2
<1>4. QED
  BY <1>3 DEF w

\* What two sets of documents add up to differs by those in one of them only.
LEMMA SumsApart ==
    ASSUME NEW f, \A d \in Docs : f[d] \in Int, NEW A \in SUBSET Docs, NEW B \in SUBSET Docs
    PROVE  /\ SumFunctionOnSet(f, A) - SumFunctionOnSet(f, B)
                = SumFunctionOnSet(f, A \ B) - SumFunctionOnSet(f, B \ A)
           /\ SumFunctionOnSet(f, A) \in Int
<1>1. IsFiniteSet(A) /\ IsFiniteSet(B)
  BY ReportsAssumption, FS_Subset
<1>2. /\ SumFunctionOnSet(f, A)
           = SumFunctionOnSet(f, A \ B) + SumFunctionOnSet(f, A \ (A \ B))
      /\ SumFunctionOnSet(f, B)
           = SumFunctionOnSet(f, B \ A) + SumFunctionOnSet(f, B \ (B \ A))
  <2>1. /\ \A d \in A : f[d] \in Int
        /\ \A d \in B : f[d] \in Int
        /\ A \ B \in SUBSET A /\ B \ A \in SUBSET B
    OBVIOUS
  <2>2. QED
    BY <1>1, <2>1, SumSplit
<1>3. A \ (A \ B) = B \ (B \ A)
  OBVIOUS
<1>4. \A S \in SUBSET Docs : SumFunctionOnSet(f, S) \in Int
  <2>1. SUFFICES ASSUME NEW S \in SUBSET Docs PROVE SumFunctionOnSet(f, S) \in Int
    OBVIOUS
  <2>2. IsFiniteSet(S) /\ \A d \in S : f[d] \in Int
    BY ReportsAssumption, FS_Subset
  <2>3. QED
    BY <2>2, SumType
<1> DEFINE a == SumFunctionOnSet(f, A)
           b == SumFunctionOnSet(f, B)
           aOnly == SumFunctionOnSet(f, A \ B)
           bOnly == SumFunctionOnSet(f, B \ A)
           both == SumFunctionOnSet(f, A \ (A \ B))
<1>5. a \in Int /\ b \in Int /\ aOnly \in Int /\ bOnly \in Int /\ both \in Int
  BY <1>4
<1>6. a = aOnly + both /\ b = bOnly + both
  BY <1>2, <1>3
<1> HIDE DEF a, b, aOnly, bOnly, both
<1>7. a - b = aOnly - bOnly
  BY <1>5, <1>6
<1>8. QED
  BY <1>5, <1>7 DEF a, b, aOnly, bOnly

\* What was sent, and what was entered, in a period is what was before its end
\* and was not before its beginning.
LEMMA PeriodIs ==
    ASSUME StoreInv, ReportsInv, NEW from \in Nat, NEW to \in Nat, from <= to
    PROVE  /\ {d \in Docs : IssuedWithin(d, from, to)} = SentBefore(to) \ SentBefore(from)
           /\ SentBefore(from) \subseteq SentBefore(to)
           /\ EnteredWithin(from, to) = EnteredBefore(to) \ EnteredBefore(from)
           /\ EnteredBefore(from) \subseteq EnteredBefore(to)
           /\ SentBefore(to) \subseteq Docs /\ EnteredBefore(to) \subseteq Docs
<1>1. \A d \in Docs : sentAt[d] \in Nat
  BY DEF ReportsInv, ColumnTypes
<1>2. /\ {d \in Docs : IssuedWithin(d, from, to)} = SentBefore(to) \ SentBefore(from)
      /\ SentBefore(from) \subseteq SentBefore(to)
  BY <1>1 DEF IssuedWithin, SentBefore
<1>3. \A at : EnteredBefore(at) = EnteredWithin(0, at)
  BY EnteredIs
<1>4. ASSUME NEW d \in Docs
      PROVE  /\ d \in EnteredWithin(0, from) => d \in EnteredWithin(0, to)
             /\ d \in EnteredWithin(from, to) <=>
                    d \in EnteredWithin(0, to) /\ d \notin EnteredWithin(0, from)
  <2> DEFINE row == RowOf(d)
             Is == row \in RowsOf(Docs) /\ EntryOf(row).rows > 0 /\ row[3] \in IssuingTypes
  <2>1. \A a, b : row \in RowsBetween(a, b) =>
            row \in RowsOf(Docs) /\ row[1] >= a /\ row[1] < b /\ EntryOf(row).rows > 0
    BY RowsSelected
  <2>2. \A a, b : d \in EnteredWithin(a, b) <=>
            row \in RowsBetween(a, b) /\ row[3] \in IssuingTypes
    BY EntersByRow
  <2>3. row \in RowsOf(Docs) =>
            /\ row[1] \in Nat
            /\ \A a, b : row \in RowsBetween(a, b) <=>
                    row[1] >= a /\ row[1] < b /\ EntryOf(row).rows > 0
    BY RowsSelected, RowParts, BoundsAssumption DEF Instants
  <2> HIDE DEF row
  <2>4. \A a, b : d \in EnteredWithin(a, b) <=> Is /\ row[1] >= a /\ row[1] < b
    BY <2>1, <2>2, <2>3
  <2>5. Is => row[1] \in Nat
    BY <2>3
  <2> HIDE DEF Is
  <2>6. QED
    BY <2>4, <2>5
<1>5. /\ EnteredWithin(from, to) = EnteredWithin(0, to) \ EnteredWithin(0, from)
      /\ EnteredWithin(0, from) \subseteq EnteredWithin(0, to)
  <2>1. \A a, b : EnteredWithin(a, b) \subseteq Docs
    BY DEF EnteredWithin
  <2>2. QED
    BY <1>4, <2>1
<1>6. QED
  BY <1>2, <1>3, <1>5 DEF SentBefore, EnteredBefore

\* So the documents sent in a period and those entered in it: by what its end
\* and what its beginning found sent or entered only.
LEMMA SumsOfPeriod ==
    ASSUME StoreInv, ReportsInv, NEW from \in Nat, NEW to \in Nat, from <= to,
           NEW f, \A d \in Docs : f[d] \in Int
    PROVE  SumFunctionOnSet(f, {d \in Docs : IssuedWithin(d, from, to)})
                - SumFunctionOnSet(f, EnteredWithin(from, to))
             = (SumFunctionOnSet(f, Unentered(to)) - SumFunctionOnSet(f, Unsent(to)))
                 - (SumFunctionOnSet(f, Unentered(from)) - SumFunctionOnSet(f, Unsent(from)))
<1> DEFINE docs    == {d \in Docs : IssuedWithin(d, from, to)}
           entered == EnteredWithin(from, to)
           A  == SentBefore(to)
           A0 == SentBefore(from)
           B  == EnteredBefore(to)
           B0 == EnteredBefore(from)
<1>1. /\ docs = A \ A0 /\ entered = B \ B0
      /\ A \in SUBSET Docs /\ A0 \in SUBSET A /\ B \in SUBSET Docs /\ B0 \in SUBSET B
      /\ A0 \in SUBSET Docs /\ B0 \in SUBSET Docs
  BY PeriodIs
<1>2. /\ Unentered(to) = A \ B /\ Unsent(to) = B \ A
      /\ Unentered(from) = A0 \ B0 /\ Unsent(from) = B0 \ A0
  BY DEF Unentered, Unsent
<1>3. docs \in SUBSET Docs /\ entered \in SUBSET Docs
  BY DEF EnteredWithin
<1>4. ASSUME NEW S \in SUBSET Docs, NEW T \in SUBSET S
      PROVE  SumFunctionOnSet(f, S) = SumFunctionOnSet(f, T) + SumFunctionOnSet(f, S \ T)
  <2>1. IsFiniteSet(S) /\ \A d \in S : f[d] \in Int
    BY ReportsAssumption, FS_Subset
  <2>2. QED
    BY <2>1, SumSplit
<1>5. ASSUME NEW S \in SUBSET Docs, NEW T \in SUBSET Docs
      PROVE  /\ SumFunctionOnSet(f, S) - SumFunctionOnSet(f, T)
                  = SumFunctionOnSet(f, S \ T) - SumFunctionOnSet(f, T \ S)
             /\ SumFunctionOnSet(f, S) \in Int
  BY SumsApart
<1> HIDE DEF docs, entered, A, A0, B, B0
<1>6. SumFunctionOnSet(f, A) = SumFunctionOnSet(f, A0) + SumFunctionOnSet(f, docs)
  BY <1>1, <1>4, Zenon
<1>7. SumFunctionOnSet(f, B) = SumFunctionOnSet(f, B0) + SumFunctionOnSet(f, entered)
  BY <1>1, <1>4, Zenon
<1>8. SumFunctionOnSet(f, A) - SumFunctionOnSet(f, B)
        = SumFunctionOnSet(f, Unentered(to)) - SumFunctionOnSet(f, Unsent(to))
  <2>1. A \in SUBSET Docs /\ B \in SUBSET Docs
    BY <1>1
  <2>2. SumFunctionOnSet(f, A) - SumFunctionOnSet(f, B)
          = SumFunctionOnSet(f, A \ B) - SumFunctionOnSet(f, B \ A)
    BY <1>5, <2>1, Zenon
  <2>3. Unentered(to) = A \ B /\ Unsent(to) = B \ A
    BY <1>2
  <2>4. QED
    BY <2>2, <2>3, Zenon
<1>9. SumFunctionOnSet(f, A0) - SumFunctionOnSet(f, B0)
        = SumFunctionOnSet(f, Unentered(from)) - SumFunctionOnSet(f, Unsent(from))
  <2>1. A0 \in SUBSET Docs /\ B0 \in SUBSET Docs
    BY <1>1
  <2>2. SumFunctionOnSet(f, A0) - SumFunctionOnSet(f, B0)
          = SumFunctionOnSet(f, A0 \ B0) - SumFunctionOnSet(f, B0 \ A0)
    BY <1>5, <2>1, Zenon
  <2>3. Unentered(from) = A0 \ B0 /\ Unsent(from) = B0 \ A0
    BY <1>2
  <2>4. QED
    BY <2>2, <2>3, Zenon
<1>10. \A S \in SUBSET Docs : SumFunctionOnSet(f, S) \in Int
  BY <1>5
<1> DEFINE a  == SumFunctionOnSet(f, A)
           b  == SumFunctionOnSet(f, B)
           a0 == SumFunctionOnSet(f, A0)
           b0 == SumFunctionOnSet(f, B0)
           aIn == SumFunctionOnSet(f, docs)
           bIn == SumFunctionOnSet(f, entered)
<1>11. /\ a \in Int /\ b \in Int /\ a0 \in Int /\ b0 \in Int /\ aIn \in Int /\ bIn \in Int
       /\ a = a0 + aIn /\ b = b0 + bIn
  BY <1>1, <1>3, <1>6, <1>7, <1>10, Zenon
<1> HIDE DEF a, b, a0, b0, aIn, bIn
<1>12. aIn - bIn = (a - b) - (a0 - b0)
  BY <1>11
<1>13. QED
  BY <1>8, <1>9, <1>12, Zenon DEF a, b, a0, b0, aIn, bIn, docs, entered

\* What was sent has a date that has been, and a row.
LEMMA AllEntered ==
    ASSUME StoreInv, ReportsInv
    PROVE  SentBefore(MaxNow + 1) = EnteredBefore(MaxNow + 1)
<1> DEFINE entered == EnteredWithin(0, MaxNow + 1)
<1>0. EnteredBefore(MaxNow + 1) = entered
  BY EnteredIs
<1>1. /\ now \in 1 .. MaxNow /\ MaxNow \in Nat
      /\ \A at \in 1 .. now : at \in Instants /\ at >= 0 /\ at < MaxNow + 1
  BY BoundsAssumption DEF ReportsInv, ColumnTypes, Instants
<1>2. \A d \in Docs : sentAt[d] \in Nat
  BY DEF ReportsInv, ColumnTypes
<1>3. ASSUME NEW d \in Docs, NEW t \in IssuingTypes, NEW amount, Once(d, t, amount)
      PROVE  \E row \in RowsBetween(0, MaxNow + 1) : row[2] = d /\ row[3] = t
  <2>1. PICK at \in 1 .. now : OnlyAt(d, t, at, amount)
    BY <1>3 DEF Once
  <2>2. at \in Instants /\ journal[at][d][t].rows = 1
    BY <1>1, <2>1 DEF OnlyAt
  <2> DEFINE row == <<at, d, t>>
  <2>3. /\ row \in RowsOf(Docs) /\ row[1] = at /\ row[2] = d /\ row[3] = t
        /\ EntryOf(row).rows > 0
    BY <2>2 DEF RowsOf, EntryOf, IssuingTypes, TransactionType
  <2> HIDE DEF row
  <2>4. row \in RowsBetween(0, MaxNow + 1)
    BY <1>1, <2>1, <2>3, RowsSelected
  <2>5. QED
    BY <2>3, <2>4
<1>4. ASSUME NEW d \in SentBefore(MaxNow + 1)
      PROVE  d \in entered
  <2>1. d \in Docs /\ Exists(d) /\ ~IsDraft(d)
    BY DEF SentBefore
  <2>2. CASE invoice[d].type = "INVOICE"
    <3>1. Issued(d)
      BY <2>1, <2>2 DEF Issued, Exists, IsDraft, InvoiceStatus
    <3>2. Once(d, "INVOICE_CREATED", invoice[d].gross)
      BY <2>1, <3>1 DEF ReportsInv, DatesInv, IssueDated
    <3>3. PICK row \in RowsBetween(0, MaxNow + 1) : row[2] = d /\ row[3] = "INVOICE_CREATED"
      BY <1>3, <2>1, <3>2 DEF IssuingTypes
    <3>4. QED
      BY <2>1, <3>3 DEF EnteredWithin, TellsOf
  <2>3. CASE invoice[d].type = "CREDIT_NOTE"
    <3>1. Original(d) \in Docs /\ invoice[d].credits = {Original(d)}
      BY <2>1, <2>3, OriginalIs
    <3>2. PICK o \in Docs : invoice[d].credits = {o}
      BY <3>1
    <3>3. Once(o, "CREDIT_NOTE_ISSUED", -invoice[o].gross)
      BY <2>1, <3>2 DEF ReportsInv, DatesInv, CreditDated
    <3>4. PICK row \in RowsBetween(0, MaxNow + 1) :
                row[2] = o /\ row[3] = "CREDIT_NOTE_ISSUED"
      BY <1>3, <3>3 DEF IssuingTypes
    <3>5. QED
      BY <2>1, <3>2, <3>4 DEF EnteredWithin, TellsOf
  <2>4. QED
    BY <2>1, <2>2, <2>3, DocumentTypes
<1>5. ASSUME NEW d \in entered
      PROVE  d \in SentBefore(MaxNow + 1)
  <2>1. PICK row \in RowsBetween(0, MaxNow + 1) : TellsOf(row, d)
    BY DEF EnteredWithin
  <2>2. /\ d \in Docs /\ row[1] \in Instants /\ row[2] \in Docs
        /\ journal[row[1]][row[2]][row[3]].rows > 0
    BY RowsSelected, RowParts DEF EnteredWithin
  <2>3. Exists(d) /\ ~IsDraft(d) /\ sentAt[d] \in 1 .. now
    <3>1. CASE row[3] = "INVOICE_CREATED" /\ row[2] = d
      <4>1. Issued(d)
        BY <2>2, <3>1, IssueRow
      <4>2. sentAt[d] \in 1 .. now
        BY <2>2, <4>1 DEF ReportsInv, DatesInv, IssueDated
      <4>3. QED
        BY <4>1, <4>2 DEF Issued, Exists, IsDraft, InvoiceStatus
    <3>2. CASE row[3] = "CREDIT_NOTE_ISSUED" /\ invoice[d].credits = {row[2]}
      <4>1. invoice[d].status = "SENT"
        BY <2>2, <3>2, NoteCredits
      <4>2. sentAt[d] \in 1 .. now
        BY <2>2, <3>2 DEF ReportsInv, DatesInv, CreditDated
      <4>3. QED
        BY <4>1, <4>2 DEF Exists, IsDraft, InvoiceStatus
    <3>3. QED
      BY <2>1, <3>1, <3>2 DEF TellsOf
  <2>4. QED
    BY <1>1, <2>2, <2>3 DEF SentBefore
<1>6. QED
  BY <1>0, <1>4, <1>5 DEF EnteredWithin, SentBefore

\* One rate of Apart.
NetApart(at, rate) == NetOver(Unentered(at), rate) - NetOver(Unsent(at), rate)
VatApart(at, rate) == VatOver(Unentered(at), rate) - VatOver(Unsent(at), rate)

\* Apart holds these two figures for each rate.
LEMMA ApartAtRate ==
    ASSUME NEW at, NEW rate \in VatRates
    PROVE  /\ Apart(at)[rate].netOre = NetApart(at, rate)
           /\ Apart(at)[rate].vatOre = VatApart(at, rate)
BY DEF Apart, NetApart, VatApart

\* For any period and rate, the file and the VAT return differ by what the
\* period's end found between its two dates, less what its beginning did.
LEMMA PeriodReconciles ==
    ASSUME StoreInv, ReportsInv, NEW from \in Nat, NEW to \in Nat, from <= to,
           NEW rate \in VatRates
    PROVE  LET rows == RowsBetween(from, to)
               vat  == SumVatByRate(from, to)[rate]
           IN  /\ Booked(<<"sales", rate>>, rows) + vat.netOre
                     = NetApart(to, rate) - NetApart(from, rate)
               /\ IF rate = 0 THEN vat.vatOre = 0
                  ELSE Booked(<<"vat", rate>>, rows) + vat.vatOre
                         = VatApart(to, rate) - VatApart(from, rate)
<1> DEFINE rows  == RowsBetween(from, to)
           docs  == {d \in Docs : IssuedWithin(d, from, to)}
           entered == EnteredWithin(from, to)
           net   == [d \in Docs |-> LinesAt(d, rate).netTotalOre]
           vat   == [d \in Docs |-> LinesAt(d, rate).vatTotalOre]
           sales == [row \in rows |-> VerificationOf(row)[<<"sales", rate>>]]
           vats  == [row \in rows |-> VerificationOf(row)[<<"vat", rate>>]]
<1>1. \A row \in rows : row \in RowsOf(Docs) /\ row[2] \in Docs
  BY RowsSelected, RowParts
<1>2. \A d \in Docs : net[d] = LinesAt(d, rate).netTotalOre
                      /\ vat[d] = LinesAt(d, rate).vatTotalOre
  OBVIOUS
<1>3. \A row \in rows : sales[row] = VerificationOf(row)[<<"sales", rate>>]
                        /\ vats[row] = VerificationOf(row)[<<"vat", rate>>]
  OBVIOUS
<1>4. /\ Booked(<<"sales", rate>>, rows) = SumFunctionOnSet(sales, rows)
      /\ Booked(<<"vat", rate>>, rows) = SumFunctionOnSet(vats, rows)
  BY BookedIs
<1>5. \A S \in SUBSET Docs : /\ NetOver(S, rate) = SumFunctionOnSet(net, S)
                              /\ VatOver(S, rate) = SumFunctionOnSet(vat, S)
  BY FiguresOver
<1>6. /\ SumVatByRate(from, to)[rate].netOre = NetOver(docs, rate)
      /\ SumVatByRate(from, to)[rate].vatOre = VatOver(docs, rate)
  BY DEF SumVatByRate
<1> HIDE DEF net, vat, sales, vats
<1>7. \A d \in Docs : net[d] \in Int /\ vat[d] \in Int
  BY <1>2, RateFiguresType
<1>8. \A d, note \in Docs : invoice[note].credits = {d} =>
            net[note] = -net[d] /\ vat[note] = -vat[d]
  BY <1>2, NotesCancelRates
<1>9. \A row \in rows : sales[row] =
            IF row[3] \in IssuingTypes THEN -SignOf(row[3]) * net[row[2]] ELSE 0
  BY <1>1, <1>2, <1>3, BookedOfRates
<1>10. rate # 0 => \A row \in rows : vats[row] =
            IF row[3] \in IssuingTypes THEN -SignOf(row[3]) * vat[row[2]] ELSE 0
  BY <1>1, <1>2, <1>3, BookedOfRates
<1>11. SumFunctionOnSet(sales, rows) = -SumFunctionOnSet(net, entered)
  <2>1. \A d \in Docs : net[d] \in Int
    BY <1>7
  <2>2. \A d, note \in Docs : invoice[note].credits = {d} => net[note] = -net[d]
    BY <1>8
  <2>3. QED
    BY <1>9, <2>1, <2>2, IssuesMatch
<1>12. rate # 0 => SumFunctionOnSet(vats, rows) = -SumFunctionOnSet(vat, entered)
  <2>1. \A d \in Docs : vat[d] \in Int
    BY <1>7
  <2>2. \A d, note \in Docs : invoice[note].credits = {d} => vat[note] = -vat[d]
    BY <1>8
  <2>3. QED
    BY <1>10, <2>1, <2>2, IssuesMatch
<1>13. rate = 0 => SumFunctionOnSet(vat, docs) = 0
  <2>1. rate = 0 => \A d \in docs : vat[d] = 0
    BY <1>2, RateFiguresType
  <2>2. IsFiniteSet(docs)
    BY ReportsAssumption, FS_Subset
  <2> HIDE DEF docs
  <2>3. QED
    BY <2>1, <2>2, SumZero
<1>14. ASSUME NEW f, \A d \in Docs : f[d] \in Int
       PROVE  SumFunctionOnSet(f, docs) - SumFunctionOnSet(f, entered)
                = (SumFunctionOnSet(f, Unentered(to)) - SumFunctionOnSet(f, Unsent(to)))
                    - (SumFunctionOnSet(f, Unentered(from)) - SumFunctionOnSet(f, Unsent(from)))
  BY <1>14, SumsOfPeriod
<1>15. /\ docs \in SUBSET Docs /\ entered \in SUBSET Docs
       /\ \A at : Unentered(at) \in SUBSET Docs /\ Unsent(at) \in SUBSET Docs
  BY DEF EnteredWithin, Unentered, Unsent, SentBefore, EnteredBefore
<1> HIDE DEF rows, docs, entered
<1>16. \A S \in SUBSET Docs : SumFunctionOnSet(net, S) \in Int /\ SumFunctionOnSet(vat, S) \in Int
  BY <1>7, SumsApart
<1>17. Booked(<<"sales", rate>>, rows) + SumVatByRate(from, to)[rate].netOre
         = NetApart(to, rate) - NetApart(from, rate)
  <2>1. SumFunctionOnSet(net, docs) - SumFunctionOnSet(net, entered)
          = NetApart(to, rate) - NetApart(from, rate)
    BY <1>5, <1>7, <1>14, <1>15 DEF NetApart
  <2>2. SumVatByRate(from, to)[rate].netOre = SumFunctionOnSet(net, docs)
    BY <1>5, <1>6, <1>15
  <2>3. SumFunctionOnSet(net, docs) \in Int /\ SumFunctionOnSet(net, entered) \in Int
    BY <1>15, <1>16
  <2>4. QED
    BY <1>4, <1>11, <2>1, <2>2, <2>3
<1>18. rate # 0 => Booked(<<"vat", rate>>, rows) + SumVatByRate(from, to)[rate].vatOre
         = VatApart(to, rate) - VatApart(from, rate)
  <2>1. SumFunctionOnSet(vat, docs) - SumFunctionOnSet(vat, entered)
          = VatApart(to, rate) - VatApart(from, rate)
    BY <1>5, <1>7, <1>14, <1>15 DEF VatApart
  <2>2. SumVatByRate(from, to)[rate].vatOre = SumFunctionOnSet(vat, docs)
    BY <1>5, <1>6, <1>15
  <2>3. SumFunctionOnSet(vat, docs) \in Int /\ SumFunctionOnSet(vat, entered) \in Int
    BY <1>15, <1>16
  <2>4. QED
    BY <1>4, <1>12, <2>1, <2>2, <2>3
<1>19. QED
  BY <1>5, <1>6, <1>13, <1>15, <1>17, <1>18 DEF rows

\* Whatever the handlers did and in whatever order, the VAT return and the
\* SIE file of a year differ, at every rate, by exactly what the year's two
\* ends found between its date in the return (sentAt) and its date in the file
\* (createdAt); over all years nothing is in one and not in the other; and a
\* credit takes back exactly the VAT that its invoice declared.
THEOREM ReturnMatchesFile == ReportsSpec => []VatReconciles
<1>1. ASSUME StoreInv, ReportsInv
      PROVE  VatReconciles
  <2>1. CreditCancelsVat
    <3>1. ASSUME NEW d \in Docs, NEW note \in Docs, invoice[note].credits = {d},
                 NEW rate \in VatRates
          PROVE  /\ LinesAt(d, rate).netTotalOre + LinesAt(note, rate).netTotalOre = 0
                 /\ LinesAt(d, rate).vatTotalOre + LinesAt(note, rate).vatTotalOre = 0
      <4>1. /\ LinesAt(note, rate).netTotalOre = -LinesAt(d, rate).netTotalOre
            /\ LinesAt(note, rate).vatTotalOre = -LinesAt(d, rate).vatTotalOre
        BY <1>1, <3>1, NotesCancelRates
      <4>2. LinesAt(d, rate).netTotalOre \in Int /\ LinesAt(d, rate).vatTotalOre \in Int
        BY <1>1, RateFiguresType
      <4>3. QED
        BY <4>1, <4>2
    <3>2. QED
      BY <3>1 DEF CreditCancelsVat
  <2>2. ASSUME NEW y \in Years, NEW rate \in VatRates
        PROVE  LET from == y * YearLength
                   to   == (y + 1) * YearLength
                   vat  == SumVatByRate(from, to)[rate]
               IN  /\ Booked(<<"sales", rate>>, Year(y)) + vat.netOre
                         = NetApart(to, rate) - NetApart(from, rate)
                   /\ IF rate = 0 THEN vat.vatOre = 0
                      ELSE Booked(<<"vat", rate>>, Year(y)) + vat.vatOre
                             = VatApart(to, rate) - VatApart(from, rate)
    <3> DEFINE from == y * YearLength
               to   == (y + 1) * YearLength
    <3>1. y \in Nat /\ YearLength \in Nat
      BY ReportsAssumption DEF Years
    <3>2. from \in Nat /\ to = from + YearLength
      BY <3>1
    <3>3. Year(y) = RowsBetween(from, to)
      BY DEF Year
    <3> HIDE DEF from, to
    <3>4. to \in Nat /\ from <= to
      BY <3>1, <3>2
    <3>5. QED
      BY <1>1, <3>2, <3>3, <3>4, PeriodReconciles DEF from, to
  <2>3. ASSUME NEW y \in Years
        PROVE  LET rows   == Year(y)
                   vat    == SumVatByRate(y * YearLength, (y + 1) * YearLength)
                   before == Apart(y * YearLength)
                   after  == Apart((y + 1) * YearLength)
               IN  \A rate \in VatRates :
                       /\ Booked(<<"sales", rate>>, rows) + vat[rate].netOre
                             = after[rate].netOre - before[rate].netOre
                       /\ IF rate = 0 THEN vat[rate].vatOre = 0
                          ELSE Booked(<<"vat", rate>>, rows) + vat[rate].vatOre
                                 = after[rate].vatOre - before[rate].vatOre
    <3> DEFINE from   == y * YearLength
               to     == (y + 1) * YearLength
               rows   == Year(y)
               vat    == SumVatByRate(from, to)
               before == Apart(from)
               after  == Apart(to)
    <3>1. ASSUME NEW rate \in VatRates
          PROVE  /\ Booked(<<"sales", rate>>, rows) + vat[rate].netOre
                       = after[rate].netOre - before[rate].netOre
                 /\ IF rate = 0 THEN vat[rate].vatOre = 0
                    ELSE Booked(<<"vat", rate>>, rows) + vat[rate].vatOre
                           = after[rate].vatOre - before[rate].vatOre
      <4>1. /\ before[rate].netOre = NetApart(from, rate)
            /\ before[rate].vatOre = VatApart(from, rate)
            /\ after[rate].netOre = NetApart(to, rate)
            /\ after[rate].vatOre = VatApart(to, rate)
        BY ApartAtRate
      <4>2. /\ Booked(<<"sales", rate>>, rows) + vat[rate].netOre
                  = NetApart(to, rate) - NetApart(from, rate)
            /\ IF rate = 0 THEN vat[rate].vatOre = 0
               ELSE Booked(<<"vat", rate>>, rows) + vat[rate].vatOre
                      = VatApart(to, rate) - VatApart(from, rate)
        BY <2>2
      <4> HIDE DEF from, to, rows, vat, before, after
      <4>3. QED
        BY <4>1, <4>2
    <3> HIDE DEF from, to, rows, vat, before, after
    <3>2. \A rate \in VatRates :
              /\ Booked(<<"sales", rate>>, rows) + vat[rate].netOre
                    = after[rate].netOre - before[rate].netOre
              /\ IF rate = 0 THEN vat[rate].vatOre = 0
                 ELSE Booked(<<"vat", rate>>, rows) + vat[rate].vatOre
                        = after[rate].vatOre - before[rate].vatOre
      BY <3>1
    <3>3. QED
      BY <3>2 DEF from, to, rows, vat, before, after
  <2>4. QED
    BY <1>1, <2>1, <2>3, AllEntered DEF VatReconciles
<1>2. QED
  BY <1>1, TablesAgree, PTL

-----------------------------------------------------------------------------
(* What is owed: by the ageing list, the dashboard and account 1510        *)

\* What a row books on receivables: a payment takes off, all else puts on.
Direction(t) == IF t = "PAYMENT_RECEIVED" THEN -1 ELSE 1

Owing == [row \in RowsOf(Docs) |-> Direction(row[3]) * EntryOf(row).sum]

\* That is what its verification books there.
LEMMA BookedOnDebt ==
    ASSUME ColumnTypes, NEW row \in RowsOf(Docs)
    PROVE  /\ VerificationOf(row)[<<"receivables", 0>>] = Owing[row]
           /\ Owing[row] \in Int
<1> DEFINE d == row[2]
           t == row[3]
           amount == EntryOf(row).sum
           own == <<"receivables", 0>>
<1>1. t \in TransactionType /\ amount \in Int
  BY RowParts, EntryType
<1>2. VerificationOf(row) = Verification(d, t, amount)
  BY DEF VerificationOf
<1>3. Owing[row] = Direction(t) * amount
  BY DEF Owing
<1>4. own \in Account /\ own[1] = "receivables"
  BY Accounts DEF OwnAccounts
<1>5. CASE t \in {"INVOICE_CREATED", "CREDIT_NOTE_ISSUED"}
  <2>1. Verification(d, t, amount) = [Split(d, SignOf(t)) EXCEPT ![own] = amount]
    BY <1>5 DEF Verification
  <2>2. Verification(d, t, amount)[own] = amount
    BY <1>4, <2>1 DEF Split
  <2>3. QED
    BY <1>1, <1>2, <1>3, <1>5, <2>2 DEF Direction
<1>6. CASE t = "PAYMENT_RECEIVED"
  <2>1. Verification(d, t, amount) = Transfer("receivables", "bank", amount)
    BY <1>6 DEF Verification
  <2>2. Transfer("receivables", "bank", amount)[own] = -amount
    BY <1>4 DEF Transfer
  <2>3. QED
    BY <1>1, <1>2, <1>3, <1>6, <2>1, <2>2 DEF Direction
<1>7. CASE t \notin {"INVOICE_CREATED", "CREDIT_NOTE_ISSUED", "PAYMENT_RECEIVED"}
  <2>1. \/ Verification(d, t, amount) = Transfer("interest", "receivables", amount)
        \/ Verification(d, t, amount) = Transfer("fees", "receivables", amount)
    BY <1>1, <1>7 DEF Verification, TransactionType
  <2>2. /\ Transfer("interest", "receivables", amount)[own] = amount
        /\ Transfer("fees", "receivables", amount)[own] = amount
    BY <1>4 DEF Transfer
  <2>3. QED
    BY <1>1, <1>2, <1>3, <1>7, <2>1, <2>2 DEF Direction
<1>8. QED
  BY <1>5, <1>6, <1>7

\* What the rows of one document and one type book is what the ledger has
\* under that type.
LEMMA TypeOwes ==
    ASSUME StoreInv, ReportsInv, NEW d \in Docs, NEW t \in TransactionType,
           NEW rows, IsFiniteSet(rows), \A at \in Instants : <<at, d, t>> \in rows,
           \A row \in rows : \E at \in Instants : <<at, d, t>> = row
    PROVE  SumFunctionOnSet(Owing, rows) = Direction(t) * Sum(d, t)
<1> DEFINE h == [at \in Instants |-> <<at, d, t>>]
           f == [at \in Instants |-> Direction(t) * SumsAt(d, t)[at]]
<1>1. SumFunctionOnSet(SumsAt(d, t), Instants) = Sum(d, t)
  BY DEF ReportsInv, JournalInv
<1>2. Direction(t) \in {1, -1}
  BY DEF Direction
<1>3. ASSUME NEW at \in Instants
      PROVE  /\ h[at] = <<at, d, t>> /\ h[at] \in rows
             /\ SumsAt(d, t)[at] \in Int
             /\ f[at] = Direction(t) * SumsAt(d, t)[at]
             /\ Owing[h[at]] = f[at]
  <2> DEFINE row == <<at, d, t>>
  <2>1. row \in RowsOf(Docs) /\ row[3] = t /\ h[at] = row
    BY DEF RowsOf
  <2>2. EntryOf(row) = journal[at][d][t]
    BY DEF EntryOf
  <2>3. SumsAt(d, t)[at] = journal[at][d][t].sum
    BY DEF SumsAt
  <2> HIDE DEF row
  <2>4. Owing[row] = Direction(t) * SumsAt(d, t)[at]
    BY <2>1, <2>2, <2>3 DEF Owing
  <2>5. SumsAt(d, t)[at] \in Int
    BY <2>1, <2>2, <2>3, EntryType DEF ReportsInv
  <2>6. QED
    BY <2>1, <2>4, <2>5 DEF row
<1> HIDE DEF h, f
<1>4. \A at \in Instants : f[at] \in Int
  BY <1>2, <1>3
<1>5. SumFunctionOnSet(f, Instants) = SumFunctionOnSet(Owing, rows)
  <2>1. \A at \in Instants : h[at] \in rows
    BY <1>3
  <2>2. \A at, in \in Instants : h[at] = h[in] => at = in
    BY <1>3
  <2>3. \A row \in rows : \E at \in Instants : h[at] = row
    BY <1>3
  <2>4. \A at \in Instants : Owing[h[at]] = f[at]
    BY <1>3
  <2>5. QED
    BY <1>4, <2>1, <2>2, <2>3, <2>4, InstantsFinite, SumMoved
<1>6. SumFunctionOnSet(f, Instants) = Direction(t) * SumFunctionOnSet(SumsAt(d, t), Instants)
  <2> DEFINE sign == -Direction(t)
  <2>1. /\ sign \in {1, -1}
        /\ \A at \in Instants : f[at] = -sign * SumsAt(d, t)[at]
        /\ -sign = Direction(t)
    BY <1>2, <1>3
  <2>2. \A at \in Instants : SumsAt(d, t)[at] \in Int
    BY <1>3
  <2> HIDE DEF sign
  <2>3. SumFunctionOnSet(f, Instants) = -sign * SumFunctionOnSet(SumsAt(d, t), Instants)
    BY <2>1, <2>2, InstantsFinite, SumSigned
  <2>4. SumFunctionOnSet(SumsAt(d, t), Instants) \in Int
    BY <2>2, InstantsFinite, SumType
  <2>5. QED
    BY <1>2, <2>1, <2>3, <2>4
<1>7. QED
  BY <1>1, <1>5, <1>6

\* The seven types of a row make the balance of a document.
LEMMA TypesMakeBalance ==
    ASSUME NEW d, \A t \in TransactionType : Sum(d, t) \in Int,
           NEW f, \A t \in TransactionType : f[t] = Direction(t) * Sum(d, t)
    PROVE  SumFunctionOnSet(f, TransactionType) = Balance(d)
<1> DEFINE T1 == TransactionType \ {"INVOICE_CREATED"}
           T2 == T1 \ {"LATE_FEE_ADDED"}
           T3 == T2 \ {"REMINDER_FEE_ADDED"}
           T4 == T3 \ {"CREDIT_NOTE_ISSUED"}
           T5 == T4 \ {"LATE_FEE_WAIVED"}
           T6 == T5 \ {"REMINDER_FEE_WAIVED"}
           T7 == T6 \ {"PAYMENT_RECEIVED"}
<1>1. /\ "INVOICE_CREATED" \in TransactionType /\ "LATE_FEE_ADDED" \in T1
      /\ "REMINDER_FEE_ADDED" \in T2 /\ "CREDIT_NOTE_ISSUED" \in T3
      /\ "LATE_FEE_WAIVED" \in T4 /\ "REMINDER_FEE_WAIVED" \in T5
      /\ "PAYMENT_RECEIVED" \in T6
  BY DEF TransactionType
<1>2. T7 = {}
  BY DEF TransactionType
<1>3. \A t \in TransactionType : f[t] \in Int
  BY DEF Direction
<1>4. /\ f["INVOICE_CREATED"] = Sum(d, "INVOICE_CREATED")
      /\ f["LATE_FEE_ADDED"] = Sum(d, "LATE_FEE_ADDED")
      /\ f["REMINDER_FEE_ADDED"] = Sum(d, "REMINDER_FEE_ADDED")
      /\ f["CREDIT_NOTE_ISSUED"] = Sum(d, "CREDIT_NOTE_ISSUED")
      /\ f["LATE_FEE_WAIVED"] = Sum(d, "LATE_FEE_WAIVED")
      /\ f["REMINDER_FEE_WAIVED"] = Sum(d, "REMINDER_FEE_WAIVED")
      /\ f["PAYMENT_RECEIVED"] = -Sum(d, "PAYMENT_RECEIVED")
  BY DEF Direction, TransactionType
<1>5. \A T \in SUBSET TransactionType : \A t \in T :
        SumFunctionOnSet(f, T) = f[t] + SumFunctionOnSet(f, T \ {t})
  <2>1. SUFFICES ASSUME NEW T \in SUBSET TransactionType, NEW t \in T
                 PROVE  SumFunctionOnSet(f, T) = f[t] + SumFunctionOnSet(f, T \ {t})
    OBVIOUS
  <2>2. IsFiniteSet(T)
    BY TypesFinite, FS_Subset
  <2>3. \A u \in T : f[u] \in Int
    BY <1>3
  <2>4. QED
    BY <2>2, <2>3, SumTakeOut
<1>6. /\ T1 \in SUBSET TransactionType /\ T2 \in SUBSET TransactionType
      /\ T3 \in SUBSET TransactionType /\ T4 \in SUBSET TransactionType
      /\ T5 \in SUBSET TransactionType /\ T6 \in SUBSET TransactionType
      /\ TransactionType \in SUBSET TransactionType
  OBVIOUS
<1>7. /\ SumFunctionOnSet(f, TransactionType)
           = f["INVOICE_CREATED"] + SumFunctionOnSet(f, T1)
      /\ SumFunctionOnSet(f, T1) = f["LATE_FEE_ADDED"] + SumFunctionOnSet(f, T2)
      /\ SumFunctionOnSet(f, T2) = f["REMINDER_FEE_ADDED"] + SumFunctionOnSet(f, T3)
      /\ SumFunctionOnSet(f, T3) = f["CREDIT_NOTE_ISSUED"] + SumFunctionOnSet(f, T4)
      /\ SumFunctionOnSet(f, T4) = f["LATE_FEE_WAIVED"] + SumFunctionOnSet(f, T5)
      /\ SumFunctionOnSet(f, T5) = f["REMINDER_FEE_WAIVED"] + SumFunctionOnSet(f, T6)
      /\ SumFunctionOnSet(f, T6) = f["PAYMENT_RECEIVED"] + SumFunctionOnSet(f, T7)
  <2> HIDE DEF T1, T2, T3, T4, T5, T6, T7
  <2>1. SumFunctionOnSet(f, TransactionType)
          = f["INVOICE_CREATED"] + SumFunctionOnSet(f, T1)
    BY <1>1, <1>5, <1>6 DEF T1
  <2>2. SumFunctionOnSet(f, T1) = f["LATE_FEE_ADDED"] + SumFunctionOnSet(f, T2)
    BY <1>1, <1>5, <1>6 DEF T2
  <2>3. SumFunctionOnSet(f, T2) = f["REMINDER_FEE_ADDED"] + SumFunctionOnSet(f, T3)
    BY <1>1, <1>5, <1>6 DEF T3
  <2>4. SumFunctionOnSet(f, T3) = f["CREDIT_NOTE_ISSUED"] + SumFunctionOnSet(f, T4)
    BY <1>1, <1>5, <1>6 DEF T4
  <2>5. SumFunctionOnSet(f, T4) = f["LATE_FEE_WAIVED"] + SumFunctionOnSet(f, T5)
    BY <1>1, <1>5, <1>6 DEF T5
  <2>6. SumFunctionOnSet(f, T5) = f["REMINDER_FEE_WAIVED"] + SumFunctionOnSet(f, T6)
    BY <1>1, <1>5, <1>6 DEF T6
  <2>7. SumFunctionOnSet(f, T6) = f["PAYMENT_RECEIVED"] + SumFunctionOnSet(f, T7)
    BY <1>1, <1>5, <1>6 DEF T7
  <2>8. QED
    BY <2>1, <2>2, <2>3, <2>4, <2>5, <2>6, <2>7
<1>8. SumFunctionOnSet(f, T7) = 0
  BY <1>2, SumEmpty
<1>9. /\ Sum(d, "INVOICE_CREATED") \in Int /\ Sum(d, "LATE_FEE_ADDED") \in Int
      /\ Sum(d, "REMINDER_FEE_ADDED") \in Int /\ Sum(d, "CREDIT_NOTE_ISSUED") \in Int
      /\ Sum(d, "LATE_FEE_WAIVED") \in Int /\ Sum(d, "REMINDER_FEE_WAIVED") \in Int
      /\ Sum(d, "PAYMENT_RECEIVED") \in Int
  BY DEF TransactionType
<1> HIDE DEF T1, T2, T3, T4, T5, T6, T7
<1>10. QED
  BY <1>4, <1>7, <1>8, <1>9 DEF Balance

\* The rows of a document add up to its balance.
LEMMA DocumentOwes ==
    ASSUME StoreInv, ReportsInv, NEW d \in Docs, NEW rows, IsFiniteSet(rows),
           \A row : row \in rows <=> row \in RowsOf(Docs) /\ row[2] = d
    PROVE  SumFunctionOnSet(Owing, rows) = Balance(d)
<1> DEFINE typeOf == [row \in rows |-> row[3]]
           f == [t \in TransactionType |-> Direction(t) * Sum(d, t)]
<1>1. \A t \in TransactionType : Sum(d, t) \in Int
  BY Figures DEF StoreInv
<1>2. \A row \in rows : /\ typeOf[row] = row[3] /\ row[3] \in TransactionType
                        /\ row \in RowsOf(Docs) /\ row[2] = d
  BY RowParts
<1>3. \A t \in TransactionType : f[t] = Direction(t) * Sum(d, t)
  OBVIOUS
<1> HIDE DEF typeOf, f
<1>4. \A row \in rows : Owing[row] \in Int
  BY <1>2, BookedOnDebt DEF ReportsInv
<1>5. ASSUME NEW t \in TransactionType
      PROVE  f[t] = SumFunctionOnSet(Owing, Under(typeOf, rows, t))
  <2> DEFINE some == Under(typeOf, rows, t)
  <2>1. \A row : row \in some <=> row \in rows /\ row[3] = t
    BY <1>2 DEF Under
  <2>2. some \in SUBSET rows
    BY DEF Under
  <2> HIDE DEF some
  <2>3. IsFiniteSet(some)
    BY <2>2, FS_Subset
  <2>4. \A at \in Instants : <<at, d, t>> \in some
    <3>1. ASSUME NEW at \in Instants PROVE <<at, d, t>> \in some
      <4>1. <<at, d, t>> \in RowsOf(Docs)
        BY DEF RowsOf
      <4>2. QED
        BY <2>1, <4>1
    <3>2. QED
      BY <3>1
  <2>5. ASSUME NEW row \in some
        PROVE  \E at \in Instants : <<at, d, t>> = row
    <3>1. row \in RowsOf(Docs) /\ row[2] = d /\ row[3] = t
      BY <1>2, <2>1
    <3>2. row[1] \in Instants /\ row = <<row[1], row[2], row[3]>>
      BY <3>1, RowParts
    <3>3. QED
      BY <3>1, <3>2
  <2>6. SumFunctionOnSet(Owing, some) = Direction(t) * Sum(d, t)
    BY <2>3, <2>4, <2>5, TypeOwes
  <2>7. QED
    BY <1>3, <2>6 DEF some
<1>6. SumFunctionOnSet(Owing, rows) = SumFunctionOnSet(f, TransactionType)
  <2>1. \A row \in rows : typeOf[row] \in TransactionType
    BY <1>2
  <2>2. QED
    BY <1>4, <1>5, <2>1, TypesFinite, SumByKey
<1>7. QED
  BY <1>1, <1>3, <1>6, TypesMakeBalance

\* So do those of any set of documents to their balances: what the rows of
\* the documents book on receivables is what the ledger says they owe.
LEMMA DocumentsOwe ==
    ASSUME StoreInv, ReportsInv, NEW docs \in SUBSET Docs,
           NEW balance, \A d \in docs : balance[d] = Balance(d)
    PROVE  SumFunctionOnSet(Owing, RowsOf(docs)) = SumFunctionOnSet(balance, docs)
<1> DEFINE docOf == [row \in RowsOf(docs) |-> row[2]]
<1>1. IsFiniteSet(RowsOf(docs)) /\ IsFiniteSet(docs)
  BY RowsFinite, ReportsAssumption, FS_Subset
<1>2. \A row : row \in RowsOf(docs) <=> row \in RowsOf(Docs) /\ row[2] \in docs
  BY DEF RowsOf
<1>3. \A row \in RowsOf(docs) : docOf[row] = row[2] /\ docOf[row] \in docs
  BY <1>2
<1> HIDE DEF docOf
<1>4. \A row \in RowsOf(docs) : Owing[row] \in Int
  BY <1>2, BookedOnDebt DEF ReportsInv
<1>5. ASSUME NEW d \in docs
      PROVE  balance[d] = SumFunctionOnSet(Owing, Under(docOf, RowsOf(docs), d))
  <2> DEFINE some == Under(docOf, RowsOf(docs), d)
  <2>1. \A row : row \in some <=> row \in RowsOf(docs) /\ row[2] = d
    BY <1>3 DEF Under
  <2>2. some \in SUBSET RowsOf(docs)
    BY DEF Under
  <2> HIDE DEF some
  <2>3. IsFiniteSet(some)
    BY <1>1, <2>2, FS_Subset
  <2>4. \A row : row \in some <=> row \in RowsOf(Docs) /\ row[2] = d
    BY <1>2, <2>1
  <2>5. SumFunctionOnSet(Owing, some) = Balance(d)
    BY <2>3, <2>4, DocumentOwes
  <2>6. QED
    BY <2>5 DEF some
<1>6. \A row \in RowsOf(docs) : docOf[row] \in docs
  BY <1>3
<1>7. QED
  BY <1>1, <1>4, <1>5, <1>6, SumByKey

\* The file over all years books on account 1510, of any documents, what the
\* ledger says they owe.
LEMMA FileOwes ==
    ASSUME StoreInv, ReportsInv, NEW docs \in SUBSET Docs,
           NEW balance, \A d \in docs : balance[d] = Balance(d),
           NEW rows, \A row : row \in rows <=>
                        row \in RowsBetween(0, MaxNow + 1) /\ row[2] \in docs
    PROVE  Booked(<<"receivables", 0>>, rows) = SumFunctionOnSet(balance, docs)
<1> DEFINE w == [row \in rows |-> VerificationOf(row)[<<"receivables", 0>>]]
           all == RowsOf(docs)
<1>1. \A row : row \in all <=> row \in RowsOf(Docs) /\ row[2] \in docs
  BY DEF RowsOf
<1>2. \A row \in RowsOf(Docs) :
        row \in RowsBetween(0, MaxNow + 1) <=> EntryOf(row).rows > 0
  <2>1. \A row \in RowsOf(Docs) : row[1] >= 0 /\ row[1] < MaxNow + 1
    BY RowParts, BoundsAssumption DEF Instants
  <2>2. QED
    BY <2>1, RowsSelected
<1>3. rows \in SUBSET all
  BY <1>1, RowsSelected
<1>4. \A row \in all : /\ Owing[row] \in Int
                       /\ VerificationOf(row)[<<"receivables", 0>>] = Owing[row]
  BY <1>1, BookedOnDebt DEF ReportsInv
<1>5. IsFiniteSet(all)
  BY RowsFinite
<1>6. \A row \in rows : w[row] = VerificationOf(row)[<<"receivables", 0>>]
  OBVIOUS
<1>7. Booked(<<"receivables", 0>>, rows) = SumFunctionOnSet(w, rows)
  BY BookedIs
<1>8. ASSUME NEW row \in all \ rows
      PROVE  Owing[row] = 0
  <2>1. row \in RowsOf(Docs) /\ row[2] \in docs
    BY <1>1
  <2>2. ~(EntryOf(row).rows > 0)
    BY <1>2, <2>1
  <2>3. EntryOf(row).rows = 0
    BY <2>1, <2>2, EntryType DEF ReportsInv
  <2>4. EntryOf(row).sum = 0
    BY <2>1, <2>3, RowParts DEF ReportsInv, JournalInv
  <2>5. QED
    BY <2>1, <2>4 DEF Owing, Direction
<1> HIDE DEF w, all
<1>9. IsFiniteSet(rows) /\ IsFiniteSet(all \ rows)
  BY <1>3, <1>5, FS_Subset
<1>10. SumFunctionOnSet(w, rows) = SumFunctionOnSet(Owing, rows)
  <2>1. \A row \in rows : w[row] \in Int /\ w[row] = Owing[row]
    BY <1>3, <1>4, <1>6
  <2>2. QED
    BY <1>9, <2>1, SumSame
<1>11. SumFunctionOnSet(Owing, all)
         = SumFunctionOnSet(Owing, rows) + SumFunctionOnSet(Owing, all \ rows)
  <2>1. \A row \in all : Owing[row] \in Int
    BY <1>4
  <2>2. QED
    BY <1>3, <1>5, <2>1, SumSplit
<1>12. SumFunctionOnSet(Owing, all \ rows) = 0
  BY <1>8, <1>9, SumZero
<1>13. SumFunctionOnSet(Owing, rows) \in Int
  <2>1. \A row \in rows : Owing[row] \in Int
    BY <1>3, <1>4
  <2>2. QED
    BY <1>9, <2>1, SumType
<1>14. SumFunctionOnSet(Owing, all) = SumFunctionOnSet(balance, docs)
  BY DocumentsOwe DEF all
<1>15. QED
  BY <1>7, <1>10, <1>11, <1>12, <1>13, <1>14

\* What the dashboard adds up, column by column, is what its invoices show as
\* due, one by one.
LEMMA ColumnsAddUp ==
    ASSUME StoreInv, NEW docs \in SUBSET Docs,
           NEW due, \A d \in docs : due[d] = TotalDue(d)
    PROVE  SumOf(docs) = SumFunctionOnSet(due, docs)
<1> DEFINE gross == [d \in docs |-> invoice[d].gross]
           late  == [d \in docs |-> invoice[d].lateFee]
           fees  == [d \in docs |-> invoice[d].reminderFee]
           first == [d \in docs |-> invoice[d].gross + invoice[d].lateFee]
<1>1. IsFiniteSet(docs)
  BY ReportsAssumption, FS_Subset
<1>2. \A d \in docs : /\ invoice[d].gross \in Int /\ invoice[d].lateFee \in Int
                      /\ invoice[d].reminderFee \in Int
  BY Figures DEF StoreInv
<1>3. \A d \in docs : /\ gross[d] = invoice[d].gross /\ late[d] = invoice[d].lateFee
                      /\ fees[d] = invoice[d].reminderFee
                      /\ first[d] = invoice[d].gross + invoice[d].lateFee
  OBVIOUS
<1>4. DOMAIN gross = docs /\ DOMAIN late = docs /\ DOMAIN fees = docs
  OBVIOUS
<1>5. SumOf(docs) = SumFunctionOnSet(gross, DOMAIN gross)
                      + SumFunctionOnSet(late, DOMAIN late)
                      + SumFunctionOnSet(fees, DOMAIN fees)
  BY DEF SumOf, SumFunction
<1> HIDE DEF gross, late, fees, first
<1>6. SumFunctionOnSet(first, docs) = SumFunctionOnSet(gross, docs) + SumFunctionOnSet(late, docs)
  <2>1. \A d \in docs : /\ gross[d] \in Int /\ late[d] \in Int
                        /\ first[d] = gross[d] + late[d]
    BY <1>2, <1>3
  <2>2. QED
    BY <1>1, <2>1, SumAddsUp
<1>7. SumFunctionOnSet(due, docs) = SumFunctionOnSet(first, docs) + SumFunctionOnSet(fees, docs)
  <2>1. \A d \in docs : /\ first[d] \in Int /\ fees[d] \in Int
                        /\ due[d] = first[d] + fees[d]
    BY <1>2, <1>3 DEF TotalDue, TotalDueOre
  <2>2. QED
    BY <1>1, <2>1, SumAddsUp
<1>8. QED
  BY <1>4, <1>5, <1>6, <1>7

\* The buckets of the ageing list hold each open invoice once.
LEMMA BucketsAddUp ==
    ASSUME StoreInv, NEW due, \A d \in OpenInvoices : due[d] = TotalDue(d)
    PROVE  SumFunction(AgingTotals(now)) = SumFunctionOnSet(due, OpenInvoices)
<1> DEFINE aged == AgingTotals(now)
           key  == [d \in OpenInvoices |-> BucketOf(d, now)]
<1>1. OpenInvoices \in SUBSET Docs
  BY DEF OpenInvoices
<1>2. IsFiniteSet(OpenInvoices)
  BY <1>1, ReportsAssumption, FS_Subset
<1>3. IsFiniteSet(AGING_BUCKETS)
  <2>1. \A S, x : IsFiniteSet(S) => IsFiniteSet(S \cup {x})
    BY FS_AddElement
  <2>2. IsFiniteSet({"current"})
    BY FS_Singleton
  <2>3. IsFiniteSet({"current"} \cup {"days1to30"} \cup {"days31to60"}
                      \cup {"days61to90"} \cup {"over90"})
    BY <2>1, <2>2
  <2>4. AGING_BUCKETS = {"current"} \cup {"days1to30"} \cup {"days31to60"}
                          \cup {"days61to90"} \cup {"over90"}
    BY DEF AGING_BUCKETS
  <2>5. QED
    BY <2>3, <2>4
<1>4. \A d \in OpenInvoices : key[d] = BucketOf(d, now) /\ key[d] \in AGING_BUCKETS
  BY DEF BucketOf, AgingBucket, AGING_BUCKETS
<1>5. \A d \in OpenInvoices : due[d] \in Int
  BY <1>1, Figures DEF StoreInv, TotalDue, TotalDueOre
<1> HIDE DEF key
<1>6. ASSUME NEW bucket \in AGING_BUCKETS
      PROVE  aged[bucket] = SumFunctionOnSet(due, Under(key, OpenInvoices, bucket))
  <2> DEFINE some == {c \in OpenInvoices : BucketOf(c, now) = bucket}
             f == [d \in some |-> TotalDue(d)]
  <2>1. some = Under(key, OpenInvoices, bucket)
    BY <1>4 DEF Under
  <2>2. aged[bucket] = SumFunctionOnSet(f, DOMAIN f)
    BY DEF AgingTotals, SumFunction
  <2>3. DOMAIN f = some /\ some \in SUBSET OpenInvoices
    OBVIOUS
  <2>4. \A d \in some : f[d] = TotalDue(d)
    OBVIOUS
  <2> HIDE DEF some, f, aged
  <2>5. IsFiniteSet(some)
    BY <1>2, <2>3, FS_Subset
  <2>6. \A d \in some : f[d] \in Int /\ f[d] = due[d]
    BY <1>5, <2>3, <2>4
  <2>7. SumFunctionOnSet(f, some) = SumFunctionOnSet(due, some)
    BY <2>5, <2>6, SumSame
  <2>8. QED
    BY <2>1, <2>2, <2>3, <2>7
<1>7. SumFunction(aged) = SumFunctionOnSet(aged, AGING_BUCKETS)
  <2>1. DOMAIN aged = AGING_BUCKETS
    BY DEF AgingTotals
  <2> HIDE DEF aged
  <2>2. QED
    BY <2>1 DEF SumFunction
<1> HIDE DEF aged
<1>8. SumFunctionOnSet(due, OpenInvoices) = SumFunctionOnSet(aged, AGING_BUCKETS)
  <2>1. \A d \in OpenInvoices : key[d] \in AGING_BUCKETS
    BY <1>4
  <2>2. QED
    BY <1>2, <1>3, <1>5, <1>6, <2>1, SumByKey
<1>9. QED
  BY <1>7, <1>8 DEF aged

\* With one overdue worker the rows of an open invoice explain what it shows
\* as due, in every state of the reports.
LEMMA RowsExplainDebt ==
    ASSUME OneWorker
    PROVE  ReportsSpec => []LedgerExplainsDebt
<1>1. Spec => []LedgerExplainsDebt
  BY DebtExplained
<1>2. QED
  BY <1>1, ReportsKeepService, PTL

\* What is owed is one figure, by whichever way it is read.
LEMMA ReadingsAgree ==
    ASSUME StoreInv, ReportsInv, LedgerExplainsDebt
    PROVE  OutstandingAgrees
<1> DEFINE due     == [d \in Docs |-> TotalDue(d)]
           late    == {d \in Docs : IsOpen(d) /\ invoice[d].status = "OVERDUE"}
           open    == {row \in RowsBetween(0, MaxNow + 1) : IsOpen(row[2])}
           overdue == {row \in open : invoice[row[2]].status = "OVERDUE"}
<1>1. \A d \in Docs : due[d] = TotalDue(d)
  OBVIOUS
<1>2. \A d \in Docs : IsOpen(d) => due[d] = Balance(d)
  BY <1>1 DEF LedgerExplainsDebt, IsOpen, OpenStatuses, Issued
<1>3. /\ \A d : d \in OpenInvoices <=> d \in Docs /\ IsOpen(d)
      /\ OpenInvoices \in SUBSET Docs
  BY DEF OpenInvoices
<1>4. /\ \A d : d \in late <=> d \in Docs /\ IsOpen(d) /\ invoice[d].status = "OVERDUE"
      /\ late \in SUBSET Docs
  OBVIOUS
<1>5. \A row \in RowsBetween(0, MaxNow + 1) : row[2] \in Docs
  BY RowsSelected, RowParts
<1>6. \A row : row \in open <=> row \in RowsBetween(0, MaxNow + 1) /\ row[2] \in OpenInvoices
  BY <1>3, <1>5
<1>7. \A row : row \in overdue <=> row \in RowsBetween(0, MaxNow + 1) /\ row[2] \in late
  BY <1>4, <1>5
<1> HIDE DEF due, late, open, overdue
<1>8. SumOutstanding = SumFunctionOnSet(due, OpenInvoices)
  <2>1. \A d \in OpenInvoices : due[d] = TotalDue(d)
    BY <1>1, <1>3
  <2>2. SumOf(OpenInvoices) = SumFunctionOnSet(due, OpenInvoices)
    BY <1>3, <2>1, ColumnsAddUp
  <2>3. QED
    BY <2>2 DEF SumOutstanding, OpenInvoices
<1>9. SumOverdue = SumFunctionOnSet(due, late)
  <2>1. \A d \in late : due[d] = TotalDue(d)
    BY <1>1, <1>4
  <2>2. SumOf(late) = SumFunctionOnSet(due, late)
    BY <1>4, <2>1, ColumnsAddUp
  <2>3. QED
    BY <2>2 DEF SumOverdue, late
<1>10. SumFunction(AgingTotals(now)) = SumFunctionOnSet(due, OpenInvoices)
  <2>1. \A d \in OpenInvoices : due[d] = TotalDue(d)
    BY <1>1, <1>3
  <2>2. QED
    BY <2>1, BucketsAddUp
<1>11. Booked(<<"receivables", 0>>, open) = SumFunctionOnSet(due, OpenInvoices)
  <2>1. \A d \in OpenInvoices : due[d] = Balance(d)
    BY <1>2, <1>3
  <2>2. QED
    BY <1>3, <1>6, <2>1, FileOwes
<1>12. Booked(<<"receivables", 0>>, overdue) = SumFunctionOnSet(due, late)
  <2>1. \A d \in late : due[d] = Balance(d)
    BY <1>2, <1>4
  <2>2. QED
    BY <1>4, <1>7, <2>1, FileOwes
<1>13. QED
  BY <1>8, <1>9, <1>10, <1>11, <1>12 DEF OutstandingAgrees, open, overdue

\* With one overdue worker, the ageing list over its buckets, the dashboard
\* and account 1510 of the file say the same of what is owed and of the part
\* that is overdue, in every state that the handlers leave.
THEOREM OwedIsOneFigure ==
    ASSUME OneWorker
    PROVE  ReportsSpec => []OutstandingAgrees
<1>1. ReportsSpec => [](StoreInv /\ ReportsInv)
  BY TablesAgree
<1>2. ReportsSpec => []LedgerExplainsDebt
  BY RowsExplainDebt
<1>3. StoreInv /\ ReportsInv /\ LedgerExplainsDebt => OutstandingAgrees
  BY ReadingsAgree
<1>4. QED
  BY <1>1, <1>2, <1>3, PTL
=============================================================================
