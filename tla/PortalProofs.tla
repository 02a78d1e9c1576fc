---------------------------- MODULE PortalProofs ----------------------------
(***************************************************************************)
(* Theorems about Portal: for any invoices, clients and totals, and with   *)
(* no bound on the fetches in the air or on what is written.               *)
(***************************************************************************)
EXTENDS Portal, StoreProofs

-----------------------------------------------------------------------------
(* The rows and the ledger                                                 *)

Issued(inv, d) == inv[d].status \in {"SENT", "OVERDUE", "PAID", "CREDITED"}

\* What no transaction takes back of a row: a status is never returned to.
Onward(d) ==
    /\ invoice[d].status # "ABSENT" =>
        invoice'[d].status # "ABSENT" /\ invoice'[d].type = invoice[d].type
    /\ invoice[d].status \notin {"ABSENT", "DRAFT"} => invoice'[d].status # "DRAFT"
    /\ Issued(invoice, d) => Issued(invoice', d)
    /\ invoice[d].status \in {"PAID", "CREDITED"} =>
        invoice'[d].status = invoice[d].status

\* The ledger is empty until an invoice is sent, and then it says what the
\* row says for as long as the invoice is open.
BooksOf(d) ==
    /\ invoice[d].status \in {"ABSENT", "DRAFT"} =>
        /\ invoice[d].lateFee = 0 /\ invoice[d].reminderFee = 0
        /\ \A t \in TransactionType : Sum(d, t) = 0
    /\ IsOpen(d) => Balance(d) = TotalDue(d)

Books == \A d \in Docs : BooksOf(d)

\* One transaction of the store, as the handlers of Portal call it.
WritesOne(d) ==
    \/ \E n \in Nat, gross \in Int : CreateInvoiceWithItems(d, n, gross, 0)
    \/ MarkSent(d)
    \/ DeleteDraftInvoice(d)
    \/ \E amount \in Int : MarkPaidWithin(d, amount)
    \/ ChargeReminderFee(d, 1)
    \/ MarkReminderSent(d, 1)
    \/ ApplyOverdueTx(d, invoice[d].lateFee + 1, 1)

WritesTwo(d, note) ==
    \E n \in Nat, before \in [lateFee: Nat, reminderFee: Nat] :
        CreateCreditNote(d, note, n, before, 0)

StoreWrites ==
    /\ lastNumber' \in Nat /\ processed' = processed
    /\ \/ UNCHANGED <<invoice, ledger>>
       \/ \E d \in Docs : WritesOne(d)
       \/ \E d, note \in Docs : WritesTwo(d, note)

\* What a transaction leaves alone of a document is sound as it was.
LEMMA SameSound ==
    ASSUME NEW d \in Docs, BooksOf(d), Same(d)
    PROVE  Onward(d) /\ BooksOf(d)'
<1>1. invoice'[d] = invoice[d] /\ \A t \in TransactionType : Sum(d, t)' = Sum(d, t)
  BY DEF Same, Sum
<1>2. Balance(d)' = Balance(d)
  BY <1>1 DEF Balance, TransactionType
<1>3. QED
  BY <1>1, <1>2 DEF Onward, Issued, BooksOf, IsOpen, TotalDue

\* A transaction on one document keeps the books of that document, and never
\* takes its row back.
LEMMA OneSound ==
    ASSUME StoreTypeOK, NEW d \in Docs, BooksOf(d), WritesOne(d)
    PROVE  (\A e \in Docs \ {d} : Same(e)) /\ Onward(d) /\ BooksOf(d)'
<1>1. /\ invoice[d] \in InvoiceRow
      /\ \A t \in TransactionType : Sum(d, t) \in Int
      /\ invoice[d].lateFee + 1 \in Nat /\ invoice[d].gross \in Int
  BY DEF StoreTypeOK, InvoiceRow, Entry, Sum
<1> DEFINE Good == (\A e \in Docs \ {d} : Same(e)) /\ Onward(d) /\ BooksOf(d)'
<1>2. ASSUME NEW n \in Nat, NEW gross \in Int, CreateInvoiceWithItems(d, n, gross, 0)
      PROVE  Good
  <2>1. CreateChanges(d, n, gross, 0)
    BY <1>2, CreateEffect
  <2>2. /\ \A e \in Docs \ {d} : Same(e)
        /\ invoice[d].status = "ABSENT" /\ invoice'[d].status = "DRAFT"
        /\ invoice'[d].lateFee = 0 /\ invoice'[d].reminderFee = 0
        /\ AddsNothing(d)
    BY <2>1, PostsAdds DEF CreateChanges, NoRow
  <2>3. Onward(d)
    BY <2>2 DEF Onward, Issued
  <2>4. BooksOf(d)'
    BY <2>2 DEF BooksOf, AddsNothing, IsOpen, OpenStatuses
  <2>5. QED
    BY <2>2, <2>3, <2>4
<1>3. ASSUME MarkSent(d) PROVE Good
  <2>1. /\ \A e \in Docs \ {d} : Same(e)
        /\ invoice[d].status = "DRAFT"
        /\ invoice'[d] = [invoice[d] EXCEPT !.status = "SENT"]
        /\ Posts(d, "INVOICE_CREATED", invoice[d].gross)
    BY <1>3, SendEffect DEF MarkSent, IsDraft
  <2>2. Adds(d, "INVOICE_CREATED", invoice[d].gross)
    BY <1>1, <2>1, PostsAdds DEF TransactionType
  <2>3. /\ invoice'[d].status = "SENT" /\ invoice'[d].gross = invoice[d].gross
        /\ invoice'[d].lateFee = invoice[d].lateFee
        /\ invoice'[d].reminderFee = invoice[d].reminderFee
        /\ invoice'[d].type = invoice[d].type
    BY <1>1, <2>1 DEF InvoiceRow
  <2>4. Onward(d)
    BY <2>1, <2>3 DEF Onward, Issued
  <2>5. Balance(d)' = TotalDue(d)'
    BY <1>1, <2>1, <2>2, <2>3 DEF BooksOf, Adds, Balance, TotalDue, TotalDueOre, TransactionType
  <2>6. QED
    BY <2>1, <2>3, <2>4, <2>5 DEF BooksOf
<1>4. ASSUME DeleteDraftInvoice(d) PROVE Good
  <2>1. /\ \A e \in Docs \ {d} : Same(e)
        /\ invoice[d].status = "DRAFT"
        /\ invoice'[d].status = "DELETED" /\ invoice'[d].type = invoice[d].type
    <3>1. invoice'[d] = [invoice[d] EXCEPT !.status = "DELETED"]
      BY <1>4, DeleteEffect
    <3>2. (\A e \in Docs \ {d} : Same(e)) /\ invoice[d].status = "DRAFT"
      BY <1>4, DeleteEffect DEF DeleteDraftInvoice, IsDraft
    <3>3. QED
      BY <1>1, <3>1, <3>2 DEF InvoiceRow
  <2>2. QED
    BY <2>1 DEF Onward, Issued, BooksOf, IsOpen, OpenStatuses
<1>5. ASSUME NEW amount \in Int, MarkPaidWithin(d, amount) PROVE Good
  <2>1. /\ \A e \in Docs \ {d} : Same(e)
        /\ invoice[d].status \in {"SENT", "OVERDUE"}
        /\ invoice'[d].status = "PAID" /\ invoice'[d].type = invoice[d].type
    <3>1. invoice'[d] = [invoice[d] EXCEPT !.status = "PAID"]
      BY <1>5, PayEffect
    <3>2. (\A e \in Docs \ {d} : Same(e)) /\ invoice[d].status \in {"SENT", "OVERDUE"}
      BY <1>5, PayEffect DEF MarkPaidWithin, IsOpen, OpenStatuses
    <3>3. QED
      BY <1>1, <3>1, <3>2 DEF InvoiceRow
  <2>2. QED
    BY <2>1 DEF Onward, Issued, BooksOf, IsOpen, OpenStatuses
<1>6. ASSUME ChargeReminderFee(d, 1) PROVE Good
  <2>1. /\ \A e \in Docs \ {d} : Same(e)
        /\ invoice[d].type = "INVOICE" /\ invoice[d].status \in {"SENT", "OVERDUE"}
        /\ invoice[d].reminderFee = 0
        /\ invoice'[d] = [invoice[d] EXCEPT !.reminderFee = REMINDER_FEE_ORE,
                                            !.reminderSentAt = 1]
        /\ Posts(d, "REMINDER_FEE_ADDED", REMINDER_FEE_ORE)
    BY <1>6, ChargeEffect DEF ChargeReminderFee, NotYetReminded, IsOpen, OpenStatuses
  <2>2. Adds(d, "REMINDER_FEE_ADDED", 6000)
    BY <2>1, PostsAdds DEF TransactionType, REMINDER_FEE_ORE
  <2>3. /\ invoice'[d].status = invoice[d].status /\ invoice'[d].gross = invoice[d].gross
        /\ invoice'[d].lateFee = invoice[d].lateFee
        /\ invoice'[d].reminderFee = 6000
        /\ invoice'[d].type = invoice[d].type
    BY <1>1, <2>1 DEF InvoiceRow, REMINDER_FEE_ORE
  <2>4. Onward(d)
    BY <2>1, <2>3 DEF Onward, Issued
  <2>5. Balance(d) = TotalDue(d)
    BY <2>1 DEF BooksOf, IsOpen, OpenStatuses
  <2>6. Balance(d)' = Balance(d) + 6000
    BY <1>1, <2>2 DEF Adds, Balance, TransactionType
  <2>7. TotalDue(d)' = TotalDue(d) + 6000
    BY <1>1, <2>1, <2>3 DEF TotalDue, TotalDueOre, InvoiceRow
  <2>8. QED
    BY <2>1, <2>3, <2>4, <2>5, <2>6, <2>7 DEF BooksOf
<1>7. ASSUME MarkReminderSent(d, 1) PROVE Good
  <2>1. /\ \A e \in Docs \ {d} : Same(e)
        /\ invoice'[d] = [invoice[d] EXCEPT !.reminderSentAt = 1]
        /\ AddsNothing(d)
    BY <1>7, StampEffect, PostsAdds
  <2>2. /\ invoice'[d].status = invoice[d].status /\ invoice'[d].gross = invoice[d].gross
        /\ invoice'[d].lateFee = invoice[d].lateFee
        /\ invoice'[d].reminderFee = invoice[d].reminderFee
        /\ invoice'[d].type = invoice[d].type
    BY <1>1, <2>1 DEF InvoiceRow
  <2>3. Onward(d)
    BY <2>2 DEF Onward, Issued
  <2>4. Balance(d)' = Balance(d) /\ \A t \in TransactionType : Sum(d, t)' = Sum(d, t)
    BY <2>1 DEF AddsNothing, Balance, TransactionType
  <2>5. TotalDue(d)' = TotalDue(d) /\ (IsOpen(d)' <=> IsOpen(d))
    BY <2>2 DEF TotalDue, IsOpen
  <2>6. QED
    BY <2>1, <2>2, <2>3, <2>4, <2>5 DEF BooksOf
<1>8. ASSUME ApplyOverdueTx(d, invoice[d].lateFee + 1, 1) PROVE Good
  <2>1. /\ \A e \in Docs \ {d} : Same(e)
        /\ invoice[d].type = "INVOICE" /\ invoice[d].status \in {"SENT", "OVERDUE"}
        /\ invoice'[d] = [invoice[d] EXCEPT !.status = "OVERDUE",
                                            !.lateFee = invoice[d].lateFee + 1]
        /\ Posts(d, "LATE_FEE_ADDED", 1)
    <3>1. PICK fee \in Nat : fee = invoice[d].lateFee + 1
      BY <1>1
    <3>2. /\ \A e \in Docs \ {d} : Same(e)
          /\ invoice'[d] = [invoice[d] EXCEPT !.status = "OVERDUE", !.lateFee = fee]
          /\ Posts(d, "LATE_FEE_ADDED", 1)
      <4>1. ApplyOverdueTx(d, fee, 1) /\ 1 \in Int /\ 1 > 0
        BY <1>8, <3>1
      <4>2. QED
        BY <4>1, OverdueEffect
    <3>3. QED
      BY <1>8, <3>1, <3>2 DEF ApplyOverdueTx, IsOpen, OpenStatuses
  <2>2. Adds(d, "LATE_FEE_ADDED", 1)
    BY <2>1, PostsAdds DEF TransactionType
  <2>3. /\ invoice'[d].status = "OVERDUE" /\ invoice'[d].gross = invoice[d].gross
        /\ invoice'[d].lateFee = invoice[d].lateFee + 1
        /\ invoice'[d].reminderFee = invoice[d].reminderFee
        /\ invoice'[d].type = invoice[d].type
    BY <1>1, <2>1 DEF InvoiceRow
  <2>4. Onward(d)
    BY <2>1, <2>3 DEF Onward, Issued
  <2>5. Balance(d) = TotalDue(d)
    BY <2>1 DEF BooksOf, IsOpen, OpenStatuses
  <2>6. Balance(d)' = Balance(d) + 1
    BY <1>1, <2>2 DEF Adds, Balance, TransactionType
  <2>7. TotalDue(d)' = TotalDue(d) + 1
    BY <1>1, <2>3 DEF TotalDue, TotalDueOre, InvoiceRow
  <2>8. QED
    BY <2>1, <2>3, <2>4, <2>5, <2>6, <2>7 DEF BooksOf
<1>9. QED
  BY <1>2, <1>3, <1>4, <1>5, <1>6, <1>7, <1>8 DEF WritesOne

\* A credit closes its original and adds a note, which is never open: the
\* WHERE clauses of a receivable's writes name the type.
LEMMA TwoSound ==
    ASSUME StoreTypeOK, NEW d \in Docs, NEW note \in Docs, WritesTwo(d, note)
    PROVE  /\ \A e \in Docs \ {d, note} : Same(e)
           /\ \A e \in {d, note} : Onward(e) /\ BooksOf(e)'
<1>1. PICK n \in Nat, before \in [lateFee: Nat, reminderFee: Nat] :
            CreateCreditNote(d, note, n, before, 0)
  BY DEF WritesTwo
<1>2. CreditChanges(d, note, n, before, 0)
  BY <1>1, CreditEffect
<1>3. invoice[d] \in InvoiceRow /\ invoice[d].status \in {"SENT", "OVERDUE"}
  BY <1>1 DEF StoreTypeOK, CreateCreditNote, IsOpen, OpenStatuses
<1>4. /\ \A e \in Docs \ {d, note} : Same(e)
      /\ invoice'[d] = [invoice[d] EXCEPT !.status = "CREDITED"]
      /\ invoice[note].status = "ABSENT"
      /\ invoice'[note].status = "SENT" /\ invoice'[note].type = "CREDIT_NOTE"
  BY <1>2 DEF CreditChanges, NoRow
<1>5. invoice'[d].status = "CREDITED" /\ invoice'[d].type = invoice[d].type
  BY <1>3, <1>4 DEF InvoiceRow
<1>6. Onward(d) /\ BooksOf(d)'
  BY <1>3, <1>5 DEF Onward, Issued, BooksOf, IsOpen, OpenStatuses
<1>7. Onward(note) /\ BooksOf(note)'
  BY <1>4 DEF Onward, Issued, BooksOf, IsOpen, OpenStatuses
<1>8. QED
  BY <1>4, <1>6, <1>7

\* The three facts of the store that the pages rest on.
LEMMA StoreSound ==
    ASSUME StoreTypeOK, Books, StoreWrites
    PROVE  StoreTypeOK' /\ Books' /\ \A d \in Docs : Onward(d)
<1>1. ASSUME UNCHANGED <<invoice, ledger>>
      PROVE  WritesOK /\ \A d \in Docs : Same(d)
  BY <1>1 DEF StoreTypeOK, WritesOK, Ledger, Same
<1>2. ASSUME NEW d \in Docs, WritesOne(d)
      PROVE  WritesOK
  <2>1. invoice[d].lateFee + 1 \in Nat
    BY DEF StoreTypeOK, InvoiceRow
  <2>2. QED
    BY <1>2, <2>1, StoreWritesType DEF WritesOne
<1>3. ASSUME NEW d \in Docs, NEW note \in Docs, WritesTwo(d, note)
      PROVE  WritesOK
  BY <1>3, StoreWritesType DEF WritesTwo
<1>4. WritesOK
  BY <1>1, <1>2, <1>3 DEF StoreWrites
<1>5. StoreTypeOK'
  BY <1>4 DEF StoreTypeOK, WritesOK, StoreWrites, Ledger
<1>6. \A e \in Docs : Onward(e) /\ BooksOf(e)'
  <2> SUFFICES ASSUME NEW e \in Docs PROVE Onward(e) /\ BooksOf(e)'
    OBVIOUS
  <2>1. BooksOf(e)
    BY DEF Books
  <2>2. CASE Same(e)
    BY <2>1, <2>2, SameSound
  <2>3. ASSUME NEW d \in Docs, WritesOne(d), ~Same(e)
        PROVE  Onward(e) /\ BooksOf(e)'
    <3>1. e = d
      BY <2>3, OneSound DEF Books
    <3>2. QED
      BY <2>1, <2>3, <3>1, OneSound
  <2>4. ASSUME NEW d \in Docs, NEW note \in Docs, WritesTwo(d, note), ~Same(e)
        PROVE  Onward(e) /\ BooksOf(e)'
    <3>1. e \in {d, note}
      BY <2>4, TwoSound
    <3>2. QED
      BY <2>4, <3>1, TwoSound
  <2>5. QED
    BY <1>1, <2>2, <2>3, <2>4 DEF StoreWrites
<1>7. QED
  BY <1>5, <1>6 DEF Books

\* Crediting waives the fees as the row has them at that moment: here the
\* read and the guarded update are one step.
LEMMA CreditWrites ==
    ASSUME StoreTypeOK, NEW d \in Docs, NEW note \in Docs, IssueCreditNote(d, note)
    PROVE  WritesTwo(d, note) /\ lastNumber' \in Nat
<1> DEFINE fees == [lateFee |-> invoice[d].lateFee, reminderFee |-> invoice[d].reminderFee]
<1>1. fees \in [lateFee: Nat, reminderFee: Nat] /\ NextNumber \in Nat
  BY DEF StoreTypeOK, InvoiceRow, NextNumber
<1>2. fees.lateFee = invoice[d].lateFee /\ fees.reminderFee = invoice[d].reminderFee
  OBVIOUS
<1>3. CreateCreditNote(d, note, NextNumber, invoice[d], 0)
  BY DEF IssueCreditNote
<1> HIDE DEF fees
<1>4. CreateCreditNote(d, note, NextNumber, fees, 0)
  BY <1>2, <1>3, Zenon DEF CreateCreditNote
<1>5. QED
  BY <1>1, <1>4 DEF WritesTwo, IssueCreditNote, AllocateInvoiceNumber

\* What the handlers and everyone else do to the tables.
LEMMA NextWrites ==
    ASSUME PortalTypeOK, [Next]_vars
    PROVE  StoreWrites
<1>1. StoreTypeOK /\ lastNumber \in Nat /\ NextNumber \in Nat
  BY DEF PortalTypeOK, StoreTypeOK, NextNumber
<1>2. UNCHANGED storeVars => StoreWrites
  BY <1>1 DEF storeVars, StoreWrites
<1>3. ASSUME NEW d \in Docs, NEW c \in Clients, NEW gross \in GrossTotals,
             Create(d, c, gross), processed' = processed
      PROVE  StoreWrites
  <2>1. gross \in Int
    BY PortalAssumption
  <2>2. QED
    BY <1>1, <1>3, <2>1 DEF Create, AllocateInvoiceNumber, StoreWrites, WritesOne
<1>4. ASSUME NEW d \in Docs, NEW note \in Docs, IssueCreditNote(d, note),
             processed' = processed
      PROVE  StoreWrites
  BY <1>1, <1>4, CreditWrites DEF StoreWrites
<1>5. ASSUME NEW d \in Docs, WritesOne(d), UNCHANGED <<lastNumber, processed>>
      PROVE  StoreWrites
  BY <1>1, <1>5 DEF StoreWrites
<1>6. ASSUME NEW d \in Docs, WrittenElsewhere(d)
      PROVE  StoreWrites
  <2>1. TotalDue(d) \in Int
    BY <1>1 DEF StoreTypeOK, InvoiceRow, TotalDue, TotalDueOre
  <2>2. WritesOne(d)
    BY <1>6, <2>1 DEF WrittenElsewhere, WritesOne
  <2>3. QED
    BY <1>5, <1>6, <2>2 DEF WrittenElsewhere
<1>7. Browse => UNCHANGED storeVars
  BY DEF Browse, Visit, ServeFetch, FetchArrives, FetchFails, TurnsStale
<1>8. ServeCreate => StoreWrites
  BY <1>3 DEF ServeCreate
<1>9. ServeSend \/ ServeRemind => StoreWrites
  <2>1. ASSUME ServeSend \/ ServeRemind
        PROVE  acting.doc \in Docs /\ UNCHANGED <<lastNumber, processed>>
    BY <2>1 DEF PortalTypeOK, ServeSend, ServeRemind
  <2>2. ServeSend => WritesOne(acting.doc)
    BY DEF ServeSend, WritesOne
  <2>3. ServeRemind => WritesOne(acting.doc)
    BY DEF ServeRemind, Remind, WritesOne
  <2>4. QED
    BY <1>5, <2>1, <2>2, <2>3
<1>10. ServeCredit => StoreWrites
  <2>1. ServeCredit => acting.doc \in Docs
    BY DEF PortalTypeOK, ServeCredit
  <2>2. QED
    BY <1>4, <2>1 DEF ServeCredit
<1>11. ServeLink \/ Refuse \/ HearInvalidating \/ HearOther \/ ActFails => UNCHANGED storeVars
  BY DEF ServeLink, Refuse, HearInvalidating, HearOther, ActFails
<1>12. Begun => StoreWrites
  <2>1. PressCreate \/ (\E op \in {"send", "remind", "link", "credit"} : Press(op))
            => UNCHANGED storeVars
    BY DEF PressCreate, Press
  <2>2. CreatedElsewhere => StoreWrites
    BY <1>3 DEF CreatedElsewhere
  <2>3. ASSUME NEW d \in Docs, CreditedElsewhere(d) PROVE StoreWrites
    BY <1>4, <2>3 DEF CreditedElsewhere
  <2>4. QED
    BY <1>2, <1>6, <2>1, <2>2, <2>3 DEF Begun
<1>13. UNCHANGED vars => UNCHANGED storeVars
  BY DEF vars
<1>14. QED
  BY <1>2, <1>7, <1>8, <1>9, <1>10, <1>11, <1>12, <1>13 DEF Next, Answered

-----------------------------------------------------------------------------
(* The copies                                                              *)

\* What a step does to the fetch of a key, and to its copy.
FlightStep(k) ==
    \/ flight'[k] \in {flight[k], Asked, NoFlight}
    \/ k \in Keys /\ flight'[k] = [pc |-> "answered", rows |-> Answer(k), missed |-> "no"]
    \/ \E m \in Missed : flight'[k] = [flight[k] EXCEPT !.missed = m]

CopyState == {"none", "fresh", "stale"}

CacheStep(k) ==
    \/ \E s \in CopyState, m \in Missed :
        cache'[k] = [cache[k] EXCEPT !.missed = m, !.state = s]
    \/ \E s \in CopyState : cache'[k] = [cache[k] EXCEPT !.rows = NoRows, !.state = s]
    \/ cache'[k] = [rows |-> flight[k].rows, state |-> "fresh", missed |-> flight[k].missed]

KeysStep ==
    /\ flight' = [k \in Keys |-> flight'[k]] /\ cache' = [k \in Keys |-> cache'[k]]
    /\ \A k \in Keys : FlightStep(k) /\ CacheStep(k)

\* The fields of a copy and of a fetch, and what rewrites them.
LEMMA CopyFields ==
    ASSUME NEW c, IsCopy(c)
    PROVE  /\ c.state \in CopyState /\ c.missed \in Missed
           /\ c.rows = [d \in DOMAIN c.rows |-> c.rows[d]]
           /\ DOMAIN c.rows \subseteq Docs
           /\ \A d \in DOMAIN c.rows : c.rows[d] \in PublicRow
           /\ c = [c EXCEPT !.missed = c.missed, !.state = c.state]
           /\ \A m \in Missed, s \in CopyState :
                /\ IsCopy([c EXCEPT !.missed = m, !.state = s])
                /\ [c EXCEPT !.missed = m, !.state = s].rows = c.rows
                /\ [c EXCEPT !.missed = m] = [c EXCEPT !.missed = m, !.state = c.state]
                /\ [c EXCEPT !.state = s] = [c EXCEPT !.missed = c.missed, !.state = s]
                /\ IsCopy([c EXCEPT !.rows = NoRows, !.state = s])
                /\ [c EXCEPT !.rows = NoRows, !.state = s].rows = NoRows
<1>1. PICK S \in SUBSET Docs :
        c \in [rows: [S -> PublicRow], state: {"none", "fresh", "stale"}, missed: Missed]
  BY DEF IsCopy
<1>2. NoRows \in [{} -> PublicRow] /\ {} \in SUBSET Docs
  BY DEF NoRows
<1>3. /\ c.state \in CopyState /\ c.missed \in Missed /\ c.rows \in [S -> PublicRow]
      /\ c = [c EXCEPT !.missed = c.missed, !.state = c.state]
  BY <1>1 DEF CopyState
<1>4. ASSUME NEW m \in Missed, NEW s \in CopyState
      PROVE  /\ [c EXCEPT !.missed = m, !.state = s] \in
                  [rows: [S -> PublicRow], state: {"none", "fresh", "stale"}, missed: Missed]
             /\ [c EXCEPT !.missed = m, !.state = s].rows = c.rows
             /\ [c EXCEPT !.missed = m] = [c EXCEPT !.missed = m, !.state = c.state]
             /\ [c EXCEPT !.state = s] = [c EXCEPT !.missed = c.missed, !.state = s]
             /\ [c EXCEPT !.rows = NoRows, !.state = s] \in
                  [rows: [{} -> PublicRow], state: {"none", "fresh", "stale"}, missed: Missed]
             /\ [c EXCEPT !.rows = NoRows, !.state = s].rows = NoRows
  BY <1>1, <1>2 DEF CopyState
<1>5. QED
  BY <1>2, <1>3, <1>4 DEF IsCopy

\* A fetch in the air holds known documents, and becomes a copy when it lands.
LEMMA FlightFields ==
    ASSUME NEW f, IsFlight(f)
    PROVE  /\ f.pc \in {"none", "asked", "answered"} /\ f.missed \in Missed
           /\ DOMAIN f.rows \subseteq Docs
           /\ \A d \in DOMAIN f.rows : f.rows[d] \in PublicRow
           /\ \A m \in Missed :
                /\ IsFlight([f EXCEPT !.missed = m])
                /\ [f EXCEPT !.missed = m].rows = f.rows
           /\ IsCopy([rows |-> f.rows, state |-> "fresh", missed |-> f.missed])
<1>1. PICK S \in SUBSET Docs :
        f \in [pc: {"none", "asked", "answered"}, rows: [S -> PublicRow], missed: Missed]
  BY DEF IsFlight
<1>2. /\ f.pc \in {"none", "asked", "answered"} /\ f.missed \in Missed
      /\ f.rows \in [S -> PublicRow]
  BY <1>1
<1>3. \A m \in Missed :
        /\ [f EXCEPT !.missed = m] \in
             [pc: {"none", "asked", "answered"}, rows: [S -> PublicRow], missed: Missed]
        /\ [f EXCEPT !.missed = m].rows = f.rows
  BY <1>1
<1>4. QED
  BY <1>2, <1>3 DEF IsFlight, IsCopy

\* The fetches and the copy the pages start with are well formed.
LEMMA ConstantFlights ==
    /\ IsFlight(NoFlight) /\ IsFlight(Asked) /\ IsCopy(NoCopy)
    /\ NoFlight.rows = NoRows /\ Asked.rows = NoRows /\ NoCopy.rows = NoRows
    /\ NoFlight.missed = "no" /\ Asked.missed = "no"
<1>1. NoRows \in [{} -> PublicRow] /\ {} \in SUBSET Docs
  BY DEF NoRows
<1> HIDE DEF NoRows
<1>2. QED
  BY <1>1 DEF NoFlight, Asked, NoCopy, IsFlight, IsCopy, Missed

\* An answer lists rows that exist, as they are.
LEMMA AnswerType ==
    ASSUME StoreTypeOK, NEW k \in Keys
    PROVE  /\ IsFlight([pc |-> "answered", rows |-> Answer(k), missed |-> "no"])
           /\ DOMAIN Answer(k) \subseteq Docs
           /\ \A d \in DOMAIN Answer(k) :
                Exists(d) /\ Answer(k)[d].type = invoice[d].type
                          /\ Answer(k)[d].status = invoice[d].status
<1> DEFINE S == IF k = "invoices" THEN FirstPage(Visible) ELSE Visible \cap {k}
<1>1. S \in SUBSET Docs /\ \A d \in S : Exists(d)
  BY DEF FirstPage, Visible
<1>2. Answer(k) = [d \in S |-> ToPublicInvoice(d)]
  BY DEF Answer
<1> HIDE DEF S
<1>3. \A d \in S : ToPublicInvoice(d) \in PublicRow
  BY <1>1 DEF StoreTypeOK, InvoiceRow, ToPublicInvoice, PublicRow, Exists, TotalDue, TotalDueOre
<1>4. Answer(k) \in [S -> PublicRow]
  BY <1>2, <1>3
<1>5. \A d \in S : Answer(k)[d].type = invoice[d].type /\ Answer(k)[d].status = invoice[d].status
  BY <1>2 DEF ToPublicInvoice
<1>6. QED
  BY <1>1, <1>4, <1>5 DEF IsFlight, Missed

\* Told and Overtaken rewrite one field, or nothing.
LEMMA Retold ==
    ASSUME NEW c, NEW how \in Missed, NEW read \in BOOLEAN, c.missed \in Missed
    PROVE  /\ Told(c, how) = c \/ Told(c, how) = [c EXCEPT !.missed = how]
           /\ Overtaken(c, read) = c \/ Overtaken(c, read) = [c EXCEPT !.missed = "pending"]
BY DEF Told, Overtaken

\* The forms in which the actions write a copy.
LEMMA CopyForms ==
    ASSUME NEW k \in Keys, IsCopy(cache[k])
    PROVE  /\ cache'[k] = cache[k] => CacheStep(k)
           /\ \A m \in Missed : cache'[k] = [cache[k] EXCEPT !.missed = m] => CacheStep(k)
           /\ \A s \in CopyState : cache'[k] = [cache[k] EXCEPT !.state = s] => CacheStep(k)
<1>1. PICK c : c = cache[k]
  OBVIOUS
<1>2. /\ c.state \in CopyState /\ c.missed \in Missed
      /\ c = [c EXCEPT !.missed = c.missed, !.state = c.state]
      /\ \A m \in Missed : [c EXCEPT !.missed = m] = [c EXCEPT !.missed = m, !.state = c.state]
      /\ \A s \in CopyState : [c EXCEPT !.state = s] = [c EXCEPT !.missed = c.missed, !.state = s]
  <2>1. IsCopy(c)
    BY <1>1
  <2>2. PICK S \in SUBSET Docs :
            c \in [rows: [S -> PublicRow], state: CopyState, missed: Missed]
    BY <2>1 DEF IsCopy, CopyState
  <2>3. QED
    BY <2>2
<1> DEFINE Rewritten ==
        \E s \in CopyState, m \in Missed :
            cache'[k] = [cache[k] EXCEPT !.missed = m, !.state = s]
<1>3. ASSUME NEW m \in Missed, NEW s \in CopyState,
             cache'[k] = [c EXCEPT !.missed = m, !.state = s]
      PROVE  CacheStep(k)
  <2>1. Rewritten
    BY <1>1, <1>3
  <2>2. QED
    BY <2>1, Zenon DEF CacheStep
<1>4. ASSUME NEW m \in Missed, cache'[k] = [c EXCEPT !.missed = m] PROVE CacheStep(k)
  <2>1. cache'[k] = [c EXCEPT !.missed = m, !.state = c.state]
    BY <1>2, <1>4, Zenon
  <2>2. QED
    BY <1>2, <1>3, <2>1
<1>5. ASSUME NEW s \in CopyState, cache'[k] = [c EXCEPT !.state = s] PROVE CacheStep(k)
  <2>1. cache'[k] = [c EXCEPT !.missed = c.missed, !.state = s]
    BY <1>2, <1>5, Zenon
  <2>2. QED
    BY <1>2, <1>3, <2>1
<1>6. cache'[k] = c => CacheStep(k)
  <2>1. SUFFICES ASSUME cache'[k] = c PROVE CacheStep(k)
    OBVIOUS
  <2>2. cache'[k] = [c EXCEPT !.missed = c.missed, !.state = c.state]
    BY <1>2, <2>1, Zenon
  <2>3. QED
    BY <1>2, <1>3, <2>2
<1>7. QED
  BY <1>1, <1>4, <1>5, <1>6, Zenon

\* A write of this user's own marks what was read of the row.
LEMMA OvertakenKeys ==
    ASSUME PortalTypeOK, NEW d, AllOvertaken(d)
    PROVE  KeysStep
<1>1. /\ flight' = [k \in Keys |-> flight'[k]] /\ cache' = [k \in Keys |-> cache'[k]]
  BY DEF AllOvertaken
<1>2. ASSUME NEW k \in Keys
      PROVE  FlightStep(k) /\ CacheStep(k)
  <2>1. IsCopy(cache[k]) /\ IsFlight(flight[k]) /\ "pending" \in Missed
    BY DEF PortalTypeOK, Missed
  <2>2. cache'[k] = cache[k] \/ cache'[k] = [cache[k] EXCEPT !.missed = "pending"]
    BY DEF AllOvertaken, Overtaken
  <2>3. flight'[k] = flight[k] \/ flight'[k] = [flight[k] EXCEPT !.missed = "pending"]
    BY DEF AllOvertaken, Overtaken
  <2>4. CacheStep(k)
    BY <2>1, <2>2, CopyForms
  <2>5. QED
    BY <2>1, <2>3, <2>4 DEF FlightStep
<1>3. QED
  BY <1>1, <1>2 DEF KeysStep

\* What no step says of a key stays.
LEMMA KeysStay ==
    ASSUME PortalTypeOK
    PROVE  /\ cache = [k \in Keys |-> cache[k]] /\ flight = [k \in Keys |-> flight[k]]
           /\ cache' = cache =>
                cache' = [k \in Keys |-> cache'[k]] /\ \A k \in Keys : CacheStep(k)
           /\ flight' = flight =>
                flight' = [k \in Keys |-> flight'[k]] /\ \A k \in Keys : FlightStep(k)
<1>1. \A k \in Keys : IsCopy(cache[k]) /\ IsFlight(flight[k])
  BY DEF PortalTypeOK
<1>2. cache' = cache => \A k \in Keys : CacheStep(k)
  BY <1>1, CopyForms
<1>3. QED
  BY <1>2 DEF PortalTypeOK, FlightStep

\* Mounting starts a fetch or shares one.
LEMMA MountKeys ==
    ASSUME PortalTypeOK, NEW p, GoTo(p)
    PROVE  flight' = [k \in Keys |-> flight'[k]] /\ \A k \in Keys : FlightStep(k)
<1>1. flight = [k \in Keys |-> flight[k]]
  BY DEF PortalTypeOK
<1>2. CASE p \notin Keys
  BY <1>2, KeysStay DEF GoTo
<1>3. CASE p \in Keys
  <2>1. flight' = [flight EXCEPT ![p] = MountedFlight(p)]
    BY <1>3 DEF GoTo
  <2>2. \A k \in Keys : flight'[k] \in {flight[k], Asked}
    BY <1>1, <2>1 DEF MountedFlight
  <2>3. flight' = [k \in Keys |-> flight'[k]]
    BY <1>1, <2>1
  <2>4. QED
    BY <2>2, <2>3 DEF FlightStep
<1>4. QED
  BY <1>2, <1>3

\* Every step does one of these to each key.
LEMMA NextKeys ==
    ASSUME PortalTypeOK, [Next]_vars
    PROVE  KeysStep
<1>1. /\ cache = [k \in Keys |-> cache[k]] /\ flight = [k \in Keys |-> flight[k]]
      /\ \A k \in Keys : IsCopy(cache[k]) /\ IsFlight(flight[k])
      /\ \A k \in Keys : cache[k].missed \in Missed /\ flight[k].missed \in Missed
                         /\ cache[k].state \in CopyState
  BY CopyFields, FlightFields DEF PortalTypeOK
<1>2. UNCHANGED <<cache, flight>> => KeysStep
  BY KeysStay DEF KeysStep
<1>3. ASSUME NEW p, GoTo(p), cache' = cache PROVE KeysStep
  BY <1>3, KeysStay, MountKeys DEF KeysStep
<1>4. ASSUME NEW k \in Keys, ServeFetch(k) PROVE KeysStep
  <2>1. /\ flight' = [flight EXCEPT ![k] = [pc |-> "answered", rows |-> Answer(k), missed |-> "no"]]
        /\ cache' = cache
    BY <1>4 DEF ServeFetch
  <2>2. flight' = [j \in Keys |-> flight'[j]] /\ \A j \in Keys : FlightStep(j)
    BY <1>1, <2>1 DEF FlightStep
  <2>3. QED
    BY <2>1, <2>2, KeysStay DEF KeysStep
<1>5. ASSUME NEW k \in Keys, FetchArrives(k) PROVE KeysStep
  <2>1. flight' = [flight EXCEPT ![k] = NoFlight]
    BY <1>5 DEF FetchArrives
  <2>2. flight' = [j \in Keys |-> flight'[j]] /\ \A j \in Keys : FlightStep(j)
    BY <1>1, <2>1 DEF FlightStep
  <2>3. PICK c : /\ cache' = [cache EXCEPT ![k] = c]
                 /\ \/ \E s \in CopyState : c = [cache[k] EXCEPT !.rows = NoRows, !.state = s]
                    \/ c = [rows |-> flight[k].rows, state |-> "fresh",
                            missed |-> flight[k].missed]
    <3>1. CASE k # "invoices" /\ flight[k].rows = NoRows
      <4> DEFINE s == IF cache[k].state = "none" THEN "none" ELSE "stale"
      <4>1. s \in CopyState
        BY DEF CopyState
      <4>2. cache' = [cache EXCEPT ![k] = [cache[k] EXCEPT !.rows = NoRows, !.state = s]]
        BY <1>5, <3>1 DEF FetchArrives, Gone
      <4> HIDE DEF s
      <4>3. QED
        BY <4>1, <4>2
    <3>2. CASE ~(k # "invoices" /\ flight[k].rows = NoRows)
      BY <1>5, <3>2 DEF FetchArrives
    <3>3. QED
      BY <3>1, <3>2
  <2>4. cache' = [j \in Keys |-> cache'[j]] /\ cache'[k] = c
        /\ \A j \in Keys \ {k} : cache'[j] = cache[j]
    BY <1>1, <2>3
  <2>5. \A j \in Keys : CacheStep(j)
    <3>1. CacheStep(k)
      BY <2>3, <2>4 DEF CacheStep
    <3>2. QED
      BY <1>1, <2>4, <3>1, CopyForms
  <2>6. QED
    BY <2>2, <2>4, <2>5 DEF KeysStep
<1>6. ASSUME NEW k \in Keys, FetchFails(k) PROVE KeysStep
  <2>1. flight' = [flight EXCEPT ![k] = NoFlight] /\ cache' = cache
    BY <1>6 DEF FetchFails
  <2>2. flight' = [j \in Keys |-> flight'[j]] /\ \A j \in Keys : FlightStep(j)
    BY <1>1, <2>1 DEF FlightStep
  <2>3. QED
    BY <2>1, <2>2, KeysStay DEF KeysStep
<1>7. ASSUME NEW k \in Keys, TurnsStale(k) PROVE KeysStep
  <2>1. cache' = [cache EXCEPT ![k] = [cache[k] EXCEPT !.state = "stale"]] /\ flight' = flight
    BY <1>7 DEF TurnsStale
  <2>2. cache' = [j \in Keys |-> cache'[j]] /\ cache'[k] = [cache[k] EXCEPT !.state = "stale"]
        /\ \A j \in Keys \ {k} : cache'[j] = cache[j]
    BY <1>1, <2>1
  <2>3. "stale" \in CopyState
    BY DEF CopyState
  <2>4. \A j \in Keys : CacheStep(j)
    BY <1>1, <2>2, <2>3, CopyForms
  <2>5. QED
    BY <2>1, <2>2, <2>4, KeysStay DEF KeysStep
<1>8. Browse => KeysStep
  BY <1>3, <1>4, <1>5, <1>6, <1>7 DEF Browse, Visit
<1>9. ServeCreate \/ ServeLink \/ Refuse => KeysStep
  BY <1>2 DEF ServeCreate, ServeLink, Refuse
<1>10. ServeSend \/ ServeRemind \/ ServeCredit => KeysStep
  BY OvertakenKeys DEF ServeSend, ServeRemind, ServeCredit
<1>11. ASSUME HearInvalidating PROVE KeysStep
  <2>1. cache' = [k \in Keys |->
                [Told(cache[k], "yes") EXCEPT !.state =
                    IF Invalidates(k, acting.doc) /\ @ = "fresh" THEN "stale" ELSE @]]
    BY <1>11 DEF HearInvalidating
  <2>2. flight' = [k \in Keys |-> flight'[k]]
    BY <1>11 DEF HearInvalidating
  <2>3. \A k \in Keys : \/ flight'[k] = Asked
                        \/ \E how \in {"yes", "crossed"} : flight'[k] = Told(flight[k], how)
    BY <1>11 DEF HearInvalidating
  <2>4. {"yes", "crossed"} \subseteq Missed
    BY DEF Missed
  <2>5. \A k \in Keys : FlightStep(k)
    BY <2>3, <2>4 DEF FlightStep, Told
  <2>6. ASSUME NEW k \in Keys PROVE CacheStep(k)
    <3> DEFINE s == IF Invalidates(k, acting.doc) /\ cache[k].state = "fresh"
                   THEN "stale" ELSE cache[k].state
    <3>1. s \in CopyState
      BY <1>1 DEF CopyState
    <3>2. CASE cache[k].missed = "pending"
      <4>1. cache'[k] = [[cache[k] EXCEPT !.missed = "yes"] EXCEPT !.state = s]
        <5>1. [cache[k] EXCEPT !.missed = "yes"].state = cache[k].state
          BY <1>1 DEF IsCopy
        <5>2. QED
          BY <2>1, <3>2, <5>1 DEF Told
      <4> HIDE DEF s
      <4>2. QED
        BY <2>4, <3>1, <4>1 DEF CacheStep
    <3>3. CASE cache[k].missed # "pending"
      <4>1. cache'[k] = [cache[k] EXCEPT !.state = s]
        BY <2>1, <3>3 DEF Told
      <4> HIDE DEF s
      <4>2. QED
        BY <1>1, <3>1, <4>1, CopyForms
    <3>4. QED
      BY <3>2, <3>3
  <2>7. QED
    BY <2>1, <2>2, <2>5, <2>6 DEF KeysStep
<1>12. HearOther => KeysStep
  BY <1>2, <1>3 DEF HearOther
<1>13. ASSUME ActFails PROVE KeysStep
  <2>1. /\ cache' = [k \in Keys |-> Told(cache[k], "lost")]
        /\ flight' = [k \in Keys |-> Told(flight[k], "lost")]
        /\ "lost" \in Missed
    BY <1>13 DEF ActFails, Missed
  <2>2. ASSUME NEW k \in Keys PROVE FlightStep(k) /\ CacheStep(k)
    <3>1. /\ cache'[k] \in {cache[k], [cache[k] EXCEPT !.missed = "lost"]}
          /\ flight'[k] \in {flight[k], [flight[k] EXCEPT !.missed = "lost"]}
      BY <2>1 DEF Told
    <3>2. CacheStep(k)
      BY <1>1, <2>1, <3>1, CopyForms
    <3>3. QED
      BY <2>1, <3>1, <3>2 DEF FlightStep
  <2>3. QED
    BY <2>1, <2>2 DEF KeysStep
<1>14. Begun => KeysStep
  <2>1. Begun => UNCHANGED <<cache, flight>>
    BY DEF Begun, PressCreate, Press, CreatedElsewhere, WrittenElsewhere,
           CreditedElsewhere, portalVars
  <2>2. QED
    BY <1>2, <2>1
<1>15. UNCHANGED vars => KeysStep
  BY <1>2 DEF vars, portalVars
<1>16. QED
  BY <1>8, <1>9, <1>10, <1>11, <1>12, <1>13, <1>14, <1>15 DEF Next, Answered

\* The alternatives of Next.
LEMMA NextCases ==
    ASSUME [Next]_vars
    PROVE  \/ Browse \/ ServeCreate \/ ServeSend \/ ServeRemind \/ ServeCredit
           \/ ServeLink \/ Refuse \/ HearInvalidating \/ HearOther \/ ActFails
           \/ PressCreate \/ (\E op \in {"send", "remind", "link", "credit"} : Press(op))
           \/ CreatedElsewhere \/ (\E d \in Docs : WrittenElsewhere(d))
           \/ (\E d \in Docs : CreditedElsewhere(d)) \/ UNCHANGED vars
<1>1. Next => Browse \/ Answered \/ Begun
  BY Zenon DEF Next
<1>2. QED
  BY <1>1, Zenon DEF Answered, Begun

-----------------------------------------------------------------------------
(* Type correctness                                                        *)

ActType ==
    [pc: {"none", "asked", "done", "refused"},
     op: {"none", "create", "send", "remind", "link", "credit"},
     doc: Docs \cup {NoDoc}, seen: InvoiceStatus \cup {"none"},
     result: Docs \cup {NoDoc}]

ActOK(a) ==
    /\ a \in ActType
    /\ a.op \notin {"none", "create"} => a.doc \in Docs
    /\ a.pc = "done" /\ a.op \in {"create", "credit"} => a.result \in Docs

\* What a mutation may become.
LEMMA ActForms ==
    ASSUME ActOK(acting)
    PROVE  /\ ActOK(NoAct) /\ ActOK([NoAct EXCEPT !.pc = "asked", !.op = "create"])
           /\ \A r \in Docs : Done(r) => ActOK(acting')
           /\ acting.op \notin {"create", "credit"} /\ Done(NoDoc) => ActOK(acting')
           /\ ActOK([acting EXCEPT !.pc = "refused"])
<1>1. ActOK(NoAct) /\ ActOK([NoAct EXCEPT !.pc = "asked", !.op = "create"])
  BY DEF ActOK, ActType, NoAct
<1>2. ActOK([acting EXCEPT !.pc = "refused"])
  BY DEF ActOK, ActType
<1>3. ASSUME NEW r \in Docs \cup {NoDoc}, Done(r),
             acting.op \in {"create", "credit"} => r \in Docs
      PROVE  ActOK(acting')
  <2>1. acting' = [acting EXCEPT !.pc = "done", !.result = r]
    BY <1>3 DEF Done
  <2>2. /\ acting' \in ActType /\ acting'.op = acting.op /\ acting'.doc = acting.doc
        /\ acting'.result = r
    BY <2>1 DEF ActOK, ActType
  <2>3. QED
    BY <1>3, <2>2 DEF ActOK
<1>4. QED
  BY <1>1, <1>2, <1>3

\* The row the page on screen shows, if it shows one.
LEMMA ShownRow ==
    ASSUME PortalTypeOK, page \in Docs, HasRow(page)
    PROVE  page \in Keys /\ cache[page].rows[page].status \in InvoiceStatus
<1>1. page \in Keys /\ IsCopy(cache[page])
  BY DEF PortalTypeOK, Keys
<1>2. cache[page].rows[page] \in PublicRow
  BY <1>1, CopyFields DEF HasRow
<1>3. QED
  BY <1>1, <1>2 DEF PublicRow

\* The mutation in the air keeps its type.
LEMMA NextActing ==
    ASSUME PortalTypeOK, [Next]_vars
    PROVE  ActOK(acting')
<1>1. ActOK(acting)
  BY DEF PortalTypeOK, ActOK, ActType
<1>2. acting' = acting \/ acting' = NoAct => ActOK(acting')
  BY <1>1, ActForms
<1>3. Browse => acting' = acting
  BY DEF Browse, Visit, ServeFetch, FetchArrives, FetchFails, TurnsStale
<1>4. ServeCreate \/ ServeSend \/ ServeRemind \/ ServeCredit \/ ServeLink => ActOK(acting')
  <2>1. ServeCreate \/ ServeCredit => \E r \in Docs : Done(r)
    BY DEF ServeCreate, ServeCredit
  <2>2. ServeSend \/ ServeRemind \/ ServeLink
            => acting.op \notin {"create", "credit"} /\ Done(NoDoc)
    BY DEF ServeSend, ServeRemind, ServeLink
  <2>3. QED
    BY <1>1, <2>1, <2>2, ActForms
<1>5. Refuse => ActOK(acting')
  BY <1>1, ActForms DEF Refuse
<1>6. HearInvalidating \/ HearOther \/ ActFails => acting' = NoAct
  BY DEF HearInvalidating, HearOther, ActFails
<1>7. PressCreate => ActOK(acting')
  BY <1>1, ActForms DEF PressCreate
<1>8. ASSUME NEW op \in {"send", "remind", "link", "credit"}, Press(op)
      PROVE  ActOK(acting')
  <2>1. page \in Docs /\ cache[page].rows[page].status \in InvoiceStatus
    BY <1>8, ShownRow DEF Press
  <2>2. acting' = [pc |-> "asked", op |-> op, doc |-> page,
                   seen |-> cache[page].rows[page].status, result |-> NoDoc]
    BY <1>8 DEF Press
  <2>3. QED
    BY <2>1, <2>2 DEF ActOK, ActType
<1>9. CreatedElsewhere \/ (\E d \in Docs : WrittenElsewhere(d) \/ CreditedElsewhere(d))
        => acting' = acting
  BY DEF CreatedElsewhere, WrittenElsewhere, CreditedElsewhere, portalVars
<1>10. UNCHANGED vars => acting' = acting
  BY DEF vars, portalVars
<1>11. QED
  BY <1>2, <1>3, <1>4, <1>5, <1>6, <1>7, <1>8, <1>9, <1>10 DEF Next, Answered, Begun

\* Who owns a row, who is signed in and where they are.
LEMMA NextPlace ==
    ASSUME PortalTypeOK, [Next]_vars
    PROVE  owner' \in [Docs -> Clients \cup {NoDoc}] /\ user' = user /\ page' \in Routes
<1>1. owner \in [Docs -> Clients \cup {NoDoc}] /\ page \in Routes
  BY DEF PortalTypeOK
<1>2. ActOK(acting) /\ Docs \subseteq Routes
  BY DEF PortalTypeOK, ActOK, ActType, Routes
<1>3. user' = user
  BY DEF Next, Browse, Answered, Begun, Visit, ServeFetch, FetchArrives, FetchFails,
         TurnsStale, ServeCreate, ServeSend, ServeRemind, ServeCredit, ServeLink, Refuse,
         HearInvalidating, HearOther, ActFails, PressCreate, Press, CreatedElsewhere,
         WrittenElsewhere, CreditedElsewhere, vars, portalVars
<1>4. owner' \in [Docs -> Clients \cup {NoDoc}]
  <2>1. ASSUME NEW d \in Docs, NEW c \in Clients, NEW gross, Create(d, c, gross)
        PROVE  owner' \in [Docs -> Clients \cup {NoDoc}]
    BY <1>1, <2>1 DEF Create
  <2>2. ASSUME NEW d \in Docs, NEW note \in Docs, IssueCreditNote(d, note)
        PROVE  owner' \in [Docs -> Clients \cup {NoDoc}]
    BY <1>1, <2>2 DEF IssueCreditNote
  <2>3. ServeCreate \/ CreatedElsewhere => owner' \in [Docs -> Clients \cup {NoDoc}]
    BY <2>1 DEF ServeCreate, CreatedElsewhere
  <2>4. ServeCredit => owner' \in [Docs -> Clients \cup {NoDoc}]
    BY <1>2, <2>2 DEF ServeCredit, ActOK
  <2>5. ASSUME NEW d \in Docs, CreditedElsewhere(d)
        PROVE  owner' \in [Docs -> Clients \cup {NoDoc}]
    BY <2>2, <2>5 DEF CreditedElsewhere
  <2>6. ASSUME
            \/ Browse \/ ServeSend \/ ServeRemind \/ ServeLink \/ Refuse
            \/ HearInvalidating \/ HearOther \/ ActFails \/ PressCreate
            \/ (\E op \in {"send", "remind", "link", "credit"} : Press(op))
            \/ (\E d \in Docs : WrittenElsewhere(d)) \/ UNCHANGED vars
        PROVE  owner' = owner
    BY <2>6 DEF Browse, Visit, ServeFetch, FetchArrives, FetchFails, TurnsStale, ServeSend,
           ServeRemind, ServeLink, Refuse, HearInvalidating, HearOther, ActFails,
           PressCreate, Press, WrittenElsewhere, vars, portalVars
  <2>7. QED
    <3>1. owner' = owner => owner' \in [Docs -> Clients \cup {NoDoc}]
      BY <1>1
    <3>2. QED
      BY <2>3, <2>4, <2>5, <2>6, <3>1, NextCases, Zenon
<1>5. page' \in Routes
  <2>1. Browse => page' \in Routes
    BY <1>1 DEF Browse, Visit, GoTo, ServeFetch, FetchArrives, FetchFails, TurnsStale
  <2>2. HearInvalidating => page' \in Routes
    BY <1>1, <1>2 DEF HearInvalidating, ActOK
  <2>3. HearOther => page' \in Routes
    BY <1>1, <1>2 DEF HearOther, GoTo, ActOK
  <2>4. ASSUME
            \/ ServeCreate \/ ServeSend \/ ServeRemind \/ ServeCredit \/ ServeLink \/ Refuse
            \/ ActFails \/ PressCreate
            \/ (\E op \in {"send", "remind", "link", "credit"} : Press(op))
            \/ CreatedElsewhere \/ (\E d \in Docs : WrittenElsewhere(d))
            \/ (\E d \in Docs : CreditedElsewhere(d)) \/ UNCHANGED vars
        PROVE  page' = page
    BY <2>4 DEF ServeCreate, ServeSend, ServeRemind, ServeCredit, ServeLink, Refuse, ActFails,
           PressCreate, Press, CreatedElsewhere, WrittenElsewhere,
           CreditedElsewhere, vars, portalVars
  <2>5. QED
    <3>1. page' = page => page' \in Routes
      BY <1>1
    <3>2. QED
      BY <2>1, <2>2, <2>3, <2>4, <3>1, NextCases, Zenon
<1>6. QED
  BY <1>3, <1>4, <1>5

\* What the steps keep of the keys is their type.
LEMMA KeysType ==
    ASSUME PortalTypeOK, KeysStep
    PROVE  \A k \in Keys : IsCopy(cache'[k]) /\ IsFlight(flight'[k])
<1> SUFFICES ASSUME NEW k \in Keys
             PROVE  IsCopy(cache'[k]) /\ IsFlight(flight'[k])
  OBVIOUS
<1>1. IsCopy(cache[k]) /\ IsFlight(flight[k]) /\ StoreTypeOK
  BY DEF PortalTypeOK
<1>2. IsFlight(flight'[k])
  <2>1. CASE flight'[k] \in {flight[k], Asked, NoFlight}
    BY <1>1, <2>1, ConstantFlights, Zenon
  <2>2. CASE flight'[k] = [pc |-> "answered", rows |-> Answer(k), missed |-> "no"]
    <3>1. IsFlight([pc |-> "answered", rows |-> Answer(k), missed |-> "no"])
      BY <1>1, AnswerType, Zenon
    <3>2. QED
      BY <2>2, <3>1, Zenon
  <2>3. ASSUME NEW m \in Missed, flight'[k] = [flight[k] EXCEPT !.missed = m]
        PROVE  IsFlight(flight'[k])
    <3>1. IsFlight([flight[k] EXCEPT !.missed = m])
      BY <1>1, FlightFields, Zenon
    <3>2. QED
      BY <2>3, <3>1, Zenon
  <2>4. FlightStep(k)
    BY DEF KeysStep
  <2>5. QED
    BY <2>1, <2>2, <2>3, <2>4 DEF FlightStep
<1>3. IsCopy(cache'[k])
  <2>1. PICK c : c = cache[k]
    OBVIOUS
  <2>2. IsCopy(c)
    BY <1>1, <2>1
  <2>3. \/ \E s \in CopyState, m \in Missed :
            cache'[k] = [c EXCEPT !.missed = m, !.state = s]
        \/ \E s \in CopyState : cache'[k] = [c EXCEPT !.rows = NoRows, !.state = s]
        \/ cache'[k] = [rows |-> flight[k].rows, state |-> "fresh",
                       missed |-> flight[k].missed]
    BY <2>1 DEF KeysStep, CacheStep
  <2>4. QED
    <3>1. \A s \in CopyState, m \in Missed :
            IsCopy([c EXCEPT !.missed = m, !.state = s])
              /\ IsCopy([c EXCEPT !.rows = NoRows, !.state = s])
      BY <2>2, CopyFields, Zenon
    <3>2. IsCopy([rows |-> flight[k].rows, state |-> "fresh", missed |-> flight[k].missed])
      BY <1>1, FlightFields, Zenon
    <3>3. \A s \in CopyState : IsCopy([c EXCEPT !.rows = NoRows, !.state = s])
      <4>1. "no" \in Missed
        BY DEF Missed
      <4>2. QED
        BY <3>1, <4>1, Zenon
    <3>4. QED
      BY <2>3, <3>1, <3>2, <3>3, Zenon
<1>4. QED
  BY <1>2, <1>3

TypeAndBooks == PortalTypeOK /\ Books

\* At first there is no document.
LEMMA BooksInit ==
    ASSUME Init
    PROVE  TypeAndBooks
<1>1. StoreTypeOK
  BY DEF Init, StoreInit, StoreTypeOK, InvoiceRow, NoRow, RowStatus, InvoiceStatus, Entry
<1>2. /\ owner \in [Docs -> Clients \cup {NoDoc}] /\ user \in Clients \cup {Admin}
      /\ page \in Routes
  BY DEF Init, Routes
<1>3. /\ cache = [k \in Keys |-> cache[k]] /\ flight = [k \in Keys |-> flight[k]]
      /\ \A k \in Keys : IsCopy(cache[k]) /\ IsFlight(flight[k])
  BY ConstantFlights DEF Init
<1>4. ActOK(acting)
  BY DEF Init, ActOK, ActType, NoAct
<1>5. PortalTypeOK
  BY <1>1, <1>2, <1>3, <1>4 DEF PortalTypeOK, ActOK, ActType
<1>6. \A d \in Docs : invoice[d] = NoRow /\ \A t \in TransactionType : Sum(d, t) = 0
  BY DEF Init, StoreInit, Sum
<1>7. Books
  BY <1>6 DEF Books, BooksOf, NoRow, IsOpen, OpenStatuses
<1>8. QED
  BY <1>5, <1>7 DEF TypeAndBooks

\* Types and books are inductive, and no status is returned to.
LEMMA BooksNext ==
    ASSUME TypeAndBooks, [Next]_vars
    PROVE  TypeAndBooks' /\ \A d \in Docs : Onward(d)
<1>1. PortalTypeOK /\ StoreTypeOK /\ Books
  BY DEF TypeAndBooks, PortalTypeOK
<1>2. StoreTypeOK' /\ Books' /\ \A d \in Docs : Onward(d)
  BY <1>1, NextWrites, StoreSound
<1>3. KeysStep /\ \A k \in Keys : IsCopy(cache'[k]) /\ IsFlight(flight'[k])
  BY <1>1, NextKeys, KeysType
<1>4. /\ cache' = [k \in Keys |-> cache'[k]] /\ flight' = [k \in Keys |-> flight'[k]]
  BY <1>3 DEF KeysStep
<1>5. ActOK(acting')
  BY <1>1, NextActing
<1>6. /\ owner' \in [Docs -> Clients \cup {NoDoc}] /\ user' = user /\ page' \in Routes
      /\ user \in Clients \cup {Admin}
  BY <1>1, NextPlace DEF PortalTypeOK
<1>7. PortalTypeOK'
  BY <1>2, <1>3, <1>4, <1>5, <1>6 DEF PortalTypeOK, ActOK, ActType
<1>8. QED
  BY <1>2, <1>7 DEF TypeAndBooks

\* The pages, their copies and the tables keep their types, and the tables
\* their books: an unsent invoice has an empty ledger, and of an open one the
\* row (gross and fees) and the ledger say the same is owed.
THEOREM PortalTypeCorrect == Spec => []PortalTypeOK
<1>1. Init => TypeAndBooks
  BY BooksInit
<1>2. TypeAndBooks /\ [Next]_vars => TypeAndBooks'
  BY BooksNext
<1>3. TypeAndBooks => PortalTypeOK
  BY DEF TypeAndBooks
<1>4. QED
  BY <1>1, <1>2, <1>3, PTL DEF Spec

-----------------------------------------------------------------------------
(* What the customer is asked to pay                                       *)

\* No more documents than a page holds are all on it.
LEMMA OnePageHoldsAll ==
    ASSUME StoreTypeOK, NEW docs \in SUBSET Docs, Cardinality(docs) <= PageLimit
    PROVE  FirstPage(docs) = docs
<1> SUFFICES ASSUME NEW d \in docs
             PROVE  Cardinality(Newer(d, docs)) < PageLimit
  BY DEF FirstPage
<1>1. Newer(d, docs) \in SUBSET docs /\ d \notin Newer(d, docs)
  BY DEF Newer, StoreTypeOK, InvoiceRow
<1>2. IsFiniteSet(docs)
  BY PortalAssumption, FS_Subset
<1>3. /\ Cardinality(Newer(d, docs)) <= Cardinality(docs)
      /\ Cardinality(Newer(d, docs)) # Cardinality(docs)
      /\ IsFiniteSet(Newer(d, docs))
  BY <1>1, <1>2, FS_Subset
<1>4. Cardinality(Newer(d, docs)) \in Nat /\ Cardinality(docs) \in Nat
  BY <1>2, <1>3, FS_CardinalityType
<1>5. QED
  BY <1>3, <1>4, PortalAssumption

\* The sum a page computes from an answer is what the ledger says of the open
\* invoices in it.
LEMMA PageSumIsOwed ==
    ASSUME TypeAndBooks, user # Admin
    PROVE  /\ OutstandingOre(Answer("invoices")) = Owed(OwnOpen \cap DOMAIN Answer("invoices"))
           /\ DOMAIN Answer("invoices") = FirstPage(OwnDocuments)
<1> DEFINE Listed == Answer("invoices")
           Mine == FirstPage(OwnDocuments)
<1>1. Visible = OwnDocuments
  BY DEF Visible, MaySee, OwnDocuments
<1>2. Listed = [d \in Mine |-> ToPublicInvoice(d)] /\ Mine \subseteq OwnDocuments
  BY <1>1 DEF Answer, FirstPage
<1> HIDE DEF Listed, Mine
<1>3. Unpaid(Listed) = OwnOpen \cap DOMAIN Listed
  BY <1>2 DEF Unpaid, OwnOpen, OwnDocuments, IsOpen, ToPublicInvoice, Exists, OpenStatuses,
              InvoiceStatus
<1>4. \A d \in OwnOpen \cap DOMAIN Listed : Listed[d].totalDueOre = Balance(d)
  BY <1>2 DEF TypeAndBooks, Books, BooksOf, OwnOpen, OwnDocuments, ToPublicInvoice
<1>5. [d \in Unpaid(Listed) |-> Listed[d].totalDueOre] = [d \in OwnOpen \cap DOMAIN Listed |-> Balance(d)]
  BY <1>3, <1>4
<1>6. OutstandingOre(Listed) = Owed(OwnOpen \cap DOMAIN Listed)
  BY <1>5, Zenon DEF OutstandingOre, Owed
<1>7. QED
  BY <1>2, <1>6 DEF Listed, Mine

\* ShownDebtIsLedger: whenever the list on a customer's screen is what the
\* API would answer, the sum ClientInvoicesPage computes from the rows is
\* what the ledger says of the customer's open invoices on that page,
\* whatever the administrators and the overdue run did meanwhile; and of all
\* the customer's open invoices when the customer has no more documents than
\* a page holds, for any size of the page.
THEOREM DebtShownIsDebtOwed == Spec => []ShownDebtIsLedger
<1>1. Init => TypeAndBooks
  BY BooksInit
<1>2. TypeAndBooks /\ [Next]_vars => TypeAndBooks'
  BY BooksNext
<1>3. TypeAndBooks => ShownDebtIsLedger
  <2> SUFFICES ASSUME TypeAndBooks, ListOnScreen
               PROVE  /\ OutstandingOre(Answer("invoices"))
                            = Owed(OwnOpen \cap DOMAIN Answer("invoices"))
                      /\ Cardinality(OwnDocuments) <= PageLimit =>
                            OutstandingOre(Answer("invoices")) = Owed(OwnOpen)
    BY DEF ShownDebtIsLedger, ListOnScreen
  <2>1. /\ OutstandingOre(Answer("invoices")) = Owed(OwnOpen \cap DOMAIN Answer("invoices"))
        /\ DOMAIN Answer("invoices") = FirstPage(OwnDocuments)
    BY PageSumIsOwed DEF ListOnScreen
  <2>2. ASSUME Cardinality(OwnDocuments) <= PageLimit
        PROVE  OwnOpen \cap DOMAIN Answer("invoices") = OwnOpen
    <3>1. OwnDocuments \in SUBSET Docs /\ StoreTypeOK
      BY DEF OwnDocuments, TypeAndBooks, PortalTypeOK
    <3>2. FirstPage(OwnDocuments) = OwnDocuments
      BY <2>2, <3>1, OnePageHoldsAll
    <3>3. QED
      BY <2>1, <3>2 DEF OwnOpen
  <2>3. QED
    BY <2>1, <2>2
<1>4. QED
  BY <1>1, <1>2, <1>3, PTL DEF Spec

-----------------------------------------------------------------------------
(* What a button is offered by                                             *)

\* What the row of a copy, however old, still says of the row of the table.
WasRow(inv, d, row) ==
    /\ inv[d].status # "ABSENT"
    /\ row.type = inv[d].type
    /\ row.status # "DRAFT" => Issued(inv, d)

RowsTrue(inv, rows) == \A d \in DOMAIN rows : WasRow(inv, d, rows[d])

CopiesTrue ==
    \A k \in Keys : RowsTrue(invoice, cache[k].rows) /\ RowsTrue(invoice, flight[k].rows)

\* What a mutation in the air, or refused, was offered by, and what refusing
\* it takes.  ClosedFor(inv, a): the API's guard is false of the row, and a
\* guard that is false of a row that was offered stays false.
ClosedFor(inv, a) ==
    IF a.op = "send" THEN inv[a.doc].status # "DRAFT"
                     ELSE inv[a.doc].status \in {"PAID", "CREDITED"}

Offering(inv, a) ==
    /\ inv[a.doc].status # "ABSENT"
    /\ a.op = "send" => a.seen = "DRAFT"
    /\ a.op # "send" => /\ a.seen \in OpenStatuses
                        /\ inv[a.doc].type = "INVOICE" /\ Issued(inv, a.doc)
    /\ a.pc = "refused" => ClosedFor(inv, a)

ActTrue(inv, a) ==
    /\ a.pc # "none" => user = Admin /\ a.op # "none"
    /\ a.pc = "refused" => a.op # "create"
    /\ a.pc \in {"asked", "refused"} /\ a.op # "create" => Offering(inv, a)

OfferInv == TypeAndBooks /\ CopiesTrue /\ ActTrue(invoice, acting)

\* A copy that was true of the table once is so after any write.
LEMMA RowsOnward ==
    ASSUME \A d \in Docs : Onward(d), NEW rows, DOMAIN rows \subseteq Docs,
           RowsTrue(invoice, rows)
    PROVE  RowsTrue(invoice', rows)
<1> SUFFICES ASSUME NEW d \in DOMAIN rows
             PROVE  WasRow(invoice', d, rows[d])
  BY DEF RowsTrue
<1>1. WasRow(invoice, d, rows[d]) /\ Onward(d)
  BY DEF RowsTrue
<1>2. QED
  BY <1>1 DEF WasRow, Onward

\* A copy that was true of a document stays so, since documents only move on.
LEMMA CopiesStayTrue ==
    ASSUME PortalTypeOK, CopiesTrue, KeysStep, \A d \in Docs : Onward(d)
    PROVE  CopiesTrue'
<1> SUFFICES ASSUME NEW k \in Keys
             PROVE  RowsTrue(invoice', cache'[k].rows) /\ RowsTrue(invoice', flight'[k].rows)
  BY DEF CopiesTrue
<1>1. StoreTypeOK /\ IsCopy(cache[k]) /\ IsFlight(flight[k])
  BY DEF PortalTypeOK
<1>2. /\ DOMAIN cache[k].rows \subseteq Docs /\ DOMAIN flight[k].rows \subseteq Docs
      /\ RowsTrue(invoice, cache[k].rows) /\ RowsTrue(invoice, flight[k].rows)
  BY <1>1, CopyFields, FlightFields DEF CopiesTrue
<1>3. RowsTrue(invoice', cache[k].rows) /\ RowsTrue(invoice', flight[k].rows)
  BY <1>2, RowsOnward
<1>4. RowsTrue(invoice', NoRows)
  BY DEF RowsTrue, NoRows
<1>5. RowsTrue(invoice', Answer(k))
  <2>1. RowsTrue(invoice, Answer(k))
    BY <1>1, AnswerType DEF RowsTrue, WasRow, Issued, Exists, InvoiceStatus
  <2>2. DOMAIN Answer(k) \subseteq Docs
    BY <1>1, AnswerType
  <2>3. QED
    BY <2>1, <2>2, RowsOnward
<1>6. cache'[k].rows \in {cache[k].rows, flight[k].rows, NoRows}
  <2>1. PICK c : c = cache[k]
    OBVIOUS
  <2>2. \A s \in CopyState, m \in Missed :
            /\ [c EXCEPT !.missed = m, !.state = s].rows = c.rows
            /\ [c EXCEPT !.rows = NoRows, !.state = s].rows = NoRows
    <3>1. IsCopy(c)
      BY <1>1, <2>1, Zenon
    <3>2. PICK S \in SUBSET Docs :
            c \in [rows: [S -> PublicRow], state: CopyState, missed: Missed]
      BY <3>1 DEF IsCopy, CopyState
    <3>3. QED
      BY <3>2
  <2>3. \/ \E s \in CopyState, m \in Missed :
            cache'[k] = [c EXCEPT !.missed = m, !.state = s]
        \/ \E s \in CopyState : cache'[k] = [c EXCEPT !.rows = NoRows, !.state = s]
        \/ cache'[k] = [rows |-> flight[k].rows, state |-> "fresh",
                       missed |-> flight[k].missed]
    BY <2>1 DEF KeysStep, CacheStep
  <2>4. "no" \in Missed
    BY DEF Missed
  <2>5. CASE \E s \in CopyState, m \in Missed :
                cache'[k] = [c EXCEPT !.missed = m, !.state = s]
    BY <2>1, <2>2, <2>5
  <2>6. CASE \E s \in CopyState : cache'[k] = [c EXCEPT !.rows = NoRows, !.state = s]
    BY <2>2, <2>4, <2>6
  <2>7. CASE cache'[k] = [rows |-> flight[k].rows, state |-> "fresh",
                          missed |-> flight[k].missed]
    BY <2>7
  <2>8. QED
    BY <2>3, <2>5, <2>6, <2>7
<1>7. flight'[k].rows \in {flight[k].rows, Answer(k), NoRows}
  <2>1. \A m \in Missed : [flight[k] EXCEPT !.missed = m].rows = flight[k].rows
    BY <1>1, FlightFields, Zenon
  <2>2. QED
    <3>1. FlightStep(k)
      BY DEF KeysStep
    <3>2. [pc |-> "answered", rows |-> Answer(k), missed |-> "no"].rows = Answer(k)
      OBVIOUS
    <3>3. CASE flight'[k] \in {flight[k], Asked, NoFlight}
      BY <3>3, ConstantFlights, Zenon
    <3>4. CASE flight'[k] = [pc |-> "answered", rows |-> Answer(k), missed |-> "no"]
      BY <3>2, <3>4, Zenon
    <3>5. CASE \E m \in Missed : flight'[k] = [flight[k] EXCEPT !.missed = m]
      BY <2>1, <3>5, Zenon
    <3>6. QED
      BY <3>1, <3>3, <3>4, <3>5 DEF FlightStep
<1>8. QED
  BY <1>3, <1>4, <1>5, <1>6, <1>7

\* A mutation that is not touched stays what it was.
LEMMA ActOnward ==
    ASSUME \A d \in Docs : Onward(d), NEW a, ActOK(a), ActTrue(invoice, a)
    PROVE  ActTrue(invoice', a)
<1> DEFINE asked == a.pc \in {"asked", "refused"} /\ a.op # "create"
<1>1. asked => a.doc \in Docs
  BY DEF ActOK, ActTrue
<1>2. asked => Offering(invoice', a)
  BY <1>1 DEF ActTrue, Offering, ClosedFor, Onward, Issued
<1>3. QED
  BY <1>2 DEF ActTrue

\* A button is offered by a copy, and what the copy says is still true
\* enough of the row.
LEMMA PressTrue ==
    ASSUME PortalTypeOK, CopiesTrue, NEW op \in {"send", "remind", "link", "credit"},
           Press(op)
    PROVE  ActTrue(invoice, acting')
<1>1. /\ page \in Docs /\ HasRow(page)
      /\ op \in Offered(cache[page].rows[page])
      /\ acting' = [pc |-> "asked", op |-> op, doc |-> page,
                    seen |-> cache[page].rows[page].status, result |-> NoDoc]
  BY DEF Press
<1>2. PICK row : row = cache[page].rows[page]
  OBVIOUS
<1>3. WasRow(invoice, page, row)
  <2>1. page \in Keys
    BY <1>1 DEF Keys
  <2>2. RowsTrue(invoice, cache[page].rows)
    BY <2>1 DEF CopiesTrue
  <2>3. QED
    BY <1>1, <1>2, <2>2 DEF RowsTrue, HasRow
<1>4. row.type \in {"INVOICE", "CREDIT_NOTE"}
  <2>1. page \in Keys
    BY <1>1 DEF Keys
  <2>2. IsCopy(cache[page])
    BY <2>1 DEF PortalTypeOK
  <2>3. row \in PublicRow
    BY <1>1, <1>2, <2>2, CopyFields DEF HasRow
  <2>4. QED
    BY <2>3 DEF PublicRow
<1>5. /\ acting'.pc = "asked" /\ acting'.op = op /\ acting'.doc = page
      /\ acting'.seen = row.status
  BY <1>1, <1>2
<1>6. /\ user = Admin
      /\ op = "send" => row.status = "DRAFT"
      /\ op # "send" => row.type # "CREDIT_NOTE" /\ row.status \in OpenStatuses
  BY <1>1, <1>2 DEF Offered, CanAct
<1>7. Offering(invoice, acting')
  BY <1>3, <1>4, <1>5, <1>6 DEF Offering, WasRow, OpenStatuses
<1>8. QED
  BY <1>5, <1>6, <1>7 DEF ActTrue

\* The API refuses what was offered only when its guard is false of the row,
\* and the guards that the pages copy leave only final statuses.
LEMMA RefuseTrue ==
    ASSUME ActOK(acting), ActTrue(invoice, acting), Refuse
    PROVE  ActTrue(invoice, acting')
<1>1. /\ acting.pc = "asked" /\ acting.op # "create" /\ ~Accepts(acting.op, acting.doc)
      /\ acting' = [acting EXCEPT !.pc = "refused"]
  BY DEF Refuse
<1>2. /\ acting'.pc = "refused" /\ acting'.op = acting.op /\ acting'.doc = acting.doc
      /\ acting'.seen = acting.seen
  BY <1>1 DEF ActOK, ActType
<1>3. user = Admin /\ acting.op # "none" /\ Offering(invoice, acting)
  BY <1>1 DEF ActTrue
<1>4. CASE acting.op = "send"
  <2>1. ~IsDraft(acting.doc)
    BY <1>1, <1>3, <1>4 DEF Accepts
  <2>2. Offering(invoice, acting')
    BY <1>2, <1>3, <1>4, <2>1 DEF Offering, ClosedFor, IsDraft
  <2>3. QED
    BY <1>1, <1>2, <1>3, <2>2 DEF ActTrue
<1>5. CASE acting.op # "send"
  <2>1. ~IsOpen(acting.doc)
    BY <1>1, <1>3, <1>5 DEF Accepts
  <2>2. invoice[acting.doc].status \in {"PAID", "CREDITED"}
    BY <1>3, <1>5, <2>1 DEF Offering, Issued, IsOpen, OpenStatuses
  <2>3. Offering(invoice, acting')
    BY <1>2, <1>3, <1>5, <2>2 DEF Offering, ClosedFor
  <2>4. QED
    BY <1>1, <1>2, <1>3, <2>3 DEF ActTrue
<1>6. QED
  BY <1>4, <1>5

\* At first there are no copies and no action.
LEMMA OfferInit ==
    ASSUME Init
    PROVE  OfferInv
<1>1. CopiesTrue
  <2>1. \A k \in Keys : cache[k].rows = NoRows /\ flight[k].rows = NoRows
    BY ConstantFlights DEF Init
  <2>2. QED
    BY <2>1 DEF CopiesTrue, RowsTrue, NoRows
<1>2. ActTrue(invoice, acting)
  BY DEF Init, ActTrue, NoAct
<1>3. QED
  BY <1>1, <1>2, BooksInit DEF OfferInv

\* An action is offered by a copy that was true, so it is refused only when the
\* document has moved on.
LEMMA OfferNext ==
    ASSUME OfferInv, [Next]_vars
    PROVE  OfferInv'
<1>1. TypeAndBooks' /\ \A d \in Docs : Onward(d)
  BY BooksNext DEF OfferInv
<1>2. /\ PortalTypeOK /\ CopiesTrue /\ ActTrue(invoice, acting) /\ KeysStep
      /\ user' = user /\ ActOK(acting) /\ ActOK(acting')
  BY NextKeys, NextPlace, NextActing DEF OfferInv, TypeAndBooks, PortalTypeOK, ActOK, ActType
<1>3. CopiesTrue'
  BY <1>1, <1>2, CopiesStayTrue
<1>4. ActTrue(invoice', acting) /\ (ActTrue(invoice, acting') => ActTrue(invoice', acting'))
  BY <1>1, <1>2, ActOnward
<1>5. ActTrue(invoice', acting')
  <2>1. acting' = acting => ActTrue(invoice', acting')
    BY <1>4
  <2>2. acting' = NoAct => ActTrue(invoice', acting')
    BY DEF ActTrue, NoAct
  <2>3. ASSUME ServeCreate \/ ServeSend \/ ServeRemind \/ ServeCredit \/ ServeLink
        PROVE  ActTrue(invoice', acting')
    <3>1. acting.pc = "asked" /\ \E r : Done(r)
      BY <2>3 DEF ServeCreate, ServeSend, ServeRemind, ServeCredit, ServeLink
    <3>2. acting'.pc = "done" /\ acting'.op = acting.op
      BY <1>2, <3>1 DEF Done, ActOK, ActType
    <3>3. QED
      BY <1>2, <3>1, <3>2 DEF ActTrue
  <2>4. Refuse => ActTrue(invoice', acting')
    BY <1>2, <1>4, RefuseTrue
  <2>5. HearInvalidating \/ HearOther \/ ActFails => acting' = NoAct
    BY DEF HearInvalidating, HearOther, ActFails
  <2>6. PressCreate => ActTrue(invoice', acting')
    BY DEF PressCreate, OnAdminPage, ActTrue, NoAct
  <2>7. ASSUME NEW op \in {"send", "remind", "link", "credit"}, Press(op)
        PROVE  ActTrue(invoice', acting')
    BY <1>2, <1>4, <2>7, PressTrue
  <2>8. Browse => acting' = acting
    BY DEF Browse, Visit, ServeFetch, FetchArrives, FetchFails, TurnsStale
  <2>9. CreatedElsewhere => acting' = acting
    BY DEF CreatedElsewhere
  <2>10. ASSUME NEW d \in Docs, WrittenElsewhere(d) \/ CreditedElsewhere(d)
         PROVE  acting' = acting
    BY <2>10 DEF WrittenElsewhere, CreditedElsewhere, portalVars
  <2>11. UNCHANGED vars => acting' = acting
    BY DEF vars, portalVars
  <2>12. QED
    BY <2>1, <2>2, <2>3, <2>4, <2>5, <2>6, <2>7, <2>8, <2>9, <2>10, <2>11, NextCases, Zenon
<1>6. ActTrue(invoice, acting)'
  BY <1>2, <1>5 DEF ActTrue, Offering, ClosedFor, Issued
<1>7. QED
  BY <1>1, <1>3, <1>6 DEF OfferInv

\* RefusedOnlyWhenBehind: whatever copies the page holds, however late they
\* came and whatever everyone else wrote meanwhile, a button it offered is
\* refused only when the row has left the status the button was offered for:
\* canAct of InvoiceDetailPage is no weaker than the guards of the service.
THEOREM RefusalsMeanChange == Spec => []RefusedOnlyWhenBehind
<1>1. Init => OfferInv
  BY OfferInit
<1>2. OfferInv /\ [Next]_vars => OfferInv'
  BY OfferNext
<1>3. OfferInv => RefusedOnlyWhenBehind
  <2> SUFFICES ASSUME OfferInv, acting.pc = "refused"
               PROVE  invoice[acting.doc].status # acting.seen
    BY DEF RefusedOnlyWhenBehind
  <2>1. Offering(invoice, acting)
    BY DEF OfferInv, ActTrue
  <2>2. QED
    BY <2>1 DEF Offering, ClosedFor, OpenStatuses
<1>4. QED
  BY <1>1, <1>2, <1>3, PTL DEF Spec

-----------------------------------------------------------------------------
(* A user sees their own writes                                            *)

\* An action that writes what a page shows has been answered, and the page
\* has not heard of it.
Hearing(a) == a.pc = "done" /\ a.op \in {"send", "remind", "credit"}

\* A copy and a fetch of key k: only a write that the page has not heard of
\* is pending, and only for the keys that hearing of it will invalidate; a
\* fetch is never behind a write that was heard of, and a copy that is does
\* not pass for fresh.
KeyShows(c, f, a, k) ==
    /\ "pending" \in {c.missed, f.missed} => Hearing(a) /\ k \in {a.doc, "invoices"}
    /\ f.missed # "yes"
    /\ c.state = "fresh" => c.missed # "yes"

KeysShow == \A k \in Keys : KeyShows(cache[k], flight[k], acting, k)

ShowInv == TypeAndBooks /\ KeysShow

\* What Told, Overtaken and Gone do to the fields the property is about.
LEMMA MissedFields ==
    ASSUME NEW c, IsCopy(c) \/ IsFlight(c)
    PROVE  /\ \A how : Told(c, how).missed = IF c.missed = "pending" THEN how ELSE c.missed
           /\ \A read : Overtaken(c, read).missed = IF read THEN "pending" ELSE c.missed
           /\ IsCopy(c) => /\ \A how : Told(c, how).state = c.state
                           /\ \A read : Overtaken(c, read).state = c.state
                           /\ Gone(c).missed = c.missed /\ Gone(c).state # "fresh"
<1>1. CASE IsCopy(c)
  <2>1. PICK S \in SUBSET Docs :
            c \in [rows: [S -> PublicRow], state: CopyState, missed: Missed]
    BY <1>1 DEF IsCopy, CopyState
  <2>2. QED
    BY <2>1 DEF Told, Overtaken, Gone
<1>2. CASE IsFlight(c) /\ ~IsCopy(c)
  <2>1. PICK S \in SUBSET Docs :
            c \in [pc: {"none", "asked", "answered"}, rows: [S -> PublicRow], missed: Missed]
    BY <1>2 DEF IsFlight
  <2>2. QED
    BY <1>2, <2>1 DEF Told, Overtaken
<1>3. QED
  BY <1>1, <1>2

\* At first nothing was written.
LEMMA ShowInit ==
    ASSUME Init
    PROVE  ShowInv
<1>1. \A k \in Keys : cache[k] = NoCopy /\ flight[k] = NoFlight
  BY DEF Init
<1>2. NoCopy.missed = "no" /\ NoCopy.state = "none" /\ NoFlight.missed = "no"
  BY DEF NoCopy, NoFlight
<1>3. KeysShow
  BY <1>1, <1>2 DEF KeysShow, KeyShows
<1>4. QED
  BY <1>3, BooksInit DEF ShowInv

\* Browsing: an answer that arrives carries over what it missed.
LEMMA BrowseShows ==
    ASSUME PortalTypeOK, KeysShow, Browse
    PROVE  KeysShow'
<1>1. /\ cache = [k \in Keys |-> cache[k]] /\ flight = [k \in Keys |-> flight[k]]
      /\ acting' = acting
  BY DEF PortalTypeOK, Browse, Visit, ServeFetch, FetchArrives, FetchFails, TurnsStale
<1>2. ASSUME NEW p \in Routes, Visit(p) PROVE KeysShow'
  <2>1. cache' = cache /\ \A k \in Keys : flight'[k] \in {flight[k], Asked}
    <3>1. cache' = cache /\ GoTo(p)
      BY <1>2 DEF Visit
    <3>2. QED
      BY <1>1, <3>1 DEF GoTo, MountedFlight
  <2>2. QED
    BY <1>1, <2>1, ConstantFlights DEF KeysShow, KeyShows
<1>3. ASSUME NEW k \in Keys, ServeFetch(k) PROVE KeysShow'
  <2>1. PICK f : /\ flight' = [flight EXCEPT ![k] = f] /\ f.missed = "no" /\ cache' = cache
    BY <1>3 DEF ServeFetch
  <2>2. \A j \in Keys : flight'[j] = IF j = k THEN f ELSE flight[j]
    BY <1>1, <2>1
  <2>3. QED
    BY <1>1, <2>1, <2>2 DEF KeysShow, KeyShows
<1>4. ASSUME NEW k \in Keys, FetchArrives(k) PROVE KeysShow'
  <2> DEFINE arrived == [rows |-> flight[k].rows, state |-> "fresh", missed |-> flight[k].missed]
  <2>1. PICK c : /\ cache' = [cache EXCEPT ![k] = c]
                 /\ c = Gone(cache[k]) \/ c = arrived
    BY <1>4 DEF FetchArrives
  <2>2. flight' = [flight EXCEPT ![k] = NoFlight]
    BY <1>4 DEF FetchArrives
  <2>3. \A j \in Keys : /\ cache'[j] = IF j = k THEN c ELSE cache[j]
                        /\ flight'[j] = IF j = k THEN NoFlight ELSE flight[j]
    BY <1>1, <2>1, <2>2
  <2>4. \/ c.missed = cache[k].missed /\ c.state # "fresh"
        \/ c.missed = flight[k].missed
    <3>1. IsCopy(cache[k])
      BY DEF PortalTypeOK
    <3>2. CASE c = Gone(cache[k])
      BY <3>1, <3>2, MissedFields
    <3>3. CASE c = arrived
      BY <3>3
    <3>4. QED
      BY <2>1, <3>2, <3>3
  <2>5. QED
    BY <1>1, <2>3, <2>4, ConstantFlights DEF KeysShow, KeyShows
<1>5. ASSUME NEW k \in Keys, FetchFails(k) PROVE KeysShow'
  <2>1. flight' = [flight EXCEPT ![k] = NoFlight] /\ cache' = cache
    BY <1>5 DEF FetchFails
  <2>2. \A j \in Keys : flight'[j] = IF j = k THEN NoFlight ELSE flight[j]
    BY <1>1, <2>1
  <2>3. QED
    BY <1>1, <2>1, <2>2, ConstantFlights DEF KeysShow, KeyShows
<1>6. ASSUME NEW k \in Keys, TurnsStale(k) PROVE KeysShow'
  <2>1. PICK c : c = cache[k]
    OBVIOUS
  <2>2. IsCopy(c)
    BY <2>1 DEF PortalTypeOK
  <2>3. cache' = [cache EXCEPT ![k] = [c EXCEPT !.state = "stale"]] /\ flight' = flight
    BY <1>6, <2>1 DEF TurnsStale
  <2>4. /\ [c EXCEPT !.state = "stale"].state = "stale"
        /\ [c EXCEPT !.state = "stale"].missed = c.missed
    BY <2>2 DEF IsCopy
  <2>5. \A j \in Keys : cache'[j] = IF j = k THEN [c EXCEPT !.state = "stale"] ELSE cache[j]
    BY <1>1, <2>3
  <2>6. QED
    BY <1>1, <2>1, <2>3, <2>4, <2>5 DEF KeysShow, KeyShows
<1>7. QED
  BY <1>2, <1>3, <1>4, <1>5, <1>6 DEF Browse

\* A write of the page's own is pending from its commit on, for the keys
\* that hearing of it will invalidate.
LEMMA WriteShows ==
    ASSUME PortalTypeOK, KeysShow, ServeSend \/ ServeRemind \/ ServeCredit
    PROVE  KeysShow'
<1>1. /\ acting.pc = "asked" /\ acting.op \in {"send", "remind", "credit"}
      /\ AllOvertaken(acting.doc) /\ \E r : Done(r)
  BY DEF ServeSend, ServeRemind, ServeCredit
<1>2. Hearing(acting') /\ acting'.doc = acting.doc
  BY <1>1 DEF PortalTypeOK, Done, Hearing
<1> SUFFICES ASSUME NEW k \in Keys
             PROVE  KeyShows(cache'[k], flight'[k], acting', k)
  BY DEF KeysShow
<1>3. KeyShows(cache[k], flight[k], acting, k) /\ ~Hearing(acting)
      /\ IsCopy(cache[k]) /\ IsFlight(flight[k])
  BY <1>1 DEF KeysShow, Hearing, PortalTypeOK
<1>4. PICK read, answered :
        /\ cache'[k] = Overtaken(cache[k], read)
        /\ flight'[k] = Overtaken(flight[k], answered)
        /\ read \/ answered => k \in {acting.doc, "invoices"}
  BY <1>1 DEF AllOvertaken
<1>5. /\ cache'[k].missed = IF read THEN "pending" ELSE cache[k].missed
      /\ cache'[k].state = cache[k].state
      /\ flight'[k].missed = IF answered THEN "pending" ELSE flight[k].missed
  BY <1>3, <1>4, MissedFields
<1>6. QED
  BY <1>2, <1>3, <1>4, <1>5 DEF KeyShows

\* Hearing of it: what was read of the row before the write is told to be
\* stale or read again, and what is in the air is restarted or crossed it.
LEMMA HearShows ==
    ASSUME PortalTypeOK, KeysShow, HearInvalidating
    PROVE  KeysShow'
<1> SUFFICES ASSUME NEW k \in Keys
             PROVE  KeyShows(cache'[k], flight'[k], acting', k)
  BY DEF KeysShow
<1>1. KeyShows(cache[k], flight[k], acting, k) /\ IsCopy(cache[k]) /\ IsFlight(flight[k])
  BY DEF KeysShow, PortalTypeOK
<1>2. PICK c : c = Told(cache[k], "yes")
  OBVIOUS
<1>3. /\ c.missed = IF cache[k].missed = "pending" THEN "yes" ELSE cache[k].missed
      /\ c.state = cache[k].state
  BY <1>1, <1>2, MissedFields
<1>4. IsCopy(c)
  <2>1. PICK S \in SUBSET Docs :
            cache[k] \in [rows: [S -> PublicRow], state: CopyState, missed: Missed]
    BY <1>1 DEF IsCopy, CopyState
  <2>2. c \in [rows: [S -> PublicRow], state: CopyState, missed: Missed]
    BY <1>2, <2>1 DEF Told, Missed
  <2>3. QED
    BY <2>2 DEF IsCopy, CopyState
<1>5. cache'[k] = [c EXCEPT !.state =
                    IF Invalidates(k, acting.doc) /\ c.state = "fresh" THEN "stale" ELSE c.state]
  BY <1>2 DEF HearInvalidating
<1>6. /\ cache'[k].missed = c.missed
      /\ cache'[k].state = IF Invalidates(k, acting.doc) /\ c.state = "fresh"
                           THEN "stale" ELSE c.state
  BY <1>4, <1>5 DEF IsCopy
<1>7. \/ flight'[k] = Asked
      \/ /\ flight'[k] = Told(flight[k], "crossed")
      \/ /\ flight'[k] = Told(flight[k], "yes")
         /\ ~(Invalidates(k, acting.doc) /\ Refetched(k))
         /\ Mounted(k) /\ cache[k].state # "none"
  BY DEF HearInvalidating
<1>8. "pending" \in {cache[k].missed, flight[k].missed} => Invalidates(k, acting.doc)
  BY <1>1 DEF KeyShows, Invalidates
<1>9. flight'[k].missed \notin {"pending", "yes"}
  <2>1. CASE flight'[k] = Asked
    BY <2>1, ConstantFlights
  <2>2. CASE flight'[k] = Told(flight[k], "crossed")
    BY <1>1, <2>2, MissedFields DEF KeyShows
  <2>3. CASE /\ flight'[k] = Told(flight[k], "yes")
             /\ ~(Invalidates(k, acting.doc) /\ Refetched(k))
             /\ Mounted(k) /\ cache[k].state # "none"
    <3>1. flight[k].missed \notin {"pending", "yes"}
      BY <1>1, <1>8, <2>3 DEF KeyShows, Refetched
    <3>2. QED
      BY <1>1, <2>3, <3>1, MissedFields
  <2>4. QED
    BY <1>7, <2>1, <2>2, <2>3
<1>10. cache'[k].missed # "pending" /\ (cache'[k].state = "fresh" => cache'[k].missed # "yes")
  BY <1>1, <1>3, <1>6, <1>8 DEF KeyShows
<1>11. QED
  BY <1>9, <1>10 DEF KeyShows

\* What a write invalidates is never shown as fresh with the write missing.
LEMMA ShowNext ==
    ASSUME ShowInv, [Next]_vars
    PROVE  ShowInv'
<1>1. TypeAndBooks' /\ PortalTypeOK /\ KeysShow
  BY BooksNext DEF ShowInv, TypeAndBooks
<1>2. ASSUME UNCHANGED <<cache, flight>>, acting' = acting \/ ~Hearing(acting) PROVE KeysShow'
  BY <1>1, <1>2 DEF KeysShow, KeyShows
<1>3. Browse => KeysShow'
  BY <1>1, BrowseShows
<1>4. ServeSend \/ ServeRemind \/ ServeCredit => KeysShow'
  BY <1>1, WriteShows
<1>5. HearInvalidating => KeysShow'
  BY <1>1, HearShows
<1>6. ServeCreate \/ ServeLink \/ Refuse => KeysShow'
  BY <1>2 DEF ServeCreate, ServeLink, Refuse, Hearing
<1>7. ASSUME HearOther PROVE KeysShow'
  <2>1. ~Hearing(acting) /\ cache' = cache
    BY <1>7 DEF HearOther, Hearing
  <2>2. \A k \in Keys : flight'[k] \in {flight[k], Asked}
    <3>1. flight' = flight \/ \E p : GoTo(p)
      BY <1>7 DEF HearOther
    <3>2. flight = [k \in Keys |-> flight[k]]
      BY <1>1 DEF PortalTypeOK
    <3>3. QED
      BY <3>1, <3>2 DEF GoTo, MountedFlight
  <2>3. QED
    BY <1>1, <2>1, <2>2, ConstantFlights DEF KeysShow, KeyShows
<1>8. ASSUME ActFails PROVE KeysShow'
  <2> SUFFICES ASSUME NEW k \in Keys
               PROVE  KeyShows(cache'[k], flight'[k], acting', k)
    BY DEF KeysShow
  <2>1. /\ cache'[k] = Told(cache[k], "lost") /\ flight'[k] = Told(flight[k], "lost")
        /\ IsCopy(cache[k]) /\ IsFlight(flight[k]) /\ KeyShows(cache[k], flight[k], acting, k)
    BY <1>1, <1>8 DEF ActFails, PortalTypeOK, KeysShow
  <2>2. QED
    BY <2>1, MissedFields DEF KeyShows
<1>9. PressCreate \/ (\E op \in {"send", "remind", "link", "credit"} : Press(op)) => KeysShow'
  BY <1>2 DEF PressCreate, Press, Hearing, NoAct
<1>10. CreatedElsewhere \/ (\E d \in Docs : WrittenElsewhere(d))
         \/ (\E d \in Docs : CreditedElsewhere(d)) => KeysShow'
  BY <1>2 DEF CreatedElsewhere, WrittenElsewhere, CreditedElsewhere, portalVars
<1>11. UNCHANGED vars => KeysShow'
  BY <1>2 DEF vars, portalVars
<1>12. KeysShow'
  BY <1>3, <1>4, <1>5, <1>6, <1>7, <1>8, <1>9, <1>10, <1>11, NextCases, Zenon
<1>13. QED
  BY <1>1, <1>12 DEF ShowInv

\* OwnWritesShow: once the page has heard of the user's own action, no copy
\* read before it passes for fresh, except through the two gaps the property
\* names: invalidate() reaches both keys of what send, remind and credit
\* write, whatever fetches were in the air.
THEOREM UsersSeeTheirWrites == Spec => []OwnWritesShow
<1>1. Init => ShowInv
  BY ShowInit
<1>2. ShowInv /\ [Next]_vars => ShowInv'
  BY ShowNext
<1>3. ShowInv => OwnWritesShow
  BY DEF ShowInv, KeysShow, KeyShows, OwnWritesShow
<1>4. QED
  BY <1>1, <1>2, <1>3, PTL DEF Spec
=============================================================================
